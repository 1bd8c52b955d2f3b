------------------------ MODULE BrowserSessionProofs ------------------------
(***************************************************************************)
(* The client keeps its session, for any number of tabs, requests and      *)
(* sign-ins: a session ends as replayed only when one of its refresh       *)
(* tokens was presented by two tabs at once, or again after its answer was *)
(* lost.                                                                   *)
(***************************************************************************)
EXTENDS BrowserSession, TLAPS

\* A session that runs and none of whose tokens has an excuse.
Kept(s) ==
    /\ s \in Sessions
    /\ over[s] = "no"
    /\ \A k \in excused : k.session # s

Carries(t, at, s) == refresh[t].at = at /\ refresh[t].carried.session = s

\* What a refresh carries is good until the server has seen it.
SentIsGood ==
    \A t \in Tabs : \A s \in Sessions :
        Carries(t, "sent", s) /\ Kept(s) => refresh[t].carried.generation = generation[s]

\* What it brings back is good, and is the same session's.
AnswerIsGood ==
    \A t \in Tabs : \A s \in Sessions :
        Carries(t, "answered", s) /\ Kept(s) =>
            refresh[t].answer.session = s /\ refresh[t].answer.generation = generation[s]

AnswerIsOwn ==
    \A t \in Tabs : refresh[t].answer.session \in Sessions =>
        refresh[t].at = "answered" /\ refresh[t].carried.session = refresh[t].answer.session

\* The cookie is good, or the answer that replaces it is on its way.
CookieIsGood ==
    \A s \in Sessions : cookie.session = s /\ Kept(s) =>
        \/ cookie.generation = generation[s]
        \/ \E t \in Tabs : refresh[t].at = "answered" /\ refresh[t].carried = cookie

\* While an answer is on its way the cookie is the token it replaces, and no
\* other refresh of the session is in flight.
AnswerIsAwaited ==
    \A t \in Tabs : \A s \in Sessions :
        Carries(t, "answered", s) /\ Kept(s) =>
            /\ cookie.session = s => cookie = refresh[t].carried
            /\ \A u \in Tabs : u # t => ~Carries(u, "sent", s) /\ ~Carries(u, "answered", s)

\* Two tabs present one token only with an excuse.
FlightsDiffer ==
    \A t, u \in Tabs : \A s \in Sessions :
        /\ t # u /\ Kept(s)
        /\ refresh[t].at # "none" /\ refresh[u].at # "none"
        /\ refresh[t].carried.session = s
        => refresh[t].carried # refresh[u].carried

\* Nobody in the browser has a token of the session.
Unheld(s) ==
    /\ cookie.session # s
    /\ \A t \in Tabs : refresh[t].carried.session # s /\ refresh[t].answer.session # s

SigningIn(t, s) == op[t].at = "signing in" /\ op[t].session = s

\* A session is new until the answer to its sign-in arrives.
NewIsUnheld ==
    /\ \A s \in Sessions : generation[s] = 0 =>
          Unheld(s) /\ \A t \in Tabs : ~SigningIn(t, s)
    /\ \A t \in Tabs : \A s \in Sessions : SigningIn(t, s) =>
          /\ generation[s] = 1 /\ Unheld(s)
          /\ \A u \in Tabs : u # t => ~SigningIn(u, s)

IInv ==
    /\ SessionIsKept
    /\ SentIsGood /\ AnswerIsGood /\ AnswerIsOwn
    /\ CookieIsGood /\ AnswerIsAwaited /\ FlightsDiffer /\ NewIsUnheld

-----------------------------------------------------------------------------
(* Types.                                                                  *)

LEMMA NothingIsAToken == NoCookie \in Token
BY DEF NoCookie, Token, SessionOrNone

LEMMA NothingIsARefresh == NoRefresh \in Refresh
BY NothingIsAToken DEF NoRefresh, Refresh

LEMMA NothingIsAnOp == NoOp \in Op
BY DEF NoOp, Op, SessionOrNone

LEMMA EndedIsACall ==
    ASSUME NEW how \in {"ended", "refused"}
    PROVE  Ended(how) \in Call /\ Ended(how).at = how
BY DEF Ended, NoCall, Call, SessionOrNone

LEMMA JoinKeepsTypes ==
    ASSUME TypeOK, NEW t \in Tabs, JoinRefresh(t)
    PROVE  refresh' \in [Tabs -> Refresh] /\ excused' \subseteq Token
<1> DEFINE new == [at |-> "sent", carried |-> cookie, answer |-> NoCookie]
<1>1. new \in Refresh
    BY NothingIsAToken DEF TypeOK, Refresh
<1> HIDE DEF new
<1>2. CASE refresh[t].at # "none"
    BY <1>2 DEF TypeOK, JoinRefresh
<1>3. CASE refresh[t].at = "none"
  <2>1. refresh' = [refresh EXCEPT ![t] = new]
    BY <1>3 DEF JoinRefresh, new
  <2>2. excused' \subseteq excused \union {cookie}
    BY <1>3 DEF JoinRefresh
  <2> QED
    BY <1>1, <2>1, <2>2 DEF TypeOK
<1> QED
    BY <1>2, <1>3

LEMMA SettlingKeepsTypes ==
    ASSUME TypeOK, NEW t \in Tabs, NEW outcome \in {"token", "none", "error"}, Settle(t, outcome)
    PROVE  /\ refresh' \in [Tabs -> Refresh]
           /\ call' \in [Calls -> Call]
           /\ CallsHaveTabs'
<1>1. ASSUME NEW c \in WaitingIn(t)
      PROVE  /\ Resumed(c, outcome) \in Call
             /\ Resumed(c, outcome).at \in {"waiting", "sent"} => Resumed(c, outcome).tab \in Tabs
  <2>1. call[c] \in Call /\ call[c].tab = t
    BY <1>1 DEF TypeOK, WaitingIn
  <2>2. /\ Ended("refused") \in Call /\ Ended("refused").at = "refused"
        /\ Ended("ended") \in Call /\ Ended("ended").at = "ended"
    BY EndedIsACall
  <2>3. CASE outcome = "token"
    BY <2>1, <2>3 DEF Resumed, Call
  <2>4. CASE outcome = "error"
    BY <2>2, <2>4 DEF Resumed
  <2>5. CASE outcome = "none" /\ call[c].kind = "file"
    BY <2>1, <2>5 DEF Resumed, Call
  <2>6. CASE outcome = "none" /\ call[c].kind = "api"
    BY <2>2, <2>6 DEF Resumed
  <2>7. call[c].kind \in {"api", "file"}
    BY <2>1 DEF Call
  <2> QED
    BY <2>3, <2>4, <2>5, <2>6, <2>7
<1>2. \A c \in Calls : call[c] \in Call /\ (call[c].at \in {"waiting", "sent"} => call[c].tab \in Tabs)
    BY DEF TypeOK, CallsHaveTabs
<1>3. refresh' \in [Tabs -> Refresh]
    BY NothingIsARefresh DEF TypeOK, Settle
<1>4. call' = [c \in Calls |-> IF c \in WaitingIn(t) THEN Resumed(c, outcome) ELSE call[c]]
    BY DEF Settle
<1> QED
    BY <1>1, <1>2, <1>3, <1>4 DEF CallsHaveTabs

LEMMA InitHasTypes == Init => TypeOK
BY NothingIsAToken, NothingIsARefresh, NothingIsAnOp
   DEF Init, TypeOK, CallsHaveTabs, NoCall, Call, SessionOrNone

LEMMA ServeRefreshKeepsTypes ==
    ASSUME TypeOK, NEW t \in Tabs, ServeRefresh(t) PROVE TypeOK'
<1> DEFINE presented == refresh[t].carried
           s == presented.session
           good == s # NoSession /\ over[s] = "no" /\ presented.generation = generation[s]
           answer == IF good THEN [presented EXCEPT !.generation = @ + 1] ELSE NoCookie
<1>1. presented \in Token
    BY DEF TypeOK, Refresh
<1>2. answer \in Token
    BY <1>1, NothingIsAToken DEF Token
<1>3. refresh' = [refresh EXCEPT ![t].at = "answered", ![t].answer = answer]
    BY DEF ServeRefresh
<1>4. refresh' \in [Tabs -> Refresh]
  <2> HIDE DEF answer
  <2>1. refresh[t] \in Refresh
    BY DEF TypeOK
  <2>2. [refresh[t] EXCEPT !.at = "answered", !.answer = answer] \in Refresh
    BY <1>2, <2>1 DEF Refresh
  <2>3. refresh' = [refresh EXCEPT ![t] = [refresh[t] EXCEPT !.at = "answered", !.answer = answer]]
    BY <1>3 DEF TypeOK
  <2> DEFINE new == [refresh[t] EXCEPT !.at = "answered", !.answer = answer]
  <2> HIDE DEF new
  <2>4. new \in Refresh /\ refresh' = [refresh EXCEPT ![t] = new]
    BY <2>2, <2>3 DEF new
  <2> QED
    BY <2>4 DEF TypeOK
<1>5. generation' \in [Sessions -> Nat]
  <2>1. generation' = IF good THEN [generation EXCEPT ![s] = @ + 1] ELSE generation
    BY DEF ServeRefresh
  <2>2. CASE good
    <3>1. s \in Sessions
      BY <1>1, <2>2 DEF Token, SessionOrNone
    <3>2. generation' = [generation EXCEPT ![s] = @ + 1]
      BY <2>1, <2>2
    <3>3. generation \in [Sessions -> Nat]
      BY DEF TypeOK
    <3> HIDE DEF s
    <3> QED
      BY <3>1, <3>2, <3>3
  <2>3. CASE ~good
    <3>1. generation' = generation
      BY <2>1, <2>3
    <3> QED
      BY <3>1 DEF TypeOK
  <2> QED
    BY <2>2, <2>3
<1>6. over' \in [Sessions -> {"no", "signed out", "replayed"}]
    BY DEF ServeRefresh, TypeOK
<1> QED
    BY <1>4, <1>5, <1>6 DEF ServeRefresh, TypeOK, CallsHaveTabs, tabVars

LEMMA RefreshErrsKeepsTypes ==
    ASSUME TypeOK, NEW t \in Tabs, RefreshErrs(t) PROVE TypeOK'
<1> DEFINE new == [refresh[t] EXCEPT !.at = "errored", !.answer = NoCookie]
<1>1. new \in Refresh /\ refresh[t].carried \in Token
    BY NothingIsAToken DEF TypeOK, Refresh
<1>2. refresh' = [refresh EXCEPT ![t] = new]
    BY DEF RefreshErrs, TypeOK
<1> HIDE DEF new
<1>3. refresh' \in [Tabs -> Refresh]
    BY <1>1, <1>2 DEF TypeOK
<1>4. excused' \subseteq Token
    BY <1>1 DEF RefreshErrs, TypeOK
<1> QED
    BY <1>3, <1>4 DEF RefreshErrs, TypeOK, CallsHaveTabs, serverVars, tabVars

LEMMA RefreshAnswersKeepsTypes ==
    ASSUME TypeOK, NEW t \in Tabs, RefreshAnswers(t) PROVE TypeOK'
<1>1. refresh[t].answer \in Token /\ refresh[t].answer.session \in SessionOrNone
    BY DEF TypeOK, Refresh, Token
<1>2. \E outcome \in {"token", "none", "error"} : Settle(t, outcome)
    BY DEF RefreshAnswers
<1>3. refresh' \in [Tabs -> Refresh] /\ call' \in [Calls -> Call] /\ CallsHaveTabs'
    BY <1>2, SettlingKeepsTypes
<1>4. /\ probe' \in [Tabs -> {"unopened", "refreshing", "asking", "done", "closed"}]
      /\ user' \in [Tabs -> BOOLEAN]
    BY DEF RefreshAnswers, TypeOK
<1> QED
    BY <1>1, <1>3, <1>4 DEF RefreshAnswers, TypeOK, serverVars

LEMMA RefreshFailsKeepsTypes ==
    ASSUME TypeOK, NEW t \in Tabs, RefreshFails(t) PROVE TypeOK'
<1>1. refresh[t].carried \in Token
    BY DEF TypeOK, Refresh
<1>2. refresh' \in [Tabs -> Refresh] /\ call' \in [Calls -> Call] /\ CallsHaveTabs'
    BY SettlingKeepsTypes DEF RefreshFails
<1>3. /\ probe' \in [Tabs -> {"unopened", "refreshing", "asking", "done", "closed"}]
      /\ user' \in [Tabs -> BOOLEAN]
    BY DEF RefreshFails, TypeOK
<1> QED
    BY <1>1, <1>2, <1>3 DEF RefreshFails, TypeOK, serverVars

LEMMA CloseTabKeepsTypes ==
    ASSUME TypeOK, NEW t \in Tabs, CloseTab(t) PROVE TypeOK'
<1>1. refresh[t].carried \in Token
    BY DEF TypeOK, Refresh
<1>2. Ended("ended") \in Call /\ Ended("ended").at = "ended"
    BY EndedIsACall
<1>3. call' \in [Calls -> Call] /\ CallsHaveTabs'
    BY <1>2 DEF CloseTab, TypeOK, CallsHaveTabs
<1>4. refresh' \in [Tabs -> Refresh] /\ op' \in [Tabs -> Op]
    BY NothingIsARefresh, NothingIsAnOp DEF CloseTab, TypeOK
<1> QED
    BY <1>1, <1>3, <1>4 DEF CloseTab, TypeOK, serverVars, SessionOrNone

LEMMA TabStepKeepsTypes ==
    ASSUME TypeOK, NEW t \in Tabs, OpenTab(t) \/ ProbeAnswers(t) \/ Expire(t)
    PROVE  TypeOK'
<1>1. CASE OpenTab(t)
  <2>1. refresh' \in [Tabs -> Refresh] /\ excused' \subseteq Token
    BY <1>1, JoinKeepsTypes DEF OpenTab
  <2> QED
    BY <1>1, <2>1 DEF OpenTab, TypeOK, CallsHaveTabs, serverVars
<1>2. CASE ProbeAnswers(t)
    BY <1>2 DEF ProbeAnswers, TypeOK, CallsHaveTabs, serverVars
<1>3. CASE Expire(t)
    BY <1>3 DEF Expire, TypeOK, CallsHaveTabs, serverVars
<1> QED
    BY <1>1, <1>2, <1>3

LEMMA SigningKeepsTypes ==
    ASSUME TypeOK, NEW t \in Tabs,
           \/ \E s \in Sessions : SignIn(t, s)
           \/ SignInAnswers(t) \/ SignInFails(t)
           \/ SignOut(t) \/ ServeSignOut(t) \/ SignOutAnswers(t) \/ SignOutFails(t)
    PROVE  TypeOK'
<1>1. op[t] \in Op /\ op[t].session \in SessionOrNone /\ cookie.session \in SessionOrNone
    BY DEF TypeOK, Op, Token
<1>2. NoSession \in SessionOrNone /\ Sessions \subseteq SessionOrNone
    BY DEF SessionOrNone
<1>3. ASSUME NEW s \in Sessions, SignIn(t, s) PROVE TypeOK'
  <2>1. op' \in [Tabs -> Op]
    BY <1>2, <1>3 DEF SignIn, TypeOK, Op
  <2> QED
    BY <1>3, <2>1 DEF SignIn, TypeOK, CallsHaveTabs, tabVars
<1>4. CASE SignInAnswers(t)
  <2>1. cookie' \in Token
    BY <1>1, <1>4 DEF SignInAnswers, Token
  <2> QED
    BY <1>1, <1>4, <2>1, NothingIsAnOp DEF SignInAnswers, TypeOK, CallsHaveTabs, serverVars
<1>5. CASE SignInFails(t)
    BY <1>5, NothingIsAnOp DEF SignInFails, TypeOK, CallsHaveTabs, serverVars, tabVars
<1>6. CASE SignOut(t)
  <2>1. op' \in [Tabs -> Op]
    BY <1>1, <1>6 DEF SignOut, TypeOK, Op
  <2> QED
    BY <1>6, <2>1 DEF SignOut, TypeOK, CallsHaveTabs, serverVars, tabVars
<1>7. CASE ServeSignOut(t)
  <2>1. op' \in [Tabs -> Op]
    BY <1>1, <1>7 DEF ServeSignOut, TypeOK, Op
  <2> QED
    BY <1>7, <2>1 DEF ServeSignOut, TypeOK, CallsHaveTabs, tabVars
<1>8. CASE SignOutAnswers(t)
  <2>1. op' \in [Tabs -> Op]
    BY <1>2, <1>8 DEF SignOutAnswers, TypeOK, Op
  <2> QED
    BY <1>2, <1>8, <2>1, NothingIsAToken DEF SignOutAnswers, TypeOK, CallsHaveTabs, serverVars
<1>9. CASE SignOutFails(t)
  <2>1. op' \in [Tabs -> Op]
    BY <1>2, <1>9 DEF SignOutFails, TypeOK, Op
  <2> QED
    BY <1>2, <1>9, <2>1 DEF SignOutFails, TypeOK, CallsHaveTabs, serverVars
<1> QED
    BY <1>3, <1>4, <1>5, <1>6, <1>7, <1>8, <1>9

LEMMA CallKeepsTypes ==
    ASSUME TypeOK, NEW c \in Calls,
           \/ AnswerCall(c) \/ CallFails(c)
           \/ \E t \in Tabs, kind \in {"api", "file"} : StartCall(c, t, kind)
    PROVE  TypeOK'
<1>1. /\ Ended("refused") \in Call /\ Ended("refused").at = "refused"
      /\ Ended("ended") \in Call /\ Ended("ended").at = "ended"
    BY EndedIsACall
<1>2. CASE AnswerCall(c)
  <2>1. call[c] \in Call /\ call[c].tab \in Tabs
    BY <1>2 DEF AnswerCall, TypeOK, CallsHaveTabs
  <2>2. refresh' \in [Tabs -> Refresh] /\ excused' \subseteq Token
    BY <1>2, <2>1, JoinKeepsTypes DEF AnswerCall, TypeOK
  <2>3. call' \in [Calls -> Call] /\ CallsHaveTabs'
    <3> DEFINE waiting == [call[c] EXCEPT !.at = "waiting"]
    <3>1. waiting \in Call /\ waiting.tab \in Tabs
        BY <2>1 DEF Call
    <3>2. CASE ~call[c].good /\ MayRetry(c)
      <4>1. call' = [call EXCEPT ![c] = waiting]
        BY <1>2, <3>2 DEF AnswerCall, TypeOK
      <4> HIDE DEF waiting
      <4> QED
        BY <3>1, <4>1 DEF TypeOK, CallsHaveTabs
    <3>3. CASE ~(~call[c].good /\ MayRetry(c))
        BY <1>1, <1>2, <3>3 DEF AnswerCall, TypeOK, CallsHaveTabs
    <3> QED
        BY <3>2, <3>3
  <2> QED
    BY <1>2, <2>2, <2>3 DEF AnswerCall, TypeOK, serverVars, tabVars
<1>3. CASE CallFails(c)
  <2>1. call' \in [Calls -> Call] /\ CallsHaveTabs'
    BY <1>1, <1>3 DEF CallFails, TypeOK, CallsHaveTabs
  <2> QED
    BY <1>3, <2>1 DEF CallFails, TypeOK, serverVars, tabVars
<1>4. ASSUME NEW t \in Tabs, NEW kind \in {"api", "file"}, StartCall(c, t, kind)
      PROVE  TypeOK'
  <2>1. Sent(t, kind) \in Call /\ Sent(t, kind).tab = t
    BY DEF Sent, Call, TypeOK
  <2>2. refresh' \in [Tabs -> Refresh] /\ excused' \subseteq Token
    BY <1>4, JoinKeepsTypes DEF StartCall, TypeOK
  <2>3. [Sent(t, kind) EXCEPT !.at = "waiting"] \in Call /\ [Sent(t, kind) EXCEPT !.at = "waiting"].tab = t
    BY DEF Sent, Call, TypeOK
  <2>4. \E new \in Call : new.tab = t /\ call' = [call EXCEPT ![c] = new]
    BY <1>4, <2>1, <2>3, Zenon DEF StartCall
  <2>5. call' \in [Calls -> Call] /\ CallsHaveTabs'
    BY <2>4 DEF TypeOK, CallsHaveTabs
  <2> QED
    BY <1>4, <2>2, <2>5 DEF StartCall, TypeOK, serverVars, tabVars
<1> QED
    BY <1>2, <1>3, <1>4

\* Every variable keeps its type, and only a call of a tab is on its way.
THEOREM TypeCorrect == Spec => []TypeOK
<1>1. TypeOK /\ [Next]_vars => TypeOK'
  <2> SUFFICES ASSUME TypeOK, [Next]_vars PROVE TypeOK'
    OBVIOUS
  <2>1. CASE UNCHANGED vars
    BY <2>1 DEF TypeOK, CallsHaveTabs, vars, serverVars, tabVars
  <2>2. ASSUME NEW t \in Tabs, ServeRefresh(t) PROVE TypeOK'
    BY <2>2, ServeRefreshKeepsTypes
  <2>3. ASSUME NEW t \in Tabs, RefreshAnswers(t) \/ RefreshErrs(t) PROVE TypeOK'
    BY <2>3, RefreshAnswersKeepsTypes, RefreshErrsKeepsTypes
  <2>4. ASSUME NEW t \in Tabs, RefreshFails(t) PROVE TypeOK'
    BY <2>4, RefreshFailsKeepsTypes
  <2>5. ASSUME NEW t \in Tabs, CloseTab(t) PROVE TypeOK'
    BY <2>5, CloseTabKeepsTypes
  <2>6. ASSUME NEW t \in Tabs, OpenTab(t) \/ ProbeAnswers(t) \/ Expire(t) PROVE TypeOK'
    BY <2>6, TabStepKeepsTypes
  <2>7. ASSUME NEW t \in Tabs,
               \/ \E s \in Sessions : SignIn(t, s)
               \/ SignInAnswers(t) \/ SignInFails(t)
               \/ SignOut(t) \/ ServeSignOut(t) \/ SignOutAnswers(t) \/ SignOutFails(t)
        PROVE  TypeOK'
    BY <2>7, SigningKeepsTypes
  <2>8. ASSUME NEW c \in Calls,
               \/ AnswerCall(c) \/ CallFails(c)
               \/ \E t \in Tabs, kind \in {"api", "file"} : StartCall(c, t, kind)
        PROVE  TypeOK'
    BY <2>8, CallKeepsTypes
  <2> QED
    BY <2>1, <2>2, <2>3, <2>4, <2>5, <2>6, <2>7, <2>8 DEF Next
<1> QED
    BY <1>1, InitHasTypes, PTL DEF Spec

-----------------------------------------------------------------------------
(* The session is kept.  One lemma for each shape of step.                  *)

LEMMA InitKeeps == Init => IInv
<1> SUFFICES ASSUME Init PROVE IInv
  OBVIOUS
<1>1. /\ \A t \in Tabs : /\ refresh[t].at = "none"
                       /\ refresh[t].carried.session = NoSession
                       /\ refresh[t].answer.session = NoSession
                       /\ op[t].at = "none"
      /\ cookie.session = NoSession
  BY DEF Init, NoRefresh, NoCookie, NoOp
<1>2. \A s \in Sessions : s # NoSession /\ over[s] = "no"
  BY NoSessionAssumption DEF Init
<1>3. SessionIsKept
  BY <1>2 DEF SessionIsKept
<1>4. SentIsGood /\ AnswerIsGood /\ AnswerIsOwn
  BY <1>1, <1>2 DEF SentIsGood, AnswerIsGood, AnswerIsOwn, Carries
<1>5. CookieIsGood /\ AnswerIsAwaited /\ FlightsDiffer
  BY <1>1, <1>2 DEF CookieIsGood, AnswerIsAwaited, FlightsDiffer, Carries
<1>6. NewIsUnheld
  BY <1>1, <1>2 DEF NewIsUnheld, Unheld, SigningIn
<1> QED
  BY <1>3, <1>4, <1>5, <1>6 DEF IInv

\* A step that touches no refresh token may end a session and a sign-in.
LEMMA QuietKeeps ==
    ASSUME IInv,
           UNCHANGED <<generation, cookie, refresh, excused>>,
           \A s \in Sessions : over'[s] = "no" => over[s] = "no",
           \A s \in Sessions : over'[s] = "replayed" => over[s] = "replayed",
           \A t \in Tabs : \A s \in Sessions : SigningIn(t, s)' => SigningIn(t, s)
    PROVE  IInv'
<1>1. SessionIsKept'
    BY DEF IInv, SessionIsKept
<1>2. \A s \in Sessions : Kept(s)' => Kept(s)
    BY DEF Kept
<1>3. \A t \in Tabs : \A s \in Sessions : \A at : Carries(t, at, s)' <=> Carries(t, at, s)
    BY DEF Carries
<1>4. SentIsGood' /\ AnswerIsGood' /\ AnswerIsOwn'
    BY <1>2, <1>3 DEF IInv, SentIsGood, AnswerIsGood, AnswerIsOwn
<1>5. CookieIsGood' /\ AnswerIsAwaited' /\ FlightsDiffer'
    BY <1>2, <1>3 DEF IInv, CookieIsGood, AnswerIsAwaited, FlightsDiffer
<1>6. \A s : Unheld(s)' <=> Unheld(s)
    BY DEF Unheld
<1>7. NewIsUnheld'
    BY <1>6 DEF IInv, NewIsUnheld
<1> QED
    BY <1>1, <1>4, <1>5, <1>7 DEF IInv

\* A tab joins its refresh, or presents the cookie.
LEMMA JoinKeeps ==
    ASSUME TypeOK, IInv, NEW t \in Tabs, JoinRefresh(t),
           UNCHANGED <<generation, over, cookie, op>>
    PROVE  IInv'
<1>1. CASE refresh[t].at # "none"
    BY <1>1, QuietKeeps DEF JoinRefresh, SigningIn
<1>2. CASE refresh[t].at = "none"
  <2>1. /\ \A u \in Tabs \ {t} : refresh'[u] = refresh[u]
        /\ refresh'[t].at = "sent" /\ refresh'[t].carried = cookie
        /\ refresh'[t].answer.session \notin Sessions
    <3> DEFINE new == [at |-> "sent", carried |-> cookie, answer |-> NoCookie]
    <3>1. new.at = "sent" /\ new.carried = cookie /\ new.answer.session = NoSession
      BY DEF NoCookie
    <3>2. refresh' = [refresh EXCEPT ![t] = new] /\ refresh \in [Tabs -> Refresh]
      BY <1>2 DEF JoinRefresh, TypeOK
    <3> HIDE DEF new
    <3> QED
      BY <3>1, <3>2, NoSessionAssumption
  <2>2. /\ excused \subseteq excused'
        /\ \A u \in Tabs : refresh[u].at # "none" /\ refresh[u].carried = cookie => cookie \in excused'
    BY <1>2 DEF JoinRefresh
  <2>3. \A s \in Sessions : Kept(s)' => Kept(s)
    BY <2>2 DEF Kept
  <2>4. \A s \in Sessions : Kept(s)' /\ cookie.session = s =>
            \A u \in Tabs : refresh[u].at # "none" => refresh[u].carried # cookie
    BY <2>2 DEF Kept
  <2>5. SessionIsKept'
    BY <2>2 DEF IInv, SessionIsKept
  <2>6. SentIsGood'
    BY <2>1, <2>3, <2>4 DEF IInv, SentIsGood, CookieIsGood, Carries
  <2>7. AnswerIsGood' /\ AnswerIsOwn'
    BY <2>1, <2>3 DEF IInv, AnswerIsGood, AnswerIsOwn, Carries
  <2>8. CookieIsGood'
    BY <2>1, <2>3, <2>4 DEF IInv, CookieIsGood
  <2>9. AnswerIsAwaited'
    BY <2>1, <2>3, <2>4 DEF IInv, AnswerIsAwaited, Carries
  <2>10. FlightsDiffer'
    BY <2>1, <2>3, <2>4 DEF IInv, FlightsDiffer
  <2>11. NewIsUnheld'
    <3>1. \A s \in Sessions : Unheld(s) => Unheld(s)'
        BY <2>1 DEF Unheld
    <3>2. \A u \in Tabs : \A s \in Sessions : SigningIn(u, s)' <=> SigningIn(u, s)
        BY DEF SigningIn
    <3> QED
        BY <3>1, <3>2 DEF IInv, NewIsUnheld
  <2> QED
    BY <2>5, <2>6, <2>7, <2>8, <2>9, <2>10, <2>11 DEF IInv
<1> QED
    BY <1>1, <1>2

\* The cookie is set or cleared as an answer arrives, and nothing is in flight
\* any more for the tab.
LEMMA AnswerKeeps ==
    ASSUME TypeOK, IInv, NEW t \in Tabs, RefreshAnswers(t), refresh[t].at = "answered"
    PROVE  IInv'
<1>1. /\ \A u \in Tabs \ {t} : refresh'[u] = refresh[u]
      /\ refresh'[t].at = "none" /\ refresh'[t].carried.session \notin Sessions
      /\ refresh'[t].answer.session \notin Sessions
  BY NoSessionAssumption DEF RefreshAnswers, Settle, TypeOK, NoRefresh, NoCookie
<1>2. /\ refresh[t].at = "answered" /\ cookie' = refresh[t].answer
      /\ UNCHANGED <<generation, over, op, excused>>
  BY DEF RefreshAnswers, serverVars
<1>3. \A s \in Sessions : Kept(s)' <=> Kept(s)
  BY <1>2 DEF Kept
<1>4. SessionIsKept'
  BY <1>2 DEF IInv, SessionIsKept
<1>5. SentIsGood' /\ AnswerIsGood' /\ AnswerIsOwn'
  BY <1>1, <1>2, <1>3 DEF IInv, SentIsGood, AnswerIsGood, AnswerIsOwn, Carries
<1>6. CookieIsGood'
  BY <1>2, <1>3 DEF IInv, CookieIsGood, AnswerIsGood, AnswerIsOwn, Carries
<1>7. AnswerIsAwaited'
  BY <1>1, <1>2, <1>3 DEF IInv, AnswerIsAwaited, AnswerIsOwn, Carries
<1>8. FlightsDiffer'
  BY <1>1, <1>3 DEF IInv, FlightsDiffer
<1>9. NewIsUnheld'
  <2>1. \A s \in Sessions : Unheld(s) => Unheld(s)'
    BY <1>1, <1>2 DEF Unheld
  <2>2. \A u \in Tabs : \A s \in Sessions : SigningIn(u, s)' <=> SigningIn(u, s)
    BY <1>2 DEF SigningIn
  <2> QED
    BY <1>2, <2>1, <2>2 DEF IInv, NewIsUnheld
<1> QED
  BY <1>4, <1>5, <1>6, <1>7, <1>8, <1>9 DEF IInv

\* A refresh is lost; if the server had answered it, its token has an excuse.
LEMMA DropKeeps ==
    ASSUME TypeOK, IInv, NEW t \in Tabs,
           refresh' = [refresh EXCEPT ![t] = NoRefresh],
           excused' = IF refresh[t].at = "answered" THEN excused \union {refresh[t].carried} ELSE excused,
           UNCHANGED <<generation, over, cookie>>,
           \A u \in Tabs : \A s \in Sessions : SigningIn(u, s)' => SigningIn(u, s)
    PROVE  IInv'
<1>1. /\ \A u \in Tabs \ {t} : refresh'[u] = refresh[u]
      /\ refresh'[t].at = "none" /\ refresh'[t].carried.session \notin Sessions
      /\ refresh'[t].answer.session \notin Sessions
  BY NoSessionAssumption DEF TypeOK, NoRefresh, NoCookie
<1>2. \A s \in Sessions : Kept(s)' => Kept(s)
  BY DEF Kept
<1>3. SessionIsKept'
  BY DEF IInv, SessionIsKept
<1>4. SentIsGood' /\ AnswerIsGood' /\ AnswerIsOwn'
  BY <1>1, <1>2 DEF IInv, SentIsGood, AnswerIsGood, AnswerIsOwn, Carries
<1>5. CookieIsGood'
  <2> SUFFICES ASSUME NEW s \in Sessions, cookie.session = s, Kept(s)', cookie.generation # generation[s]
               PROVE  \E u \in Tabs : refresh'[u].at = "answered" /\ refresh'[u].carried = cookie
    BY DEF CookieIsGood
  <2>1. PICK u \in Tabs : refresh[u].at = "answered" /\ refresh[u].carried = cookie
    BY <1>2 DEF IInv, CookieIsGood
  <2>2. u # t
    BY <2>1 DEF Kept
  <2> QED
    BY <1>1, <2>1, <2>2
<1>6. AnswerIsAwaited' /\ FlightsDiffer'
  BY <1>1, <1>2 DEF IInv, AnswerIsAwaited, FlightsDiffer, Carries
<1>7. NewIsUnheld'
  <2>1. \A s \in Sessions : Unheld(s) => Unheld(s)'
    BY <1>1 DEF Unheld
  <2> QED
    BY <2>1 DEF IInv, NewIsUnheld
<1> QED
  BY <1>3, <1>4, <1>5, <1>6, <1>7 DEF IInv

\* A refresh comes to nothing; if the server had answered it, its token has an
\* excuse.
LEMMA ErrKeeps ==
    ASSUME TypeOK, IInv, NEW t \in Tabs, RefreshErrs(t) PROVE IInv'
<1>1. /\ \A u \in Tabs \ {t} : refresh'[u] = refresh[u]
      /\ refresh'[t].at = "errored" /\ refresh'[t].carried = refresh[t].carried
      /\ refresh'[t].answer.session \notin Sessions
      /\ refresh[t].at # "none"
  BY NoSessionAssumption DEF RefreshErrs, TypeOK, Refresh, NoCookie
<1>2. /\ excused' = IF refresh[t].at = "answered" THEN excused \union {refresh[t].carried} ELSE excused
      /\ UNCHANGED <<generation, over, cookie, op>>
  BY DEF RefreshErrs, serverVars
<1>3. \A s \in Sessions : Kept(s)' => Kept(s)
  BY <1>2 DEF Kept
<1>4. SessionIsKept'
  BY <1>2 DEF IInv, SessionIsKept
<1>5. SentIsGood' /\ AnswerIsGood' /\ AnswerIsOwn'
  BY <1>1, <1>2, <1>3 DEF IInv, SentIsGood, AnswerIsGood, AnswerIsOwn, Carries
<1>6. CookieIsGood'
  <2> SUFFICES ASSUME NEW s \in Sessions, cookie.session = s, Kept(s)', cookie.generation # generation[s]
               PROVE  \E u \in Tabs : refresh'[u].at = "answered" /\ refresh'[u].carried = cookie
    BY <1>2 DEF CookieIsGood
  <2>1. PICK u \in Tabs : refresh[u].at = "answered" /\ refresh[u].carried = cookie
    BY <1>3 DEF IInv, CookieIsGood
  <2>2. u # t
    BY <1>2, <2>1 DEF Kept
  <2> QED
    BY <1>1, <2>1, <2>2
<1>7. AnswerIsAwaited'
  BY <1>1, <1>2, <1>3 DEF IInv, AnswerIsAwaited, Carries
<1>8. FlightsDiffer'
  <2> SUFFICES ASSUME NEW u \in Tabs, NEW v \in Tabs, NEW s \in Sessions, u # v, Kept(s)',
                      refresh'[u].at # "none", refresh'[v].at # "none", refresh'[u].carried.session = s
               PROVE  refresh'[u].carried # refresh'[v].carried
    BY DEF FlightsDiffer
  <2>1. refresh'[u].carried = refresh[u].carried /\ refresh'[v].carried = refresh[v].carried
    BY <1>1
  <2>2. refresh[u].at # "none" /\ refresh[v].at # "none"
    BY <1>1
  <2> QED
    BY <1>3, <2>1, <2>2 DEF IInv, FlightsDiffer
<1>9. NewIsUnheld'
  <2>1. \A s \in Sessions : Unheld(s) => Unheld(s)'
    <3> SUFFICES ASSUME NEW s \in Sessions, Unheld(s) PROVE Unheld(s)'
      OBVIOUS
    <3>1. \A u \in Tabs : refresh'[u].carried = refresh[u].carried
                           /\ (refresh'[u].answer = refresh[u].answer \/ refresh'[u].answer.session # s)
      BY <1>1
    <3> QED
      BY <1>2, <3>1 DEF Unheld
  <2>2. \A u \in Tabs : \A s \in Sessions : SigningIn(u, s)' <=> SigningIn(u, s)
    BY <1>2 DEF SigningIn
  <2> QED
    BY <1>2, <2>1, <2>2 DEF IInv, NewIsUnheld
<1> QED
  BY <1>4, <1>5, <1>6, <1>7, <1>8, <1>9 DEF IInv

\* The server starts a session of which nobody in the browser has a token.
LEMMA SignInKeeps ==
    ASSUME TypeOK, IInv, NEW t \in Tabs, NEW new \in Sessions, SignIn(t, new) PROVE IInv'
<1>1. /\ \A s \in Sessions \ {new} : generation'[s] = generation[s]
      /\ generation[new] = 0 /\ generation'[new] = 1
      /\ UNCHANGED <<over, cookie, refresh, excused>>
  BY DEF SignIn, TypeOK
<1>2. /\ \A u \in Tabs \ {t} : op'[u] = op[u]
      /\ op'[t].session = new
  BY DEF SignIn, TypeOK
<1>3. Unheld(new)
  BY <1>1 DEF IInv, NewIsUnheld
<1>4. \A s \in Sessions : Kept(s)' <=> Kept(s)
  BY <1>1 DEF Kept
<1>5. SessionIsKept'
  BY <1>1 DEF IInv, SessionIsKept
<1>6. SentIsGood' /\ AnswerIsGood' /\ AnswerIsOwn'
  BY <1>1, <1>3, <1>4 DEF IInv, SentIsGood, AnswerIsGood, AnswerIsOwn, Carries, Unheld
<1>7. CookieIsGood'
  BY <1>1, <1>3, <1>4 DEF IInv, CookieIsGood, Unheld
<1>8. AnswerIsAwaited' /\ FlightsDiffer'
  BY <1>1, <1>4 DEF IInv, AnswerIsAwaited, FlightsDiffer, Carries
<1>9. NewIsUnheld'
  <2>1. \A s : Unheld(s)' <=> Unheld(s)
    BY <1>1 DEF Unheld
  <2>2. \A u \in Tabs : ~SigningIn(u, new)
    BY <1>1 DEF IInv, NewIsUnheld
  <2>3. \A u \in Tabs : \A s \in Sessions : SigningIn(u, s)' => SigningIn(u, s) \/ (u = t /\ s = new)
    BY <1>2 DEF SigningIn
  <2>4. \A s \in Sessions : generation'[s] = 0 => generation[s] = 0 /\ s # new
    BY <1>1
  <2> QED
    BY <1>1, <1>3, <2>1, <2>2, <2>3, <2>4 DEF IInv, NewIsUnheld
<1> QED
  BY <1>5, <1>6, <1>7, <1>8, <1>9 DEF IInv

\* The new session's first token replaces the cookie.
LEMMA SignInAnswersKeeps ==
    ASSUME TypeOK, IInv, NEW t \in Tabs, SignInAnswers(t) PROVE IInv'
<1> DEFINE new == op[t].session
<1>1. /\ cookie'.session = new /\ cookie'.generation = 1
      /\ UNCHANGED <<generation, over, refresh, excused>>
  BY DEF SignInAnswers, serverVars
<1>2. /\ \A u \in Tabs \ {t} : op'[u] = op[u]
      /\ op'[t].at = "none"
  BY DEF SignInAnswers, TypeOK, NoOp
<1>3. new \in Sessions => SigningIn(t, new) /\ generation[new] = 1 /\ Unheld(new)
  BY DEF SignInAnswers, SigningIn, IInv, NewIsUnheld
<1>4. \A s \in Sessions : Kept(s)' <=> Kept(s)
  BY <1>1 DEF Kept
<1>5. SessionIsKept'
  BY <1>1 DEF IInv, SessionIsKept
<1>6. SentIsGood' /\ AnswerIsGood' /\ AnswerIsOwn' /\ FlightsDiffer'
  BY <1>1, <1>4 DEF IInv, SentIsGood, AnswerIsGood, AnswerIsOwn, FlightsDiffer, Carries
<1>7. CookieIsGood'
  BY <1>1, <1>3 DEF CookieIsGood
<1>8. AnswerIsAwaited'
  BY <1>1, <1>3, <1>4 DEF IInv, AnswerIsAwaited, Carries, Unheld
<1>9. NewIsUnheld'
  <2>1. \A s \in Sessions : Unheld(s) /\ s # new => Unheld(s)'
    BY <1>1 DEF Unheld
  <2>2. \A u \in Tabs : \A s \in Sessions : SigningIn(u, s)' => SigningIn(u, s) /\ u # t
    BY <1>2 DEF SigningIn
  <2>3. \A s \in Sessions : generation[s] = 0 => s # new
    BY <1>3
  <2>4. \A u \in Tabs : \A s \in Sessions : SigningIn(u, s)' => s # new
    BY <1>3, <2>2 DEF IInv, NewIsUnheld
  <2> QED
    BY <1>1, <2>1, <2>2, <2>3, <2>4 DEF IInv, NewIsUnheld
<1> QED
  BY <1>5, <1>6, <1>7, <1>8, <1>9 DEF IInv

\* The cookie is cleared.
LEMMA SignOutAnswersKeeps ==
    ASSUME TypeOK, IInv, NEW t \in Tabs, SignOutAnswers(t) PROVE IInv'
<1>1. cookie'.session \notin Sessions /\ UNCHANGED <<generation, over, refresh, excused>>
  BY NoSessionAssumption DEF SignOutAnswers, serverVars, NoCookie
<1>2. \A u \in Tabs : \A s \in Sessions : SigningIn(u, s)' => SigningIn(u, s)
  BY DEF SignOutAnswers, TypeOK, SigningIn
<1>3. \A s \in Sessions : Kept(s)' <=> Kept(s)
  BY <1>1 DEF Kept
<1>4. SessionIsKept'
  BY <1>1 DEF IInv, SessionIsKept
<1>5. SentIsGood' /\ AnswerIsGood' /\ AnswerIsOwn' /\ FlightsDiffer'
  BY <1>1, <1>3 DEF IInv, SentIsGood, AnswerIsGood, AnswerIsOwn, FlightsDiffer, Carries
<1>6. CookieIsGood' /\ AnswerIsAwaited'
  BY <1>1, <1>3 DEF IInv, CookieIsGood, AnswerIsAwaited, Carries
<1>7. NewIsUnheld'
  <2>1. \A s \in Sessions : Unheld(s) => Unheld(s)'
    BY <1>1 DEF Unheld
  <2> QED
    BY <1>1, <1>2, <2>1 DEF IInv, NewIsUnheld
<1> QED
  BY <1>4, <1>5, <1>6, <1>7 DEF IInv

\* The server rotates the token, ends the session, or refuses.
LEMMA ServeKeeps ==
    ASSUME TypeOK, IInv, NEW t \in Tabs, ServeRefresh(t) PROVE IInv'
<1> DEFINE presented == refresh[t].carried
           s0 == presented.session
           running == s0 # NoSession /\ over[s0] = "no"
           good == running /\ presented.generation = generation[s0]
<1>1. /\ \A u \in Tabs \ {t} : refresh'[u] = refresh[u]
      /\ refresh'[t].at = "answered" /\ refresh'[t].carried = presented
      /\ refresh[t].at = "sent"
      /\ UNCHANGED <<cookie, op, excused>>
  BY DEF ServeRefresh, TypeOK, Refresh
<1>2. running => s0 \in Sessions
  BY DEF TypeOK, Refresh, Token, SessionOrNone
<1>3. CASE ~good
  <2>1. refresh'[t].answer = NoCookie /\ UNCHANGED generation
    BY <1>3 DEF ServeRefresh, TypeOK, Refresh
  <2>2. refresh'[t].answer.session \notin Sessions
    BY <2>1, NoSessionAssumption DEF NoCookie
  <2>3. \A s \in Sessions : Kept(s)' => Kept(s) /\ s # s0
    <3>1. \A s \in Sessions : over'[s] = "no" => over[s] = "no" /\ s # s0
      BY <1>2, <1>3, NoSessionAssumption DEF ServeRefresh, TypeOK
    <3> QED
      BY <1>1, <3>1 DEF Kept
  <2>4. SessionIsKept'
    <3>1. running => \E k \in excused : k.session = s0
      BY <1>1, <1>2, <1>3 DEF IInv, SentIsGood, Carries, Kept
    <3>2. \A s \in Sessions : over'[s] = "replayed" => over[s] = "replayed" \/ (running /\ s = s0)
      BY <1>2, <1>3 DEF ServeRefresh, TypeOK
    <3> QED
      BY <1>1, <3>1, <3>2 DEF IInv, SessionIsKept
  <2>5. SentIsGood' /\ AnswerIsGood' /\ AnswerIsOwn'
    BY <1>1, <2>1, <2>2, <2>3 DEF IInv, SentIsGood, AnswerIsGood, AnswerIsOwn, Carries
  <2>6. CookieIsGood'
    BY <1>1, <2>1, <2>3 DEF IInv, CookieIsGood
  <2>7. AnswerIsAwaited' /\ FlightsDiffer'
    BY <1>1, <2>3 DEF IInv, AnswerIsAwaited, FlightsDiffer, Carries
  <2>8. NewIsUnheld'
    <3>1. \A s \in Sessions : Unheld(s) => Unheld(s)'
      BY <1>1, <2>2 DEF Unheld
    <3>2. \A u \in Tabs : \A s \in Sessions : SigningIn(u, s)' <=> SigningIn(u, s)
      BY <1>1 DEF SigningIn
    <3> QED
      BY <2>1, <3>1, <3>2 DEF IInv, NewIsUnheld
  <2> QED
    BY <2>4, <2>5, <2>6, <2>7, <2>8 DEF IInv
<1>4. CASE good
  <2>1. /\ s0 \in Sessions
        /\ UNCHANGED over
        /\ \A s \in Sessions \ {s0} : generation'[s] = generation[s]
        /\ generation'[s0] = generation[s0] + 1 /\ generation[s0] \in Nat
    BY <1>2, <1>4 DEF ServeRefresh, TypeOK
  <2>2. presented \in Token
    BY DEF TypeOK, Refresh
  <2>3. refresh'[t].answer = [presented EXCEPT !.generation = @ + 1]
    BY <1>4 DEF ServeRefresh, TypeOK, Refresh
  <2>4. refresh'[t].answer.session = s0 /\ refresh'[t].answer.generation = generation'[s0]
    BY <1>4, <2>1, <2>2, <2>3 DEF Token
  <2>5. \A s \in Sessions : Kept(s)' <=> Kept(s)
    BY <1>1, <2>1 DEF Kept
  \* A token of the session that is good is the one that was presented.
  <2>6. \A k \in Token : k.session = s0 /\ k.generation = generation[s0] => k = presented
    BY <1>4, <2>2 DEF Token
  <2>7. Kept(s0) => \A u \in Tabs \ {t} : ~Carries(u, "answered", s0)
    BY <1>1, <2>1 DEF IInv, AnswerIsAwaited, Carries
  <2>8. Kept(s0) => \A u \in Tabs \ {t} : ~Carries(u, "sent", s0)
    <3> SUFFICES ASSUME Kept(s0), NEW u \in Tabs \ {t}, Carries(u, "sent", s0) PROVE FALSE
      OBVIOUS
    <3>1. refresh[u].carried \in Token
      BY DEF TypeOK, Refresh
    <3>2. refresh[u].carried = presented
      BY <2>1, <2>6, <3>1 DEF IInv, SentIsGood, Carries
    <3> QED
      BY <1>1, <2>1, <3>2 DEF IInv, FlightsDiffer, Carries
  <2>9. Kept(s0) /\ cookie.session = s0 => cookie = presented
    <3> SUFFICES ASSUME Kept(s0), cookie.session = s0 PROVE cookie = presented
      OBVIOUS
    <3>1. CASE cookie.generation = generation[s0]
      BY <2>6, <3>1 DEF TypeOK
    <3>2. CASE \E u \in Tabs : refresh[u].at = "answered" /\ refresh[u].carried = cookie
      BY <1>1, <2>7, <3>2 DEF Carries
    <3> QED
      BY <2>1, <3>1, <3>2 DEF IInv, CookieIsGood
  <2> HIDE DEF presented, s0
  <2>10. refresh'[t].carried.session = s0
    BY <1>1 DEF s0
  <2>11. SessionIsKept'
    BY <1>1, <2>1 DEF IInv, SessionIsKept
  <2>12. SentIsGood'
    BY <1>1, <2>1, <2>5, <2>8 DEF IInv, SentIsGood, Carries
  <2>13. AnswerIsGood' /\ AnswerIsOwn'
    BY <1>1, <2>1, <2>4, <2>5, <2>7, <2>10 DEF IInv, AnswerIsGood, AnswerIsOwn, Carries
  <2>14. CookieIsGood'
    BY <1>1, <2>1, <2>5, <2>9 DEF IInv, CookieIsGood
  <2>15. AnswerIsAwaited'
    BY <1>1, <2>1, <2>5, <2>7, <2>8, <2>9, <2>10 DEF IInv, AnswerIsAwaited, Carries
  <2>16. FlightsDiffer'
    BY <1>1, <2>5 DEF IInv, FlightsDiffer, presented
  <2>17. NewIsUnheld'
    <3>1. ~Unheld(s0)
      BY DEF Unheld, presented, s0
    <3>2. \A s \in Sessions : Unheld(s) /\ s # s0 => Unheld(s)'
      BY <1>1, <2>4, <2>10 DEF Unheld
    <3>3. \A u \in Tabs : \A s \in Sessions : SigningIn(u, s)' <=> SigningIn(u, s)
      BY <1>1 DEF SigningIn
    <3>4. \A s \in Sessions : generation'[s] = 0 => generation[s] = 0
      BY <2>1
    <3> QED
      BY <2>1, <3>1, <3>2, <3>3, <3>4 DEF IInv, NewIsUnheld
  <2> QED
    BY <2>11, <2>12, <2>13, <2>14, <2>15, <2>16, <2>17 DEF IInv
<1> QED
  BY <1>3, <1>4

LEMMA TabStepKeeps ==
    ASSUME TypeOK, IInv, NEW t \in Tabs,
           \/ RefreshFails(t) \/ CloseTab(t) \/ OpenTab(t) \/ ProbeAnswers(t) \/ Expire(t)
           \/ SignInFails(t) \/ SignOut(t) \/ ServeSignOut(t) \/ SignOutFails(t)
    PROVE  IInv'
<1>1. CASE RefreshFails(t)
  <2>1. \A u \in Tabs : \A s \in Sessions : SigningIn(u, s)' => SigningIn(u, s)
    BY <1>1 DEF RefreshFails, SigningIn
  <2> QED
    BY <1>1, <2>1, DropKeeps DEF RefreshFails, Settle, serverVars
<1>2. CASE CloseTab(t)
  <2>1. \A u \in Tabs : \A s \in Sessions : SigningIn(u, s)' => SigningIn(u, s)
    BY <1>2 DEF CloseTab, SigningIn, TypeOK, NoOp
  <2> QED
    BY <1>2, <2>1, DropKeeps DEF CloseTab, serverVars
<1>3. CASE OpenTab(t)
  BY <1>3, JoinKeeps DEF OpenTab, serverVars
<1>4. CASE ProbeAnswers(t) \/ Expire(t)
  BY <1>4, QuietKeeps DEF ProbeAnswers, Expire, serverVars, SigningIn
<1>5. CASE SignInFails(t) \/ SignOut(t) \/ SignOutFails(t)
  <2>1. /\ UNCHANGED <<generation, over, cookie, refresh, excused>>
        /\ \E new : new.at # "signing in" /\ op' = [op EXCEPT ![t] = new]
    BY <1>5 DEF SignInFails, SignOut, SignOutFails, NoOp, serverVars
  <2>2. \A u \in Tabs : \A s \in Sessions : SigningIn(u, s)' => SigningIn(u, s)
    BY <2>1 DEF SigningIn, TypeOK
  <2> QED
    BY <2>1, <2>2, QuietKeeps
<1>6. CASE ServeSignOut(t)
  <2>1. \A u \in Tabs : \A s \in Sessions : SigningIn(u, s)' => SigningIn(u, s)
    BY <1>6 DEF ServeSignOut, SigningIn, TypeOK, Op
  <2>2. \A s \in Sessions : /\ over'[s] = "no" => over[s] = "no"
                            /\ over'[s] = "replayed" => over[s] = "replayed"
    BY <1>6 DEF ServeSignOut
  <2> QED
    BY <1>6, <2>1, <2>2, QuietKeeps DEF ServeSignOut
<1> QED
  BY <1>1, <1>2, <1>3, <1>4, <1>5, <1>6

LEMMA CallKeeps ==
    ASSUME TypeOK, IInv, NEW c \in Calls,
           \/ AnswerCall(c) \/ CallFails(c)
           \/ \E t \in Tabs, kind \in {"api", "file"} : StartCall(c, t, kind)
    PROVE  IInv'
<1>1. ASSUME UNCHANGED <<generation, over, cookie, refresh, op, excused>> PROVE IInv'
  BY <1>1, QuietKeeps DEF SigningIn
<1>2. CASE AnswerCall(c)
  <2>1. call[c].tab \in Tabs
    BY <1>2 DEF AnswerCall, TypeOK, CallsHaveTabs
  <2> QED
    BY <1>1, <1>2, <2>1, JoinKeeps DEF AnswerCall, serverVars
<1>3. CASE CallFails(c)
  BY <1>1, <1>3 DEF CallFails, serverVars
<1>4. ASSUME NEW t \in Tabs, NEW kind \in {"api", "file"}, StartCall(c, t, kind)
      PROVE  IInv'
  BY <1>1, <1>4, JoinKeeps DEF StartCall, serverVars
<1> QED
  BY <1>2, <1>3, <1>4

\* A session ends as replayed only when one of its refresh tokens was
\* presented by two tabs at once, or again after its answer was lost.
THEOREM SessionKept == Spec => []SessionIsKept
<1>1. TypeOK /\ IInv /\ [Next]_vars => IInv'
  <2> SUFFICES ASSUME TypeOK, IInv, [Next]_vars PROVE IInv'
    OBVIOUS
  <2>1. CASE UNCHANGED vars
    BY <2>1, QuietKeeps DEF vars, serverVars, SigningIn
  <2>2. ASSUME NEW t \in Tabs, ServeRefresh(t) PROVE IInv'
    BY <2>2, ServeKeeps
  <2>3. ASSUME NEW t \in Tabs, RefreshAnswers(t) PROVE IInv'
    <3>1. CASE refresh[t].at = "answered"
      BY <2>3, <3>1, AnswerKeeps
    <3>2. CASE refresh[t].at = "errored"
      <4>1. /\ refresh' = [refresh EXCEPT ![t] = NoRefresh]
            /\ UNCHANGED <<generation, over, cookie, op, excused>>
        BY <2>3, <3>2 DEF RefreshAnswers, Settle, serverVars
      <4> QED
        BY <3>2, <4>1, DropKeeps DEF SigningIn
    <3> QED
      BY <2>3, <3>1, <3>2 DEF RefreshAnswers
  <2>4. ASSUME NEW t \in Tabs, NEW s \in Sessions, SignIn(t, s) PROVE IInv'
    BY <2>4, SignInKeeps
  <2>5. ASSUME NEW t \in Tabs, SignInAnswers(t) PROVE IInv'
    BY <2>5, SignInAnswersKeeps
  <2>6. ASSUME NEW t \in Tabs, SignOutAnswers(t) PROVE IInv'
    BY <2>6, SignOutAnswersKeeps
  <2>7. ASSUME NEW t \in Tabs,
               \/ RefreshFails(t) \/ CloseTab(t) \/ OpenTab(t) \/ ProbeAnswers(t) \/ Expire(t)
               \/ SignInFails(t) \/ SignOut(t) \/ ServeSignOut(t) \/ SignOutFails(t)
        PROVE  IInv'
    BY <2>7, TabStepKeeps
  <2>8. ASSUME NEW c \in Calls,
               \/ AnswerCall(c) \/ CallFails(c)
               \/ \E t \in Tabs, kind \in {"api", "file"} : StartCall(c, t, kind)
        PROVE  IInv'
    BY <2>8, CallKeeps
  <2>9. ASSUME NEW t \in Tabs, RefreshErrs(t) PROVE IInv'
    BY <2>9, ErrKeeps
  <2> QED
    BY <2>1, <2>2, <2>3, <2>4, <2>5, <2>6, <2>7, <2>8, <2>9 DEF Next
<1>2. IInv => SessionIsKept
  BY DEF IInv
<1> QED
  BY <1>1, <1>2, InitKeeps, TypeCorrect, PTL DEF Spec

-----------------------------------------------------------------------------
(* Expired tokens.                                                          *)

\* A refresh that was refused had no running session to refresh.
RefusalHasReason ==
    \A t \in Tabs : LET s == refresh[t].carried.session IN
        refresh[t].at = "answered" /\ s \in Sessions /\ over[s] = "no" =>
            refresh[t].answer # NoCookie

\* A request is sent again with a token that has time left.
ReplayIsGood ==
    \A c \in Calls : call[c].replayed => call[c].good /\ call[c].at # "waiting"

RInv == RefusalHasReason /\ ReplayIsGood

LEMMA InitRefuses == Init => RInv
BY DEF Init, RInv, RefusalHasReason, ReplayIsGood, NoRefresh, NoCall

\* A step that leaves the refreshes, or starts or drops one.
LEMMA UnansweredKeepsReason ==
    ASSUME TypeOK, RInv,
           \A t \in Tabs : refresh'[t] = refresh[t] \/ refresh'[t].at # "answered",
           \A s \in Sessions : over'[s] = "no" => over[s] = "no"
    PROVE  RefusalHasReason'
BY DEF RInv, RefusalHasReason

LEMMA JoinStartsOrLeaves ==
    ASSUME TypeOK, NEW t \in Tabs, JoinRefresh(t)
    PROVE  \A u \in Tabs : refresh'[u] = refresh[u] \/ refresh'[u].at # "answered"
<1>1. CASE refresh[t].at # "none"
  BY <1>1 DEF JoinRefresh
<1>2. CASE refresh[t].at = "none"
  <2> DEFINE new == [at |-> "sent", carried |-> cookie, answer |-> NoCookie]
  <2>1. refresh' = [refresh EXCEPT ![t] = new] /\ new.at = "sent"
    BY <1>2 DEF JoinRefresh
  <2> HIDE DEF new
  <2> QED
    BY <2>1 DEF TypeOK
<1> QED
  BY <1>1, <1>2

LEMMA SettleDrops ==
    ASSUME TypeOK, NEW t \in Tabs, NEW outcome, Settle(t, outcome)
    PROVE  \A u \in Tabs : refresh'[u] = refresh[u] \/ refresh'[u].at # "answered"
BY DEF TypeOK, Settle, NoRefresh

LEMMA ServeKeepsReason ==
    ASSUME TypeOK, RInv, NEW t \in Tabs, ServeRefresh(t) PROVE RefusalHasReason'
<1> DEFINE presented == refresh[t].carried
           s0 == presented.session
           good == s0 # NoSession /\ over[s0] = "no" /\ presented.generation = generation[s0]
<1>1. /\ \A u \in Tabs \ {t} : refresh'[u] = refresh[u]
      /\ refresh'[t].carried = presented
  BY DEF ServeRefresh, TypeOK, Refresh
<1>2. \A s \in Sessions : over'[s] = "no" => over[s] = "no"
  BY DEF ServeRefresh, TypeOK
<1>3. s0 \in Sessions /\ over'[s0] = "no" => refresh'[t].answer # NoCookie
  <2> SUFFICES ASSUME s0 \in Sessions, over'[s0] = "no" PROVE refresh'[t].answer # NoCookie
    OBVIOUS
  <2>1. good
    BY NoSessionAssumption DEF ServeRefresh, TypeOK
  <2>2. refresh'[t].answer = [presented EXCEPT !.generation = @ + 1]
    BY <2>1 DEF ServeRefresh, TypeOK, Refresh
  <2>3. presented \in Token
    BY DEF TypeOK, Refresh
  <2>4. refresh'[t].answer.session = s0
    BY <2>2, <2>3 DEF Token
  <2> QED
    BY <2>4, NoSessionAssumption DEF NoCookie
<1> QED
  BY <1>1, <1>2, <1>3 DEF RInv, RefusalHasReason

LEMMA ResumedIsGood ==
    ASSUME TypeOK, RInv, NEW t \in Tabs, NEW outcome \in {"token", "none", "error"}, Settle(t, outcome)
    PROVE  ReplayIsGood'
<1>1. ASSUME NEW c \in WaitingIn(t)
      PROVE  Resumed(c, outcome).replayed => Resumed(c, outcome).good /\ Resumed(c, outcome).at # "waiting"
  <2>1. call[c] \in Call /\ ~call[c].replayed
    BY <1>1 DEF TypeOK, WaitingIn, RInv, ReplayIsGood, Call
  <2>2. ~Ended("refused").replayed /\ ~Ended("ended").replayed
    BY DEF Ended, NoCall
  <2>3. CASE outcome = "token"
    BY <2>1, <2>3 DEF Resumed, Call
  <2>4. CASE outcome = "error"
    BY <2>2, <2>4 DEF Resumed
  <2>5. CASE outcome = "none" /\ call[c].kind = "file"
    BY <2>1, <2>5 DEF Resumed, Call
  <2>6. CASE outcome = "none" /\ call[c].kind = "api"
    BY <2>2, <2>6 DEF Resumed
  <2>7. call[c].kind \in {"api", "file"}
    BY <2>1 DEF Call
  <2> QED
    BY <2>3, <2>4, <2>5, <2>6, <2>7
<1>2. call' = [c \in Calls |-> IF c \in WaitingIn(t) THEN Resumed(c, outcome) ELSE call[c]]
  BY DEF Settle
<1> QED
  BY <1>1, <1>2 DEF RInv, ReplayIsGood

\* A call that keeps its token, or gets a new record that was never replayed.
LEMMA UnreplayedKeeps ==
    ASSUME TypeOK, RInv,
           \A c \in Calls : call'[c] = call[c] \/ ~call'[c].replayed
    PROVE  ReplayIsGood'
BY DEF RInv, ReplayIsGood

LEMMA EndedIsNotReplayed == \A how : ~Ended(how).replayed
BY DEF Ended, NoCall

LEMMA TabStepRefuses ==
    ASSUME TypeOK, RInv, NEW t \in Tabs,
           \/ ServeRefresh(t) \/ RefreshErrs(t) \/ RefreshAnswers(t) \/ RefreshFails(t)
           \/ OpenTab(t) \/ ProbeAnswers(t) \/ CloseTab(t) \/ Expire(t)
    PROVE  RInv'
<1>1. CASE ServeRefresh(t)
  <2>1. ReplayIsGood'
    BY <1>1, UnreplayedKeeps DEF ServeRefresh
  <2> QED
    BY <1>1, <2>1, ServeKeepsReason DEF RInv
<1>2. CASE RefreshAnswers(t) \/ RefreshFails(t)
  <2>1. UNCHANGED over /\ \E outcome \in {"token", "none", "error"} : Settle(t, outcome)
    BY <1>2 DEF RefreshAnswers, RefreshFails, serverVars
  <2> QED
    BY <2>1, SettleDrops, UnansweredKeepsReason, ResumedIsGood DEF RInv
<1>3. CASE OpenTab(t)
  <2>1. RefusalHasReason'
    BY <1>3, JoinStartsOrLeaves, UnansweredKeepsReason DEF OpenTab, serverVars
  <2>2. ReplayIsGood'
    BY <1>3, UnreplayedKeeps DEF OpenTab
  <2> QED
    BY <2>1, <2>2 DEF RInv
<1>4. CASE ProbeAnswers(t) \/ Expire(t)
  BY <1>4, UnansweredKeepsReason, UnreplayedKeeps DEF ProbeAnswers, Expire, serverVars, RInv
<1>5. CASE CloseTab(t)
  <2>1. \A u \in Tabs : refresh'[u] = refresh[u] \/ refresh'[u].at # "answered"
    BY <1>5 DEF CloseTab, TypeOK, NoRefresh
  <2>2. \A c \in Calls : call'[c] = call[c] \/ ~call'[c].replayed
    BY <1>5, EndedIsNotReplayed DEF CloseTab
  <2> QED
    BY <1>5, <2>1, <2>2, UnansweredKeepsReason, UnreplayedKeeps DEF CloseTab, serverVars, RInv
<1>6. CASE RefreshErrs(t)
  <2>1. \A u \in Tabs : refresh'[u] = refresh[u] \/ refresh'[u].at # "answered"
    BY <1>6 DEF RefreshErrs, TypeOK, Refresh
  <2> QED
    BY <1>6, <2>1, UnansweredKeepsReason, UnreplayedKeeps DEF RefreshErrs, serverVars, RInv
<1> QED
  BY <1>1, <1>2, <1>3, <1>4, <1>5, <1>6

LEMMA SigningRefuses ==
    ASSUME TypeOK, RInv, NEW t \in Tabs,
           \/ \E s \in Sessions : SignIn(t, s)
           \/ SignInAnswers(t) \/ SignInFails(t)
           \/ SignOut(t) \/ ServeSignOut(t) \/ SignOutAnswers(t) \/ SignOutFails(t)
    PROVE  RInv'
<1>1. UNCHANGED <<refresh, call>>
  BY DEF SignIn, SignInAnswers, SignInFails, SignOut, ServeSignOut, SignOutAnswers, SignOutFails
<1>2. \A s \in Sessions : over'[s] = "no" => over[s] = "no"
  BY DEF SignIn, SignInAnswers, SignInFails, SignOut, ServeSignOut, SignOutAnswers,
         SignOutFails, serverVars
<1> QED
  BY <1>1, <1>2, UnansweredKeepsReason, UnreplayedKeeps DEF RInv

LEMMA CallRefuses ==
    ASSUME TypeOK, RInv, NEW c \in Calls,
           \/ AnswerCall(c) \/ CallFails(c)
           \/ \E t \in Tabs, kind \in {"api", "file"} : StartCall(c, t, kind)
    PROVE  RInv'
<1>1. CASE AnswerCall(c)
  <2>1. call[c] \in Call /\ call[c].tab \in Tabs
    BY <1>1 DEF AnswerCall, TypeOK, CallsHaveTabs
  <2>2. RefusalHasReason'
    BY <1>1, <2>1, JoinStartsOrLeaves, UnansweredKeepsReason DEF AnswerCall, serverVars
  <2>3. CASE ~call[c].good /\ MayRetry(c)
    <3> DEFINE waiting == [call[c] EXCEPT !.at = "waiting"]
    <3>1. ~waiting.replayed
      BY <2>1, <2>3 DEF MayRetry, Call
    <3>2. call' = [call EXCEPT ![c] = waiting]
      BY <1>1, <2>3 DEF AnswerCall, TypeOK
    <3> HIDE DEF waiting
    <3>3. \A d \in Calls : call'[d] = call[d] \/ ~call'[d].replayed
      BY <3>1, <3>2 DEF TypeOK
    <3> QED
      BY <2>2, <3>3, UnreplayedKeeps DEF RInv
  <2>4. CASE ~(~call[c].good /\ MayRetry(c))
    <3>1. \E how : call' = [call EXCEPT ![c] = Ended(how)]
      BY <1>1, <2>4, Zenon DEF AnswerCall
    <3>2. \A d \in Calls : call'[d] = call[d] \/ ~call'[d].replayed
      BY <3>1, EndedIsNotReplayed DEF TypeOK
    <3> QED
      BY <2>2, <3>2, UnreplayedKeeps DEF RInv
  <2> QED
    BY <2>3, <2>4
<1>2. CASE CallFails(c)
  <2>1. \A d \in Calls : call'[d] = call[d] \/ ~call'[d].replayed
    BY <1>2, EndedIsNotReplayed DEF CallFails, TypeOK
  <2> QED
    BY <1>2, <2>1, UnansweredKeepsReason, UnreplayedKeeps DEF CallFails, serverVars, RInv
<1>3. ASSUME NEW t \in Tabs, NEW kind \in {"api", "file"}, StartCall(c, t, kind)
      PROVE  RInv'
  <2>1. ~Sent(t, kind).replayed /\ ~[Sent(t, kind) EXCEPT !.at = "waiting"].replayed
    BY DEF Sent
  <2>2. \E new : ~new.replayed /\ call' = [call EXCEPT ![c] = new]
    BY <1>3, <2>1, Zenon DEF StartCall
  <2>3. \A d \in Calls : call'[d] = call[d] \/ ~call'[d].replayed
    BY <2>2 DEF TypeOK
  <2>4. \A u \in Tabs : refresh'[u] = refresh[u] \/ refresh'[u].at # "answered"
    BY <1>3, JoinStartsOrLeaves DEF StartCall
  <2> QED
    BY <1>3, <2>3, <2>4, UnansweredKeepsReason, UnreplayedKeeps DEF StartCall, serverVars, RInv
<1> QED
  BY <1>1, <1>2, <1>3

\* An answer to a request that was sent refuses it only if it cannot be sent
\* again; an answer to a refresh, only if the refresh was refused.
LEMMA RefusedAfterRefresh ==
    ASSUME TypeOK, RInv, NEW t \in Tabs, RefreshAnswers(t), NEW c \in Calls,
           call[c].kind = "api", call[c].session # NoSession,
           call'[c].at = "refused", call[c].at # "refused"
    PROVE  LET s == call[c].session
               r == refresh[call[c].tab]
           IN  \/ r.at = "answered" /\ (over[s] # "no" \/ r.carried.session # s)
               \/ r.at = "errored"
<1>1. call[c] \in Call /\ call[c].session \in Sessions
  BY DEF TypeOK, Call, SessionOrNone
<1>2. PICK outcome \in {"token", "none"} :
        Settle(t, outcome) /\ (outcome = "token" <=> refresh[t].answer # NoCookie)
  BY DEF RefreshAnswers
<1>3. c \in WaitingIn(t) /\ call'[c] = Resumed(c, outcome)
  BY <1>2 DEF Settle
<1>4. call[c].tab = t
  BY <1>3 DEF WaitingIn
<1>5. outcome = "none"
  BY <1>1, <1>2, <1>3 DEF Resumed, Call
<1>6. refresh[t].at \in {"answered", "errored"} /\ refresh[t].answer = NoCookie
  BY <1>2, <1>5 DEF RefreshAnswers
<1> QED
  BY <1>1, <1>4, <1>6 DEF RInv, RefusalHasReason

LEMMA OnlyAnswersRefuse ==
    ASSUME TypeOK, RInv, [Next]_vars, NEW c \in Calls,
           call[c].kind = "api", call'[c].at = "refused", call[c].at # "refused"
    PROVE  \E t \in Tabs : RefreshAnswers(t)
<1>1. /\ Ended("ended").at = "ended"
      /\ \A how : Ended(how).at = how
  BY DEF Ended, NoCall
<1>2. call'[c] # call[c]
  OBVIOUS
<1>3. ASSUME NEW t \in Tabs, RefreshFails(t) \/ CloseTab(t) PROVE FALSE
  <2>1. CASE RefreshFails(t)
    BY <1>1, <1>2, <2>1 DEF RefreshFails, Settle, Resumed
  <2>2. CASE CloseTab(t)
    BY <1>1, <1>2, <2>2 DEF CloseTab
  <2> QED
    BY <1>3, <2>1, <2>2
<1>4. ASSUME NEW d \in Calls, AnswerCall(d) PROVE FALSE
  <2>1. c = d
    BY <1>2, <1>4 DEF AnswerCall, TypeOK
  <2>2. call[c] \in Call
    BY DEF TypeOK
  <2>3. CASE call[c].good
    <3>1. call' = [call EXCEPT ![c] = Ended("ended")]
      BY <1>4, <2>1, <2>3 DEF AnswerCall
    <3> QED
      BY <1>1, <3>1 DEF TypeOK
  <2>4. CASE ~call[c].good
    <3>1. MayRetry(c)
      BY <2>4 DEF MayRetry, RInv, ReplayIsGood
    <3>2. call' = [call EXCEPT ![c] = [call[c] EXCEPT !.at = "waiting"]]
      BY <1>4, <2>1, <2>4, <3>1 DEF AnswerCall, TypeOK
    <3>3. [call[c] EXCEPT !.at = "waiting"].at = "waiting"
      BY <2>2 DEF Call
    <3> QED
      BY <3>2, <3>3 DEF TypeOK
  <2> QED
    BY <2>3, <2>4
<1>5. ASSUME NEW d \in Calls, CallFails(d) PROVE FALSE
  BY <1>1, <1>2, <1>5 DEF CallFails, TypeOK
<1>6. ASSUME NEW d \in Calls, NEW t \in Tabs, NEW kind \in {"api", "file"}, StartCall(d, t, kind)
      PROVE  FALSE
  <2>1. Sent(t, kind).at = "sent" /\ [Sent(t, kind) EXCEPT !.at = "waiting"].at = "waiting"
    BY DEF Sent
  <2>2. PICK new \in {Sent(t, kind), [Sent(t, kind) EXCEPT !.at = "waiting"]} :
          call' = [call EXCEPT ![d] = new]
    BY <1>6, Zenon DEF StartCall
  <2>3. new.at \in {"sent", "waiting"}
    BY <2>1
  <2> QED
    BY <1>2, <2>2, <2>3 DEF TypeOK
<1>7. call' # call
  BY <1>2
<1> QED
  BY <1>3, <1>4, <1>5, <1>6, <1>7
  DEF Next, vars, ServeRefresh, RefreshErrs, OpenTab, ProbeAnswers, Expire, SignIn, SignInAnswers,
      SignInFails, SignOut, ServeSignOut, SignOutAnswers, SignOutFails

\* A request that had a token and may be repeated is refused only in answer to
\* a refresh whose session had ended or was another one, or that met an error
\* of the server.
THEOREM ExpiryNeverShows == Spec => ExpiryIsInvisible
<1> DEFINE Invisible == \A c \in Calls :
        LET s == call[c].session
            r == refresh[call[c].tab]
        IN  call[c].kind = "api" /\ s # NoSession
            /\ call'[c].at = "refused" /\ call[c].at # "refused"
            => \/ r.at = "answered" /\ (over[s] # "no" \/ r.carried.session # s)
               \/ r.at = "errored"
<1>1. TypeOK /\ RInv /\ [Next]_vars => RInv'
  <2> SUFFICES ASSUME TypeOK, RInv, [Next]_vars PROVE RInv'
    OBVIOUS
  <2>1. CASE UNCHANGED vars
    BY <2>1 DEF vars, serverVars, RInv, RefusalHasReason, ReplayIsGood
  <2> QED
    BY <2>1, TabStepRefuses, SigningRefuses, CallRefuses DEF Next
<1>2. TypeOK /\ RInv /\ [Next]_vars => Invisible
  BY OnlyAnswersRefuse, RefusedAfterRefresh
<1>3. TypeOK /\ RInv /\ [Next]_vars => [Invisible]_vars
  BY <1>2
<1> QED
  BY <1>1, <1>3, InitRefuses, TypeCorrect, PTL DEF Spec, ExpiryIsInvisible
=============================================================================
