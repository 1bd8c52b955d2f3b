--------------------------- MODULE BrowserSession ---------------------------
(***************************************************************************)
(* The browser's side of a session.  All tabs share the httpOnly refresh   *)
(* cookie; each keeps an access token in memory, and at most one refresh   *)
(* in flight, which every call of the tab that needs a token waits for.    *)
(* The server answers a request in one step, as AuthTokens shows it does   *)
(* for requests that do not overlap: a used refresh token ends its         *)
(* session, an access token is good until it expires.                      *)
(*                                                                         *)
(* A tab is opened once and may be closed: a reload is one tab closing and *)
(* another opening.                                                        *)
(***************************************************************************)
EXTENDS Naturals, FiniteSets

CONSTANTS
    Tabs,
    Calls,          \* requests that the pages of a tab may make
    Sessions,       \* sign-ins
    MaxRequests,    \* bound on the sign-ins and requests of a behaviour
    NoSession,
    NoTab

ASSUME NoSessionAssumption == NoSession \notin Sessions

VARIABLES
    generation,     \* server: the refresh token of a session that is good
    over,           \* server: whether the session has ended, and why
    cookie,         \* the browser's refresh cookie
    access,         \* the access token a tab holds, by its session
    fresh,          \* whether that token has time left
    user,           \* whether the tab shows a signed-in user
    probe,          \* how far the tab has come in looking for a session
    refresh,        \* the tab's refresh in flight
    op,             \* the tab's sign-in or sign-out
    call,           \* how far each request has come
    excused         \* refresh tokens presented by two tabs at once, or
                    \* presented without the answer arriving

serverVars == <<generation, over>>
tabVars == <<access, fresh, user, probe>>
vars == <<serverVars, cookie, tabVars, refresh, op, call, excused>>

NoCookie == [session |-> NoSession, generation |-> 0]
NoRefresh == [at |-> "none", carried |-> NoCookie, answer |-> NoCookie]
NoOp == [at |-> "none", session |-> NoSession]
NoCall == [at |-> "none", tab |-> NoTab, kind |-> "api",
           session |-> NoSession, good |-> FALSE, replayed |-> FALSE]

Init ==
    /\ generation = [s \in Sessions |-> 0]
    /\ over = [s \in Sessions |-> "no"]
    /\ cookie = NoCookie
    /\ access = [t \in Tabs |-> NoSession]
    /\ fresh = [t \in Tabs |-> FALSE]
    /\ user = [t \in Tabs |-> FALSE]
    /\ probe = [t \in Tabs |-> "unopened"]
    /\ refresh = [t \in Tabs |-> NoRefresh]
    /\ op = [t \in Tabs |-> NoOp]
    /\ call = [c \in Calls |-> NoCall]
    /\ excused = {}

\* Nothing of a request matters once it has ended.
Ended(how) == [NoCall EXCEPT !.at = how]

MayRequest ==
    Cardinality({s \in Sessions : generation[s] > 0})
    + Cardinality({c \in Calls : call[c].at # "none"}) < MaxRequests

Open(t) == probe[t] \in {"refreshing", "asking", "done"}

-----------------------------------------------------------------------------
(* Refreshing. *)

\* Each caller sends a refresh of its own.
RefreshAlone(t) ==
    /\ refresh' = [refresh EXCEPT ![t] = [at |-> "sent", carried |-> cookie, answer |-> NoCookie]]
    /\ excused' = IF \E u \in Tabs \ {t} : refresh[u].at # "none" /\ refresh[u].carried = cookie
                  THEN excused \union {cookie} ELSE excused

\* Joins the refresh in flight, or sends one with the cookie of the moment.
JoinRefresh(t) ==
    IF refresh[t].at # "none" THEN UNCHANGED <<refresh, excused>>
    ELSE /\ refresh' = [refresh EXCEPT ![t] =
              [at |-> "sent", carried |-> cookie, answer |-> NoCookie]]
         /\ excused' = IF \E u \in Tabs : refresh[u].at # "none" /\ refresh[u].carried = cookie
                       THEN excused \union {cookie} ELSE excused

\* The server rotates a good token, ends the session of a used one, and
\* refuses what is not the token of a running session.
ServeRefresh(t) ==
    LET presented == refresh[t].carried
        s == presented.session
        running == s # NoSession /\ over[s] = "no"
        good == running /\ presented.generation = generation[s]
        next == [presented EXCEPT !.generation = @ + 1]
    IN  /\ refresh[t].at = "sent"
        /\ refresh' = [refresh EXCEPT ![t].at = "answered",
                                      ![t].answer = IF good THEN next ELSE NoCookie]
        /\ generation' = IF good THEN [generation EXCEPT ![s] = @ + 1] ELSE generation
        /\ over' = IF running /\ ~good THEN [over EXCEPT ![s] = "replayed"] ELSE over
        /\ UNCHANGED <<cookie, tabVars, op, call, excused>>

\* The server raises before it has rotated anything, or its answer is lost and
\* an error stands in for it: neither sets or clears a cookie.
RefreshErrs(t) ==
    /\ refresh[t].at \in {"sent", "answered"}
    /\ refresh' = [refresh EXCEPT ![t].at = "errored", ![t].answer = NoCookie]
    /\ excused' = IF refresh[t].at = "answered" THEN excused \union {refresh[t].carried} ELSE excused
    /\ UNCHANGED <<serverVars, cookie, tabVars, op, call>>

WaitingIn(t) == {c \in Calls : call[c].tab = t /\ call[c].at = "waiting"}

\* What a refresh means to a call that waited for it: an api call is sent
\* again with the new token, or keeps the refusal it had; a file is sent with
\* what there is; a network error reaches both.
Resumed(c, outcome) ==
    CASE outcome = "token" -> [call[c] EXCEPT !.at = "sent", !.good = TRUE, !.replayed = TRUE]
      [] outcome = "none" /\ call[c].kind = "file" -> [call[c] EXCEPT !.at = "sent", !.good = FALSE]
      [] outcome = "none" /\ call[c].kind = "api" -> Ended("refused")
      [] outcome = "error" -> Ended("ended")

Settle(t, outcome) ==
    /\ refresh' = [refresh EXCEPT ![t] = NoRefresh]
    /\ call' = [c \in Calls |-> IF c \in WaitingIn(t) THEN Resumed(c, outcome) ELSE call[c]]

\* The answer sets the cookie or clears it, for every tab; an error leaves it.
\* The tab takes either kind of failure for the lack of a session.  The first
\* refresh of a tab is the one that looks for a session.
RefreshAnswers(t) ==
    LET granted == refresh[t].answer # NoCookie
    IN  /\ refresh[t].at \in {"answered", "errored"}
        /\ cookie' = IF refresh[t].at = "answered" THEN refresh[t].answer ELSE cookie
        /\ access' = [access EXCEPT ![t] = refresh[t].answer.session]
        /\ fresh' = [fresh EXCEPT ![t] = granted]
        /\ Settle(t, IF granted THEN "token" ELSE "none")
        /\ IF probe[t] = "refreshing"
           THEN /\ probe' = [probe EXCEPT ![t] = IF granted THEN "asking" ELSE "done"]
                /\ user' = IF granted THEN user ELSE [user EXCEPT ![t] = FALSE]
           ELSE UNCHANGED <<probe, user>>
        /\ UNCHANGED <<serverVars, op, excused>>

\* The network fails before the server has seen the request, or after.
RefreshFails(t) ==
    /\ refresh[t].at # "none"
    /\ excused' = IF refresh[t].at = "answered" THEN excused \union {refresh[t].carried} ELSE excused
    /\ Settle(t, "error")
    /\ IF probe[t] = "refreshing"
       THEN /\ probe' = [probe EXCEPT ![t] = "done"]
            /\ user' = [user EXCEPT ![t] = FALSE]
       ELSE UNCHANGED <<probe, user>>
    /\ UNCHANGED <<serverVars, cookie, access, fresh, op>>

-----------------------------------------------------------------------------
(* Tabs. *)

OpenTab(t) ==
    /\ probe[t] = "unopened"
    /\ probe' = [probe EXCEPT ![t] = "refreshing"]
    /\ JoinRefresh(t)
    /\ UNCHANGED <<serverVars, cookie, access, fresh, user, op, call>>

\* The user of the new token, asked for once the probe has one.
ProbeAnswers(t) ==
    /\ probe[t] = "asking"
    /\ probe' = [probe EXCEPT ![t] = "done"]
    /\ \E found \in BOOLEAN : user' = [user EXCEPT ![t] = found]
    /\ UNCHANGED <<serverVars, cookie, access, fresh, refresh, op, call, excused>>

CloseTab(t) ==
    /\ Open(t)
    /\ probe' = [probe EXCEPT ![t] = "closed"]
    /\ access' = [access EXCEPT ![t] = NoSession]
    /\ fresh' = [fresh EXCEPT ![t] = FALSE]
    /\ user' = [user EXCEPT ![t] = FALSE]
    /\ excused' = IF refresh[t].at = "answered" THEN excused \union {refresh[t].carried} ELSE excused
    /\ refresh' = [refresh EXCEPT ![t] = NoRefresh]
    /\ op' = [op EXCEPT ![t] = NoOp]
    /\ call' = [c \in Calls |-> IF call[c].tab = t /\ call[c].at \in {"waiting", "sent"}
                                THEN Ended("ended") ELSE call[c]]
    /\ UNCHANGED <<serverVars, cookie>>

\* Half an hour passes.  Requests are not on their way for that long.
Expire(t) ==
    /\ fresh[t]
    /\ probe[t] = "done"
    /\ fresh' = [fresh EXCEPT ![t] = FALSE]
    /\ UNCHANGED <<serverVars, cookie, access, user, probe, refresh, op, call, excused>>

-----------------------------------------------------------------------------
(* Signing in and out. *)

\* The form is there while the tab still looks for a session.
SignIn(t, s) ==
    /\ Open(t) /\ ~user[t]
    /\ op[t].at \in {"none", "signed out"}
    /\ generation[s] = 0 /\ MayRequest
    /\ generation' = [generation EXCEPT ![s] = 1]
    /\ op' = [op EXCEPT ![t] = [at |-> "signing in", session |-> s]]
    /\ UNCHANGED <<over, cookie, tabVars, refresh, call, excused>>

SignInAnswers(t) ==
    /\ op[t].at = "signing in"
    /\ cookie' = [session |-> op[t].session, generation |-> 1]
    /\ access' = [access EXCEPT ![t] = op[t].session]
    /\ fresh' = [fresh EXCEPT ![t] = TRUE]
    /\ user' = [user EXCEPT ![t] = TRUE]
    /\ op' = [op EXCEPT ![t] = NoOp]
    /\ UNCHANGED <<serverVars, probe, refresh, call, excused>>

SignInFails(t) ==
    /\ op[t].at = "signing in"
    /\ op' = [op EXCEPT ![t] = NoOp]
    /\ UNCHANGED <<serverVars, cookie, tabVars, refresh, call, excused>>

\* The request carries the cookie of the moment.
SignOut(t) ==
    /\ user[t] /\ probe[t] = "done"
    /\ op[t].at \in {"none", "signed out"}
    /\ op' = [op EXCEPT ![t] = [at |-> "signing out", session |-> cookie.session]]
    /\ UNCHANGED <<serverVars, cookie, tabVars, refresh, call, excused>>

ServeSignOut(t) ==
    /\ op[t].at = "signing out"
    /\ op' = [op EXCEPT ![t].at = "revoked"]
    /\ over' = [s \in Sessions |->
                  IF s = op[t].session /\ over[s] = "no" THEN "signed out" ELSE over[s]]
    /\ UNCHANGED <<generation, cookie, tabVars, refresh, call, excused>>

SignOutAnswers(t) ==
    /\ op[t].at = "revoked"
    /\ cookie' = NoCookie
    /\ access' = [access EXCEPT ![t] = NoSession]
    /\ fresh' = [fresh EXCEPT ![t] = FALSE]
    /\ user' = [user EXCEPT ![t] = FALSE]
    /\ op' = [op EXCEPT ![t] = [at |-> "signed out", session |-> NoSession]]
    /\ UNCHANGED <<serverVars, probe, refresh, call, excused>>

\* The token goes, and endSession raises before it reaches the user.
SignOutFails(t) ==
    /\ op[t].at \in {"signing out", "revoked"}
    /\ access' = [access EXCEPT ![t] = NoSession]
    /\ fresh' = [fresh EXCEPT ![t] = FALSE]
    /\ op' = [op EXCEPT ![t] = [at |-> "signed out", session |-> NoSession]]
    /\ UNCHANGED <<serverVars, cookie, user, probe, refresh, call, excused>>

-----------------------------------------------------------------------------
(* Requests of the pages. *)

Sent(t, kind) ==
    [at |-> "sent", tab |-> t, kind |-> kind, session |-> access[t],
     good |-> fresh[t], replayed |-> FALSE]

\* A file, or a question whose answer streams, looks for a token first and
\* is not sent again; any other request is, once.
StartCall(c, t, kind) ==
    /\ user[t] /\ probe[t] = "done"
    /\ call[c].at = "none" /\ MayRequest
    /\ IF kind = "file" /\ access[t] = NoSession
       THEN /\ call' = [call EXCEPT ![c] = [Sent(t, kind) EXCEPT !.at = "waiting"]]
            /\ JoinRefresh(t)
       ELSE /\ call' = [call EXCEPT ![c] = Sent(t, kind)]
            /\ UNCHANGED <<refresh, excused>>
    /\ UNCHANGED <<serverVars, cookie, tabVars, op>>

\* A 401 is final.
MayNotRetry(c) == FALSE

MayRetry(c) == call[c].kind = "api" /\ ~call[c].replayed

AnswerCall(c) ==
    LET t == call[c].tab
    IN  /\ call[c].at = "sent"
        /\ IF ~call[c].good /\ MayRetry(c)
           THEN /\ call' = [call EXCEPT ![c].at = "waiting"]
                /\ JoinRefresh(t)
           ELSE /\ call' = [call EXCEPT ![c] = Ended(IF call[c].good THEN "ended" ELSE "refused")]
                /\ UNCHANGED <<refresh, excused>>
        /\ UNCHANGED <<serverVars, cookie, tabVars, op>>

CallFails(c) ==
    /\ call[c].at = "sent"
    /\ call' = [call EXCEPT ![c] = Ended("ended")]
    /\ UNCHANGED <<serverVars, cookie, tabVars, refresh, op, excused>>

-----------------------------------------------------------------------------
Next ==
    \/ \E t \in Tabs :
        \/ ServeRefresh(t) \/ RefreshErrs(t) \/ RefreshAnswers(t) \/ RefreshFails(t)
        \/ OpenTab(t) \/ ProbeAnswers(t) \/ CloseTab(t) \/ Expire(t)
        \/ \E s \in Sessions : SignIn(t, s)
        \/ SignInAnswers(t) \/ SignInFails(t)
        \/ SignOut(t) \/ ServeSignOut(t) \/ SignOutAnswers(t) \/ SignOutFails(t)
    \/ \E c \in Calls :
        \/ AnswerCall(c) \/ CallFails(c)
        \/ \E t \in Tabs, kind \in {"api", "file"} : StartCall(c, t, kind)

Spec == Init /\ [][Next]_vars

-----------------------------------------------------------------------------
(* Properties. *)

SessionOrNone == Sessions \union {NoSession}
Token == [session : SessionOrNone, generation : Nat]
Refresh == [at : {"none", "sent", "answered", "errored"}, carried : Token, answer : Token]
Op == [at : {"none", "signing in", "signing out", "revoked", "signed out"}, session : SessionOrNone]
Call == [at : {"none", "waiting", "sent", "ended", "refused"},
         tab : Tabs \union {NoTab}, kind : {"api", "file"},
         session : SessionOrNone, good : BOOLEAN, replayed : BOOLEAN]

\* Only a call of a tab is on its way.
CallsHaveTabs == \A c \in Calls : call[c].at \in {"waiting", "sent"} => call[c].tab \in Tabs

TypeOK ==
    /\ generation \in [Sessions -> Nat]
    /\ over \in [Sessions -> {"no", "signed out", "replayed"}]
    /\ cookie \in Token /\ excused \subseteq Token
    /\ access \in [Tabs -> SessionOrNone]
    /\ fresh \in [Tabs -> BOOLEAN] /\ user \in [Tabs -> BOOLEAN]
    /\ probe \in [Tabs -> {"unopened", "refreshing", "asking", "done", "closed"}]
    /\ refresh \in [Tabs -> Refresh]
    /\ op \in [Tabs -> Op]
    /\ call \in [Calls -> Call]
    /\ CallsHaveTabs

\* The client does not log itself out: a session ends because somebody signed
\* out, or because one refresh token was presented by two tabs at once or
\* again after its answer was lost, however many calls of a tab find their
\* token expired together (token-store.ts:34-43).
SessionIsKept ==
    \A s \in Sessions : over[s] = "replayed" => \E k \in excused : k.session = s

\* An expired token is invisible: a request that had a token and may be
\* repeated is refused only in answer to a refresh that was refused, whose
\* session had ended or whose cookie another sign-in or sign-out had
\* replaced (client.ts:129-140), or to one that met an error of the server,
\* which the client does not tell from a refusal (client.ts:98-101).
ExpiryIsInvisible ==
    [][\A c \in Calls :
        LET s == call[c].session
            r == refresh[call[c].tab]
        IN  call[c].kind = "api" /\ s # NoSession
            /\ call'[c].at = "refused" /\ call[c].at # "refused"
            => \/ r.at = "answered" /\ (over[s] # "no" \/ r.carried.session # s)
               \/ r.at = "errored"]_vars

\* "A user who clicked sign out must end up signed out of this tab regardless
\* of what the network did" (lib/api/auth.ts:26-27).
SignedOutOfTab ==
    \A t \in Tabs : op[t].at = "signed out" => ~user[t] /\ access[t] = NoSession
=============================================================================
