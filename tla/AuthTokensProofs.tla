--------------------------- MODULE AuthTokensProofs ---------------------------
(***************************************************************************)
(* What AuthTokens promises for any number of requests: the audit trail    *)
(* whatever clients and database do, the rest for clients that leave a     *)
(* transaction the time to end.                                            *)
(***************************************************************************)
EXTENDS AuthTokens, TLAPS

USE NoTokenAssumption, FailureAssumption

-----------------------------------------------------------------------------
(* Types                                                                   *)

\* Every request keeps the types, whatever it is.
LEMMA StepKeepsTypes == TypeOK /\ [Next]_vars => TypeOK'
<1> SUFFICES ASSUME TypeOK, [Next]_vars PROVE TypeOK'
    OBVIOUS
<1> USE DEF TypeOK, Goes, rowVars, Carrying, Unanswered, Uncommitted, Ended
<1>1. CASE UNCHANGED vars
    BY <1>1 DEF vars
<1>2. ASSUME NEW x \in Requests, Arrives(x) PROVE TypeOK'
  <2>1. CASE Login(x)
      BY <2>1 DEF Login
  <2>2. ASSUME NEW t \in Requests, Refresh(x, t) PROVE TypeOK'
      BY <2>2 DEF Refresh, Delivered
  <2>3. ASSUME NEW t \in Requests, Logout(x, t) PROVE TypeOK'
      BY <2>3 DEF Logout, Delivered
  <2>4. CASE LogoutEverywhere(x)
      BY <2>4 DEF LogoutEverywhere
  <2>5. QED
      BY <1>2, <2>1, <2>2, <2>3, <2>4 DEF Arrives
<1>3. ASSUME NEW x \in Requests, Continues(x) PROVE TypeOK'
  <2>1. CASE Reject(x) \/ DetectReplay(x) \/ AcceptToken(x) \/ LeaveUnknown(x)
      BY <2>1 DEF Reject, DetectReplay, AcceptToken, LeaveUnknown
  <2>2. CASE Rotate(x)
    <3>1. presented[x] \in Requests
        BY <2>2 DEF Rotate
    <3>2. QED
        BY <2>2, <3>1 DEF Rotate
  <2>3. CASE CommitIssue(x)
      BY <2>3 DEF CommitIssue
  <2>4. CASE BeginRevocation(x)
      BY <2>4 DEF BeginRevocation, ActiveIn
  <2>5. CASE UpdateFamily(x)
      BY <2>5 DEF UpdateFamily
  <2>6. CASE CommitRevocation(x)
      BY <2>6 DEF CommitRevocation
  <2>7. CASE DatabaseFails(x)
      BY <2>7 DEF DatabaseFails
  <2>8. QED
      BY <1>3, <2>1, <2>2, <2>3, <2>4, <2>5, <2>6, <2>7 DEF Continues
<1>4. QED
    BY <1>1, <1>2, <1>3 DEF Next

\* Every variable of the token table and of its requests keeps its type.
THEOREM TokensTypeCorrect == Spec => []TypeOK
<1>1. Init => TypeOK
    BY DEF Init, TypeOK, Carrying
<1>2. QED
    BY <1>1, StepKeepsTypes, PTL DEF Spec

-----------------------------------------------------------------------------
(* The audit trail                                                         *)

\* Why the chain is kept: a row comes from a request that has committed, and
\* a rotation works on a row of the family its new token will be in.
RowsAreOfCommitted ==
    \A t \in issued : request[t] = "committed" /\ family[t] # NoToken
IdleHasNothing ==
    \A x \in Requests :
        request[x] = "idle" => presented[x] = NoToken /\ family[x] = NoToken
RotatesIssued ==
    \A x \in Requests : request[x] = "rotating" => presented[x] \in issued
AnswersAreOfFamily ==
    \A x \in Requests : request[x] = "answered" =>
        \/ presented[x] = NoToken /\ family[x] = x
        \/ presented[x] \in issued /\ family[x] = family[presented[x]]
ChainInv ==
    /\ ChainIsKept
    /\ RowsAreOfCommitted
    /\ IdleHasNothing
    /\ RotatesIssued
    /\ AnswersAreOfFamily

\* Steps that move a request on and touch no row and no family.
LEMMA MovesKeepChain ==
    ASSUME TypeOK, ChainInv, NEW x \in Requests, UNCHANGED <<rowVars, family>>,
           request[x] # "committed",
           NEW to \in (Unanswered \union Uncommitted \union Ended) \ {"committed", "answered"},
           request' = [request EXCEPT ![x] = to],
           NEW t \in Requests \union {NoToken}, presented' = [presented EXCEPT ![x] = t],
           to = "rotating" => t \in issued
    PROVE  ChainInv'
<1> USE DEF TypeOK, ChainInv, rowVars, Unanswered, Uncommitted, Ended
<1>1. ChainIsKept'
    BY DEF ChainIsKept
<1>2. RowsAreOfCommitted'
    BY DEF RowsAreOfCommitted
<1>3. \A y \in Requests \ {x} : presented'[y] = presented[y] /\ request'[y] = request[y]
    OBVIOUS
<1>4. IdleHasNothing'
    BY <1>3 DEF IdleHasNothing
<1>5. RotatesIssued'
  <2>1. CASE to = "rotating"
      BY <1>3, <2>1 DEF RotatesIssued
  <2>2. CASE to # "rotating"
      BY <1>3, <2>2 DEF RotatesIssued
  <2>3. QED
      BY <2>1, <2>2
<1>6. AnswersAreOfFamily'
    BY <1>3 DEF AnswersAreOfFamily
<1>7. QED
    BY <1>1, <1>2, <1>4, <1>5, <1>6

\* Those that leave the presented token alone as well.
LEMMA StaysKeepChain ==
    ASSUME TypeOK, ChainInv, NEW x \in Requests,
           UNCHANGED <<rowVars, family, presented>>, request[x] # "committed",
           NEW to \in (Unanswered \union Uncommitted \union Ended) \ {"committed", "answered"},
           request' = [request EXCEPT ![x] = to],
           to = "rotating" => presented[x] \in issued
    PROVE  ChainInv'
<1>1. presented' = [presented EXCEPT ![x] = presented[x]]
    BY DEF TypeOK
<1>2. presented[x] \in Requests \union {NoToken}
    BY DEF TypeOK
<1>3. QED
    BY <1>1, <1>2, MovesKeepChain

\* A login makes a family of its own.
LEMMA LoginKeepsChain ==
    ASSUME TypeOK, ChainInv, NEW x \in Requests, Login(x)
    PROVE  ChainInv'
<1> USE DEF TypeOK, ChainInv, Login, Goes, rowVars
<1>1. x \notin issued /\ presented[x] = NoToken
    BY DEF RowsAreOfCommitted, IdleHasNothing
<1>2. \A t \in issued : family'[t] = family[t] /\ request'[t] = request[t]
    BY <1>1
<1>3. ChainIsKept'
    BY <1>2 DEF ChainIsKept
<1>4. RowsAreOfCommitted' /\ IdleHasNothing' /\ RotatesIssued'
    BY <1>2 DEF RowsAreOfCommitted, IdleHasNothing, RotatesIssued
<1>5. AnswersAreOfFamily'
    BY <1>1, <1>2 DEF AnswersAreOfFamily
<1>6. QED
    BY <1>3, <1>4, <1>5

\* The new token joins the family of the one it replaces.
LEMMA RotateKeepsChain ==
    ASSUME TypeOK, ChainInv, NEW x \in Requests, Rotate(x)
    PROVE  ChainInv'
<1> USE DEF TypeOK, ChainInv, Rotate, Goes, rowVars
<1>1. x \notin issued /\ presented[x] \in issued
    BY DEF RowsAreOfCommitted, RotatesIssued
<1>2. \A t \in issued : family'[t] = family[t] /\ request'[t] = request[t]
    BY <1>1
<1>3. ChainIsKept'
    BY <1>2 DEF ChainIsKept
<1>4. RowsAreOfCommitted' /\ IdleHasNothing' /\ RotatesIssued'
    BY <1>2 DEF RowsAreOfCommitted, IdleHasNothing, RotatesIssued
<1>5. family'[x] = family[presented[x]]
    OBVIOUS
<1>6. AnswersAreOfFamily'
    BY <1>1, <1>2, <1>5 DEF AnswersAreOfFamily
<1>7. QED
    BY <1>3, <1>4, <1>6

\* The successor's row and the mark on its predecessor commit together.
LEMMA CommitIssueKeepsChain ==
    ASSUME TypeOK, ChainInv, NEW x \in Requests, CommitIssue(x)
    PROVE  ChainInv'
<1> USE DEF TypeOK, ChainInv, CommitIssue, Goes
<1>1. x \notin issued
    BY DEF RowsAreOfCommitted
<1>2. \/ presented[x] = NoToken /\ family[x] = x
      \/ presented[x] \in issued /\ family[x] = family[presented[x]]
    BY DEF AnswersAreOfFamily
<1>3. ChainIsKept'
  <2> SUFFICES ASSUME NEW t \in Requests, replacedBy'[t] # NoToken
               PROVE  /\ t \in issued' \ active'
                      /\ replacedBy'[t] \in issued'
                      /\ family'[replacedBy'[t]] = family'[t]
      BY DEF ChainIsKept
  <2>1. CASE t = presented[x]
      BY <1>1, <1>2, <2>1
  <2>2. CASE t # presented[x]
    <3>1. replacedBy'[t] = replacedBy[t]
        BY <2>2
    <3>2. QED
        BY <1>1, <2>2, <3>1 DEF ChainIsKept
  <2>3. QED
      BY <2>1, <2>2
<1>4. family[x] # NoToken
    BY <1>2 DEF RowsAreOfCommitted
<1>5. RowsAreOfCommitted' /\ IdleHasNothing' /\ RotatesIssued'
    BY <1>4 DEF RowsAreOfCommitted, IdleHasNothing, RotatesIssued
<1>6. AnswersAreOfFamily'
    BY DEF AnswersAreOfFamily
<1>7. QED
    BY <1>3, <1>5, <1>6

\* A revocation only takes tokens out of use.
LEMMA CommitRevocationKeepsChain ==
    ASSUME TypeOK, ChainInv, NEW x \in Requests, CommitRevocation(x)
    PROVE  ChainInv'
<1> USE DEF TypeOK, ChainInv, CommitRevocation, Goes
<1>1. ChainIsKept'
    BY DEF ChainIsKept
<1>2. RowsAreOfCommitted' /\ IdleHasNothing' /\ RotatesIssued'
    BY DEF RowsAreOfCommitted, IdleHasNothing, RotatesIssued
<1>3. AnswersAreOfFamily'
    BY DEF AnswersAreOfFamily
<1>4. QED
    BY <1>1, <1>2, <1>3

\* One step per action.
LEMMA StepKeepsChain == TypeOK /\ ChainInv /\ [Next]_vars => ChainInv'
<1> SUFFICES ASSUME TypeOK, ChainInv, [Next]_vars PROVE ChainInv'
    OBVIOUS
<1>1. CASE UNCHANGED vars
    BY <1>1 DEF vars, rowVars, ChainInv, ChainIsKept, RowsAreOfCommitted,
                IdleHasNothing, RotatesIssued, AnswersAreOfFamily
<1>2. ASSUME NEW x \in Requests, Arrives(x) PROVE ChainInv'
  <2>1. CASE Login(x)
      BY <2>1, LoginKeepsChain
  <2>2. ASSUME NEW t \in Requests, Refresh(x, t) \/ Logout(x, t) PROVE ChainInv'
    <3>1. PICK to \in {"presented", "leaving"} : request' = [request EXCEPT ![x] = to]
        BY <2>2 DEF Refresh, Logout, Goes
    <3>2. /\ UNCHANGED <<rowVars, family>>
          /\ request[x] # "committed"
          /\ presented' = [presented EXCEPT ![x] = t]
        BY <2>2 DEF Refresh, Logout, Goes
    <3>3. to \in (Unanswered \union Uncommitted \union Ended) \ {"committed", "answered"}
        BY DEF Unanswered
    <3>4. t \in Requests \union {NoToken}
        OBVIOUS
    <3>5. to # "rotating"
        OBVIOUS
    <3>6. QED
        BY <3>1, <3>2, <3>3, <3>4, <3>5, MovesKeepChain
  <2>3. CASE LogoutEverywhere(x)
      BY <2>3, StaysKeepChain DEF LogoutEverywhere, Goes, Unanswered
  <2>4. QED
      BY <1>2, <2>1, <2>2, <2>3 DEF Arrives
<1>3. ASSUME NEW x \in Requests, Continues(x) PROVE ChainInv'
  <2>1. CASE Reject(x) \/ DetectReplay(x) \/ LeaveUnknown(x)
      BY <2>1, StaysKeepChain
         DEF Reject, DetectReplay, LeaveUnknown, Goes, Unanswered, Ended
  <2>2. CASE AcceptToken(x)
      BY <2>2, StaysKeepChain DEF AcceptToken, Goes, Unanswered, TypeOK
  <2>3. CASE Rotate(x)
      BY <2>3, RotateKeepsChain
  <2>4. CASE CommitIssue(x)
      BY <2>4, CommitIssueKeepsChain
  <2>5. CASE BeginRevocation(x)
      BY <2>5, StaysKeepChain DEF BeginRevocation, Goes, Unanswered
  <2>6. CASE UpdateFamily(x)
      BY <2>6, StaysKeepChain DEF UpdateFamily, Goes, Unanswered, Uncommitted
  <2>7. CASE CommitRevocation(x)
      BY <2>7, CommitRevocationKeepsChain
  <2>8. CASE DatabaseFails(x)
      BY <2>8, StaysKeepChain DEF DatabaseFails, Goes, Unanswered, Uncommitted, Ended
  <2>9. QED
      BY <1>3, <2>1, <2>2, <2>3, <2>4, <2>5, <2>6, <2>7, <2>8 DEF Continues
<1>4. QED
    BY <1>1, <1>2, <1>3 DEF Next

\* However requests overlap and whatever commits fail, a token that names a
\* successor is used up and the successor is a committed token of its family.
THEOREM ChainAlwaysKept == Spec => []ChainIsKept
<1>1. Init => ChainInv
    BY DEF Init, ChainInv, ChainIsKept, RowsAreOfCommitted, IdleHasNothing,
           RotatesIssued, AnswersAreOfFamily
<1>2. ChainInv => ChainIsKept
    BY DEF ChainInv
<1>3. QED
    BY <1>1, <1>2, StepKeepsChain, TokensTypeCorrect, PTL DEF Spec

-----------------------------------------------------------------------------
(* Clients that leave a transaction the time to end                        *)

Working == Unanswered \union Uncommitted
Orderly == AtMostOne(Working)

\* What holds of every request at its place: a rotation has a good token in
\* hand, a revocation has found rows of the families it concerns, and that of
\* a replay has found all the good ones.
AtRotation(x) ==
    /\ request[x] = "rotating" => presented[x] \in active
    /\ request[x] = "answered" /\ presented[x] # NoToken => presented[x] \in active
AtRevocation(x) ==
    request[x] \in {"revoking", "revoked", "ending", "ended"} =>
        /\ \/ presented[x] \in issued
           \/ presented[x] = NoToken /\ family[x] = NoToken
        /\ \A t \in hits[x] : t \in issued /\ Concerns(x, family[t])
AtReplay(x) ==
    /\ request[x] \in {"detected", "revoking", "revoked", "replayed"}
           => presented[x] \in issued
    /\ request[x] \in {"revoking", "revoked"}
           => ActiveIn(family[presented[x]]) \subseteq hits[x]
    /\ request[x] = "replayed" => ActiveIn(family[presented[x]]) = {}
Sound(x) == AtRotation(x) /\ AtRevocation(x) /\ AtReplay(x)

\* A login that has not committed is of a family nobody else belongs to.
LoginsAreFresh ==
    \A x \in Requests : request[x] = "answered" /\ presented[x] = NoToken
        => \A t \in issued : family[t] # x
FamiliesHaveBegun ==
    \A t \in Requests : family[t] # NoToken => request[family[t]] # "idle"
SessionInv ==
    /\ OneActivePerFamily
    /\ LoginsAreFresh
    /\ FamiliesHaveBegun
    /\ \A x \in Requests : Sound(x)

\* Two requests at work on one family are the same request.
LEMMA OneAtWork ==
    ASSUME Orderly, NEW x \in Requests, NEW y \in Requests, NEW f \in Requests,
           request[x] \in Working, request[y] \in Working, Concerns(x, f), Concerns(y, f)
    PROVE  x = y
BY DEF Orderly, AtMostOne, AtWork

\* A step of one request that touches neither rows nor families need only be
\* sound for that request.
LEMMA MovesKeepSessions ==
    ASSUME TypeOK, SessionInv, NEW x \in Requests,
           UNCHANGED <<rowVars, family>>,
           NEW to \in (Working \union Ended) \ {"answered"},
           request' = [request EXCEPT ![x] = to],
           \A y \in Requests \ {x} : presented'[y] = presented[y] /\ hits'[y] = hits[y],
           Sound(x)'
    PROVE  SessionInv'
<1> USE DEF TypeOK, SessionInv, rowVars
<1>1. OneActivePerFamily'
    BY DEF OneActivePerFamily
<1>2. \A y \in Requests \ {x} : request'[y] = request[y]
    OBVIOUS
<1>3. request'[x] = to /\ to # "answered" /\ to # "idle"
    BY DEF Working, Unanswered, Uncommitted, Ended
<1>4. LoginsAreFresh' /\ FamiliesHaveBegun'
    BY <1>2, <1>3 DEF LoginsAreFresh, FamiliesHaveBegun
<1>5. ASSUME NEW y \in Requests \ {x} PROVE Sound(y)'
  <2>1. /\ request'[y] = request[y] /\ presented'[y] = presented[y]
        /\ hits'[y] = hits[y]
      BY <1>2
  <2>2. Sound(y)
      OBVIOUS
  <2>3. QED
      BY <2>1, <2>2 DEF Sound, AtRotation, AtRevocation, AtReplay, Concerns, ActiveIn
<1>6. QED
    BY <1>1, <1>4, <1>5

\* A step that only gives a family to a request without a row leaves the
\* others sound.
LEMMA OthersStaySound ==
    ASSUME TypeOK, ChainInv, SessionInv, NEW x \in Requests, UNCHANGED <<rowVars, presented, hits>>,
           \A t \in issued : family'[t] = family[t],
           \A z \in Requests \ {x} : request'[z] = request[z] /\ family'[z] = family[z],
           NEW y \in Requests \ {x}
    PROVE  Sound(y)'
<1> USE DEF TypeOK, SessionInv, rowVars
<1>1. Sound(y)
    OBVIOUS
<1>2. AtRotation(y)'
    BY <1>1 DEF Sound, AtRotation
<1>3. AtRevocation(y)'
    BY <1>1 DEF Sound, AtRevocation, Concerns
<1>4. AtReplay(y)'
    BY <1>1 DEF Sound, AtReplay, ActiveIn
<1>5. QED
    BY <1>2, <1>3, <1>4 DEF Sound

\* A family that begins with a login has no members yet.
LEMMA LoginKeepsSessions ==
    ASSUME TypeOK, ChainInv, SessionInv, NEW x \in Requests, Login(x)
    PROVE  SessionInv'
<1> USE DEF TypeOK, ChainInv, SessionInv, Login, Goes, rowVars
<1>1. x \notin issued /\ presented[x] = NoToken
    BY DEF RowsAreOfCommitted, IdleHasNothing
<1>2. \A t \in issued : family'[t] = family[t] /\ family[t] # x
    BY <1>1 DEF FamiliesHaveBegun, RowsAreOfCommitted
<1>3. OneActivePerFamily'
    BY <1>2 DEF OneActivePerFamily
<1>4. LoginsAreFresh'
    BY <1>2 DEF LoginsAreFresh
<1>5. FamiliesHaveBegun'
    BY DEF FamiliesHaveBegun
<1>6. Sound(x)'
    BY <1>1 DEF Sound, AtRotation, AtRevocation, AtReplay
<1>7. ASSUME NEW y \in Requests \ {x} PROVE Sound(y)'
    BY <1>7, <1>2, OthersStaySound
<1>8. QED
    BY <1>3, <1>4, <1>5, <1>6, <1>7

\* The family is settled; the rows wait for the commit.
LEMMA RotateKeepsSessions ==
    ASSUME TypeOK, ChainInv, SessionInv, NEW x \in Requests, Rotate(x)
    PROVE  SessionInv'
<1> USE DEF TypeOK, ChainInv, SessionInv, Rotate, Goes, rowVars
<1>1. x \notin issued /\ presented[x] \in active
    BY DEF RowsAreOfCommitted, Sound, AtRotation
<1>2. \A t \in issued : family'[t] = family[t]
    BY <1>1
<1>3. OneActivePerFamily'
    BY <1>2 DEF OneActivePerFamily
<1>4. LoginsAreFresh'
    BY <1>1, <1>2 DEF LoginsAreFresh
<1>5. FamiliesHaveBegun'
    BY <1>1 DEF FamiliesHaveBegun, RowsAreOfCommitted
<1>6. Sound(x)'
    BY <1>1 DEF Sound, AtRotation, AtRevocation, AtReplay
<1>7. ASSUME NEW y \in Requests \ {x} PROVE Sound(y)'
    BY <1>7, <1>2, OthersStaySound
<1>8. QED
    BY <1>3, <1>4, <1>5, <1>6, <1>7

\* The one step that makes a token good: nobody else is at work on its family,
\* and the token it replaces was the good one.
LEMMA CommitIssueKeepsSessions ==
    ASSUME TypeOK, ChainInv, SessionInv, Orderly, NEW x \in Requests, CommitIssue(x)
    PROVE  SessionInv'
<1> USE DEF TypeOK, ChainInv, SessionInv, CommitIssue, Goes
<1>1. x \notin issued
    BY DEF RowsAreOfCommitted
<1>2. \/ presented[x] = NoToken /\ family[x] = x
      \/ presented[x] \in active /\ family[x] = family[presented[x]]
    BY DEF AnswersAreOfFamily, Sound, AtRotation
<1>3. family[x] \in Requests
    BY <1>2 DEF RowsAreOfCommitted
<1>4. Concerns(x, family[x])
    BY <1>2, <1>3 DEF Concerns
<1>5. ASSUME NEW y \in Requests \ {x}, request[y] \in Working
      PROVE  ~Concerns(y, family[x])
    BY <1>3, <1>4, <1>5, OneAtWork DEF Working, Uncommitted
<1>6. \A t \in active \ {presented[x]} : family[t] # family[x]
    BY <1>2 DEF OneActivePerFamily, LoginsAreFresh
<1>7. OneActivePerFamily'
    BY <1>6 DEF OneActivePerFamily
<1>8. \A y \in Requests \ {x} : request'[y] = request[y]
    OBVIOUS
<1>9. LoginsAreFresh'
    BY <1>2, <1>8 DEF LoginsAreFresh
<1>10. FamiliesHaveBegun'
    BY <1>8 DEF FamiliesHaveBegun
<1>11. Sound(x)'
    BY DEF Sound, AtRotation, AtRevocation, AtReplay
<1>12. ASSUME NEW y \in Requests \ {x} PROVE Sound(y)'
  <2>1. Sound(y) /\ request'[y] = request[y]
      BY <1>8
  <2>2. AtRotation(y)'
    <3>1. ASSUME request[y] \in {"rotating", "answered"}, presented[y] \in active
          PROVE  presented[y] # presented[x]
        BY <1>2, <1>5, <3>1, NoTokenAssumption DEF Concerns, Working, Unanswered, Uncommitted
    <3>2. QED
        BY <2>1, <3>1 DEF Sound, AtRotation
  <2>3. AtRevocation(y)'
      BY <2>1 DEF Sound, AtRevocation, Concerns
  <2>4. AtReplay(y)'
    <3>1. CASE request[y] \in {"revoking", "revoked"}
      <4>1. family[presented[y]] # family[x]
          BY <1>5, <2>1, <3>1 DEF Sound, AtReplay, Concerns, Working, Unanswered
      <4>2. ActiveIn(family[presented[y]])' \subseteq ActiveIn(family[presented[y]])
          BY <4>1 DEF ActiveIn
      <4>3. QED
          BY <2>1, <3>1, <4>2 DEF Sound, AtReplay
    <3>2. CASE request[y] = "replayed"
      <4>1. presented[y] \in issued /\ ActiveIn(family[presented[y]]) = {}
          BY <2>1, <3>2 DEF Sound, AtReplay
      <4>2. family[presented[y]] # family[x]
          BY <1>2, <4>1 DEF LoginsAreFresh, ActiveIn
      <4>3. ActiveIn(family[presented[y]])' = {}
          BY <4>1, <4>2 DEF ActiveIn
      <4>4. QED
          BY <2>1, <3>2, <4>1, <4>3 DEF AtReplay
    <3>3. CASE request[y] \notin {"revoking", "revoked", "replayed"}
        BY <2>1, <3>3 DEF Sound, AtReplay
    <3>4. QED
        BY <3>1, <3>2, <3>3
  <2>5. QED
      BY <2>2, <2>3, <2>4 DEF Sound
<1>13. QED
    BY <1>7, <1>9, <1>10, <1>11, <1>12

\* A revocation disturbs no rotation: it would concern the same family.
LEMMA CommitRevocationKeepsSessions ==
    ASSUME TypeOK, ChainInv, SessionInv, Orderly, NEW x \in Requests, CommitRevocation(x)
    PROVE  SessionInv'
<1> USE DEF TypeOK, ChainInv, SessionInv, CommitRevocation, Goes
<1>1. OneActivePerFamily'
    BY DEF OneActivePerFamily
<1>2. \A y \in Requests \ {x} : request'[y] = request[y]
    OBVIOUS
<1>3. LoginsAreFresh' /\ FamiliesHaveBegun'
    BY <1>2 DEF LoginsAreFresh, FamiliesHaveBegun
<1>4. Sound(x)'
  <2>1. Sound(x)
      OBVIOUS
  <2>2. CASE request[x] = "revoked"
      BY <2>1, <2>2 DEF Sound, AtRotation, AtRevocation, AtReplay, ActiveIn
  <2>3. CASE request[x] = "ended"
      BY <2>3 DEF Sound, AtRotation, AtRevocation, AtReplay
  <2>4. QED
      BY <2>2, <2>3
<1>5. ASSUME NEW y \in Requests \ {x} PROVE Sound(y)'
  <2>1. Sound(y) /\ request'[y] = request[y]
      BY <1>2
  <2>2. AtRotation(y)'
    <3>1. ASSUME request[y] \in {"rotating", "answered"}, presented[y] \in active
          PROVE  presented[y] \notin hits[x]
      <4>1. SUFFICES ASSUME presented[y] \in hits[x] PROVE FALSE
          OBVIOUS
      <4>2. Concerns(x, family[presented[y]])
          BY <4>1 DEF Sound, AtRevocation
      <4>3. family[presented[y]] \in Requests /\ presented[y] # NoToken
          BY <3>1 DEF RowsAreOfCommitted
      <4>4. Concerns(y, family[presented[y]])
          BY <4>3 DEF Concerns
      <4>5. request[x] \in Working /\ request[y] \in Working
          BY <3>1 DEF Working, Unanswered, Uncommitted
      <4>6. QED
          BY <4>2, <4>3, <4>4, <4>5, OneAtWork
    <3>2. QED
        BY <2>1, <3>1 DEF Sound, AtRotation
  <2>3. AtRevocation(y)' /\ AtReplay(y)'
      BY <2>1 DEF Sound, AtRevocation, AtReplay, Concerns, ActiveIn
  <2>4. QED
      BY <2>2, <2>3 DEF Sound
<1>6. QED
    BY <1>1, <1>3, <1>4, <1>5

\* A revocation starts with every good token of the family it is about.
LEMMA RevocationKeepsSessions ==
    ASSUME TypeOK, ChainInv, SessionInv, NEW x \in Requests,
           BeginRevocation(x) \/ LogoutEverywhere(x) \/ UpdateFamily(x)
    PROVE  SessionInv'
<1> USE DEF TypeOK, ChainInv, SessionInv, Goes, rowVars
<1>1. Sound(x)
    OBVIOUS
<1>2. \A y \in Requests \ {x} : presented'[y] = presented[y] /\ hits'[y] = hits[y]
    BY DEF BeginRevocation, LogoutEverywhere, UpdateFamily
<1>3. PICK to \in {"revoking", "revoked", "ending", "ended"} :
          request' = [request EXCEPT ![x] = to]
    BY DEF BeginRevocation, LogoutEverywhere, UpdateFamily
<1>4. to \in (Working \union Ended) \ {"answered"}
    BY DEF Working, Unanswered, Uncommitted, Ended
<1>5. UNCHANGED <<rowVars, family, presented>>
    BY DEF BeginRevocation, LogoutEverywhere, UpdateFamily
<1>6. Sound(x)'
  <2>1. CASE BeginRevocation(x)
    <3>1. /\ presented[x] \in issued
          /\ hits'[x] = ActiveIn(family[presented[x]])
        BY <1>1, <2>1 DEF BeginRevocation, Sound, AtReplay
    <3>2. \A t \in hits'[x] : t \in issued /\ family[t] = family[presented[x]]
        BY <3>1 DEF ActiveIn
    <3>3. request'[x] \in {"revoking", "ending"}
        BY <2>1 DEF BeginRevocation
    <3>4. AtRevocation(x)'
        BY <1>5, <3>1, <3>2 DEF AtRevocation, Concerns
    <3>5. AtRotation(x)' /\ AtReplay(x)'
        BY <1>5, <3>1, <3>3 DEF AtRotation, AtReplay, ActiveIn
    <3>6. QED
        BY <3>4, <3>5 DEF Sound
  <2>2. CASE LogoutEverywhere(x)
    <3>1. presented[x] = NoToken /\ family[x] = NoToken /\ hits'[x] = active
        BY <2>2 DEF LogoutEverywhere, IdleHasNothing
    <3>2. request'[x] = "ending"
        BY <2>2 DEF LogoutEverywhere
    <3>3. QED
        BY <1>5, <3>1, <3>2
           DEF Sound, AtRotation, AtRevocation, AtReplay, Concerns
  <2>3. CASE UpdateFamily(x)
    <3>1. hits'[x] = hits[x] \intersect active
        BY <2>3 DEF UpdateFamily
    <3>2. \/ request[x] = "revoking" /\ request'[x] = "revoked"
          \/ request[x] = "ending" /\ request'[x] = "ended"
        BY <2>3 DEF UpdateFamily
    <3>3. AtRotation(x)' /\ AtRevocation(x)'
        BY <1>1, <1>5, <3>1, <3>2 DEF Sound, AtRotation, AtRevocation, Concerns
    <3>4. AtReplay(x)'
        BY <1>1, <1>5, <3>1, <3>2 DEF Sound, AtReplay, ActiveIn
    <3>5. QED
        BY <3>3, <3>4 DEF Sound
  <2>4. QED
      BY <2>1, <2>2, <2>3
<1>7. QED
    BY <1>2, <1>3, <1>4, <1>5, <1>6, MovesKeepSessions

\* The remaining steps only decide what becomes of a request.
LEMMA DecisionsKeepSessions ==
    ASSUME TypeOK, ChainInv, SessionInv, NEW x \in Requests,
           UNCHANGED <<rowVars, family, hits>>,
           \A y \in Requests \ {x} : presented'[y] = presented[y],
           NEW to \in {"presented", "leaving", "rejected", "gone", "failed", "lost",
                       "detected", "rotating"},
           request' = [request EXCEPT ![x] = to],
           to = "rotating" => presented'[x] \in active,
           to = "detected" => presented'[x] \in issued
    PROVE  SessionInv'
<1>1. to \in (Working \union Ended) \ {"answered"}
    BY DEF Working, Unanswered, Uncommitted, Ended
<1>2. Sound(x)'
    BY DEF TypeOK, rowVars, Sound, AtRotation, AtRevocation, AtReplay
<1>3. QED
    BY <1>1, <1>2, MovesKeepSessions

\* One step per action.
LEMMA StepKeepsSessions ==
    TypeOK /\ ChainInv /\ SessionInv /\ Orderly /\ [Next]_vars => SessionInv'
<1> SUFFICES ASSUME TypeOK, ChainInv, SessionInv, Orderly, [Next]_vars
             PROVE  SessionInv'
    OBVIOUS
<1>1. CASE UNCHANGED vars
    BY <1>1 DEF vars, rowVars, SessionInv, OneActivePerFamily, LoginsAreFresh,
                FamiliesHaveBegun, Sound, AtRotation, AtRevocation, AtReplay,
                Concerns, ActiveIn
<1>2. ASSUME NEW x \in Requests, Arrives(x) PROVE SessionInv'
  <2>1. CASE Login(x)
      BY <2>1, LoginKeepsSessions
  <2>2. ASSUME NEW t \in Requests, Refresh(x, t) \/ Logout(x, t) PROVE SessionInv'
    <3>1. PICK to \in {"presented", "leaving"} : request' = [request EXCEPT ![x] = to]
        BY <2>2 DEF Refresh, Logout, Goes
    <3>2. UNCHANGED <<rowVars, family, hits>>
        BY <2>2 DEF Refresh, Logout
    <3>3. \A y \in Requests \ {x} : presented'[y] = presented[y]
        BY <2>2 DEF Refresh, Logout, TypeOK
    <3>4. QED
        BY <3>1, <3>2, <3>3, DecisionsKeepSessions
  <2>3. CASE LogoutEverywhere(x)
      BY <2>3, RevocationKeepsSessions
  <2>4. QED
      BY <1>2, <2>1, <2>2, <2>3 DEF Arrives
<1>3. ASSUME NEW x \in Requests, Continues(x) PROVE SessionInv'
  <2>1. CASE Reject(x) \/ LeaveUnknown(x) \/ DatabaseFails(x)
    <3>1. PICK to \in {"rejected", "gone", "failed", "lost"} :
              request' = [request EXCEPT ![x] = to]
        BY <2>1 DEF Reject, LeaveUnknown, DatabaseFails, Goes
    <3>2. UNCHANGED <<rowVars, family, presented, hits>>
        BY <2>1 DEF Reject, LeaveUnknown, DatabaseFails
    <3>3. QED
        BY <3>1, <3>2, DecisionsKeepSessions
  <2>2. CASE DetectReplay(x)
      BY <2>2, DecisionsKeepSessions DEF DetectReplay, Goes
  <2>3. CASE AcceptToken(x)
      BY <2>3, DecisionsKeepSessions DEF AcceptToken, Goes
  <2>4. CASE Rotate(x)
      BY <2>4, RotateKeepsSessions
  <2>5. CASE CommitIssue(x)
      BY <2>5, CommitIssueKeepsSessions
  <2>6. CASE BeginRevocation(x) \/ UpdateFamily(x)
      BY <2>6, RevocationKeepsSessions
  <2>7. CASE CommitRevocation(x)
      BY <2>7, CommitRevocationKeepsSessions
  <2>8. QED
      BY <1>3, <2>1, <2>2, <2>3, <2>4, <2>5, <2>6, <2>7 DEF Continues
<1>4. QED
    BY <1>1, <1>2, <1>3 DEF Next

\* A token of an ended family has nobody who could exchange it any more.
LEMMA StepRevivesNothing ==
    TypeOK /\ ChainInv /\ SessionInv /\ [Next]_vars
        => \A f \in issued : ActiveIn(f) = {} => ActiveIn(f)' = {}
<1> SUFFICES ASSUME TypeOK, ChainInv, SessionInv, [Next]_vars,
                    NEW f \in issued, ActiveIn(f) = {}
             PROVE  ActiveIn(f)' = {}
    OBVIOUS
<1> USE DEF TypeOK, ChainInv, SessionInv, ActiveIn
<1>1. CASE active' \subseteq active /\ family' = family
    BY <1>1
<1>2. ASSUME NEW x \in Requests, Login(x) \/ Rotate(x) PROVE ActiveIn(f)' = {}
  <2>1. x \notin issued /\ active' = active
      BY <1>2 DEF Login, Rotate, Goes, rowVars, RowsAreOfCommitted
  <2>2. \A t \in active : family'[t] = family[t]
      BY <1>2, <2>1 DEF Login, Rotate
  <2>3. QED
      BY <2>1, <2>2
<1>3. ASSUME NEW x \in Requests, CommitIssue(x) PROVE ActiveIn(f)' = {}
  <2>1. family[x] # f
      BY <1>3 DEF CommitIssue, Goes, RowsAreOfCommitted, AnswersAreOfFamily,
                  Sound, AtRotation
  <2>2. QED
      BY <1>3, <2>1 DEF CommitIssue
<1>4. CASE UNCHANGED vars
    BY <1>1, <1>4 DEF vars, rowVars
<1>5. ASSUME NEW x \in Requests, Arrives(x) PROVE ActiveIn(f)' = {}
    BY <1>1, <1>2, <1>5 DEF Arrives, Refresh, Logout, LogoutEverywhere, rowVars
<1>6. ASSUME NEW x \in Requests, Continues(x) PROVE ActiveIn(f)' = {}
    BY <1>1, <1>2, <1>3, <1>6
       DEF Continues, Reject, DetectReplay, AcceptToken, LeaveUnknown, BeginRevocation,
           UpdateFamily, CommitRevocation, DatabaseFails, rowVars
<1>7. QED
    BY <1>4, <1>5, <1>6 DEF Next

\* The invariants of Spec hold for orderly clients as well, and theirs with them.
LEMMA OrderlyInvariant == OrderlySpec => [](TypeOK /\ ChainInv /\ SessionInv /\ Orderly)
<1>1. Init => TypeOK /\ ChainInv /\ SessionInv /\ Orderly
    BY DEF Init, TypeOK, Carrying, ChainInv, ChainIsKept, RowsAreOfCommitted, IdleHasNothing,
           RotatesIssued, AnswersAreOfFamily, SessionInv, OneActivePerFamily,
           LoginsAreFresh, FamiliesHaveBegun, Sound, AtRotation, AtRevocation, AtReplay,
           Orderly, AtMostOne, AtWork, Working, Unanswered, Uncommitted
<1>2. TypeOK /\ ChainInv /\ SessionInv /\ Orderly /\ [Next /\ Orderly']_vars
          => (TypeOK /\ ChainInv /\ SessionInv /\ Orderly)'
  <2> SUFFICES ASSUME TypeOK, ChainInv, SessionInv, Orderly, [Next /\ Orderly']_vars
               PROVE  (TypeOK /\ ChainInv /\ SessionInv /\ Orderly)'
      OBVIOUS
  <2>1. [Next]_vars
      OBVIOUS
  <2>2. Orderly'
    <3>1. CASE UNCHANGED vars
        BY <3>1 DEF vars, Orderly, AtMostOne, AtWork, Concerns
    <3>2. QED
        BY <3>1
  <2>3. QED
      BY <2>1, <2>2, StepKeepsTypes, StepKeepsChain, StepKeepsSessions
<1>3. OrderlySpec => Init /\ [][Next /\ Orderly']_vars
    BY DEF OrderlySpec, Orderly, Working
<1>4. QED
    BY <1>1, <1>2, <1>3, PTL

\* Each refresh of an orderly client leaves its session with one good token.
THEOREM OneActiveAlways == OrderlySpec => []OneActivePerFamily
<1>1. SessionInv => OneActivePerFamily
    BY DEF SessionInv
<1>2. QED
    BY <1>1, OrderlyInvariant, PTL

\* A replay that has been answered has ended its session, for good.
THEOREM ReplayAlwaysEnds == OrderlySpec => []ReplayEndsFamily
<1>1. SessionInv => ReplayEndsFamily
    BY DEF SessionInv, Sound, AtReplay, ReplayEndsFamily
<1>2. QED
    BY <1>1, OrderlyInvariant, PTL

\* A session that has ended does not come back.
THEOREM EndedNeverReturns == OrderlySpec => EndedFamilyStaysEnded
<1>1. TypeOK /\ ChainInv /\ SessionInv /\ [Next /\ Orderly']_vars
          => [\A f \in issued : ActiveIn(f) = {} => ActiveIn(f)' = {}]_vars
    BY StepRevivesNothing
<1>2. OrderlySpec => [][Next /\ Orderly']_vars
    BY DEF OrderlySpec, Orderly, Working
<1>3. QED
    BY <1>1, <1>2, OrderlyInvariant, PTL DEF EndedFamilyStaysEnded
=============================================================================
