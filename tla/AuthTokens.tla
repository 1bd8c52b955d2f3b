------------------------------ MODULE AuthTokens ------------------------------
(***************************************************************************)
(* The refresh tokens of one user: login, rotation, replay detection and   *)
(* logout.  Every request is a database transaction, and one that succeeds *)
(* is answered before it commits: the session dependency is torn down      *)
(* after the response has been sent.                                       *)
(*                                                                         *)
(* A request issues at most one token, so a token is named by the request  *)
(* that issued it, and a family by its first token.  Time is not modelled: *)
(* a token may turn out to be expired whenever it is decoded.              *)
(***************************************************************************)
CONSTANTS
    Requests,   \* login, refresh and logout requests that may arrive
    NoToken,
    DatabaseMayFail

ASSUME NoTokenAssumption == NoToken \notin Requests
ASSUME FailureAssumption == DatabaseMayFail \in BOOLEAN

VARIABLES
    issued,     \* tokens whose row is committed
    active,     \* those of them with is_active set
    replacedBy, \* the replaced_by_jti column
    family,     \* the family_id column
    request,    \* how far each request has come
    presented,  \* the token a request carries
    hits        \* the rows a revocation has found or written

rowVars == <<issued, active, replacedBy>>
vars == <<rowVars, family, request, presented, hits>>

\* Before the answer; after it; ended with the transaction committed or not.
Unanswered == {"presented", "rotating", "detected", "revoking", "revoked", "leaving", "ending"}
Uncommitted == {"answered", "ended"}
Ended == {"committed", "rejected", "replayed", "gone", "failed", "lost"}

\* States of a request that always carries a refresh token.
Carrying == {"presented", "rotating", "detected", "revoking", "revoked", "replayed", "leaving"}

TypeOK ==
    /\ issued \in SUBSET Requests
    /\ active \in SUBSET issued
    /\ replacedBy \in [Requests -> Requests \union {NoToken}]
    /\ family \in [Requests -> Requests \union {NoToken}]
    /\ request \in [Requests -> {"idle"} \union Unanswered \union Uncommitted \union Ended]
    /\ presented \in [Requests -> Requests \union {NoToken}]
    /\ hits \in [Requests -> SUBSET Requests]
    /\ \A x \in Requests : request[x] \in Carrying => presented[x] \in Requests

Init ==
    /\ issued = {}
    /\ active = {}
    /\ replacedBy = [t \in Requests |-> NoToken]
    /\ family = [t \in Requests |-> NoToken]
    /\ request = [x \in Requests |-> "idle"]
    /\ presented = [x \in Requests |-> NoToken]
    /\ hits = [x \in Requests |-> {}]

Goes(x, from, to) ==
    /\ request[x] = from
    /\ request' = [request EXCEPT ![x] = to]

\* The members of a family whose active row is committed.
ActiveIn(f) == {t \in active : family[t] = f}

\* Tokens a client holds: sent in an answer, whatever became of the commit.
Delivered == {t \in Requests :
    family[t] # NoToken /\ request[t] \in {"answered", "committed", "lost"}}

\* Rows that a request's open transaction has written.
LockedBy(x) ==
    CASE request[x] = "answered" -> {presented[x]}
      [] request[x] \in {"revoked", "ended"} -> hits[x]
      [] OTHER -> {}

Unlocked(x, t) == \A y \in Requests \ {x} : t \notin LockedBy(y)

-----------------------------------------------------------------------------
(* login and register                                                      *)

\* A new family of one token, flushed and answered.
Login(x) ==
    /\ Goes(x, "idle", "answered")
    /\ family' = [family EXCEPT ![x] = x]
    /\ UNCHANGED <<rowVars, presented, hits>>

-----------------------------------------------------------------------------
(* refresh                                                                 *)

Refresh(x, t) ==
    /\ t \in Delivered
    /\ Goes(x, "idle", "presented")
    /\ presented' = [presented EXCEPT ![x] = t]
    /\ UNCHANGED <<rowVars, family, hits>>

\* Not decoded because it has expired, or no row has its jti.
Reject(x) ==
    /\ Goes(x, "presented", "rejected")
    /\ UNCHANGED <<rowVars, family, presented, hits>>

DetectReplay(x) ==
    /\ presented[x] \in issued \ active
    /\ Goes(x, "presented", "detected")
    /\ UNCHANGED <<rowVars, family, presented, hits>>

\* The check that makes a token good for one exchange is left out.
AcceptAnyToken(x) ==
    /\ presented[x] \in issued
    /\ Goes(x, "presented", "rotating")
    /\ UNCHANGED <<rowVars, family, presented, hits>>

AcceptToken(x) ==
    /\ presented[x] \in active
    /\ Goes(x, "presented", "rotating")
    /\ UNCHANGED <<rowVars, family, presented, hits>>

\* The rotation commits by itself, ahead of the row of the new token.
RotateDurably(x) ==
    /\ Unlocked(x, presented[x])
    /\ Goes(x, "rotating", "answered")
    /\ family' = [family EXCEPT ![x] = family[presented[x]]]
    /\ active' = active \ {presented[x]}
    /\ replacedBy' = [replacedBy EXCEPT ![presented[x]] = x]
    /\ UNCHANGED <<issued, presented, hits>>

\* The new row is inserted, then the presented one marked as rotated; that
\* update waits for a transaction that has written the row, and does not ask
\* again whether it is active.  The answer leaves.
Rotate(x) ==
    /\ Unlocked(x, presented[x])
    /\ Goes(x, "rotating", "answered")
    /\ family' = [family EXCEPT ![x] = family[presented[x]]]
    /\ UNCHANGED <<rowVars, presented, hits>>

\* The rotated token stays good.
CommitIssueOnly(x) ==
    /\ Goes(x, "answered", "committed")
    /\ issued' = issued \union {x}
    /\ active' = active \union {x}
    /\ replacedBy' = [t \in Requests |-> IF t = presented[x] THEN x ELSE replacedBy[t]]
    /\ UNCHANGED <<family, presented, hits>>

\* The end of a login or a refresh.
CommitIssue(x) ==
    /\ Goes(x, "answered", "committed")
    /\ issued' = issued \union {x}
    /\ active' = (active \ {presented[x]}) \union {x}
    /\ replacedBy' = [t \in Requests |-> IF t = presented[x] THEN x ELSE replacedBy[t]]
    /\ UNCHANGED <<family, presented, hits>>

-----------------------------------------------------------------------------
(* logout, logout everywhere and the revocation after a replay             *)

Logout(x, t) ==
    /\ t \in Delivered
    /\ Goes(x, "idle", "leaving")
    /\ presented' = [presented EXCEPT ![x] = t]
    /\ UNCHANGED <<rowVars, family, hits>>

\* The token is unreadable or unknown: nothing to do.
LeaveUnknown(x) ==
    /\ Goes(x, "leaving", "gone")
    /\ UNCHANGED <<rowVars, family, presented, hits>>

\* The UPDATE starts: it will consider the rows that are committed by now.
BeginRevocation(x) ==
    /\ \/ Goes(x, "detected", "revoking")
       \/ presented[x] \in issued /\ Goes(x, "leaving", "ending")
    /\ hits' = [hits EXCEPT ![x] = ActiveIn(family[presented[x]])]
    /\ UNCHANGED <<rowVars, family, presented>>

\* logout-all carries an access token, which no row is needed for.
LogoutEverywhere(x) ==
    /\ Goes(x, "idle", "ending")
    /\ hits' = [hits EXCEPT ![x] = active]
    /\ UNCHANGED <<rowVars, family, presented>>

\* Once nobody else has written them, those that are still active are written.
\* A logout is answered here.
UpdateFamily(x) ==
    /\ \A t \in hits[x] : Unlocked(x, t)
    /\ Goes(x, "revoking", "revoked") \/ Goes(x, "ending", "ended")
    /\ hits' = [hits EXCEPT ![x] = @ \intersect active]
    /\ UNCHANGED <<rowVars, family, presented>>

\* Raising rolls the revocation after a replay back.
CommitLogoutOnly(x) ==
    /\ \/ Goes(x, "revoked", "replayed") /\ UNCHANGED active
       \/ Goes(x, "ended", "gone") /\ active' = active \ hits[x]
    /\ UNCHANGED <<issued, replacedBy, family, presented, hits>>

\* The revocation after a replay commits before the request is answered, the
\* one of a logout after.
CommitRevocation(x) ==
    /\ Goes(x, "revoked", "replayed") \/ Goes(x, "ended", "gone")
    /\ active' = active \ hits[x]
    /\ UNCHANGED <<issued, replacedBy, family, presented, hits>>

-----------------------------------------------------------------------------

\* The transaction rolls back.  A client that was answered does not know.
DatabaseFails(x) ==
    /\ DatabaseMayFail
    /\ \/ \E at \in Unanswered : Goes(x, at, "failed")
       \/ \E at \in Uncommitted : Goes(x, at, "lost")
    /\ UNCHANGED <<rowVars, family, presented, hits>>

Arrives(x) ==
    \/ Login(x)
    \/ \E t \in Requests : Refresh(x, t)
    \/ \E t \in Requests : Logout(x, t)
    \/ LogoutEverywhere(x)

Continues(x) ==
    \/ Reject(x)
    \/ DetectReplay(x)
    \/ AcceptToken(x)
    \/ Rotate(x)
    \/ CommitIssue(x)
    \/ LeaveUnknown(x)
    \/ BeginRevocation(x)
    \/ UpdateFamily(x)
    \/ CommitRevocation(x)
    \/ DatabaseFails(x)

Next == \E x \in Requests : Arrives(x) \/ Continues(x)

Spec == Init /\ [][Next]_vars

-----------------------------------------------------------------------------
(* Who is at work on a family                                              *)

\* The families a request reads or writes; logout-all concerns each of them.
Concerns(x, f) ==
    \/ presented[x] # NoToken /\ family[presented[x]] = f
    \/ presented[x] = NoToken /\ family[x] \in {f, NoToken}

AtWork(states, f) == {x \in Requests : request[x] \in states /\ Concerns(x, f)}

AtMostOne(states) ==
    \A f \in Requests : \A x, y \in AtWork(states, f) : x = y

\* Clients that wait for an answer before they send the next request.
PatientSpec == Init /\ [][Next /\ AtMostOne(Unanswered)']_vars

\* Clients slow enough for the transaction of the last request to have ended.
OrderlySpec == Init /\ [][Next /\ AtMostOne(Unanswered \union Uncommitted)']_vars

-----------------------------------------------------------------------------

\* Each refresh consumes its token and issues one: a session has one token
\* that is good at a time.
OneActivePerFamily ==
    \A t, u \in active : family[t] = family[u] => t = u

\* A session that has ended does not come back: once no token of a family is
\* active, none ever is.
EndedFamilyStaysEnded ==
    [][\A f \in issued : ActiveIn(f) = {} => ActiveIn(f)' = {}]_vars

\* A replay that was answered has ended the session, although the request
\* raised and everything else of its transaction is rolled back.
ReplayEndsFamily ==
    \A x \in Requests :
        request[x] = "replayed" => ActiveIn(family[presented[x]]) = {}

\* The audit trail: a token names as its successor only a committed token of
\* its own family, and is itself used up.
ChainIsKept ==
    \A t \in Requests : replacedBy[t] # NoToken =>
        /\ t \in issued \ active
        /\ replacedBy[t] \in issued
        /\ family[replacedBy[t]] = family[t]

=============================================================================
