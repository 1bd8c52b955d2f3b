------------------------- MODULE DocumentLifecycle --------------------------
(***************************************************************************)
(* What a user may rely on of a document: its phase, as the status shows   *)
(* it, and what a search can find of it.  Ingestion implements this, as    *)
(* long as nobody asks for a document while something is at work on it.    *)
(***************************************************************************)
CONSTANTS
    Documents,
    Chunks          \* what may be found of documents

VARIABLES
    phase,          \* how far each document has come
    found           \* chunks of it that a search can find

vars == <<phase, found>>

Phases == {"absent", "waiting", "reading", "building", "searchable", "failed", "gone"}
Kept == Phases \ {"absent", "gone"}

Init ==
    /\ phase = [d \in Documents |-> "absent"]
    /\ found = [d \in Documents |-> {}]

Moves(d, from, to) ==
    /\ phase[d] \in from
    /\ phase' = [phase EXCEPT ![d] = to]

Submit(d) == Moves(d, {"absent"}, "waiting") /\ UNCHANGED found

\* Extraction starts from anywhere but the middle of the work, and alone takes
\* a document out of FAILED.
Read(d) == Moves(d, {"waiting", "searchable", "failed"}, "reading") /\ UNCHANGED found

Accept(d) == Moves(d, {"reading"}, "building") /\ UNCHANGED found

\* What was found before stays findable.
GiveUp(d) == Moves(d, {"reading", "building"}, "failed") /\ UNCHANGED found

\* Only while it is being built does a document gain anything.
Rebuild(d) ==
    /\ Moves(d, {"building"}, "building")
    /\ found'[d] \subseteq Chunks
    /\ found' = [found EXCEPT ![d] = found'[d]]

\* A document that is called searchable can be found.
Publish(d) ==
    /\ Moves(d, {"building"}, "searchable")
    /\ found[d] # {}
    /\ UNCHANGED found

\* A deletion takes effect on the search before it does on the document.
Withdraw(d) ==
    /\ Moves(d, Kept, phase[d])
    /\ found' = [found EXCEPT ![d] = {}]

Remove(d) ==
    /\ Moves(d, Kept, "gone")
    /\ found' = [found EXCEPT ![d] = {}]

Next ==
    \E d \in Documents :
        \/ Submit(d) \/ Read(d) \/ Accept(d) \/ GiveUp(d)
        \/ Rebuild(d) \/ Publish(d) \/ Withdraw(d) \/ Remove(d)

Spec == Init /\ [][Next]_vars

=============================================================================
