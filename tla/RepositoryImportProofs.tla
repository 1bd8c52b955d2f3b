----------------------- MODULE RepositoryImportProofs -----------------------
(***************************************************************************)
(* What the walk of a checkout yields, and the safety of RepositoryImport, *)
(* for any number of repositories, imports and files and for every fault.  *)
(***************************************************************************)
EXTENDS RepositoryImport, Maxima

-----------------------------------------------------------------------------
(* The walk                                                                *)

WalkResult ==
    {r \in [files : Seq(Contents), skipped : Nat,
            reasons : [Reasons \union {"repository_too_large"} -> Nat],
            truncated : BOOLEAN] :
        Len(r.files) <= MaxFiles}

LEMMA NothingWalkedIsAResult == NothingWalked \in WalkResult
BY MaxFilesAssumption DEF NothingWalked, WalkResult

\* One entry more is a result again, within the limit.
LEMMA SkipYieldsAResult ==
    ASSUME NEW result \in WalkResult, NEW reason \in Reasons \union {"repository_too_large"}
    PROVE  Skip(result, reason) \in WalkResult
<1> DEFINE counts == [result.reasons EXCEPT ![reason] = @ + 1]
<1>1. counts \in [Reasons \union {"repository_too_large"} -> Nat]
    BY DEF WalkResult
<1> HIDE DEF counts
<1> DEFINE counted == [result EXCEPT !.skipped = @ + 1]
<1>2. counted \in WalkResult
    BY DEF WalkResult
<1>3. Skip(result, reason) = [counted EXCEPT !.reasons = counts]
    BY Zenon DEF Skip, counts
<1> HIDE DEF counted
<1> QED
    BY <1>1, <1>2, <1>3 DEF WalkResult

LEMMA VisitYieldsAResult ==
    ASSUME NEW result \in WalkResult, NEW entry \in Entries
    PROVE  Visit(result, entry) \in WalkResult
<1> USE MaxFilesAssumption
<1>1. CASE entry.kind \in Pruned
    BY <1>1 DEF Visit
<1>2. CASE entry.kind \notin Pruned /\ Len(result.files) >= MaxFiles
    <2>1. [result EXCEPT !.truncated = TRUE] \in WalkResult
        BY DEF WalkResult
    <2> QED
        BY <1>2, <2>1, SkipYieldsAResult DEF Visit
<1>3. CASE /\ entry.kind \notin Pruned /\ ~(Len(result.files) >= MaxFiles)
           /\ entry.kind \in Reasons
    BY <1>3, SkipYieldsAResult DEF Visit
<1>4. CASE /\ entry.kind \notin Pruned /\ ~(Len(result.files) >= MaxFiles)
           /\ entry.kind \notin Reasons
    <2> DEFINE longer == Append(result.files, entry.content)
    <2>1. entry.content \in Contents
        BY <1>4 DEF Entries, Source, Other
    <2>2. longer \in Seq(Contents) /\ Len(longer) <= MaxFiles
        BY <1>4, <2>1 DEF WalkResult
    <2>3. Visit(result, entry) = [result EXCEPT !.files = longer]
        BY <1>4 DEF Visit
    <2> HIDE DEF longer
    <2> QED
        BY <2>2, <2>3 DEF WalkResult
<1> QED
    BY <1>1, <1>2, <1>3, <1>4

\* The walk of the entries whose places are in a set, given that of the
\* smaller sets.
StepOfWalk(entries, before, s) ==
    IF s = {} THEN NothingWalked
    ELSE Visit(before[s \ {Max(s)}], entries[Max(s)])

\* The walks of the sets of places of a checkout exist.
LEMMA WalkExists ==
    ASSUME NEW entries \in Seq(Entries), NEW n, n = Len(entries)
    PROVE  \E walked : walked = [s \in SUBSET (1..n) |-> StepOfWalk(entries, walked, s)]
<1> DEFINE step == [m \in 1..n |-> [result \in WalkResult |-> Visit(result, entries[m])]]
<1>1. n \in Nat /\ \A m \in 1..n : entries[m] \in Entries
    OBVIOUS
<1>2. \A m \in 1..n : \A result \in WalkResult : Visit(result, entries[m]) \in WalkResult
    BY <1>1, VisitYieldsAResult
<1>3. Stays(step, WalkResult, n)
    BY <1>2 DEF Stays
<1>4. \A m \in 1..n : \A result \in WalkResult : step[m][result] = Visit(result, entries[m])
    OBVIOUS
<1> HIDE DEF step
<1>5. PICK walked : IsFoldOf(walked, NothingWalked, step, WalkResult, n)
    BY <1>1, <1>3, NothingWalkedIsAResult, FoldExists
<1>6. ASSUME NEW s \in SUBSET (1..n) PROVE walked[s] = StepOfWalk(entries, walked, s)
    <2>1. walked[s] = StepOfFold(NothingWalked, step, walked, s)
        BY <1>5 DEF IsFoldOf
    <2>2. CASE s = {}
        BY <2>1, <2>2 DEF StepOfFold, StepOfWalk
    <2>3. CASE s # {}
        <3>1. Max(s) \in 1..n /\ s \ {Max(s)} \in SUBSET (1..n)
            BY <1>1, <2>3, MaxIsBounded
        <3>2. walked[s \ {Max(s)}] \in WalkResult
            BY <1>5, <3>1 DEF IsFoldOf
        <3> QED
            BY <1>4, <2>1, <2>3, <3>1, <3>2, Zenon DEF StepOfFold, StepOfWalk
    <2> QED
        BY <2>2, <2>3
<1>7. walked = [s \in SUBSET (1..n) |-> walked[s]]
    BY <1>5 DEF IsFoldOf
<1> QED
    BY <1>6, <1>7, Zenon

\* `walk_repository` yields a list of files that is within MAX_FILES, and
\* counts, whatever the checkout holds.
THEOREM WalkIsBounded ==
    ASSUME NEW entries \in Seq(Entries)
    PROVE  Walk(entries) \in WalkResult
<1> DEFINE walked == CHOOSE w : w = [s \in SUBSET (DOMAIN entries) |-> StepOfWalk(entries, w, s)]
           n == Len(entries)
<1>1. n \in Nat /\ DOMAIN entries = 1..n
    OBVIOUS
<1>2. walked = [s \in SUBSET (1..n) |-> StepOfWalk(entries, walked, s)]
    BY <1>1, WalkExists
<1>3. Walk(entries) = walked[1..n]
    BY <1>1, Zenon DEF Walk, FoldLeft, MapThenFoldSet, StepOfWalk
<1> HIDE DEF walked
<1> DEFINE Bad == {m \in 0..n : walked[1..m] \notin WalkResult}
<1>4. Bad = {}
    <2> SUFFICES ASSUME Bad # {} PROVE FALSE
        OBVIOUS
    <2>0. Bad \in SUBSET Nat
        BY <1>1
    <2>1. PICK m \in Bad : \A k \in Nat : k < m => k \notin Bad
        BY <2>0, SetHasLeast, Zenon
    <2>2. m \in Nat /\ m <= n
        BY <1>1, <2>1
    <2>3. (1..m) \in SUBSET (1..n)
        BY <1>1, <2>2
    <2>4. walked[1..m] = StepOfWalk(entries, walked, 1..m)
        BY <1>2, <2>3, Zenon
    <2>5. CASE m = 0
        BY <2>1, <2>4, <2>5, NothingWalkedIsAResult DEF StepOfWalk
    <2>6. CASE m # 0
        <3>0. m - 1 \in Nat /\ m - 1 \in 0..n /\ m - 1 < m
            BY <1>1, <2>2, <2>6
        <3>1. (1..m) # {} /\ (1..m) \ {m} = 1..m - 1
            BY <2>2, <2>6, IntervalWithoutEnd
        <3>2. walked[1..m] = Visit(walked[1..m - 1], entries[m])
            BY <2>2, <2>4, <2>6, <3>1, MaxOfInterval, Zenon DEF StepOfWalk
        <3>3. walked[1..m - 1] \in WalkResult
            BY <2>1, <3>0
        <3>4. entries[m] \in Entries
            BY <2>2, <2>6
        <3> QED
            BY <2>1, <3>2, <3>3, <3>4, VisitYieldsAResult
    <2> QED
        BY <2>5, <2>6
<1> QED
    BY <1>1, <1>3, <1>4

-----------------------------------------------------------------------------
(* The inductive invariant, part by part                                   *)

Storing == {"put", "look_up", "insert"}
Collected == Storing \union {"commit", "finalise", "index", "done"}
BeforeFiles == {"idle", "asked", "refused", "scheduled", "unstarted", "cloning",
                "cloned", "ensuring", "collecting"}

Types == TypeOK /\ walk \in [Imports -> WalkResult]

\* An import that has not come to its files has stored none.
NothingYet ==
    \A i \in Imports : import[i] \in BeforeFiles =>
        /\ at[i] = 0 /\ flushed[i] = {}
        /\ \A k \in objects : k.import # i

\* The files of an import are dealt with in their order.
InOrder ==
    \A i \in Imports :
        /\ import[i] \in Storing => at[i] < Len(Files(i))
        /\ \A k \in flushed[i] : k.import = i /\ k.file <= at[i]
        /\ import[i] \in {"look_up", "insert"} => Current(i) \in objects

\* Committed documents belong to an import whose walk has ended well.
WalkedWell == {"finalise", "index", "done", "failing", "failed", "killed", "lost"}
CommittedLate == \A k \in documents : import[k.import] \in WalkedWell

\* Rows, committed or not, have contents of their own.
Rows == documents \union UNION {flushed[i] : i \in Imports}

RowsAreUnique ==
    /\ \A k, l \in Rows : ContentOf(k) = ContentOf(l) => k = l
    /\ \A k \in Rows : ContentOf(k) \notin owned
    /\ \A i \in Imports : import[i] = "insert" => ContentOf(Current(i)) \notin FlushedBy(i)

\* What an import has stored is in its transaction, then in the database,
\* unless it was to be removed and could not be.
StoredByStage ==
    \A k \in objects \ undeleted :
        LET i == k.import IN
        /\ import[i] \in {"put", "commit"} => k \in flushed[i]
        /\ import[i] \in {"look_up", "insert"} => k \in flushed[i] \union {Current(i)}
        /\ import[i] \in {"finalise", "index", "done"} => k \in documents

\* The files that an import has dealt with are the user's.
WalkedAreHeld ==
    \A i \in Imports : \A n \in 1..Len(Files(i)) :
        /\ import[i] \in Storing /\ n <= at[i] => Files(i)[n] \in Held \union FlushedBy(i)
        /\ import[i] = "commit" => Files(i)[n] \in Held \union FlushedBy(i)
        /\ import[i] = "finalise" => Files(i)[n] \in Held

Unrivalled(r) == \A i, j \in Imports : about[i] = r /\ about[j] = r => ~Overlap(i, j)

\* A record that is absent has no import, and a deleted one never returns.
RecordsAreUsed ==
    \A i \in Imports :
        /\ import[i] = "idle" <=> about[i] = NoRepo
        /\ used[i] # NoCollection \/ UnderWay(i) =>
              about[i] \in Repos /\ status[about[i]] # "absent"
        /\ import[i] \in BeforeFiles => used[i] = NoCollection
        /\ import[i] \in Collected => used[i] # NoCollection
        /\ \A k \in objects : k.import = i => used[i] # NoCollection

RivalsAreKnown ==
    /\ \A i \in Imports : import[i] \in {"idle", "asked"} => rivals[i] = {}
    /\ \A i, j \in Imports :
          i # j /\ about[i] = about[j] /\ UnderWay(i) /\ UnderWay(j) => Overlap(i, j)

\* Imports that met no rival agree on the record's collection.
CollectionIsShared ==
    \A i \in Imports :
        about[i] \in Repos /\ Live(about[i]) /\ Unrivalled(about[i]) =>
            /\ import[i] = "collecting" => found[i] = collectionOf[about[i]]
            /\ used[i] # NoCollection => used[i] = collectionOf[about[i]]

IInv ==
    /\ Types /\ NothingYet /\ InOrder /\ CommittedLate
    /\ RowsAreUnique /\ StoredByStage /\ UnsettledHasReason /\ WalkedAreHeld
    /\ RecordsAreUsed /\ RivalsAreKnown /\ CollectionIsShared

-----------------------------------------------------------------------------
(* Types                                                                   *)

LEMMA FilesAreFiles ==
    ASSUME Types, NEW i \in Imports
    PROVE  /\ Files(i) \in Seq(Contents) /\ Len(Files(i)) \in Nat
           /\ Len(Files(i)) <= MaxFiles /\ at[i] \in Nat
BY DEF Types, TypeOK, WalkResult, Files

\* The next file of an import is one of its files, and has a key.
LEMMA CurrentIsAKey ==
    ASSUME Types, InOrder, NEW i \in Imports, import[i] \in Storing
    PROVE  /\ Current(i) \in [import : Imports, file : 1..MaxFiles]
           /\ at[i] + 1 \in 1..MaxFiles /\ at[i] + 1 \in 1..Len(Files(i))
<1>1. at[i] < Len(Files(i))
    BY DEF InOrder
<1>2. at[i] + 1 \in 1..MaxFiles /\ at[i] + 1 \in 1..Len(Files(i))
    BY <1>1, FilesAreFiles, MaxFilesAssumption
<1> QED
    BY <1>2 DEF Current, Key

\* An unlink touches one file, which is gone or known to have stayed.
LEMMA UnlinkIsLogged ==
    ASSUME NEW i, UnlinkCurrent(i)
    PROVE  /\ objects' \subseteq objects \union {Current(i)}
           /\ objects \subseteq objects' \union {Current(i)}
           /\ undeleted \subseteq undeleted' /\ undeleted' \subseteq undeleted \union {Current(i)}
           /\ Current(i) \notin objects' \ undeleted'
BY DEF UnlinkCurrent

LEMMA JobKeepsTypes ==
    ASSUME Types, InOrder, CommittedLate, RecordsAreUsed,
           NEW i \in Imports, Arrives(i) \/ JobStep(i)
    PROVE  Types'
<1> USE DEF Types, TypeOK, Goes, SetStatus, repoVars, storeVars, jobVars, Working, Ended,
            Status, InFlight, Storing
<1>1. ASSUME NEW r \in Repos, RequestImport(i, r) \/ RequestSync(i, r) PROVE Types'
    <2>1. /\ Goes(i, "idle", "asked") /\ about' = [about EXCEPT ![i] = r]
          /\ UNCHANGED <<repoVars, storeVars, owned, found, used, checkout, walk, flushed, at, rivals>>
        BY <1>1 DEF RequestImport, RequestSync
    <2> QED
        BY <2>1
<1>2. CASE AcceptRequest(i)
    BY <1>2 DEF AcceptRequest
<1>3. CASE RefuseRequest(i)
    BY <1>3 DEF RefuseRequest
<1>4. CASE BeginClone(i)
    BY <1>4 DEF BeginClone
<1>5. CASE Clone(i)
    BY <1>5 DEF Clone
<1>6. CASE CloneFails(i)
    BY <1>6 DEF CloneFails
<1>7. CASE BeginImport(i)
    <2> DEFINE walked == Walk(checkout[i])
    <2>1. checkout[i] \in Seq(Entries)
        <3>1. checkout[i] \in Checkouts \union {<<>>} /\ <<>> \in Seq(Entries)
            OBVIOUS
        <3> QED
            BY <3>1, ImportAssumption
    <2>2. walked \in WalkResult
        BY <2>1, WalkIsBounded
    <2>3. walk' = [walk EXCEPT ![i] = walked]
        BY <1>7 DEF BeginImport
    <2> HIDE DEF walked
    <2> QED
        BY <1>7, <2>2, <2>3 DEF BeginImport
<1>8. CASE ReadCollection(i)
    <2> DEFINE c == IF Live(about[i]) THEN collectionOf[about[i]] ELSE NoCollection
    <2>1. about[i] \in Repos
        BY <1>8 DEF ReadCollection, RecordsAreUsed
    <2>2. collectionOf[about[i]] \in Imports \union {NoCollection}
        BY <2>1
    <2>3. c \in Imports \union {NoCollection}
        BY <2>2
    <2>4. found' = [found EXCEPT ![i] = c]
        BY <1>8 DEF ReadCollection
    <2> HIDE DEF c
    <2> QED
        BY <1>8, <2>3, <2>4 DEF ReadCollection
<1>9. CASE EnsureCollection(i)
    BY <1>9 DEF EnsureCollection, NextFile
<1>10. CASE PutFile(i)
    BY <1>10, CurrentIsAKey DEF PutFile
<1>11. CASE SkipDuplicate(i)
    <2>1. /\ Goes(i, "look_up", NextFile(i, at[i] + 1)) /\ at' = [at EXCEPT ![i] = @ + 1]
          /\ UnlinkCurrent(i)
          /\ UNCHANGED <<repoVars, documents, settled, owned, about, found, used, checkout,
                         walk, flushed, rivals>>
        BY <1>11 DEF SkipDuplicate, Advance
    <2>2. Current(i).import = i /\ Current(i).file = at[i] + 1
        BY DEF Current, Key
    <2>3. Current(i) \notin documents
        BY <2>1, <2>2 DEF CommittedLate, WalkedWell
    <2>4. \A j \in Imports : Current(i) \notin flushed[j]
        BY <2>2 DEF InOrder
    <2>5. at[i] + 1 \in 0..MaxFiles /\ Current(i) \in [import : Imports, file : 1..MaxFiles]
        BY <2>1, CurrentIsAKey
    <2>6. /\ documents' \subseteq objects' /\ \A j \in Imports : flushed'[j] \subseteq objects'
          /\ objects' \subseteq [import : Imports, file : 1..MaxFiles]
          /\ undeleted' \subseteq [import : Imports, file : 1..MaxFiles]
        BY <2>1, <2>3, <2>4, <2>5, UnlinkIsLogged
    <2> QED
        BY <2>1, <2>5, <2>6 DEF NextFile
<1>12. CASE FindNoDuplicate(i)
    BY <1>12 DEF FindNoDuplicate
<1>13. CASE AddDocument(i)
    <2>1. /\ Goes(i, "insert", NextFile(i, at[i] + 1)) /\ at' = [at EXCEPT ![i] = @ + 1]
          /\ flushed' = [flushed EXCEPT ![i] = @ \union {Current(i)}]
          /\ UNCHANGED <<repoVars, storeVars, owned, about, found, used, checkout, walk, rivals>>
        BY <1>13 DEF AddDocument, Advance
    <2>2. Current(i) \in objects /\ at[i] + 1 \in 0..MaxFiles
        BY <2>1, CurrentIsAKey DEF InOrder
    <2> QED
        BY <2>1, <2>2 DEF NextFile
<1>14. CASE WalkFails(i)
    <2>1. /\ import' = [import EXCEPT ![i] = "failing"] /\ flushed' = [flushed EXCEPT ![i] = {}]
          /\ UNCHANGED <<repoVars, documents, settled, owned, about, found, used, checkout, walk,
                         at, rivals>>
          /\ \/ UNCHANGED <<objects, undeleted>>
             \/ import[i] = "put" /\ UnlinkCurrent(i)
        BY <1>14 DEF WalkFails
    <2>2. CASE UNCHANGED <<objects, undeleted>>
        BY <2>1, <2>2
    <2>3. CASE import[i] = "put" /\ UnlinkCurrent(i)
        <3>1. Current(i).import = i /\ Current(i).file = at[i] + 1
            BY DEF Current, Key
        <3>2. Current(i) \notin documents
            BY <2>3, <3>1 DEF CommittedLate, WalkedWell
        <3>3. \A j \in Imports : Current(i) \notin flushed[j]
            BY <3>1 DEF InOrder
        <3>4. Current(i) \in [import : Imports, file : 1..MaxFiles]
            BY <2>3, CurrentIsAKey
        <3>5. /\ documents' \subseteq objects' /\ \A j \in Imports : flushed'[j] \subseteq objects'
              /\ objects' \subseteq [import : Imports, file : 1..MaxFiles]
              /\ undeleted' \subseteq [import : Imports, file : 1..MaxFiles]
            BY <2>1, <2>3, <3>2, <3>3, <3>4, UnlinkIsLogged
        <3> QED
            BY <2>1, <3>5
    <2> QED
        BY <2>1, <2>2, <2>3
<1>15. CASE CommitDocuments(i)
    BY <1>15 DEF CommitDocuments
<1>16. CASE Finalise(i)
    BY <1>16 DEF Finalise
<1>17. CASE IndexDocument(i)
    BY <1>17 DEF IndexDocument, Unsettled
<1>18. CASE FinishImport(i)
    BY <1>18 DEF FinishImport
<1>19. CASE IndexRaises(i)
    BY <1>19 DEF IndexRaises
<1>20. CASE RecordFailure(i)
    BY <1>20 DEF RecordFailure
<1>21. CASE RecordRaises(i)
    BY <1>21 DEF RecordRaises
<1>22. CASE NoCheckout(i)
    BY <1>22 DEF NoCheckout
<1>23. CASE RecordStepRaises(i)
    BY <1>23 DEF RecordStepRaises
<1> QED
    BY <1>1, <1>2, <1>3, <1>4, <1>5, <1>6, <1>7, <1>8, <1>9, <1>10, <1>11, <1>12, <1>13,
       <1>14, <1>15, <1>16, <1>17, <1>18, <1>19, <1>20, <1>21, <1>22, <1>23
       DEF Arrives, JobStep

-----------------------------------------------------------------------------
(* The parts of the invariant, step by step                                *)

\* What the files depend on.
fileVars == <<documents, settled, objects, undeleted, owned, walk, flushed, at>>

\* A step that moves an import on and leaves the files as they are.
Quiet(i) ==
    /\ import' = [import EXCEPT ![i] = import'[i]]
    /\ UNCHANGED fileVars
    /\ \/ import[i] \in BeforeFiles /\ import'[i] \in BeforeFiles \union {"failing"}
       \/ import[i] = "collecting" /\ import'[i] = NextFile(i, 0)
       \/ /\ import[i] = "look_up" /\ import'[i] = "insert"
          /\ ContentOf(Current(i)) \notin Held \union FlushedBy(i)
       \/ import[i] = "finalise" /\ import'[i] \in {"index", "failing"}
       \/ import[i] = "index" /\ import'[i] = "done" /\ Unsettled(i) = {}
       \/ import[i] = "index" /\ import'[i] = "failing"
       \/ import[i] = "failing" /\ import'[i] \in {"failed", "lost"}

Stores(i) ==
    \/ BeginImport(i) \/ PutFile(i) \/ SkipDuplicate(i) \/ AddDocument(i)
    \/ WalkFails(i) \/ CommitDocuments(i) \/ IndexDocument(i)

LEMMA JobsHaveShapes ==
    ASSUME Types, NEW i \in Imports, Arrives(i) \/ JobStep(i)
    PROVE  Quiet(i) \/ Stores(i)
<1> USE DEF Goes, repoVars, storeVars, jobVars, fileVars, Quiet, BeforeFiles, Types, TypeOK
<1>1. ASSUME NEW r \in Repos, RequestImport(i, r) \/ RequestSync(i, r) PROVE Quiet(i)
    BY <1>1 DEF RequestImport, RequestSync
<1>2. CASE AcceptRequest(i)
    BY <1>2 DEF AcceptRequest
<1>3. CASE RefuseRequest(i)
    BY <1>3 DEF RefuseRequest
<1>4. CASE BeginClone(i)
    BY <1>4 DEF BeginClone
<1>5. CASE Clone(i)
    BY <1>5 DEF Clone
<1>6. CASE CloneFails(i)
    BY <1>6 DEF CloneFails
<1>7. CASE ReadCollection(i)
    BY <1>7 DEF ReadCollection
<1>8. CASE EnsureCollection(i)
    BY <1>8 DEF EnsureCollection
<1>9. CASE FindNoDuplicate(i)
    BY <1>9 DEF FindNoDuplicate
<1>10. CASE Finalise(i)
    BY <1>10 DEF Finalise
<1>11. CASE FinishImport(i)
    BY <1>11 DEF FinishImport
<1>12. CASE IndexRaises(i)
    BY <1>12 DEF IndexRaises
<1>13. CASE RecordFailure(i)
    BY <1>13 DEF RecordFailure
<1>14. CASE RecordRaises(i)
    BY <1>14 DEF RecordRaises
<1>15. CASE NoCheckout(i)
    BY <1>15 DEF NoCheckout
<1>16. CASE RecordStepRaises(i)
    BY <1>16 DEF RecordStepRaises
<1> QED
    BY <1>1, <1>2, <1>3, <1>4, <1>5, <1>6, <1>7, <1>8, <1>9, <1>10, <1>11, <1>12, <1>13,
       <1>14, <1>15, <1>16 DEF Arrives, JobStep, Stores

\* Where the files of an import stand, and what of them is committed.
FilesInPlace ==
    NothingYet /\ InOrder /\ CommittedLate /\ StoredByStage /\ UnsettledHasReason

LEMMA QuietKeepsFiles ==
    ASSUME Types, FilesInPlace, NEW i \in Imports, Quiet(i)
    PROVE  FilesInPlace'
<1> USE DEF FilesInPlace, Quiet, fileVars, Files, Current, Key, UnderWay, BrokeOff, Working,
            BeforeFiles, Storing, WalkedWell, NextFile, Types, TypeOK
<1>1. NothingYet'
    BY DEF NothingYet
<1>2. InOrder'
    BY DEF NothingYet, InOrder
<1>3. CommittedLate'
    BY DEF NothingYet, CommittedLate
<1>4. StoredByStage'
    BY DEF NothingYet, StoredByStage
<1>5. UnsettledHasReason'
    BY DEF NothingYet, UnsettledHasReason, CommittedLate, Unsettled
<1> QED
    BY <1>1, <1>2, <1>3, <1>4, <1>5

LEMMA StoresKeepFiles ==
    ASSUME Types, FilesInPlace, NEW i \in Imports, Stores(i), Types'
    PROVE  FilesInPlace'
<1> USE DEF FilesInPlace, Goes, repoVars, jobVars, UnderWay, BrokeOff, Working,
            BeforeFiles, Storing, WalkedWell, Types, TypeOK
<1>k. \A j \in Imports : Current(j).import = j /\ Current(j).file = at[j] + 1
    BY DEF Current, Key
<1>1. CASE BeginImport(i)
    <2>1. /\ Goes(i, "cloned", "ensuring")
          /\ \A j \in Imports : j # i => walk'[j] = walk[j]
          /\ UNCHANGED <<documents, settled, objects, undeleted, flushed, at>>
        BY <1>1 DEF BeginImport, storeVars
    <2>2. \A j \in Imports : j # i => Files(j)' = Files(j) /\ Current(j)' = Current(j)
        BY <2>1 DEF Files, Current, Key
    <2> QED
        BY <2>1, <2>2, <1>k DEF NothingYet, InOrder, CommittedLate, StoredByStage, UnsettledHasReason
<1>2. CASE PutFile(i)
    <2>1. /\ Goes(i, "put", "look_up") /\ objects' = objects \union {Current(i)}
          /\ UNCHANGED <<documents, settled, undeleted, walk, flushed, at>>
          /\ \A j \in Imports : Files(j)' = Files(j) /\ Current(j)' = Current(j)
        BY <1>2 DEF PutFile, Files, Current, Key
    <2> QED
        BY <2>1, <1>k DEF NothingYet, InOrder, CommittedLate, StoredByStage, UnsettledHasReason
<1>3. CASE SkipDuplicate(i)
    <2>1. /\ Goes(i, "look_up", NextFile(i, at[i] + 1)) /\ at' = [at EXCEPT ![i] = @ + 1]
          /\ UnlinkCurrent(i)
          /\ UNCHANGED <<documents, settled, walk, flushed>>
          /\ \A j \in Imports : Files(j)' = Files(j)
          /\ \A j \in Imports : j # i => Current(j)' = Current(j)
        BY <1>3 DEF SkipDuplicate, Advance, Files, Current, Key
    <2>u. /\ objects' \subseteq objects \union {Current(i)}
          /\ objects \subseteq objects' \union {Current(i)}
          /\ objects' \ undeleted' \subseteq objects \ undeleted
          /\ Current(i) \notin objects' \ undeleted' /\ Current(i) \in objects
        BY <2>1, UnlinkIsLogged DEF InOrder
    <2>2. /\ import'[i] \in {"put", "commit"}
          /\ import'[i] = "put" => at[i] + 1 < Len(Files(i))
        BY <2>1 DEF NextFile
    <2>3. InOrder'
        BY <2>1, <2>2, <2>u, <1>k DEF InOrder
    <2>4. StoredByStage'
        BY <2>1, <2>2, <2>u, <1>k DEF StoredByStage
    <2> QED
        BY <2>1, <2>2, <2>3, <2>4, <2>u, <1>k DEF NothingYet, CommittedLate, UnsettledHasReason
<1>4. CASE AddDocument(i)
    <2>1. /\ Goes(i, "insert", NextFile(i, at[i] + 1)) /\ at' = [at EXCEPT ![i] = @ + 1]
          /\ flushed' = [flushed EXCEPT ![i] = @ \union {Current(i)}]
          /\ UNCHANGED <<documents, settled, objects, undeleted, walk>>
          /\ \A j \in Imports : Files(j)' = Files(j)
          /\ \A j \in Imports : j # i => Current(j)' = Current(j)
        BY <1>4 DEF AddDocument, Advance, storeVars, Files, Current, Key
    <2>2. /\ import'[i] \in {"put", "commit"}
          /\ import'[i] = "put" => at[i] + 1 < Len(Files(i))
        BY <2>1 DEF NextFile
    <2>3. InOrder'
        BY <2>1, <2>2, <1>k DEF InOrder
    <2> QED
        BY <2>1, <2>2, <2>3, <1>k DEF NothingYet, CommittedLate, StoredByStage, UnsettledHasReason
<1>5. CASE WalkFails(i)
    <2>1. /\ import[i] \in Storing \union {"commit"} /\ import' = [import EXCEPT ![i] = "failing"]
          /\ flushed' = [flushed EXCEPT ![i] = {}]
          /\ UNCHANGED <<documents, settled, walk, at>>
          /\ \/ UNCHANGED <<objects, undeleted>>
             \/ import[i] = "put" /\ UnlinkCurrent(i)
          /\ \A j \in Imports : Files(j)' = Files(j) /\ Current(j)' = Current(j)
        BY <1>5 DEF WalkFails, Files, Current, Key
    <2>2. /\ objects' \subseteq objects \union {Current(i)}
          /\ objects \subseteq objects' \union {Current(i)}
          /\ undeleted \subseteq undeleted'
          /\ objects' \ undeleted' \subseteq objects \ undeleted
        BY <2>1, UnlinkIsLogged
    <2> QED
        BY <2>1, <2>2, <1>k DEF NothingYet, InOrder, CommittedLate, StoredByStage, UnsettledHasReason
<1>6. CASE CommitDocuments(i)
    <2>1. /\ Goes(i, "commit", "finalise") /\ documents' = documents \union flushed[i]
          /\ flushed' = [flushed EXCEPT ![i] = {}]
          /\ UNCHANGED <<settled, objects, undeleted, walk, at>>
          /\ \A j \in Imports : Files(j)' = Files(j) /\ Current(j)' = Current(j)
        BY <1>6 DEF CommitDocuments, Files, Current, Key
    <2> QED
        BY <2>1, <1>k DEF NothingYet, InOrder, CommittedLate, StoredByStage, UnsettledHasReason
<1>7. CASE IndexDocument(i)
    <2>1. /\ settled \subseteq settled'
          /\ UNCHANGED <<import, documents, objects, undeleted, walk, flushed, at>>
          /\ \A j \in Imports : Files(j)' = Files(j) /\ Current(j)' = Current(j)
        BY <1>7 DEF IndexDocument, Files, Current, Key
    <2> QED
        BY <2>1, <1>k DEF NothingYet, InOrder, CommittedLate, StoredByStage, UnsettledHasReason
<1> QED
    BY <1>1, <1>2, <1>3, <1>4, <1>5, <1>6, <1>7 DEF Stores

LEMMA RestKeepsFiles ==
    ASSUME Types, FilesInPlace,
           \/ \E r \in Repos : DeleteRepository(r)
           \/ \E c \in Contents : UploadElsewhere(c)
           \/ Crash
    PROVE  Types' /\ FilesInPlace'
<1> USE DEF FilesInPlace, repoVars, storeVars, jobVars, UnderWay, BrokeOff, Working,
            BeforeFiles, Storing, WalkedWell, Types, TypeOK, Files, Current, Key
<1>1. ASSUME NEW r \in Repos, DeleteRepository(r) PROVE Types' /\ FilesInPlace'
    BY <1>1 DEF DeleteRepository, Status, NothingYet, InOrder, CommittedLate, StoredByStage,
                UnsettledHasReason
<1>2. ASSUME NEW c \in Contents, UploadElsewhere(c) PROVE Types' /\ FilesInPlace'
    BY <1>2 DEF UploadElsewhere, NothingYet, InOrder, CommittedLate, StoredByStage,
                UnsettledHasReason
<1>3. CASE Crash
    <2>1. /\ import' = [j \in Imports |->
                          IF UnderWay(j) \/ import[j] = "asked" THEN "killed" ELSE import[j]]
          /\ flushed' = [j \in Imports |-> {}]
          /\ UNCHANGED <<repoVars, storeVars, owned, about, found, used, checkout, walk, at, rivals>>
        BY <1>3 DEF Crash
    <2>2. \A j \in Imports :
              \/ import'[j] = "killed"
              \/ import'[j] = import[j] /\ import[j] \in {"idle"} \union Ended
        BY <2>1
    <2>3. Types'
        BY <2>1, <2>2 DEF Ended
    <2>4. NothingYet' /\ InOrder' /\ CommittedLate'
        BY <2>1, <2>2 DEF NothingYet, InOrder, CommittedLate, Ended
    <2>5. StoredByStage'
        BY <2>1, <2>2 DEF StoredByStage, Ended
    <2>6. UnsettledHasReason'
        BY <2>1, <2>2 DEF UnsettledHasReason, Ended
    <2> QED
        BY <2>3, <2>4, <2>5, <2>6
<1> QED
    BY <1>1, <1>2, <1>3

-----------------------------------------------------------------------------
(* Contents                                                                *)

\* Whose rows, in a transaction or committed, hold a content.
LEMMA ContentsOfRows ==
    ASSUME NEW c
    PROVE  /\ c \in Held <=> c \in owned \/ \E k \in documents : ContentOf(k) = c
           /\ \A j : c \in FlushedBy(j) <=> \E k \in flushed[j] : ContentOf(k) = c
BY DEF Held, FlushedBy

\* A content stays where it is as long as the walk that found it does.
LEMMA ContentsStay ==
    ASSUME Types, NothingYet, CommittedLate, NEW i \in Imports,
           \/ UNCHANGED walk
           \/ /\ import[i] \in BeforeFiles
              /\ \A j \in Imports : j # i => walk'[j] = walk[j]
    PROVE  /\ \A k \in Rows : ContentOf(k)' = ContentOf(k)
           /\ \A j \in Imports : import[j] \notin BeforeFiles =>
                 Files(j)' = Files(j) /\ \A k : k.import = j => ContentOf(k)' = ContentOf(k)
<1>1. \A k \in Rows : k.import \in Imports /\ import[k.import] \notin BeforeFiles
    BY DEF Rows, Types, TypeOK, NothingYet, CommittedLate, BeforeFiles, WalkedWell
<1>2. \A j \in Imports : import[j] \notin BeforeFiles => Files(j)' = Files(j)
    BY DEF Files
<1> QED
    BY <1>1, <1>2 DEF ContentOf

RowsAndWalks == RowsAreUnique /\ WalkedAreHeld

LEMMA QuietKeepsContents ==
    ASSUME Types, FilesInPlace, RowsAndWalks, NEW i \in Imports, Quiet(i)
    PROVE  RowsAndWalks'
<1> USE DEF RowsAndWalks, FilesInPlace
<1>1. /\ import' = [import EXCEPT ![i] = import'[i]] /\ import \in [Imports -> {"idle", "asked"} \union Working \union Ended]
      /\ UNCHANGED fileVars
    BY DEF Quiet, Types, TypeOK
<1>2. /\ Rows' = Rows /\ owned' = owned /\ at' = at
      /\ \A k : ContentOf(k)' = ContentOf(k)
      /\ \A j : Files(j)' = Files(j) /\ Current(j)' = Current(j) /\ flushed'[j] = flushed[j]
    BY <1>1 DEF fileVars, Rows, ContentOf, Files, Current, Key
<1>3. Held' = Held /\ \A j : FlushedBy(j)' = FlushedBy(j)
    BY <1>1 DEF fileVars, Held, FlushedBy, ContentOf, Files
<1>4. RowsAreUnique'
    <2>1. \A j \in Imports : import'[j] = "insert" =>
              import[j] = "insert" \/ ContentOf(Current(j)) \notin FlushedBy(j)
        BY <1>1 DEF Quiet, NextFile, BeforeFiles
    <2> QED
        BY <1>2, <1>3, <2>1 DEF RowsAreUnique
<1>5. WalkedAreHeld'
    <2>1. \A j \in Imports : j # i => import'[j] = import[j]
        BY <1>1
    <2>2. ASSUME NEW n \in 1..Len(Files(i))
          PROVE  /\ import'[i] \in Storing /\ n <= at[i] => Files(i)[n] \in Held \union FlushedBy(i)
                 /\ import'[i] = "commit" => Files(i)[n] \in Held \union FlushedBy(i)
                 /\ import'[i] = "finalise" => Files(i)[n] \in Held
        <3>1. Len(Files(i)) \in Nat /\ at[i] \in Nat
            BY FilesAreFiles
        <3>2. CASE import[i] = "collecting" /\ import'[i] = NextFile(i, 0)
            <4>1. at[i] = 0
                BY <3>2 DEF NothingYet, BeforeFiles
            <4> QED
                BY <3>1, <3>2, <4>1 DEF NextFile, Storing
        <3>3. CASE import[i] = "look_up" /\ import'[i] = "insert"
            BY <3>3 DEF WalkedAreHeld, Storing
        <3>4. CASE import'[i] \notin Storing \union {"commit", "finalise"}
            BY <3>4
        <3> QED
            BY <1>1, <3>2, <3>3, <3>4 DEF Quiet, Storing, BeforeFiles
    <2> QED
        BY <1>2, <1>3, <2>1, <2>2 DEF WalkedAreHeld
<1> QED
    BY <1>4, <1>5

LEMMA StoresKeepContents ==
    ASSUME Types, FilesInPlace, RowsAndWalks, NEW i \in Imports, Stores(i), Types'
    PROVE  RowsAndWalks'
<1> USE DEF RowsAndWalks, FilesInPlace, Goes
<1>t. /\ import \in [Imports -> {"idle", "asked"} \union Working \union Ended]
      /\ flushed \in [Imports -> SUBSET objects] /\ at \in [Imports -> 0..MaxFiles]
    BY DEF Types, TypeOK
<1>n. \A j \in Imports : Len(Files(j)) \in Nat /\ at[j] \in Nat
    BY FilesAreFiles
<1>1. CASE BeginImport(i)
    <2>1. /\ import[i] = "cloned" /\ import' = [import EXCEPT ![i] = "ensuring"]
          /\ \A j \in Imports : j # i => walk'[j] = walk[j]
          /\ UNCHANGED <<documents, settled, objects, undeleted, owned, flushed, at>>
        BY <1>1 DEF BeginImport, storeVars, Types
    <2>2. /\ \A k \in Rows : ContentOf(k)' = ContentOf(k)
          /\ \A j \in Imports : j # i => Files(j)' = Files(j)
          /\ \A j \in Imports : import[j] \notin BeforeFiles =>
                \A k : k.import = j => ContentOf(k)' = ContentOf(k)
        BY <2>1, ContentsStay DEF BeforeFiles, Files
    <2>3. Rows' = Rows
        BY <2>1 DEF Rows
    <2>4. Held' = Held /\ \A j \in Imports : FlushedBy(j)' = FlushedBy(j)
        BY <2>1, <2>2 DEF Held, FlushedBy, Rows
    <2>5. \A j \in Imports : import[j] = "insert" => ContentOf(Current(j))' = ContentOf(Current(j))
        <3>1. \A j \in Imports : Current(j)' = Current(j) /\ Current(j).import = j
            BY <2>1 DEF Current, Key
        <3> QED
            BY <2>2, <3>1 DEF BeforeFiles, ContentOf
    <2>6. RowsAreUnique'
        BY <1>t, <2>1, <2>2, <2>3, <2>4, <2>5 DEF RowsAreUnique
    <2>7. WalkedAreHeld'
        BY <1>t, <2>1, <2>2, <2>4 DEF WalkedAreHeld, Storing
    <2> QED
        BY <2>6, <2>7
<1>2. ASSUME UNCHANGED walk PROVE RowsAndWalks'
    <2>1. /\ \A k : ContentOf(k)' = ContentOf(k)
          /\ \A j : Files(j)' = Files(j)
          /\ \A j \in Imports : j # i /\ at'[j] = at[j] => Current(j)' = Current(j)
        BY <1>2 DEF ContentOf, Files, Current, Key
    <2>2. CASE PutFile(i)
        <3>1. /\ import[i] = "put" /\ import' = [import EXCEPT ![i] = "look_up"]
              /\ UNCHANGED <<documents, owned, flushed, at>>
            BY <2>2 DEF PutFile, jobVars
        <3>2. Rows' = Rows /\ Held' = Held /\ \A j : FlushedBy(j)' = FlushedBy(j)
            BY <2>1, <3>1 DEF Rows, Held, FlushedBy
        <3>3. RowsAreUnique'
            BY <1>t, <2>1, <3>1, <3>2 DEF RowsAreUnique
        <3>4. WalkedAreHeld'
            BY <1>t, <2>1, <3>1, <3>2 DEF WalkedAreHeld, Storing
        <3> QED
            BY <3>3, <3>4
    <2>3. CASE SkipDuplicate(i)
        <3>1. /\ import[i] = "look_up" /\ import' = [import EXCEPT ![i] = NextFile(i, at[i] + 1)]
              /\ at' = [at EXCEPT ![i] = @ + 1]
              /\ ContentOf(Current(i)) \in Held \union FlushedBy(i)
              /\ UNCHANGED <<documents, owned, flushed>>
            BY <2>3 DEF SkipDuplicate, Advance
        <3>2. Rows' = Rows /\ Held' = Held /\ \A j : FlushedBy(j)' = FlushedBy(j)
            BY <2>1, <3>1 DEF Rows, Held, FlushedBy
        <3>3. /\ import'[i] \in {"put", "commit"}
              /\ import'[i] = "commit" => ~(at[i] + 1 < Len(Files(i)))
              /\ at'[i] = at[i] + 1 /\ \A j \in Imports : j # i => at'[j] = at[j]
            BY <1>t, <3>1 DEF NextFile
        <3>4. RowsAreUnique'
            BY <1>t, <2>1, <3>1, <3>2, <3>3 DEF RowsAreUnique
        <3>5. \A n \in 1..Len(Files(i)) :
                  n <= at[i] + 1 => Files(i)[n] \in Held \union FlushedBy(i)
            <4>1. ContentOf(Current(i)) = Files(i)[at[i] + 1]
                BY DEF ContentOf, Current, Key, Files
            <4>2. \A n \in 1..Len(Files(i)) : n <= at[i] => Files(i)[n] \in Held \union FlushedBy(i)
                BY <3>1 DEF WalkedAreHeld, Storing
            <4> QED
                BY <1>n, <3>1, <4>1, <4>2
        <3>6. WalkedAreHeld'
            BY <1>t, <1>n, <2>1, <3>1, <3>2, <3>3, <3>5 DEF WalkedAreHeld, Storing
        <3> QED
            BY <3>4, <3>6
    <2>4. CASE AddDocument(i)
        <3>1. /\ import[i] = "insert" /\ import' = [import EXCEPT ![i] = NextFile(i, at[i] + 1)]
              /\ at' = [at EXCEPT ![i] = @ + 1]
              /\ flushed' = [flushed EXCEPT ![i] = @ \union {Current(i)}]
              /\ MayInsert(i) /\ ContentOf(Current(i)) \notin Held
              /\ UNCHANGED <<documents, owned>>
            BY <2>4 DEF AddDocument, Advance, storeVars
        <3>2. /\ Held' = Held /\ \A j \in Imports : j # i => FlushedBy(j)' = FlushedBy(j)
              /\ FlushedBy(i)' = FlushedBy(i) \union {ContentOf(Current(i))}
            BY <1>t, <2>1, <3>1 DEF Held, FlushedBy
        <3>3. /\ import'[i] \in {"put", "commit"}
              /\ import'[i] = "commit" => ~(at[i] + 1 < Len(Files(i)))
              /\ at'[i] = at[i] + 1 /\ \A j \in Imports : j # i => at'[j] = at[j]
            BY <1>t, <3>1 DEF NextFile
        <3>4. Rows' = Rows \union {Current(i)}
            BY <1>t, <3>1 DEF Rows
        <3>5. ContentOf(Current(i)) \notin owned /\ \A k \in Rows : ContentOf(k) # ContentOf(Current(i))
            <4>1. ContentOf(Current(i)) \notin FlushedBy(i)
                BY <3>1 DEF RowsAreUnique
            <4>2. \A j \in Imports : ContentOf(Current(i)) \notin FlushedBy(j)
                BY <3>1, <4>1 DEF MayInsert
            <4> QED
                BY <3>1, <4>2 DEF Rows, Held, FlushedBy
        <3>6. RowsAreUnique'
            BY <1>t, <2>1, <3>1, <3>2, <3>3, <3>4, <3>5 DEF RowsAreUnique
        <3>7. \A n \in 1..Len(Files(i)) :
                  n <= at[i] + 1 => Files(i)[n] \in Held \union FlushedBy(i)'
            <4>1. ContentOf(Current(i)) = Files(i)[at[i] + 1]
                BY DEF ContentOf, Current, Key, Files
            <4>2. \A n \in 1..Len(Files(i)) : n <= at[i] => Files(i)[n] \in Held \union FlushedBy(i)
                BY <3>1 DEF WalkedAreHeld, Storing
            <4> QED
                BY <1>n, <3>2, <4>1, <4>2
        <3>8. WalkedAreHeld'
            BY <1>t, <1>n, <2>1, <3>1, <3>2, <3>3, <3>7 DEF WalkedAreHeld, Storing
        <3> QED
            BY <3>6, <3>8
    <2>5. CASE WalkFails(i)
        <3>1. /\ import' = [import EXCEPT ![i] = "failing"] /\ flushed' = [flushed EXCEPT ![i] = {}]
              /\ UNCHANGED <<documents, owned, at>>
            BY <2>5 DEF WalkFails
        <3>2. Held' = Held /\ \A j \in Imports : j # i => FlushedBy(j)' = FlushedBy(j)
            BY <1>t, <2>1, <3>1 DEF Held, FlushedBy
        <3>3. \A k \in Rows' : k \in Rows
            BY <1>t, <3>1 DEF Rows
        <3>4. RowsAreUnique'
            BY <1>t, <2>1, <3>1, <3>2, <3>3 DEF RowsAreUnique
        <3>5. WalkedAreHeld'
            BY <1>t, <2>1, <3>1, <3>2 DEF WalkedAreHeld, Storing
        <3> QED
            BY <3>4, <3>5
    <2>6. CASE CommitDocuments(i)
        <3>1. /\ import[i] = "commit" /\ import' = [import EXCEPT ![i] = "finalise"]
              /\ documents' = documents \union flushed[i] /\ flushed' = [flushed EXCEPT ![i] = {}]
              /\ UNCHANGED <<owned, at>>
            BY <2>6 DEF CommitDocuments
        <3>2. /\ Held' = Held \union FlushedBy(i)
              /\ \A j \in Imports : j # i => FlushedBy(j)' = FlushedBy(j)
            BY <1>t, <2>1, <3>1 DEF Held, FlushedBy
        <3>3. \A k \in Rows' : k \in Rows
            BY <1>t, <3>1 DEF Rows
        <3>4. RowsAreUnique'
            BY <1>t, <2>1, <3>1, <3>2, <3>3 DEF RowsAreUnique
        <3>5. WalkedAreHeld'
            BY <1>t, <2>1, <3>1, <3>2 DEF WalkedAreHeld, Storing
        <3> QED
            BY <3>4, <3>5
    <2>7. CASE IndexDocument(i)
        <3>1. UNCHANGED <<import, documents, owned, flushed, at>>
            BY <2>7 DEF IndexDocument, jobVars
        <3>2. Rows' = Rows /\ Held' = Held /\ \A j : FlushedBy(j)' = FlushedBy(j)
            BY <2>1, <3>1 DEF Rows, Held, FlushedBy
        <3>3. \A j : Current(j)' = Current(j)
            BY <3>1 DEF Current, Key
        <3> QED
            BY <2>1, <3>1, <3>2, <3>3 DEF RowsAreUnique, WalkedAreHeld
    <2>8. CASE BeginImport(i)
        BY <1>1, <2>8
    <2> QED
        BY <2>2, <2>3, <2>4, <2>5, <2>6, <2>7, <2>8 DEF Stores
<1> QED
    BY <1>1, <1>2 DEF Stores, PutFile, SkipDuplicate, AddDocument, WalkFails, CommitDocuments,
                      IndexDocument, jobVars

LEMMA RestKeepsContents ==
    ASSUME Types, FilesInPlace, RowsAndWalks,
           \/ \E r \in Repos : DeleteRepository(r)
           \/ \E c \in Contents : UploadElsewhere(c)
           \/ Crash
    PROVE  RowsAndWalks'
<1> USE DEF RowsAndWalks, FilesInPlace
<1>t. /\ import \in [Imports -> {"idle", "asked"} \union Working \union Ended]
      /\ flushed \in [Imports -> SUBSET objects] /\ at \in [Imports -> 0..MaxFiles]
    BY DEF Types, TypeOK
<1>1. /\ \A k : ContentOf(k)' = ContentOf(k)
      /\ \A j : Files(j)' = Files(j) /\ Current(j)' = Current(j)
    BY DEF DeleteRepository, UploadElsewhere, Crash, jobVars, ContentOf, Files, Current, Key
<1>2. ASSUME NEW r \in Repos, DeleteRepository(r) PROVE RowsAndWalks'
    <2>1. UNCHANGED <<import, documents, owned, flushed, at>>
        BY <1>2 DEF DeleteRepository, storeVars, jobVars
    <2>2. Rows' = Rows /\ Held' = Held /\ \A j : FlushedBy(j)' = FlushedBy(j)
        BY <1>1, <2>1 DEF Rows, Held, FlushedBy
    <2> QED
        BY <1>1, <2>1, <2>2 DEF RowsAreUnique, WalkedAreHeld
<1>3. ASSUME NEW c \in Contents, UploadElsewhere(c) PROVE RowsAndWalks'
    <2>1. /\ owned' = owned \union {c} /\ c \notin Held
          /\ \A j \in Imports : c \notin FlushedBy(j)
          /\ UNCHANGED <<import, documents, flushed, at>>
        BY <1>3 DEF UploadElsewhere, storeVars, jobVars
    <2>2. Rows' = Rows /\ Held' = Held \union {c} /\ \A j : FlushedBy(j)' = FlushedBy(j)
        BY <1>1, <2>1 DEF Rows, Held, FlushedBy
    <2>3. \A k \in Rows : ContentOf(k) # c
        BY <2>1 DEF Rows, Held, FlushedBy
    <2>4. RowsAreUnique'
        BY <1>1, <2>1, <2>2, <2>3 DEF RowsAreUnique
    <2>5. WalkedAreHeld'
        BY <1>1, <2>1, <2>2 DEF WalkedAreHeld
    <2> QED
        BY <2>4, <2>5
<1>4. CASE Crash
    <2>1. /\ import' = [j \in Imports |->
                          IF UnderWay(j) \/ import[j] = "asked" THEN "killed" ELSE import[j]]
          /\ flushed' = [j \in Imports |-> {}]
          /\ UNCHANGED <<documents, owned, at>>
        BY <1>4 DEF Crash, storeVars
    <2>2. \A j \in Imports : import'[j] \in {"idle", "killed"} \union Ended
        BY <1>t, <2>1 DEF UnderWay
    <2>3. \A k \in Rows' : k \in Rows
        BY <1>t, <2>1 DEF Rows
    <2>4. RowsAreUnique'
        BY <1>1, <2>1, <2>2, <2>3 DEF RowsAreUnique, Ended
    <2>5. WalkedAreHeld'
        BY <2>2 DEF WalkedAreHeld, Ended, Storing
    <2> QED
        BY <2>4, <2>5
<1> QED
    BY <1>2, <1>3, <1>4

-----------------------------------------------------------------------------
(* Records, rivals and collections                                         *)

Records == RecordsAreUsed /\ RivalsAreKnown /\ CollectionIsShared

\* A step that moves an import on within a stage, or ends it.
Proceeds(i) ==
    /\ import' = [import EXCEPT ![i] = import'[i]]
    /\ UNCHANGED <<collectionOf, about, found, used, rivals>>
    /\ \A r \in Repos : /\ Live(r)' = Live(r)
                        /\ status'[r] = "absent" <=> status[r] = "absent"
    /\ \A k \in objects' : k \in objects \/ (k.import = i /\ import[i] \in Collected)
    /\ import[i] # "idle" /\ import'[i] \notin {"idle", "collecting"}
    /\ import'[i] = "asked" => import[i] = "asked"
    /\ UnderWay(i)' => UnderWay(i)
    /\ import'[i] \in BeforeFiles => import[i] \in BeforeFiles
    /\ import'[i] \in Collected => import[i] \in Collected

Links(i) ==
    \/ \E r \in Repos : RequestImport(i, r) \/ RequestSync(i, r)
    \/ AcceptRequest(i) \/ ReadCollection(i) \/ EnsureCollection(i)

\* Every other step of a job is of the first kind.
LEMMA JobsProceed ==
    ASSUME Types, RecordsAreUsed, NEW i \in Imports, Arrives(i) \/ JobStep(i)
    PROVE  Proceeds(i) \/ Links(i)
<1> USE DEF Goes, Collected, Storing, BeforeFiles, UnderWay, Working
<1>t. import \in [Imports -> {"idle", "asked"} \union Working \union Ended]
    BY DEF Types, TypeOK
<1>s. ASSUME NEW to \in {"cloning", "importing", "ready", "failed"}, SetStatus(i, to)
      PROVE  \A r \in Repos : /\ Live(r)' = Live(r)
                              /\ status'[r] = "absent" <=> status[r] = "absent"
    <2>1. CASE Live(about[i])
        <3>1. status' = [status EXCEPT ![about[i]] = to]
            BY <1>s, <2>1 DEF SetStatus
        <3> QED
            BY <2>1, <3>1 DEF Live, Types, TypeOK
    <2>2. CASE ~Live(about[i])
        BY <1>s, <2>2 DEF SetStatus, Live
    <2> QED
        BY <2>1, <2>2
<1>r. status' = status =>
        \A r \in Repos : /\ Live(r)' = Live(r)
                         /\ status'[r] = "absent" <=> status[r] = "absent"
    BY DEF Live
<1>1. CASE RefuseRequest(i)
    BY <1>t, <1>r, <1>1 DEF RefuseRequest, Proceeds, repoVars, storeVars, jobVars
<1>2. CASE BeginClone(i)
    BY <1>t, <1>s, <1>2 DEF BeginClone, Proceeds, storeVars, jobVars
<1>3. CASE Clone(i)
    BY <1>t, <1>r, <1>3 DEF Clone, Proceeds, repoVars, storeVars
<1>4. CASE CloneFails(i)
    BY <1>t, <1>r, <1>4 DEF CloneFails, Proceeds, repoVars, storeVars, jobVars
<1>5. CASE BeginImport(i)
    BY <1>t, <1>s, <1>5 DEF BeginImport, Proceeds, storeVars
<1>6. CASE PutFile(i)
    BY <1>t, <1>r, <1>6 DEF PutFile, Proceeds, repoVars, jobVars, Current, Key
<1>7. CASE SkipDuplicate(i)
    BY <1>t, <1>r, <1>7 DEF SkipDuplicate, UnlinkCurrent, Proceeds, repoVars, NextFile, Current, Key
<1>8. CASE FindNoDuplicate(i)
    BY <1>t, <1>r, <1>8 DEF FindNoDuplicate, Proceeds, repoVars, storeVars, jobVars
<1>9. CASE AddDocument(i)
    BY <1>t, <1>r, <1>9 DEF AddDocument, Proceeds, repoVars, storeVars, NextFile
<1>10. CASE WalkFails(i)
    BY <1>t, <1>r, <1>10 DEF WalkFails, UnlinkCurrent, Proceeds, repoVars, Current, Key
<1>11. CASE CommitDocuments(i)
    BY <1>t, <1>r, <1>11 DEF CommitDocuments, Proceeds, repoVars
<1>12. CASE Finalise(i)
    BY <1>t, <1>s, <1>12 DEF Finalise, Proceeds, storeVars, jobVars
<1>13. CASE IndexDocument(i)
    BY <1>t, <1>r, <1>13 DEF IndexDocument, Proceeds, repoVars, jobVars
<1>14. CASE FinishImport(i)
    BY <1>t, <1>r, <1>14 DEF FinishImport, Proceeds, repoVars, storeVars, jobVars
<1>15. CASE IndexRaises(i)
    BY <1>t, <1>r, <1>15 DEF IndexRaises, Proceeds, repoVars, storeVars, jobVars
<1>16. CASE RecordFailure(i)
    BY <1>t, <1>s, <1>16 DEF RecordFailure, Proceeds, storeVars, jobVars
<1>17. CASE RecordRaises(i)
    BY <1>t, <1>r, <1>17 DEF RecordRaises, Proceeds, repoVars, storeVars, jobVars
<1>18. CASE NoCheckout(i)
    BY <1>t, <1>r, <1>18 DEF NoCheckout, Proceeds, repoVars, storeVars, jobVars
<1>19. CASE RecordStepRaises(i)
    BY <1>t, <1>r, <1>19 DEF RecordStepRaises, Proceeds, repoVars, storeVars, jobVars
<1> QED
    BY <1>1, <1>2, <1>3, <1>4, <1>5, <1>6, <1>7, <1>8, <1>9, <1>10, <1>11, <1>12, <1>13,
       <1>14, <1>15, <1>16, <1>17, <1>18, <1>19 DEF Arrives, JobStep, Links

LEMMA ProceedingKeepsRecords ==
    ASSUME Types, Records, NEW i \in Imports, Proceeds(i)
    PROVE  Records'
<1> USE DEF Records
<1>t. /\ import \in [Imports -> {"idle", "asked"} \union Working \union Ended]
      /\ about \in [Imports -> Repos \union {NoRepo}]
      /\ \A k \in objects' : k \in objects \/ (k.import = i /\ import[i] \in Collected)
    BY DEF Types, TypeOK, Proceeds
<1>1. \A j \in Imports : j # i => import'[j] = import[j]
    BY <1>t DEF Proceeds
<1>2. RecordsAreUsed'
    BY <1>t, <1>1 DEF Proceeds, RecordsAreUsed, UnderWay
<1>3. RivalsAreKnown'
    BY <1>t, <1>1 DEF Proceeds, RivalsAreKnown, UnderWay, Overlap
<1>4. CollectionIsShared'
    <2>1. \A r : Unrivalled(r)' = Unrivalled(r)
        BY DEF Proceeds, Unrivalled, Overlap
    <2> QED
        BY <1>1, <2>1 DEF Proceeds, CollectionIsShared
<1> QED
    BY <1>2, <1>3, <1>4

LEMMA LinkingKeepsRecords ==
    ASSUME Types, NothingYet, Records, NEW i \in Imports, Links(i)
    PROVE  Records'
<1> USE ImportAssumption DEF Records, Goes
<1>t. /\ import \in [Imports -> {"idle", "asked"} \union Working \union Ended]
      /\ about \in [Imports -> Repos \union {NoRepo}]
      /\ found \in [Imports -> Imports \union {NoCollection}]
      /\ used \in [Imports -> Imports \union {NoCollection}]
      /\ rivals \in [Imports -> SUBSET Imports]
      /\ collectionOf \in [Repos -> Imports \union {NoCollection}]
      /\ status \in [Repos -> Status]
      /\ \A k \in objects : k.import \in Imports
    BY DEF Types, TypeOK
<1>1. ASSUME NEW r \in Repos, RequestImport(i, r) \/ RequestSync(i, r) PROVE Records'
    <2>1. /\ import[i] = "idle" /\ import' = [import EXCEPT ![i] = "asked"]
          /\ about' = [about EXCEPT ![i] = r]
          /\ UNCHANGED <<status, collectionOf, objects, found, used, rivals>>
        BY <1>1 DEF RequestImport, RequestSync, repoVars, storeVars
    <2>2. about[i] = NoRepo /\ used[i] = NoCollection
        BY <2>1 DEF RecordsAreUsed, BeforeFiles
    <2>3. RecordsAreUsed'
        BY <1>t, <2>1, <2>2 DEF RecordsAreUsed, UnderWay, Working, BeforeFiles, Collected, Storing
    <2>4. RivalsAreKnown'
        BY <1>t, <2>1 DEF RivalsAreKnown, UnderWay, Working, Overlap
    <2>5. CollectionIsShared'
        <3>1. \A s \in Repos : Unrivalled(s)' => Unrivalled(s)
            BY <1>t, <2>1, <2>2 DEF Unrivalled, Overlap
        <3>2. \A j \in Imports : j # i => about'[j] = about[j] /\ import'[j] = import[j]
            BY <1>t, <2>1
        <3>3. \A s \in Repos : Live(s)' = Live(s)
            BY <2>1 DEF Live
        <3>4. import'[i] = "asked"
            BY <1>t, <2>1
        <3> QED
            BY <2>1, <2>2, <3>1, <3>2, <3>3, <3>4 DEF CollectionIsShared
    <2> QED
        BY <2>3, <2>4, <2>5
<1>2. CASE AcceptRequest(i)
    <2> DEFINE r == about[i]
    <2>1. /\ import[i] = "asked" /\ import' = [import EXCEPT ![i] = "scheduled"]
          /\ status' = [status EXCEPT ![r] = "pending"]
          /\ rivals' = [rivals EXCEPT ![i] = {j \in Imports : about[j] = r /\ UnderWay(j)}]
          /\ Acceptable(r)
          /\ UNCHANGED <<collectionOf, objects, about, found, used>>
        BY <1>2 DEF AcceptRequest, storeVars
    <2>2. r \in Repos /\ used[i] = NoCollection /\ rivals[i] = {}
        BY <1>t, <2>1 DEF RecordsAreUsed, BeforeFiles, RivalsAreKnown
    <2>3. \A s \in Repos : status'[s] # "absent" \/ (s # r /\ status'[s] = status[s])
        BY <1>t, <2>1, <2>2
    <2>4. RecordsAreUsed'
        BY <1>t, <2>1, <2>2, <2>3 DEF RecordsAreUsed, UnderWay, Working, BeforeFiles, Collected, Storing
    <2>5. RivalsAreKnown'
        BY <1>t, <2>1 DEF RivalsAreKnown, UnderWay, Working, Overlap
    <2>6. CollectionIsShared'
        <3>1. \A s \in Repos : Unrivalled(s)' => Unrivalled(s)
            BY <1>t, <2>1, <2>2 DEF Unrivalled, Overlap
        <3>2. \A j \in Imports : import'[j] = "collecting" => import[j] = "collecting"
            BY <1>t, <2>1
        <3>3. \A s \in Repos : s # r => Live(s)' = Live(s)
            BY <1>t, <2>1, <2>2 DEF Live
        <3>4. ASSUME NEW j \in Imports, about[j] \in Repos, Live(about[j])', Unrivalled(about[j])'
              PROVE  /\ import'[j] = "collecting" => found[j] = collectionOf[about[j]]
                     /\ used[j] # NoCollection => used[j] = collectionOf[about[j]]
            <4>1. CASE Live(about[j])
                <5>1. Unrivalled(about[j])
                    BY <2>1, <3>1, <3>4, Zenon
                <5> QED
                    BY <3>2, <3>4, <4>1, <5>1 DEF CollectionIsShared
            <4>2. CASE ~Live(about[j])
                <5>1. about[j] = r /\ status[r] = "absent"
                    BY <2>1, <3>3, <3>4, <4>2 DEF Acceptable, Live
                <5> QED
                    BY <3>2, <5>1 DEF RecordsAreUsed, UnderWay, Working
            <4> QED
                BY <4>1, <4>2
        <3> QED
            BY <2>1, <3>4 DEF CollectionIsShared
    <2> QED
        BY <2>4, <2>5, <2>6
<1>3. CASE ReadCollection(i)
    <2>1. /\ import[i] = "ensuring" /\ import' = [import EXCEPT ![i] = "collecting"]
          /\ found' = [found EXCEPT ![i] =
                         IF Live(about[i]) THEN collectionOf[about[i]] ELSE NoCollection]
          /\ UNCHANGED <<status, collectionOf, objects, about, used, rivals>>
        BY <1>3 DEF ReadCollection, repoVars, storeVars
    <2>2. RecordsAreUsed'
        BY <1>t, <2>1 DEF RecordsAreUsed, UnderWay, Working, BeforeFiles, Collected, Storing
    <2>3. RivalsAreKnown'
        BY <1>t, <2>1 DEF RivalsAreKnown, UnderWay, Working, Overlap
    <2>4. CollectionIsShared'
        <3>1. \A s : Unrivalled(s)' = Unrivalled(s) /\ Live(s)' = Live(s)
            BY <2>1 DEF Unrivalled, Overlap, Live
        <3>2. Live(about[i]) => found'[i] = collectionOf[about[i]]
            BY <1>t, <2>1
        <3>3. \A j \in Imports : j # i => import'[j] = import[j] /\ found'[j] = found[j]
            BY <1>t, <2>1
        <3> QED
            BY <2>1, <3>1, <3>2, <3>3 DEF CollectionIsShared
    <2> QED
        BY <2>2, <2>3, <2>4
<1>4. CASE EnsureCollection(i)
    <2> DEFINE r == about[i]
               mine == IF found[i] = NoCollection THEN i ELSE found[i]
    <2>1. /\ import[i] = "collecting" /\ import' = [import EXCEPT ![i] = NextFile(i, 0)]
          /\ used' = [used EXCEPT ![i] = mine]
          /\ collectionOf' = IF found[i] = NoCollection /\ Live(r)
                             THEN [collectionOf EXCEPT ![r] = i] ELSE collectionOf
          /\ UNCHANGED <<status, objects, about, found, rivals>>
        BY <1>4 DEF EnsureCollection, storeVars
    <2>2. import'[i] \in {"put", "commit"} /\ \A j \in Imports : j # i => import'[j] = import[j]
        BY <1>t, <2>1 DEF NextFile
    <2>3. r \in Repos /\ status[r] # "absent"
        BY <2>1 DEF RecordsAreUsed, UnderWay, Working
    <2>4. mine # NoCollection /\ used'[i] = mine /\ \A j \in Imports : j # i => used'[j] = used[j]
        BY <1>t, <2>1
    <2>5. RecordsAreUsed'
        BY <1>t, <2>1, <2>2, <2>3, <2>4
           DEF RecordsAreUsed, UnderWay, Working, BeforeFiles, Collected, Storing
    <2>6. RivalsAreKnown'
        BY <1>t, <2>1, <2>2 DEF RivalsAreKnown, UnderWay, Working, Overlap
    <2>7. CollectionIsShared'
        <3>1. \A s : Unrivalled(s)' = Unrivalled(s) /\ Live(s)' = Live(s)
            BY <2>1 DEF Unrivalled, Overlap, Live
        <3>2. ASSUME NEW j \in Imports, about[j] \in Repos, Live(about[j]), Unrivalled(about[j])
              PROVE  /\ import'[j] = "collecting" => found[j] = collectionOf'[about[j]]
                     /\ used'[j] # NoCollection => used'[j] = collectionOf'[about[j]]
            <4>1. CASE about[j] # r
                <5>1. collectionOf'[about[j]] = collectionOf[about[j]]
                    BY <1>t, <2>1, <2>3, <3>2, <4>1
                <5> QED
                    BY <2>2, <2>4, <3>2, <4>1, <5>1 DEF CollectionIsShared
            <4>2. CASE about[j] = r /\ found[i] # NoCollection
                <5>1. collectionOf' = collectionOf /\ mine = found[i]
                    BY <2>1, <4>2
                <5>2. found[i] = collectionOf[r]
                    BY <2>1, <2>3, <3>2, <4>2 DEF CollectionIsShared
                <5> QED
                    BY <2>2, <2>4, <3>2, <4>2, <5>1, <5>2 DEF CollectionIsShared
            <4>3. CASE about[j] = r /\ found[i] = NoCollection
                <5>1. collectionOf'[r] = i /\ mine = i
                    BY <1>t, <2>1, <2>3, <3>2, <4>3
                <5>2. collectionOf[r] = NoCollection
                    BY <2>1, <2>3, <3>2, <4>3 DEF CollectionIsShared
                <5>3. CASE j = i
                    BY <2>2, <2>4, <5>1, <5>3
                <5>4. CASE j # i
                    <6>1. used[j] = NoCollection
                        BY <2>3, <3>2, <4>3, <5>2 DEF CollectionIsShared
                    <6>2. import[j] # "collecting"
                        BY <2>1, <3>2, <4>3, <5>4
                           DEF RivalsAreKnown, UnderWay, Working, Unrivalled
                    <6> QED
                        BY <2>2, <2>4, <5>4, <6>1, <6>2
                <5> QED
                    BY <5>3, <5>4
            <4> QED
                BY <4>1, <4>2, <4>3
        <3> HIDE DEF mine
        <3> QED
            BY <2>1, <3>1, <3>2 DEF CollectionIsShared
    <2> QED
        BY <2>5, <2>6, <2>7
<1> QED
    BY <1>1, <1>2, <1>3, <1>4 DEF Links

LEMMA RestKeepsRecords ==
    ASSUME Types, Records,
           \/ \E r \in Repos : DeleteRepository(r)
           \/ \E c \in Contents : UploadElsewhere(c)
           \/ Crash
    PROVE  Records'
<1> USE DEF Records
<1>t. /\ import \in [Imports -> {"idle", "asked"} \union Working \union Ended]
      /\ status \in [Repos -> Status]
    BY DEF Types, TypeOK
<1>1. /\ UNCHANGED <<collectionOf, objects, about, found, used, rivals>>
      /\ \A s : Unrivalled(s)' = Unrivalled(s)
    BY DEF DeleteRepository, UploadElsewhere, Crash, repoVars, storeVars, jobVars, Unrivalled, Overlap
<1>2. ASSUME NEW r \in Repos, DeleteRepository(r) PROVE Records'
    <2>1. /\ status' = [status EXCEPT ![r] = "deleted"] /\ import' = import
        BY <1>2 DEF DeleteRepository
    <2>2. /\ \A s \in Repos : Live(s)' => Live(s)
          /\ \A s \in Repos : status'[s] = "absent" => status[s] = "absent"
        BY <1>t, <2>1 DEF Live
    <2>3. RecordsAreUsed' /\ RivalsAreKnown'
        BY <1>1, <2>1, <2>2 DEF RecordsAreUsed, RivalsAreKnown, UnderWay, Overlap
    <2>4. CollectionIsShared'
        BY <1>1, <2>1, <2>2 DEF CollectionIsShared
    <2> QED
        BY <2>3, <2>4
<1>3. CASE \E c \in Contents : UploadElsewhere(c)
    <2>1. UNCHANGED <<status, import>>
        BY <1>3 DEF UploadElsewhere, repoVars
    <2> QED
        BY <1>1, <2>1 DEF RecordsAreUsed, RivalsAreKnown, CollectionIsShared, UnderWay, Overlap, Live
<1>4. CASE Crash
    <2>1. /\ status' = status
          /\ import' = [j \in Imports |->
                          IF UnderWay(j) \/ import[j] = "asked" THEN "killed" ELSE import[j]]
        BY <1>4 DEF Crash, repoVars
    <2>2. \A j \in Imports :
              \/ import'[j] = "killed" /\ import[j] \in Working \union {"asked"}
              \/ import'[j] = import[j] /\ import[j] \in {"idle"} \union Ended
        BY <1>t, <2>1 DEF UnderWay
    <2>3. RecordsAreUsed'
        BY <1>1, <2>1, <2>2
           DEF RecordsAreUsed, UnderWay, Working, Ended, BeforeFiles, Collected, Storing
    <2>4. RivalsAreKnown'
        BY <1>1, <2>2 DEF RivalsAreKnown, UnderWay, Working, Ended
    <2>5. CollectionIsShared'
        BY <1>1, <2>1, <2>2 DEF CollectionIsShared, Ended, Live
    <2> QED
        BY <2>3, <2>4, <2>5
<1> QED
    BY <1>2, <1>3, <1>4

-----------------------------------------------------------------------------
(* The theorems                                                            *)

LEMMA InitEstablishesIInv == Init => IInv
<1> SUFFICES ASSUME Init PROVE IInv
    OBVIOUS
<1> USE ImportAssumption, MaxFilesAssumption DEF Init
<1>1. Types
    BY NothingWalkedIsAResult DEF Types, TypeOK, Status, InFlight
<1>2. FilesInPlace /\ UnsettledHasReason
    BY DEF FilesInPlace, NothingYet, InOrder, CommittedLate, StoredByStage, UnsettledHasReason,
           Storing
<1>3. RowsAreUnique
    <2>1. Rows = {}
        BY DEF Rows
    <2> QED
        BY <2>1 DEF RowsAreUnique
<1>4. WalkedAreHeld
    BY DEF WalkedAreHeld, Storing
<1>5. Records
    BY DEF Records, RecordsAreUsed, RivalsAreKnown, CollectionIsShared, UnderWay, Working,
           BeforeFiles, Collected, Storing
<1> QED
    BY <1>1, <1>2, <1>3, <1>4, <1>5 DEF IInv, FilesInPlace, Records

LEMMA StepKeepsIInv == IInv /\ [Next]_vars => IInv'
<1> SUFFICES ASSUME IInv, [Next]_vars
             PROVE  Types' /\ FilesInPlace' /\ RowsAndWalks' /\ Records'
    BY DEF IInv, FilesInPlace, RowsAndWalks, Records
<1>0. Types /\ FilesInPlace /\ RowsAndWalks /\ Records /\ NothingYet /\ RecordsAreUsed
      /\ InOrder /\ CommittedLate
    BY DEF IInv, FilesInPlace, RowsAndWalks, Records
<1>1. ASSUME NEW i \in Imports, Arrives(i) \/ JobStep(i)
      PROVE  Types' /\ FilesInPlace' /\ RowsAndWalks' /\ Records'
    <2>1. Types'
        BY <1>0, <1>1, JobKeepsTypes
    <2>2. FilesInPlace' /\ RowsAndWalks'
        BY <1>0, <1>1, <2>1, JobsHaveShapes, QuietKeepsFiles, StoresKeepFiles,
           QuietKeepsContents, StoresKeepContents
    <2>3. Records'
        BY <1>0, <1>1, JobsProceed, ProceedingKeepsRecords, LinkingKeepsRecords
    <2> QED
        BY <2>1, <2>2, <2>3
<1>2. CASE \/ \E r \in Repos : DeleteRepository(r)
           \/ \E c \in Contents : UploadElsewhere(c)
           \/ Crash
    BY <1>0, <1>2, RestKeepsFiles, RestKeepsContents, RestKeepsRecords
<1>3. CASE UNCHANGED vars
    <2>1. /\ UNCHANGED <<url, status, collectionOf, documents, settled, objects, undeleted>>
          /\ UNCHANGED <<owned, import>>
          /\ UNCHANGED <<about, found, used, checkout, walk, flushed, at, rivals>>
        BY <1>3 DEF vars, repoVars, storeVars, jobVars
    <2>2. Types'
        BY <1>0, <2>1 DEF Types, TypeOK
    <2>3. FilesInPlace'
        BY <1>0, <2>1 DEF FilesInPlace, NothingYet, InOrder, CommittedLate, StoredByStage,
                          UnsettledHasReason, UnderWay, BrokeOff, Files, Current, Key
    <2>4. RowsAndWalks'
        <3>1. /\ Rows' = Rows /\ Held' = Held
              /\ \A k : ContentOf(k)' = ContentOf(k)
              /\ \A j : /\ FlushedBy(j)' = FlushedBy(j) /\ Files(j)' = Files(j)
                       /\ Current(j)' = Current(j)
            BY <2>1 DEF Rows, Held, FlushedBy, ContentOf, Files, Current, Key
        <3> QED
            BY <1>0, <2>1, <3>1 DEF RowsAndWalks, RowsAreUnique, WalkedAreHeld
    <2>5. Records'
        BY <1>0, <2>1 DEF Records, RecordsAreUsed, RivalsAreKnown, CollectionIsShared, Live,
                          Unrivalled, Overlap, UnderWay
    <2> QED
        BY <2>2, <2>3, <2>4, <2>5
<1> QED
    BY <1>1, <1>2, <1>3 DEF Next

THEOREM InvariantHolds == Spec => []IInv
BY InitEstablishesIInv, StepKeepsIInv, PTL DEF Spec

\* Every variable keeps to its values in every step of every import.
THEOREM TypeCorrect == Spec => []TypeOK
<1>1. IInv => TypeOK
    BY DEF IInv, Types
<1> QED
    BY <1>1, InvariantHolds, PTL

\* `_import_files` never gives a user two documents of one content, however
\* many imports, syncs and uploads interleave between its look-up and commit.
THEOREM NoContentTwice == Spec => []ContentIsUnique
<1>1. IInv => ContentIsUnique
    BY DEF IInv, RowsAreUnique, Rows, ContentIsUnique
<1> QED
    BY <1>1, InvariantHolds, PTL

\* A file stored by `_import_files` has its document, or its import is at
\* work or broke off, or it is a skipped duplicate that could not be removed.
THEOREM NoStrayFiles == Spec => []FilesHaveDocuments
<1>1. IInv => FilesHaveDocuments
    <2> SUFFICES ASSUME IInv, NEW k \in objects
                 PROVE  \/ k \in documents \/ UnderWay(k.import) \/ BrokeOff(k.import)
                        \/ k \in undeleted
        BY DEF FilesHaveDocuments
    <2>1. /\ k.import \in Imports
          /\ import[k.import] \in {"idle", "asked"} \union Working \union Ended
        BY DEF IInv, Types, TypeOK
    <2>2. import[k.import] \notin {"idle", "asked", "refused", "unstarted"}
        BY <2>1 DEF IInv, NothingYet, BeforeFiles
    <2>3. import[k.import] = "done" => k \in documents \/ k \in undeleted
        BY DEF IInv, StoredByStage
    <2> QED
        BY <2>1, <2>2, <2>3 DEF UnderWay, BrokeOff, Ended
<1> QED
    BY <1>1, InvariantHolds, PTL

\* A document left unindexed by the job belongs to an import that is at work
\* or broke off.
THEOREM NothingLeftUnindexed == Spec => []UnsettledHasReason
<1>1. IInv => UnsettledHasReason
    BY DEF IInv
<1> QED
    BY <1>1, InvariantHolds, PTL

\* `_ensure_collection` puts the documents of a record in its one collection
\* unless two of its imports overlapped.
THEOREM CollectionIsOne == Spec => []OneCollection
<1>1. IInv => OneCollection
    <2> SUFFICES ASSUME IInv, NEW r \in Repos, Live(r), Unrivalled(r),
                        NEW k \in documents, about[k.import] = r
                 PROVE  used[k.import] = collectionOf[r]
        BY DEF OneCollection, Unrivalled
    <2>1. k.import \in Imports /\ k \in objects
        BY DEF IInv, Types, TypeOK
    <2>2. used[k.import] # NoCollection
        BY <2>1 DEF IInv, RecordsAreUsed
    <2> QED
        BY <2>1, <2>2 DEF IInv, CollectionIsShared
<1> QED
    BY <1>1, InvariantHolds, PTL

\* Whenever the job writes READY, each file its walk kept is a document of
\* the user.
THEOREM ReadyMeansComplete == Spec => ReadyIsComplete
<1>1. IInv /\ [Next]_vars =>
        [\A i \in Imports : import[i] = "finalise" /\ import'[i] = "index" =>
            \A n \in 1..Len(Files(i)) : Files(i)[n] \in Held]_vars
    BY DEF IInv, WalkedAreHeld
<1> QED
    BY <1>1, InvariantHolds, PTL DEF Spec, ReadyIsComplete

=============================================================================
