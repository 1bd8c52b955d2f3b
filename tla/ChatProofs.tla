----------------------------- MODULE ChatProofs -----------------------------
(***************************************************************************)
(* The safety of Chat, for any number of users, questions and connections  *)
(* and for every vendor: where messages stand, what the history holds,     *)
(* what message_count counts, and that the last event tells the truth.     *)
(***************************************************************************)
EXTENDS Chat, Maxima

(***************************************************************************)
(* The inductive invariant, part by part.                                  *)
(***************************************************************************)

Numbered == {"numbered", "flushed"} \union Answering

\* What a question belongs to, from its arrival.
Placed ==
    \A a \in Asks : IF ask[a] = "idle" THEN about[a] = NoConversation
                                       ELSE about[a] \in Asks

\* Only a conversation whose first question was committed has others, or is
\* live, or counts.
Named ==
    /\ \A a \in Asks : about[a] \in Asks \ {a} => Known(about[a])
    /\ \A c \in live : Known(c)
    /\ \A c \in Asks : ~Known(c) => count[c] = 0

\* Questions that were not turned away are asked by the conversation's owner.
Owned ==
    \A a \in Asks :
        ask[a] \notin {"idle", "missing"} => asker[a] = asker[about[a]]

\* Row locks: a conversation stays while a question or an answer is written.
Held ==
    \A a \in Asks :
        ask[a] = "inserted" \/ (ask[a] = "flushed" /\ ~Starts(a))
            => about[a] \in live \ deleting

\* A stream is open only when passages were found.
StreamsHaveSources == \A a \in Asks : ask[a] = "streaming" => sources[a] # 0

\* A message is the question it says it is, or its answer.
Authored ==
    \A m \in messages :
        \/ m = Question(m.ask) /\ Known(m.ask)
        \/ m = Answer(m.ask) /\ ask[m.ask] = "done"

\* What was committed is stored for as long as its conversation lives.
Kept ==
    \A a \in Asks : about[a] \in live =>
        /\ Known(a) => Question(a) \in messages
        /\ ask[a] = "done" => Answer(a) \in messages

\* Questions of one conversation that are under way together know it.
RivalsAreKnown ==
    \A a, b \in Asks :
        a # b /\ about[a] = about[b] /\ UnderWay(a) /\ UnderWay(b) => Overlap(a, b)

\* A question under way stands after all that its rivals did not write.
NumberedLast ==
    \A a \in Asks : ask[a] \in Numbered =>
        \A m \in MessagesOf(about[a]) :
            m.ask # a /\ ~Overlap(m.ask, a) => m.ordinal < ordinal[a]

\* The history is a part of what is stored, and comes before the question,
\* unless the conversation was deleted meanwhile.
HistoryIsEarlier ==
    /\ \A a \in Asks : \A m \in history[a] : m.ask # a
    /\ \A a \in Asks : Starts(a) \/ ask[a] \in {"idle", "found"} => history[a] = {}
    /\ \A a \in Asks : ask[a] = "read" /\ about[a] \in live =>
          history[a] \subseteq MessagesOf(about[a])
    /\ \A a \in Asks : ask[a] \in Numbered /\ about[a] \in live =>
          \A m \in history[a] : m.ordinal < ordinal[a]

\* A transaction has read the current count, unless a rival has written since.
CountIsRead ==
    \A a \in Asks :
        /\ Starts(a) /\ ask[a] \in Asking => counted[a] = 0
        /\ ask[a] \in Asking /\ about[a] \in live
           /\ (\A m \in MessagesOf(about[a]) : ~Overlap(m.ask, a))
              => counted[a] = count[about[a]]

IInv ==
    /\ TypeOK /\ IsFiniteSet(messages)
    /\ Placed /\ Named /\ Owned /\ Held /\ StreamsHaveSources
    /\ Authored /\ Kept /\ MessagesBelong
    /\ RivalsAreKnown /\ NumberedLast /\ PlacesAreDistinct
    /\ HistoryIsEarlier /\ HistoryComesFirst
    /\ CountIsRead /\ CountMatches


-----------------------------------------------------------------------------
(* Places                                                                  *)

\* Every message of a set stands before the place after the last.
LEMMA NextPlaceIsNext ==
    ASSUME NEW S \in SUBSET Message, IsFiniteSet(S), S # {}
    PROVE  LET last == Max({m.ordinal : m \in S})
           IN last \in Nat /\ \A m \in S : m.ordinal < last + 1
<1> DEFINE taken == {m.ordinal : m \in S}
           last == Max(taken)
           f == [m \in S |-> m.ordinal]
<1>1. f \in Surjection(S, taken)
    BY DEF Surjection
<1>2. IsFiniteSet(taken)
    BY <1>1, FS_Surjection
<1>3. taken \in SUBSET Nat /\ taken # {}
    BY DEF Message
<1>4. last \in taken /\ \A y \in taken : y <= last
    BY <1>2, <1>3, FiniteSetHasMax
<1>5. \A m \in S : m.ordinal \in taken
    OBVIOUS
<1> HIDE DEF last, taken
<1>6. last \in Nat
    BY <1>3, <1>4, Zenon
<1>7. ASSUME NEW m \in S PROVE m.ordinal < last + 1
    <2>1. m.ordinal \in Nat /\ m.ordinal <= last
        BY <1>3, <1>4, <1>5, Zenon
    <2> QED
        BY <1>6, <2>1
<1> QED
    BY <1>6, <1>7 DEF last, taken

-----------------------------------------------------------------------------
(* Types                                                                   *)

\* What is stored for a question and for its answer are message rows.
LEMMA RowsAreMessages ==
    ASSUME TypeOK, NEW a \in Asks, about[a] \in Asks
    PROVE  Question(a) \in Message /\ Answer(a) \in Message
<1>1. ordinal[a] \in Nat
    BY DEF TypeOK
<1> QED
    BY <1>1 DEF Question, Answer, Message

\* A question arrives, reads the history and takes its place.
LEMMA AskKeepsTypes ==
    ASSUME TypeOK, IsFiniteSet(messages), Placed, NEW a \in Asks, Arrives(a) \/ AskStep(a)
    PROVE  TypeOK' /\ IsFiniteSet(messages')
<1> USE DEF TypeOK, Goes, dbVars, fixedVars, answerVars, questionVars, Asking, Answering, Ended
<1>1. ASSUME NEW c \in Asks, ResolveConversation(a, c)
      PROVE  TypeOK' /\ IsFiniteSet(messages')
    BY <1>1 DEF ResolveConversation
<1>2. CASE ReadHistory(a)
    <2>1. PICK window \in LastOf(MessagesOf(about[a]), MaxHistory) :
              history' = [history EXCEPT ![a] = window]
        BY <1>2 DEF ReadHistory
    <2>2. window \subseteq Message
        BY <2>1 DEF LastOf, MessagesOf
    <2> QED
        BY <1>2, <2>1, <2>2 DEF ReadHistory
<1>3. CASE ChooseOrdinal(a)
    <2> DEFINE taken == {m.ordinal : m \in MessagesOf(about[a])}
               place == IF taken = {} THEN 0 ELSE Max(taken) + 1
    <2>1. MessagesOf(about[a]) \in SUBSET Message /\ IsFiniteSet(MessagesOf(about[a]))
        BY FS_Subset DEF MessagesOf
    <2>2. CASE MessagesOf(about[a]) = {}
        <3>1. taken = {}
            BY <2>2
        <3>2. ordinal' = [ordinal EXCEPT ![a] = 0]
            BY <1>3, <3>1 DEF ChooseOrdinal
        <3> QED
            BY <1>3, <3>2 DEF ChooseOrdinal
    <2>3. CASE MessagesOf(about[a]) # {}
        <3>0. PICK m \in MessagesOf(about[a]) : TRUE
            BY <2>3, Zenon
        <3>2. m.ordinal \in taken
            BY <3>0, Zenon
        <3> HIDE DEF taken
        <3>1. Max(taken) \in Nat
            BY <2>1, <2>3, NextPlaceIsNext DEF taken
        <3>3. ordinal' = [ordinal EXCEPT ![a] = place]
            BY <1>3 DEF ChooseOrdinal, taken
        <3>4. place \in Nat
            BY <3>1, <3>2
        <3> HIDE DEF place
        <3> QED
            BY <1>3, <3>3, <3>4 DEF ChooseOrdinal
    <2> QED
        BY <2>2, <2>3
<1>4. CASE FlushQuestion(a)
    BY <1>4 DEF FlushQuestion
<1>5. CASE CommitQuestion(a)
    <2>1. about[a] \in Asks
        BY <1>5 DEF CommitQuestion, Placed
    <2>2. Question(a) \in Message /\ IsFiniteSet(messages')
        BY <1>5, <2>1, RowsAreMessages, FS_AddElement DEF CommitQuestion
    <2>3. counted[a] + 2 \in Nat
        OBVIOUS
    <2> QED
        BY <1>5, <2>1, <2>2, <2>3 DEF CommitQuestion
<1> QED
    BY <1>1, <1>2, <1>3, <1>4, <1>5 DEF Arrives, AskStep

\* A step while the question is answered moves the question on and leaves
\* what is stored, whom it belongs to and where it stands.
Moves(a, to) ==
    /\ ask[a] \in Answering
    /\ ask' = [ask EXCEPT ![a] = to]
    /\ to = "inserted" => about[a] \in live \ deleting
    /\ UNCHANGED <<dbVars, fixedVars, questionVars>>

\* All that happens to an answer is such a step, or stores it.
LEMMA AnswerMoves ==
    ASSUME TypeOK, Placed, StreamsHaveSources,
           NEW a \in Asks, AnswerStep(a) \/ Abandon(a)
    PROVE  /\ SaveAnswer(a) \/ \E to \in (Answering \ {"committed"}) \union {"error", "gone"} : Moves(a, to)
           /\ sources' \in [Asks -> {0, MaxSources}]
           /\ cited' \in [Asks -> SUBSET (1..MaxSources + 1)]
           /\ model' \in [Asks -> {"not_asked", "asked", "failed"}]
           /\ StreamsHaveSources'
<1> USE DEF TypeOK, StreamsHaveSources, Goes, Moves, questionVars, answerVars, Answering
<1>1. CASE Retrieve(a)
    <2>1. PICK n \in {0, MaxSources} :
            /\ Goes(a, "committed", IF n = 0 THEN "complete" ELSE "streaming")
            /\ sources' = [sources EXCEPT ![a] = n]
            /\ model' = [model EXCEPT ![a] = IF n = 0 THEN "not_asked" ELSE "asked"]
        BY <1>1 DEF Retrieve
    <2>2. UNCHANGED <<dbVars, fixedVars, questionVars, cited>>
        BY <1>1 DEF Retrieve
    <2>3. CASE n = 0
        <3>1. /\ Goes(a, "committed", "complete")
              /\ sources' = [sources EXCEPT ![a] = 0]
              /\ model' = [model EXCEPT ![a] = "not_asked"]
            BY <2>1, <2>3
        <3>2. Moves(a, "complete")
            BY <2>2, <3>1
        <3> QED
            BY <2>2, <3>1, <3>2
    <2>4. CASE n # 0
        <3>1. /\ Goes(a, "committed", "streaming")
              /\ sources' = [sources EXCEPT ![a] = MaxSources]
              /\ model' = [model EXCEPT ![a] = "asked"]
              /\ MaxSources # 0
            BY <2>1, <2>4
        <3>2. Moves(a, "streaming")
            BY <2>2, <3>1
        <3> QED
            BY <2>2, <3>1, <3>2
    <2> QED
        BY <2>3, <2>4
<1>2. CASE RetrieveFails(a)
    BY <1>2 DEF RetrieveFails
<1>3. CASE ReceiveLine(a)
    <2>1. PICK line \in LinesOf(vendor), numbers \in MayCite :
            LET chunks == ParseLine(vendor, line)
            IN /\ cited' = [cited EXCEPT ![a] = @ \union
                    IF chunks # <<>> /\ Head(chunks).text THEN numbers ELSE {}]
               /\ ask' = [ask EXCEPT ![a] =
                    IF chunks # <<>> /\ Head(chunks).done THEN "complete" ELSE @]
               /\ model' = [model EXCEPT ![a] = IF line = "error" THEN "failed" ELSE @]
        BY <1>3 DEF ReceiveLine
    <2>2. ask[a] = "streaming" /\ UNCHANGED <<dbVars, fixedVars, questionVars, sources>>
        BY <1>3 DEF ReceiveLine
    <2>3. PICK to \in {"streaming", "complete"} : ask' = [ask EXCEPT ![a] = to]
        BY <2>1, <2>2, Zenon
    <2>4. PICK new \in {numbers, {}} : cited' = [cited EXCEPT ![a] = @ \union new]
        BY <2>1, Zenon
    <2>5. PICK answered \in {"failed", model[a]} : model' = [model EXCEPT ![a] = answered]
        BY <2>1, Zenon
    <2>6. MaxSources \in Nat \ {0}
        BY <2>2, ChatAssumption
    <2>7. new \subseteq 1..MaxSources + 1
        BY <2>6 DEF MayCite
    <2> QED
        BY <2>2, <2>3, <2>4, <2>5, <2>7
<1>4. CASE ResponseCloses(a)
    BY <1>4 DEF ResponseCloses
<1>5. CASE ModelUnavailable(a)
    BY <1>5 DEF ModelUnavailable
<1>6. CASE InsertAnswer(a)
    BY <1>6 DEF InsertAnswer
<1>7. CASE SaveAnswer(a)
    BY <1>7 DEF SaveAnswer
<1>8. CASE SaveFails(a)
    BY <1>8 DEF SaveFails
<1>9. CASE PoolTimesOut(a)
    BY <1>9 DEF PoolTimesOut
<1>10. CASE Abandon(a)
    BY <1>10 DEF Abandon
<1> QED
    BY <1>1, <1>2, <1>3, <1>4, <1>5, <1>6, <1>7, <1>8, <1>9, <1>10 DEF AnswerStep

\* The answer's steps and the deletions keep the types.
LEMMA OtherStepsKeepTypes ==
    ASSUME TypeOK, IsFiniteSet(messages), Placed, StreamsHaveSources, Held,
           \/ \E a \in Asks : AnswerStep(a) \/ Abandon(a)
           \/ \E c \in Asks : DeleteStep(c)
    PROVE  TypeOK' /\ IsFiniteSet(messages')
<1> USE DEF TypeOK, Goes, dbVars, fixedVars, questionVars, answerVars, Asking, Answering, Ended
<1>1. ASSUME NEW a \in Asks, AnswerStep(a) \/ Abandon(a)
      PROVE  TypeOK' /\ IsFiniteSet(messages')
    <2>1. CASE SaveAnswer(a)
        <3>1. about[a] \in Asks
            BY <2>1 DEF SaveAnswer, Placed
        <3>2. Answer(a) \in Message /\ IsFiniteSet(messages')
            BY <2>1, <3>1, RowsAreMessages, FS_AddElement DEF SaveAnswer
        <3> QED
            BY <2>1, <3>1, <3>2 DEF SaveAnswer
    <2>2. ASSUME NEW to \in (Answering \ {"committed"}) \union {"error", "gone"}, Moves(a, to)
          PROVE  TypeOK' /\ IsFiniteSet(messages')
        BY <1>1, <2>2, AnswerMoves DEF Moves
    <2> QED
        BY <1>1, <2>1, <2>2, AnswerMoves
<1>2. ASSUME NEW c \in Asks, DeleteStep(c)
      PROVE  TypeOK' /\ IsFiniteSet(messages')
    <2>1. CASE BeginDelete(c)
        BY <2>1 DEF BeginDelete
    <2>2. CASE CommitDelete(c)
        BY <2>2, FS_Subset DEF CommitDelete
    <2>3. CASE DeleteFails(c)
        BY <2>3 DEF DeleteFails
    <2> QED
        BY <1>2, <2>1, <2>2, <2>3 DEF DeleteStep
<1> QED
    BY <1>1, <1>2

-----------------------------------------------------------------------------
(* The parts of the invariant, step by step                                *)

\* Every step has one of these shapes.
StepOf(a) ==
    \/ Arrives(a)
    \/ ReadHistory(a)
    \/ ChooseOrdinal(a)
    \/ FlushQuestion(a)
    \/ CommitQuestion(a)
    \/ \E to \in (Answering \ {"committed"}) \union {"error", "gone"} : Moves(a, to)
    \/ SaveAnswer(a)
    \/ DeleteStep(a)

LEMMA StepsHaveShapes ==
    ASSUME TypeOK, Placed, StreamsHaveSources, Next
    PROVE  \E a \in Asks : StepOf(a)
<1>1. ASSUME NEW a \in Asks, Arrives(a) \/ AskStep(a) PROVE StepOf(a)
    BY <1>1 DEF AskStep, StepOf
<1>2. ASSUME NEW a \in Asks, AnswerStep(a) \/ Abandon(a) PROVE StepOf(a)
    BY <1>2, AnswerMoves DEF StepOf
<1>3. ASSUME NEW c \in Asks, DeleteStep(c) PROVE StepOf(c)
    BY <1>3 DEF StepOf
<1> QED
    BY <1>1, <1>2, <1>3 DEF Next

\* Whose a question is and which conversations exist.
LEMMA OwnershipKept ==
    ASSUME TypeOK, Placed, Named, Owned, Held, NEW a \in Asks, StepOf(a)
    PROVE  Placed' /\ Named' /\ Owned' /\ Held'
<1> USE DEF Goes, dbVars, fixedVars, questionVars, answerVars, Known, Starts, Locked,
            Asking, Answering, Ended
<1>t. /\ live \subseteq Asks /\ deleting \subseteq live
      /\ ask \in [Asks -> {"idle"} \union Asking \union Answering \union Ended]
      /\ about \in [Asks -> Asks \union {NoConversation}]
      /\ count \in [Asks -> Nat] /\ NoConversation \notin Asks
    BY ChatAssumption DEF TypeOK
<1>1. CASE Arrives(a)
    <2>1. PICK c \in Asks : ResolveConversation(a, c)
        BY <1>1 DEF Arrives
    <2> QED
        BY <2>1, <1>t DEF ResolveConversation, Placed, Named, Owned, Held
<1>2. CASE ReadHistory(a)
    BY <1>2, <1>t DEF ReadHistory, Placed, Named, Owned, Held
<1>3. CASE ChooseOrdinal(a)
    <2>1. Goes(a, "read", "numbered") /\ UNCHANGED <<dbVars, fixedVars, about>>
        BY <1>3 DEF ChooseOrdinal
    <2> QED
        BY <2>1, <1>t DEF Placed, Named, Owned, Held
<1>4. CASE FlushQuestion(a)
    BY <1>4, <1>t DEF FlushQuestion, Placed, Named, Owned, Held
<1>5. CASE CommitQuestion(a)
    <2>1. /\ Goes(a, "flushed", "committed")
          /\ live' = live \union {about[a]} /\ UNCHANGED <<deleting, fixedVars, about>>
          /\ \A c \in Asks : c # about[a] => count'[c] = count[c]
        BY <1>5, <1>t DEF CommitQuestion
    <2> QED
        BY <2>1, <1>t DEF Placed, Named, Owned, Held
<1>6. ASSUME NEW to \in (Answering \ {"committed"}) \union {"error", "gone"}, Moves(a, to)
      PROVE  Placed' /\ Named' /\ Owned' /\ Held'
    BY <1>6, <1>t DEF Moves, Placed, Named, Owned, Held
<1>7. CASE SaveAnswer(a)
    BY <1>7, <1>t DEF SaveAnswer, Placed, Named, Owned, Held
<1>8. CASE DeleteStep(a)
    <2>1. CASE BeginDelete(a)
        BY <2>1, <1>t DEF BeginDelete, Placed, Named, Owned, Held
    <2>2. CASE CommitDelete(a)
        BY <2>2, <1>t DEF CommitDelete, Placed, Named, Owned, Held
    <2>3. CASE DeleteFails(a)
        BY <2>3, <1>t DEF DeleteFails, Placed, Named, Owned, Held
    <2> QED
        BY <1>8, <2>1, <2>2, <2>3 DEF DeleteStep
<1> QED
    BY <1>1, <1>2, <1>3, <1>4, <1>5, <1>6, <1>7, <1>8 DEF StepOf

\* What is stored is what was asked and answered, in the asker's conversation.
LEMMA StoredKept ==
    ASSUME TypeOK, Placed, Named, Owned, Held, Authored, Kept, MessagesBelong,
           NEW a \in Asks, StepOf(a)
    PROVE  Authored' /\ Kept' /\ MessagesBelong'
<1> USE DEF Goes, dbVars, fixedVars, questionVars, answerVars, Known, Starts, Locked,
            Asking, Answering, Ended, Authored, Kept, MessagesBelong, Question, Answer
<1>t. /\ live \subseteq Asks /\ deleting \subseteq live
      /\ ask \in [Asks -> {"idle"} \union Asking \union Answering \union Ended]
      /\ about \in [Asks -> Asks \union {NoConversation}]
      /\ ordinal \in [Asks -> Nat]
      /\ messages \subseteq Message /\ NoConversation \notin Asks
    BY ChatAssumption DEF TypeOK
<1>m. \A m \in messages : m.ask \in Asks /\ m.conversation \in Asks
    BY <1>t DEF Message
<1>1. CASE Arrives(a)
    <2>1. PICK c \in Asks : ResolveConversation(a, c)
        BY <1>1 DEF Arrives
    <2> QED
        BY <2>1, <1>t, <1>m DEF ResolveConversation
<1>2. CASE ReadHistory(a)
    BY <1>2, <1>t, <1>m DEF ReadHistory
<1>3. CASE ChooseOrdinal(a)
    <2>1. /\ Goes(a, "read", "numbered") /\ UNCHANGED <<dbVars, fixedVars, about>>
          /\ \A b \in Asks : b # a => ordinal'[b] = ordinal[b]
        BY <1>3, <1>t DEF ChooseOrdinal
    <2> QED
        BY <2>1, <1>t, <1>m
<1>4. CASE FlushQuestion(a)
    BY <1>4, <1>t, <1>m DEF FlushQuestion
<1>5. CASE CommitQuestion(a)
    <2>1. /\ Goes(a, "flushed", "committed")
          /\ live' = live \union {about[a]} /\ messages' = messages \union {Question(a)}
          /\ UNCHANGED <<deleting, fixedVars, about, ordinal>>
        BY <1>5, <1>t DEF CommitQuestion
    <2>2. about[a] \in Asks /\ asker[a] = asker[about[a]]
        BY <2>1, <1>t DEF Placed, Owned
    <2>3. ASSUME NEW b \in Asks, Known(b), about[b] \in live'
          PROVE  about[b] \in live
        BY <2>1, <2>3, <1>t DEF Named, Held
    <2>4. Authored'
        BY <2>1, <1>t, <1>m
    <2>5. Kept'
        BY <2>1, <2>3, <1>t, <1>m
    <2>6. MessagesBelong'
        BY <2>1, <2>2, <1>t, <1>m
    <2> QED
        BY <2>4, <2>5, <2>6
<1>6. ASSUME NEW to \in (Answering \ {"committed"}) \union {"error", "gone"}, Moves(a, to)
      PROVE  Authored' /\ Kept' /\ MessagesBelong'
    BY <1>6, <1>t, <1>m DEF Moves
<1>7. CASE SaveAnswer(a)
    <2>1. about[a] \in live /\ asker[a] = asker[about[a]]
        BY <1>7, <1>t DEF SaveAnswer, Held, Owned
    <2>2. /\ Goes(a, "inserted", "done") /\ messages' = messages \union {Answer(a)}
          /\ UNCHANGED <<live, fixedVars, about, ordinal>>
        BY <1>7 DEF SaveAnswer
    <2>4. Authored'
        BY <2>2, <1>t, <1>m
    <2>5. Kept'
        BY <2>2, <1>t, <1>m
    <2>6. MessagesBelong'
        BY <2>2, <2>1, <1>t, <1>m
    <2> QED
        BY <2>4, <2>5, <2>6
<1>8. CASE DeleteStep(a)
    <2>1. CASE BeginDelete(a)
        BY <2>1, <1>t, <1>m DEF BeginDelete
    <2>2. CASE CommitDelete(a)
        BY <2>2, <1>t, <1>m DEF CommitDelete, MessagesOf
    <2>3. CASE DeleteFails(a)
        BY <2>3, <1>t, <1>m DEF DeleteFails
    <2> QED
        BY <1>8, <2>1, <2>2, <2>3 DEF DeleteStep
<1> QED
    BY <1>1, <1>2, <1>3, <1>4, <1>5, <1>6, <1>7, <1>8 DEF StepOf

\* Where messages stand: rivals know of each other, a question under way
\* stands after all that its rivals did not write, and so no two messages
\* share a place unless they are of rivals.
LEMMA PlacesKept ==
    ASSUME TypeOK, IsFiniteSet(messages), Placed, Named, Authored,
           RivalsAreKnown, NumberedLast, PlacesAreDistinct,
           NEW a \in Asks, StepOf(a)
    PROVE  RivalsAreKnown' /\ NumberedLast' /\ PlacesAreDistinct'
<1> USE DEF Goes, dbVars, fixedVars, questionVars, answerVars, Asking, Answering, Ended,
            UnderWay, Overlap, MessagesOf, Numbered
<1>t. /\ ask \in [Asks -> {"idle"} \union Asking \union Answering \union Ended]
      /\ about \in [Asks -> Asks \union {NoConversation}]
      /\ ordinal \in [Asks -> Nat] /\ rivals \in [Asks -> SUBSET Asks]
      /\ messages \subseteq Message /\ NoConversation \notin Asks
    BY ChatAssumption DEF TypeOK
<1>m. \A m \in messages :
          m.ask \in Asks /\ m.conversation \in Asks /\ m.ordinal \in Nat
    BY <1>t DEF Message
<1>k. \A m \in messages : Known(m.ask) /\ m.conversation = about[m.ask]
    BY <1>m DEF Authored, Question, Answer, Known
\* Steps that change neither the rows nor the places nor the rivals.
<1>q. ASSUME ask' = [ask EXCEPT ![a] = ask'[a]], UNCHANGED <<about, ordinal, rivals>>,
             messages' \subseteq messages,
             UnderWay(a)' => UnderWay(a),
             ask'[a] \in Numbered => ask[a] \in Numbered
      PROVE  RivalsAreKnown' /\ NumberedLast' /\ PlacesAreDistinct'
    <2>1. RivalsAreKnown'
        BY <1>q, <1>t DEF RivalsAreKnown
    <2>2. NumberedLast'
        BY <1>q, <1>t DEF NumberedLast
    <2>3. PlacesAreDistinct'
        BY <1>q DEF PlacesAreDistinct
    <2> QED
        BY <2>1, <2>2, <2>3
\* A row written by a question under way.
<1>w. ASSUME NEW row \in Message, row.ask = a, row.conversation = about[a],
             row.ordinal \in {ordinal[a], ordinal[a] + 1},
             \A m \in messages : m.ask = a => m.ordinal # row.ordinal,
             messages' = messages \union {row},
             ask[a] \in {"flushed", "inserted"}, ask'[a] \in {"committed", "done"},
             ask' = [ask EXCEPT ![a] = ask'[a]], UNCHANGED <<about, ordinal, rivals>>
      PROVE  RivalsAreKnown' /\ NumberedLast' /\ PlacesAreDistinct'
    <2>1. RivalsAreKnown'
        BY <1>w, <1>t DEF RivalsAreKnown
    <2>2. NumberedLast'
        <3> SUFFICES ASSUME NEW b \in Asks, ask'[b] \in Numbered,
                            NEW m \in messages', m.conversation = about[b],
                            m.ask # b, ~Overlap(m.ask, b)
                     PROVE  m.ordinal < ordinal[b]
            BY <1>w DEF NumberedLast
        <3>1. ask[b] \in Numbered
            BY <1>w, <1>t
        <3>2. CASE m \in messages
            BY <3>1, <3>2 DEF NumberedLast
        <3>3. CASE m = row
            BY <1>w, <1>t, <3>1, <3>3 DEF RivalsAreKnown
        <3> QED
            BY <1>w, <3>2, <3>3
    <2>3. PlacesAreDistinct'
        <3>1. ASSUME NEW m \in messages, m.conversation = about[a], m.ask # a,
                     ~Overlap(m.ask, a)
              PROVE  m.ordinal # row.ordinal
            <4>1. m.ordinal < ordinal[a]
                BY <1>w, <3>1 DEF NumberedLast
            <4> QED
                BY <1>w, <1>m, <1>t, <4>1
        <3> SUFFICES ASSUME NEW m \in messages', NEW k \in messages', m # k,
                            m.conversation = k.conversation, m.ordinal = k.ordinal
                     PROVE  Overlap(m.ask, k.ask)
            BY <1>w DEF PlacesAreDistinct
        <3>2. CASE m \in messages /\ k \in messages
            BY <3>2 DEF PlacesAreDistinct
        <3>3. CASE m = row /\ k \in messages
            BY <1>w, <3>1, <3>3
        <3>4. CASE m \in messages /\ k = row
            BY <1>w, <3>1, <3>4
        <3> QED
            BY <1>w, <3>2, <3>3, <3>4
    <2> QED
        BY <2>1, <2>2, <2>3
<1>1. CASE Arrives(a)
    <2>1. PICK c \in Asks : ResolveConversation(a, c)
        BY <1>1 DEF Arrives
    <2>2. /\ ask[a] = "idle" /\ ask'[a] \in {"found", "missing"}
          /\ \A b \in Asks : b # a => ask'[b] = ask[b] /\ about'[b] = about[b] /\ rivals'[b] = rivals[b]
          /\ about'[a] = c /\ rivals'[a] = {b \in Asks : about[b] = c /\ UnderWay(b)}
          /\ UNCHANGED <<messages, ordinal>>
        BY <2>1, <1>t DEF ResolveConversation
    <2>3. RivalsAreKnown'
        BY <2>2, <1>t DEF RivalsAreKnown
    <2>4. \A m \in messages : m.ask # a
        BY <2>2, <1>k DEF Known
    <2>5. NumberedLast'
        BY <2>2, <2>4, <1>m DEF NumberedLast
    <2>6. PlacesAreDistinct'
        BY <2>2, <2>4, <1>m DEF PlacesAreDistinct
    <2> QED
        BY <2>3, <2>5, <2>6
<1>2. CASE ReadHistory(a)
    BY <1>2, <1>t, <1>q DEF ReadHistory
<1>3. CASE ChooseOrdinal(a)
    <2>1. /\ Goes(a, "read", "numbered") /\ UNCHANGED <<messages, about, rivals>>
          /\ \A b \in Asks : b # a => ordinal'[b] = ordinal[b]
        BY <1>3, <1>t DEF ChooseOrdinal
    <2>2. RivalsAreKnown' /\ PlacesAreDistinct'
        BY <2>1, <1>t DEF RivalsAreKnown, PlacesAreDistinct
    <2>3. ASSUME NEW m \in MessagesOf(about[a]) PROVE m.ordinal < ordinal'[a]
        <3> DEFINE taken == {k.ordinal : k \in MessagesOf(about[a])}
        <3>1. /\ MessagesOf(about[a]) \in SUBSET Message /\ IsFiniteSet(MessagesOf(about[a]))
              /\ MessagesOf(about[a]) # {}
            BY <1>t, <2>3, FS_Subset
        <3>2. m.ordinal < Max(taken) + 1
            BY <3>1, NextPlaceIsNext
        <3>3. m.ordinal \in taken
            BY <2>3
        <3> HIDE DEF taken
        <3>4. ordinal'[a] = Max(taken) + 1
            BY <1>3, <1>t, <3>3 DEF ChooseOrdinal, taken
        <3> QED
            BY <3>2, <3>4
    <2>4. NumberedLast'
        BY <2>1, <2>3, <1>t DEF NumberedLast
    <2> QED
        BY <2>2, <2>4
<1>4. CASE FlushQuestion(a)
    BY <1>4, <1>t, <1>q DEF FlushQuestion
<1>5. CASE CommitQuestion(a)
    <2>1. about[a] \in Asks /\ Question(a) \in Message
        BY <1>5, <1>t, RowsAreMessages DEF CommitQuestion, Placed
    <2>2. \A m \in messages : m.ask # a
        BY <1>5, <1>k DEF CommitQuestion, Known
    <2> QED
        BY <1>5, <2>1, <2>2, <1>t, <1>w DEF CommitQuestion, Question
<1>6. ASSUME NEW to \in (Answering \ {"committed"}) \union {"error", "gone"}, Moves(a, to)
      PROVE  RivalsAreKnown' /\ NumberedLast' /\ PlacesAreDistinct'
    BY <1>6, <1>t, <1>q DEF Moves
<1>7. CASE SaveAnswer(a)
    <2>1. about[a] \in Asks /\ Answer(a) \in Message
        BY <1>7, <1>t, RowsAreMessages DEF SaveAnswer, Placed
    <2>2. \A m \in messages : m.ask = a => m.ordinal # ordinal[a] + 1
        BY <1>7, <1>t DEF SaveAnswer, Authored, Question
    <2> QED
        BY <1>7, <2>1, <2>2, <1>t, <1>w DEF SaveAnswer, Answer
<1>8. CASE DeleteStep(a)
    <2>1. UNCHANGED <<ask, about, ordinal, rivals>> /\ messages' \subseteq messages
        BY <1>8 DEF DeleteStep, BeginDelete, CommitDelete, DeleteFails
    <2> QED
        BY <2>1, <1>t, <1>q
<1> QED
    BY <1>1, <1>2, <1>3, <1>4, <1>5, <1>6, <1>7, <1>8 DEF StepOf

\* The history that is replayed comes before the question.
LEMMA HistoryKept ==
    ASSUME TypeOK, IsFiniteSet(messages), Placed, Named, Held, Authored, MessagesBelong,
           HistoryIsEarlier, HistoryComesFirst, NEW a \in Asks, StepOf(a)
    PROVE  HistoryIsEarlier' /\ HistoryComesFirst'
<1> USE DEF Goes, dbVars, fixedVars, questionVars, answerVars, Asking, Answering, Ended,
            Numbered, HistoryIsEarlier, HistoryComesFirst, Starts, MessagesOf
<1>t. /\ ask \in [Asks -> {"idle"} \union Asking \union Answering \union Ended]
      /\ about \in [Asks -> Asks \union {NoConversation}]
      /\ ordinal \in [Asks -> Nat] /\ history \in [Asks -> SUBSET Message]
      /\ messages \subseteq Message /\ NoConversation \notin Asks
    BY ChatAssumption DEF TypeOK
<1>m. \A m \in messages :
          /\ m.ask \in Asks /\ Known(m.ask)
          /\ m.conversation \in Asks /\ Known(m.conversation)
    BY <1>t DEF Message, Authored, Known, MessagesBelong, Named
\* Steps that keep what a question has read and where it stands.
<1>q. ASSUME ask' = [ask EXCEPT ![a] = ask'[a]], UNCHANGED <<about, ordinal, history>>,
             ask'[a] # ask[a] =>
                /\ ask'[a] \notin {"idle", "found", "read", "numbered"}
                /\ ask[a] \in {"flushed"} \union Answering,
             \A b \in Asks : about[b] \in live' =>
                \/ b = a /\ Starts(a) /\ ask'[a] # "read"
                \/ /\ about[b] \in live
                   /\ MessagesOf(about[b]) \subseteq MessagesOf(about[b])'
      PROVE  HistoryIsEarlier' /\ HistoryComesFirst'
    <2>1. HistoryComesFirst'
        BY <1>q, <1>t
    <2>2. \A b \in Asks : ask'[b] = "read" /\ about[b] \in live' =>
              history[b] \subseteq MessagesOf(about[b])'
        BY <1>q, <1>t
    <2>3. \A b \in Asks : ask'[b] \in Numbered /\ about[b] \in live' =>
              \A m \in history[b] : m.ordinal < ordinal[b]
        BY <1>q, <1>t
    <2>4. \A b \in Asks : Starts(b) \/ ask'[b] \in {"idle", "found"} => history[b] = {}
        BY <1>q, <1>t
    <2> QED
        BY <1>q, <2>1, <2>2, <2>3, <2>4
<1>1. CASE Arrives(a)
    <2>1. PICK c \in Asks : ResolveConversation(a, c)
        BY <1>1 DEF Arrives
    <2>2. /\ ask[a] = "idle" /\ ask'[a] \in {"found", "missing"}
          /\ \A b \in Asks : b # a => ask'[b] = ask[b] /\ about'[b] = about[b]
          /\ UNCHANGED <<live, messages, ordinal, history>>
        BY <2>1, <1>t DEF ResolveConversation
    <2> QED
        BY <2>2, <1>t
<1>2. CASE ReadHistory(a)
    <2>1. PICK window \in LastOf(MessagesOf(about[a]), MaxHistory) :
              history' = [history EXCEPT ![a] = window]
        BY <1>2 DEF ReadHistory
    <2>2. /\ Goes(a, "found", "read") /\ UNCHANGED <<live, messages, about, ordinal>>
        BY <1>2 DEF ReadHistory
    <2>3. window \subseteq MessagesOf(about[a])
        BY <2>1 DEF LastOf
    <2>4. ~Known(a)
        BY <2>2 DEF Known
    <2>5. \A m \in window : m.ask # a
        BY <2>3, <2>4, <1>m
    <2>6. Starts(a) => window = {}
        BY <2>3, <2>4, <1>m
    <2> QED
        BY <2>1, <2>2, <2>3, <2>5, <2>6, <1>t
<1>3. CASE ChooseOrdinal(a)
    <2>1. /\ Goes(a, "read", "numbered") /\ UNCHANGED <<live, messages, about, history>>
          /\ \A b \in Asks : b # a => ordinal'[b] = ordinal[b]
        BY <1>3, <1>t DEF ChooseOrdinal
    <2>2. ASSUME about[a] \in live, NEW m \in history[a]
          PROVE  m.ordinal < ordinal'[a]
        <3> DEFINE taken == {k.ordinal : k \in MessagesOf(about[a])}
        <3>1. m \in MessagesOf(about[a])
            BY <2>1, <2>2
        <3>2. /\ MessagesOf(about[a]) \in SUBSET Message /\ IsFiniteSet(MessagesOf(about[a]))
              /\ MessagesOf(about[a]) # {}
            BY <1>t, <3>1, FS_Subset
        <3>3. m.ordinal < Max(taken) + 1
            BY <3>1, <3>2, NextPlaceIsNext
        <3>4. m.ordinal \in taken
            BY <3>1
        <3> HIDE DEF taken
        <3>5. ordinal'[a] = Max(taken) + 1
            BY <1>3, <1>t, <3>4 DEF ChooseOrdinal, taken
        <3> QED
            BY <3>3, <3>5
    <2> QED
        BY <2>1, <2>2, <1>t
<1>4. CASE FlushQuestion(a)
    <2>1. /\ ask[a] = "numbered" /\ ask'[a] \in {"flushed", "failed"}
          /\ ask'[a] = "flushed" => Starts(a) \/ about[a] \in live
          /\ \A b \in Asks : b # a => ask'[b] = ask[b]
          /\ UNCHANGED <<live, messages, about, ordinal, history>>
        BY <1>4, <1>t DEF FlushQuestion
    <2> QED
        BY <2>1, <1>t
<1>5. CASE CommitQuestion(a)
    <2>1. /\ Goes(a, "flushed", "committed")
          /\ live' = live \union {about[a]} /\ messages \subseteq messages'
          /\ UNCHANGED <<about, ordinal, history>>
        BY <1>5 DEF CommitQuestion
    <2>2. ASSUME NEW b \in Asks, about[b] \in live', about[b] \notin live
          PROVE  b = a /\ Starts(a)
        BY <2>1, <2>2, <1>t DEF Held, Named, Known
    <2> QED
        BY <2>1, <2>2, <1>t, <1>q
<1>6. ASSUME NEW to \in (Answering \ {"committed"}) \union {"error", "gone"}, Moves(a, to)
      PROVE  HistoryIsEarlier' /\ HistoryComesFirst'
    BY <1>6, <1>t, <1>q DEF Moves
<1>7. CASE SaveAnswer(a)
    BY <1>7, <1>t, <1>q DEF SaveAnswer
<1>8. CASE DeleteStep(a)
    <2>1. /\ UNCHANGED <<ask, about, ordinal, history>> /\ live' \subseteq live
          /\ \A c \in live' : MessagesOf(c) \subseteq MessagesOf(c)'
        BY <1>8 DEF DeleteStep, BeginDelete, CommitDelete, DeleteFails
    <2> QED
        BY <2>1, <1>t, <1>q
<1> QED
    BY <1>1, <1>2, <1>3, <1>4, <1>5, <1>6, <1>7, <1>8 DEF StepOf

\* Where every answer has its question and nobody wrote twice, there are at
\* most two messages to a question.
LEMMA AtMostTwoPerQuestion ==
    ASSUME NEW S \in SUBSET Message, IsFiniteSet(S),
           \A m \in S : \E k \in S : k.role = "user" /\ k.ask = m.ask,
           \A m, k \in S : m.role = k.role /\ m.ask = k.ask => m = k
    PROVE  Cardinality(S) <= 2 * Cardinality({m \in S : m.role = "user"})
<1> DEFINE Q == {m \in S : m.role = "user"}
           A == {m \in S : m.role = "assistant"}
           f == [m \in A |-> CHOOSE k \in Q : k.ask = m.ask]
<1>1. S = Q \union A /\ Q \intersect A = {}
    BY DEF Message
<1>2. IsFiniteSet(Q) /\ IsFiniteSet(A)
    BY FS_Subset
<1>3. \A m \in A : f[m] \in Q /\ f[m].ask = m.ask
    OBVIOUS
<1>4. f \in Injection(A, Q)
    <2>1. \A m, k \in A : f[m] = f[k] => m = k
        BY <1>3
    <2> QED
        BY <1>3, <2>1 DEF Injection, IsInjective
<1>5. Cardinality(A) <= Cardinality(Q)
    BY <1>2, <1>4, FS_Injection
<1>6. Cardinality(S) = Cardinality(Q) + Cardinality(A) - 0
    BY <1>1, <1>2, FS_Union, FS_EmptySet
<1>7. Cardinality(Q) \in Nat /\ Cardinality(A) \in Nat
    BY <1>2, FS_CardinalityType
<1> HIDE DEF Q, A
<1>8. Cardinality(S) <= 2 * Cardinality(Q)
    BY <1>5, <1>6, <1>7
<1> QED
    BY <1>8 DEF Q

Questions(c) == {m \in MessagesOf(c) : m.role = "user"}
Unrivalled(c) == \A m, k \in MessagesOf(c) : ~Overlap(m.ask, k.ask)

\* What is stored for a conversation has at most two messages per question.
LEMMA MessagesAreCounted ==
    ASSUME TypeOK', IsFiniteSet(messages'), Authored', Kept', MessagesBelong', NEW c \in live'
    PROVE  /\ Cardinality(MessagesOf(c)') <= 2 * Cardinality(Questions(c)')
<1>1. MessagesOf(c)' \in SUBSET Message /\ IsFiniteSet(MessagesOf(c)')
    BY FS_Subset DEF MessagesOf, TypeOK
<1>2. \A m \in MessagesOf(c)' : m.ask \in Asks /\ m.conversation = c
    BY <1>1 DEF MessagesOf, Message
<1>3. ASSUME NEW m \in MessagesOf(c)'
      PROVE  \E k \in MessagesOf(c)' : k.role = "user" /\ k.ask = m.ask
    <2>1. about'[m.ask] = c /\ Known(m.ask)'
        BY <1>2, <1>3 DEF MessagesOf, Authored, Question, Answer, Known
    <2>2. Question(m.ask)' \in messages'
        BY <1>2, <1>3, <2>1 DEF Kept
    <2> QED
        BY <2>1, <2>2 DEF MessagesOf, Question
<1>4. \A m, k \in MessagesOf(c)' : m.role = k.role /\ m.ask = k.ask => m = k
    BY DEF MessagesOf, Authored, Question, Answer
<1> QED
    BY <1>1, <1>3, <1>4, AtMostTwoPerQuestion DEF Questions

\* message_count, as long as no two questions of a conversation overlap.
LEMMA CountKept ==
    ASSUME TypeOK, IsFiniteSet(messages), Placed, Named, Held, Authored, Kept,
           MessagesBelong, RivalsAreKnown, CountIsRead, CountMatches,
           TypeOK', IsFiniteSet(messages'), Authored', Kept', MessagesBelong',
           NEW a \in Asks, StepOf(a)
    PROVE  CountIsRead' /\ CountMatches'
<1> USE DEF Goes, dbVars, fixedVars, questionVars, answerVars, Asking, Answering, Ended,
            Starts, MessagesOf, UnderWay, Overlap
<1>t. /\ ask \in [Asks -> {"idle"} \union Asking \union Answering \union Ended]
      /\ about \in [Asks -> Asks \union {NoConversation}]
      /\ count \in [Asks -> Nat] /\ counted \in [Asks -> Nat]
      /\ rivals \in [Asks -> SUBSET Asks]
      /\ messages \subseteq Message /\ live \subseteq Asks /\ NoConversation \notin Asks
    BY ChatAssumption DEF TypeOK
<1>m. \A m \in messages :
          /\ m.ask \in Asks /\ Known(m.ask)
          /\ m.conversation \in live /\ Known(m.conversation)
    BY <1>t DEF Message, Authored, Known, MessagesBelong, Named
<1>c. CountMatches <=>
        \A c \in live : Unrivalled(c) =>
            /\ count[c] = 2 * Cardinality(Questions(c))
            /\ Cardinality(MessagesOf(c)) <= count[c]
    BY Zenon DEF CountMatches, Unrivalled, Questions
<1>d. ASSUME \A c \in live' : Unrivalled(c)' => count'[c] = 2 * Cardinality(Questions(c)')
      PROVE  CountMatches'
    <2>1. \A c \in live' : Cardinality(MessagesOf(c)') <= 2 * Cardinality(Questions(c)')
        BY MessagesAreCounted
    <2> HIDE DEF MessagesOf
    <2> QED
        BY <1>d, <2>1 DEF CountMatches, Unrivalled, Questions
\* Steps that keep the counts and the questions that are stored.
<1>q. ASSUME \A b \in Asks : b # a => ask'[b] = ask[b],
             ask'[a] \in Asking => ask[a] \in Asking,
             UNCHANGED <<about, counted, count, rivals>>, live' \subseteq live,
             \A c \in live' : MessagesOf(c) \subseteq MessagesOf(c)' /\ Questions(c)' = Questions(c)
      PROVE  CountIsRead' /\ CountMatches'
    <2>1. CountIsRead'
        BY <1>q, <1>t DEF CountIsRead
    <2>2. ASSUME NEW c \in live', Unrivalled(c)'
          PROVE  count'[c] = 2 * Cardinality(Questions(c)')
        <3>1. Unrivalled(c)
            BY <1>q, <2>2 DEF Unrivalled
        <3> QED
            BY <1>c, <1>q, <2>2, <3>1
    <2> QED
        BY <1>d, <2>1, <2>2
<1>1. CASE Arrives(a)
    <2>1. PICK c \in Asks : ResolveConversation(a, c)
        BY <1>1 DEF Arrives
    <2>2. /\ ask[a] = "idle" /\ (c = a \/ Known(c))
          /\ \A b \in Asks : b # a =>
                ask'[b] = ask[b] /\ about'[b] = about[b] /\ rivals'[b] = rivals[b] /\ counted'[b] = counted[b]
          /\ about'[a] = c /\ counted'[a] = count[c]
          /\ UNCHANGED <<live, messages, count>>
        BY <2>1, <1>t DEF ResolveConversation
    <2>3. ask[a] = "idle" /\ ~Known(a) /\ \A m \in messages : m.ask # a
        BY <2>1, <1>m DEF ResolveConversation, Known
    <2>4. CountIsRead'
        BY <2>2, <2>3, <1>m, <1>t DEF CountIsRead, Named
    <2>5. ASSUME NEW c2 \in live', Unrivalled(c2)'
          PROVE  count'[c2] = 2 * Cardinality(Questions(c2)')
        <3>1. Unrivalled(c2) /\ Questions(c2)' = Questions(c2)
            BY <2>2, <2>3, <2>5, <1>m DEF Unrivalled, Questions
        <3> QED
            BY <1>c, <2>2, <2>5, <3>1
    <2> QED
        BY <1>d, <2>4, <2>5
<1>2. CASE ReadHistory(a)
    <2>1. Goes(a, "found", "read") /\ UNCHANGED <<dbVars, about, counted, rivals>>
        BY <1>2 DEF ReadHistory
    <2> QED
        BY <2>1, <1>t, <1>q DEF Questions
<1>3. CASE ChooseOrdinal(a)
    <2>1. Goes(a, "read", "numbered") /\ UNCHANGED <<dbVars, about, counted, rivals>>
        BY <1>3 DEF ChooseOrdinal
    <2> QED
        BY <2>1, <1>t, <1>q DEF Questions
<1>4. CASE FlushQuestion(a)
    BY <1>4, <1>t, <1>q DEF FlushQuestion, Questions
<1>5. CASE CommitQuestion(a)
    <2>0. PICK c \in Asks : c = about[a]
        BY <1>5, <1>t DEF CommitQuestion, Placed
    <2>1. /\ ask[a] = "flushed" /\ ask'[a] = "committed"
          /\ \A b \in Asks : b # a => ask'[b] = ask[b]
          /\ live' = live \union {c} /\ messages' = messages \union {Question(a)}
          /\ \A d \in Asks : d # c => count'[d] = count[d]
          /\ UNCHANGED <<about, counted, rivals, ordinal>>
        BY <1>5, <1>t, <2>0 DEF CommitQuestion
    <2>2. count'[c] = counted[a] + 2
        BY <1>5, <1>t, <2>0 DEF CommitQuestion
    <2>3. /\ Question(a) \notin messages /\ Question(a).conversation = c
          /\ Question(a).role = "user" /\ Question(a).ask = a
        BY <2>0, <2>1, <1>m DEF Known, Question
    <2>4. /\ MessagesOf(c)' = MessagesOf(c) \union {Question(a)}
          /\ Questions(c)' = Questions(c) \union {Question(a)}
          /\ \A d \in Asks : d # c => MessagesOf(d)' = MessagesOf(d) /\ Questions(d)' = Questions(d)
        BY <2>1, <2>3 DEF Questions
    <2>5. CountIsRead'
        <3> SUFFICES ASSUME NEW b \in Asks
                     PROVE  /\ Starts(b) /\ ask'[b] \in Asking => counted[b] = 0
                            /\ ask'[b] \in Asking /\ about[b] \in live'
                               /\ (\A m \in MessagesOf(about[b])' : ~Overlap(m.ask, b))
                                  => counted[b] = count'[about[b]]
            BY <2>1 DEF CountIsRead
        <3>1. CASE b = a
            BY <2>1, <3>1
        <3>2. CASE b # a /\ about[b] = c
            <4>1. ask'[b] \in Asking => Overlap(a, b)
                BY <2>0, <2>1, <3>2, <1>t DEF RivalsAreKnown
            <4>2. about'[b] = c /\ Question(a) \in MessagesOf(c)'
                BY <2>1, <2>4, <3>2
            <4> QED
                BY <2>1, <2>3, <3>2, <4>1, <4>2 DEF CountIsRead
        <3>3. CASE b # a /\ about[b] # c
            BY <2>1, <2>4, <3>3, <1>t DEF CountIsRead
        <3> QED
            BY <3>1, <3>2, <3>3
    <2>6. ASSUME NEW d \in live', Unrivalled(d)'
          PROVE  count'[d] = 2 * Cardinality(Questions(d)')
        <3>1. CASE d # c
            <4>1. d \in live /\ Unrivalled(d)
                BY <2>1, <2>4, <2>6, <3>1, <1>t DEF Unrivalled
            <4> QED
                BY <1>c, <2>1, <2>4, <3>1, <4>1, <1>t
        <3>2. CASE d = c
            <4>1. IsFiniteSet(Questions(c))
                BY FS_Subset DEF Questions
            <4>2. Cardinality(Questions(c)') = Cardinality(Questions(c)) + 1
                BY <2>3, <2>4, <4>1, FS_AddElement DEF Questions
            <4>3. counted[a] = 2 * Cardinality(Questions(c))
                <5>1. CASE c \in live
                    <6>1. Unrivalled(c) /\ \A m \in MessagesOf(c) : ~Overlap(m.ask, a)
                        BY <2>1, <2>3, <2>4, <2>6, <3>2 DEF Unrivalled
                    <6>2. counted[a] = count[c]
                        BY <2>0, <2>1, <5>1, <6>1 DEF CountIsRead
                    <6> QED
                        BY <1>c, <5>1, <6>1, <6>2
                <5>2. CASE c \notin live
                    <6>1. Questions(c) = {}
                        BY <5>2, <1>m DEF Questions
                    <6>2. counted[a] = 0
                        BY <2>0, <2>1, <5>2 DEF CountIsRead, Held
                    <6> QED
                        BY <6>1, <6>2, FS_EmptySet
                <5> QED
                    BY <5>1, <5>2
            <4> DEFINE n == Cardinality(Questions(c))
            <4>4. n \in Nat
                BY <4>1, FS_CardinalityType
            <4>5. counted[a] = 2 * n /\ Cardinality(Questions(c)') = n + 1
                BY <4>2, <4>3
            <4> HIDE DEF n
            <4>6. count'[c] = 2 * (n + 1)
                BY <2>2, <4>4, <4>5
            <4> QED
                BY <3>2, <4>5, <4>6
        <3> QED
            BY <3>1, <3>2
    <2> QED
        BY <1>d, <2>5, <2>6
<1>6. ASSUME NEW to \in (Answering \ {"committed"}) \union {"error", "gone"}, Moves(a, to)
      PROVE  CountIsRead' /\ CountMatches'
    BY <1>6, <1>t, <1>q DEF Moves, Questions
<1>7. CASE SaveAnswer(a)
    <2>1. /\ Goes(a, "inserted", "done") /\ messages' = messages \union {Answer(a)}
          /\ UNCHANGED <<live, count, about, counted, rivals>>
        BY <1>7 DEF SaveAnswer
    <2>2. Answer(a).role # "user"
        BY DEF Answer
    <2>3. \A c \in live' : MessagesOf(c) \subseteq MessagesOf(c)' /\ Questions(c)' = Questions(c)
        BY <2>1, <2>2 DEF Questions
    <2> QED
        BY <2>1, <2>3, <1>t, <1>q
<1>8. CASE DeleteStep(a)
    <2>1. /\ UNCHANGED <<ask, about, counted, count, rivals>> /\ live' \subseteq live
          /\ \A c \in live' : MessagesOf(c)' = MessagesOf(c)
        BY <1>8 DEF DeleteStep, BeginDelete, CommitDelete, DeleteFails
    <2> QED
        BY <2>1, <1>t, <1>q DEF Questions
<1> QED
    BY <1>1, <1>2, <1>3, <1>4, <1>5, <1>6, <1>7, <1>8 DEF StepOf

-----------------------------------------------------------------------------
(* The theorems                                                            *)

LEMMA InitHolds == Init => IInv
<1> SUFFICES ASSUME Init PROVE IInv
    OBVIOUS
<1> USE ChatAssumption DEF Init
<1>1. TypeOK /\ IsFiniteSet(messages)
    BY FS_EmptySet DEF TypeOK
<1>2. Placed /\ Named /\ Owned /\ Held /\ StreamsHaveSources
    BY DEF Placed, Named, Owned, Held, Starts, StreamsHaveSources
<1>3. Authored /\ Kept /\ MessagesBelong
    BY DEF Authored, Kept, MessagesBelong
<1>4. RivalsAreKnown /\ NumberedLast /\ PlacesAreDistinct
    BY DEF RivalsAreKnown, UnderWay, Asking, Answering, NumberedLast, Numbered,
           PlacesAreDistinct
<1>5. HistoryIsEarlier /\ HistoryComesFirst
    BY DEF HistoryIsEarlier, HistoryComesFirst, Numbered, Answering
<1>6. CountIsRead /\ CountMatches
    BY DEF CountIsRead, Asking, CountMatches
<1> QED
    BY <1>1, <1>2, <1>3, <1>4, <1>5, <1>6 DEF IInv

LEMMA StepHolds == IInv /\ Next => IInv'
<1> SUFFICES ASSUME IInv, Next PROVE IInv'
    OBVIOUS
<1> USE DEF IInv
<1>1. TypeOK' /\ IsFiniteSet(messages')
    BY AskKeepsTypes, OtherStepsKeepTypes DEF Next
<1>2. StreamsHaveSources'
    <2>1. ASSUME NEW a \in Asks, Arrives(a) \/ AskStep(a) PROVE StreamsHaveSources'
        <3>1. /\ sources' = sources
              /\ \A b \in Asks : ask'[b] = "streaming" => ask[b] = "streaming"
            BY <2>1 DEF Arrives, ResolveConversation, AskStep, ReadHistory, ChooseOrdinal,
                        FlushQuestion, CommitQuestion, Goes, answerVars, TypeOK
        <3> QED
            BY <3>1 DEF StreamsHaveSources
    <2>2. ASSUME NEW c \in Asks, DeleteStep(c) PROVE StreamsHaveSources'
        BY <2>2 DEF StreamsHaveSources, DeleteStep, BeginDelete, CommitDelete, DeleteFails,
                    answerVars
    <2> QED
        BY <2>1, <2>2, AnswerMoves DEF Next
<1>3. PICK a \in Asks : StepOf(a)
    BY StepsHaveShapes
<1>4. Placed' /\ Named' /\ Owned' /\ Held'
    BY <1>3, OwnershipKept
<1>5. Authored' /\ Kept' /\ MessagesBelong'
    BY <1>3, StoredKept
<1>6. RivalsAreKnown' /\ NumberedLast' /\ PlacesAreDistinct'
    BY <1>3, PlacesKept
<1>7. HistoryIsEarlier' /\ HistoryComesFirst'
    BY <1>3, HistoryKept
<1>8. CountIsRead' /\ CountMatches'
    BY <1>1, <1>3, <1>5, CountKept
<1> QED
    BY <1>1, <1>2, <1>4, <1>5, <1>6, <1>7, <1>8

LEMMA StutterHolds == IInv /\ UNCHANGED vars => IInv'
<1> SUFFICES ASSUME IInv, UNCHANGED vars PROVE IInv'
    OBVIOUS
<1> USE DEF vars, dbVars, fixedVars, questionVars, answerVars, Known, Starts, MessagesOf,
            UnderWay, Overlap, Question, Answer
<1>1. TypeOK' /\ IsFiniteSet(messages')
    BY DEF IInv, TypeOK
<1>2. Placed' /\ Named' /\ Owned' /\ Held' /\ StreamsHaveSources'
    BY DEF IInv, Placed, Named, Owned, Held, StreamsHaveSources
<1>3. Authored' /\ Kept' /\ MessagesBelong'
    BY DEF IInv, Authored, Kept, MessagesBelong
<1>4. RivalsAreKnown' /\ NumberedLast' /\ PlacesAreDistinct'
    BY DEF IInv, RivalsAreKnown, NumberedLast, PlacesAreDistinct
<1>5. HistoryIsEarlier' /\ HistoryComesFirst'
    BY DEF IInv, HistoryIsEarlier, HistoryComesFirst
<1>6. CountIsRead' /\ CountMatches'
    BY DEF IInv, CountIsRead, CountMatches
<1> QED
    BY <1>1, <1>2, <1>3, <1>4, <1>5, <1>6 DEF IInv

\* The inductive invariant holds of every behaviour of Chat: `stream_answer`
\* and the conversation service, in any interleaving of requests.
THEOREM InvariantHolds == Spec => []IInv
<1>1. IInv /\ [Next]_vars => IInv'
    BY StepHolds, StutterHolds
<1> QED
    BY InitHolds, <1>1, PTL DEF Spec

\* Every variable of Chat stays within its type.
THEOREM TypeCorrect == Spec => []TypeOK
<1>1. IInv => TypeOK
    BY DEF IInv
<1> QED
    BY <1>1, InvariantHolds, PTL

\* Two messages of a conversation share a place only when they belong to
\* questions that were under way together, whatever `next_ordinal` returned
\* to how many requests.
THEOREM MessagesStandApart == Spec => []PlacesAreDistinct
<1>1. IInv => PlacesAreDistinct
    BY DEF IInv
<1> QED
    BY <1>1, InvariantHolds, PTL

\* The turns replayed to the model all come before the question, whatever is
\* committed or deleted between the two reads of the conversation.
THEOREM HistoryPrecedes == Spec => []HistoryComesFirst
<1>1. IInv => HistoryComesFirst
    BY DEF IInv
<1> QED
    BY <1>1, InvariantHolds, PTL

\* message_count is twice the number of questions, and no less than what is
\* stored, in every conversation whose questions never overlapped.
THEOREM CountIsRight == Spec => []CountMatches
<1>1. IInv => CountMatches
    BY DEF IInv
<1> QED
    BY <1>1, InvariantHolds, PTL

\* Messages live in a live conversation of the user who asked.
THEOREM MessagesHaveAHome == Spec => []MessagesBelong
<1>1. IInv => MessagesBelong
    BY DEF IInv
<1> QED
    BY <1>1, InvariantHolds, PTL

\* After `done` the answer is stored until its conversation is deleted, and
\* after `error` it never is.
THEOREM LastEventHolds == Spec => []LastEventIsTrue
<1>1. ASSUME IInv PROVE LastEventIsTrue
    <2>1. ASSUME NEW a \in Asks, ask[a] = "error" PROVE Answer(a) \notin messages
        <3>1. Answer(a).ask = a /\ Answer(a) # Question(a)
            BY DEF Answer, Question
        <3> QED
            BY <1>1, <2>1, <3>1 DEF IInv, Authored
    <2>2. ASSUME NEW a \in Asks, ask[a] = "done"
          PROVE  Answer(a) \in messages \/ about[a] \notin live
        BY <1>1, <2>2 DEF IInv, Kept
    <2> QED
        BY <2>1, <2>2 DEF LastEventIsTrue
<1> QED
    BY <1>1, InvariantHolds, PTL

-----------------------------------------------------------------------------
(* What the model is given, and what is kept of its answer                 *)

\* The messages taken from the places in a set, given those from the smaller
\* sets.
StepOfThose(prompt, roles, before, s) ==
    IF s = {} THEN <<>>
    ELSE IF prompt[Max(s)].role \in roles
         THEN Append(before[s \ {Max(s)}], prompt[Max(s)])
         ELSE before[s \ {Max(s)}]

\* The adapter's comprehension is a loop over the prompt.
LEMMA ThoseIsALoop ==
    ASSUME NEW S, NEW prompt \in Seq(S), NEW roles
    PROVE  \E g :
              /\ g[0] = <<>>
              /\ \A m \in 1..Len(prompt) :
                    g[m] = IF prompt[m].role \in roles THEN Append(g[m - 1], prompt[m])
                                                       ELSE g[m - 1]
              /\ Those(prompt, roles) = g[Len(prompt)]
<1> DEFINE n == Len(prompt)
           step == [m \in 1..n |-> [kept \in Seq(S) |->
                      IF prompt[m].role \in roles THEN Append(kept, prompt[m]) ELSE kept]]
           taken == CHOOSE g : g = [s \in SUBSET (1..n) |-> StepOfThose(prompt, roles, g, s)]
<1>1. n \in Nat /\ DOMAIN prompt = 1..n /\ \A m \in 1..n : prompt[m] \in S
    OBVIOUS
<1>2. \E g : g = [s \in SUBSET (1..n) |-> StepOfThose(prompt, roles, g, s)]
    <2>1. \A m \in 1..n : \A kept \in Seq(S) :
             (IF prompt[m].role \in roles THEN Append(kept, prompt[m]) ELSE kept) \in Seq(S)
        BY <1>1
    <2>2. step \in [1..n -> [Seq(S) -> Seq(S)]] /\ <<>> \in Seq(S)
        BY <2>1
    <2>3. \A m \in 1..n : \A kept \in Seq(S) :
             step[m][kept] = IF prompt[m].role \in roles THEN Append(kept, prompt[m]) ELSE kept
        OBVIOUS
    <2> DEFINE R == Seq(S)
               none == <<>>
    <2>a. Stays(step, R, n) /\ none \in R
        BY <2>2 DEF Stays
    <2> HIDE DEF step, n, R, none
    <2>b. \E g : IsFoldOf(g, none, step, R, n)
        <3>1. n \in Nat
            BY <1>1
        <3> QED
            BY <3>1, <2>a, FoldExists
    <2>4. PICK g \in [SUBSET (1..n) -> Seq(S)] :
             \A s \in SUBSET (1..n) : g[s] = StepOfFold(<<>>, step, g, s)
        BY <2>b DEF R, none, IsFoldOf
    <2>5. ASSUME NEW s \in SUBSET (1..n) PROVE g[s] = StepOfThose(prompt, roles, g, s)
        <3>1. CASE s = {}
            BY <2>4, <3>1 DEF StepOfFold, StepOfThose
        <3>2. CASE s # {}
            <4>1. Max(s) \in 1..n /\ s \ {Max(s)} \in SUBSET (1..n)
                BY <1>1, <3>2, MaxIsBounded
            <4>2. g[s \ {Max(s)}] \in Seq(S)
                BY <2>4, <4>1
            <4>3. g[s] = step[Max(s)][g[s \ {Max(s)}]]
                BY <2>4, <3>2, Zenon DEF StepOfFold
            <4> QED
                BY <2>3, <3>2, <4>1, <4>2, <4>3, Zenon DEF StepOfThose
        <3> QED
            BY <3>1, <3>2
    <2>6. g = [s \in SUBSET (1..n) |-> g[s]]
        BY <2>4
    <2> QED
        BY <2>5, <2>6, Zenon
<1>3. taken = [s \in SUBSET (1..n) |-> StepOfThose(prompt, roles, taken, s)]
    BY <1>2, Zenon
<1>4. Those(prompt, roles) = taken[1..n]
    BY <1>1, Zenon DEF Those, FoldLeft, MapThenFoldSet, StepOfThose
<1> HIDE DEF taken, n
<1> DEFINE g == [m \in 0..n |-> taken[1..m]]
<1>5. g[0] = <<>>
    <2>1. 1..0 = {} /\ (1..0) \in SUBSET (1..n) /\ 0 \in 0..n
        BY <1>1
    <2>2. taken[1..0] = StepOfThose(prompt, roles, taken, 1..0)
        BY <1>3, <2>1, Zenon
    <2> QED
        BY <2>1, <2>2, Zenon DEF StepOfThose
<1>6. ASSUME NEW m \in 1..n
      PROVE  g[m] = IF prompt[m].role \in roles THEN Append(g[m - 1], prompt[m]) ELSE g[m - 1]
    <2>1. (1..m) \in SUBSET (1..n) /\ m \in Nat /\ m # 0 /\ m \in 0..n /\ m - 1 \in 0..n
        BY <1>1
    <2>2. 1..m # {} /\ (1..m) \ {m} = 1..m - 1 /\ Max(1..m) = m
        BY <2>1, IntervalWithoutEnd, MaxOfInterval, Zenon
    <2>3. taken[1..m] = StepOfThose(prompt, roles, taken, 1..m)
        BY <1>3, <2>1, Zenon
    <2>4. g[m] = taken[1..m] /\ g[m - 1] = taken[1..m - 1]
        BY <2>1
    <2> QED
        BY <2>2, <2>3, <2>4, Zenon DEF StepOfThose
<1>7. Those(prompt, roles) = g[n]
    BY <1>1, <1>4
<1> QED
    BY <1>5, <1>6, <1>7 DEF n

Told == [role : {"system", "user", "assistant"}, says : Asks \union {"rules", "sources"}]
Spoken == [role : {"user", "assistant"}, says : Asks \union {"rules", "sources"}]
Turn == [role : {"user", "assistant"}, says : Asks]

LEMMA ConcatenationIsOneAfterTheOther ==
    ASSUME NEW S, NEW s \in Seq(S), NEW t \in Seq(S)
    PROVE  /\ s \o t \in Seq(S) /\ Len(s \o t) = Len(s) + Len(t)
           /\ \A i \in 1..Len(s) + Len(t) :
                 (s \o t)[i] = IF i <= Len(s) THEN s[i] ELSE t[i - Len(s)]
OBVIOUS

\* The rules stand first in a prompt, the sources last, and neither's role is
\* the other's.
LEMMA PromptHasRulesFirst ==
    ASSUME NEW turns \in Seq(Turn)
    PROVE  LET prompt == Prompt(turns)
               n == Len(prompt)
           IN /\ prompt \in Seq(Told) /\ n \in Nat /\ n >= 2
              /\ prompt[1].role = "system"
              /\ \A i \in 2..n : prompt[i].role \in {"user", "assistant"}
              /\ prompt[n] = [role |-> "user", says |-> "sources"]
<1> DEFINE first == <<[role |-> "system", says |-> "rules"]>>
           last == <<[role |-> "user", says |-> "sources"]>>
           front == first \o turns
           prompt == front \o last
           k == Len(turns)
<1>1. first \in Seq(Told) /\ Len(first) = 1 /\ first[1].role = "system"
    BY DEF Told
<1>2. last \in Seq(Told) /\ Len(last) = 1 /\ last[1] = [role |-> "user", says |-> "sources"]
    BY DEF Told
<1>3. turns \in Seq(Told) /\ k \in Nat
    <2>1. Turn \subseteq Told
        BY DEF Turn, Told
    <2> QED
        BY <2>1
<1>4. \A i \in 1..k : turns[i].role \in {"user", "assistant"}
    <2>1. \A i \in 1..k : turns[i] \in Turn
        OBVIOUS
    <2> QED
        BY <2>1 DEF Turn
<1>a. Len(turns) = k
    OBVIOUS
<1> HIDE DEF first, last, k
<1>5. front \in Seq(Told) /\ Len(front) = 1 + k /\ front[1] = first[1]
      /\ \A i \in 2..1 + k : front[i] = turns[i - 1]
    <2>1. /\ front \in Seq(Told) /\ Len(front) = Len(first) + Len(turns)
          /\ \A i \in 1..Len(first) + Len(turns) :
                front[i] = IF i <= Len(first) THEN first[i] ELSE turns[i - Len(first)]
        BY <1>1, <1>3, ConcatenationIsOneAfterTheOther, Zenon
    <2> HIDE DEF front
    <2> QED
        BY <1>1, <1>3, <1>a, <2>1
<1> HIDE DEF front
<1>6. /\ prompt \in Seq(Told) /\ Len(prompt) = k + 2
      /\ \A i \in 1..1 + k : prompt[i] = front[i]
      /\ prompt[k + 2] = last[1]
    <2>1. /\ prompt \in Seq(Told) /\ Len(prompt) = Len(front) + Len(last)
          /\ \A i \in 1..Len(front) + Len(last) :
                prompt[i] = IF i <= Len(front) THEN front[i] ELSE last[i - Len(front)]
        BY <1>2, <1>5, ConcatenationIsOneAfterTheOther, Zenon
    <2> HIDE DEF prompt
    <2> QED
        BY <1>2, <1>3, <1>5, <2>1
<1>7. prompt = Prompt(turns)
    BY DEF prompt, front, first, last, Prompt
<1> HIDE DEF prompt
<1>8. prompt[1].role = "system"
    BY <1>1, <1>3, <1>5, <1>6
<1>9. ASSUME NEW i \in 2..k + 2 PROVE prompt[i].role \in {"user", "assistant"}
    <2>1. CASE i = k + 2
        BY <1>2, <1>6, <2>1
    <2>2. CASE i # k + 2
        <3>1. i \in 2..1 + k /\ i \in 1..1 + k /\ i - 1 \in 1..k
            BY <1>3, <2>2
        <3> QED
            BY <1>4, <1>5, <1>6, <3>1
    <2> QED
        BY <2>1, <2>2
<1> QED
    BY <1>2, <1>3, <1>6, <1>7, <1>8, <1>9

\* What the adapters make of a prompt: the rules aside, and the rest with the
\* sources at its end.
LEMMA RulesGoAside ==
    ASSUME NEW turns \in Seq(Turn)
    PROVE  LET aside == RulesAside(Prompt(turns))
           IN /\ Len(aside.system) = 1
              /\ aside.messages \in Seq(Spoken) /\ aside.messages # <<>>
              /\ Last(aside.messages) = [role |-> "user", says |-> "sources"]
<1> DEFINE prompt == Prompt(turns)
           n == Len(prompt)
<1>1. /\ prompt \in Seq(Told) /\ n \in Nat /\ n >= 2
      /\ prompt[1].role = "system"
      /\ \A i \in 2..n : prompt[i].role \in {"user", "assistant"}
      /\ prompt[n] = [role |-> "user", says |-> "sources"]
    BY PromptHasRulesFirst
<1>p. \A i \in 1..n : prompt[i] \in Told
    BY <1>1
<1> HIDE DEF prompt, n
<1> DEFINE system == {"system"}
<1> HIDE DEF system
<1>2. Len(Those(prompt, system)) = 1
    <2>0. \E g :
             /\ g[0] = <<>>
             /\ \A m \in 1..Len(prompt) :
                    g[m] = IF prompt[m].role \in system THEN Append(g[m - 1], prompt[m])
                                                       ELSE g[m - 1]
             /\ Those(prompt, system) = g[Len(prompt)]
        <3>1. prompt \in Seq(Told)
            BY <1>1
        <3> QED
            BY <3>1, ThoseIsALoop
    <2>1. PICK g : /\ g[0] = <<>>
                   /\ \A m \in 1..n :
                        g[m] = IF prompt[m].role \in system THEN Append(g[m - 1], prompt[m])
                                                           ELSE g[m - 1]
                   /\ Those(prompt, system) = g[n]
        BY <2>0, Zenon DEF n
    <2> DEFINE Bad == {m \in 1..n : g[m] # <<prompt[1]>>}
    <2>2. Bad = {}
        <3> SUFFICES ASSUME Bad # {} PROVE FALSE
            OBVIOUS
        <3>0. Bad \in SUBSET Nat
            OBVIOUS
        <3>1. PICK m \in Bad : \A k \in Nat : k < m => k \notin Bad
            BY <3>0, SetHasLeast, Zenon
        <3>2. m \in 1..n /\ g[m] # <<prompt[1]>>
            OBVIOUS
        <3>3. CASE m = 1
            <4>0. 1 \in 1..n /\ 1 - 1 = 0
                BY <1>1
            <4>1. g[1] = Append(g[0], prompt[1])
                BY <1>1, <2>1, <4>0, Zenon DEF system
            <4>2. Append(<<>>, prompt[1]) = <<prompt[1]>>
                OBVIOUS
            <4> QED
                BY <2>1, <3>2, <3>3, <4>1, <4>2, Zenon
        <3>4. CASE m # 1
            <4>1. m - 1 \in 1..n /\ m - 1 < m /\ m \in 2..n
                BY <1>1, <3>2, <3>4
            <4>2. g[m - 1] = <<prompt[1]>>
                BY <3>1, <4>1
            <4>3. g[m] = g[m - 1]
                BY <1>1, <2>1, <3>2, <4>1 DEF system
            <4> QED
                BY <3>2, <4>2, <4>3
        <3> QED
            BY <3>3, <3>4
    <2>3. n \in 1..n
        BY <1>1
    <2>4. g[n] = <<prompt[1]>>
        BY <2>2, <2>3
    <2> QED
        BY <2>1, <2>4
<1>3. LET rest == Those(prompt, {"user", "assistant"})
      IN rest \in Seq(Spoken) /\ rest # <<>> /\ Last(rest) = prompt[n]
    <2>1. PICK g : /\ g[0] = <<>>
                   /\ \A m \in 1..n :
                        g[m] = IF prompt[m].role \in {"user", "assistant"}
                               THEN Append(g[m - 1], prompt[m]) ELSE g[m - 1]
                   /\ Those(prompt, {"user", "assistant"}) = g[n]
        BY <1>1, ThoseIsALoop, Zenon DEF n
    <2> DEFINE Bad == {m \in 0..n : g[m] \notin Seq(Spoken)}
    <2>s. ASSUME NEW m \in 1..n, prompt[m].role \in {"user", "assistant"}
          PROVE  prompt[m] \in Spoken
        BY <1>p, <2>s DEF Spoken, Told
    <2>2. Bad = {}
        <3> SUFFICES ASSUME Bad # {} PROVE FALSE
            OBVIOUS
        <3>0. Bad \in SUBSET Nat
            OBVIOUS
        <3>1. PICK m \in Bad : \A k \in Nat : k < m => k \notin Bad
            BY <3>0, SetHasLeast, Zenon
        <3>2. m \in 0..n /\ g[m] \notin Seq(Spoken)
            OBVIOUS
        <3>3. m # 0
            <4>1. <<>> \in Seq(Spoken)
                OBVIOUS
            <4> QED
                BY <2>1, <3>2, <4>1, Zenon
        <3>4. m - 1 \in 0..n /\ m - 1 < m /\ m \in 1..n /\ m - 1 \in Nat
            BY <1>1, <3>2, <3>3
        <3>5. g[m - 1] \in Seq(Spoken)
            BY <3>1, <3>4
        <3>6. CASE prompt[m].role \in {"user", "assistant"}
            <4>1. g[m] = Append(g[m - 1], prompt[m]) /\ prompt[m] \in Spoken
                BY <2>1, <2>s, <3>4, <3>6
            <4> QED
                BY <3>2, <3>5, <4>1
        <3>7. CASE prompt[m].role \notin {"user", "assistant"}
            <4>1. g[m] = g[m - 1]
                BY <2>1, <3>4, <3>7
            <4> QED
                BY <3>2, <3>5, <4>1
        <3> QED
            BY <3>6, <3>7
    <2>3. n \in 1..n /\ n \in 2..n /\ n - 1 \in 0..n
        BY <1>1
    <2>4. g[n - 1] \in Seq(Spoken) /\ prompt[n] \in Spoken
        BY <1>1, <2>2, <2>3, <2>s
    <2>5. g[n] = Append(g[n - 1], prompt[n])
        BY <1>1, <2>1, <2>3
    <2> HIDE DEF Bad
    <2>6. g[n] \in Seq(Spoken) /\ Len(g[n]) = Len(g[n - 1]) + 1 /\ g[n][Len(g[n])] = prompt[n]
        BY <2>4, <2>5
    <2>7. g[n] # <<>> /\ Last(g[n]) = prompt[n]
        BY <2>4, <2>6 DEF Last
    <2> QED
        BY <2>1, <2>6, <2>7
<1> QED
    BY <1>1, <1>2, <1>3 DEF RulesAside, prompt, system

\* Every vendor is told the rules once, and the sources last.
LEMMA RequestsCarryTheRules ==
    ASSUME NEW turns \in Seq(Turn), vendor \in Vendors
    PROVE  LET request == RequestOf(vendor, Prompt(turns))
           IN RulesIn(request) = 1 /\ Last(request.messages).says = "sources"
<1> DEFINE prompt == Prompt(turns)
           n == Len(prompt)
           aside == RulesAside(prompt)
           rest == aside.messages
           Rules(told) == {i \in DOMAIN told : told[i].role = "system"}
           request == RequestOf(vendor, prompt)
<1> SUFFICES RulesIn(request) = 1 /\ Last(request.messages).says = "sources"
    OBVIOUS
<1>1. /\ prompt \in Seq(Told) /\ n \in Nat /\ n >= 2
      /\ prompt[1].role = "system"
      /\ \A i \in 2..n : prompt[i].role \in {"user", "assistant"}
      /\ prompt[n] = [role |-> "user", says |-> "sources"]
    BY PromptHasRulesFirst
<1>2. /\ Len(aside.system) = 1 /\ rest \in Seq(Spoken) /\ rest # <<>>
      /\ Last(rest) = [role |-> "user", says |-> "sources"]
    BY RulesGoAside
<1>3. aside = [system |-> aside.system, messages |-> rest]
    BY DEF RulesAside
<1>4. Cardinality({}) = 0 /\ Cardinality({1}) = 1
    BY FS_EmptySet, FS_Singleton
<1> HIDE DEF prompt, n, aside, rest, request
<1>5. CASE vendor \in {"ollama", "openai"}
    <2>1. request = [system |-> <<>>, messages |-> prompt]
        BY <1>5 DEF request, RequestOf, WholePrompt, prompt
    <2>2. DOMAIN prompt = 1..n
        BY <1>1 DEF n
    <2>3. Rules(prompt) = {1}
        BY <1>1, <2>2
    <2>4. prompt # <<>> /\ Last(prompt) = prompt[n]
        BY <1>1 DEF n, Last
    <2>5. RulesIn(request) = 0 + Cardinality(Rules(prompt))
        BY <2>1 DEF RulesIn
    <2>6. request.messages = prompt
        BY <2>1
    <2> HIDE DEF Rules
    <2>7. RulesIn(request) = 1
        BY <1>4, <2>3, <2>5
    <2>8. Last(request.messages) = [role |-> "user", says |-> "sources"]
        BY <1>1, <2>4, <2>6, Zenon
    <2> QED
        BY <2>7, <2>8
<1>6. CASE vendor = "anthropic"
    <2>1. request = aside
        BY <1>6 DEF request, RequestOf, aside, prompt
    <2>2. Rules(rest) = {}
        <3>1. \A i \in DOMAIN rest : rest[i] \in Spoken
            BY <1>2
        <3>2. \A i \in DOMAIN rest : rest[i].role # "system"
            BY <3>1 DEF Spoken
        <3> QED
            BY <3>2
    <2>3. RulesIn(request) = 1 + Cardinality(Rules(rest)) /\ request.messages = rest
        BY <1>2, <2>1 DEF RulesIn, rest
    <2> HIDE DEF Rules
    <2>4. RulesIn(request) = 1
        BY <1>4, <2>2, <2>3
    <2>5. Last(request.messages) = [role |-> "user", says |-> "sources"]
        BY <1>2, <2>3, Zenon
    <2> QED
        BY <2>4, <2>5
<1>7. CASE vendor = "gemini"
    <2> DEFINE renamed == [i \in DOMAIN rest |-> RenameRole(rest[i])]
    <2>1. request = [aside EXCEPT !.messages = renamed]
        BY <1>7 DEF request, RequestOf, aside, rest, prompt
    <2>2. request = [system |-> aside.system, messages |-> renamed]
        BY <1>3, <2>1
    <2>3. DOMAIN rest = 1..Len(rest) /\ Len(rest) \in Nat /\ Len(rest) # 0
        BY <1>2
    <2>4. \A i \in 1..Len(rest) : rest[i] \in Spoken
        BY <1>2
    <2>5. \A i \in 1..Len(rest) :
             renamed[i].role \in {"model", "user"} /\ renamed[i].says = rest[i].says
        BY <2>3, <2>4 DEF RenameRole, Spoken
    <2>6. DOMAIN renamed = 1..Len(rest) /\ Len(renamed) = Len(rest)
        BY <2>3
    <2> HIDE DEF renamed
    <2>7. Rules(renamed) = {}
        BY <2>5, <2>6
    <2>8. Last(renamed).says = Last(rest).says
        BY <2>3, <2>5, <2>6 DEF Last
    <2>9. RulesIn(request) = 1 + Cardinality(Rules(renamed)) /\ request.messages = renamed
        BY <1>2, <2>2 DEF RulesIn
    <2> HIDE DEF Rules
    <2>10. RulesIn(request) = 1
        BY <1>4, <2>7, <2>9
    <2>11. Last(request.messages).says = "sources"
        <3>1. Last(rest).says = "sources"
            BY <1>2
        <3> QED
            BY <2>8, <2>9, <3>1, Zenon
    <2> QED
        BY <2>10, <2>11
<1> QED
    BY <1>5, <1>6, <1>7 DEF Vendors

\* The turns that are replayed are turns, however places are shared.
LEMMA ReplaysAreTurns ==
    ASSUME TypeOK, NEW a \in Asks, IsFiniteSet(history[a])
    PROVE  Replays(a) \subseteq Seq(Turn)
<1> SUFFICES ASSUME NEW order \in SetToSeqs(history[a])
             PROVE  [i \in DOMAIN order |-> [role |-> order[i].role, says |-> order[i].ask]]
                      \in Seq(Turn)
    BY DEF Replays
<1> DEFINE n == Cardinality(history[a])
<1>1. n \in Nat
    BY FS_CardinalityType
<1>2. order \in [1..n -> history[a]] /\ history[a] \subseteq Message
    BY DEF SetToSeqs, TypeOK
<1>3. \A i \in 1..n : [role |-> order[i].role, says |-> order[i].ask] \in Turn
    BY <1>2 DEF Message, Turn
<1> HIDE DEF n
<1> QED
    BY <1>1, <1>2, <1>3

\* An answer without sources was given without a word to the model.
RefusedUnasked ==
    \A a \in Asks :
        ask[a] \in {"complete", "inserted", "done"} /\ sources[a] = 0 => model[a] = "not_asked"

HistoryIsFinite == \A a \in Asks : IsFiniteSet(history[a])

GroundedInv == RefusedUnasked /\ HistoryIsFinite

LEMMA InitIsGrounded == Init => GroundedInv
BY FS_EmptySet DEF Init, GroundedInv, RefusedUnasked, HistoryIsFinite

LEMMA StepKeepsHistoryFinite ==
    ASSUME IInv, HistoryIsFinite, [Next]_vars
    PROVE  HistoryIsFinite'
<1>1. ASSUME NEW a \in Asks, ReadHistory(a)
      PROVE  HistoryIsFinite'
    <2>1. PICK window \in LastOf(MessagesOf(about[a]), MaxHistory) :
             history' = [history EXCEPT ![a] = window]
        BY <1>1 DEF ReadHistory
    <2>2. window \subseteq messages
        BY DEF LastOf, MessagesOf
    <2>3. IsFiniteSet(window)
        BY <2>2, FS_Subset DEF IInv
    <2> QED
        BY <2>1, <2>3 DEF HistoryIsFinite, IInv, TypeOK
<1>2. ASSUME UNCHANGED history
      PROVE  HistoryIsFinite'
    BY <1>2 DEF HistoryIsFinite
<1> QED
    BY <1>1, <1>2
       DEF Next, Arrives, AskStep, AnswerStep, DeleteStep, ResolveConversation, ChooseOrdinal,
           FlushQuestion, CommitQuestion, Retrieve, RetrieveFails, ReceiveLine, ResponseCloses,
           ModelUnavailable, InsertAnswer, SaveAnswer, SaveFails, PoolTimesOut, Abandon,
           BeginDelete, CommitDelete, DeleteFails, questionVars, vars

LEMMA StepKeepsRefusals ==
    ASSUME IInv, RefusedUnasked, [Next]_vars
    PROVE  RefusedUnasked'
<1> USE DEF RefusedUnasked, Goes, answerVars
<1>0. TypeOK /\ StreamsHaveSources
    BY DEF IInv
<1>1. ASSUME NEW a \in Asks, Arrives(a) \/ AskStep(a)
      PROVE  RefusedUnasked'
    BY <1>0, <1>1 DEF TypeOK, Arrives, AskStep, ResolveConversation, ReadHistory, ChooseOrdinal,
           FlushQuestion, CommitQuestion
<1>2. ASSUME NEW a \in Asks, Retrieve(a)
      PROVE  RefusedUnasked'
    BY <1>0, <1>2 DEF TypeOK, Retrieve
<1>3. ASSUME NEW a \in Asks, ReceiveLine(a)
      PROVE  RefusedUnasked'
    <2>1. /\ ask[a] = "streaming" /\ sources[a] # 0 /\ sources' = sources
          /\ \A b \in Asks \ {a} : ask'[b] = ask[b] /\ model'[b] = model[b]
        BY <1>0, <1>3 DEF TypeOK, ReceiveLine, StreamsHaveSources
    <2> QED
        BY <2>1
<1>4. ASSUME NEW a \in Asks, ResponseCloses(a)
      PROVE  RefusedUnasked'
    BY <1>0, <1>4 DEF TypeOK, ResponseCloses, StreamsHaveSources
<1>5. ASSUME NEW a \in Asks,
             \/ RetrieveFails(a) \/ ModelUnavailable(a) \/ InsertAnswer(a)
             \/ SaveAnswer(a) \/ SaveFails(a) \/ PoolTimesOut(a) \/ Abandon(a)
      PROVE  RefusedUnasked'
    BY <1>0, <1>5 DEF TypeOK, RetrieveFails, ModelUnavailable, InsertAnswer, SaveAnswer,
           SaveFails, PoolTimesOut, Abandon
<1>6. ASSUME NEW c \in Asks, DeleteStep(c)
      PROVE  RefusedUnasked'
    BY <1>6 DEF DeleteStep, BeginDelete, CommitDelete, DeleteFails
<1>7. ASSUME UNCHANGED vars
      PROVE  RefusedUnasked'
    BY <1>7 DEF vars
<1> QED
    BY <1>1, <1>2, <1>3, <1>4, <1>5, <1>6, <1>7 DEF Next, AnswerStep

\* A citation kept is one of the sources, and there is one when there are
\* sources.
LEMMA CitationsAreSources ==
    ASSUME TypeOK, NEW a \in Asks
    PROVE  /\ Citations(a) \subseteq Numbers(a)
           /\ sources[a] = 0 => Citations(a) = {}
           /\ sources[a] # 0 => Citations(a) # {}
<1>1. sources[a] \in Nat
    BY ChatAssumption DEF TypeOK
<1>2. Citations(a) \subseteq Numbers(a)
    BY DEF Citations
<1>3. sources[a] = 0 => Numbers(a) = {}
    BY DEF Numbers
<1>4. sources[a] # 0 => 1 \in {n \in Numbers(a) : n <= 3}
    BY <1>1 DEF Numbers
<1> QED
    BY <1>2, <1>3, <1>4 DEF Citations

\* Every answer is the refusal, given without the model, or rests on sources:
\* it keeps some of those it was given, and the model, whichever vendor's, was
\* told the rules once and the sources last, whatever history was replayed.
THEOREM AnswersRestOnSources == Spec => []AnswersAreGrounded
<1>1. IInv /\ GroundedInv /\ [Next]_vars => GroundedInv'
    BY StepKeepsHistoryFinite, StepKeepsRefusals DEF GroundedInv
<1>2. ASSUME IInv, GroundedInv PROVE AnswersAreGrounded
    <2> SUFFICES ASSUME NEW a \in Asks, ask[a] \in {"complete", "inserted", "done"}
                 PROVE  IF sources[a] = 0
                        THEN model[a] = "not_asked" /\ Citations(a) = {}
                        ELSE /\ Citations(a) # {}
                             /\ Citations(a) \subseteq Numbers(a)
                             /\ \A turns \in Replays(a) :
                                   LET request == RequestOf(vendor, Prompt(turns))
                                   IN RulesIn(request) = 1
                                      /\ Last(request.messages).says = "sources"
        BY DEF AnswersAreGrounded
    <2>1. TypeOK /\ vendor \in Vendors
        BY <1>2 DEF IInv, TypeOK
    <2>2. sources[a] = 0 => model[a] = "not_asked"
        BY <1>2 DEF GroundedInv, RefusedUnasked
    <2>3. IsFiniteSet(history[a])
        BY <1>2 DEF GroundedInv, HistoryIsFinite
    <2>4. ASSUME NEW turns \in Replays(a)
          PROVE  LET request == RequestOf(vendor, Prompt(turns))
                 IN RulesIn(request) = 1 /\ Last(request.messages).says = "sources"
        <3>1. turns \in Seq(Turn)
            BY <2>1, <2>3, ReplaysAreTurns
        <3> QED
            BY <2>1, <3>1, RequestsCarryTheRules, Zenon
    <2> QED
        BY <2>1, <2>2, <2>4, CitationsAreSources, Zenon
<1>3. IInv /\ GroundedInv => AnswersAreGrounded
    BY <1>2
<1> QED
    BY <1>1, <1>3, InitIsGrounded, InvariantHolds, PTL DEF Spec

=============================================================================
