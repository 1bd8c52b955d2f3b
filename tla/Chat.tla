-------------------------------- MODULE Chat --------------------------------
(***************************************************************************)
(* Questions and the answers streamed to them.  A question is committed    *)
(* before the stream begins; the answer is saved by a second transaction   *)
(* once the model has ended, while the request's own session still holds   *)
(* the connection that retrieval took.  A conversation is known by the     *)
(* question that started it.                                               *)
(***************************************************************************)
EXTENDS LanguageModels, FiniteSets, FiniteSetsExt

CONSTANTS
    Asks,           \* questions that may be asked
    Users,
    Askers,         \* who may ask which question
    Configured,     \* the vendors a deployment may have chosen from
    MaxSources,     \* passages given to the model, when there are any
    MaxHistory,     \* earlier messages replayed to the model
    PoolSizes,      \* sizes of the connection pool
    NoConversation

ASSUME ChatAssumption ==
    /\ Askers \subseteq [Asks -> Users]
    /\ Configured \subseteq Vendors
    /\ {MaxSources, MaxHistory} \subseteq Nat
    /\ PoolSizes \subseteq Nat \ {0}
    /\ NoConversation \notin Asks

VARIABLES
    live,       \* conversations whose row is committed
    count,      \* the message_count of each
    messages,   \* committed message rows
    deleting,   \* conversations deleted by a request that has not committed
    vendor,     \* the configured model
    pool,       \* the configured number of connections
    asker,      \* who asks each question
    ask,        \* how far each question has come
    about,      \* the conversation it belongs to
    counted,    \* the message_count its transaction has read
    history,    \* the messages it replays to the model
    ordinal,    \* the place it takes in the conversation
    sources,    \* how many passages retrieval found for it
    cited,      \* the numbers cited in the text that has arrived
    model,      \* whether the model was asked, and whether it failed
    rivals      \* the questions of its conversation under way when it arrived

dbVars == <<live, count, messages, deleting>>
fixedVars == <<vendor, pool, asker>>
questionVars == <<about, counted, history, ordinal, rivals>>
answerVars == <<sources, cited, model>>
vars == <<dbVars, fixedVars, ask, questionVars, answerVars>>

Asking == {"found", "read", "numbered", "flushed"}
Answering == {"committed", "streaming", "complete", "inserted"}
Ended == {"done", "error", "gone", "missing", "failed"}
UnderWay(a) == ask[a] \in Asking \union Answering

Message == [conversation : Asks, ordinal : Nat, role : {"user", "assistant"}, ask : Asks]
MessagesOf(c) == {m \in messages : m.conversation = c}

\* The first question of a conversation creates it.
Starts(a) == about[a] = a

Init ==
    /\ live = {}
    /\ count = [c \in Asks |-> 0]
    /\ messages = {}
    /\ deleting = {}
    /\ vendor \in Configured
    /\ pool \in PoolSizes
    /\ asker \in Askers
    /\ ask = [a \in Asks |-> "idle"]
    /\ about = [a \in Asks |-> NoConversation]
    /\ counted = [a \in Asks |-> 0]
    /\ history = [a \in Asks |-> {}]
    /\ ordinal = [a \in Asks |-> 0]
    /\ sources = [a \in Asks |-> 0]
    /\ cited = [a \in Asks |-> {}]
    /\ model = [a \in Asks |-> "not_asked"]
    /\ rivals = [a \in Asks |-> {}]

Goes(a, from, to) ==
    /\ ask[a] = from
    /\ ask' = [ask EXCEPT ![a] = to]

-----------------------------------------------------------------------------
(* Connections.  The request's session gives its connection back at the    *)
(* commit of the question and takes one again for retrieval, which it      *)
(* keeps until the response has ended.  Saving the answer takes a second.  *)

InUse ==
    Cardinality({a \in Asks : ask[a] \in Asking \union {"streaming", "complete", "inserted"}})
      + Cardinality({a \in Asks : ask[a] = "inserted"})
      + Cardinality(deleting)

ConnectionFree == InUse < pool

\* The wait has no end.
WaitForConnection(a) == FALSE /\ UNCHANGED vars

\* A wait for a connection times out and is reported as an error event.
PoolTimesOut(a) ==
    /\ ~ConnectionFree
    /\ Goes(a, "committed", "error") \/ Goes(a, "complete", "error")
    /\ UNCHANGED <<dbVars, fixedVars, questionVars, answerVars>>

-----------------------------------------------------------------------------
(* The question                                                            *)

\* Conversations a client may name: the id travels in the first event.
Known(c) == ask[c] \in Answering \union {"done", "error", "gone"}

\* get_for_owner, or a conversation of its own.
ResolveConversation(a, c) ==
    /\ c = a \/ Known(c)
    /\ ConnectionFree
    /\ Goes(a, "idle",
            IF c = a \/ (c \in live /\ asker[c] = asker[a]) THEN "found" ELSE "missing")
    /\ about' = [about EXCEPT ![a] = c]
    /\ counted' = [counted EXCEPT ![a] = count[c]]
    /\ rivals' = [rivals EXCEPT ![a] = {b \in Asks : about[b] = c /\ UnderWay(b)}]
    /\ UNCHANGED <<dbVars, fixedVars, history, ordinal, answerVars>>

\* The last messages of a set, whichever of those that share a place.
LastOf(set, n) ==
    {w \in SUBSET set :
        /\ Cardinality(w) = IF Cardinality(set) < n THEN Cardinality(set) ELSE n
        /\ \A m \in w, k \in set \ w : k.ordinal <= m.ordinal}

ReadHistory(a) ==
    /\ Goes(a, "found", "read")
    /\ \E window \in LastOf(MessagesOf(about[a]), MaxHistory) :
          history' = [history EXCEPT ![a] = window]
    /\ UNCHANGED <<dbVars, fixedVars, about, counted, ordinal, rivals, answerVars>>

\* The place after the last question, which its answer has taken.
ChooseOrdinalAfterQuestion(a) ==
    LET taken == {m.ordinal : m \in {k \in MessagesOf(about[a]) : k.role = "user"}}
    IN /\ Goes(a, "read", "numbered")
       /\ ordinal' = [ordinal EXCEPT ![a] = IF taken = {} THEN 0 ELSE Max(taken) + 1]
       /\ UNCHANGED <<dbVars, fixedVars, about, counted, history, rivals, answerVars>>

\* next_ordinal: nothing reserves the place it returns.
ChooseOrdinal(a) ==
    LET taken == {m.ordinal : m \in MessagesOf(about[a])}
    IN /\ Goes(a, "read", "numbered")
       /\ ordinal' = [ordinal EXCEPT ![a] = IF taken = {} THEN 0 ELSE Max(taken) + 1]
       /\ UNCHANGED <<dbVars, fixedVars, about, counted, history, rivals, answerVars>>

\* The row of an existing conversation is updated first and stays locked.
Locked(c) == c \in deleting \/ \E b \in Asks : about[b] = c /\ ask[b] = "flushed"

FlushQuestion(a) ==
    /\ Starts(a) \/ ~Locked(about[a])
    /\ Goes(a, "numbered", IF Starts(a) \/ about[a] \in live THEN "flushed" ELSE "failed")
    /\ UNCHANGED <<dbVars, fixedVars, questionVars, answerVars>>

Question(a) ==
    [conversation |-> about[a], ordinal |-> ordinal[a], role |-> "user", ask |-> a]
Answer(a) ==
    [conversation |-> about[a], ordinal |-> ordinal[a] + 1, role |-> "assistant", ask |-> a]

\* Only the question is counted.
CommitQuestionCountsOne(a) ==
    /\ Goes(a, "flushed", "committed")
    /\ live' = live \union {about[a]}
    /\ count' = [count EXCEPT ![about[a]] = counted[a] + 1]
    /\ messages' = messages \union {Question(a)}
    /\ UNCHANGED <<deleting, fixedVars, questionVars, answerVars>>

\* The history is listed once the question is stored.
CommitQuestionThenList(a) ==
    /\ Goes(a, "flushed", "committed")
    /\ live' = live \union {about[a]}
    /\ count' = [count EXCEPT ![about[a]] = counted[a] + 2]
    /\ messages' = messages \union {Question(a)}
    /\ history' = [history EXCEPT ![a] = @ \union {Question(a)}]
    /\ UNCHANGED <<deleting, fixedVars, about, counted, ordinal, rivals, answerVars>>

\* message_count is set to the value read earlier and two more: the question
\* and the answer it expects.
CommitQuestion(a) ==
    /\ Goes(a, "flushed", "committed")
    /\ live' = live \union {about[a]}
    /\ count' = [count EXCEPT ![about[a]] = counted[a] + 2]
    /\ messages' = messages \union {Question(a)}
    /\ UNCHANGED <<deleting, fixedVars, questionVars, answerVars>>

-----------------------------------------------------------------------------
(* The answer                                                              *)

\* A refusal goes out without a word to the model, when nothing was found.
Retrieve(a) ==
    /\ ConnectionFree
    /\ \E n \in {0, MaxSources} :
          /\ Goes(a, "committed", IF n = 0 THEN "complete" ELSE "streaming")
          /\ sources' = [sources EXCEPT ![a] = n]
          /\ model' = [model EXCEPT ![a] = IF n = 0 THEN "not_asked" ELSE "asked"]
    /\ UNCHANGED <<dbVars, fixedVars, questionVars, cited>>

RetrieveFails(a) ==
    /\ Goes(a, "committed", "error")
    /\ UNCHANGED <<dbVars, fixedVars, questionVars, answerVars>>

Numbers(a) == 1..sources[a]

\* Any number in the text, whether a source has it or not.
KeptAnyNumber(a) ==
    IF cited[a] # {} THEN cited[a] ELSE {n \in Numbers(a) : n <= 3}

\* What is kept with the answer: the sources that its text refers to, or the
\* first three.
Citations(a) ==
    LET referenced == cited[a] \intersect Numbers(a)
    IN IF referenced # {} THEN referenced ELSE {n \in Numbers(a) : n <= 3}

\* Text cites a source, a number that no source has, or nothing.
MayCite == {{}, {MaxSources}, {MaxSources + 1}}

\* The lines arrive until one ends the stream; the text accumulates.
ReceiveLine(a) ==
    /\ ask[a] = "streaming"
    /\ \E line \in LinesOf(vendor), numbers \in MayCite :
          LET chunks == ParseLine(vendor, line)
          IN /\ Carries(line).text \/ numbers = {}
             /\ cited' = [cited EXCEPT ![a] = @ \union
                    IF chunks # <<>> /\ Head(chunks).text THEN numbers ELSE {}]
             /\ ask' = [ask EXCEPT ![a] =
                    IF chunks # <<>> /\ Head(chunks).done THEN "complete" ELSE @]
             /\ model' = [model EXCEPT ![a] = IF line = "error" THEN "failed" ELSE @]
    /\ UNCHANGED <<dbVars, fixedVars, questionVars, sources>>

\* The response closes without an end marker: taken for its end.
ResponseCloses(a) ==
    /\ Goes(a, "streaming", "complete")
    /\ UNCHANGED <<dbVars, fixedVars, questionVars, answerVars>>

\* A status of 400 or more, or a transport error or timeout at any time.
ModelUnavailable(a) ==
    /\ Goes(a, "streaming", "error")
    /\ UNCHANGED <<dbVars, fixedVars, questionVars, answerVars>>

\* The foreign key holds the conversation's row until the commit, and fails
\* when the conversation is gone.
InsertAnswer(a) ==
    /\ ConnectionFree
    /\ about[a] \notin deleting
    /\ Goes(a, "complete", IF about[a] \in live THEN "inserted" ELSE "error")
    /\ UNCHANGED <<dbVars, fixedVars, questionVars, answerVars>>

\* `done` goes out before the commit.
AnnounceAnswer(a) ==
    /\ ~Locked(about[a])
    /\ Goes(a, "inserted", "done")
    /\ UNCHANGED <<dbVars, fixedVars, questionVars, answerVars>>

\* updated_at of the conversation is written with it.
SaveAnswer(a) ==
    /\ ~Locked(about[a])
    /\ Goes(a, "inserted", "done")
    /\ messages' = messages \union {Answer(a)}
    /\ UNCHANGED <<live, count, deleting, fixedVars, questionVars, answerVars>>

SaveFails(a) ==
    /\ Goes(a, "inserted", "error")
    /\ UNCHANGED <<dbVars, fixedVars, questionVars, answerVars>>

\* The client closes the connection, or the process dies: the generator is
\* cancelled where it stands and its transaction rolls back.
Abandon(a) ==
    /\ \E from \in Answering : Goes(a, from, "gone")
    /\ UNCHANGED <<dbVars, fixedVars, questionVars, answerVars>>

-----------------------------------------------------------------------------
(* Deleting a conversation                                                 *)

\* A delete that does not wait for an answer that is being saved.
DeleteUnderAnswer(c) ==
    /\ c \in live
    /\ ~Locked(c)
    /\ ConnectionFree
    /\ deleting' = deleting \union {c}
    /\ UNCHANGED <<live, count, messages, fixedVars, ask, questionVars, answerVars>>

BeginDelete(c) ==
    /\ c \in live
    /\ ~Locked(c)
    /\ ~ \E b \in Asks : about[b] = c /\ ask[b] = "inserted"
    /\ ConnectionFree
    /\ deleting' = deleting \union {c}
    /\ UNCHANGED <<live, count, messages, fixedVars, ask, questionVars, answerVars>>

\* The messages go with the row, those committed since the DELETE included.
CommitDelete(c) ==
    /\ c \in deleting
    /\ deleting' = deleting \ {c}
    /\ live' = live \ {c}
    /\ messages' = messages \ MessagesOf(c)
    /\ UNCHANGED <<count, fixedVars, ask, questionVars, answerVars>>

DeleteFails(c) ==
    /\ c \in deleting
    /\ deleting' = deleting \ {c}
    /\ UNCHANGED <<live, count, messages, fixedVars, ask, questionVars, answerVars>>

-----------------------------------------------------------------------------

Arrives(a) == \E c \in Asks : ResolveConversation(a, c)

AskStep(a) ==
    \/ ReadHistory(a)
    \/ ChooseOrdinal(a)
    \/ FlushQuestion(a)
    \/ CommitQuestion(a)

AnswerStep(a) ==
    \/ Retrieve(a)
    \/ RetrieveFails(a)
    \/ ReceiveLine(a)
    \/ ResponseCloses(a)
    \/ ModelUnavailable(a)
    \/ InsertAnswer(a)
    \/ SaveAnswer(a)
    \/ SaveFails(a)
    \/ PoolTimesOut(a)

DeleteStep(c) == BeginDelete(c) \/ CommitDelete(c) \/ DeleteFails(c)

Next ==
    \/ \E a \in Asks : Arrives(a) \/ AskStep(a) \/ AnswerStep(a) \/ Abandon(a)
    \/ \E c \in Asks : DeleteStep(c)

Spec == Init /\ [][Next]_vars

\* The server runs what it has started.  A model that falls silent runs into
\* the read timeout, so a stream that is open ends or is given up.  Those who
\* wait for a row lock or for a connection are served in their turn, so that
\* deletions that come and fail again and again cannot keep an answer waiting.
Fairness ==
    /\ \A a \in Asks : WF_vars(AskStep(a)) /\ SF_vars(AnswerStep(a))
    /\ \A c \in Asks : WF_vars(CommitDelete(c) \/ DeleteFails(c))

FairSpec == Spec /\ Fairness

-----------------------------------------------------------------------------
(* Properties                                                              *)

TypeOK ==
    /\ live \subseteq Asks /\ deleting \subseteq live
    /\ count \in [Asks -> Nat]
    /\ messages \subseteq Message
    /\ vendor \in Vendors /\ pool \in PoolSizes /\ asker \in Askers
    /\ ask \in [Asks -> {"idle"} \union Asking \union Answering \union Ended]
    /\ about \in [Asks -> Asks \union {NoConversation}]
    /\ counted \in [Asks -> Nat] /\ ordinal \in [Asks -> Nat]
    /\ history \in [Asks -> SUBSET Message]
    /\ sources \in [Asks -> {0, MaxSources}]
    /\ cited \in [Asks -> SUBSET (1..MaxSources + 1)]
    /\ model \in [Asks -> {"not_asked", "asked", "failed"}]
    /\ rivals \in [Asks -> SUBSET Asks]

\* Two questions of one conversation were under way at once.
Overlap(a, b) == a \in rivals[b] \/ b \in rivals[a]

\* Two messages of a conversation share a place in it only when they belong
\* to questions that were under way together: `next_ordinal` reserves
\* nothing and the index on the column is not unique.
PlacesAreDistinct ==
    \A m, k \in messages :
        m # k /\ m.conversation = k.conversation /\ m.ordinal = k.ordinal
          => Overlap(m.ask, k.ask)

\* The turns replayed to the model all come before the question in its
\* conversation, whatever is committed between the read and the numbering.
HistoryComesFirst ==
    \A a \in Asks : ask[a] \in {"flushed"} \union Answering =>
        \A m \in history[a] : m.ordinal < ordinal[a] /\ m.ask # a

\* message_count, which every question raises by two in advance, is what the
\* comment beside it says ("the question and its answer") as long as questions
\* of a conversation do not overlap; it is never below what is stored.
CountMatches ==
    \A c \in live :
        (\A m, k \in MessagesOf(c) : ~Overlap(m.ask, k.ask)) =>
            /\ count[c] = 2 * Cardinality({m \in MessagesOf(c) : m.role = "user"})
            /\ Cardinality(MessagesOf(c)) <= count[c]

\* The last event tells the truth: after `done` a reload shows the answer,
\* until the conversation is deleted, and after `error` it shows none.
LastEventIsTrue ==
    \A a \in Asks :
        /\ ask[a] = "done" => Answer(a) \in messages \/ about[a] \notin live
        /\ ask[a] = "error" => Answer(a) \notin messages

\* A message lives in a conversation of the user who asked, and dies with it,
\* even when the conversation is deleted while the answer is being written.
MessagesBelong ==
    \A m \in messages :
        m.conversation \in live /\ asker[m.ask] = asker[m.conversation]

\* What an answer rests on: it is the refusal and the model was not asked, or
\* it carries sources it was given, the rules reached the model once, and the
\* sources last, whatever was replayed before them.  Turns are replayed in the
\* order of their places; the database decides between those that share one.
InPlace(order) == \A i, j \in DOMAIN order : i < j => order[i].ordinal <= order[j].ordinal

Replays(a) ==
    {[i \in DOMAIN order |-> [role |-> order[i].role, says |-> order[i].ask]] :
        order \in {o \in SetToSeqs(history[a]) : InPlace(o)}}

RulesIn(request) ==
    Len(request.system)
      + Cardinality({i \in DOMAIN request.messages : request.messages[i].role = "system"})

AnswersAreGrounded ==
    \A a \in Asks : ask[a] \in {"complete", "inserted", "done"} =>
        IF sources[a] = 0
        THEN model[a] = "not_asked" /\ Citations(a) = {}
        ELSE /\ Citations(a) # {}
             /\ Citations(a) \subseteq Numbers(a)
             /\ \A turns \in Replays(a) :
                   LET request == RequestOf(vendor, Prompt(turns))
                   IN RulesIn(request) = 1 /\ Last(request.messages).says = "sources"

\* Every question that was accepted ends: with an answer, with an error event
\* or because the client left, however many wait for a connection.
QuestionsEnd ==
    \A a \in Asks : ask[a] = "committed" ~> ask[a] \in {"done", "error", "gone"}

\* A model that fails while it answers shows as an error event (the route's
\* documentation: `error` "if the model fails mid-stream").
ModelFailureIsReported ==
    \A a \in Asks : model[a] = "failed" => ask[a] # "done"

=============================================================================
