--------------------------- MODULE ChunkingProofs ---------------------------
(***************************************************************************)
(* Nothing is lost between a file and its chunks, every citation is true   *)
(* of the text under it, and chunks fit and are in order: for every file,  *)
(* window and overlap.                                                     *)
(***************************************************************************)
EXTENDS Chunking, Maxima

-----------------------------------------------------------------------------
(* The inductive invariant                                                 *)

\* What CitationsAreTrue says of a unit whose letters are in a chunk.
Cites(page, section, u) ==
    /\ page \in {None, file[u].page}
    /\ \/ section = TitleAbove(u)
       \/ format = "docx" /\ file[u].is = "row"
       \/ format = "html" /\ file[u].is = "loose"
       \/ format = "csv" /\ u = 1

\* The symbols that may stand under a page and a section.
True_(page, section) ==
    {s \in Nat \X Nat : s \in Letters_ => Cites(page, section, s[1])}

\* A section is a unit of the file, or a sheet, or none.
Sections == {title \in Int : title <= None \/ title \in DOMAIN file}

TrueBlock ==
    {block \in [text : Seq(Nat \X Nat), page : Nat, section : Sections] :
        block.text \in Seq(True_(block.page, block.section))}

TrueChunk ==
    {chunk \in [text : Seq(Nat \X Nat), page : Nat, section : Sections, ordinal : Nat,
                titled : BOOLEAN] :
        /\ chunk.text \in Seq(True_(chunk.page, chunk.section))
        /\ chunk.titled => chunk.section # None}

FileInv ==
    /\ format \in DOMAIN Uploaded /\ file \in Uploaded[format]
    /\ stage \in {"file", "blocks", "splitting", "done", "unreadable", "crashed"}
    /\ warned \in BOOLEAN

\* What is pending is all of one page and one section, and fits.
PendingInv ==
    /\ blocks \in Seq(TrueBlock) /\ pending \in Seq(TrueBlock) /\ length \in Nat
    /\ \A n \in DOMAIN pending : /\ pending[n].page = pending[1].page
                                 /\ pending[n].section = pending[1].section
    /\ IF pending = <<>> THEN length = 0
       ELSE Len(Join(pending)) + 2 = length /\ length <= ChunkSize + 2

\* What is being split is of the block it comes from.
SplitInv ==
    /\ origin \in TrueBlock
    /\ work \in Seq([text : Seq(True_(origin.page, origin.section)), depth : Nat])
    /\ pieces \in Seq({piece \in Seq(True_(origin.page, origin.section)) :
                         Len(piece) <= ChunkSize})

ChunksInv ==
    /\ chunks \in Seq(TrueChunk) /\ dropped \in Seq(TrueChunk)
    /\ \A n \in DOMAIN chunks : Len(chunks[n].text) <= ChunkSize + Overlap
    /\ \A m, n \in DOMAIN chunks : m < n => chunks[m].ordinal < chunks[n].ordinal
    /\ stage # "done" => /\ dropped = <<>>
                         /\ \A n \in DOMAIN chunks : chunks[n].ordinal = n - 1

StageInv ==
    /\ stage \in {"file", "blocks", "done"} => work = <<>> /\ pieces = <<>>
    /\ stage = "done" => blocks = <<>> /\ pending = <<>>

InTexts(texts) == UNION {ToSet(texts[n]) : n \in DOMAIN texts}
InHand ==
    UNION {SymbolsIn(blocks), SymbolsIn(pending), SymbolsIn(work), InTexts(pieces),
           SymbolsIn(chunks), SymbolsIn(dropped)}

\* Every letter of the file is somewhere, or was left out.
LettersInv ==
    stage \in {"blocks", "splitting", "done"} =>
        \A s \in Letters_ : s \in InHand \/ LeftOut(s)

ChunkingInv ==
    FileInv /\ PendingInv /\ SplitInv /\ ChunksInv /\ StageInv /\ LettersInv

-----------------------------------------------------------------------------
(* Sequences, one after the other                                          *)

LEMMA EmptyIsASequence ==
    ASSUME NEW S
    PROVE  <<>> \in Seq(S) /\ Len(<<>>) = 0
OBVIOUS

LEMMA Concatenation ==
    ASSUME NEW S, NEW s \in Seq(S), NEW t \in Seq(S)
    PROVE  /\ s \o t \in Seq(S) /\ Len(s \o t) = Len(s) + Len(t)
           /\ \A i \in 1..Len(s) + Len(t) :
                 (s \o t)[i] = IF i <= Len(s) THEN s[i] ELSE t[i - Len(s)]
OBVIOUS

LEMMA ConcatenationWithNothing ==
    ASSUME NEW S, NEW s \in Seq(S)
    PROVE  <<>> \o s = s /\ s \o <<>> = s
OBVIOUS

\* The library's recursive function is a loop.
LEMMA FlattenIsALoop ==
    ASSUME NEW S, NEW seqs \in Seq(Seq(S))
    PROVE  \E g \in [0..Len(seqs) -> Seq(S)] :
              /\ g[0] = <<>>
              /\ \A m \in 1..Len(seqs) : g[m] = g[m - 1] \o seqs[m]
              /\ FlattenSeq(seqs) = g[Len(seqs)]
<1> DEFINE n == Len(seqs)
           flatten == CHOOSE f : f = [i \in 1..n |-> IF i = 1 THEN seqs[i] ELSE f[i - 1] \o seqs[i]]
<1>1. n \in Nat /\ DOMAIN seqs = 1..n /\ \A m \in 1..n : seqs[m] \in Seq(S)
    OBVIOUS
<1>2. \E h \in [0..n -> Seq(S)] : h[0] = <<>> /\ \A m \in 1..n : h[m] = h[m - 1] \o seqs[m]
    <2> DEFINE step == [m \in 1..n |-> [s \in Seq(S) |-> s \o seqs[m]]]
               R == Seq(S)
               none == <<>>
    <2>1. \A m \in 1..n : \A s \in Seq(S) : s \o seqs[m] \in Seq(S)
        BY <1>1
    <2>2. Stays(step, R, n) /\ none \in R
        BY <2>1 DEF Stays
    <2>3. \A m \in 1..n : \A s \in Seq(S) : step[m][s] = s \o seqs[m]
        OBVIOUS
    <2> HIDE DEF step, n, R, none
    <2>4. \E g : IsFoldOf(g, none, step, R, n)
        BY <1>1, <2>2, FoldExists
    <2>5. PICK g \in [SUBSET (1..n) -> R] :
             \A s \in SUBSET (1..n) : g[s] = StepOfFold(none, step, g, s)
        BY <2>4 DEF IsFoldOf
    <2> DEFINE h == [m \in 0..n |-> g[1..m]]
    <2>6. h \in [0..n -> R]
        <3>1. \A m \in 0..n : 1..m \in SUBSET (1..n)
            BY <1>1
        <3> QED
            BY <2>5, <3>1
    <2>7. h[0] = none
        <3>1. 0 \in 0..n /\ 1..0 = {} /\ {} \in SUBSET (1..n)
            BY <1>1
        <3>2. h[0] = g[{}]
            BY <3>1
        <3> QED
            BY <2>5, <3>1, <3>2, Zenon DEF StepOfFold
    <2>8. ASSUME NEW m \in 1..n PROVE h[m] = h[m - 1] \o seqs[m]
        <3>1. m \in Nat /\ m # 0 /\ m \in 0..n /\ m - 1 \in 0..n /\ 1..m \in SUBSET (1..n)
            BY <1>1
        <3>2. 1..m # {} /\ Max(1..m) = m /\ (1..m) \ {m} = 1..m - 1
            BY <3>1, MaxOfInterval, IntervalWithoutEnd
        <3>3. g[1..m] = step[m][g[1..m - 1]]
            BY <2>5, <3>1, <3>2, Zenon DEF StepOfFold
        <3>4. h[m] = g[1..m] /\ h[m - 1] = g[1..m - 1] /\ h[m - 1] \in R
            BY <2>6, <3>1
        <3> HIDE DEF h
        <3> QED
            BY <2>3, <3>3, <3>4 DEF R
    <2> HIDE DEF h
    <2>9. h \in [0..n -> Seq(S)] /\ h[0] = <<>>
        BY <2>6, <2>7 DEF R, none
    <2> QED
        BY <2>8, <2>9
<1>3. PICK h \in [0..n -> Seq(S)] : h[0] = <<>> /\ \A m \in 1..n : h[m] = h[m - 1] \o seqs[m]
    BY <1>2
<1>4. \E f : f = [i \in 1..n |-> IF i = 1 THEN seqs[i] ELSE f[i - 1] \o seqs[i]]
    <2> DEFINE f == [i \in 1..n |-> h[i]]
    <2>1. ASSUME NEW i \in 1..n
          PROVE  f[i] = IF i = 1 THEN seqs[i] ELSE f[i - 1] \o seqs[i]
        <3>1. CASE i = 1
            <4>1. i - 1 = 0 /\ h[i] = h[i - 1] \o seqs[i] /\ seqs[i] \in Seq(S)
                BY <1>1, <1>3, <3>1
            <4>2. h[i] = <<>> \o seqs[i]
                BY <1>3, <4>1, Zenon
            <4>3. h[i] = seqs[i]
                BY <4>1, <4>2, ConcatenationWithNothing, Zenon
            <4> QED
                BY <3>1, <4>3
        <3>2. CASE i # 1
            <4>1. i - 1 \in 1..n
                BY <3>2
            <4>2. f[i - 1] = h[i - 1] /\ f[i] = h[i]
                BY <4>1
            <4> HIDE DEF f
            <4> QED
                BY <1>3, <3>2, <4>2
        <3> QED
            BY <3>1, <3>2
    <2>2. f = [i \in 1..n |-> f[i]]
        OBVIOUS
    <2> HIDE DEF f
    <2>3. f = [i \in 1..n |-> IF i = 1 THEN seqs[i] ELSE f[i - 1] \o seqs[i]]
        BY <2>1, <2>2, Zenon
    <2> QED
        BY <2>3, Zenon
<1>5. flatten = [i \in 1..n |-> IF i = 1 THEN seqs[i] ELSE flatten[i - 1] \o seqs[i]]
    BY <1>4, Zenon
<1>6. FlattenSeq(seqs) = IF n = 0 THEN seqs ELSE flatten[n]
    BY Zenon DEF FlattenSeq
<1> HIDE DEF flatten
<1> DEFINE Bad == {i \in 1..n : flatten[i] # h[i]}
<1>7. Bad = {}
    <2> SUFFICES ASSUME Bad # {} PROVE FALSE
        OBVIOUS
    <2>0. Bad \in SUBSET Nat
        OBVIOUS
    <2>1. PICK i \in Bad : \A k \in Nat : k < i => k \notin Bad
        BY <2>0, SetHasLeast, Zenon
    <2>2. i \in 1..n /\ flatten[i] # h[i]
        OBVIOUS
    <2>3. CASE i = 1
        <3>0. i - 1 = 0
            BY <2>3
        <3>1. h[i] = h[i - 1] \o seqs[i] /\ seqs[i] \in Seq(S)
            BY <1>1, <1>3, <2>2, Zenon
        <3>2. h[i] = <<>> \o seqs[i]
            BY <1>3, <3>0, <3>1, Zenon
        <3>3. h[i] = seqs[i]
            BY <3>1, <3>2, ConcatenationWithNothing, Zenon
        <3>4. flatten[i] = seqs[i]
            BY <1>5, <2>2, <2>3
        <3> QED
            BY <2>2, <3>3, <3>4
    <2>4. CASE i # 1
        <3>1. i - 1 \in 1..n /\ i - 1 < i /\ i - 1 \in Nat
            BY <2>2, <2>4
        <3>2. flatten[i - 1] = h[i - 1]
            BY <2>1, <3>1
        <3>3. flatten[i] = flatten[i - 1] \o seqs[i]
            BY <1>5, <2>2, <2>4
        <3> QED
            BY <1>3, <2>2, <3>2, <3>3
    <2> QED
        BY <2>3, <2>4
<1>8. FlattenSeq(seqs) = h[n]
    <2>1. CASE n = 0
        <3>1. seqs = <<>>
            BY <2>1
        <3> QED
            BY <1>3, <1>6, <2>1, <3>1, Zenon
    <2>2. CASE n # 0
        <3>1. n \in 1..n
            BY <1>1, <2>2
        <3>2. flatten[n] = h[n]
            BY <1>7, <3>1
        <3> QED
            BY <1>6, <2>2, <3>2, Zenon
    <2> QED
        BY <2>1, <2>2
<1> QED
    BY <1>3, <1>8

LEMMA ElementsOfConcatenation ==
    ASSUME NEW S, NEW s \in Seq(S), NEW t \in Seq(S)
    PROVE  ToSet(s \o t) = ToSet(s) \union ToSet(t)
<1> DEFINE st == s \o t
<1>1. /\ st \in Seq(S) /\ Len(st) = Len(s) + Len(t)
      /\ \A i \in 1..Len(s) + Len(t) : st[i] = IF i <= Len(s) THEN s[i] ELSE t[i - Len(s)]
    BY Concatenation, Zenon
<1> HIDE DEF st
<1>2. Len(s) \in Nat /\ Len(t) \in Nat
    OBVIOUS
<1>3. /\ DOMAIN s = 1..Len(s) /\ DOMAIN t = 1..Len(t)
      /\ DOMAIN st = 1..Len(s) + Len(t)
    BY <1>1
<1>4. ASSUME NEW i \in DOMAIN st PROVE st[i] \in ToSet(s) \union ToSet(t)
    <2>1. CASE i <= Len(s)
        BY <1>1, <1>2, <1>3, <2>1 DEF ToSet
    <2>2. CASE ~(i <= Len(s))
        <3>1. i - Len(s) \in DOMAIN t
            BY <1>2, <1>3, <2>2
        <3> QED
            BY <1>1, <1>3, <2>2, <3>1 DEF ToSet
    <2> QED
        BY <2>1, <2>2
<1>5. ASSUME NEW i \in DOMAIN s PROVE s[i] \in ToSet(st)
    <2>1. i \in DOMAIN st /\ st[i] = s[i]
        BY <1>1, <1>2, <1>3
    <2> QED
        BY <2>1 DEF ToSet
<1>6. ASSUME NEW i \in DOMAIN t PROVE t[i] \in ToSet(st)
    <2>1. i + Len(s) \in 1..Len(s) + Len(t) /\ ~(i + Len(s) <= Len(s)) /\ (i + Len(s)) - Len(s) = i
        BY <1>2, <1>3
    <2>2. st[i + Len(s)] = t[(i + Len(s)) - Len(s)]
        BY <1>1, <2>1, Zenon
    <2>3. st[i + Len(s)] = t[i]
        BY <2>1, <2>2
    <2> QED
        BY <1>3, <2>1, <2>3 DEF ToSet
<1>7. ToSet(st) = ToSet(s) \union ToSet(t)
    BY <1>4, <1>5, <1>6 DEF ToSet
<1> QED
    BY <1>7 DEF st

LEMMA ElementsOfAppend ==
    ASSUME NEW S, NEW s \in Seq(S), NEW e \in S
    PROVE  /\ Append(s, e) \in Seq(S) /\ Len(Append(s, e)) = Len(s) + 1
           /\ Append(s, e)[Len(s) + 1] = e
           /\ \A i \in 1..Len(s) : Append(s, e)[i] = s[i]
           /\ ToSet(Append(s, e)) = ToSet(s) \union {e}
<1> DEFINE se == Append(s, e)
<1>1. /\ se \in Seq(S) /\ Len(se) = Len(s) + 1 /\ se[Len(s) + 1] = e
      /\ \A i \in 1..Len(s) : se[i] = s[i]
    OBVIOUS
<1> HIDE DEF se
<1>2. DOMAIN se = 1..Len(s) + 1 /\ DOMAIN s = 1..Len(s) /\ Len(s) \in Nat
    BY <1>1
<1> DEFINE last == Len(s) + 1
<1>3. /\ last \in DOMAIN se
      /\ \A i \in DOMAIN s : i \in DOMAIN se
      /\ \A i \in DOMAIN se : i \in DOMAIN s \/ i = last
    BY <1>2
<1>a. se[last] = e /\ \A i \in DOMAIN s : se[i] = s[i]
    BY <1>1, <1>2
<1> HIDE DEF last
<1>4. ToSet(se) = ToSet(s) \union {e}
    <2>1. ASSUME NEW x \in ToSet(se) PROVE x \in ToSet(s) \union {e}
        BY <1>3, <1>a DEF ToSet
    <2>2. ASSUME NEW x \in ToSet(s) PROVE x \in ToSet(se)
        BY <1>3, <1>a DEF ToSet
    <2>3. e \in ToSet(se)
        BY <1>3, <1>a DEF ToSet
    <2> QED
        BY <2>1, <2>2, <2>3
<1> QED
    BY <1>1, <1>4 DEF se

LEMMA ElementsAreOfTheSet ==
    ASSUME NEW S, NEW s \in Seq(S)
    PROVE  /\ ToSet(s) \subseteq S /\ s \in Seq(ToSet(s))
           /\ DOMAIN s = 1..Len(s) /\ Len(s) \in Nat
           /\ \A i \in DOMAIN s : s[i] \in S /\ s[i] \in ToSet(s)
<1>1. DOMAIN s = 1..Len(s) /\ Len(s) \in Nat /\ \A i \in DOMAIN s : s[i] \in S
    OBVIOUS
<1>2. \A i \in DOMAIN s : s[i] \in ToSet(s)
    BY DEF ToSet
<1>3. s \in Seq(ToSet(s))
    BY <1>1, <1>2
<1> QED
    BY <1>1, <1>2, <1>3 DEF ToSet

\* A sequence of elements that are in another set as well is one of that set.
LEMMA SequencesOfMore ==
    ASSUME NEW S, NEW T, NEW s \in Seq(S), ToSet(s) \subseteq T
    PROVE  s \in Seq(T)
<1>1. \A i \in 1..Len(s) : s[i] \in T
    BY ElementsAreOfTheSet
<1> QED
    BY <1>1

\* What is flattened is made of the elements, and holds them all.
LEMMA FlattenStays ==
    ASSUME NEW S, NEW seqs \in Seq(Seq(S))
    PROVE  /\ FlattenSeq(seqs) \in Seq(S)
           /\ \A m \in 1..Len(seqs) : ToSet(seqs[m]) \subseteq ToSet(FlattenSeq(seqs))
<1> DEFINE n == Len(seqs)
<1>1. PICK g \in [0..n -> Seq(S)] :
        /\ g[0] = <<>>
        /\ \A m \in 1..n : g[m] = g[m - 1] \o seqs[m]
        /\ FlattenSeq(seqs) = g[n]
    BY FlattenIsALoop, Zenon
<1>2. n \in Nat /\ \A m \in 1..n : seqs[m] \in Seq(S)
    OBVIOUS
<1> HIDE DEF n
<1>3. ASSUME NEW m \in 1..n
      PROVE  ToSet(g[m]) = ToSet(g[m - 1]) \union ToSet(seqs[m])
    <2>0. m - 1 \in 0..n
        BY <1>2
    <2>1. g[m - 1] \in Seq(S) /\ seqs[m] \in Seq(S)
        BY <1>2, <2>0, Zenon
    <2>2. ToSet(g[m - 1] \o seqs[m]) = ToSet(g[m - 1]) \union ToSet(seqs[m])
        BY <2>1, ElementsOfConcatenation
    <2>3. g[m] = g[m - 1] \o seqs[m]
        BY <1>1, Zenon
    <2> QED
        BY <2>2, <2>3, Zenon
<1> DEFINE Bad(k) == {m \in 0..n : k <= m /\ ~(ToSet(seqs[k]) \subseteq ToSet(g[m]))}
<1>4. ASSUME NEW k \in 1..n PROVE Bad(k) = {}
    <2> SUFFICES ASSUME Bad(k) # {} PROVE FALSE
        OBVIOUS
    <2>0. Bad(k) \in SUBSET Nat
        OBVIOUS
    <2>1. PICK m \in Bad(k) : \A l \in Nat : l < m => l \notin Bad(k)
        BY <2>0, SetHasLeast, Zenon
    <2>a. m \in 0..n /\ k <= m /\ ~(ToSet(seqs[k]) \subseteq ToSet(g[m]))
        OBVIOUS
    <2>b. \A l \in 0..n : l < m /\ k <= l => ToSet(seqs[k]) \subseteq ToSet(g[l])
        BY <2>1
    <2> HIDE DEF Bad
    <2>2. m \in 1..n /\ m - 1 \in 0..n /\ m - 1 < m /\ m - 1 \in Nat /\ k <= m
        BY <1>2, <2>a
    <2>3. CASE m = k
        BY <1>3, <2>2, <2>3, <2>a, Zenon
    <2>4. CASE m # k
        <3>1. k <= m - 1
            BY <1>2, <2>2, <2>4
        <3>2. ToSet(seqs[k]) \subseteq ToSet(g[m - 1])
            BY <2>2, <2>b, <3>1, Zenon
        <3> QED
            BY <1>3, <2>2, <2>a, <3>2, Zenon
    <2> QED
        BY <2>3, <2>4
<1>5. ASSUME NEW k \in 1..n PROVE ToSet(seqs[k]) \subseteq ToSet(FlattenSeq(seqs))
    <2>1. n \in 0..n /\ k <= n
        BY <1>2
    <2> QED
        BY <1>1, <1>4, <2>1
<1>6. FlattenSeq(seqs) \in Seq(S)
    <2>1. n \in 0..n
        BY <1>2
    <2> QED
        BY <1>1, <2>1
<1> QED
    BY <1>5, <1>6 DEF n

LEMMA FlattenOfAppend ==
    ASSUME NEW S, NEW seqs \in Seq(Seq(S)), NEW s \in Seq(S)
    PROVE  FlattenSeq(Append(seqs, s)) = FlattenSeq(seqs) \o s
<1> DEFINE n == Len(seqs)
           more == Append(seqs, s)
<1>1. /\ more \in Seq(Seq(S)) /\ Len(more) = n + 1 /\ more[n + 1] = s /\ n \in Nat
      /\ \A i \in 1..n : more[i] = seqs[i]
    BY ElementsOfAppend
<1>2. PICK g \in [0..n -> Seq(S)] :
        /\ g[0] = <<>>
        /\ \A m \in 1..n : g[m] = g[m - 1] \o seqs[m]
        /\ FlattenSeq(seqs) = g[n]
    BY FlattenIsALoop, Zenon
<1> HIDE DEF n, more
<1>3. PICK h \in [0..n + 1 -> Seq(S)] :
        /\ h[0] = <<>>
        /\ \A m \in 1..n + 1 : h[m] = h[m - 1] \o more[m]
        /\ FlattenSeq(more) = h[n + 1]
    <2>1. \E h \in [0..Len(more) -> Seq(S)] :
            /\ h[0] = <<>>
            /\ \A m \in 1..Len(more) : h[m] = h[m - 1] \o more[m]
            /\ FlattenSeq(more) = h[Len(more)]
        BY <1>1, FlattenIsALoop, Zenon
    <2> QED
        BY <1>1, <2>1
<1> DEFINE Bad == {m \in 0..n : h[m] # g[m]}
<1>4. Bad = {}
    <2> SUFFICES ASSUME Bad # {} PROVE FALSE
        OBVIOUS
    <2>0. Bad \in SUBSET Nat
        OBVIOUS
    <2>1. PICK m \in Bad : \A l \in Nat : l < m => l \notin Bad
        BY <2>0, SetHasLeast, Zenon
    <2>2. m \in 0..n /\ h[m] # g[m]
        OBVIOUS
    <2>3. m # 0
        BY <1>2, <1>3, <2>2
    <2>4. m \in 1..n /\ m \in 1..n + 1 /\ m - 1 \in 0..n /\ m - 1 < m /\ m - 1 \in Nat
        BY <1>1, <2>2, <2>3
    <2>5. h[m - 1] = g[m - 1]
        BY <2>1, <2>4
    <2>6. h[m] = h[m - 1] \o more[m] /\ g[m] = g[m - 1] \o seqs[m] /\ more[m] = seqs[m]
        BY <1>1, <1>2, <1>3, <2>4, Zenon
    <2> QED
        BY <2>2, <2>5, <2>6
<1>5. n \in 0..n /\ n + 1 \in 1..n + 1 /\ (n + 1) - 1 = n
    BY <1>1
<1>6. h[n] = g[n]
    BY <1>4, <1>5
<1>7. h[n + 1] = h[(n + 1) - 1] \o more[n + 1]
    BY <1>3, <1>5, Zenon
<1> QED
    BY <1>1, <1>2, <1>3, <1>5, <1>6, <1>7, Zenon DEF more

LEMMA FlattenOfNothing == FlattenSeq(<<>>) = <<>>
BY DEF FlattenSeq

-----------------------------------------------------------------------------
(* Parts of a text                                                         *)

LEMMA PartOfASequence ==
    ASSUME NEW S, NEW s \in Seq(S), NEW m \in Nat \ {0}, NEW n \in Nat, n <= Len(s)
    PROVE  /\ SubSeq(s, m, n) \in Seq(S)
           /\ Len(SubSeq(s, m, n)) = IF m <= n THEN n - m + 1 ELSE 0
           /\ \A k \in m..n : s[k] \in ToSet(SubSeq(s, m, n))
<1> DEFINE part == SubSeq(s, m, n)
<1>1. /\ part \in Seq(S) /\ Len(part) = IF m <= n THEN n - m + 1 ELSE 0
      /\ \A i \in 1..n - m + 1 : part[i] = s[m + i - 1]
    <2>1. \A i \in m..n : s[i] \in S
        OBVIOUS
    <2> QED
        BY <2>1
<1> HIDE DEF part
<1>2. ASSUME NEW k \in m..n PROVE s[k] \in ToSet(part)
    <2> DEFINE i == k - m + 1
    <2>1. i \in 1..n - m + 1 /\ m + i - 1 = k /\ m <= n
        OBVIOUS
    <2>2. i \in DOMAIN part
        BY <1>1, <2>1
    <2>3. part[i] = s[k]
        BY <1>1, <2>1
    <2> QED
        BY <2>2, <2>3 DEF ToSet
<1> QED
    BY <1>1, <1>2 DEF part

LEMMA Quotient ==
    ASSUME NEW a \in Nat, NEW n \in Nat \ {0}
    PROVE  /\ a \div n \in Nat
           /\ (a \div n) * n <= a /\ a < (a \div n + 1) * n
OBVIOUS

LEMMA LessTimesIsLess ==
    ASSUME NEW p \in Nat, NEW q \in Nat, NEW n \in Nat \ {0}, p * n < q * n
    PROVE  p < q
<1>1. q <= p => q * n <= p * n
    <2> SUFFICES ASSUME q <= p PROVE q * n <= p * n
        OBVIOUS
    <2>1. PICK d \in Nat : p = q + d
        OBVIOUS
    <2>2. p * n = q * n + d * n /\ d * n \in Nat /\ q * n \in Nat
        BY <2>1
    <2> QED
        BY <2>2
<1>2. p * n \in Nat /\ q * n \in Nat
    OBVIOUS
<1> QED
    BY <1>1, <1>2

\* Slices are no longer than they should be and leave nothing out.
LEMMA SlicesKeep ==
    ASSUME NEW S, NEW text \in Seq(S), NEW n \in Nat \ {0}
    PROVE  /\ Slices(text, n) \in Seq({t \in Seq(S) : Len(t) <= n})
           /\ ToSet(text) \subseteq InTexts(Slices(text, n))
<1> DEFINE L == Len(text)
           count == (L + n - 1) \div n
           From(i) == (i - 1) * n + 1
           To(i) == Least(i * n, L)
<1>1. L \in Nat /\ DOMAIN text = 1..L
    OBVIOUS
<1> HIDE DEF L
<1>2. count \in Nat /\ L + n - 1 < (count + 1) * n
    <2>1. L + n - 1 \in Nat
        BY <1>1
    <2> QED
        BY <2>1, Quotient
<1> HIDE DEF count
<1>3. L - 1 < count * n /\ count * n \in Nat
    <2>1. (count + 1) * n = count * n + n /\ count * n \in Nat
        BY <1>2
    <2> QED
        BY <1>1, <1>2, <2>1
<1>4. ASSUME NEW i \in 1..count
      PROVE  /\ From(i) \in Nat \ {0} /\ To(i) \in Nat /\ To(i) <= L
             /\ To(i) - From(i) + 1 <= n
    <2>1. (i - 1) * n \in Nat /\ i * n \in Nat /\ i * n = (i - 1) * n + n
        BY <1>2
    <2> DEFINE p == (i - 1) * n
               q == i * n
    <2>2. p \in Nat /\ q \in Nat /\ q = p + n
        BY <2>1
    <2> HIDE DEF p, q
    <2>3. Least(q, L) \in Nat /\ Least(q, L) <= L /\ Least(q, L) <= q
        BY <1>1, <2>2 DEF Least
    <2>4. p + 1 \in Nat \ {0} /\ Least(q, L) - (p + 1) + 1 <= n
        BY <1>1, <2>2, <2>3
    <2> QED
        BY <2>3, <2>4 DEF p, q
<1> DEFINE Slice(i) == SubSeq(text, From(i), To(i))
<1>5. ASSUME NEW i \in 1..count
      PROVE  /\ Slice(i) \in Seq(S) /\ Len(Slice(i)) <= n
             /\ \A k \in From(i)..To(i) : text[k] \in ToSet(Slice(i))
    <2> HIDE DEF From, To
    <2>0. n \in Nat /\ 0 <= n
        OBVIOUS
    <2>1. From(i) \in Nat \ {0} /\ To(i) \in Nat /\ To(i) <= Len(text) /\ To(i) - From(i) + 1 <= n
        BY <1>4 DEF L
    <2>2. /\ Slice(i) \in Seq(S)
          /\ Len(Slice(i)) = IF From(i) <= To(i) THEN To(i) - From(i) + 1 ELSE 0
          /\ \A k \in From(i)..To(i) : text[k] \in ToSet(Slice(i))
        BY <2>1, PartOfASequence
    <2> HIDE DEF Slice
    <2>3. Len(Slice(i)) <= n
        BY <2>0, <2>1, <2>2
    <2> QED
        BY <2>2, <2>3
<1> DEFINE slices == Slices(text, n)
<1>6. slices = [i \in 1..count |-> Slice(i)]
    BY DEF Slices, count, L
<1> HIDE DEF Slice
<1>7. slices \in Seq({t \in Seq(S) : Len(t) <= n})
    <2>1. \A i \in 1..count : Slice(i) \in {t \in Seq(S) : Len(t) <= n}
        BY <1>5
    <2> DEFINE T == {t \in Seq(S) : Len(t) <= n}
    <2> HIDE DEF T, slices
    <2>2. \A i \in 1..count : Slice(i) \in T
        BY <2>1 DEF T
    <2> QED
        BY <1>2, <1>6, <2>2 DEF T
<1>8. DOMAIN slices = 1..count /\ \A i \in 1..count : slices[i] = Slice(i)
    BY <1>6
<1> HIDE DEF slices
<1>9. ASSUME NEW k \in 1..L PROVE text[k] \in InTexts(slices)
    <2> DEFINE q == (k - 1) \div n
    <2>1. k - 1 \in Nat /\ k \in Nat /\ k - 1 <= L - 1
        BY <1>1
    <2>2. q \in Nat /\ q * n <= k - 1 /\ k - 1 < (q + 1) * n
        BY <2>1, Quotient
    <2> HIDE DEF q
    <2>3. q * n \in Nat /\ (q + 1) * n \in Nat /\ q * n < count * n
        BY <1>1, <1>3, <2>1, <2>2
    <2>4. q < count
        BY <1>2, <2>2, <2>3, LessTimesIsLess
    <2>5. q + 1 \in 1..count /\ (q + 1) - 1 = q
        BY <1>2, <2>2, <2>4
    <2>6. k \in From(q + 1)..To(q + 1)
        <3>1. From(q + 1) = q * n + 1
            BY <2>5
        <3> DEFINE b == (q + 1) * n
        <3>2. b \in Nat /\ k <= b
            BY <2>1, <2>2, <2>3
        <3> HIDE DEF b
        <3>3. Least(b, L) \in Nat /\ k <= Least(b, L)
            BY <1>1, <3>2 DEF Least
        <3>4. To(q + 1) = Least(b, L)
            BY DEF b
        <3> DEFINE a == q * n
        <3>5. a \in Nat /\ a + 1 <= k
            BY <2>1, <2>2, <2>3
        <3> HIDE DEF a
        <3>6. k \in a + 1..Least(b, L)
            BY <2>1, <3>3, <3>5
        <3> QED
            BY <3>1, <3>4, <3>6 DEF a
    <2> HIDE DEF From, To
    <2>7. text[k] \in ToSet(Slice(q + 1))
        BY <1>5, <2>5, <2>6
    <2> QED
        BY <1>8, <2>5, <2>7 DEF InTexts
<1>a. ToSet(text) \subseteq InTexts(slices)
    BY <1>1, <1>9 DEF ToSet
<1> QED
    BY <1>7, <1>a DEF slices

\* Trimming keeps the letters.
LEMMA StripKeeps ==
    ASSUME NEW S, NEW text \in Seq(S), NEW f
    PROVE  /\ Strip(f, text) \in Seq(S) /\ Len(Strip(f, text)) <= Len(text)
           /\ \A s \in ToSet(text) : KindOf(f, s) = "w" => s \in ToSet(Strip(f, text))
<1> DEFINE letters == {k \in DOMAIN text : KindOf(f, text[k]) = "w"}
           first == CHOOSE k \in letters : \A l \in letters : k <= l
           last == CHOOSE k \in letters : \A l \in letters : l <= k
<1>0. Len(text) \in Nat /\ DOMAIN text = 1..Len(text)
    OBVIOUS
<1>1. letters \in SUBSET (1..Len(text))
    BY <1>0
<1>2. Strip(f, text) = IF letters = {} THEN <<>> ELSE SubSeq(text, first, last)
    BY DEF Strip
<1>a. \A k \in DOMAIN text : KindOf(f, text[k]) = "w" => k \in letters
    OBVIOUS
<1>3. CASE letters = {}
    <2>1. \A s \in ToSet(text) : KindOf(f, s) # "w"
        BY <1>3 DEF ToSet
    <2>2. Strip(f, text) = <<>>
        BY <1>2, <1>3
    <2>3. <<>> \in Seq(S) /\ Len(<<>>) <= Len(text)
        BY <1>0
    <2> QED
        BY <2>1, <2>2, <2>3
<1>4. CASE letters # {}
    <2> HIDE DEF letters
    <2>1. letters \in SUBSET Nat
        BY <1>0, <1>1
    <2>2. \E k \in letters : \A l \in letters : k <= l
        <3>1. PICK k \in letters : \A l \in Nat : l < k => l \notin letters
            BY <1>4, <2>1, SetHasLeast
        <3>2. ASSUME NEW l \in letters PROVE k <= l
            BY <2>1, <3>1
        <3> QED
            BY <3>2
    <2>3. \E k \in letters : \A l \in letters : l <= k
        <3>1. Max(letters) \in letters /\ \A l \in letters : l <= Max(letters)
            BY <1>0, <1>1, <1>4, MaxIsBounded
        <3> QED
            BY <3>1
    <2>4. first \in letters /\ last \in letters /\ \A l \in letters : first <= l /\ l <= last
        BY <2>2, <2>3
    <2> HIDE DEF first, last
    <2>5. first \in Nat \ {0} /\ last \in Nat /\ last <= Len(text) /\ first <= last
        BY <1>0, <1>1, <2>4
    <2> DEFINE part == SubSeq(text, first, last)
    <2>6. /\ part \in Seq(S) /\ Len(part) = IF first <= last THEN last - first + 1 ELSE 0
          /\ \A k \in first..last : text[k] \in ToSet(part)
        BY <2>5, PartOfASequence
    <2> HIDE DEF part
    <2>7. Len(part) <= Len(text)
        BY <1>0, <2>5, <2>6
    <2>8. ASSUME NEW s \in ToSet(text), KindOf(f, s) = "w" PROVE s \in ToSet(part)
        <3>1. PICK k \in DOMAIN text : s = text[k]
            BY DEF ToSet
        <3>2. k \in letters
            BY <1>a, <2>8, <3>1
        <3>3. k \in first..last
            BY <1>0, <2>4, <2>5, <3>2
        <3> QED
            BY <2>6, <3>1, <3>3
    <2>9. Strip(f, text) = part
        BY <1>2, <1>4 DEF part
    <2> QED
        BY <2>6, <2>7, <2>8, <2>9
<1> QED
    BY <1>3, <1>4

-----------------------------------------------------------------------------
(* Cutting after some places                                               *)

UpTo(ends, k) == {l \in ends : l <= k}
Below(ends, k) == {l \in ends : l < k}

\* The rank of a place is one more than the places before it.
LEMMA RankOfAPlace ==
    ASSUME NEW L \in Nat, NEW ends \in SUBSET (1..L), NEW k \in Nat
    PROVE  /\ IsFiniteSet(ends) /\ Cardinality(ends) \in Nat
           /\ Cardinality(UpTo(ends, k)) \in Nat /\ Cardinality(Below(ends, k)) \in Nat
           /\ Cardinality(UpTo(ends, k)) <= Cardinality(ends)
           /\ k \in ends => Cardinality(UpTo(ends, k)) = Cardinality(Below(ends, k)) + 1
<1>1. IsFiniteSet(1..L)
    BY FS_Interval
<1>2. IsFiniteSet(ends) /\ Cardinality(ends) \in Nat
    BY <1>1, FS_Subset, FS_CardinalityType
<1>3. UpTo(ends, k) \subseteq ends /\ Below(ends, k) \subseteq ends
    BY DEF UpTo, Below
<1>4. /\ IsFiniteSet(UpTo(ends, k)) /\ IsFiniteSet(Below(ends, k))
      /\ Cardinality(UpTo(ends, k)) <= Cardinality(ends)
    BY <1>2, <1>3, FS_Subset
<1>5. Cardinality(UpTo(ends, k)) \in Nat /\ Cardinality(Below(ends, k)) \in Nat
    BY <1>4, FS_CardinalityType
<1>6. ASSUME k \in ends
      PROVE  Cardinality(UpTo(ends, k)) = Cardinality(Below(ends, k)) + 1
    <2>0. \A l \in ends : l \in Nat
        OBVIOUS
    <2>a. \A l \in Nat : l <= k <=> l < k \/ l = k
        OBVIOUS
    <2>b. ~(k < k)
        OBVIOUS
    <2>1. UpTo(ends, k) = Below(ends, k) \union {k} /\ k \notin Below(ends, k)
        BY <1>6, <2>0, <2>a, <2>b, Zenon DEF UpTo, Below
    <2> QED
        BY <1>4, <2>1, FS_AddElement
<1> QED
    BY <1>2, <1>4, <1>5, <1>6

\* Ranks grow with the places.
LEMMA RanksGrow ==
    ASSUME NEW L \in Nat, NEW ends \in SUBSET (1..L), NEW k \in Nat, NEW l \in Nat
    PROVE  /\ l < k => Cardinality(UpTo(ends, l)) <= Cardinality(Below(ends, k))
           /\ k <= l => Cardinality(Below(ends, k)) <= Cardinality(Below(ends, l))
<1>1. IsFiniteSet(UpTo(ends, l)) /\ IsFiniteSet(Below(ends, k)) /\ IsFiniteSet(Below(ends, l))
    <2>1. IsFiniteSet(1..L)
        BY FS_Interval
    <2>2. /\ UpTo(ends, l) \subseteq 1..L /\ Below(ends, k) \subseteq 1..L
          /\ Below(ends, l) \subseteq 1..L
        BY DEF UpTo, Below
    <2> QED
        BY <2>1, <2>2, FS_Subset
<1>0. \A x \in ends : x \in Nat
    OBVIOUS
<1>a. \A x \in Nat : /\ x <= l /\ l < k => x < k
                    /\ x < k /\ k <= l => x < l
    OBVIOUS
<1>2. ASSUME l < k PROVE UpTo(ends, l) \subseteq Below(ends, k)
    <2>1. \A x \in ends : x <= l => x < k
        BY <1>0, <1>2, <1>a
    <2> QED
        BY <2>1, Zenon DEF UpTo, Below
<1>3. k <= l => Below(ends, k) \subseteq Below(ends, l)
    BY <1>0, <1>a, Zenon DEF Below
<1> QED
    BY <1>1, <1>2, <1>3, FS_Subset

\* There is a place of every rank.
LEMMA EveryRankIsTaken ==
    ASSUME NEW L \in Nat, NEW ends \in SUBSET (1..L), NEW i \in 1..Cardinality(ends)
    PROVE  \E k \in ends : Cardinality(UpTo(ends, k)) = i
<1> DEFINE Rank(k) == Cardinality(UpTo(ends, k))
           high == {k \in ends : i <= Rank(k)}
<1>1. IsFiniteSet(ends) /\ Cardinality(ends) \in Nat /\ i \in Nat /\ i # 0
    <2>1. IsFiniteSet(ends) /\ Cardinality(ends) \in Nat
        BY RankOfAPlace
    <2> QED
        BY <2>1
<1>2. ends # {}
    BY <1>1, FS_EmptySet
<1>3. Max(ends) \in ends /\ \A y \in ends : y <= Max(ends)
    BY <1>2, MaxIsBounded
<1>4. Max(ends) \in high
    <2>1. UpTo(ends, Max(ends)) = ends
        BY <1>3 DEF UpTo
    <2> QED
        BY <1>1, <1>3, <2>1
<1>e. \A l \in ends : l \in Nat
    OBVIOUS
<1>5. high \in SUBSET Nat /\ high # {}
    BY <1>4, <1>e, Zenon
<1>6. PICK k \in high : \A l \in Nat : l < k => l \notin high
    BY <1>5, SetHasLeast
<1>7. k \in ends /\ k \in Nat /\ i <= Rank(k)
    BY <1>6, <1>e
<1>8. ASSUME NEW l \in ends, l < k PROVE Rank(l) < i
    <2>0. l \in Nat
        BY <1>e
    <2>1. l \in Nat /\ Rank(l) \in Nat
        BY <2>0, RankOfAPlace
    <2>2. l \notin high
        BY <1>6, <1>8, <2>1
    <2> QED
        BY <1>1, <1>8, <2>1, <2>2
<1> HIDE DEF high
<1>9. Rank(k) \in Nat /\ Rank(k) = Cardinality(Below(ends, k)) + 1
      /\ Cardinality(Below(ends, k)) \in Nat
    BY <1>7, RankOfAPlace
<1>10. CASE Below(ends, k) = {}
    <2>1. Cardinality(Below(ends, k)) = 0
        BY <1>10, FS_EmptySet
    <2>2. Rank(k) = i
        BY <1>1, <1>7, <1>9, <2>1
    <2> QED
        BY <1>7, <2>2
<1>11. CASE Below(ends, k) # {}
    <2> DEFINE p == Max(Below(ends, k))
    <2>1. Below(ends, k) \in SUBSET (1..L)
        BY DEF Below
    <2>2. p \in Below(ends, k) /\ \A y \in Below(ends, k) : y <= p
        BY <1>11, <2>1, MaxIsBounded
    <2> HIDE DEF p
    <2>3. p \in ends /\ p < k /\ p \in Nat
        BY <2>2 DEF Below
    <2>a. \A y \in Nat : y <= p => y < k
        BY <1>7, <2>3
    <2>b. \A y \in ends : y < k => y <= p
        BY <2>2 DEF Below
    <2>4. UpTo(ends, p) = Below(ends, k)
        BY <1>e, <2>a, <2>b, Zenon DEF UpTo, Below
    <2>5. Cardinality(Below(ends, k)) < i
        BY <1>8, <2>3, <2>4
    <2>6. Rank(k) = i
        BY <1>1, <1>7, <1>9, <2>5
    <2> QED
        BY <1>7, <2>6
<1> QED
    BY <1>10, <1>11

\* The parts of a text are of it, and leave nothing out.
LEMMA CuttingKeeps ==
    ASSUME NEW S, NEW text \in Seq(S), NEW ends \in SUBSET DOMAIN text
    PROVE  /\ CutAfter(text, ends) \in Seq(Seq(S))
           /\ ToSet(text) \subseteq InTexts(CutAfter(text, ends))
<1> DEFINE L == Len(text)
           count == Cardinality(ends)
           End(i) == CHOOSE k \in ends : Cardinality({l \in ends : l <= k}) = i
           From(i) == IF i = 1 THEN 1 ELSE End(i - 1) + 1
           To(i) == IF i > count THEN L ELSE End(i)
           Part(i) == SubSeq(text, From(i), To(i))
           parts == CutAfter(text, ends)
<1>1. L \in Nat /\ DOMAIN text = 1..L /\ \A k \in 1..L : text[k] \in S
    OBVIOUS
<1>2. ends \in SUBSET (1..L)
    BY <1>1
<1>3. parts = [i \in 1..count + 1 |-> Part(i)]
    BY DEF CutAfter
<1> HIDE DEF parts, L
<1>4. count \in Nat
    BY <1>1, <1>2, RankOfAPlace
<1>5. \A k \in Nat : UpTo(ends, k) = {l \in ends : l <= k}
    BY DEF UpTo
<1>6. ASSUME NEW i \in 1..count
      PROVE  /\ End(i) \in ends /\ Cardinality(UpTo(ends, End(i))) = i
             /\ End(i) \in 1..L
    <2>1. \E k \in ends : Cardinality({l \in ends : l <= k}) = i
        BY <1>1, <1>2, EveryRankIsTaken DEF UpTo
    <2>2. End(i) \in ends /\ Cardinality({l \in ends : l <= End(i)}) = i
        BY <2>1
    <2> HIDE DEF End
    <2> QED
        BY <1>2, <2>2 DEF UpTo
<1> HIDE DEF count, End
<1>7. ASSUME NEW i \in 1..count + 1
      PROVE  From(i) \in Nat \ {0} /\ To(i) \in Nat /\ To(i) <= L
    <2>1. CASE i = 1
        <3>1. From(i) = 1
            BY <2>1
        <3>2. To(i) \in Nat /\ To(i) <= L
            BY <1>1, <1>4, <1>6
        <3> QED
            BY <3>1, <3>2
    <2>2. CASE i # 1
        <3>1. i - 1 \in 1..count
            BY <1>4, <2>2
        <3>2. End(i - 1) \in 1..L
            BY <1>6, <3>1
        <3>3. From(i) = End(i - 1) + 1
            BY <2>2
        <3>4. To(i) \in Nat /\ To(i) <= L
            BY <1>1, <1>4, <1>6
        <3> QED
            BY <1>1, <3>2, <3>3, <3>4
    <2> QED
        BY <2>1, <2>2
<1>8. ASSUME NEW i \in 1..count + 1
      PROVE  Part(i) \in Seq(S) /\ \A k \in From(i)..To(i) : text[k] \in ToSet(Part(i))
    <2> HIDE DEF From, To
    <2>1. From(i) \in Nat \ {0} /\ To(i) \in Nat /\ To(i) <= Len(text)
        BY <1>7 DEF L
    <2> QED
        BY <2>1, PartOfASequence
<1> HIDE DEF Part
<1>9. parts \in Seq(Seq(S)) /\ DOMAIN parts = 1..count + 1
      /\ \A i \in 1..count + 1 : parts[i] = Part(i)
    <2>1. DOMAIN parts = 1..count + 1 /\ \A i \in 1..count + 1 : parts[i] = Part(i)
        BY <1>3
    <2> DEFINE T == Seq(S)
    <2>2. \A i \in 1..count + 1 : Part(i) \in T
        BY <1>8
    <2> HIDE DEF T
    <2>3. parts \in Seq(T)
        BY <1>3, <1>4, <2>2
    <2> QED
        BY <2>1, <2>3 DEF T
<1>10. ASSUME NEW k \in 1..L PROVE text[k] \in InTexts(parts)
    <2> DEFINE b == Cardinality(Below(ends, k))
               i == b + 1
    <2>0. k \in Nat
        BY <1>1
    <2>1. k \in Nat /\ b \in Nat
        BY <1>1, <1>2, <2>0, RankOfAPlace
    <2>2. b <= count
        <3>1. Below(ends, k) \subseteq ends /\ IsFiniteSet(ends)
            BY <1>1, <1>2, RankOfAPlace DEF Below
        <3> QED
            BY <3>1, FS_Subset DEF count
    <2> HIDE DEF b
    <2>3. i \in 1..count + 1
        BY <1>4, <2>1, <2>2
    <2>4. From(i) <= k
        <3>1. CASE b = 0
            BY <2>1, <3>1
        <3>2. CASE b # 0
            <4>1. b \in 1..count /\ i # 1 /\ i - 1 = b
                BY <1>4, <2>1, <2>2, <3>2
            <4>2. End(b) \in ends /\ End(b) \in Nat /\ Cardinality(UpTo(ends, End(b))) = b
                BY <1>1, <1>6, <4>1
            <4>3. ASSUME k <= End(b) PROVE FALSE
                <5>1. b <= Cardinality(Below(ends, End(b)))
                    BY <1>1, <1>2, <2>1, <4>2, <4>3, RanksGrow DEF b
                <5>2. /\ Cardinality(UpTo(ends, End(b))) = Cardinality(Below(ends, End(b))) + 1
                      /\ Cardinality(Below(ends, End(b))) \in Nat
                    BY <1>1, <1>2, <4>2, RankOfAPlace
                <5> QED
                    BY <2>1, <4>2, <5>1, <5>2
            <4>4. From(i) = End(b) + 1
                BY <4>1
            <4> QED
                BY <2>1, <4>2, <4>3, <4>4
        <3> QED
            BY <3>1, <3>2
    <2>5. k <= To(i)
        <3>1. CASE i > count
            BY <1>1, <3>1
        <3>2. CASE ~(i > count)
            <4>1. i \in 1..count
                BY <1>4, <2>3, <3>2
            <4>2. End(i) \in ends /\ End(i) \in Nat /\ Cardinality(UpTo(ends, End(i))) = i
                BY <1>1, <1>6, <4>1
            <4>3. ASSUME End(i) < k PROVE FALSE
                <5>1. Cardinality(UpTo(ends, End(i))) <= b
                    BY <1>1, <1>2, <2>1, <4>2, <4>3, RanksGrow DEF b
                <5> QED
                    BY <2>1, <4>2, <5>1
            <4>4. To(i) = End(i)
                BY <3>2
            <4> QED
                BY <2>1, <4>2, <4>3, <4>4
        <3> QED
            BY <3>1, <3>2
    <2>6. From(i) \in Nat /\ To(i) \in Nat
        BY <1>7, <2>3
    <2> HIDE DEF From, To, i
    <2>7. k \in From(i)..To(i)
        BY <2>1, <2>4, <2>5, <2>6
    <2>8. text[k] \in ToSet(Part(i))
        BY <1>8, <2>3, <2>7
    <2> QED
        BY <1>9, <2>3, <2>8 DEF InTexts
<1>11. ToSet(text) \subseteq InTexts(parts)
    BY <1>1, <1>10 DEF ToSet
<1> QED
    BY <1>9, <1>11 DEF parts

LEMMA SplittingKeeps ==
    ASSUME NEW S, NEW text \in Seq(S), NEW separator
    PROVE  /\ SplitKeepingSeparator(text, separator) \in Seq(Seq(S))
           /\ ToSet(text) \subseteq InTexts(SplitKeepingSeparator(text, separator))
<1>1. Positions(text, separator) \in SUBSET DOMAIN text
    BY DEF Positions
<1> QED
    BY <1>1, CuttingKeeps DEF SplitKeepingSeparator

-----------------------------------------------------------------------------
(* Packing parts                                                           *)

Bins(S) == [packed : Seq(Seq(S)), current : Seq(S)]
NoBins == [packed |-> <<>>, current |-> <<>>]

PackOne(bins, part) ==
    IF bins.current # <<>> /\ Len(bins.current) + Len(part) > ChunkSize
    THEN [packed |-> Append(bins.packed, bins.current), current |-> part]
    ELSE [bins EXCEPT !.current = @ \o part]

StepOfPack(parts, before, s) ==
    IF s = {} THEN NoBins ELSE PackOne(before[s \ {Max(s)}], parts[Max(s)])

Bin(bins) == InTexts(bins.packed) \union ToSet(bins.current)

LEMMA TextsOfAppend ==
    ASSUME NEW S, NEW texts \in Seq(Seq(S)), NEW text \in Seq(S)
    PROVE  /\ Append(texts, text) \in Seq(Seq(S))
           /\ InTexts(Append(texts, text)) = InTexts(texts) \union ToSet(text)
<1> DEFINE T == Seq(S)
<1>1. texts \in Seq(T) /\ text \in T
    OBVIOUS
<1> HIDE DEF T
<1>2. /\ Append(texts, text) \in Seq(T)
      /\ ToSet(Append(texts, text)) = ToSet(texts) \union {text}
    BY <1>1, ElementsOfAppend
<1>3. ASSUME NEW some PROVE InTexts(some) = UNION {ToSet(t) : t \in ToSet(some)}
    BY DEF InTexts, ToSet
<1>4. UNION {ToSet(t) : t \in ToSet(texts) \union {text}}
         = (UNION {ToSet(t) : t \in ToSet(texts)}) \union ToSet(text)
    OBVIOUS
<1> QED
    BY <1>2, <1>3, <1>4 DEF T

\* One part more is packed, or stands in the bin.
LEMMA PackOneKeeps ==
    ASSUME NEW S, NEW bins \in Bins(S), NEW part \in Seq(S)
    PROVE  /\ PackOne(bins, part) \in Bins(S)
           /\ Bin(PackOne(bins, part)) = Bin(bins) \union ToSet(part)
<1>1. bins.packed \in Seq(Seq(S)) /\ bins.current \in Seq(S)
    BY DEF Bins
<1>2. CASE bins.current # <<>> /\ Len(bins.current) + Len(part) > ChunkSize
    <2> DEFINE more == Append(bins.packed, bins.current)
    <2>1. more \in Seq(Seq(S)) /\ InTexts(more) = InTexts(bins.packed) \union ToSet(bins.current)
        BY <1>1, TextsOfAppend
    <2>2. PackOne(bins, part) = [packed |-> more, current |-> part]
        BY <1>2 DEF PackOne
    <2> HIDE DEF more
    <2> QED
        BY <2>1, <2>2 DEF Bins, Bin
<1>3. CASE ~(bins.current # <<>> /\ Len(bins.current) + Len(part) > ChunkSize)
    <2> DEFINE joined == bins.current \o part
    <2>1. joined \in Seq(S) /\ ToSet(joined) = ToSet(bins.current) \union ToSet(part)
        BY <1>1, Concatenation, ElementsOfConcatenation
    <2>2. PackOne(bins, part) = [bins EXCEPT !.current = joined]
        BY <1>3 DEF PackOne
    <2> HIDE DEF joined
    <2>3. /\ [bins EXCEPT !.current = joined] \in Bins(S)
          /\ [bins EXCEPT !.current = joined].packed = bins.packed
          /\ [bins EXCEPT !.current = joined].current = joined
        BY <2>1 DEF Bins
    <2> QED
        BY <2>1, <2>2, <2>3 DEF Bin
<1> QED
    BY <1>2, <1>3

LEMMA GreedyPackIsALoop ==
    ASSUME NEW S, NEW parts \in Seq(Seq(S))
    PROVE  \E g \in [0..Len(parts) -> Bins(S)] :
              /\ g[0] = NoBins
              /\ \A m \in 1..Len(parts) : g[m] = PackOne(g[m - 1], parts[m])
              /\ LET bins == g[Len(parts)]
                 IN GreedyPack(parts) = IF Blank(file, bins.current) THEN bins.packed
                                        ELSE Append(bins.packed, bins.current)
<1> DEFINE n == Len(parts)
           taken == CHOOSE g : g = [s \in SUBSET (1..n) |-> StepOfPack(parts, g, s)]
<1>1. n \in Nat /\ DOMAIN parts = 1..n /\ \A m \in 1..n : parts[m] \in Seq(S)
    OBVIOUS
<1>2. \E g \in [SUBSET (1..n) -> Bins(S)] : g = [s \in SUBSET (1..n) |-> StepOfPack(parts, g, s)]
    <2> DEFINE step == [m \in 1..n |-> [bins \in Bins(S) |-> PackOne(bins, parts[m])]]
               R == Bins(S)
    <2>1. \A m \in 1..n : \A bins \in Bins(S) : PackOne(bins, parts[m]) \in Bins(S)
        BY <1>1, PackOneKeeps
    <2>2. NoBins \in R
        BY DEF NoBins, Bins
    <2>3. Stays(step, R, n)
        BY <2>1 DEF Stays
    <2>4. \A m \in 1..n : \A bins \in R : step[m][bins] = PackOne(bins, parts[m])
        OBVIOUS
    <2> HIDE DEF step, n, R
    <2>5. \E g : IsFoldOf(g, NoBins, step, R, n)
        BY <1>1, <2>2, <2>3, FoldExists
    <2>6. PICK g \in [SUBSET (1..n) -> R] :
             \A s \in SUBSET (1..n) : g[s] = StepOfFold(NoBins, step, g, s)
        BY <2>5 DEF IsFoldOf
    <2>7. ASSUME NEW s \in SUBSET (1..n) PROVE g[s] = StepOfPack(parts, g, s)
        <3>1. CASE s = {}
            BY <2>6, <3>1 DEF StepOfFold, StepOfPack
        <3>2. CASE s # {}
            <4>1. Max(s) \in 1..n /\ s \ {Max(s)} \in SUBSET (1..n)
                BY <1>1, <3>2, MaxIsBounded
            <4>2. g[s \ {Max(s)}] \in R
                BY <2>6, <4>1
            <4>3. g[s] = step[Max(s)][g[s \ {Max(s)}]]
                BY <2>6, <3>2, Zenon DEF StepOfFold
            <4> QED
                BY <2>4, <3>2, <4>1, <4>2, <4>3, Zenon DEF StepOfPack
        <3> QED
            BY <3>1, <3>2
    <2>8. g = [s \in SUBSET (1..n) |-> g[s]]
        BY <2>6
    <2>9. g = [s \in SUBSET (1..n) |-> StepOfPack(parts, g, s)]
        BY <2>7, <2>8, Zenon
    <2> QED
        BY <2>6, <2>9, Zenon DEF R
<1>3. taken = [s \in SUBSET (1..n) |-> StepOfPack(parts, taken, s)]
    BY <1>2, Zenon
<1> DEFINE all == FoldLeft(PackOne, NoBins, parts)
<1>a. all = taken[1..n]
    BY <1>1, Zenon DEF FoldLeft, MapThenFoldSet, StepOfPack
<1>b. GreedyPack(parts) = IF Blank(file, all.current) THEN all.packed
                          ELSE Append(all.packed, all.current)
    BY Zenon DEF GreedyPack, FoldLeft, MapThenFoldSet, PackOne, NoBins
<1> HIDE DEF all
<1>4. LET bins == taken[1..n]
      IN GreedyPack(parts) = IF Blank(file, bins.current) THEN bins.packed
                             ELSE Append(bins.packed, bins.current)
    BY <1>a, <1>b, Zenon
<1> HIDE DEF taken, n
<1> DEFINE g == [m \in 0..n |-> taken[1..m]]
<1>5. g[0] = NoBins
    <2>1. 0 \in 0..n /\ 1..0 = {} /\ {} \in SUBSET (1..n)
        BY <1>1
    <2>2. g[0] = taken[{}]
        BY <2>1
    <2> QED
        BY <1>3, <2>1, <2>2, Zenon DEF StepOfPack
<1>6. ASSUME NEW m \in 1..n PROVE g[m] = PackOne(g[m - 1], parts[m])
    <2>1. m \in Nat /\ m # 0 /\ m \in 0..n /\ m - 1 \in 0..n /\ 1..m \in SUBSET (1..n)
        BY <1>1
    <2>2. 1..m # {} /\ Max(1..m) = m /\ (1..m) \ {m} = 1..m - 1
        BY <2>1, MaxOfInterval, IntervalWithoutEnd
    <2>3. taken[1..m] = PackOne(taken[1..m - 1], parts[m])
        BY <1>3, <2>1, <2>2, Zenon DEF StepOfPack
    <2>4. g[m] = taken[1..m] /\ g[m - 1] = taken[1..m - 1]
        BY <2>1
    <2> QED
        BY <2>3, <2>4, Zenon
<1>7. g[n] = taken[1..n] /\ DOMAIN g = 0..n /\ g = [m \in 0..n |-> g[m]]
    BY <1>1
<1> HIDE DEF g
<1> DEFINE Bad == {m \in 0..n : g[m] \notin Bins(S)}
<1>8. Bad = {}
    <2> SUFFICES ASSUME Bad # {} PROVE FALSE
        OBVIOUS
    <2>0. Bad \in SUBSET Nat
        OBVIOUS
    <2>1. PICK m \in Bad : \A l \in Nat : l < m => l \notin Bad
        BY <2>0, SetHasLeast, Zenon
    <2>2. m \in 0..n /\ g[m] \notin Bins(S)
        OBVIOUS
    <2>3. NoBins \in Bins(S)
        BY DEF NoBins, Bins
    <2>4. m # 0
        BY <1>5, <2>2, <2>3
    <2>5. m \in 1..n /\ m - 1 \in 0..n /\ m - 1 < m /\ m - 1 \in Nat
        BY <1>1, <2>2, <2>4
    <2>6. g[m - 1] \in Bins(S)
        BY <2>1, <2>5
    <2> QED
        BY <1>1, <1>6, <2>2, <2>5, <2>6, PackOneKeeps
<1>9. g \in [0..n -> Bins(S)]
    BY <1>7, <1>8
<1> QED
    BY <1>4, <1>5, <1>6, <1>7, <1>9, Zenon DEF n

\* Nothing but blank text is lost in packing.
LEMMA PackingKeeps ==
    ASSUME NEW S, NEW parts \in Seq(Seq(S))
    PROVE  /\ GreedyPack(parts) \in Seq(Seq(S))
           /\ \A s \in InTexts(parts) : KindOf(file, s) = "w" => s \in InTexts(GreedyPack(parts))
<1> DEFINE n == Len(parts)
<1>1. PICK g \in [0..n -> Bins(S)] :
        /\ g[0] = NoBins
        /\ \A m \in 1..n : g[m] = PackOne(g[m - 1], parts[m])
        /\ GreedyPack(parts) = IF Blank(file, g[n].current) THEN g[n].packed
                               ELSE Append(g[n].packed, g[n].current)
    BY GreedyPackIsALoop, Zenon
<1>2. n \in Nat /\ DOMAIN parts = 1..n /\ \A m \in 1..n : parts[m] \in Seq(S)
    OBVIOUS
<1> HIDE DEF n
<1>3. ASSUME NEW m \in 1..n PROVE Bin(g[m]) = Bin(g[m - 1]) \union ToSet(parts[m])
    <2>1. m - 1 \in 0..n
        BY <1>2
    <2>2. g[m - 1] \in Bins(S) /\ parts[m] \in Seq(S)
        BY <1>2, <2>1, Zenon
    <2>3. g[m] = PackOne(g[m - 1], parts[m])
        BY <1>1, Zenon
    <2> QED
        BY <2>2, <2>3, PackOneKeeps, Zenon
<1> DEFINE Bad(k) == {m \in 0..n : k <= m /\ ~(ToSet(parts[k]) \subseteq Bin(g[m]))}
<1>4. ASSUME NEW k \in 1..n PROVE Bad(k) = {}
    <2> SUFFICES ASSUME Bad(k) # {} PROVE FALSE
        OBVIOUS
    <2>0. Bad(k) \in SUBSET Nat
        OBVIOUS
    <2>1. PICK m \in Bad(k) : \A l \in Nat : l < m => l \notin Bad(k)
        BY <2>0, SetHasLeast, Zenon
    <2>a. m \in 0..n /\ k <= m /\ ~(ToSet(parts[k]) \subseteq Bin(g[m]))
        OBVIOUS
    <2>b. \A l \in 0..n : l < m /\ k <= l => ToSet(parts[k]) \subseteq Bin(g[l])
        BY <2>1
    <2> HIDE DEF Bad
    <2>2. m \in 1..n /\ m - 1 \in 0..n /\ m - 1 < m /\ m - 1 \in Nat /\ k <= m
        BY <1>2, <2>a
    <2>3. CASE m = k
        BY <1>3, <2>2, <2>3, <2>a, Zenon
    <2>4. CASE m # k
        <3>1. k <= m - 1
            BY <1>2, <2>2, <2>4
        <3>2. ToSet(parts[k]) \subseteq Bin(g[m - 1])
            BY <2>2, <2>b, <3>1, Zenon
        <3> QED
            BY <1>3, <2>2, <2>a, <3>2, Zenon
    <2> QED
        BY <2>3, <2>4
<1>5. n \in 0..n /\ \A k \in 1..n : k <= n
    BY <1>2
<1>6. InTexts(parts) \subseteq Bin(g[n])
    <2>1. \A k \in 1..n : ToSet(parts[k]) \subseteq Bin(g[n])
        BY <1>4, <1>5
    <2> QED
        BY <1>2, <2>1 DEF InTexts
<1>7. g[n].packed \in Seq(Seq(S)) /\ g[n].current \in Seq(S)
    <2>1. g[n] \in Bins(S)
        BY <1>5, Zenon
    <2> QED
        BY <2>1 DEF Bins
<1> DEFINE bins == g[n]
           packed == GreedyPack(parts)
<1> HIDE DEF bins
<1>8. CASE Blank(file, bins.current)
    <2>1. packed = bins.packed
        BY <1>1, <1>8 DEF bins
    <2>2. \A s \in ToSet(bins.current) : KindOf(file, s) # "w"
        BY <1>8 DEF Blank, ToSet
    <2> HIDE DEF packed
    <2> QED
        BY <1>6, <1>7, <2>1, <2>2 DEF bins, packed, Bin
<1>9. CASE ~Blank(file, bins.current)
    <2>1. packed = Append(bins.packed, bins.current)
        BY <1>1, <1>9 DEF bins
    <2>2. /\ Append(bins.packed, bins.current) \in Seq(Seq(S))
          /\ InTexts(Append(bins.packed, bins.current)) = Bin(bins)
        BY <1>7, TextsOfAppend DEF bins, Bin
    <2> HIDE DEF packed
    <2> QED
        BY <1>6, <2>1, <2>2 DEF bins, packed
<1> QED
    BY <1>8, <1>9

-----------------------------------------------------------------------------
(* Keeping some chunks                                                     *)

KeepOne(kept, chunk, chosen) == IF chunk \in chosen THEN Append(kept, chunk) ELSE kept

StepOfKept(all, chosen, before, s) ==
    IF s = {} THEN <<>> ELSE KeepOne(before[s \ {Max(s)}], all[Max(s)], chosen)

LEMMA KeptIsALoop ==
    ASSUME NEW S, NEW all \in Seq(S), NEW chosen
    PROVE  \E g \in [0..Len(all) -> Seq(S)] :
              /\ g[0] = <<>>
              /\ \A m \in 1..Len(all) : g[m] = KeepOne(g[m - 1], all[m], chosen)
              /\ Kept(all, chosen) = g[Len(all)]
<1> DEFINE n == Len(all)
           taken == CHOOSE g : g = [s \in SUBSET (1..n) |-> StepOfKept(all, chosen, g, s)]
<1>1. n \in Nat /\ DOMAIN all = 1..n /\ \A m \in 1..n : all[m] \in S
    OBVIOUS
<1>k. ASSUME NEW kept \in Seq(S), NEW m \in 1..n
      PROVE  KeepOne(kept, all[m], chosen) \in Seq(S)
    BY <1>1 DEF KeepOne
<1>2. \E g : g = [s \in SUBSET (1..n) |-> StepOfKept(all, chosen, g, s)]
    <2> DEFINE step == [m \in 1..n |-> [kept \in Seq(S) |-> KeepOne(kept, all[m], chosen)]]
               R == Seq(S)
               none == <<>>
    <2>2. none \in R
        OBVIOUS
    <2>3. Stays(step, R, n)
        BY <1>k DEF Stays
    <2>4. \A m \in 1..n : \A kept \in R : step[m][kept] = KeepOne(kept, all[m], chosen)
        OBVIOUS
    <2> HIDE DEF step, n, R, none
    <2>5. \E g : IsFoldOf(g, none, step, R, n)
        BY <1>1, <2>2, <2>3, FoldExists
    <2>6. PICK g \in [SUBSET (1..n) -> R] :
             \A s \in SUBSET (1..n) : g[s] = StepOfFold(none, step, g, s)
        BY <2>5 DEF IsFoldOf
    <2>7. ASSUME NEW s \in SUBSET (1..n) PROVE g[s] = StepOfKept(all, chosen, g, s)
        <3>1. CASE s = {}
            BY <2>6, <3>1 DEF StepOfFold, StepOfKept, none
        <3>2. CASE s # {}
            <4>1. Max(s) \in 1..n /\ s \ {Max(s)} \in SUBSET (1..n)
                BY <1>1, <3>2, MaxIsBounded
            <4>2. g[s \ {Max(s)}] \in R
                BY <2>6, <4>1
            <4>3. g[s] = step[Max(s)][g[s \ {Max(s)}]]
                BY <2>6, <3>2, Zenon DEF StepOfFold
            <4> QED
                BY <2>4, <3>2, <4>1, <4>2, <4>3, Zenon DEF StepOfKept
        <3> QED
            BY <3>1, <3>2
    <2>8. g = [s \in SUBSET (1..n) |-> g[s]]
        BY <2>6
    <2> QED
        BY <2>7, <2>8, Zenon
<1>3. taken = [s \in SUBSET (1..n) |-> StepOfKept(all, chosen, taken, s)]
    BY <1>2, Zenon
<1>4. Kept(all, chosen) = taken[1..n]
    BY <1>1, Zenon DEF Kept, FoldLeft, MapThenFoldSet, StepOfKept, KeepOne
<1> HIDE DEF taken, n
<1> DEFINE g == [m \in 0..n |-> taken[1..m]]
<1>5. g[0] = <<>>
    <2>1. 0 \in 0..n /\ 1..0 = {} /\ {} \in SUBSET (1..n)
        BY <1>1
    <2>2. g[0] = taken[{}]
        BY <2>1
    <2> QED
        BY <1>3, <2>1, <2>2, Zenon DEF StepOfKept
<1>6. ASSUME NEW m \in 1..n PROVE g[m] = KeepOne(g[m - 1], all[m], chosen)
    <2>1. m \in Nat /\ m # 0 /\ m \in 0..n /\ m - 1 \in 0..n /\ 1..m \in SUBSET (1..n)
        BY <1>1
    <2>2. 1..m # {} /\ Max(1..m) = m /\ (1..m) \ {m} = 1..m - 1
        BY <2>1, MaxOfInterval, IntervalWithoutEnd
    <2>3. taken[1..m] = KeepOne(taken[1..m - 1], all[m], chosen)
        BY <1>3, <2>1, <2>2, Zenon DEF StepOfKept
    <2>4. g[m] = taken[1..m] /\ g[m - 1] = taken[1..m - 1]
        BY <2>1
    <2> QED
        BY <2>3, <2>4, Zenon
<1>7. g[n] = taken[1..n] /\ DOMAIN g = 0..n /\ g = [m \in 0..n |-> g[m]]
    BY <1>1
<1> HIDE DEF g
<1> DEFINE Bad == {m \in 0..n : g[m] \notin Seq(S)}
<1>8. Bad = {}
    <2> SUFFICES ASSUME Bad # {} PROVE FALSE
        OBVIOUS
    <2>0. Bad \in SUBSET Nat
        OBVIOUS
    <2>1. PICK m \in Bad : \A l \in Nat : l < m => l \notin Bad
        BY <2>0, SetHasLeast, Zenon
    <2>2. m \in 0..n /\ g[m] \notin Seq(S)
        OBVIOUS
    <2>3. <<>> \in Seq(S)
        OBVIOUS
    <2>4. m # 0
        BY <1>5, <2>2, <2>3, Zenon
    <2>5. m \in 1..n /\ m - 1 \in 0..n /\ m - 1 < m /\ m - 1 \in Nat
        BY <1>1, <2>2, <2>4
    <2>6. g[m - 1] \in Seq(S)
        BY <2>1, <2>5
    <2> QED
        BY <1>k, <1>6, <2>2, <2>5, <2>6, Zenon
<1>9. g \in [0..n -> Seq(S)]
    BY <1>7, <1>8
<1> QED
    BY <1>4, <1>5, <1>6, <1>7, <1>9, Zenon DEF n

InOrder(some, top) ==
    /\ \A i \in DOMAIN some : some[i].ordinal < top
    /\ \A i, j \in DOMAIN some : i < j => some[i].ordinal < some[j].ordinal

\* What is kept of numbered chunks is all that is chosen, in the same order.
LEMMA KeptInOrder ==
    ASSUME NEW S, NEW all \in Seq(S), NEW chosen,
           \A chunk \in S : chunk.ordinal \in Nat,
           \A m \in DOMAIN all : all[m].ordinal = m - 1
    PROVE  /\ Kept(all, chosen) \in Seq(S)
           /\ ToSet(all) \intersect chosen \subseteq ToSet(Kept(all, chosen))
           /\ InOrder(Kept(all, chosen), Len(all))
<1> DEFINE n == Len(all)
<1>1. PICK g \in [0..n -> Seq(S)] :
        /\ g[0] = <<>>
        /\ \A m \in 1..n : g[m] = KeepOne(g[m - 1], all[m], chosen)
        /\ Kept(all, chosen) = g[n]
    BY KeptIsALoop, Zenon
<1>2. n \in Nat /\ DOMAIN all = 1..n /\ \A m \in 1..n : all[m] \in S
    OBVIOUS
<1> HIDE DEF n
<1> DEFINE Good(m) == /\ \A k \in 1..m : all[k] \in chosen => all[k] \in ToSet(g[m])
                      /\ InOrder(g[m], m)
<1>3. Good(0)
    <2>1. 1..0 = {} /\ DOMAIN <<>> = {}
        OBVIOUS
    <2> QED
        BY <1>1, <2>1 DEF InOrder
<1>4. ASSUME NEW m \in 1..n, Good(m - 1) PROVE Good(m)
    <2>0. m - 1 \in 0..n /\ m \in Nat /\ m - 1 \in Nat
        BY <1>2
    <2> DEFINE old == g[m - 1]
               new == g[m]
    <2>1. old \in Seq(S) /\ all[m] \in S /\ all[m].ordinal = m - 1
        BY <1>2, <2>0
    <2>2. new = KeepOne(old, all[m], chosen)
        BY <1>1
    <2>3. /\ \A k \in 1..m - 1 : all[k] \in chosen => all[k] \in ToSet(old)
          /\ InOrder(old, m - 1)
        BY <1>4
    <2> HIDE DEF old, new
    <2>4. \A k \in 1..m : k \in 1..m - 1 \/ k = m
        BY <2>0
    <2>5. CASE all[m] \in chosen
        <3>1. /\ new \in Seq(S) /\ Len(new) = Len(old) + 1 /\ new[Len(old) + 1] = all[m]
              /\ \A i \in 1..Len(old) : new[i] = old[i]
              /\ ToSet(new) = ToSet(old) \union {all[m]}
            BY <2>1, <2>2, <2>5, ElementsOfAppend DEF KeepOne
        <3>2. \A k \in 1..m : all[k] \in chosen => all[k] \in ToSet(new)
            BY <2>3, <2>4, <3>1
        <3>3. InOrder(new, m)
            <4>1. DOMAIN new = 1..Len(old) + 1 /\ DOMAIN old = 1..Len(old) /\ Len(old) \in Nat
                BY <2>1, <3>1
            <4>n. ASSUME NEW i \in DOMAIN old PROVE old[i].ordinal < m - 1
                BY <2>3 DEF InOrder
            <4>2. ASSUME NEW i \in DOMAIN new PROVE new[i].ordinal < m
                <5>1. CASE i = Len(old) + 1
                    BY <2>0, <2>1, <3>1, <5>1
                <5>2. CASE i # Len(old) + 1
                    <6>1. i \in DOMAIN old /\ new[i] = old[i]
                        BY <3>1, <4>1, <5>2
                    <6>2. old[i].ordinal \in Nat /\ old[i].ordinal < m - 1
                        BY <2>1, <4>1, <4>n, <6>1
                    <6> QED
                        BY <2>0, <6>1, <6>2
                <5> QED
                    BY <5>1, <5>2
            <4>3. ASSUME NEW i \in DOMAIN new, NEW j \in DOMAIN new, i < j
                  PROVE  new[i].ordinal < new[j].ordinal
                <5>1. i \in DOMAIN old /\ new[i] = old[i]
                    BY <3>1, <4>1, <4>3
                <5>2. CASE j = Len(old) + 1
                    BY <2>1, <3>1, <4>n, <5>1, <5>2
                <5>3. CASE j # Len(old) + 1
                    <6>1. j \in DOMAIN old /\ new[j] = old[j]
                        BY <3>1, <4>1, <5>3
                    <6> QED
                        BY <2>3, <4>3, <5>1, <6>1 DEF InOrder
                <5> QED
                    BY <5>2, <5>3
            <4> QED
                BY <4>2, <4>3 DEF InOrder
        <3> QED
            BY <3>2, <3>3 DEF new
    <2>6. CASE all[m] \notin chosen
        <3>1. new = old
            BY <2>2, <2>6 DEF KeepOne
        <3> QED
            <4>1. ASSUME NEW i \in DOMAIN old PROVE old[i].ordinal < m
                <5>1. old[i].ordinal \in Nat /\ old[i].ordinal < m - 1
                    BY <2>1, <2>3 DEF InOrder
                <5> QED
                    BY <2>0, <5>1
            <4>2. InOrder(old, m)
                BY <2>3, <4>1 DEF InOrder
            <4>3. \A k \in 1..m : all[k] \in chosen => all[k] \in ToSet(old)
                BY <2>3, <2>4, <2>6
            <4> QED
                BY <3>1, <4>2, <4>3 DEF new
    <2> QED
        BY <2>5, <2>6
<1> DEFINE Bad == {m \in 0..n : ~Good(m)}
<1> HIDE DEF Good
<1>5. Bad = {}
    <2> SUFFICES ASSUME Bad # {} PROVE FALSE
        OBVIOUS
    <2>0. Bad \in SUBSET Nat
        OBVIOUS
    <2>1. PICK m \in Bad : \A l \in Nat : l < m => l \notin Bad
        BY <2>0, SetHasLeast, Zenon
    <2>2. m \in 0..n /\ ~Good(m)
        OBVIOUS
    <2>4. m # 0
        BY <1>3, <2>2
    <2>5. m \in 1..n /\ m - 1 \in 0..n /\ m - 1 < m /\ m - 1 \in Nat
        BY <1>2, <2>2, <2>4
    <2>6. Good(m - 1)
        BY <2>1, <2>5
    <2> QED
        BY <1>4, <2>2, <2>5, <2>6
<1>6. n \in 0..n
    BY <1>2
<1>7. Good(n) /\ g[n] \in Seq(S)
    BY <1>5, <1>6
<1>8. \A k \in 1..n : all[k] \in chosen => all[k] \in ToSet(g[n])
    BY <1>7 DEF Good
<1>9. ToSet(all) \intersect chosen \subseteq ToSet(g[n])
    BY <1>2, <1>8 DEF ToSet
<1>10. InOrder(g[n], n)
    BY <1>7 DEF Good
<1> QED
    BY <1>1, <1>7, <1>9, <1>10 DEF n

-----------------------------------------------------------------------------
(* What a parser makes of one unit                                         *)

FileOK ==
    /\ file \in Seq(Units)
    /\ \A u \in DOMAIN file :
          /\ format = "html" => file[u].is \in {"heading", "paragraph", "loose", "unread"}
          /\ format = "image" => file[u].page = 1

LEMMA UploadedFilesAreOK ==
    ASSUME format \in DOMAIN Uploaded, file \in Uploaded[format]
    PROVE  FileOK /\ format \in Formats
BY UploadedAssumption DEF FileOK

LEMMA UnitsOfAFile ==
    ASSUME FileOK
    PROVE  /\ DOMAIN file = 1..Len(file) /\ Len(file) \in Nat
           /\ \A u \in DOMAIN file :
                 /\ u \in Nat \ {0} /\ file[u].page \in Nat
                 /\ Len(file[u].text) \in Nat
                 /\ DOMAIN file[u].text = 1..Len(file[u].text)
<1>1. file \in Seq(Units)
    BY DEF FileOK
<1>2. DOMAIN file = 1..Len(file) /\ Len(file) \in Nat /\ \A u \in DOMAIN file : file[u] \in Units
    BY <1>1, ElementsAreOfTheSet
<1>3. ASSUME NEW u \in DOMAIN file
      PROVE  /\ u \in Nat \ {0} /\ file[u].page \in Nat
             /\ Len(file[u].text) \in Nat
             /\ DOMAIN file[u].text = 1..Len(file[u].text)
    <2>1. u \in Nat \ {0}
        BY <1>2
    <2> DEFINE T == {"w", "c"} \union ToSet(Separators)
    <2>2. file[u].page \in Nat /\ file[u].text \in Seq(T)
        BY <1>2 DEF Units
    <2> HIDE DEF T
    <2>3. Len(file[u].text) \in Nat /\ DOMAIN file[u].text = 1..Len(file[u].text)
        BY <2>2, ElementsAreOfTheSet
    <2> QED
        BY <2>1, <2>2, <2>3
<1> QED
    BY <1>2, <1>3

\* A letter in a cell under no column.
Unnamed(s) == format \in {"csv", "xlsx"} /\ ~InColumn(s)
LettersOf(u) == {s \in Letters_ : s[1] = u /\ ~Unnamed(s)}

\* The parser's reasons to leave a unit out.
Lost(u) ==
    \/ format \in Cutting /\ Len(file[u].text) > MaxBlock
    \/ format = "code" /\ Len(Lines([v \in DOMAIN file |-> v], file)) > MaxBlock
    \/ format = "pdf" /\ Warned(format, file) /\ file[u].is = "damaged"
    \/ format = "image" /\ Warned(format, file)
    \/ file[u].is \in {"destination", "loose", "faint", "unread"}
    \/ format = "epub" /\ file[u].is = "title"
    \/ format = "csv" /\ Warned(format, file) /\ u > MaxRows + 1
    \/ format = "xlsx" /\ Warned(format, file) /\ RowNumber(file, u) > MaxRows + 1
    \/ /\ format = "xlsx" /\ u # HeaderOf(u)
       /\ Len(Paired(file, HeaderOf(u), u, TRUE)) > MaxBlock

\* Blocks that hold what there is in a unit, with a true citation.
UnitTold(u, some) ==
    /\ some \in Seq(TrueBlock)
    /\ Lost(u) \/ LettersOf(u) \subseteq SymbolsIn(some)

FileTold(some) ==
    /\ some \in Seq(TrueBlock)
    /\ \A u \in DOMAIN file : Lost(u) \/ LettersOf(u) \subseteq SymbolsIn(some)

LEMMA LettersOfAFile ==
    ASSUME FileOK, NEW s \in Letters_
    PROVE  /\ s[1] \in DOMAIN file /\ s[2] \in DOMAIN file[s[1]].text
           /\ s = <<s[1], s[2]>> /\ KindOf(file, s) = "w" /\ s \in Nat \X Nat
<1>1. PICK u \in DOMAIN file : \E k \in DOMAIN file[u].text : s = <<u, k>>
    BY DEF Letters_
<1>2. PICK k \in DOMAIN file[u].text : s = <<u, k>>
    BY <1>1
<1>3. u \in Nat /\ k \in Nat
    BY UnitsOfAFile
<1>4. KindOf(file, s) = "w"
    BY DEF Letters_
<1>5. s[1] = u /\ s[2] = k
    BY <1>2
<1> QED
    BY <1>2, <1>3, <1>4, <1>5

LEMMA TextOfAUnit ==
    ASSUME FileOK, NEW u \in DOMAIN file, NEW page, NEW section, Cites(page, section, u)
    PROVE  /\ TextOf(file, u) \in Seq(True_(page, section))
           /\ Len(TextOf(file, u)) = Len(file[u].text)
           /\ LettersOf(u) \subseteq ToSet(TextOf(file, u))
<1> DEFINE text == TextOf(file, u)
           n == Len(file[u].text)
<1>1. n \in Nat /\ DOMAIN file[u].text = 1..n /\ u \in Nat
    BY UnitsOfAFile
<1> HIDE DEF n
<1>2. text = [k \in 1..n |-> <<u, k>>]
    BY <1>1 DEF TextOf
<1>3. ASSUME NEW k \in 1..n PROVE <<u, k>> \in True_(page, section)
    <2>1. <<u, k>> \in Nat \X Nat /\ <<u, k>>[1] = u
        BY <1>1
    <2> QED
        BY <2>1, Zenon DEF True_
<1> HIDE DEF text
<1>4. text \in Seq(True_(page, section)) /\ Len(text) = n /\ DOMAIN text = 1..n
    <2> DEFINE T == True_(page, section)
    <2>1. \A k \in 1..n : <<u, k>> \in T
        BY <1>3
    <2> HIDE DEF T
    <2>2. text \in Seq(T) /\ Len(text) = n /\ DOMAIN text = 1..n
        BY <1>1, <1>2, <2>1
    <2> QED
        BY <2>2 DEF T
<1>5. ASSUME NEW s \in LettersOf(u) PROVE s \in ToSet(text)
    <2>1. s \in Letters_ /\ s[1] = u
        BY DEF LettersOf
    <2>2. s[2] \in 1..n /\ s = <<u, s[2]>>
        BY <1>1, <2>1, LettersOfAFile
    <2>3. text[s[2]] = s
        BY <1>2, <2>2
    <2> QED
        BY <1>4, <2>2, <2>3 DEF ToSet
<1> QED
    BY <1>4, <1>5 DEF text, n

\* The blocks made of a sequence of texts of a unit.
LEMMA BlockIsTrue ==
    ASSUME NEW page \in Nat, NEW section \in Sections, NEW text \in Seq(True_(page, section))
    PROVE  Block(text, page, section) \in TrueBlock
<1>1. text \in Seq(Nat \X Nat)
    <2>1. True_(page, section) \subseteq Nat \X Nat
        BY DEF True_
    <2>2. ToSet(text) \subseteq Nat \X Nat
        BY <2>1, ElementsAreOfTheSet
    <2> QED
        BY <2>2, SequencesOfMore
<1> QED
    BY <1>1 DEF Block, TrueBlock

LEMMA OneBlock ==
    ASSUME NEW page \in Nat, NEW section \in Sections, NEW text \in Seq(True_(page, section))
    PROVE  /\ <<Block(text, page, section)>> \in Seq(TrueBlock)
           /\ SymbolsIn(<<Block(text, page, section)>>) = ToSet(text)
<1> DEFINE one == Block(text, page, section)
<1>1. one \in TrueBlock /\ one.text = text
    BY BlockIsTrue DEF Block
<1> HIDE DEF one
<1>2. <<one>> \in Seq(TrueBlock) /\ DOMAIN <<one>> = {1} /\ <<one>>[1] = one
    BY <1>1
<1>3. SymbolsIn(<<one>>) = ToSet(text)
    BY <1>1, <1>2 DEF SymbolsIn
<1> QED
    BY <1>2, <1>3 DEF one

LEMMA SeenIfLetters ==
    ASSUME FileOK, NEW u \in DOMAIN file, ~Visible(file, u)
    PROVE  LettersOf(u) = {}
<1> SUFFICES ASSUME NEW s \in LettersOf(u) PROVE FALSE
    OBVIOUS
<1>1. s \in Letters_ /\ s[1] = u
    BY DEF LettersOf
<1>2. s[2] \in DOMAIN file[u].text /\ s = <<u, s[2]>> /\ KindOf(file, s) = "w"
    BY <1>1, LettersOfAFile
<1>3. s[2] \in DOMAIN TextOf(file, u) /\ TextOf(file, u)[s[2]] = s
    BY <1>2 DEF TextOf
<1> QED
    BY <1>2, <1>3 DEF Visible, Blank

LEMMA WholeTells ==
    ASSUME FileOK, NEW u \in DOMAIN file, NEW page \in Nat, NEW section \in Sections,
           Visible(file, u) => Cites(page, section, u)
    PROVE  /\ Whole(file, u, page, section) \in Seq(TrueBlock)
           /\ LettersOf(u) \subseteq SymbolsIn(Whole(file, u, page, section))
<1>1. CASE ~Visible(file, u)
    <2>1. Whole(file, u, page, section) = <<>> /\ <<>> \in Seq(TrueBlock)
        BY <1>1 DEF Whole
    <2> QED
        BY <1>1, <2>1, SeenIfLetters
<1>2. CASE Visible(file, u)
    <2> DEFINE text == TextOf(file, u)
               stripped == Strip(file, text)
    <2>1. text \in Seq(True_(page, section)) /\ LettersOf(u) \subseteq ToSet(text)
        BY <1>2, TextOfAUnit
    <2> HIDE DEF text
    <2>2. /\ stripped \in Seq(True_(page, section))
          /\ \A s \in ToSet(text) : KindOf(file, s) = "w" => s \in ToSet(stripped)
        BY <2>1, StripKeeps
    <2> HIDE DEF stripped
    <2>3. LettersOf(u) \subseteq ToSet(stripped)
        BY <2>1, <2>2, LettersOfAFile DEF LettersOf
    <2>4. Whole(file, u, page, section) = <<Block(stripped, page, section)>>
        BY <1>2 DEF Whole, stripped, text
    <2> QED
        BY <2>2, <2>3, <2>4, OneBlock
<1> QED
    BY <1>1, <1>2

\* The head of a text is all of it when it is not too long.
LEMMA CutKeeps ==
    ASSUME NEW S, NEW text \in Seq(S)
    PROVE  /\ Cut(text) \in Seq(S)
           /\ Len(text) <= MaxBlock => ToSet(text) \subseteq ToSet(Cut(text))
<1> DEFINE L == Len(text)
           n == Least(L, MaxBlock)
<1>1. L \in Nat /\ DOMAIN text = 1..L
    BY ElementsAreOfTheSet
<1> HIDE DEF L
<1>2. MaxBlock \in Nat
    BY ParsingAssumption
<1>3. n = IF L < MaxBlock THEN L ELSE MaxBlock
    BY DEF Least
<1>4. n \in Nat /\ n <= L /\ (L <= MaxBlock => n = L)
    BY <1>1, <1>2, <1>3
<1> HIDE DEF n
<1>5. /\ SubSeq(text, 1, n) \in Seq(S)
      /\ \A k \in 1..n : text[k] \in ToSet(SubSeq(text, 1, n))
    <2>1. text \in Seq(S) /\ n \in Nat /\ n <= Len(text)
        BY <1>4 DEF L
    <2> QED
        BY <2>1, PartOfASequence
<1>6. Cut(text) = SubSeq(text, 1, n)
    BY DEF Cut, n, L
<1> HIDE DEF L
<1> QED
    BY <1>1, <1>4, <1>5, <1>6 DEF ToSet, L

LEMMA TruncatedTells ==
    ASSUME FileOK, NEW u \in DOMAIN file, NEW page \in Nat, NEW section \in Sections,
           Cites(page, section, u)
    PROVE  /\ Truncated(file, u, page, section) \in Seq(TrueBlock)
           /\ \/ Len(file[u].text) > MaxBlock
              \/ LettersOf(u) \subseteq SymbolsIn(Truncated(file, u, page, section))
<1>1. CASE ~Visible(file, u)
    <2>1. Truncated(file, u, page, section) = <<>> /\ <<>> \in Seq(TrueBlock)
        BY <1>1 DEF Truncated
    <2> QED
        BY <1>1, <2>1, SeenIfLetters
<1>2. CASE Visible(file, u)
    <2> DEFINE text == TextOf(file, u)
               stripped == Strip(file, text)
               cut == Cut(stripped)
    <2>1. /\ text \in Seq(True_(page, section)) /\ LettersOf(u) \subseteq ToSet(text)
          /\ Len(text) = Len(file[u].text) /\ Len(file[u].text) \in Nat
        BY TextOfAUnit, UnitsOfAFile
    <2> HIDE DEF text
    <2>2. /\ stripped \in Seq(True_(page, section)) /\ Len(stripped) <= Len(text)
          /\ \A s \in ToSet(text) : KindOf(file, s) = "w" => s \in ToSet(stripped)
        BY <2>1, StripKeeps
    <2> HIDE DEF stripped
    <2>3. LettersOf(u) \subseteq ToSet(stripped)
        BY <2>1, <2>2, LettersOfAFile DEF LettersOf
    <2>4. Truncated(file, u, page, section) = <<Block(cut, page, section)>>
        BY <1>2 DEF Truncated, stripped, text
    <2>5. /\ cut \in Seq(True_(page, section))
          /\ Len(stripped) <= MaxBlock => ToSet(stripped) \subseteq ToSet(cut)
        BY <2>2, CutKeeps
    <2> HIDE DEF cut
    <2>6. Len(file[u].text) > MaxBlock \/ ToSet(stripped) \subseteq ToSet(cut)
        <3>1. Len(stripped) \in Nat /\ MaxBlock \in Nat
            BY <2>2, ElementsAreOfTheSet, ParsingAssumption
        <3> QED
            BY <2>1, <2>2, <2>5, <3>1
    <2> QED
        BY <2>3, <2>4, <2>5, <2>6, OneBlock
<1> QED
    BY <1>1, <1>2

LEMMA SplitUpTells ==
    ASSUME FileOK, NEW u \in DOMAIN file, NEW page \in Nat, NEW section \in Sections,
           Cites(page, section, u)
    PROVE  /\ SplitUp(file, u, page, section) \in Seq(TrueBlock)
           /\ LettersOf(u) \subseteq SymbolsIn(SplitUp(file, u, page, section))
<1> DEFINE T == True_(page, section)
           text == TextOf(file, u)
           stripped == Strip(file, text)
           slices == Slices(stripped, MaxBlock)
           some == SplitUp(file, u, page, section)
<1>1. text \in Seq(T) /\ LettersOf(u) \subseteq ToSet(text)
    BY TextOfAUnit
<1> HIDE DEF text
<1>2. /\ stripped \in Seq(T)
      /\ \A s \in ToSet(text) : KindOf(file, s) = "w" => s \in ToSet(stripped)
    BY <1>1, StripKeeps
<1> HIDE DEF stripped
<1>3. LettersOf(u) \subseteq ToSet(stripped)
    BY <1>1, <1>2, LettersOfAFile DEF LettersOf
<1>4. slices \in Seq({t \in Seq(T) : Len(t) <= MaxBlock}) /\ ToSet(stripped) \subseteq InTexts(slices)
    BY <1>2, SlicesKeep, ParsingAssumption
<1>5. some = [i \in DOMAIN slices |-> Block(slices[i], page, section)]
    BY DEF SplitUp, slices, stripped, text
<1> HIDE DEF slices, some
<1>6. /\ DOMAIN slices = 1..Len(slices) /\ Len(slices) \in Nat
      /\ \A i \in DOMAIN slices : slices[i] \in Seq(T)
    BY <1>4, ElementsAreOfTheSet
<1>7. \A i \in DOMAIN slices : Block(slices[i], page, section) \in TrueBlock
    BY <1>6, BlockIsTrue
<1>8. some \in Seq(TrueBlock)
    BY <1>5, <1>6, <1>7
<1>9. DOMAIN some = DOMAIN slices /\ \A i \in DOMAIN slices : some[i].text = slices[i]
    BY <1>5 DEF Block
<1>10. SymbolsIn(some) = InTexts(slices)
    BY <1>9 DEF SymbolsIn, InTexts
<1> QED
    BY <1>3, <1>4, <1>8, <1>10 DEF some

-----------------------------------------------------------------------------
(* What a parser makes of a file                                           *)

LEMMA SymbolsOfTheElements ==
    ASSUME NEW some, NEW more, ToSet(some) \subseteq ToSet(more)
    PROVE  SymbolsIn(some) \subseteq SymbolsIn(more)
<1>1. ASSUME NEW n \in DOMAIN some PROVE \E m \in DOMAIN more : more[m] = some[n]
    BY DEF ToSet
<1> QED
    BY <1>1 DEF SymbolsIn

LEMMA EachIsThere ==
    ASSUME FileOK, NEW made, made = [u \in DOMAIN file |-> made[u]],
           \A u \in DOMAIN file : made[u] \in Seq(TrueBlock)
    PROVE  /\ FlattenSeq(made) \in Seq(TrueBlock)
           /\ \A u \in DOMAIN file : SymbolsIn(made[u]) \subseteq SymbolsIn(FlattenSeq(made))
<1> DEFINE n == Len(file)
           T == Seq(TrueBlock)
           flat == FlattenSeq(made)
<1>1. DOMAIN file = 1..n /\ n \in Nat
    BY UnitsOfAFile
<1> HIDE DEF n, T
<1>2. made \in Seq(T) /\ Len(made) = n
    <2>1. \A u \in 1..n : made[u] \in T
        BY <1>1 DEF T
    <2> QED
        BY <1>1, <2>1
<1>3. flat \in Seq(TrueBlock) /\ \A u \in 1..n : ToSet(made[u]) \subseteq ToSet(flat)
    BY <1>2, FlattenStays DEF T
<1> HIDE DEF flat
<1>4. ASSUME NEW u \in DOMAIN file PROVE SymbolsIn(made[u]) \subseteq SymbolsIn(flat)
    <2>1. ToSet(made[u]) \subseteq ToSet(flat)
        BY <1>1, <1>3
    <2> QED
        BY <2>1, SymbolsOfTheElements, Zenon
<1> QED
    BY <1>3, <1>4 DEF flat

LEMMA EachTells ==
    ASSUME FileOK, NEW made, made = [u \in DOMAIN file |-> made[u]],
           \A u \in DOMAIN file : UnitTold(u, made[u])
    PROVE  FileTold(FlattenSeq(made))
<1>1. \A u \in DOMAIN file : made[u] \in Seq(TrueBlock)
    BY DEF UnitTold
<1>2. /\ FlattenSeq(made) \in Seq(TrueBlock)
      /\ \A u \in DOMAIN file : SymbolsIn(made[u]) \subseteq SymbolsIn(FlattenSeq(made))
    BY <1>1, EachIsThere
<1> QED
    BY <1>2 DEF UnitTold, FileTold

LEMMA NothingIsTrue == <<>> \in Seq(TrueBlock) /\ SymbolsIn(<<>>) = {}
BY DEF SymbolsIn

\* The nearest heading above a unit, and the first of a page, are units or none.
LEMMA TitlesAreUnits ==
    ASSUME FileOK, NEW u \in DOMAIN file, NEW page, NEW kinds
    PROVE  /\ SectionAt(file, u) \in Sections /\ TitleOf(file, page, kinds) \in Sections
           /\ file[u].is = "heading" /\ Visible(file, u) => SectionAt(file, u) = u
<1>0. DOMAIN file = 1..Len(file) /\ Len(file) \in Nat /\ u \in Nat \ {0}
    BY UnitsOfAFile
<1> DEFINE above == {h \in 1..u : file[h].is = "heading" /\ Visible(file, h)}
           titles == {h \in DOMAIN file : file[h].is \in kinds /\ file[h].page = page}
           head == CHOOSE h \in titles : \A g \in titles : h <= g
<1>1. SectionAt(file, u) = IF above = {} THEN None ELSE CHOOSE h \in above : \A g \in above : g <= h
    BY DEF SectionAt
<1>2. TitleOf(file, page, kinds)
        = IF titles = {} THEN None ELSE IF Visible(file, head) THEN head ELSE None
    BY DEF TitleOf
<1>3. /\ above \in SUBSET (1..u) /\ titles \in SUBSET Nat /\ None \in Nat /\ None \in Sections
      /\ \A h \in above \union titles : h \in Sections
    BY <1>0 DEF None, Sections
<1>h. file[u].is = "heading" /\ Visible(file, u) => u \in above
    BY <1>0
<1> HIDE DEF above, titles
<1>4. ASSUME above # {}
      PROVE  \E h \in above : \A g \in above : g <= h
    <2>1. Max(above) \in above /\ \A g \in above : g <= Max(above)
        BY <1>0, <1>3, <1>4, MaxIsBounded
    <2> QED
        BY <2>1
<1>5. ASSUME titles # {}
      PROVE  \E h \in titles : \A g \in titles : h <= g
    <2>1. PICK h \in titles : \A g \in Nat : g < h => g \notin titles
        BY <1>3, <1>5, SetHasLeast
    <2>2. \A g \in titles : h <= g
        BY <1>3, <2>1
    <2> QED
        BY <2>2
<1>s. above # {} => /\ SectionAt(file, u) \in above
                    /\ \A g \in above : g <= SectionAt(file, u)
    BY <1>1, <1>4, Zenon
<1>t. above = {} => SectionAt(file, u) = None
    BY <1>1, Zenon
<1>6. SectionAt(file, u) \in Sections
    <2>1. \A h \in above : h \in Sections
        BY <1>3
    <2> QED
        BY <1>3, <1>s, <1>t, <2>1, Zenon
<1>7. TitleOf(file, page, kinds) \in Sections
    <2>1. titles # {} => head \in Sections
        BY <1>3, <1>5
    <2> QED
        BY <1>2, <1>3, <2>1, Zenon
<1>8. ASSUME file[u].is = "heading", Visible(file, u) PROVE SectionAt(file, u) = u
    <2>1. u \in above
        BY <1>8, <1>h
    <2>2. SectionAt(file, u) \in above /\ \A g \in above : g <= SectionAt(file, u)
        BY <1>s, <2>1
    <2> DEFINE h == SectionAt(file, u)
    <2> HIDE DEF h
    <2>3. h \in 1..u /\ u <= h
        BY <1>3, <2>1, <2>2 DEF h
    <2>4. h = u
        BY <1>0, <2>3
    <2> QED
        BY <2>4 DEF h
<1> QED
    BY <1>6, <1>7, <1>8

LEMMA SheetsAreNumbers ==
    ASSUME FileOK, NEW u \in DOMAIN file
    PROVE  /\ Sheet(file[u].page) \in Sections /\ Columns \in Sections
           /\ None \in Nat /\ None \in Sections
           /\ file[u].page \in Nat
BY UnitsOfAFile DEF Sheet, Columns, None, Sections

LEMMA PlainTextTells ==
    ASSUME FileOK, format = "text"
    PROVE  FileTold(PlainTextParser(file))
<1> DEFINE made == [u \in DOMAIN file |-> SplitUp(file, u, None, None)]
<1>1. ASSUME NEW u \in DOMAIN file PROVE UnitTold(u, made[u])
    <2>1. Cites(None, None, u)
        BY DEF Cites, TitleAbove
    <2>2. made[u] = SplitUp(file, u, None, None)
        OBVIOUS
    <2> QED
        BY <2>1, <2>2, SplitUpTells, SheetsAreNumbers DEF UnitTold
<1>2. made = [u \in DOMAIN file |-> made[u]] /\ FlattenSeq(made) = PlainTextParser(file)
    BY DEF PlainTextParser, Each
<1> HIDE DEF made
<1> QED
    BY <1>1, <1>2, EachTells

LEMMA RtfTells ==
    ASSUME FileOK, format = "rtf"
    PROVE  FileTold(RtfParser(file))
<1> DEFINE made == [u \in DOMAIN file |-> IF file[u].is = "destination" THEN <<>>
                                          ELSE SplitUp(file, u, None, None)]
<1>1. ASSUME NEW u \in DOMAIN file PROVE UnitTold(u, made[u])
    <2>1. Cites(None, None, u)
        BY DEF Cites, TitleAbove
    <2>2. CASE file[u].is = "destination"
        BY <2>2, NothingIsTrue DEF UnitTold, Lost
    <2>3. CASE file[u].is # "destination"
        <3>1. made[u] = SplitUp(file, u, None, None)
            BY <2>3
        <3> QED
            BY <2>1, <3>1, SplitUpTells, SheetsAreNumbers DEF UnitTold
    <2> QED
        BY <2>2, <2>3
<1>2. made = [u \in DOMAIN file |-> made[u]] /\ FlattenSeq(made) = RtfParser(file)
    BY DEF RtfParser, Each
<1> HIDE DEF made
<1> QED
    BY <1>1, <1>2, EachTells

LEMMA PdfTells ==
    ASSUME FileOK, format = "pdf"
    PROVE  FileTold(PdfParser(file))
<1> DEFINE made == [u \in DOMAIN file |-> IF file[u].is = "damaged" THEN <<>>
                                          ELSE SplitUp(file, u, file[u].page, None)]
<1>1. ASSUME NEW u \in DOMAIN file PROVE UnitTold(u, made[u])
    <2>1. Cites(file[u].page, None, u)
        BY DEF Cites, TitleAbove
    <2>2. CASE file[u].is = "damaged"
        <3>1. Lost(u)
            BY <2>2 DEF Lost, Warned
        <3> QED
            BY <2>2, <3>1, NothingIsTrue DEF UnitTold
    <2>3. CASE file[u].is # "damaged"
        <3>1. made[u] = SplitUp(file, u, file[u].page, None)
            BY <2>3
        <3> QED
            BY <2>1, <3>1, SplitUpTells, SheetsAreNumbers DEF UnitTold
    <2> QED
        BY <2>2, <2>3
<1>2. made = [u \in DOMAIN file |-> made[u]] /\ FlattenSeq(made) = PdfParser(file)
    BY DEF PdfParser, Each
<1> HIDE DEF made
<1> QED
    BY <1>1, <1>2, EachTells

\* A unit stands under the nearest heading, and a heading under itself.
LEMMA UnderTheHeading ==
    ASSUME FileOK, NEW u \in DOMAIN file, format \in {"markdown", "html", "docx", "odt"}
    PROVE  /\ Cites(None, SectionAt(file, u), u) /\ SectionAt(file, u) \in Sections
           /\ file[u].is = "heading" => (Visible(file, u) => Cites(None, u, u))
           /\ u \in Sections /\ None \in Nat
<1>1. TitleAbove(u) = SectionAt(file, u)
    BY DEF TitleAbove
<1>2. /\ SectionAt(file, u) \in Sections
      /\ file[u].is = "heading" /\ Visible(file, u) => SectionAt(file, u) = u
    BY TitlesAreUnits
<1>3. u \in Sections /\ None \in Nat
    BY UnitsOfAFile DEF None, Sections
<1> QED
    BY <1>1, <1>2, <1>3 DEF Cites

LEMMA MarkdownTells ==
    ASSUME FileOK, format = "markdown"
    PROVE  FileTold(MarkdownParser(file))
<1> DEFINE made == [u \in DOMAIN file |-> IF file[u].is = "heading" THEN Whole(file, u, None, u)
                                          ELSE SplitUp(file, u, None, SectionAt(file, u))]
<1>1. ASSUME NEW u \in DOMAIN file PROVE UnitTold(u, made[u])
    <2>1. CASE file[u].is = "heading"
        <3>1. made[u] = Whole(file, u, None, u)
            BY <2>1
        <3> QED
            BY <2>1, <3>1, UnderTheHeading, WholeTells DEF UnitTold
    <2>2. CASE file[u].is # "heading"
        <3>1. made[u] = SplitUp(file, u, None, SectionAt(file, u))
            BY <2>2
        <3> QED
            BY <3>1, UnderTheHeading, SplitUpTells DEF UnitTold
    <2> QED
        BY <2>1, <2>2
<1>2. made = [u \in DOMAIN file |-> made[u]] /\ FlattenSeq(made) = MarkdownParser(file)
    BY DEF MarkdownParser, Each
<1> HIDE DEF made
<1> QED
    BY <1>1, <1>2, EachTells

LEMMA OdtTells ==
    ASSUME FileOK, format = "odt"
    PROVE  FileTold(OdtParser(file))
<1> DEFINE made == [u \in DOMAIN file |-> IF file[u].is = "heading" THEN Whole(file, u, None, u)
                                          ELSE Truncated(file, u, None, SectionAt(file, u))]
<1>1. ASSUME NEW u \in DOMAIN file PROVE UnitTold(u, made[u])
    <2>1. CASE file[u].is = "heading"
        <3>1. made[u] = Whole(file, u, None, u)
            BY <2>1
        <3> QED
            BY <2>1, <3>1, UnderTheHeading, WholeTells DEF UnitTold
    <2>2. CASE file[u].is # "heading"
        <3>1. made[u] = Truncated(file, u, None, SectionAt(file, u))
            BY <2>2
        <3>2. Len(file[u].text) > MaxBlock => Lost(u)
            BY DEF Lost, Cutting
        <3> QED
            BY <3>1, <3>2, UnderTheHeading, TruncatedTells DEF UnitTold
    <2> QED
        BY <2>1, <2>2
<1>2. made = [u \in DOMAIN file |-> made[u]] /\ FlattenSeq(made) = OdtParser(file)
    BY DEF OdtParser, Each
<1> HIDE DEF made
<1> QED
    BY <1>1, <1>2, EachTells

\* Slides and chapters stand under the title of their page.
LEMMA PptxTells ==
    ASSUME FileOK, format = "pptx"
    PROVE  FileTold(PptxParser(file))
<1> DEFINE made == [u \in DOMAIN file |->
                      IF file[u].is = "unread" THEN <<>>
                      ELSE Truncated(file, u, file[u].page, SlideTitle(file, file[u].page))]
<1>1. ASSUME NEW u \in DOMAIN file PROVE UnitTold(u, made[u])
    <2>1. Cites(file[u].page, SlideTitle(file, file[u].page), u)
        BY DEF Cites, TitleAbove
    <2>2. file[u].page \in Nat /\ SlideTitle(file, file[u].page) \in Sections
        BY TitlesAreUnits, SheetsAreNumbers DEF SlideTitle
    <2>3. Len(file[u].text) > MaxBlock => Lost(u)
        BY DEF Lost, Cutting
    <2>4. CASE file[u].is = "unread"
        BY <2>4, NothingIsTrue DEF UnitTold, Lost
    <2>5. CASE file[u].is # "unread"
        <3>1. made[u] = Truncated(file, u, file[u].page, SlideTitle(file, file[u].page))
            BY <2>5
        <3> QED
            BY <2>1, <2>2, <2>3, <3>1, TruncatedTells DEF UnitTold
    <2> QED
        BY <2>4, <2>5
<1>2. made = [u \in DOMAIN file |-> made[u]] /\ FlattenSeq(made) = PptxParser(file)
    BY DEF PptxParser, Each
<1> HIDE DEF made
<1> QED
    BY <1>1, <1>2, EachTells

LEMMA EpubTells ==
    ASSUME FileOK, format = "epub"
    PROVE  FileTold(EpubParser(file))
<1> DEFINE made == [u \in DOMAIN file |->
                      IF file[u].is \in {"unread", "title"} THEN <<>>
                      ELSE Truncated(file, u, file[u].page, ChapterTitle(file, file[u].page))]
<1>1. ASSUME NEW u \in DOMAIN file PROVE UnitTold(u, made[u])
    <2>1. Cites(file[u].page, ChapterTitle(file, file[u].page), u)
        BY DEF Cites, TitleAbove
    <2>2. file[u].page \in Nat /\ ChapterTitle(file, file[u].page) \in Sections
        BY TitlesAreUnits, SheetsAreNumbers DEF ChapterTitle
    <2>3. Len(file[u].text) > MaxBlock => Lost(u)
        BY DEF Lost, Cutting
    <2>4. CASE file[u].is \in {"unread", "title"}
        BY <2>4, NothingIsTrue DEF UnitTold, Lost
    <2>5. CASE file[u].is \notin {"unread", "title"}
        <3>1. made[u] = Truncated(file, u, file[u].page, ChapterTitle(file, file[u].page))
            BY <2>5
        <3> QED
            BY <2>1, <2>2, <2>3, <3>1, TruncatedTells DEF UnitTold
    <2> QED
        BY <2>4, <2>5
<1>2. made = [u \in DOMAIN file |-> made[u]] /\ FlattenSeq(made) = EpubParser(file)
    BY DEF EpubParser, Each
<1> HIDE DEF made
<1> QED
    BY <1>1, <1>2, EachTells

-----------------------------------------------------------------------------
(* Rows and their columns                                                  *)

LEMMA SpacesAreNoLetters ==
    ASSUME FileOK
    PROVE  \A page, section : Space \in True_(page, section)
<1>1. Space \in Nat \X Nat
    BY DEF Space
<1>2. Space \notin Letters_
    <2> SUFFICES ASSUME Space \in Letters_ PROVE FALSE
        OBVIOUS
    <2>1. Space[1] \in DOMAIN file
        BY LettersOfAFile
    <2>2. Space[1] = 0
        BY DEF Space
    <2> QED
        BY <2>1, <2>2, UnitsOfAFile
<1> QED
    BY <1>1, <1>2 DEF True_

\* The cells of a row are of its text.
LEMMA CellsStay ==
    ASSUME NEW S, NEW u, TextOf(file, u) \in Seq(S)
    PROVE  Cells(file, u) \in Seq(Seq(S))
<1> DEFINE text == TextOf(file, u)
           ends == {k \in DOMAIN text : KindOf(file, text[k]) = "c"}
           parts == CutAfter(text, ends)
           T == Seq(S)
<1>1. Cells(file, u) = IF text = <<>> THEN <<>> ELSE [i \in DOMAIN parts |-> Strip(file, parts[i])]
    BY DEF Cells
<1>2. parts \in Seq(T)
    <2>1. ends \in SUBSET DOMAIN text
        OBVIOUS
    <2> HIDE DEF ends, text
    <2> QED
        BY <2>1, CuttingKeeps DEF text
<1> HIDE DEF parts, text
<1>3. /\ DOMAIN parts = 1..Len(parts) /\ Len(parts) \in Nat
      /\ \A i \in DOMAIN parts : parts[i] \in T
    <2> HIDE DEF T
    <2> QED
        BY <1>2, ElementsAreOfTheSet
<1>4. ASSUME NEW i \in DOMAIN parts PROVE Strip(file, parts[i]) \in T
    <2>1. parts[i] \in Seq(S)
        BY <1>3
    <2> QED
        BY <2>1, StripKeeps
<1> HIDE DEF T
<1>5. [i \in DOMAIN parts |-> Strip(file, parts[i])] \in Seq(T) /\ <<>> \in Seq(T)
    BY <1>3, <1>4
<1> QED
    BY <1>1, <1>5 DEF T

\* Texts in one line are all there.
LEMMA SpacedKeeps ==
    ASSUME NEW S, NEW texts \in Seq(Seq(S)), Space \in S
    PROVE  /\ Spaced(file, texts) \in Seq(S)
           /\ \A i \in DOMAIN texts : \A s \in ToSet(texts[i]) :
                 KindOf(file, s) = "w" => s \in ToSet(Spaced(file, texts))
<1> DEFINE T == Seq(S)
           n == Len(texts)
           spaced == [i \in DOMAIN texts |-> IF texts[i] = <<>> THEN <<>> ELSE <<Space>> \o texts[i]]
           flat == FlattenSeq(spaced)
<1>1. DOMAIN texts = 1..n /\ n \in Nat /\ \A i \in DOMAIN texts : texts[i] \in T
    <2> HIDE DEF T
    <2>1. texts \in Seq(T)
        BY DEF T
    <2> QED
        BY <2>1, ElementsAreOfTheSet
<1>2. ASSUME NEW i \in DOMAIN texts
      PROVE  spaced[i] \in T /\ ToSet(texts[i]) \subseteq ToSet(spaced[i])
    <2> DEFINE text == texts[i]
    <2>1. text \in Seq(S) /\ spaced[i] = IF text = <<>> THEN <<>> ELSE <<Space>> \o text
        BY <1>1
    <2> HIDE DEF text, spaced
    <2>2. <<Space>> \in Seq(S) /\ <<>> \in Seq(S)
        OBVIOUS
    <2>3. <<Space>> \o text \in Seq(S) /\ ToSet(<<Space>> \o text) = ToSet(<<Space>>) \union ToSet(text)
        BY <2>1, <2>2, Concatenation, ElementsOfConcatenation
    <2> QED
        BY <2>1, <2>2, <2>3 DEF text
<1> HIDE DEF n
<1>3. spaced \in Seq(T) /\ Len(spaced) = n /\ DOMAIN spaced = 1..n
    <2>1. DOMAIN spaced = 1..n /\ \A i \in 1..n : spaced[i] \in T
        BY <1>1, <1>2
    <2>2. spaced = [i \in 1..n |-> spaced[i]]
        BY <1>1
    <2>3. n \in Nat
        BY <1>1
    <2> HIDE DEF spaced, T
    <2>4. spaced \in Seq(T)
        BY <2>1, <2>2, <2>3
    <2> QED
        BY <2>1, <2>3, <2>4
<1> HIDE DEF spaced
<1>4. flat \in Seq(S) /\ \A i \in 1..n : ToSet(spaced[i]) \subseteq ToSet(flat)
    BY <1>3, FlattenStays
<1>5. Spaced(file, texts) = Strip(file, flat)
    BY DEF Spaced, spaced
<1> HIDE DEF flat
<1>6. /\ Strip(file, flat) \in Seq(S)
      /\ \A s \in ToSet(flat) : KindOf(file, s) = "w" => s \in ToSet(Strip(file, flat))
    BY <1>4, StripKeeps
<1>7. ASSUME NEW i \in DOMAIN texts, NEW s \in ToSet(texts[i]), KindOf(file, s) = "w"
      PROVE  s \in ToSet(Strip(file, flat))
    <2>1. s \in ToSet(flat)
        BY <1>1, <1>2, <1>4
    <2> QED
        BY <1>6, <1>7, <2>1
<1> QED
    BY <1>5, <1>6, <1>7

\* The cells of a row that are under a column are in the text made of it.
LEMMA PairedKeeps ==
    ASSUME NEW S, NEW h, NEW u, NEW named \in BOOLEAN, Space \in S,
           TextOf(file, h) \in Seq(S), TextOf(file, u) \in Seq(S)
    PROVE  /\ Paired(file, h, u, named) \in Seq(S)
           /\ \A i \in DOMAIN Cells(file, u) \intersect DOMAIN Cells(file, h) :
                 (named => Cells(file, h)[i] # <<>>) =>
                    \A s \in ToSet(Cells(file, u)[i]) :
                       KindOf(file, s) = "w" => s \in ToSet(Paired(file, h, u, named))
<1> DEFINE T == Seq(S)
           names == Cells(file, h)
           values == Cells(file, u)
           Named(i) == i \in DOMAIN names /\ (named => names[i] # <<>>)
           pairs == [i \in DOMAIN values |->
                       IF values[i] # <<>> /\ Named(i) THEN names[i] \o <<Space>> \o values[i]
                       ELSE <<>>]
           n == Len(values)
<1>1. names \in Seq(T) /\ values \in Seq(T)
    BY CellsStay
<1>2. Paired(file, h, u, named) = Spaced(file, pairs)
    BY DEF Paired
<1> HIDE DEF names, values
<1>3. /\ DOMAIN values = 1..n /\ n \in Nat /\ \A i \in DOMAIN values : values[i] \in T
      /\ \A i \in DOMAIN names : names[i] \in T
    <2> HIDE DEF T
    <2> QED
        BY <1>1, ElementsAreOfTheSet
<1> HIDE DEF n
<1>4. ASSUME NEW i \in DOMAIN values
      PROVE  /\ pairs[i] \in T
             /\ Named(i) => ToSet(values[i]) \subseteq ToSet(pairs[i])
    <2> DEFINE v == values[i]
               m == names[i]
    <2>1. pairs[i] = IF v # <<>> /\ Named(i) THEN m \o <<Space>> \o v ELSE <<>>
        OBVIOUS
    <2>2. v \in Seq(S) /\ <<Space>> \in Seq(S) /\ <<>> \in Seq(S) /\ (Named(i) => m \in Seq(S))
        BY <1>3
    <2> HIDE DEF v, m, pairs
    <2>3. CASE v # <<>> /\ Named(i)
        <3> DEFINE first == m \o <<Space>>
        <3>1. first \in Seq(S)
            BY <2>2, <2>3, Concatenation
        <3> HIDE DEF first
        <3>2. first \o v \in Seq(S) /\ ToSet(first \o v) = ToSet(first) \union ToSet(v)
            BY <2>2, <3>1, Concatenation, ElementsOfConcatenation
        <3>3. pairs[i] = first \o v
            BY <2>1, <2>3 DEF first
        <3> QED
            BY <3>2, <3>3 DEF v
    <2>4. CASE ~(v # <<>> /\ Named(i))
        <3>1. pairs[i] = <<>>
            BY <2>1, <2>4
        <3>2. Named(i) => pairs[i] = v
            BY <2>4, <3>1
        <3> HIDE DEF Named
        <3> QED
            BY <2>2, <3>1, <3>2 DEF v
    <2> QED
        BY <2>3, <2>4
<1>5. pairs \in Seq(T) /\ DOMAIN pairs = DOMAIN values
    <2>1. DOMAIN pairs = 1..n /\ pairs = [i \in 1..n |-> pairs[i]] /\ \A i \in 1..n : pairs[i] \in T
        BY <1>3, <1>4
    <2> HIDE DEF pairs, T
    <2> QED
        BY <1>3, <2>1
<1> HIDE DEF pairs
<1>6. /\ Spaced(file, pairs) \in Seq(S)
      /\ \A i \in DOMAIN pairs : \A s \in ToSet(pairs[i]) :
            KindOf(file, s) = "w" => s \in ToSet(Spaced(file, pairs))
    BY <1>5, SpacedKeeps
<1>7. ASSUME NEW i \in DOMAIN values \intersect DOMAIN names, named => names[i] # <<>>,
             NEW s \in ToSet(values[i]), KindOf(file, s) = "w"
      PROVE  s \in ToSet(Spaced(file, pairs))
    <2>1. s \in ToSet(pairs[i])
        BY <1>4, <1>7
    <2> QED
        BY <1>5, <1>6, <1>7, <2>1
<1> QED
    BY <1>2, <1>6, <1>7 DEF names, values

\* A header is in the text made of it.
LEMMA ColumnedKeeps ==
    ASSUME NEW S, NEW u, Space \in S, TextOf(file, u) \in Seq(S)
    PROVE  /\ Columned(file, u) \in Seq(S)
           /\ \A i \in DOMAIN Cells(file, u) : \A s \in ToSet(Cells(file, u)[i]) :
                 KindOf(file, s) = "w" => s \in ToSet(Columned(file, u))
<1>1. Cells(file, u) \in Seq(Seq(S))
    BY CellsStay
<1> QED
    BY <1>1, SpacedKeeps DEF Columned

LEMMA IfAnyTells ==
    ASSUME NEW page \in Nat, NEW section \in Sections, NEW text \in Seq(True_(page, section))
    PROVE  /\ IfAny(text, page, section) \in Seq(TrueBlock)
           /\ SymbolsIn(IfAny(text, page, section)) = ToSet(text)
<1>1. CASE text = <<>>
    <2>1. IfAny(text, page, section) = <<>> /\ ToSet(text) = {}
        BY <1>1 DEF IfAny, ToSet
    <2> QED
        BY <2>1, NothingIsTrue
<1>2. CASE text # <<>>
    <2>1. IfAny(text, page, section) = <<Block(text, page, section)>>
        BY <1>2 DEF IfAny
    <2> QED
        BY <2>1, OneBlock
<1> QED
    BY <1>1, <1>2

\* A letter that is in a cell under a column.
LEMMA LettersInColumns ==
    ASSUME FileOK, format \in {"csv", "xlsx"}, NEW u, NEW s \in LettersOf(u)
    PROVE  /\ s \in Letters_ /\ s[1] = u /\ KindOf(file, s) = "w"
           /\ \E i \in DOMAIN Cells(file, u) \intersect DOMAIN Cells(file, HeaderOf(u)) :
                 /\ s \in ToSet(Cells(file, u)[i])
                 /\ format = "xlsx" => Cells(file, HeaderOf(u))[i] # <<>>
<1>1. s \in Letters_ /\ s[1] = u /\ InColumn(s)
    BY DEF LettersOf, Unnamed
<1>2. KindOf(file, s) = "w"
    BY <1>1, LettersOfAFile
<1> QED
    BY <1>1, <1>2 DEF InColumn

\* The header of a sheet that has a row is a row of it.
LEMMA HeaderIsARow ==
    ASSUME FileOK, NEW u \in DOMAIN file, Visible(file, u)
    PROVE  /\ Header(file, file[u].page) \in DOMAIN file
           /\ file[Header(file, file[u].page)].page = file[u].page
<1> DEFINE rows == {h \in DOMAIN file : file[h].page = file[u].page /\ Visible(file, h)}
<1>1. Header(file, file[u].page) = CHOOSE h \in rows : \A g \in rows : h <= g
    BY DEF Header
<1>2. rows \in SUBSET Nat /\ u \in rows
    BY UnitsOfAFile
<1>3. \A h \in rows : h \in DOMAIN file /\ file[h].page = file[u].page
    OBVIOUS
<1> HIDE DEF rows
<1>4. PICK h \in rows : \A g \in Nat : g < h => g \notin rows
    BY <1>2, SetHasLeast
<1>5. \A g \in rows : h <= g
    BY <1>2, <1>4
<1>6. Header(file, file[u].page) \in rows
    BY <1>1, <1>5
<1> QED
    BY <1>3, <1>6

LEMMA XlsxTells ==
    ASSUME FileOK, format = "xlsx"
    PROVE  FileTold(XlsxParser(file))
<1> DEFINE H(u) == Header(file, file[u].page)
           row(u) == Paired(file, H(u), u, TRUE)
           made == [u \in DOMAIN file |->
                      IF ~Visible(file, u) \/ RowNumber(file, u) > MaxRows + 1 THEN <<>>
                      ELSE IF u = H(u)
                      THEN IfAny(Columned(file, u), file[u].page, Sheet(file[u].page))
                      ELSE IfAny(Cut(row(u)), file[u].page, Sheet(file[u].page))]
<1>1. ASSUME NEW u \in DOMAIN file PROVE UnitTold(u, made[u])
    <2> DEFINE page == file[u].page
               S == True_(page, Sheet(page))
               text == Columned(file, u)
    <2>1. page \in Nat /\ Sheet(page) \in Sections
        BY SheetsAreNumbers
    <2>2. CASE ~Visible(file, u) \/ RowNumber(file, u) > MaxRows + 1
        <3>1. Visible(file, u) => Lost(u)
            BY <2>2 DEF Lost, Warned
        <3>2. ~Visible(file, u) => LettersOf(u) = {}
            BY SeenIfLetters
        <3>3. made[u] = <<>>
            BY <2>2
        <3> QED
            BY <3>1, <3>2, <3>3, NothingIsTrue DEF UnitTold
    <2>3. ASSUME Visible(file, u)
          PROVE  /\ Space \in S /\ TextOf(file, u) \in Seq(S) /\ TextOf(file, H(u)) \in Seq(S)
                 /\ HeaderOf(u) = H(u)
        <3>1. H(u) \in DOMAIN file /\ file[H(u)].page = page
            BY <2>3, HeaderIsARow
        <3>2. Cites(page, Sheet(page), u) /\ Cites(page, Sheet(page), H(u))
            BY <3>1 DEF Cites, TitleAbove
        <3>3. HeaderOf(u) = H(u)
            BY DEF HeaderOf
        <3>4. TextOf(file, u) \in Seq(S)
            BY <3>2, TextOfAUnit
        <3>5. TextOf(file, H(u)) \in Seq(S)
            BY <3>1, <3>2, TextOfAUnit
        <3> QED
            BY <3>3, <3>4, <3>5, SpacesAreNoLetters
    <2>4. CASE Visible(file, u) /\ ~(RowNumber(file, u) > MaxRows + 1) /\ u = H(u)
        <3>1. made[u] = IfAny(text, page, Sheet(page))
            BY <2>4
        <3>2. /\ text \in Seq(S)
              /\ \A i \in DOMAIN Cells(file, u) : \A s \in ToSet(Cells(file, u)[i]) :
                    KindOf(file, s) = "w" => s \in ToSet(text)
            BY <2>3, <2>4, ColumnedKeeps
        <3> HIDE DEF text
        <3>3. LettersOf(u) \subseteq ToSet(text)
            BY <3>2, LettersInColumns
        <3>4. /\ IfAny(text, page, Sheet(page)) \in Seq(TrueBlock)
              /\ SymbolsIn(IfAny(text, page, Sheet(page))) = ToSet(text)
            BY <2>1, <3>2, IfAnyTells
        <3> QED
            BY <3>1, <3>3, <3>4 DEF UnitTold
    <2>5. CASE Visible(file, u) /\ ~(RowNumber(file, u) > MaxRows + 1) /\ u # H(u)
        <3> DEFINE t == row(u)
        <3>1. made[u] = IfAny(Cut(t), page, Sheet(page))
            BY <2>5
        <3>2. /\ t \in Seq(S)
              /\ \A i \in DOMAIN Cells(file, u) \intersect DOMAIN Cells(file, H(u)) :
                    Cells(file, H(u))[i] # <<>> =>
                       \A s \in ToSet(Cells(file, u)[i]) :
                          KindOf(file, s) = "w" => s \in ToSet(t)
            BY <2>3, <2>5, PairedKeeps
        <3>3. Len(t) > MaxBlock => Lost(u)
            BY <2>3, <2>5 DEF Lost
        <3> HIDE DEF t, H
        <3>4. LettersOf(u) \subseteq ToSet(t)
            BY <2>3, <2>5, <3>2, LettersInColumns
        <3>5. /\ Cut(t) \in Seq(S)
              /\ Len(t) <= MaxBlock => ToSet(t) \subseteq ToSet(Cut(t))
            BY <3>2, CutKeeps
        <3>6. /\ IfAny(Cut(t), page, Sheet(page)) \in Seq(TrueBlock)
              /\ SymbolsIn(IfAny(Cut(t), page, Sheet(page))) = ToSet(Cut(t))
            BY <2>1, <3>5, IfAnyTells
        <3>7. Len(t) \in Nat /\ MaxBlock \in Nat
            BY <3>2, ElementsAreOfTheSet, ParsingAssumption
        <3>8. Lost(u) \/ ToSet(t) \subseteq ToSet(Cut(t))
            BY <3>3, <3>5, <3>7
        <3> QED
            BY <3>1, <3>4, <3>6, <3>8 DEF UnitTold
    <2> QED
        BY <2>2, <2>4, <2>5
<1>2. made = [u \in DOMAIN file |-> made[u]] /\ FlattenSeq(made) = XlsxParser(file)
    BY DEF XlsxParser, Each
<1> HIDE DEF made
<1> QED
    BY <1>1, <1>2, EachTells

LEMMA DelimitedTextTells ==
    ASSUME FileOK, format = "csv"
    PROVE  FileTold(DelimitedTextParser(file))
<1> DEFINE made == [u \in DOMAIN file |->
                      IF u = 1 THEN IfAny(Columned(file, u), None, Columns)
                      ELSE IF u > MaxRows + 1 THEN <<>>
                      ELSE IfAny(Paired(file, 1, u, FALSE), None, None)]
<1>0. None \in Nat /\ None \in Sections
    BY DEF None, Sections
<1>1. ASSUME NEW u \in DOMAIN file PROVE UnitTold(u, made[u])
    <2>0. HeaderOf(u) = 1
        BY DEF HeaderOf
    <2>1. CASE u = 1
        <3> DEFINE text == Columned(file, u)
                   S == True_(None, Columns)
        <3>1. Cites(None, Columns, u)
            BY <2>1 DEF Cites
        <3>2. made[u] = IfAny(text, None, Columns)
            BY <2>1
        <3>3. TextOf(file, u) \in Seq(S) /\ Space \in S /\ Columns \in Sections
            BY <3>1, TextOfAUnit, SpacesAreNoLetters, SheetsAreNumbers
        <3>4. /\ text \in Seq(S)
              /\ \A i \in DOMAIN Cells(file, u) : \A s \in ToSet(Cells(file, u)[i]) :
                    KindOf(file, s) = "w" => s \in ToSet(text)
            BY <3>3, ColumnedKeeps
        <3> HIDE DEF text
        <3>5. LettersOf(u) \subseteq ToSet(text)
            BY <3>4, LettersInColumns
        <3>6. /\ IfAny(text, None, Columns) \in Seq(TrueBlock)
              /\ SymbolsIn(IfAny(text, None, Columns)) = ToSet(text)
            BY <1>0, <3>3, <3>4, IfAnyTells
        <3> QED
            BY <3>2, <3>5, <3>6 DEF UnitTold
    <2>2. CASE u # 1 /\ ~(u > MaxRows + 1)
        <3> DEFINE text == Paired(file, 1, u, FALSE)
                   S == True_(None, None)
        <3>1. Cites(None, None, u) /\ Cites(None, None, 1)
            BY <2>2 DEF Cites, TitleAbove
        <3>2. made[u] = IfAny(text, None, None)
            BY <2>2
        <3>3. 1 \in DOMAIN file
            BY UnitsOfAFile
        <3>4. TextOf(file, u) \in Seq(S) /\ TextOf(file, 1) \in Seq(S) /\ Space \in S
            BY <3>1, <3>3, TextOfAUnit, SpacesAreNoLetters
        <3>5. /\ text \in Seq(S)
              /\ \A i \in DOMAIN Cells(file, u) \intersect DOMAIN Cells(file, 1) :
                    \A s \in ToSet(Cells(file, u)[i]) :
                       KindOf(file, s) = "w" => s \in ToSet(text)
            BY <3>4, PairedKeeps
        <3> HIDE DEF text
        <3>6. LettersOf(u) \subseteq ToSet(text)
            BY <2>0, <3>5, LettersInColumns
        <3>7. /\ IfAny(text, None, None) \in Seq(TrueBlock)
              /\ SymbolsIn(IfAny(text, None, None)) = ToSet(text)
            BY <1>0, <3>5, IfAnyTells
        <3> QED
            BY <3>2, <3>6, <3>7 DEF UnitTold
    <2>3. CASE u # 1 /\ u > MaxRows + 1
        <3>1. Len(file) > MaxRows + 1
            BY <2>3, UnitsOfAFile, ParsingAssumption
        <3>2. Lost(u)
            BY <2>3, <3>1 DEF Lost, Warned
        <3>3. made[u] = <<>>
            BY <2>3
        <3> QED
            BY <3>2, <3>3, NothingIsTrue DEF UnitTold
    <2> QED
        BY <2>1, <2>2, <2>3
<1>2. made = [u \in DOMAIN file |-> made[u]] /\ FlattenSeq(made) = DelimitedTextParser(file)
    BY DEF DelimitedTextParser, Each
<1> HIDE DEF made
<1> QED
    BY <1>1, <1>2, EachTells

LEMMA ImageTells ==
    ASSUME FileOK, format = "image"
    PROVE  FileTold(ImageParser(file))
<1> DEFINE made == [u \in DOMAIN file |-> IF file[u].is = "faint" THEN <<>>
                                          ELSE Whole(file, u, 1, None)]
<1>1. ASSUME NEW u \in DOMAIN file PROVE UnitTold(u, made[u])
    <2>1. Cites(1, None, u)
        BY DEF Cites, TitleAbove, FileOK
    <2>2. CASE file[u].is = "faint"
        BY <2>2, NothingIsTrue DEF UnitTold, Lost
    <2>3. CASE file[u].is # "faint"
        <3>1. made[u] = Whole(file, u, 1, None)
            BY <2>3
        <3> QED
            BY <2>1, <3>1, WholeTells, SheetsAreNumbers DEF UnitTold
    <2> QED
        BY <2>2, <2>3
<1>2. made = [u \in DOMAIN file |-> made[u]] /\ FlattenSeq(made) = ImageParser(file)
    BY DEF ImageParser, Each
<1> HIDE DEF made
<1> QED
    BY <1>1, <1>2, EachTells

LEMMA HtmlTells ==
    ASSUME FileOK, format = "html"
    PROVE  FileTold(HtmlParser(file))
<1> DEFINE made == [u \in DOMAIN file |->
                      IF file[u].is = "heading" THEN Whole(file, u, None, u)
                      ELSE IF file[u].is = "paragraph"
                      THEN Truncated(file, u, None, SectionAt(file, u)) ELSE <<>>]
           loose == [u \in DOMAIN file |->
                      IF file[u].is = "loose" THEN SplitUp(file, u, None, None) ELSE <<>>]
           tagged == FlattenSeq(made)
<1>1. ASSUME NEW u \in DOMAIN file PROVE UnitTold(u, made[u])
    <2>1. CASE file[u].is = "heading"
        <3>1. made[u] = Whole(file, u, None, u)
            BY <2>1
        <3> QED
            BY <2>1, <3>1, UnderTheHeading, WholeTells DEF UnitTold
    <2>2. CASE file[u].is = "paragraph"
        <3>1. made[u] = Truncated(file, u, None, SectionAt(file, u))
            BY <2>2
        <3>2. Len(file[u].text) > MaxBlock => Lost(u)
            BY DEF Lost, Cutting
        <3> QED
            BY <3>1, <3>2, UnderTheHeading, TruncatedTells DEF UnitTold
    <2>3. CASE file[u].is \in {"loose", "unread"}
        BY <2>3, NothingIsTrue DEF UnitTold, Lost
    <2> QED
        BY <2>1, <2>2, <2>3 DEF FileOK
<1>2. ASSUME NEW u \in DOMAIN file PROVE loose[u] \in Seq(TrueBlock)
    <2>1. CASE file[u].is = "loose"
        <3>1. Cites(None, None, u)
            BY <2>1 DEF Cites
        <3>2. loose[u] = SplitUp(file, u, None, None)
            BY <2>1
        <3> QED
            BY <3>1, <3>2, SplitUpTells, SheetsAreNumbers
    <2>2. CASE file[u].is # "loose"
        BY <2>2, NothingIsTrue
    <2> QED
        BY <2>1, <2>2
<1>3. /\ made = [u \in DOMAIN file |-> made[u]] /\ loose = [u \in DOMAIN file |-> loose[u]]
      /\ HtmlParser(file) = IF tagged # <<>> THEN tagged ELSE FlattenSeq(loose)
    BY DEF HtmlParser, Each
<1> HIDE DEF made, loose
<1>4. FileTold(tagged)
    BY <1>1, <1>3, EachTells
<1> HIDE DEF tagged
<1>5. FlattenSeq(loose) \in Seq(TrueBlock)
    BY <1>2, <1>3, EachIsThere
<1>6. CASE tagged # <<>>
    BY <1>3, <1>4, <1>6
<1>7. CASE tagged = <<>>
    <2>1. \A u \in DOMAIN file : Lost(u) \/ LettersOf(u) \subseteq {}
        BY <1>4, <1>7, NothingIsTrue DEF FileTold
    <2>2. HtmlParser(file) = FlattenSeq(loose)
        BY <1>3, <1>7
    <2>3. \A u \in DOMAIN file : Lost(u) \/ LettersOf(u) \subseteq SymbolsIn(HtmlParser(file))
        BY <2>1
    <2> QED
        BY <1>5, <2>2, <2>3 DEF FileTold
<1> QED
    BY <1>6, <1>7

LEMMA SymbolsOfConcatenation ==
    ASSUME NEW S, NEW some \in Seq(S), NEW more \in Seq(S)
    PROVE  SymbolsIn(some \o more) = SymbolsIn(some) \union SymbolsIn(more)
<1>1. ASSUME NEW seq PROVE SymbolsIn(seq) = UNION {ToSet(b.text) : b \in ToSet(seq)}
    BY DEF SymbolsIn, ToSet
<1> DEFINE all == some \o more
<1>2. ToSet(all) = ToSet(some) \union ToSet(more)
    BY ElementsOfConcatenation
<1> HIDE DEF all
<1>3. UNION {ToSet(b.text) : b \in ToSet(some) \union ToSet(more)}
        = (UNION {ToSet(b.text) : b \in ToSet(some)}) \union (UNION {ToSet(b.text) : b \in ToSet(more)})
    OBVIOUS
<1>4. SymbolsIn(all) = SymbolsIn(some) \union SymbolsIn(more)
    BY <1>1, <1>2, <1>3, Zenon
<1> QED
    BY <1>4 DEF all

LEMMA DocxTells ==
    ASSUME FileOK, format = "docx"
    PROVE  FileTold(DocxParser(file))
<1> DEFINE made == [u \in DOMAIN file |->
                      IF file[u].is = "heading" THEN Whole(file, u, None, u)
                      ELSE IF file[u].is \in {"row", "unread"} THEN <<>>
                      ELSE Truncated(file, u, None, SectionAt(file, u))]
           rows == [u \in DOMAIN file |->
                      IF file[u].is = "row" THEN Whole(file, u, None, SectionAt(file, Len(file)))
                      ELSE <<>>]
<1>1. ASSUME NEW u \in DOMAIN file
      PROVE  /\ made[u] \in Seq(TrueBlock) /\ rows[u] \in Seq(TrueBlock)
             /\ \/ Lost(u) \/ LettersOf(u) \subseteq SymbolsIn(made[u])
                \/ LettersOf(u) \subseteq SymbolsIn(rows[u])
    <2>1. CASE file[u].is = "heading"
        <3>1. made[u] = Whole(file, u, None, u) /\ rows[u] = <<>>
            BY <2>1
        <3>2. made[u] \in Seq(TrueBlock) /\ LettersOf(u) \subseteq SymbolsIn(made[u])
            BY <2>1, <3>1, UnderTheHeading, WholeTells
        <3> QED
            BY <3>1, <3>2, NothingIsTrue
    <2>2. CASE file[u].is = "row"
        <3>1. made[u] = <<>> /\ rows[u] = Whole(file, u, None, SectionAt(file, Len(file)))
            BY <2>2
        <3>2. Cites(None, SectionAt(file, Len(file)), u)
            BY <2>2 DEF Cites
        <3>3. Len(file) \in DOMAIN file
            BY UnitsOfAFile
        <3>4. SectionAt(file, Len(file)) \in Sections /\ None \in Nat
            BY <3>3, UnderTheHeading
        <3>5. rows[u] \in Seq(TrueBlock) /\ LettersOf(u) \subseteq SymbolsIn(rows[u])
            BY <3>1, <3>2, <3>4, WholeTells
        <3> QED
            BY <3>1, <3>5, NothingIsTrue
    <2>4. CASE file[u].is = "unread"
        BY <2>4, NothingIsTrue DEF Lost
    <2>3. CASE file[u].is \notin {"heading", "row", "unread"}
        <3>1. made[u] = Truncated(file, u, None, SectionAt(file, u)) /\ rows[u] = <<>>
            BY <2>3
        <3>2. Len(file[u].text) > MaxBlock => Lost(u)
            BY DEF Lost, Cutting
        <3>3. /\ made[u] \in Seq(TrueBlock)
              /\ Len(file[u].text) > MaxBlock \/ LettersOf(u) \subseteq SymbolsIn(made[u])
            BY <3>1, UnderTheHeading, TruncatedTells
        <3> QED
            BY <3>1, <3>2, <3>3, NothingIsTrue
    <2> QED
        BY <2>1, <2>2, <2>3, <2>4
<1> DEFINE first == FlattenSeq(made)
           last == FlattenSeq(rows)
<1>2. /\ made = [u \in DOMAIN file |-> made[u]] /\ rows = [u \in DOMAIN file |-> rows[u]]
      /\ DocxParser(file) = first \o last
    BY DEF DocxParser, Each
<1> HIDE DEF made, rows
<1>3. /\ first \in Seq(TrueBlock)
      /\ \A u \in DOMAIN file : SymbolsIn(made[u]) \subseteq SymbolsIn(first)
    BY <1>1, <1>2, EachIsThere
<1>4. /\ last \in Seq(TrueBlock)
      /\ \A u \in DOMAIN file : SymbolsIn(rows[u]) \subseteq SymbolsIn(last)
    BY <1>1, <1>2, EachIsThere
<1> HIDE DEF first, last
<1>5. /\ first \o last \in Seq(TrueBlock)
      /\ SymbolsIn(first \o last) = SymbolsIn(first) \union SymbolsIn(last)
    BY <1>3, <1>4, Concatenation, SymbolsOfConcatenation
<1> QED
    BY <1>1, <1>2, <1>3, <1>4, <1>5 DEF FileTold

-----------------------------------------------------------------------------
(* Lines of code                                                           *)

Joint(buffer, u) == IF buffer = <<>> THEN <<>> ELSE << <<u, 0>> >>

\* The symbols of a unit, and of the line break before it, are of a set.
Fits(S, u) == TextOf(file, u) \in Seq(S) /\ <<u, 0>> \in S

LEMMA UnitsFit ==
    ASSUME FileOK, NEW u \in DOMAIN file
    PROVE  /\ Fits(Nat \X Nat, u)
           /\ \A page, section : Cites(page, section, u) => Fits(True_(page, section), u)
           /\ Len(TextOf(file, u)) = Len(file[u].text)
           /\ LettersOf(u) \subseteq ToSet(TextOf(file, u))
<1>1. u \in Nat /\ 0 \notin DOMAIN file[u].text /\ <<u, 0>> \in Nat \X Nat
    BY UnitsOfAFile
<1>2. <<u, 0>> \notin Letters_
    BY <1>1, LettersOfAFile
<1>3. ASSUME NEW page, NEW section, Cites(page, section, u)
      PROVE  Fits(True_(page, section), u)
    <2>1. <<u, 0>> \in True_(page, section)
        BY <1>1, <1>2 DEF True_
    <2> QED
        BY <1>3, <2>1, TextOfAUnit DEF Fits
<1>4. Cites(None, TitleAbove(u), u)
    BY DEF Cites
<1>5. /\ TextOf(file, u) \in Seq(True_(None, TitleAbove(u)))
      /\ Len(TextOf(file, u)) = Len(file[u].text)
      /\ LettersOf(u) \subseteq ToSet(TextOf(file, u))
    BY <1>4, TextOfAUnit
<1>6. TextOf(file, u) \in Seq(Nat \X Nat)
    <2>1. ToSet(TextOf(file, u)) \subseteq True_(None, TitleAbove(u))
        BY <1>5, ElementsAreOfTheSet
    <2>2. ToSet(TextOf(file, u)) \subseteq Nat \X Nat
        BY <2>1 DEF True_
    <2> QED
        BY <1>5, <2>2, SequencesOfMore
<1> QED
    BY <1>1, <1>3, <1>5, <1>6 DEF Fits

LEMMA LineOfCode ==
    ASSUME FileOK, NEW S, NEW u \in DOMAIN file, Fits(S, u), NEW buffer
    PROVE  /\ Joint(buffer, u) \o TextOf(file, u) \in Seq(S)
           /\ Len(Joint(buffer, u) \o TextOf(file, u))
                = (IF buffer = <<>> THEN 0 ELSE 1) + Len(file[u].text)
           /\ LettersOf(u) \subseteq ToSet(Joint(buffer, u) \o TextOf(file, u))
<1> DEFINE joint == Joint(buffer, u)
           text == TextOf(file, u)
<1>1. text \in Seq(S) /\ Len(text) = Len(file[u].text) /\ LettersOf(u) \subseteq ToSet(text)
    BY UnitsFit DEF Fits
<1>2. <<u, 0>> \in S
    BY DEF Fits
<1> HIDE DEF text
<1>3. joint \in Seq(S) /\ Len(joint) = IF buffer = <<>> THEN 0 ELSE 1
    <2>1. CASE buffer = <<>>
        BY <2>1, EmptyIsASequence DEF Joint
    <2>2. CASE buffer # <<>>
        BY <1>2, <2>2 DEF Joint
    <2> QED
        BY <2>1, <2>2
<1> HIDE DEF joint
<1>4. /\ joint \o text \in Seq(S) /\ Len(joint \o text) = Len(joint) + Len(text)
      /\ ToSet(joint \o text) = ToSet(joint) \union ToSet(text)
    BY <1>1, <1>3, Concatenation, ElementsOfConcatenation
<1> QED
    BY <1>1, <1>3, <1>4 DEF joint, text

\* The lines of a buffer, and of one with a line more.
LEMMA LinesOfMore ==
    ASSUME FileOK, NEW S, NEW buffer \in Seq(DOMAIN file),
           \A n \in DOMAIN buffer : Fits(S, buffer[n])
    PROVE  /\ Lines(buffer, file) \in Seq(S)
           /\ \A n \in DOMAIN buffer : LettersOf(buffer[n]) \subseteq ToSet(Lines(buffer, file))
           /\ \A u \in DOMAIN file : Fits(S, u) =>
                 Lines(Append(buffer, u), file)
                     = Lines(buffer, file) \o (Joint(buffer, u) \o TextOf(file, u))
<1> DEFINE Line(some, n) == (IF n = 1 THEN <<>> ELSE << <<some[n], 0>> >>) \o TextOf(file, some[n])
           made == [n \in DOMAIN buffer |-> Line(buffer, n)]
           L == Len(buffer)
<1>1. L \in Nat /\ DOMAIN buffer = 1..L /\ \A n \in 1..L : buffer[n] \in DOMAIN file
    BY ElementsAreOfTheSet
<1>0. buffer = <<>> <=> L = 0
    OBVIOUS
<1> HIDE DEF L
<1>2. ASSUME NEW n \in 1..L
      PROVE  /\ Line(buffer, n) \in Seq(S)
             /\ LettersOf(buffer[n]) \subseteq ToSet(Line(buffer, n))
    <2> DEFINE before == IF n = 1 THEN <<>> ELSE <<0>>
    <2>1. Line(buffer, n) = Joint(before, buffer[n]) \o TextOf(file, buffer[n])
        BY DEF Joint
    <2> HIDE DEF before, Line
    <2> QED
        BY <1>1, <2>1, LineOfCode
<1>3. made \in Seq(Seq(S)) /\ Len(made) = L /\ \A n \in 1..L : made[n] = Line(buffer, n)
    <2> DEFINE Q == Seq(S)
    <2>1. \A n \in 1..L : Line(buffer, n) \in Q
        BY <1>2
    <2> HIDE DEF Q, Line
    <2>2. made \in Seq(Q) /\ Len(made) = L /\ \A n \in 1..L : made[n] = Line(buffer, n)
        BY <1>1, <2>1
    <2> QED
        BY <2>2 DEF Q
<1>4. Lines(buffer, file) = FlattenSeq(made)
    BY DEF Lines
<1>5. ASSUME NEW u \in DOMAIN file, Fits(S, u)
      PROVE  Lines(Append(buffer, u), file)
                 = Lines(buffer, file) \o (Joint(buffer, u) \o TextOf(file, u))
    <2> DEFINE more == Append(buffer, u)
               line == Joint(buffer, u) \o TextOf(file, u)
    <2>1. /\ more \in Seq(DOMAIN file) /\ Len(more) = L + 1 /\ more[L + 1] = u
          /\ \A n \in 1..L : more[n] = buffer[n]
        BY ElementsOfAppend DEF L
    <2> HIDE DEF more
    <2>2. DOMAIN more = 1..L + 1
        BY <2>1, ElementsAreOfTheSet
    <2>3. line \in Seq(S)
        BY <1>5, LineOfCode
    <2>4. line = Line(more, L + 1)
        <3>1. L + 1 = 1 <=> buffer = <<>>
            BY <1>0, <1>1
        <3> QED
            BY <2>1, <3>1 DEF Joint
    <2>5. \A n \in 1..L : Line(more, n) = Line(buffer, n)
        BY <2>1
    <2> HIDE DEF line, Line
    <2>6. [n \in 1..L + 1 |-> Line(more, n)] = Append(made, line)
        <3> DEFINE Q == Seq(S)
        <3>1. made \in Seq(Q) /\ line \in Q
            BY <1>3, <2>3
        <3> HIDE DEF Q, made
        <3>2. /\ Append(made, line) \in Seq(Q) /\ Len(Append(made, line)) = L + 1
              /\ Append(made, line)[L + 1] = line
              /\ \A n \in 1..L : Append(made, line)[n] = made[n]
            BY <3>1, <1>3, ElementsOfAppend
        <3> DEFINE longer == Append(made, line)
        <3>a. longer \in Seq(Q) /\ Len(longer) = L + 1
            BY <3>2
        <3> HIDE DEF longer
        <3>b. DOMAIN longer = 1..L + 1
            BY <3>a, ElementsAreOfTheSet
        <3>3. longer = [n \in 1..L + 1 |-> longer[n]]
            BY <3>a, <3>b
        <3>4. ASSUME NEW n \in 1..L + 1 PROVE longer[n] = Line(more, n)
            <4>1. n \in 1..L \/ n = L + 1
                BY <1>1
            <4> QED
                BY <4>1, <3>2, <1>3, <2>4, <2>5 DEF longer
        <3>5. longer = [n \in 1..L + 1 |-> Line(more, n)]
            BY <3>3, <3>4, Zenon
        <3> QED
            BY <3>5, Zenon DEF longer
    <2>7. Lines(more, file) = FlattenSeq([n \in 1..L + 1 |-> Line(more, n)])
        BY <2>2 DEF Lines, Line
    <2>8. FlattenSeq(Append(made, line)) = FlattenSeq(made) \o line
        BY <1>3, <2>3, FlattenOfAppend
    <2> HIDE DEF made
    <2>9. Lines(more, file) = Lines(buffer, file) \o line
        BY <1>4, <2>6, <2>7, <2>8, Zenon
    <2> QED
        BY <2>9 DEF more, line
<1> HIDE DEF made, Line
<1>6. /\ FlattenSeq(made) \in Seq(S)
      /\ \A n \in 1..L : ToSet(made[n]) \subseteq ToSet(FlattenSeq(made))
    BY <1>3, FlattenStays
<1>7. \A n \in DOMAIN buffer : LettersOf(buffer[n]) \subseteq ToSet(Lines(buffer, file))
    BY <1>1, <1>2, <1>3, <1>4, <1>6
<1> QED
    BY <1>4, <1>5, <1>6, <1>7

\* What line of code a unit is defined by: its own if it is a definition, and
\* else that of the line before.
LEMMA DefinitionAt ==
    ASSUME FileOK, format = "code", NEW u \in DOMAIN file
    PROVE  /\ TitleAbove(u) \in Sections
           /\ file[u].is = "definition" => TitleAbove(u) = u
           /\ file[u].is # "definition" =>
                TitleAbove(u) = IF u = 1 THEN None ELSE TitleAbove(u - 1)
<1> DEFINE above(v) == {d \in 1..v : file[d].is = "definition"}
<1>1. ASSUME NEW v
      PROVE  TitleAbove(v) = IF above(v) = {} THEN None
                             ELSE CHOOSE d \in above(v) : \A e \in above(v) : e <= d
    BY DEF TitleAbove
<1>2. u \in Nat \ {0}
    BY UnitsOfAFile
<1>3. above(u) \in SUBSET (1..u) /\ None \in Nat
    BY DEF None
<1>4. file[u].is = "definition" => u \in above(u)
    BY <1>2
<1>5. file[u].is # "definition" => above(u) = IF u = 1 THEN {} ELSE above(u - 1)
    <2> SUFFICES ASSUME file[u].is # "definition"
                 PROVE  above(u) = IF u = 1 THEN {} ELSE above(u - 1)
        OBVIOUS
    <2>1. CASE u = 1
        BY <2>1
    <2>2. CASE u # 1
        <3>1. \A d : d \in 1..u /\ d # u <=> d \in 1..u - 1
            BY <1>2
        <3> QED
            BY <2>2, <3>1
    <2> QED
        BY <2>1, <2>2
<1> DEFINE a == above(u)
<1>6. a # {} => /\ TitleAbove(u) \in a
                /\ \A e \in a : e <= TitleAbove(u)
    <2> SUFFICES ASSUME a # {}
                 PROVE  /\ TitleAbove(u) \in a
                        /\ \A e \in a : e <= TitleAbove(u)
        OBVIOUS
    <2>1. \E d \in a : \A e \in a : e <= d
        <3> HIDE DEF above
        <3>1. Max(a) \in a /\ \A e \in a : e <= Max(a)
            BY <1>2, <1>3, MaxIsBounded
        <3> QED
            BY <3>1
    <2>2. TitleAbove(u) = CHOOSE d \in a : \A e \in a : e <= d
        BY <1>1
    <2> HIDE DEF a
    <2> QED
        BY <2>1, <2>2, Zenon
<1>7. a = {} => TitleAbove(u) = None
    BY <1>1
<1>8. TitleAbove(u) \in Sections
    <2>1. \A d \in a : d \in Sections
        BY <1>2, UnitsOfAFile DEF Sections
    <2>2. None \in Sections
        BY DEF None, Sections
    <2> HIDE DEF a
    <2> QED
        BY <1>6, <1>7, <2>1, <2>2
<1>9. file[u].is = "definition" => TitleAbove(u) = u
    <2> HIDE DEF a, above
    <2>1. \A d \in a : d \in 1..u
        BY <1>3 DEF a
    <2> QED
        BY <1>2, <1>4, <1>6, <2>1 DEF a
<1>10. ASSUME file[u].is # "definition"
       PROVE  TitleAbove(u) = IF u = 1 THEN None ELSE TitleAbove(u - 1)
    <2>1. CASE u = 1
        BY <1>5, <1>7, <1>10, <2>1
    <2>2. CASE u # 1
        <3>1. a = above(u - 1)
            BY <1>5, <1>10, <2>2
        <3>2. /\ TitleAbove(u) = IF a = {} THEN None ELSE CHOOSE d \in a : \A e \in a : e <= d
              /\ TitleAbove(u - 1) = IF above(u - 1) = {} THEN None
                       ELSE CHOOSE d \in above(u - 1) : \A e \in above(u - 1) : e <= d
            BY <1>1, Zenon
        <3> HIDE DEF a, above
        <3> QED
            BY <2>2, <3>1, <3>2, Zenon
    <2> QED
        BY <2>1, <2>2
<1> QED
    BY <1>8, <1>9, <1>10

\* One line more of a file of code, as the parser reads it.
ReadOne(reading, u) ==
    LET begun == IF file[u].is = "definition"
                 THEN [FlushCode(file, reading) EXCEPT !.definition = u] ELSE reading
        more == [begun EXCEPT !.buffer = Append(@, u)]
    IN IF Letters(file, more.buffer) > MaxBlock THEN FlushCode(file, more) ELSE more

StepOfRead(units, before, s) ==
    IF s = {} THEN Reading ELSE ReadOne(before[s \ {Max(s)}], units[Max(s)])

Readings == [blocks : Seq([text : Seq(Nat \X Nat), page : Nat, section : Sections]),
             buffer : Seq(DOMAIN file), definition : Sections]

LEMMA FlushStays ==
    ASSUME FileOK, NEW r \in Readings
    PROVE  FlushCode(file, r) \in Readings
<1> DEFINE B == [text : Seq(Nat \X Nat), page : Nat, section : Sections]
<1> DEFINE body == Strip(file, Lines(r.buffer, file))
           cut == Cut(body)
           block == Block(cut, None, r.definition)
           flushed == IF body = <<>> THEN r.blocks ELSE Append(r.blocks, block)
<1>1. r.blocks \in Seq(B) /\ r.buffer \in Seq(DOMAIN file) /\ r.definition \in Sections
    BY DEF Readings
<1>2. \A n \in DOMAIN r.buffer : Fits(Nat \X Nat, r.buffer[n])
    BY <1>1, ElementsAreOfTheSet, UnitsFit
<1>3. Lines(r.buffer, file) \in Seq(Nat \X Nat)
    BY <1>1, <1>2, LinesOfMore
<1>4. body \in Seq(Nat \X Nat)
    BY <1>3, StripKeeps
<1>a. FlushCode(file, r) = [r EXCEPT !.buffer = <<>>, !.blocks = flushed]
    BY DEF FlushCode
<1> HIDE DEF body
<1>5. cut \in Seq(Nat \X Nat)
    BY <1>4, CutKeeps
<1> HIDE DEF cut
<1>6. block \in B
    BY <1>1, <1>5 DEF Block, None
<1> HIDE DEF block, B
<1>7. flushed \in Seq(B)
    BY <1>1, <1>6, ElementsOfAppend
<1>8. <<>> \in Seq(DOMAIN file)
    BY EmptyIsASequence
<1> HIDE DEF flushed
<1>9. [r EXCEPT !.buffer = <<>>, !.blocks = flushed] \in Readings
    BY <1>7, <1>8 DEF Readings, B
<1> QED
    BY <1>9, <1>a

LEMMA ReadingsStay ==
    ASSUME FileOK, NEW u \in DOMAIN file, NEW reading \in Readings
    PROVE  ReadOne(reading, u) \in Readings
<1> DEFINE flushed == FlushCode(file, reading)
           begun == IF file[u].is = "definition"
                    THEN [flushed EXCEPT !.definition = u] ELSE reading
           more == [begun EXCEPT !.buffer = Append(@, u)]
<1>2. begun \in Readings
    <2>1. flushed \in Readings /\ u \in Sections
        BY FlushStays, UnitsOfAFile DEF Sections
    <2> HIDE DEF flushed
    <2>2. [flushed EXCEPT !.definition = u] \in Readings
        BY <2>1 DEF Readings
    <2> QED
        BY <2>2
<1>a. ReadOne(reading, u) = IF Letters(file, more.buffer) > MaxBlock THEN FlushCode(file, more)
                            ELSE more
    BY DEF ReadOne
<1> HIDE DEF begun
<1>3. more \in Readings
    <2>1. begun.buffer \in Seq(DOMAIN file)
        BY <1>2 DEF Readings
    <2>2. Append(begun.buffer, u) \in Seq(DOMAIN file)
        BY <2>1, ElementsOfAppend
    <2> QED
        BY <1>2, <2>2 DEF Readings
<1> HIDE DEF more
<1> QED
    BY <1>3, <1>a, FlushStays

LEMMA CodeParserIsALoop ==
    ASSUME FileOK
    PROVE  \E g \in [0..Len(file) -> Readings] :
              /\ g[0] = Reading
              /\ \A m \in 1..Len(file) : g[m] = ReadOne(g[m - 1], m)
              /\ CodeParser(file) = FlushCode(file, g[Len(file)]).blocks
<1> DEFINE n == Len(file)
           units == [u \in DOMAIN file |-> u]
           taken == CHOOSE g : g = [s \in SUBSET (1..n) |-> StepOfRead(units, g, s)]
<1>1. n \in Nat /\ DOMAIN file = 1..n
    BY UnitsOfAFile
<1>u. \A m \in 1..n : units[m] = m
    BY <1>1
<1>0. Reading \in Readings
    <2>1. <<>> \in Seq([text : Seq(Nat \X Nat), page : Nat, section : Sections])
        BY EmptyIsASequence
    <2>2. <<>> \in Seq(DOMAIN file)
        BY EmptyIsASequence
    <2> QED
        BY <2>1, <2>2 DEF Reading, Readings, None, Sections
<1>2. \E g \in [SUBSET (1..n) -> Readings] : g = [s \in SUBSET (1..n) |-> StepOfRead(units, g, s)]
    <2> DEFINE R == Readings
               step == [m \in 1..n |-> [reading \in R |-> ReadOne(reading, m)]]
    <2>1. \A m \in 1..n : \A reading \in R : ReadOne(reading, m) \in R
        BY <1>1, ReadingsStay
    <2> HIDE DEF R
    <2>3. Stays(step, R, n)
        BY <2>1 DEF Stays
    <2>4. \A m \in 1..n : \A reading \in R : step[m][reading] = ReadOne(reading, m)
        OBVIOUS
    <2> HIDE DEF step, n, units
    <2>2. Reading \in R
        BY <1>0 DEF R
    <2>5. \E g : IsFoldOf(g, Reading, step, R, n)
        BY <1>1, <2>2, <2>3, FoldExists
    <2>6. PICK g \in [SUBSET (1..n) -> R] :
             \A s \in SUBSET (1..n) : g[s] = StepOfFold(Reading, step, g, s)
        BY <2>5 DEF IsFoldOf
    <2>7. ASSUME NEW s \in SUBSET (1..n) PROVE g[s] = StepOfRead(units, g, s)
        <3>1. CASE s = {}
            BY <2>6, <3>1 DEF StepOfFold, StepOfRead
        <3>2. CASE s # {}
            <4>1. Max(s) \in 1..n /\ s \ {Max(s)} \in SUBSET (1..n)
                BY <1>1, <3>2, MaxIsBounded
            <4>2. g[s \ {Max(s)}] \in R
                BY <2>6, <4>1
            <4>3. g[s] = step[Max(s)][g[s \ {Max(s)}]]
                BY <2>6, <3>2, Zenon DEF StepOfFold
            <4> QED
                BY <1>u, <2>4, <3>2, <4>1, <4>2, <4>3, Zenon DEF StepOfRead
        <3> QED
            BY <3>1, <3>2
    <2>8. g = [s \in SUBSET (1..n) |-> g[s]]
        BY <2>6
    <2>9. g = [s \in SUBSET (1..n) |-> StepOfRead(units, g, s)]
        BY <2>7, <2>8, Zenon
    <2> QED
        BY <2>6, <2>9, Zenon DEF R
<1>3. taken = [s \in SUBSET (1..n) |-> StepOfRead(units, taken, s)]
    BY <1>2, Zenon
<1> DEFINE all == FoldLeft(ReadOne, Reading, units)
<1>a. all = taken[1..n]
    <2>1. DOMAIN units = 1..n
        BY <1>1
    <2> HIDE DEF units
    <2> QED
        BY <2>1, Zenon DEF FoldLeft, MapThenFoldSet, StepOfRead
<1>b. CodeParser(file) = FlushCode(file, all).blocks
    BY Zenon DEF CodeParser, ReadOne
<1> HIDE DEF all, units
<1>4. CodeParser(file) = FlushCode(file, taken[1..n]).blocks
    BY <1>a, <1>b, Zenon
<1> HIDE DEF taken, n
<1> DEFINE g == [m \in 0..n |-> taken[1..m]]
<1>5. g[0] = Reading
    <2>1. 0 \in 0..n /\ 1..0 = {} /\ {} \in SUBSET (1..n)
        BY <1>1
    <2>2. g[0] = taken[{}]
        BY <2>1
    <2> QED
        BY <1>3, <1>u, <2>1, <2>2, Zenon DEF StepOfRead
<1>6. ASSUME NEW m \in 1..n PROVE g[m] = ReadOne(g[m - 1], m)
    <2>1. m \in Nat /\ m # 0 /\ m \in 0..n /\ m - 1 \in 0..n /\ 1..m \in SUBSET (1..n)
        BY <1>1
    <2>2. 1..m # {} /\ Max(1..m) = m /\ (1..m) \ {m} = 1..m - 1
        BY <2>1, MaxOfInterval, IntervalWithoutEnd
    <2>u. units[m] = m
        BY <1>u, Zenon
    <2>t. taken[1..m] = StepOfRead(units, taken, 1..m)
        BY <1>3, <2>1, Zenon
    <2>3. taken[1..m] = ReadOne(taken[1..m - 1], m)
        BY <2>u, <2>t, <2>2, Zenon DEF StepOfRead
    <2>4. g[m] = taken[1..m] /\ g[m - 1] = taken[1..m - 1]
        BY <2>1
    <2> QED
        BY <2>3, <2>4, Zenon
<1>7. g[n] = taken[1..n] /\ DOMAIN g = 0..n /\ g = [m \in 0..n |-> g[m]]
    BY <1>1
<1> HIDE DEF g
<1> DEFINE Bad == {m \in 0..n : g[m] \notin Readings}
<1>8. Bad = {}
    <2> SUFFICES ASSUME Bad # {} PROVE FALSE
        OBVIOUS
    <2>0. Bad \in SUBSET Nat
        OBVIOUS
    <2>1. PICK m \in Bad : \A l \in Nat : l < m => l \notin Bad
        BY <2>0, SetHasLeast, Zenon
    <2>2. m \in 0..n /\ g[m] \notin Readings
        OBVIOUS
    <2>4. m # 0
        BY <1>0, <1>5, <2>2
    <2>5. m \in 1..n /\ m - 1 \in 0..n /\ m - 1 < m /\ m - 1 \in Nat
        BY <1>1, <2>2, <2>4
    <2>6. g[m - 1] \in Readings
        BY <2>1, <2>5
    <2> QED
        BY <1>1, <1>6, <2>2, <2>5, <2>6, ReadingsStay
<1>9. g \in [0..n -> Readings]
    BY <1>7, <1>8
<1> QED
    BY <1>4, <1>5, <1>6, <1>7, <1>9, Zenon DEF n

First(m) == [v \in 1..m |-> v]
LengthTo(m) == Len(Lines(First(m), file))

LEMMA LengthOfLines ==
    ASSUME FileOK, NEW buffer \in Seq(DOMAIN file), NEW u \in DOMAIN file
    PROVE  /\ Len(Lines(buffer, file)) \in Nat
           /\ Len(Lines(Append(buffer, u), file))
                = Len(Lines(buffer, file)) + (IF buffer = <<>> THEN 0 ELSE 1) + Len(file[u].text)
<1> DEFINE S == Nat \X Nat
           lines == Lines(buffer, file)
           line == Joint(buffer, u) \o TextOf(file, u)
<1>1. /\ \A n \in DOMAIN buffer : buffer[n] \in DOMAIN file
      /\ Fits(S, u) /\ \A v \in DOMAIN file : Fits(S, v)
    BY ElementsAreOfTheSet, UnitsFit
<1> HIDE DEF S
<1>2. lines \in Seq(S) /\ Lines(Append(buffer, u), file) = lines \o line
    BY <1>1, LinesOfMore
<1>3. line \in Seq(S) /\ Len(line) = (IF buffer = <<>> THEN 0 ELSE 1) + Len(file[u].text)
    BY <1>1, LineOfCode
<1> HIDE DEF lines, line
<1>4. Len(lines \o line) = Len(lines) + Len(line)
    BY <1>2, <1>3, Concatenation
<1>5. Len(lines) \in Nat
    BY <1>2, ElementsAreOfTheSet
<1> DEFINE joint == IF buffer = <<>> THEN 0 ELSE 1
           length_ == Len(file[u].text)
<1>6. joint \in Nat /\ length_ \in Nat /\ Len(line) = joint + length_
    BY <1>3, UnitsOfAFile
<1> HIDE DEF joint, length_
<1>7. Len(Lines(Append(buffer, u), file)) = Len(lines) + joint + length_
    BY <1>2, <1>4, <1>5, <1>6
<1> QED
    BY <1>5, <1>7 DEF lines, joint, length_

LEMMA LengthOfFirst ==
    ASSUME FileOK
    PROVE  /\ LengthTo(0) = 0 /\ Len(Lines(<<>>, file)) = 0
           /\ \A m \in 0..Len(file) : LengthTo(m) \in Nat
           /\ \A m \in DOMAIN file :
                 LengthTo(m) = LengthTo(m - 1) + (IF m = 1 THEN 0 ELSE 1) + Len(file[m].text)
<1>1. DOMAIN file = 1..Len(file) /\ Len(file) \in Nat
    BY UnitsOfAFile
<1> DEFINE n == Len(file)
           D == DOMAIN file
<1> HIDE DEF n, D
<1>2. ASSUME NEW m \in 0..n PROVE First(m) \in Seq(D) /\ Len(First(m)) = m
    <2>1. \A v \in 1..m : v \in D
        BY <1>1, <1>2 DEF n, D
    <2> QED
        BY <1>1, <1>2, <2>1 DEF First
<1>3. Len(Lines(<<>>, file)) = 0
    <2>1. Lines(<<>>, file) = FlattenSeq(<<>>)
        BY DEF Lines
    <2> QED
        BY <2>1, FlattenOfNothing
<1>4. First(0) = <<>>
    BY DEF First
<1>5. ASSUME NEW m \in D
      PROVE  LengthTo(m) = LengthTo(m - 1) + (IF m = 1 THEN 0 ELSE 1) + Len(file[m].text)
    <2>1. m - 1 \in 0..n /\ m \in Nat \ {0} /\ m \in 0..n
        BY <1>1 DEF n, D
    <2> DEFINE before == First(m - 1)
    <2>2. before \in Seq(D) /\ Len(before) = m - 1
        BY <1>2, <2>1
    <2>3. First(m) = Append(before, m)
        <3> DEFINE more == Append(before, m)
        <3>1. /\ more \in Seq(D) /\ Len(more) = m /\ more[m] = m
              /\ \A v \in 1..m - 1 : more[v] = before[v]
            <4>1. /\ more \in Seq(D) /\ Len(more) = Len(before) + 1 /\ more[Len(before) + 1] = m
                  /\ \A v \in 1..Len(before) : more[v] = before[v]
                BY <2>2, ElementsOfAppend
            <4>2. Len(before) + 1 = m
                BY <2>1, <2>2
            <4> HIDE DEF before
            <4> QED
                BY <4>1, <4>2, <2>2
        <3> HIDE DEF more
        <3>2. \A v \in 1..m - 1 : before[v] = v
            BY DEF First
        <3>3. DOMAIN more = 1..m
            BY <3>1, ElementsAreOfTheSet
        <3>4. \A v \in 1..m : more[v] = v
            BY <2>1, <3>1, <3>2
        <3>5. more = [v \in 1..m |-> more[v]]
            BY <3>1, <3>3
        <3>6. more = [v \in 1..m |-> v]
            BY <3>4, <3>5
        <3> QED
            BY <3>6 DEF First, more
    <2> HIDE DEF before
    <2>4. before = <<>> <=> m = 1
        BY <2>1, <2>2
    <2>5. Len(Lines(Append(before, m), file))
            = Len(Lines(before, file)) + (IF before = <<>> THEN 0 ELSE 1) + Len(file[m].text)
        BY <2>2, LengthOfLines DEF D
    <2> QED
        BY <2>3, <2>4, <2>5 DEF LengthTo, before
<1>6. ASSUME NEW m \in 0..n PROVE LengthTo(m) \in Nat
    <2>1. CASE m = 0
        BY <2>1, <1>3, <1>4 DEF LengthTo
    <2>2. CASE m # 0
        <3>1. m \in D
            BY <1>1, <2>2 DEF n, D
        <3>2. First(m) \in Seq(D)
            BY <1>2
        <3> QED
            BY <3>1, <3>2, LengthOfLines DEF D, LengthTo
    <2> QED
        BY <2>1, <2>2
<1> QED
    BY <1>3, <1>4, <1>5, <1>6 DEF LengthTo, n, D

\* What has been read up to a unit: the lines in the buffer are all of one
\* definition, and every letter is in a block or in the buffer if the lines
\* are not too long together.
Held(reading, m) ==
    /\ reading \in Readings /\ reading.blocks \in Seq(TrueBlock)
    /\ \A n \in DOMAIN reading.buffer :
          reading.buffer[n] \in 1..m /\ TitleAbove(reading.buffer[n]) = reading.definition
    /\ Len(Lines(reading.buffer, file)) <= LengthTo(m)
    /\ LengthTo(m) <= MaxBlock =>
          \A u \in 1..m : \/ LettersOf(u) \subseteq SymbolsIn(reading.blocks)
                          \/ u \in ToSet(reading.buffer)

LEMMA SymbolsOfAppend ==
    ASSUME NEW S, NEW some \in Seq(S), NEW block \in S
    PROVE  SymbolsIn(Append(some, block)) = SymbolsIn(some) \union ToSet(block.text)
<1>1. ASSUME NEW seq PROVE SymbolsIn(seq) = UNION {ToSet(b.text) : b \in ToSet(seq)}
    BY DEF SymbolsIn, ToSet
<1>2. ToSet(Append(some, block)) = ToSet(some) \union {block}
    BY ElementsOfAppend
<1>3. UNION {ToSet(b.text) : b \in ToSet(some) \union {block}}
        = (UNION {ToSet(b.text) : b \in ToSet(some)}) \union ToSet(block.text)
    OBVIOUS
<1> QED
    BY <1>1, <1>2, <1>3, Zenon

LEMMA FlushTells ==
    ASSUME FileOK, format = "code", NEW m \in 0..Len(file), NEW reading, Held(reading, m)
    PROVE  /\ Held(FlushCode(file, reading), m)
           /\ FlushCode(file, reading).buffer = <<>>
           /\ FlushCode(file, reading).definition = reading.definition
<1> DEFINE D == DOMAIN file
           title == reading.definition
           T == True_(None, title)
           lines == Lines(reading.buffer, file)
           body == Strip(file, lines)
           cut == Cut(body)
           block == Block(cut, None, title)
           flushed == IF body = <<>> THEN reading.blocks ELSE Append(reading.blocks, block)
           r == FlushCode(file, reading)
<1>1. /\ reading \in Readings /\ reading.blocks \in Seq(TrueBlock)
      /\ reading.buffer \in Seq(D) /\ title \in Sections
    BY DEF Held, Readings
<1>2. r = [reading EXCEPT !.buffer = <<>>, !.blocks = flushed]
    BY DEF FlushCode
<1>3. r.buffer = <<>> /\ r.definition = title /\ r.blocks = flushed
    BY <1>1, <1>2 DEF Readings
<1>4. lines \in Seq(T) /\ \A n \in DOMAIN reading.buffer : LettersOf(reading.buffer[n]) \subseteq ToSet(lines)
    <2>1. ASSUME NEW n \in DOMAIN reading.buffer PROVE Fits(T, reading.buffer[n])
        <3>1. reading.buffer[n] \in D /\ TitleAbove(reading.buffer[n]) = title
            BY <1>1, ElementsAreOfTheSet DEF Held
        <3>2. Cites(None, title, reading.buffer[n])
            BY <3>1 DEF Cites
        <3> QED
            BY <3>1, <3>2, UnitsFit
    <2> HIDE DEF T
    <2> QED
        BY <1>1, <2>1, LinesOfMore
<1> HIDE DEF lines
<1>5. /\ body \in Seq(T) /\ Len(body) <= Len(lines)
      /\ \A s \in ToSet(lines) : KindOf(file, s) = "w" => s \in ToSet(body)
    BY <1>4, StripKeeps
<1> HIDE DEF body
<1>6. cut \in Seq(T) /\ (Len(body) <= MaxBlock => ToSet(body) \subseteq ToSet(cut))
    BY <1>5, CutKeeps
<1> HIDE DEF cut
<1>7. block \in TrueBlock /\ block.text = cut
    <2>1. None \in Nat /\ title \in Sections
        BY <1>1 DEF None
    <2>2. block \in TrueBlock
        BY <1>6, <2>1, BlockIsTrue
    <2> QED
        BY <2>2 DEF Block
<1> HIDE DEF block
<1>8. /\ flushed \in Seq(TrueBlock)
      /\ SymbolsIn(reading.blocks) \subseteq SymbolsIn(flushed)
      /\ body # <<>> => ToSet(cut) \subseteq SymbolsIn(flushed)
    <2>1. CASE body = <<>>
        BY <1>1, <2>1
    <2>2. CASE body # <<>>
        <3>1. /\ Append(reading.blocks, block) \in Seq(TrueBlock)
              /\ SymbolsIn(Append(reading.blocks, block)) = SymbolsIn(reading.blocks) \union ToSet(cut)
            BY <1>1, <1>7, ElementsOfAppend, SymbolsOfAppend
        <3> QED
            BY <2>2, <3>1
    <2> QED
        BY <2>1, <2>2
<1> HIDE DEF flushed
<1>9. body = <<>> => ToSet(body) = {}
    BY DEF ToSet
<1>10. Len(lines) <= LengthTo(m) /\ Len(lines) \in Nat /\ Len(body) \in Nat /\ LengthTo(m) \in Nat
    BY <1>4, <1>5, ElementsAreOfTheSet, LengthOfFirst DEF Held, lines
<1>11. ASSUME LengthTo(m) <= MaxBlock, NEW u \in 1..m
       PROVE  LettersOf(u) \subseteq SymbolsIn(flushed)
    <2>1. MaxBlock \in Nat
        BY ParsingAssumption
    <2>2. Len(body) <= MaxBlock
        BY <1>5, <1>10, <1>11, <2>1
    <2>3. CASE LettersOf(u) \subseteq SymbolsIn(reading.blocks)
        BY <1>8, <2>3
    <2>4. CASE u \in ToSet(reading.buffer)
        <3>1. LettersOf(u) \subseteq ToSet(lines)
            BY <1>4, <2>4 DEF ToSet
        <3>2. LettersOf(u) \subseteq ToSet(body)
            BY <1>5, <3>1, LettersOfAFile DEF LettersOf
        <3> QED
            BY <1>6, <1>8, <1>9, <2>2, <3>2
    <2> QED
        BY <1>11, <2>3, <2>4 DEF Held
<1>12. r \in Readings
    BY <1>1, FlushStays
<1>13. Len(Lines(<<>>, file)) <= LengthTo(m)
    BY <1>10, LengthOfFirst
<1>14. Held(r, m)
    <2> HIDE DEF r
    <2>1. DOMAIN r.buffer = {}
        BY <1>3
    <2>2. \A n \in DOMAIN r.buffer : r.buffer[n] \in 1..m /\ TitleAbove(r.buffer[n]) = r.definition
        BY <2>1
    <2>3. Len(Lines(r.buffer, file)) <= LengthTo(m)
        BY <1>3, <1>13
    <2>4. LengthTo(m) <= MaxBlock => \A u \in 1..m : LettersOf(u) \subseteq SymbolsIn(r.blocks)
        BY <1>3, <1>11
    <2>5. r.blocks \in Seq(TrueBlock)
        BY <1>3, <1>8
    <2> QED
        BY <1>12, <2>2, <2>3, <2>4, <2>5, Zenon DEF Held
<1> QED
    BY <1>3, <1>14

\* A line more, of the same definition.
LEMMA AppendTells ==
    ASSUME FileOK, format = "code", NEW m \in DOMAIN file, NEW reading, Held(reading, m - 1),
           reading.definition = TitleAbove(m)
    PROVE  Held([reading EXCEPT !.buffer = Append(@, m)], m)
<1> DEFINE D == DOMAIN file
           buffer == reading.buffer
           more == Append(buffer, m)
           r == [reading EXCEPT !.buffer = Append(@, m)]
<1>0. DOMAIN file = 1..Len(file) /\ Len(file) \in Nat /\ m \in Nat \ {0} /\ m - 1 \in 0..Len(file)
    <2>1. DOMAIN file = 1..Len(file) /\ Len(file) \in Nat
        BY UnitsOfAFile
    <2> QED
        BY <2>1
<1>1. /\ reading \in Readings /\ reading.blocks \in Seq(TrueBlock) /\ buffer \in Seq(D)
      /\ \A n \in DOMAIN buffer : buffer[n] \in 1..m - 1
                                  /\ TitleAbove(buffer[n]) = reading.definition
      /\ Len(Lines(buffer, file)) <= LengthTo(m - 1)
    BY DEF Held, Readings
<1> HIDE DEF D
<1>2. /\ more \in Seq(D) /\ Len(more) = Len(buffer) + 1 /\ more[Len(buffer) + 1] = m
      /\ \A n \in 1..Len(buffer) : more[n] = buffer[n]
      /\ ToSet(more) = ToSet(buffer) \union {m}
    BY <1>1, ElementsOfAppend DEF D
<1>3. r = [reading EXCEPT !.buffer = more]
    OBVIOUS
<1>b. DOMAIN buffer = 1..Len(buffer) /\ Len(buffer) \in Nat
    BY <1>1, ElementsAreOfTheSet
<1> HIDE DEF more
<1>c. DOMAIN more = 1..Len(buffer) + 1
    BY <1>2, ElementsAreOfTheSet
<1>4. /\ r \in Readings /\ r.buffer = more /\ r.blocks = reading.blocks
      /\ r.definition = reading.definition
    BY <1>1, <1>2, <1>3 DEF Readings, D
<1>5. \A n \in DOMAIN more : more[n] \in 1..m /\ TitleAbove(more[n]) = reading.definition
    <2> SUFFICES ASSUME NEW n \in DOMAIN more
                 PROVE  more[n] \in 1..m /\ TitleAbove(more[n]) = reading.definition
        OBVIOUS
    <2>1. CASE n = Len(buffer) + 1
        BY <1>0, <1>2, <2>1
    <2>2. CASE n # Len(buffer) + 1
        <3>1. n \in DOMAIN buffer
            BY <1>b, <1>c, <2>2
        <3>2. more[n] = buffer[n] /\ buffer[n] \in 1..m - 1
            BY <1>1, <1>2, <1>b, <3>1
        <3> QED
            BY <1>0, <1>1, <3>1, <3>2
    <2> QED
        BY <2>1, <2>2
<1>6. Len(Lines(more, file)) <= LengthTo(m)
    <2>1. Len(Lines(more, file))
            = Len(Lines(buffer, file)) + (IF buffer = <<>> THEN 0 ELSE 1) + Len(file[m].text)
        BY <1>1, LengthOfLines DEF D, more
    <2>2. LengthTo(m) = LengthTo(m - 1) + (IF m = 1 THEN 0 ELSE 1) + Len(file[m].text)
        BY LengthOfFirst
    <2>3. Len(Lines(buffer, file)) \in Nat /\ LengthTo(m - 1) \in Nat /\ Len(file[m].text) \in Nat
        BY <1>0, <1>1, LengthOfLines, LengthOfFirst, UnitsOfAFile DEF D
    <2>4. m = 1 => buffer = <<>>
        <3>1. m = 1 => DOMAIN buffer = {}
            BY <1>1
        <3> DEFINE l == Len(buffer)
        <3> HIDE DEF l
        <3>2. DOMAIN buffer = 1..l /\ l \in Nat
            BY <1>b DEF l
        <3>3. m = 1 => l = 0
            BY <3>1, <3>2
        <3>4. l = 0 => buffer = <<>>
            BY <1>1 DEF l
        <3> QED
            BY <3>3, <3>4
    <2> DEFINE x == Len(Lines(buffer, file))
               y == LengthTo(m - 1)
               z == Len(file[m].text)
               i == IF buffer = <<>> THEN 0 ELSE 1
               j == IF m = 1 THEN 0 ELSE 1
    <2>5. i \in Nat /\ j \in Nat /\ i <= j
        BY <2>4
    <2>6. /\ Len(Lines(more, file)) = x + i + z /\ LengthTo(m) = y + j + z
          /\ x \in Nat /\ y \in Nat /\ z \in Nat /\ x <= y
        BY <1>1, <2>1, <2>2, <2>3
    <2> HIDE DEF x, y, z, i, j
    <2> QED
        BY <2>5, <2>6
<1>7. ASSUME LengthTo(m) <= MaxBlock, NEW u \in 1..m
      PROVE  LettersOf(u) \subseteq SymbolsIn(reading.blocks) \/ u \in ToSet(more)
    <2>1. CASE u = m
        BY <1>2, <2>1
    <2>2. CASE u # m
        <3>1. u \in 1..m - 1
            BY <1>0, <2>2
        <3>2. LengthTo(m - 1) <= MaxBlock
            <4> DEFINE x == LengthTo(m)
                       y == LengthTo(m - 1)
                       z == Len(file[m].text)
                       j == IF m = 1 THEN 0 ELSE 1
            <4>1. j \in Nat /\ x = y + j + z /\ x \in Nat /\ y \in Nat /\ z \in Nat
                BY <1>0, LengthOfFirst, UnitsOfAFile
            <4>2. MaxBlock \in Nat /\ x <= MaxBlock
                BY <1>7, ParsingAssumption
            <4> HIDE DEF x, y, z, j
            <4>3. y <= MaxBlock
                BY <4>1, <4>2
            <4> QED
                BY <4>3 DEF y
        <3> QED
            BY <1>2, <3>1, <3>2 DEF Held
    <2> QED
        BY <2>1, <2>2
<1> HIDE DEF r
<1>8. \A n \in DOMAIN r.buffer : r.buffer[n] \in 1..m /\ TitleAbove(r.buffer[n]) = r.definition
    BY <1>4, <1>5
<1>9. Len(Lines(r.buffer, file)) <= LengthTo(m)
    BY <1>4, <1>6
<1>10. LengthTo(m) <= MaxBlock =>
          \A u \in 1..m : LettersOf(u) \subseteq SymbolsIn(r.blocks) \/ u \in ToSet(r.buffer)
    BY <1>4, <1>7
<1>11. r \in Readings /\ r.blocks \in Seq(TrueBlock)
    BY <1>1, <1>4
<1>12. Held(r, m)
    BY <1>8, <1>9, <1>10, <1>11, Zenon DEF Held
<1> QED
    BY <1>12 DEF r

LEMMA ReadTells ==
    ASSUME FileOK, format = "code", NEW m \in DOMAIN file, NEW reading, Held(reading, m - 1),
           reading.definition = IF m = 1 THEN None ELSE TitleAbove(m - 1)
    PROVE  /\ Held(ReadOne(reading, m), m)
           /\ ReadOne(reading, m).definition = TitleAbove(m)
<1> DEFINE flushed == FlushCode(file, reading)
           begun == IF file[m].is = "definition"
                    THEN [flushed EXCEPT !.definition = m] ELSE reading
           more == [begun EXCEPT !.buffer = Append(@, m)]
<1>0. m - 1 \in 0..Len(file) /\ m \in 0..Len(file) /\ m \in Nat
    <2>1. DOMAIN file = 1..Len(file) /\ Len(file) \in Nat
        BY UnitsOfAFile
    <2> QED
        BY <2>1
<1>1. ReadOne(reading, m) = IF Letters(file, more.buffer) > MaxBlock THEN FlushCode(file, more)
                            ELSE more
    BY DEF ReadOne
<1>2. Held(begun, m - 1) /\ begun.definition = TitleAbove(m)
    <2>1. CASE file[m].is = "definition"
        <3>1. TitleAbove(m) = m
            BY <2>1, DefinitionAt
        <3>2. Held(flushed, m - 1) /\ flushed.buffer = <<>>
            BY <1>0, FlushTells
        <3> HIDE DEF flushed
        <3>3. begun = [flushed EXCEPT !.definition = m]
            BY <2>1
        <3> HIDE DEF begun
        <3>7. m \in Sections
            BY UnitsOfAFile DEF Sections
        <3>4. /\ begun \in Readings /\ begun.definition = m /\ begun.buffer = <<>>
              /\ begun.blocks = flushed.blocks
            BY <1>0, <3>2, <3>3, <3>7 DEF Held, Readings
        <3>5. DOMAIN begun.buffer = {} /\ ToSet(begun.buffer) = ToSet(flushed.buffer)
            BY <3>2, <3>4
        <3>6. Held(begun, m - 1)
            BY <3>2, <3>4, <3>5 DEF Held
        <3> QED
            BY <3>1, <3>4, <3>6
    <2>2. CASE file[m].is # "definition"
        BY <2>2, DefinitionAt
    <2> QED
        BY <2>1, <2>2
<1> HIDE DEF begun
<1>3. Held(more, m)
    BY <1>2, AppendTells
<1>4. more.definition = TitleAbove(m)
    BY <1>2 DEF Held, Readings
<1> HIDE DEF more
<1>5. Held(FlushCode(file, more), m) /\ FlushCode(file, more).definition = TitleAbove(m)
    BY <1>0, <1>3, <1>4, FlushTells
<1> QED
    BY <1>1, <1>3, <1>4, <1>5

LEMMA CodeTells ==
    ASSUME FileOK, format = "code"
    PROVE  FileTold(CodeParser(file))
<1> DEFINE n == Len(file)
<1>1. DOMAIN file = 1..n /\ n \in Nat
    BY UnitsOfAFile
<1>2. PICK g \in [0..n -> Readings] :
        /\ g[0] = Reading
        /\ \A m \in 1..n : g[m] = ReadOne(g[m - 1], m)
        /\ CodeParser(file) = FlushCode(file, g[n]).blocks
    BY CodeParserIsALoop, Zenon
<1> DEFINE At(m) == IF m = 0 THEN None ELSE TitleAbove(m)
           Good(m) == Held(g[m], m) /\ g[m].definition = At(m)
           Bad == {m \in 0..n : ~Good(m)}
<1> HIDE DEF n
<1>3. Good(0)
    <2>1. /\ Reading.blocks = <<>> /\ Reading.buffer = <<>> /\ Reading.definition = None
          /\ DOMAIN Reading.buffer = {} /\ Reading.blocks \in Seq(TrueBlock)
        BY NothingIsTrue DEF Reading
    <2>2. Len(Lines(Reading.buffer, file)) <= LengthTo(0)
        BY <2>1, LengthOfFirst
    <2>3. Reading \in Readings
        <3>1. g[0] \in Readings
            BY <1>1
        <3> QED
            BY <1>2, <3>1
    <2>4. 1..0 = {}
        OBVIOUS
    <2> QED
        BY <1>2, <2>1, <2>2, <2>3, <2>4 DEF Held
<1>4. ASSUME NEW m \in 1..n, Good(m - 1) PROVE Good(m)
    <2>1. m \in DOMAIN file /\ (m - 1 = 0 <=> m = 1) /\ m # 0
        BY <1>1
    <2>2. /\ Held(g[m - 1], m - 1)
          /\ g[m - 1].definition = IF m = 1 THEN None ELSE TitleAbove(m - 1)
        BY <1>4, <2>1
    <2>3. Held(ReadOne(g[m - 1], m), m) /\ ReadOne(g[m - 1], m).definition = TitleAbove(m)
        BY <2>1, <2>2, ReadTells
    <2>4. g[m] = ReadOne(g[m - 1], m)
        BY <1>2, Zenon
    <2> QED
        BY <2>1, <2>3, <2>4
<1> HIDE DEF Good
<1>5. Bad = {}
    <2> SUFFICES ASSUME Bad # {} PROVE FALSE
        OBVIOUS
    <2>0. Bad \in SUBSET Nat
        OBVIOUS
    <2>1. PICK m \in Bad : \A l \in Nat : l < m => l \notin Bad
        BY <2>0, SetHasLeast, Zenon
    <2>2. m \in 0..n /\ ~Good(m)
        OBVIOUS
    <2>3. m # 0
        BY <1>3, <2>2
    <2>4. m \in 1..n /\ m - 1 \in 0..n /\ m - 1 < m /\ m - 1 \in Nat
        BY <1>1, <2>2, <2>3
    <2>5. Good(m - 1)
        BY <2>1, <2>4
    <2> QED
        BY <1>4, <2>2, <2>4, <2>5
<1>6. n \in 0..n
    BY <1>1
<1>7. Held(g[n], n)
    BY <1>5, <1>6 DEF Good
<1> DEFINE last == FlushCode(file, g[n])
<1>8. Held(last, n) /\ last.buffer = <<>>
    BY <1>6, <1>7, FlushTells DEF n
<1> HIDE DEF last
<1>9. last.blocks \in Seq(TrueBlock)
    BY <1>8 DEF Held
<1>10. LengthTo(n) <= MaxBlock => \A u \in 1..n : LettersOf(u) \subseteq SymbolsIn(last.blocks)
    <2>1. ToSet(last.buffer) = {}
        BY <1>8 DEF ToSet
    <2> QED
        BY <1>8, <2>1 DEF Held
<1>11. ASSUME NEW u \in DOMAIN file
       PROVE  Lost(u) \/ LettersOf(u) \subseteq SymbolsIn(last.blocks)
    <2>1. LengthTo(n) = Len(Lines([v \in DOMAIN file |-> v], file))
        BY <1>1 DEF LengthTo, First
    <2>2. LengthTo(n) \in Nat /\ MaxBlock \in Nat
        BY <1>6, LengthOfFirst, ParsingAssumption DEF n
    <2>3. LengthTo(n) > MaxBlock => Lost(u)
        BY <2>1 DEF Lost
    <2> QED
        BY <1>1, <1>10, <2>2, <2>3
<1> QED
    BY <1>2, <1>9, <1>11 DEF FileTold, last

\* Whatever the format, the parser's blocks hold all that is not left out, and
\* cite it truly.
LEMMA ParsedTells ==
    ASSUME FileOK, format \in Formats
    PROVE  FileTold(Parsed(format, file))
<1>1. CASE format = "text"
    BY <1>1, PlainTextTells DEF Parsed
<1>2. CASE format = "rtf"
    BY <1>2, RtfTells DEF Parsed
<1>3. CASE format = "pdf"
    BY <1>3, PdfTells DEF Parsed
<1>4. CASE format = "markdown"
    BY <1>4, MarkdownTells DEF Parsed
<1>5. CASE format = "html"
    BY <1>5, HtmlTells DEF Parsed
<1>6. CASE format = "docx"
    BY <1>6, DocxTells DEF Parsed
<1>7. CASE format = "odt"
    BY <1>7, OdtTells DEF Parsed
<1>8. CASE format = "pptx"
    BY <1>8, PptxTells DEF Parsed
<1>9. CASE format = "epub"
    BY <1>9, EpubTells DEF Parsed
<1>10. CASE format = "xlsx"
    BY <1>10, XlsxTells DEF Parsed
<1>11. CASE format = "csv"
    BY <1>11, DelimitedTextTells DEF Parsed
<1>12. CASE format = "code"
    BY <1>12, CodeTells DEF Parsed
<1>13. CASE format = "image"
    BY <1>13, ImageTells DEF Parsed
<1> QED
    BY <1>1, <1>2, <1>3, <1>4, <1>5, <1>6, <1>7, <1>8, <1>9, <1>10, <1>11, <1>12, <1>13
    DEF Formats

-----------------------------------------------------------------------------
(* What is pending, and what is emitted                                    *)

Gap(some) == IF some = <<>> THEN <<>> ELSE <<Break, Break>>

\* The join of some blocks, and of one block more.
LEMMA JoinOfMore ==
    ASSUME NEW S, Break \in S, NEW B, \A b \in B : b.text \in Seq(S), NEW some \in Seq(B)
    PROVE  /\ Join(some) \in Seq(S)
           /\ \A n \in DOMAIN some : \A s \in ToSet(some[n].text) :
                 KindOf(file, s) = "w" => s \in ToSet(Join(some))
           /\ \A b \in B : /\ Stripped(b) \in Seq(S) /\ Gap(some) \in Seq(S)
                           /\ Join(Append(some, b)) = Join(some) \o (Gap(some) \o Stripped(b))
<1> DEFINE Part(list, n) == (IF n = 1 THEN <<>> ELSE <<Break, Break>>) \o Stripped(list[n])
           made == [n \in DOMAIN some |-> Part(some, n)]
           L == Len(some)
<1>1. L \in Nat /\ DOMAIN some = 1..L /\ \A n \in 1..L : some[n] \in B
    BY ElementsAreOfTheSet
<1>0. some = <<>> <=> L = 0
    OBVIOUS
<1> HIDE DEF L
<1>a. ASSUME NEW b \in B
      PROVE  /\ Stripped(b) \in Seq(S)
             /\ \A s \in ToSet(b.text) : KindOf(file, s) = "w" => s \in ToSet(Stripped(b))
    <2>1. b.text \in Seq(S)
        OBVIOUS
    <2> QED
        BY <2>1, StripKeeps DEF Stripped
<1>g. /\ \A n : (IF n = 1 THEN <<>> ELSE <<Break, Break>>) \in Seq(S)
      /\ Gap(some) \in Seq(S)
    <2>1. <<>> \in Seq(S) /\ <<Break, Break>> \in Seq(S)
        OBVIOUS
    <2> QED
        BY <2>1 DEF Gap
<1>2. ASSUME NEW n \in 1..L
      PROVE  /\ Part(some, n) \in Seq(S)
             /\ ToSet(Stripped(some[n])) \subseteq ToSet(Part(some, n))
    <2> DEFINE before == IF n = 1 THEN <<>> ELSE <<Break, Break>>
               text == Stripped(some[n])
    <2>1. before \in Seq(S) /\ text \in Seq(S)
        BY <1>1, <1>a, <1>g
    <2> HIDE DEF before, text
    <2>2. before \o text \in Seq(S) /\ ToSet(before \o text) = ToSet(before) \union ToSet(text)
        BY <2>1, Concatenation, ElementsOfConcatenation
    <2> QED
        BY <2>2 DEF before, text
<1>3. made \in Seq(Seq(S)) /\ Len(made) = L /\ \A n \in 1..L : made[n] = Part(some, n)
    <2> DEFINE Q == Seq(S)
    <2>1. \A n \in 1..L : Part(some, n) \in Q
        BY <1>2
    <2> HIDE DEF Q, Part
    <2>2. made \in Seq(Q) /\ Len(made) = L /\ \A n \in 1..L : made[n] = Part(some, n)
        BY <1>1, <2>1
    <2> QED
        BY <2>2 DEF Q
<1>4. Join(some) = FlattenSeq(made)
    BY DEF Join
<1>5. ASSUME NEW b \in B
      PROVE  Join(Append(some, b)) = Join(some) \o (Gap(some) \o Stripped(b))
    <2> DEFINE more == Append(some, b)
               part == Gap(some) \o Stripped(b)
    <2>1. /\ more \in Seq(B) /\ Len(more) = L + 1 /\ more[L + 1] = b
          /\ \A n \in 1..L : more[n] = some[n]
        BY ElementsOfAppend DEF L
    <2> HIDE DEF more
    <2>2. DOMAIN more = 1..L + 1
        BY <2>1, ElementsAreOfTheSet
    <2>3. part \in Seq(S)
        BY <1>a, <1>g, Concatenation
    <2>4. part = Part(more, L + 1)
        <3>1. L + 1 = 1 <=> some = <<>>
            BY <1>0, <1>1
        <3> QED
            BY <2>1, <3>1 DEF Gap
    <2>5. \A n \in 1..L : Part(more, n) = Part(some, n)
        BY <2>1
    <2> HIDE DEF part, Part
    <2>6. [n \in 1..L + 1 |-> Part(more, n)] = Append(made, part)
        <3> DEFINE Q == Seq(S)
                   longer == Append(made, part)
        <3>1. made \in Seq(Q) /\ part \in Q
            BY <1>3, <2>3
        <3> HIDE DEF Q, made
        <3>2. /\ longer \in Seq(Q) /\ Len(longer) = L + 1
              /\ longer[L + 1] = part
              /\ \A n \in 1..L : longer[n] = made[n]
            BY <3>1, <1>3, ElementsOfAppend
        <3> HIDE DEF longer
        <3>b. DOMAIN longer = 1..L + 1
            BY <3>2, ElementsAreOfTheSet
        <3>3. longer = [n \in 1..L + 1 |-> longer[n]]
            BY <3>2, <3>b
        <3>4. ASSUME NEW n \in 1..L + 1 PROVE longer[n] = Part(more, n)
            <4>1. n \in 1..L \/ n = L + 1
                BY <1>1
            <4> QED
                BY <4>1, <3>2, <1>3, <2>4, <2>5
        <3>5. longer = [n \in 1..L + 1 |-> Part(more, n)]
            BY <3>3, <3>4, Zenon
        <3> QED
            BY <3>5, Zenon DEF longer
    <2>7. Join(more) = FlattenSeq([n \in 1..L + 1 |-> Part(more, n)])
        BY <2>2 DEF Join, Part
    <2>8. FlattenSeq(Append(made, part)) = FlattenSeq(made) \o part
        BY <1>3, <2>3, FlattenOfAppend
    <2> HIDE DEF made
    <2>9. Join(more) = Join(some) \o part
        BY <1>4, <2>6, <2>7, <2>8, Zenon
    <2> QED
        BY <2>9 DEF more, part
<1> HIDE DEF made, Part
<1>6. /\ FlattenSeq(made) \in Seq(S)
      /\ \A n \in 1..L : ToSet(made[n]) \subseteq ToSet(FlattenSeq(made))
    BY <1>3, FlattenStays
<1>7. ASSUME NEW n \in DOMAIN some, NEW s \in ToSet(some[n].text), KindOf(file, s) = "w"
      PROVE  s \in ToSet(Join(some))
    <2>1. n \in 1..L /\ some[n] \in B
        BY <1>1
    <2>2. s \in ToSet(Stripped(some[n]))
        BY <1>7, <1>a, <2>1
    <2> QED
        BY <1>2, <1>3, <1>4, <1>6, <2>1, <2>2
<1> QED
    BY <1>4, <1>5, <1>6, <1>7, <1>a, <1>g

LEMMA TextsOfBlocks ==
    ASSUME NEW block \in TrueBlock
    PROVE  /\ block.text \in Seq(Nat \X Nat) /\ block.page \in Nat /\ block.section \in Sections
           /\ block.text \in Seq(True_(block.page, block.section))
           /\ Stripped(block) \in Seq(True_(block.page, block.section))
           /\ Stripped(block) \in Seq(Nat \X Nat)
           /\ \A s \in ToSet(block.text) : KindOf(file, s) = "w" => s \in ToSet(Stripped(block))
<1>1. /\ block.text \in Seq(Nat \X Nat) /\ block.page \in Nat /\ block.section \in Sections
      /\ block.text \in Seq(True_(block.page, block.section))
    BY DEF TrueBlock
<1> QED
    BY <1>1, StripKeeps DEF Stripped

LEMMA BreaksAreNoLetters ==
    ASSUME FileOK
    PROVE  Break \in Nat \X Nat /\ \A page, section : Break \in True_(page, section)
<1>1. Break \in Nat \X Nat
    BY DEF Break
<1>2. Break \notin Letters_
    <2> SUFFICES ASSUME Break \in Letters_ PROVE FALSE
        OBVIOUS
    <2>1. Break[1] \in DOMAIN file
        BY LettersOfAFile
    <2>2. Break[1] = 0
        BY DEF Break
    <2> QED
        BY <2>1, <2>2, UnitsOfAFile
<1> QED
    BY <1>1, <1>2 DEF True_

\* The length of a join, and of one with a block more.
LEMMA LengthOfJoin ==
    ASSUME FileOK, NEW some \in Seq(TrueBlock), NEW block \in TrueBlock
    PROVE  /\ Len(Join(some)) \in Nat /\ Len(Stripped(block)) \in Nat
           /\ Len(Join(Append(some, block)))
                = Len(Join(some)) + (IF some = <<>> THEN 0 ELSE 2) + Len(Stripped(block))
           /\ some = <<>> => Len(Join(some)) = 0
<1> DEFINE S == Nat \X Nat
           joined == Join(some)
           gap == Gap(some)
           text == Stripped(block)
<1>1. \A b \in TrueBlock : b.text \in Seq(S)
    BY TextsOfBlocks
<1>2. /\ joined \in Seq(S) /\ text \in Seq(S) /\ gap \in Seq(S)
      /\ Join(Append(some, block)) = joined \o (gap \o text)
    <2>1. Break \in S
        BY BreaksAreNoLetters
    <2> DEFINE B == TrueBlock
    <2>2. some \in Seq(B) /\ block \in B /\ \A b \in B : b.text \in Seq(S)
        BY <1>1
    <2> HIDE DEF S, B
    <2> QED
        BY <2>1, <2>2, JoinOfMore
<1>3. Len(gap) = IF some = <<>> THEN 0 ELSE 2
    BY DEF Gap
<1>4. some = <<>> => Len(joined) = 0
    <2>1. some = <<>> => joined = FlattenSeq(<<>>)
        BY DEF Join
    <2> QED
        BY <2>1, FlattenOfNothing
<1> HIDE DEF S, joined, gap, text
<1>5. gap \o text \in Seq(S) /\ Len(gap \o text) = Len(gap) + Len(text)
    BY <1>2, Concatenation
<1>6. Len(joined \o (gap \o text)) = Len(joined) + Len(gap \o text)
    BY <1>2, <1>5, Concatenation
<1>7. Len(joined) \in Nat /\ Len(gap) \in Nat /\ Len(text) \in Nat
    BY <1>2, ElementsAreOfTheSet
<1>8. Len(Join(Append(some, block))) = Len(joined) + Len(gap) + Len(text)
    BY <1>2, <1>5, <1>6, <1>7
<1> QED
    BY <1>3, <1>4, <1>7, <1>8 DEF joined, text

Numbered(all) ==
    /\ all \in Seq(TrueChunk)
    /\ \A n \in DOMAIN all : Len(all[n].text) <= ChunkSize + Overlap /\ all[n].ordinal = n - 1

LEMMA ChunkIsTrue ==
    ASSUME NEW head \in TrueBlock, NEW text \in Seq(True_(head.page, head.section)),
           NEW ordinal \in Nat
    PROVE  /\ Chunk(text, head, ordinal) \in TrueChunk
           /\ Chunk(text, head, ordinal).text = text
           /\ Chunk(text, head, ordinal).ordinal = ordinal
<1>1. text \in Seq(Nat \X Nat)
    <2>1. True_(head.page, head.section) \subseteq Nat \X Nat
        BY DEF True_
    <2>2. ToSet(text) \subseteq Nat \X Nat
        BY <2>1, ElementsAreOfTheSet
    <2> QED
        BY <2>2, SequencesOfMore
<1>2. head.page \in Nat /\ head.section \in Sections
    BY DEF TrueBlock
<1>3. /\ Titled(head.section, text) \in BOOLEAN
      /\ Titled(head.section, text) => head.section # None
    BY DEF Titled
<1> DEFINE titled == Titled(head.section, text)
<1>4. Chunk(text, head, ordinal) = [text |-> text, page |-> head.page, section |-> head.section,
                                    ordinal |-> ordinal, titled |-> titled]
    BY DEF Chunk
<1> HIDE DEF titled
<1> QED
    BY <1>1, <1>2, <1>3, <1>4 DEF TrueChunk, titled

LEMMA MoreChunks ==
    ASSUME NEW some, Numbered(some), NEW more \in Seq(TrueChunk),
           \A n \in DOMAIN more : /\ Len(more[n].text) <= ChunkSize + Overlap
                                  /\ more[n].ordinal = Len(some) + n - 1
    PROVE  /\ Numbered(some \o more)
           /\ SymbolsIn(some \o more) = SymbolsIn(some) \union SymbolsIn(more)
<1> DEFINE all == some \o more
           L == Len(some)
           M == Len(more)
<1>1. some \in Seq(TrueChunk)
    BY DEF Numbered
<1>2. DOMAIN some = 1..L /\ DOMAIN more = 1..M /\ L \in Nat /\ M \in Nat
    BY <1>1, ElementsAreOfTheSet
<1>3. /\ all \in Seq(TrueChunk) /\ Len(all) = L + M
      /\ \A i \in 1..L + M : all[i] = IF i <= L THEN some[i] ELSE more[i - L]
    BY <1>1, Concatenation
<1>4. SymbolsIn(all) = SymbolsIn(some) \union SymbolsIn(more)
    BY <1>1, SymbolsOfConcatenation
<1> HIDE DEF all, L, M
<1>5. DOMAIN all = 1..L + M
    BY <1>3, ElementsAreOfTheSet
<1>6. ASSUME NEW n \in DOMAIN all
      PROVE  Len(all[n].text) <= ChunkSize + Overlap /\ all[n].ordinal = n - 1
    <2>1. n \in Nat /\ n \in 1..L + M
        BY <1>2, <1>5
    <2>2. CASE n <= L
        <3>1. n \in DOMAIN some /\ all[n] = some[n]
            BY <1>2, <1>3, <2>1, <2>2
        <3> QED
            BY <3>1 DEF Numbered
    <2>3. CASE ~(n <= L)
        <3>1. n - L \in DOMAIN more /\ all[n] = more[n - L]
            BY <1>2, <1>3, <2>1, <2>3
        <3>2. more[n - L].ordinal = L + (n - L) - 1
            BY <3>1 DEF L
        <3>3. L + (n - L) - 1 = n - 1
            BY <1>2, <2>1
        <3>4. Len(more[n - L].text) <= ChunkSize + Overlap
            BY <3>1
        <3> QED
            BY <3>1, <3>2, <3>3, <3>4
    <2> QED
        BY <2>2, <2>3
<1>7. Numbered(all)
    BY <1>3, <1>6 DEF Numbered
<1> QED
    BY <1>4, <1>7 DEF all

\* The chunk of what is pending is true, and holds its letters.
LEMMA EmittedTells ==
    ASSUME FileOK, PendingInv, Numbered(chunks)
    PROVE  /\ Numbered(chunks \o Emitted)
           /\ SymbolsIn(chunks) \subseteq SymbolsIn(chunks \o Emitted)
           /\ \A s \in Letters_ : s \in SymbolsIn(pending) => s \in SymbolsIn(chunks \o Emitted)
<1> DEFINE text == Join(pending)
           head == pending[1]
           T == True_(head.page, head.section)
           B == {b \in TrueBlock : b.page = head.page /\ b.section = head.section}
           chunk == Chunk(text, head, Len(chunks))
<1>1. chunks \in Seq(TrueChunk) /\ Len(chunks) \in Nat
    <2>1. chunks \in Seq(TrueChunk)
        BY DEF Numbered
    <2> QED
        BY <2>1, ElementsAreOfTheSet
<1>2. CASE pending = <<>>
    <2>1. Emitted = <<>> /\ chunks \o <<>> = chunks
        BY <1>1, <1>2, ConcatenationWithNothing DEF Emitted
    <2>2. SymbolsIn(pending) = {}
        BY <1>2, NothingIsTrue
    <2> QED
        BY <2>1, <2>2
<1>3. CASE pending # <<>>
    <2>1. /\ pending \in Seq(TrueBlock) /\ DOMAIN pending = 1..Len(pending)
          /\ \A n \in DOMAIN pending : pending[n] \in TrueBlock
        BY ElementsAreOfTheSet DEF PendingInv
    <2>2. head \in TrueBlock
        BY <1>3, <2>1
    <2>3. pending \in Seq(B)
        <3>1. ToSet(pending) \subseteq B
            BY <2>1 DEF PendingInv, ToSet
        <3> QED
            BY <2>1, <3>1, SequencesOfMore
    <2>4. \A b \in B : b.text \in Seq(T)
        BY TextsOfBlocks
    <2>5. /\ text \in Seq(T)
          /\ \A n \in DOMAIN pending : \A s \in ToSet(pending[n].text) :
                KindOf(file, s) = "w" => s \in ToSet(text)
        <3>1. Break \in T
            BY BreaksAreNoLetters
        <3> HIDE DEF B, T
        <3> QED
            BY <2>3, <2>4, <3>1, JoinOfMore
    <2>6. Len(text) <= ChunkSize + Overlap
        <3> DEFINE l == Len(text)
        <3>1. l + 2 = length /\ length <= ChunkSize + 2
            BY <1>3 DEF PendingInv
        <3>2. l \in Nat
            BY <2>5, ElementsAreOfTheSet
        <3>3. ChunkSize \in Nat /\ Overlap \in Nat
            BY ChunkingAssumption
        <3> HIDE DEF l
        <3>4. l <= ChunkSize + Overlap
            BY <3>1, <3>2, <3>3
        <3> QED
            BY <3>4 DEF l
    <2> HIDE DEF text
    <2>7. chunk \in TrueChunk /\ chunk.text = text /\ chunk.ordinal = Len(chunks)
        BY <1>1, <2>2, <2>5, ChunkIsTrue
    <2>8. Emitted = <<chunk>>
        BY <1>3 DEF Emitted, text
    <2> HIDE DEF chunk
    <2>9. /\ <<chunk>> \in Seq(TrueChunk) /\ DOMAIN <<chunk>> = {1} /\ <<chunk>>[1] = chunk
          /\ Len(chunks) + 1 - 1 = Len(chunks)
        BY <1>1, <2>7
    <2>10. SymbolsIn(<<chunk>>) = ToSet(text)
        BY <2>7, <2>9 DEF SymbolsIn
    <2>11. /\ Numbered(chunks \o <<chunk>>)
           /\ SymbolsIn(chunks \o <<chunk>>) = SymbolsIn(chunks) \union SymbolsIn(<<chunk>>)
        BY <2>6, <2>7, <2>9, MoreChunks
    <2>12. ASSUME NEW s \in Letters_, s \in SymbolsIn(pending) PROVE s \in ToSet(text)
        <3>1. KindOf(file, s) = "w"
            BY LettersOfAFile
        <3>2. PICK n \in DOMAIN pending : s \in ToSet(pending[n].text)
            BY <2>12 DEF SymbolsIn
        <3> QED
            BY <2>5, <3>1, <3>2
    <2> QED
        BY <2>8, <2>10, <2>11, <2>12
<1> QED
    BY <1>2, <1>3

LEMMA EndingStays ==
    ASSUME NEW S, NEW text \in Seq(S)
    PROVE  Ending(text) \in Seq(S) /\ Len(Ending(text)) <= Overlap
<1> DEFINE L == Len(text)
           m == IF L > Overlap THEN L - Overlap + 1 ELSE 1
<1>1. L \in Nat /\ Overlap \in Nat
    BY ElementsAreOfTheSet, ChunkingAssumption
<1>2. Ending(text) = SubSeq(text, m, L)
    BY DEF Ending
<1>p. ASSUME NEW k \in Nat \ {0}
      PROVE  SubSeq(text, k, L) \in Seq(S) /\ Len(SubSeq(text, k, L)) = IF k <= L THEN L - k + 1 ELSE 0
    BY <1>1, PartOfASequence
<1> HIDE DEF L
<1>3. m \in Nat \ {0}
    BY <1>1
<1>4. (IF m <= L THEN L - m + 1 ELSE 0) <= Overlap
    BY <1>1
<1> HIDE DEF m
<1> QED
    BY <1>2, <1>3, <1>4, <1>p

\* The chunks of the pieces are of the block that was split, and hold all its
\* letters.
Made == [n \in DOMAIN pieces |->
           Chunk(Strip(file, Overlapped(n)), origin, Len(chunks) + n - 1)]

LEMMA PiecesTell ==
    ASSUME FileOK, SplitInv, Numbered(chunks)
    PROVE  /\ Numbered(chunks \o Made)
           /\ SymbolsIn(chunks) \subseteq SymbolsIn(chunks \o Made)
           /\ \A s \in Letters_ : s \in InTexts(pieces) => s \in SymbolsIn(chunks \o Made)
<1> DEFINE T == True_(origin.page, origin.section)
           P == {piece \in Seq(T) : Len(piece) <= ChunkSize}
           M == Len(pieces)
           L == Len(chunks)
<1>1. pieces \in Seq(P) /\ origin \in TrueBlock /\ chunks \in Seq(TrueChunk)
    BY DEF SplitInv, Numbered
<1>2. /\ DOMAIN pieces = 1..M /\ M \in Nat /\ L \in Nat
      /\ \A n \in DOMAIN pieces : pieces[n] \in P
    BY <1>1, ElementsAreOfTheSet
<1> HIDE DEF M, L, T
<1>3. ASSUME NEW n \in DOMAIN pieces
      PROVE  /\ Overlapped(n) \in Seq(T) /\ Len(Overlapped(n)) <= ChunkSize + Overlap
             /\ ToSet(pieces[n]) \subseteq ToSet(Overlapped(n))
    <2>0. ChunkSize \in Nat /\ Overlap \in Nat
        BY ChunkingAssumption
    <2>1. CASE n = 1
        <3>1. Overlapped(n) = pieces[n] /\ pieces[n] \in Seq(T) /\ Len(pieces[n]) <= ChunkSize
            BY <1>2, <2>1 DEF Overlapped
        <3>2. Len(pieces[n]) \in Nat
            BY <3>1, ElementsAreOfTheSet
        <3> QED
            BY <2>0, <3>1, <3>2
    <2>2. CASE n # 1
        <3> DEFINE ending == Ending(pieces[n - 1])
                   piece == pieces[n]
        <3>1. n - 1 \in DOMAIN pieces
            BY <1>2, <2>2
        <3>2. pieces[n - 1] \in Seq(T)
            BY <1>2, <3>1
        <3>3. ending \in Seq(T) /\ Len(ending) <= Overlap
            BY <3>2, EndingStays
        <3>4. piece \in Seq(T) /\ Len(piece) <= ChunkSize
            BY <1>2
        <3>5. Overlapped(n) = ending \o piece
            BY <2>2 DEF Overlapped
        <3> HIDE DEF ending, piece
        <3>6. /\ ending \o piece \in Seq(T) /\ Len(ending \o piece) = Len(ending) + Len(piece)
              /\ ToSet(ending \o piece) = ToSet(ending) \union ToSet(piece)
            BY <3>3, <3>4, Concatenation, ElementsOfConcatenation
        <3>7. Len(ending) \in Nat /\ Len(piece) \in Nat
            BY <3>3, <3>4, ElementsAreOfTheSet
        <3>8. Len(Overlapped(n)) <= ChunkSize + Overlap
            BY <2>0, <3>3, <3>4, <3>5, <3>6, <3>7
        <3> QED
            BY <3>5, <3>6, <3>8 DEF piece
    <2> QED
        BY <2>1, <2>2
<1>4. ASSUME NEW n \in DOMAIN pieces
      PROVE  /\ Made[n] \in TrueChunk /\ Len(Made[n].text) <= ChunkSize + Overlap
             /\ Made[n].ordinal = L + n - 1
             /\ \A s \in Letters_ : s \in ToSet(pieces[n]) => s \in ToSet(Made[n].text)
    <2> DEFINE whole == Overlapped(n)
               text == Strip(file, whole)
               ordinal == L + n - 1
    <2>1. whole \in Seq(T) /\ Len(whole) <= ChunkSize + Overlap /\ ToSet(pieces[n]) \subseteq ToSet(whole)
        BY <1>3
    <2> HIDE DEF whole
    <2>2. /\ text \in Seq(T) /\ Len(text) <= Len(whole)
          /\ \A s \in ToSet(whole) : KindOf(file, s) = "w" => s \in ToSet(text)
        BY <2>1, StripKeeps
    <2> HIDE DEF text
    <2>3. ordinal \in Nat
        BY <1>2
    <2>4. Made[n] = Chunk(text, origin, ordinal)
        BY DEF Made, text, whole, L
    <2> HIDE DEF ordinal
    <2>5. Made[n] \in TrueChunk /\ Made[n].text = text /\ Made[n].ordinal = ordinal
        BY <1>1, <2>2, <2>3, <2>4, ChunkIsTrue DEF T
    <2>6. Len(text) <= ChunkSize + Overlap
        <3>1. Len(text) \in Nat /\ Len(whole) \in Nat /\ ChunkSize \in Nat /\ Overlap \in Nat
            BY <2>1, <2>2, ElementsAreOfTheSet, ChunkingAssumption
        <3> QED
            BY <2>1, <2>2, <3>1
    <2>7. \A s \in Letters_ : s \in ToSet(pieces[n]) => s \in ToSet(text)
        BY <2>1, <2>2, LettersOfAFile
    <2> QED
        BY <2>5, <2>6, <2>7 DEF ordinal
<1>5. DOMAIN Made = DOMAIN pieces /\ Made = [n \in DOMAIN pieces |-> Made[n]]
    BY DEF Made
<1>6. Made \in Seq(TrueChunk)
    BY <1>2, <1>4, <1>5
<1>7. /\ Numbered(chunks \o Made)
      /\ SymbolsIn(chunks \o Made) = SymbolsIn(chunks) \union SymbolsIn(Made)
    BY <1>4, <1>5, <1>6, MoreChunks DEF L
<1>8. ASSUME NEW s \in Letters_, s \in InTexts(pieces) PROVE s \in SymbolsIn(Made)
    <2>1. PICK n \in DOMAIN pieces : s \in ToSet(pieces[n])
        BY <1>8 DEF InTexts
    <2>2. s \in ToSet(Made[n].text)
        BY <1>4, <2>1
    <2> QED
        BY <1>5, <2>2 DEF SymbolsIn
<1> QED
    BY <1>7, <1>8

-----------------------------------------------------------------------------
(* Steps                                                                   *)

LEMMA SameFile ==
    ASSUME format' = format, file' = file
    PROVE  /\ TrueBlock' = TrueBlock /\ TrueChunk' = TrueChunk /\ Letters_' = Letters_
           /\ FileOK' <=> FileOK
BY DEF TrueBlock, TrueChunk, True_, Cites, TitleAbove, Letters_, FileOK, Sections

LEMMA SameReasons ==
    ASSUME format' = format, file' = file, warned' = warned
    PROVE  \A s : LeftOut(s)' <=> LeftOut(s)
BY DEF LeftOut, LeftOutOfRow, InColumn, HeaderOf

LEMMA SameSplit ==
    ASSUME format' = format, file' = file, splitVars' = splitVars, SplitInv
    PROVE  SplitInv'
<1>1. origin' = origin /\ work' = work /\ pieces' = pieces
    BY DEF splitVars
<1>2. TrueBlock' = TrueBlock
    BY SameFile
<1>3. True_(origin.page, origin.section)' = True_(origin.page, origin.section)
    BY <1>1 DEF True_, Cites, TitleAbove, Letters_
<1> QED
    BY <1>1, <1>2, <1>3 DEF SplitInv

LEMMA SamePending ==
    ASSUME format' = format, file' = file, pending' = pending, length' = length,
           PendingInv, blocks' \in Seq(TrueBlock)
    PROVE  PendingInv'
<1>1. TrueBlock' = TrueBlock
    BY SameFile
<1>2. Join(pending)' = Join(pending)
    BY DEF Join, Stripped
<1> QED
    BY <1>1, <1>2 DEF PendingInv

LEMMA SameChunks ==
    ASSUME format' = format, file' = file, chunks' = chunks, dropped' = dropped,
           ChunksInv, stage # "done" \/ stage' = "done"
    PROVE  ChunksInv'
<1>1. TrueChunk' = TrueChunk
    BY SameFile
<1> QED
    BY <1>1 DEF ChunksInv

\* Chunks that are numbered from 0 are in order.
LEMMA NumberedIsInOrder ==
    ASSUME NEW all, Numbered(all)
    PROVE  /\ all \in Seq(TrueChunk)
           /\ \A n \in DOMAIN all : Len(all[n].text) <= ChunkSize + Overlap /\ all[n].ordinal = n - 1
           /\ \A m, n \in DOMAIN all : m < n => all[m].ordinal < all[n].ordinal
<1>1. all \in Seq(TrueChunk) /\ DOMAIN all = 1..Len(all) /\ Len(all) \in Nat
    BY ElementsAreOfTheSet DEF Numbered
<1>2. \A n \in DOMAIN all : Len(all[n].text) <= ChunkSize + Overlap /\ all[n].ordinal = n - 1
    BY DEF Numbered
<1>3. ASSUME NEW m \in DOMAIN all, NEW n \in DOMAIN all, m < n
      PROVE  all[m].ordinal < all[n].ordinal
    <2>1. m \in Int /\ n \in Int
        BY <1>1
    <2>2. all[m].ordinal = m - 1 /\ all[n].ordinal = n - 1
        BY <1>2
    <2> QED
        BY <1>3, <2>1, <2>2
<1> QED
    BY <1>1, <1>2, <1>3

LEMMA NewChunks ==
    ASSUME format' = format, file' = file, ChunksInv, stage # "done", dropped' = dropped,
           NEW all, Numbered(all), chunks' = all
    PROVE  ChunksInv'
<1>1. TrueChunk' = TrueChunk
    BY SameFile
<1>2. /\ all \in Seq(TrueChunk)
      /\ \A n \in DOMAIN all : Len(all[n].text) <= ChunkSize + Overlap
      /\ \A n \in DOMAIN all : all[n].ordinal = n - 1
      /\ \A m, n \in DOMAIN all : m < n => all[m].ordinal < all[n].ordinal
    BY NumberedIsInOrder, Zenon
<1>3. dropped \in Seq(TrueChunk) /\ dropped = <<>>
    BY DEF ChunksInv
<1> QED
    BY <1>1, <1>2, <1>3 DEF ChunksInv

LEMMA ChunksAreNumbered ==
    ASSUME ChunksInv, stage # "done"
    PROVE  Numbered(chunks)
BY DEF ChunksInv, Numbered

LEMMA FilesAreRead ==
    ASSUME FileInv
    PROVE  FileOK /\ format \in Formats
BY UploadedFilesAreOK DEF FileInv

LEMMA InitHolds ==
    ASSUME Init
    PROVE  ChunkingInv
<1>1. format \in Formats /\ FileOK
    BY UploadedFilesAreOK DEF Init
<1>2. <<>> \in Seq(TrueBlock) /\ <<>> \in Seq(TrueChunk) /\ DOMAIN <<>> = {}
    BY EmptyIsASequence
<1>3. NoBlock \in TrueBlock
    <2>1. None \in Nat /\ None \in Sections /\ <<>> \in Seq(True_(None, None))
        BY EmptyIsASequence DEF None, Sections
    <2> QED
        BY <2>1, BlockIsTrue DEF NoBlock
<1>4. FileInv
    BY DEF Init, FileInv
<1>5. PendingInv
    BY <1>2 DEF Init, PendingInv
<1>6. SplitInv
    <2> DEFINE S == [text : Seq(True_(origin.page, origin.section)), depth : Nat]
               P == {piece \in Seq(True_(origin.page, origin.section)) : Len(piece) <= ChunkSize}
    <2>1. <<>> \in Seq(S) /\ <<>> \in Seq(P)
        BY EmptyIsASequence
    <2> HIDE DEF S, P
    <2>2. work \in Seq(S) /\ pieces \in Seq(P) /\ origin \in TrueBlock
        BY <1>3, <2>1 DEF Init
    <2> QED
        BY <2>2 DEF SplitInv, S, P
<1>7. ChunksInv
    BY <1>2 DEF Init, ChunksInv
<1>8. StageInv
    BY DEF Init, StageInv
<1>9. LettersInv
    BY DEF Init, LettersInv
<1> QED
    BY <1>4, <1>5, <1>6, <1>7, <1>8, <1>9 DEF ChunkingInv

LEMMA ParseFileKeeps ==
    ASSUME ChunkingInv, ParseFile
    PROVE  ChunkingInv'
<1>0. FileInv /\ PendingInv /\ SplitInv /\ ChunksInv /\ StageInv
    BY DEF ChunkingInv
<1>1. /\ format' = format /\ file' = file /\ pending' = pending /\ length' = length
      /\ splitVars' = splitVars /\ chunks' = chunks /\ dropped' = dropped
      /\ stage = "file" /\ stage' = "blocks"
    BY DEF ParseFile
<1>2. PICK readable \in BOOLEAN :
         /\ readable \/ format = "image"
         /\ blocks' = IF readable THEN Parsed(format, file) ELSE <<>>
         /\ warned' = (~readable \/ Warned(format, file))
    BY DEF ParseFile
<1>3. FileOK /\ format \in Formats
    BY <1>0, FilesAreRead
<1>4. FileTold(Parsed(format, file))
    BY <1>3, ParsedTells
<1>5. blocks' \in Seq(TrueBlock)
    BY <1>2, <1>4, EmptyIsASequence DEF FileTold
<1>6. warned' \in BOOLEAN
    BY <1>2
<1>7. FileInv'
    BY <1>0, <1>1, <1>6 DEF FileInv
<1>8. PendingInv' /\ SplitInv' /\ ChunksInv'
    BY <1>0, <1>1, <1>5, SamePending, SameSplit, SameChunks
<1>9. StageInv'
    BY <1>0, <1>1 DEF StageInv, splitVars
<1>10. LettersInv'
    <2> SUFFICES ASSUME NEW s \in Letters_, ~LeftOut(s)'
                 PROVE  s \in SymbolsIn(blocks')
        BY <1>1, SameFile DEF LettersInv, InHand
    <2>0. ~Unnamed(s)
        BY <1>1 DEF Unnamed, LeftOut, LeftOutOfRow, InColumn, HeaderOf
    <2>1. s[1] \in DOMAIN file /\ s \in LettersOf(s[1])
        BY <1>3, <2>0, LettersOfAFile DEF LettersOf
    <2>2. readable
        <3> SUFFICES ASSUME ~readable PROVE FALSE
            OBVIOUS
        <3>1. warned' /\ format = "image"
            BY <1>2
        <3> QED
            BY <1>1, <3>1 DEF LeftOut
    <2>3. blocks' = Parsed(format, file) /\ (warned' <=> Warned(format, file))
        BY <1>2, <2>2
    <2>4. ~Lost(s[1])
        BY <1>1, <2>3 DEF Lost, LeftOut, LeftOutOfRow, HeaderOf
    <2>5. LettersOf(s[1]) \subseteq SymbolsIn(Parsed(format, file))
        BY <1>4, <2>1, <2>4 DEF FileTold
    <2> QED
        BY <2>1, <2>3, <2>5
<1> QED
    BY <1>7, <1>8, <1>9, <1>10 DEF ChunkingInv

LEMMA ParseRaisesKeeps ==
    ASSUME ChunkingInv, ParseRaises
    PROVE  ChunkingInv'
<1>0. FileInv /\ PendingInv /\ SplitInv /\ ChunksInv /\ StageInv
    BY DEF ChunkingInv
<1>1. /\ format' = format /\ file' = file /\ pending' = pending /\ length' = length
      /\ splitVars' = splitVars /\ chunks' = chunks /\ dropped' = dropped
      /\ stage = "file" /\ stage' = "unreadable" /\ warned' = warned /\ blocks' = blocks
    BY DEF ParseRaises
<1>2. FileInv'
    BY <1>0, <1>1 DEF FileInv
<1>3. PendingInv' /\ SplitInv' /\ ChunksInv'
    BY <1>0, <1>1, SamePending, SameSplit, SameChunks DEF PendingInv
<1>4. StageInv' /\ LettersInv'
    BY <1>0, <1>1 DEF StageInv, LettersInv
<1> QED
    BY <1>2, <1>3, <1>4 DEF ChunkingInv

LEMMA SplitRaisesKeeps ==
    ASSUME ChunkingInv, SplitRaises
    PROVE  ChunkingInv'
<1>0. FileInv /\ PendingInv /\ SplitInv /\ ChunksInv /\ StageInv
    BY DEF ChunkingInv
<1>1. /\ format' = format /\ file' = file /\ pending' = pending /\ length' = length
      /\ splitVars' = splitVars /\ chunks' = chunks /\ dropped' = dropped
      /\ stage = "splitting" /\ stage' = "crashed" /\ warned' = warned /\ blocks' = blocks
    BY DEF SplitRaises
<1>2. FileInv'
    BY <1>0, <1>1 DEF FileInv
<1>3. PendingInv' /\ SplitInv' /\ ChunksInv'
    BY <1>0, <1>1, SamePending, SameSplit, SameChunks DEF PendingInv
<1>4. StageInv' /\ LettersInv'
    BY <1>0, <1>1 DEF StageInv, LettersInv
<1> QED
    BY <1>2, <1>3, <1>4 DEF ChunkingInv

\* The letters of the first of a sequence, and of the rest.
LEMMA HeadAndTail ==
    ASSUME NEW S, NEW some \in Seq(S), some # <<>>
    PROVE  /\ some[1] \in S /\ Tail(some) \in Seq(S)
           /\ ToSet(some) = {some[1]} \union ToSet(Tail(some))
<1> DEFINE L == Len(some)
           rest == Tail(some)
<1>1. L \in Nat /\ DOMAIN some = 1..L /\ L # 0
    OBVIOUS
<1>2. /\ rest \in Seq(S) /\ Len(rest) = L - 1 /\ \A i \in 1..L - 1 : rest[i] = some[i + 1]
      /\ some[1] \in S
    OBVIOUS
<1> HIDE DEF L, rest
<1>3. DOMAIN rest = 1..L - 1
    BY <1>2, ElementsAreOfTheSet
<1>4. ASSUME NEW i \in 1..L PROVE some[i] \in {some[1]} \union ToSet(rest)
    <2>1. CASE i = 1
        BY <2>1
    <2>2. CASE i # 1
        <3>1. i - 1 \in 1..L - 1 /\ (i - 1) + 1 = i
            BY <1>1, <2>2
        <3>2. rest[i - 1] = some[i]
            BY <1>2, <3>1
        <3> QED
            BY <1>3, <3>1, <3>2 DEF ToSet
    <2> QED
        BY <2>1, <2>2
<1>5. ASSUME NEW j \in 1..L - 1 PROVE rest[j] \in ToSet(some)
    <2>1. j + 1 \in 1..L
        BY <1>1
    <2> QED
        BY <1>1, <1>2, <2>1 DEF ToSet
<1>6. 1 \in 1..L
    BY <1>1
<1>7. ToSet(some) = {some[1]} \union ToSet(rest)
    BY <1>1, <1>3, <1>4, <1>5, <1>6 DEF ToSet
<1> QED
    BY <1>2, <1>7 DEF rest

LEMMA SymbolsOfHeadAndTail ==
    ASSUME NEW S, NEW some \in Seq(S), some # <<>>
    PROVE  SymbolsIn(some) = ToSet(some[1].text) \union SymbolsIn(Tail(some))
<1>1. ASSUME NEW seq PROVE SymbolsIn(seq) = UNION {ToSet(b.text) : b \in ToSet(seq)}
    BY DEF SymbolsIn, ToSet
<1>2. ToSet(some) = {some[1]} \union ToSet(Tail(some))
    BY HeadAndTail
<1>3. UNION {ToSet(b.text) : b \in {some[1]} \union ToSet(Tail(some))}
        = ToSet(some[1].text) \union UNION {ToSet(b.text) : b \in ToSet(Tail(some))}
    OBVIOUS
<1> QED
    BY <1>1, <1>2, <1>3, Zenon

\* What is known of the block at hand.
LEMMA CurrentBlock ==
    ASSUME PendingInv, blocks # <<>>
    PROVE  /\ Current \in TrueBlock /\ Tail(blocks) \in Seq(TrueBlock)
           /\ SymbolsIn(blocks) = ToSet(Current.text) \union SymbolsIn(Tail(blocks))
           /\ Text \in Seq(True_(Current.page, Current.section)) /\ Len(Text) \in Nat
           /\ \A s \in ToSet(Current.text) : KindOf(file, s) = "w" => s \in ToSet(Text)
<1>1. blocks \in Seq(TrueBlock)
    BY DEF PendingInv
<1>2. /\ Current \in TrueBlock /\ Tail(blocks) \in Seq(TrueBlock)
      /\ SymbolsIn(blocks) = ToSet(Current.text) \union SymbolsIn(Tail(blocks))
    BY <1>1, HeadAndTail, SymbolsOfHeadAndTail DEF Current
<1>3. /\ Text \in Seq(True_(Current.page, Current.section))
      /\ \A s \in ToSet(Current.text) : KindOf(file, s) = "w" => s \in ToSet(Text)
    BY <1>2, TextsOfBlocks DEF Text
<1>4. Len(Text) \in Nat
    BY <1>3, ElementsAreOfTheSet
<1> QED
    BY <1>2, <1>3, <1>4

LEMMA SkipBlankKeeps ==
    ASSUME ChunkingInv, SkipBlank
    PROVE  ChunkingInv'
<1>0. FileInv /\ PendingInv /\ SplitInv /\ ChunksInv /\ StageInv /\ LettersInv
    BY DEF ChunkingInv
<1>1. /\ format' = format /\ file' = file /\ pending' = pending /\ length' = length
      /\ splitVars' = splitVars /\ chunks' = chunks /\ dropped' = dropped
      /\ stage = "blocks" /\ stage' = stage /\ warned' = warned /\ blocks' = Tail(blocks)
      /\ blocks # <<>> /\ Text = <<>>
    BY DEF SkipBlank, Reading_
<1>3. FileOK
    BY <1>0, FilesAreRead
<1>4. /\ Tail(blocks) \in Seq(TrueBlock)
      /\ SymbolsIn(blocks) = ToSet(Current.text) \union SymbolsIn(Tail(blocks))
      /\ \A s \in ToSet(Current.text) : KindOf(file, s) = "w" => s \in ToSet(Text)
    BY <1>0, <1>1, CurrentBlock
<1>5. FileInv' /\ StageInv'
    BY <1>0, <1>1 DEF FileInv, StageInv, splitVars
<1>6. PendingInv' /\ SplitInv' /\ ChunksInv'
    BY <1>0, <1>1, <1>4, SamePending, SameSplit, SameChunks
<1>7. LettersInv'
    <2>1. ASSUME NEW s \in Letters_, ~LeftOut(s) PROVE s \in InHand'
        <3>1. s \in InHand
            BY <1>0, <1>1, <2>1 DEF LettersInv
        <3>2. s \notin ToSet(Current.text)
            <4>1. ToSet(Text) = {}
                BY <1>1 DEF ToSet
            <4> QED
                BY <1>3, <1>4, <4>1, LettersOfAFile
        <3> QED
            BY <1>1, <1>4, <3>1, <3>2 DEF InHand, splitVars
    <2> QED
        BY <1>1, <2>1, SameFile, SameReasons DEF LettersInv
<1> QED
    BY <1>5, <1>6, <1>7 DEF ChunkingInv

PendingOK(some, l) ==
    /\ some \in Seq(TrueBlock) /\ l \in Nat
    /\ \A n \in DOMAIN some : some[n].page = some[1].page /\ some[n].section = some[1].section
    /\ IF some = <<>> THEN l = 0 ELSE Len(Join(some)) + 2 = l /\ l <= ChunkSize + 2

\* A block that fits, and is where the last one is, is pending as well.
LEMMA OneMorePending ==
    ASSUME FileOK, NEW some, NEW l, PendingOK(some, l), NEW block \in TrueBlock,
           some # <<>> => /\ some[Len(some)].page = block.page
                          /\ some[Len(some)].section = block.section,
           IF some = <<>> THEN Len(Stripped(block)) <= ChunkSize
           ELSE l + Len(Stripped(block)) + 2 <= ChunkSize
    PROVE  PendingOK(Append(some, block), l + Len(Stripped(block)) + 2)
<1> DEFINE more == Append(some, block)
           L == Len(some)
           T == Len(Stripped(block))
           J == Len(Join(some))
           K == Len(Join(more))
<1>1. /\ some \in Seq(TrueBlock) /\ l \in Nat
      /\ \A n \in DOMAIN some : some[n].page = some[1].page /\ some[n].section = some[1].section
      /\ IF some = <<>> THEN l = 0 ELSE J + 2 = l
    BY DEF PendingOK
<1>2. /\ J \in Nat /\ T \in Nat /\ K = J + (IF some = <<>> THEN 0 ELSE 2) + T
      /\ some = <<>> => J = 0
    BY <1>1, LengthOfJoin
<1>3. /\ more \in Seq(TrueBlock) /\ Len(more) = L + 1 /\ more[L + 1] = block
      /\ \A n \in 1..L : more[n] = some[n]
    BY <1>1, ElementsOfAppend
<1>4. DOMAIN some = 1..L /\ L \in Nat
    BY <1>1, ElementsAreOfTheSet
<1>e. some = <<>> <=> L = 0
    BY <1>1
<1>5. ChunkSize \in Nat
    BY ChunkingAssumption
<1>f. IF some = <<>> THEN T <= ChunkSize ELSE l + T + 2 <= ChunkSize
    OBVIOUS
<1> HIDE DEF more, L, T, J, K
<1>6. DOMAIN more = 1..L + 1 /\ more # <<>>
    <2>1. DOMAIN more = 1..L + 1
        BY <1>3, ElementsAreOfTheSet
    <2>2. more # <<>>
        BY <1>3, <1>4
    <2> QED
        BY <2>1, <2>2
<1>7. K + 2 = l + T + 2 /\ l + T + 2 <= ChunkSize + 2 /\ l + T + 2 \in Nat
    <2>1. CASE some = <<>>
        BY <1>1, <1>2, <1>5, <1>f, <2>1
    <2>2. CASE some # <<>>
        BY <1>1, <1>2, <1>5, <1>f, <2>2
    <2> QED
        BY <2>1, <2>2
<1>8. \A n \in 1..L + 1 : more[n].page = more[1].page /\ more[n].section = more[1].section
    <2>1. CASE some = <<>>
        BY <1>e, <2>1
    <2>2. CASE some # <<>>
        <3>1. 1 \in 1..L /\ L \in 1..L /\ L \in DOMAIN some
            BY <1>4, <1>e, <2>2
        <3>2. more[1] = some[1]
            BY <1>3, <3>1
        <3>3. block.page = some[1].page /\ block.section = some[1].section
            BY <1>1, <2>2, <3>1 DEF L
        <3>4. ASSUME NEW n \in 1..L + 1
              PROVE  more[n].page = some[1].page /\ more[n].section = some[1].section
            <4>1. CASE n = L + 1
                BY <1>3, <3>3, <4>1
            <4>2. CASE n # L + 1
                <5>1. n \in 1..L
                    BY <1>4, <4>2
                <5> QED
                    BY <1>1, <1>3, <1>4, <5>1
            <4> QED
                BY <4>1, <4>2
        <3> QED
            BY <3>2, <3>4
    <2> QED
        BY <2>1, <2>2
<1>9. PendingOK(more, l + T + 2)
    BY <1>3, <1>6, <1>7, <1>8 DEF PendingOK, K
<1> QED
    BY <1>9 DEF more, T

LEMMA TakeBlockKeeps ==
    ASSUME ChunkingInv, TakeBlock
    PROVE  ChunkingInv'
<1> DEFINE before == IF MustFlush THEN <<>> ELSE pending
           sum == IF MustFlush THEN 0 ELSE length
           all == IF MustFlush THEN chunks \o Emitted ELSE chunks
           rest == Tail(blocks)
<1>0. FileInv /\ PendingInv /\ SplitInv /\ ChunksInv /\ StageInv /\ LettersInv
    BY DEF ChunkingInv
<1>1. /\ format' = format /\ file' = file /\ dropped' = dropped /\ warned' = warned
      /\ stage = "blocks" /\ blocks' = rest /\ blocks # <<>> /\ Text # <<>>
      /\ work = <<>> /\ pieces = <<>> /\ chunks' = all
    BY DEF TakeBlock, Reading_
<1>2. FileOK
    BY <1>0, FilesAreRead
<1>3. /\ Current \in TrueBlock /\ rest \in Seq(TrueBlock)
      /\ SymbolsIn(blocks) = ToSet(Current.text) \union SymbolsIn(rest)
      /\ Text \in Seq(True_(Current.page, Current.section)) /\ Len(Text) \in Nat
      /\ \A s \in ToSet(Current.text) : KindOf(file, s) = "w" => s \in ToSet(Text)
    BY <1>0, <1>1, CurrentBlock
<1>4. Numbered(chunks)
    BY <1>0, <1>1, ChunksAreNumbered
<1>5. /\ Numbered(all) /\ SymbolsIn(chunks) \subseteq SymbolsIn(all)
      /\ \A s \in Letters_ :
            s \in SymbolsIn(pending) => s \in SymbolsIn(all) \/ s \in SymbolsIn(before)
    <2>1. CASE MustFlush
        BY <1>0, <1>2, <1>4, <2>1, EmittedTells
    <2>2. CASE ~MustFlush
        BY <1>4, <2>2
    <2> QED
        BY <2>1, <2>2
<1>6. PendingOK(before, sum)
    <2>1. CASE MustFlush
        BY <2>1, EmptyIsASequence DEF PendingOK
    <2>2. CASE ~MustFlush
        BY <1>0, <2>2 DEF PendingOK, PendingInv
    <2> QED
        BY <2>1, <2>2
<1>7. TrueBlock' = TrueBlock /\ Letters_' = Letters_ /\ \A s : LeftOut(s)' <=> LeftOut(s)
    BY <1>1, SameFile, SameReasons
<1>c. ChunksInv'
    BY <1>0, <1>1, <1>5, NewChunks
<1>l. ASSUME NEW s \in Letters_, ~LeftOut(s)
      PROVE  \/ s \in ToSet(Text) /\ s \in ToSet(Current.text)
             \/ s \in SymbolsIn(rest) \/ s \in SymbolsIn(all) \/ s \in SymbolsIn(before)
             \/ s \in SymbolsIn(dropped)
    <2>1. s \in InHand
        BY <1>0, <1>1, <1>l DEF LettersInv
    <2>2. SymbolsIn(work) = {} /\ InTexts(pieces) = {}
        BY <1>1, NothingIsTrue DEF InTexts
    <2>3. KindOf(file, s) = "w"
        BY <1>2, LettersOfAFile
    <2> HIDE DEF all, before, rest
    <2>4. \/ s \in ToSet(Current.text) \/ s \in SymbolsIn(rest) \/ s \in SymbolsIn(pending)
          \/ s \in SymbolsIn(chunks) \/ s \in SymbolsIn(dropped)
        BY <1>3, <2>1, <2>2 DEF InHand
    <2> QED
        BY <1>3, <1>5, <2>3, <2>4
<1> HIDE DEF all, rest
<1>8. CASE Len(Text) <= ChunkSize
    <2> DEFINE more == Append(before, Current)
               l == sum + Len(Text) + 2
    <2>1. pending' = more /\ length' = l /\ stage' = "blocks" /\ splitVars' = splitVars
        BY <1>8, <1>3, ChunkingAssumption DEF TakeBlock
    <2>2. before # <<>> => /\ before[Len(before)].page = Current.page
                           /\ before[Len(before)].section = Current.section
        BY DEF MustFlush, BreaksAnchor
    <2>3. IF before = <<>> THEN Len(Text) <= ChunkSize ELSE sum + Len(Text) + 2 <= ChunkSize
        <3>1. CASE before = <<>>
            BY <1>8, <3>1
        <3>2. CASE before # <<>>
            <4>1. ~MustFlush
                BY <3>2
            <4>2. ~(length + Len(Text) + 2 > ChunkSize) /\ sum = length /\ length \in Nat
                BY <1>0, <4>1 DEF MustFlush, PendingInv
            <4>3. ChunkSize \in Nat
                BY ChunkingAssumption
            <4> QED
                BY <1>3, <3>2, <4>2, <4>3
        <3> QED
            BY <3>1, <3>2
    <2> HIDE DEF before, sum
    <2>4. PendingOK(more, l)
        BY <1>2, <1>3, <1>6, <2>2, <2>3, OneMorePending DEF Text
    <2>5. SymbolsIn(more) = SymbolsIn(before) \union ToSet(Current.text)
        <3>1. before \in Seq(TrueBlock)
            BY <1>6 DEF PendingOK
        <3> QED
            BY <1>3, <3>1, SymbolsOfAppend
    <2> HIDE DEF more, l
    <2>6. Join(pending)' = Join(more)
        BY <1>1, <2>1 DEF Join, Stripped
    <2>7. PendingInv'
        BY <1>1, <1>3, <1>7, <2>1, <2>4, <2>6 DEF PendingOK, PendingInv
    <2>8. FileInv' /\ StageInv'
        BY <1>0, <1>1, <2>1 DEF FileInv, StageInv, splitVars
    <2>9. SplitInv'
        BY <1>0, <1>1, <2>1, SameSplit
    <2>10. LettersInv'
        <3>1. ASSUME NEW s \in Letters_, ~LeftOut(s) PROVE s \in InHand'
            BY <1>1, <1>l, <2>1, <2>5, <3>1 DEF InHand
        <3> QED
            BY <1>7, <3>1 DEF LettersInv
    <2> QED
        BY <1>c, <2>7, <2>8, <2>9, <2>10 DEF ChunkingInv
<1>9. CASE ~(Len(Text) <= ChunkSize)
    <2> DEFINE one == [text |-> Text, depth |-> 1]
               S == [text : Seq(True_(Current.page, Current.section)), depth : Nat]
    <2>1. /\ pending' = <<>> /\ length' = 0 /\ work' = <<one>> /\ origin' = Current
          /\ stage' = "splitting" /\ pieces' = pieces
        BY <1>9 DEF TakeBlock
    <2>2. before = <<>>
        <3>1. Len(Text) > ChunkSize
            BY <1>3, <1>9, ChunkingAssumption
        <3> QED
            BY <3>1 DEF MustFlush
    <2>3. FileInv' /\ StageInv'
        BY <1>0, <1>1, <2>1 DEF FileInv, StageInv
    <2>4. PendingInv'
        <3>1. <<>> \in Seq(TrueBlock)
            BY EmptyIsASequence
        <3> QED
            BY <1>1, <1>3, <1>7, <2>1, <3>1 DEF PendingInv
    <2>5. one \in S /\ one.text = Text
        BY <1>3
    <2> HIDE DEF one, S
    <2>6. <<one>> \in Seq(S) /\ DOMAIN <<one>> = {1} /\ <<one>>[1] = one
        BY <2>5
    <2>7. SymbolsIn(<<one>>) = ToSet(Text)
        BY <2>5, <2>6 DEF SymbolsIn
    <2>8. SplitInv'
        <3>1. True_(origin.page, origin.section)' = True_(Current.page, Current.section)
            BY <1>1, <2>1 DEF True_, Cites, TitleAbove, Letters_
        <3> DEFINE P == {piece \in Seq(True_(Current.page, Current.section)) :
                           Len(piece) <= ChunkSize}
        <3>2. <<>> \in Seq(P)
            BY EmptyIsASequence
        <3>3. work' \in Seq(S) /\ pieces' \in Seq(P) /\ origin' \in TrueBlock
            BY <1>1, <1>3, <2>1, <2>6, <3>2
        <3> QED
            BY <1>7, <3>1, <3>3 DEF SplitInv, S
    <2>9. LettersInv'
        <3>1. ASSUME NEW s \in Letters_, ~LeftOut(s) PROVE s \in InHand'
            <4>1. SymbolsIn(before) = {}
                BY <2>2, NothingIsTrue
            <4> QED
                BY <1>1, <1>l, <2>1, <2>7, <3>1, <4>1 DEF InHand
        <3> QED
            BY <1>7, <3>1 DEF LettersInv
    <2> QED
        BY <1>c, <2>3, <2>4, <2>8, <2>9 DEF ChunkingInv
<1> QED
    BY <1>8, <1>9

LEMMA TextsOfConcatenation ==
    ASSUME NEW S, NEW some \in Seq(S), NEW more \in Seq(S)
    PROVE  InTexts(some \o more) = InTexts(some) \union InTexts(more)
<1>1. ASSUME NEW seq PROVE InTexts(seq) = UNION {ToSet(t) : t \in ToSet(seq)}
    BY DEF InTexts, ToSet
<1> DEFINE all == some \o more
<1>2. ToSet(all) = ToSet(some) \union ToSet(more)
    BY ElementsOfConcatenation
<1> HIDE DEF all
<1>3. UNION {ToSet(t) : t \in ToSet(some) \union ToSet(more)}
        = (UNION {ToSet(t) : t \in ToSet(some)}) \union (UNION {ToSet(t) : t \in ToSet(more)})
    OBVIOUS
<1>4. InTexts(all) = InTexts(some) \union InTexts(more)
    BY <1>1, <1>2, <1>3, Zenon
<1> QED
    BY <1>4 DEF all

LEMMA SplitTextKeeps ==
    ASSUME ChunkingInv, SplitText
    PROVE  ChunkingInv'
<1> DEFINE T == True_(origin.page, origin.section)
           W == [text : Seq(T), depth : Nat]
           P == {piece \in Seq(T) : Len(piece) <= ChunkSize}
           text == work[1].text
           depth == work[1].depth
           best == BestSeparator(text)
           parts == SplitKeepingSeparator(text, Separators[best])
           packed == GreedyPack(parts)
           rest == Tail(work)
<1>0. FileInv /\ PendingInv /\ SplitInv /\ ChunksInv /\ StageInv /\ LettersInv
    BY DEF ChunkingInv
<1>1. /\ format' = format /\ file' = file /\ dropped' = dropped /\ warned' = warned
      /\ pending' = pending /\ length' = length /\ chunks' = chunks /\ origin' = origin
      /\ stage = "splitting" /\ stage' = stage /\ blocks' = blocks /\ work # <<>>
    BY DEF SplitText
<1>2. FileOK
    BY <1>0, FilesAreRead
<1>3. work \in Seq(W) /\ pieces \in Seq(P) /\ origin \in TrueBlock
    BY <1>0 DEF SplitInv
<1>4. /\ work[1] \in W /\ rest \in Seq(W)
      /\ SymbolsIn(work) = ToSet(text) \union SymbolsIn(rest)
    BY <1>1, <1>3, HeadAndTail, SymbolsOfHeadAndTail
<1>5. text \in Seq(T) /\ depth \in Nat
    BY <1>4
<1>6. FileInv' /\ StageInv' /\ PendingInv' /\ ChunksInv'
    <2>1. FileInv' /\ StageInv'
        BY <1>0, <1>1 DEF FileInv, StageInv
    <2>2. PendingInv' /\ ChunksInv'
        BY <1>0, <1>1, SamePending, SameChunks DEF PendingInv
    <2> QED
        BY <2>1, <2>2
<1>7. TrueBlock' = TrueBlock /\ Letters_' = Letters_ /\ \A s : LeftOut(s)' <=> LeftOut(s)
    BY <1>1, SameFile, SameReasons
<1>8. T' = T
    BY <1>1 DEF True_, Cites, TitleAbove, Letters_
<1>9. ASSUME work' \in Seq(W), pieces' \in Seq(P) PROVE SplitInv'
    BY <1>1, <1>3, <1>7, <1>8, <1>9 DEF SplitInv
<1>10. ASSUME SymbolsIn(rest) \subseteq SymbolsIn(work'), InTexts(pieces) \subseteq InTexts(pieces'),
              \A s \in Letters_ :
                 s \in ToSet(text) => s \in SymbolsIn(work') \/ s \in InTexts(pieces')
       PROVE  LettersInv'
    <2>1. ASSUME NEW s \in Letters_, ~LeftOut(s) PROVE s \in InHand'
        <3>1. s \in InHand
            BY <1>0, <1>1, <2>1 DEF LettersInv
        <3> HIDE DEF text, rest
        <3> QED
            BY <1>1, <1>4, <1>10, <3>1 DEF InHand
    <2> QED
        BY <1>7, <2>1 DEF LettersInv
<1>11. ASSUME SplitInv', LettersInv' PROVE ChunkingInv'
    BY <1>6, <1>11 DEF ChunkingInv
<1>p. pieces \in Seq(Seq(T))
    <2>1. ToSet(pieces) \subseteq Seq(T)
        <3>1. ToSet(pieces) \subseteq P
            BY <1>3, ElementsAreOfTheSet
        <3> QED
            BY <3>1
    <2> HIDE DEF P, T
    <2> QED
        BY <1>3, <2>1, SequencesOfMore
<1>12. CASE /\ Len(text) <= ChunkSize
            /\ pieces' = Append(pieces, text)
            /\ work' = Tail(work)
    <2>1. text \in P
        BY <1>5, <1>12
    <2> HIDE DEF T, text
    <2>2. InTexts(Append(pieces, text)) = InTexts(pieces) \union ToSet(text)
        BY <1>5, <1>p, TextsOfAppend
    <2> HIDE DEF P
    <2>3. Append(pieces, text) \in Seq(P)
        BY <1>3, <2>1, ElementsOfAppend
    <2> HIDE DEF W
    <2>4. SplitInv'
        BY <1>4, <1>9, <1>12, <2>3
    <2>5. LettersInv'
        BY <1>10, <1>12, <2>2
    <2> QED
        BY <1>11, <2>4, <2>5
<1>13. CASE /\ pieces' = pieces \o Slices(text, ChunkSize)
            /\ work' = Tail(work)
    <2> DEFINE slices == Slices(text, ChunkSize)
    <2>0. ChunkSize \in Nat \ {0}
        BY ChunkingAssumption
    <2> HIDE DEF T, text
    <2>1. slices \in Seq(P) /\ ToSet(text) \subseteq InTexts(slices)
        BY <1>5, <2>0, SlicesKeep
    <2> HIDE DEF slices, P, W
    <2>2. /\ pieces \o slices \in Seq(P)
          /\ InTexts(pieces \o slices) = InTexts(pieces) \union InTexts(slices)
        BY <1>3, <2>1, Concatenation, TextsOfConcatenation
    <2>3. pieces' = pieces \o slices
        BY <1>13 DEF slices
    <2>4. SplitInv'
        BY <1>4, <1>9, <1>13, <2>2, <2>3
    <2>5. LettersInv'
        BY <1>10, <1>13, <2>1, <2>2, <2>3
    <2> QED
        BY <1>11, <2>4, <2>5
<1>14. CASE /\ work' = Called(packed, depth + 1) \o Tail(work)
            /\ pieces' = pieces
    <2> DEFINE called == Called(packed, depth + 1)
               d == depth + 1
    <2>0. d \in Nat
        BY <1>5
    <2> HIDE DEF T, text
    <2>1. parts \in Seq(Seq(T)) /\ ToSet(text) \subseteq InTexts(parts)
        BY <1>5, SplittingKeeps
    <2> HIDE DEF parts
    <2>2. /\ packed \in Seq(Seq(T))
          /\ \A s \in InTexts(parts) : KindOf(file, s) = "w" => s \in InTexts(packed)
        BY <2>1, PackingKeeps
    <2> HIDE DEF packed, d
    <2>3. DOMAIN packed = 1..Len(packed) /\ Len(packed) \in Nat /\ \A n \in DOMAIN packed : packed[n] \in Seq(T)
        BY <2>2, ElementsAreOfTheSet
    <2>4. called = [n \in DOMAIN packed |-> [text |-> packed[n], depth |-> d]]
        BY DEF Called, d
    <2> HIDE DEF called
    <2>5. called \in Seq(W) /\ DOMAIN called = DOMAIN packed
          /\ \A n \in DOMAIN packed : called[n].text = packed[n]
        <3>1. \A n \in DOMAIN packed : [text |-> packed[n], depth |-> d] \in W
            BY <2>0, <2>3
        <3> HIDE DEF W
        <3>2. called \in Seq(W)
            BY <2>3, <2>4, <3>1
        <3> QED
            BY <2>4, <3>2
    <2>6. SymbolsIn(called) = InTexts(packed)
        BY <2>5 DEF SymbolsIn, InTexts
    <2> HIDE DEF W, P, rest
    <2>7. /\ called \o rest \in Seq(W)
          /\ SymbolsIn(called \o rest) = SymbolsIn(called) \union SymbolsIn(rest)
        BY <1>4, <2>5, Concatenation, SymbolsOfConcatenation
    <2>8. work' = called \o rest
        BY <1>14 DEF called, rest, d
    <2>9. SplitInv'
        BY <1>3, <1>9, <1>14, <2>7, <2>8
    <2>10. LettersInv'
        <3>1. ASSUME NEW s \in Letters_, s \in ToSet(text) PROVE s \in SymbolsIn(work')
            <4>1. KindOf(file, s) = "w"
                BY <1>2, LettersOfAFile
            <4> QED
                BY <2>1, <2>2, <2>6, <2>7, <2>8, <3>1, <4>1
        <3> QED
            BY <1>10, <1>14, <2>7, <2>8, <3>1
    <2> QED
        BY <1>11, <2>9, <2>10
<1> QED
    BY <1>12, <1>13, <1>14 DEF SplitText

LEMMA EmitPiecesKeeps ==
    ASSUME ChunkingInv, EmitPieces
    PROVE  ChunkingInv'
<1>0. FileInv /\ PendingInv /\ SplitInv /\ ChunksInv /\ StageInv /\ LettersInv
    BY DEF ChunkingInv
<1> DEFINE all == chunks \o Made
<1>1. /\ format' = format /\ file' = file /\ dropped' = dropped /\ warned' = warned
      /\ pending' = pending /\ length' = length /\ blocks' = blocks
      /\ stage = "splitting" /\ stage' = "blocks" /\ work = <<>> /\ work' = <<>>
      /\ pieces' = <<>> /\ origin' = NoBlock /\ chunks' = all
    BY DEF EmitPieces, Made
<1>2. FileOK
    BY <1>0, FilesAreRead
<1>3. /\ Numbered(all) /\ SymbolsIn(chunks) \subseteq SymbolsIn(all)
      /\ \A s \in Letters_ : s \in InTexts(pieces) => s \in SymbolsIn(all)
    BY <1>0, <1>1, <1>2, ChunksAreNumbered, PiecesTell
<1> HIDE DEF all
<1>4. TrueBlock' = TrueBlock /\ Letters_' = Letters_ /\ \A s : LeftOut(s)' <=> LeftOut(s)
    BY <1>1, SameFile, SameReasons
<1>5. FileInv' /\ StageInv' /\ PendingInv' /\ ChunksInv'
    <2>1. FileInv' /\ StageInv'
        BY <1>0, <1>1 DEF FileInv, StageInv
    <2>2. PendingInv' /\ ChunksInv'
        BY <1>0, <1>1, <1>3, SamePending, NewChunks DEF PendingInv
    <2> QED
        BY <2>1, <2>2
<1>6. SplitInv'
    <2> DEFINE T == True_(origin.page, origin.section)'
               W == [text : Seq(T), depth : Nat]
               P == {piece \in Seq(T) : Len(piece) <= ChunkSize}
    <2>1. <<>> \in Seq(W) /\ <<>> \in Seq(P)
        BY EmptyIsASequence
    <2>2. NoBlock \in TrueBlock
        <3>1. None \in Nat /\ None \in Sections /\ <<>> \in Seq(True_(None, None))
            BY EmptyIsASequence DEF None, Sections
        <3> QED
            BY <3>1, BlockIsTrue DEF NoBlock
    <2> HIDE DEF T
    <2>3. work' \in Seq(W) /\ pieces' \in Seq(P) /\ origin' \in TrueBlock'
        BY <1>1, <1>4, <2>1, <2>2
    <2> QED
        BY <2>3 DEF SplitInv, T
<1>7. LettersInv'
    <2>1. ASSUME NEW s \in Letters_, ~LeftOut(s) PROVE s \in InHand'
        <3>1. s \in InHand
            BY <1>0, <1>1, <2>1 DEF LettersInv
        <3>2. SymbolsIn(work) = {}
            BY <1>1, NothingIsTrue
        <3> QED
            BY <1>1, <1>3, <3>1, <3>2 DEF InHand
    <2> QED
        BY <1>4, <2>1 DEF LettersInv
<1> QED
    BY <1>5, <1>6, <1>7 DEF ChunkingInv

LEMMA FinishKeeps ==
    ASSUME ChunkingInv, Finish
    PROVE  ChunkingInv'
<1>0. FileInv /\ PendingInv /\ SplitInv /\ ChunksInv /\ StageInv /\ LettersInv
    BY DEF ChunkingInv
<1> DEFINE all == chunks \o Emitted
           short == {chunk \in ToSet(all) : Size(chunk) < MinChars}
           long == ToSet(all) \ short
           S == {chunk \in TrueChunk : Len(chunk.text) <= ChunkSize + Overlap}
<1>1. /\ format' = format /\ file' = file /\ warned' = warned
      /\ pending' = <<>> /\ length' = 0 /\ blocks' = blocks /\ blocks = <<>>
      /\ stage = "blocks" /\ stage' = "done" /\ splitVars' = splitVars
      /\ chunks' = Kept(all, long) /\ dropped' = Kept(all, short)
    BY DEF Finish
<1>2. FileOK
    BY <1>0, FilesAreRead
<1>3. /\ Numbered(all) /\ SymbolsIn(chunks) \subseteq SymbolsIn(all)
      /\ \A s \in Letters_ : s \in SymbolsIn(pending) => s \in SymbolsIn(all)
    BY <1>0, <1>1, <1>2, ChunksAreNumbered, EmittedTells
<1>a. short \subseteq ToSet(all) /\ ToSet(all) \subseteq short \union long
    OBVIOUS
<1> HIDE DEF all, short, long
<1>4. TrueBlock' = TrueBlock /\ TrueChunk' = TrueChunk /\ Letters_' = Letters_
      /\ \A s : LeftOut(s)' <=> LeftOut(s)
    BY <1>1, SameFile, SameReasons
<1>5. /\ all \in Seq(S) /\ \A chunk \in S : chunk.ordinal \in Nat
      /\ \A m \in DOMAIN all : all[m].ordinal = m - 1
    <2>1. all \in Seq(TrueChunk) /\ DOMAIN all = 1..Len(all)
          /\ \A m \in DOMAIN all : /\ all[m] \in TrueChunk
                                   /\ Len(all[m].text) <= ChunkSize + Overlap
                                   /\ all[m].ordinal = m - 1
        BY <1>3, ElementsAreOfTheSet DEF Numbered
    <2>2. ToSet(all) \subseteq S
        BY <2>1 DEF ToSet
    <2>3. \A chunk \in S : chunk.ordinal \in Nat
        BY DEF TrueChunk
    <2> HIDE DEF S
    <2>4. all \in Seq(S)
        BY <2>1, <2>2, SequencesOfMore
    <2> QED
        BY <2>1, <2>3, <2>4
<1>6. \A chunk \in S : chunk \in TrueChunk /\ Len(chunk.text) <= ChunkSize + Overlap
    OBVIOUS
<1> HIDE DEF S
<1>7. \A chosen : /\ Kept(all, chosen) \in Seq(S)
                  /\ ToSet(all) \intersect chosen \subseteq ToSet(Kept(all, chosen))
                  /\ InOrder(Kept(all, chosen), Len(all))
    BY <1>5, KeptInOrder
<1>8. chunks' \in Seq(S) /\ dropped' \in Seq(S) /\ InOrder(chunks', Len(all))
    BY <1>1, <1>7
<1>9. ChunksInv'
    <2>1. ASSUME NEW seq \in Seq(S)
          PROVE  /\ seq \in Seq(TrueChunk)
                 /\ \A n \in DOMAIN seq : Len(seq[n].text) <= ChunkSize + Overlap
        <3>1. ToSet(seq) \subseteq S /\ \A n \in DOMAIN seq : seq[n] \in S
            BY ElementsAreOfTheSet
        <3>2. seq \in Seq(TrueChunk)
            BY <1>6, <3>1, SequencesOfMore
        <3> QED
            BY <1>6, <3>1, <3>2
    <2>2. /\ chunks' \in Seq(TrueChunk) /\ dropped' \in Seq(TrueChunk)
          /\ \A n \in DOMAIN chunks' : Len(chunks'[n].text) <= ChunkSize + Overlap
        BY <1>8, <2>1
    <2>3. \A m, n \in DOMAIN chunks' : m < n => chunks'[m].ordinal < chunks'[n].ordinal
        BY <1>8 DEF InOrder
    <2> QED
        BY <1>1, <1>4, <2>2, <2>3 DEF ChunksInv
<1>10. FileInv' /\ StageInv' /\ SplitInv'
    <2>1. FileInv' /\ StageInv'
        BY <1>0, <1>1 DEF FileInv, StageInv, splitVars
    <2>2. SplitInv'
        BY <1>0, <1>1, SameSplit
    <2> QED
        BY <2>1, <2>2
<1>11. PendingInv'
    <2>1. <<>> \in Seq(TrueBlock)
        BY EmptyIsASequence
    <2> QED
        BY <1>1, <1>4, <2>1 DEF PendingInv
<1>12. LettersInv'
    <2>1. ASSUME NEW s \in Letters_, ~LeftOut(s)
          PROVE  s \in SymbolsIn(chunks') \/ s \in SymbolsIn(dropped')
        <3>1. s \in InHand
            BY <1>0, <1>1, <2>1 DEF LettersInv
        <3>2. /\ SymbolsIn(work) = {} /\ InTexts(pieces) = {} /\ SymbolsIn(blocks) = {}
              /\ SymbolsIn(dropped) = {}
            BY <1>0, <1>1, NothingIsTrue DEF StageInv, InTexts, ChunksInv
        <3>3. s \in SymbolsIn(all)
            BY <1>3, <3>1, <3>2 DEF InHand
        <3>4. PICK chunk \in ToSet(all) : s \in ToSet(chunk.text)
            BY <3>3 DEF SymbolsIn, ToSet
        <3>5. chunk \in ToSet(chunks') \/ chunk \in ToSet(dropped')
            BY <1>1, <1>7, <1>a
        <3> QED
            BY <3>4, <3>5 DEF SymbolsIn, ToSet
    <2> QED
        BY <1>4, <2>1 DEF LettersInv, InHand
<1> QED
    BY <1>9, <1>10, <1>11, <1>12 DEF ChunkingInv

-----------------------------------------------------------------------------
(* The properties                                                          *)

\* Every step keeps the invariant: what is parsed, pending, being split and
\* emitted is true and of one place, and no letter is lost on the way.
THEOREM ChunkingIsInductive == Spec => []ChunkingInv
<1>1. Init => ChunkingInv
    BY InitHolds
<1>2. ChunkingInv /\ [Next]_vars => ChunkingInv'
    <2> SUFFICES ASSUME ChunkingInv, [Next]_vars PROVE ChunkingInv'
        OBVIOUS
    <2>1. CASE ParseFile
        BY <2>1, ParseFileKeeps
    <2>2. CASE ParseRaises
        BY <2>2, ParseRaisesKeeps
    <2>3. CASE SkipBlank
        BY <2>3, SkipBlankKeeps
    <2>4. CASE TakeBlock
        BY <2>4, TakeBlockKeeps
    <2>5. CASE SplitText
        BY <2>5, SplitTextKeeps
    <2>6. CASE SplitRaises
        BY <2>6, SplitRaisesKeeps
    <2>7. CASE EmitPieces
        BY <2>7, EmitPiecesKeeps
    <2>8. CASE Finish
        BY <2>8, FinishKeeps
    <2>9. CASE UNCHANGED vars
        <3>0. FileInv /\ PendingInv /\ SplitInv /\ ChunksInv /\ StageInv /\ LettersInv
            BY DEF ChunkingInv
        <3>1. /\ format' = format /\ file' = file /\ warned' = warned /\ stage' = stage
              /\ pending' = pending /\ length' = length /\ blocks' = blocks
              /\ splitVars' = splitVars /\ chunks' = chunks /\ dropped' = dropped
            BY <2>9 DEF vars
        <3>2. FileInv' /\ StageInv'
            BY <3>0, <3>1 DEF FileInv, StageInv, splitVars
        <3>3. PendingInv' /\ SplitInv' /\ ChunksInv'
            <4>1. stage # "done" \/ stage' = "done"
                BY <3>1
            <4> QED
                BY <3>0, <3>1, <4>1, SamePending, SameSplit, SameChunks DEF PendingInv
        <3>4. LettersInv'
            <4>1. Letters_' = Letters_ /\ \A s : LeftOut(s)' <=> LeftOut(s)
                BY <3>1, SameFile, SameReasons
            <4>2. InHand' = InHand
                BY <3>1 DEF InHand, splitVars
            <4> QED
                BY <3>0, <3>1, <4>1, <4>2 DEF LettersInv
        <3> QED
            BY <3>2, <3>3, <3>4 DEF ChunkingInv
    <2> QED
        BY <2>1, <2>2, <2>3, <2>4, <2>5, <2>6, <2>7, <2>8, <2>9 DEF Next
<1> QED
    BY <1>1, <1>2, PTL DEF Spec

\* No text is lost between the file and the index, but for the reasons the
\* parsers give.
THEOREM TextIsNotLost == Spec => []TextSurvives
<1>1. ChunkingInv => TextSurvives
    <2> SUFFICES ASSUME ChunkingInv, stage = "done", NEW s \in Letters_, ~LeftOut(s)
                 PROVE  s \in SymbolsIn(chunks \o dropped)
        BY DEF TextSurvives
    <2>1. StageInv /\ LettersInv /\ ChunksInv
        BY DEF ChunkingInv
    <2>2. s \in InHand
        BY <2>1 DEF LettersInv
    <2>3. /\ SymbolsIn(work) = {} /\ InTexts(pieces) = {} /\ SymbolsIn(blocks) = {}
          /\ SymbolsIn(pending) = {}
        BY <2>1, NothingIsTrue DEF StageInv, InTexts
    <2>4. SymbolsIn(chunks \o dropped) = SymbolsIn(chunks) \union SymbolsIn(dropped)
        BY <2>1, SymbolsOfConcatenation DEF ChunksInv
    <2> QED
        BY <2>2, <2>3, <2>4 DEF InHand
<1> QED
    BY <1>1, ChunkingIsInductive, PTL

\* The page and the section of a chunk are those of all the text in it.
THEOREM ChunksAreCitedTruly == Spec => []CitationsAreTrue
<1>1. ChunkingInv => CitationsAreTrue
    <2> SUFFICES ASSUME ChunkingInv, NEW n \in DOMAIN chunks,
                        NEW s \in ToSet(chunks[n].text) \intersect Letters_
                 PROVE  Cites(chunks[n].page, chunks[n].section, s[1])
        BY DEF CitationsAreTrue, Cites
    <2>1. chunks \in Seq(TrueChunk)
        BY DEF ChunkingInv, ChunksInv
    <2>2. chunks[n] \in TrueChunk
        BY <2>1, ElementsAreOfTheSet
    <2>3. chunks[n].text \in Seq(True_(chunks[n].page, chunks[n].section))
        BY <2>2 DEF TrueChunk
    <2>4. s \in True_(chunks[n].page, chunks[n].section)
        BY <2>3, ElementsAreOfTheSet
    <2> QED
        BY <2>4 DEF True_
<1> QED
    BY <1>1, ChunkingIsInductive, PTL

\* The title of a chunk has a length.
LEMMA TitlesHaveLengths ==
    ASSUME FileInv, ChunksInv, NEW n \in DOMAIN chunks
    PROVE  /\ Len(chunks[n].text) \in Nat
           /\ chunks[n].titled => TitleLength(chunks[n].section) \in Nat
<1> DEFINE title == chunks[n].section
<1>1. FileOK
    BY FilesAreRead
<1>2. chunks[n] \in TrueChunk
    BY ElementsAreOfTheSet DEF ChunksInv
<1>3. /\ chunks[n].text \in Seq(Nat \X Nat) /\ title \in Sections
      /\ chunks[n].titled => title # None
    BY <1>2 DEF TrueChunk
<1>4. title \in Int /\ (title <= None \/ title \in DOMAIN file)
    BY <1>3 DEF Sections
<1>5. Len(chunks[n].text) \in Nat
    BY <1>3, ElementsAreOfTheSet
<1>6. ASSUME title # None PROVE TitleLength(title) \in Nat
    <2> HIDE DEF title
    <2>1. CASE title < None
        BY <2>1 DEF TitleLength
    <2>2. CASE ~(title < None)
        <3>1. title \in DOMAIN file
            BY <1>4, <1>6, <2>2 DEF None
        <3>2. Len(file[title].text) \in Nat
            BY <1>1, <3>1, UnitsOfAFile
        <3> QED
            BY <2>2, <3>2 DEF TitleLength
    <2> QED
        BY <2>1, <2>2
<1> QED
    BY <1>3, <1>5, <1>6

\* A chunk as it is embedded is no longer than the window, what it repeats and
\* its title, and the chunks are numbered in the order of the text, those that
\* are left out being skipped.
THEOREM ChunksAreFitAndOrdered == Spec => []ChunksFitInOrder
<1>1. ChunkingInv => ChunksFitInOrder
    <2> SUFFICES ASSUME FileInv, ChunksInv PROVE ChunksFitInOrder
        BY DEF ChunkingInv
    <2>1. /\ \A n \in DOMAIN chunks : Len(chunks[n].text) <= ChunkSize + Overlap
          /\ \A m, n \in DOMAIN chunks : m < n => chunks[m].ordinal < chunks[n].ordinal
        BY DEF ChunksInv
    <2>2. ASSUME NEW n \in DOMAIN chunks
          PROVE  Size(chunks[n])
                   <= ChunkSize + Overlap
                      + IF chunks[n].titled THEN TitleLength(chunks[n].section) + 2 ELSE 0
        <3> DEFINE text == Len(chunks[n].text)
                   title == TitleLength(chunks[n].section)
                   titled == chunks[n].titled
        <3>1. text \in Nat /\ (titled => title \in Nat) /\ text <= ChunkSize + Overlap
            BY <2>1, TitlesHaveLengths
        <3>2. Size(chunks[n]) = text + IF titled THEN title + 2 ELSE 0
            BY DEF Size
        <3>3. ChunkSize \in Nat /\ Overlap \in Nat
            BY ChunkingAssumption
        <3> HIDE DEF text, title, titled
        <3>4. text + (IF titled THEN title + 2 ELSE 0)
                <= ChunkSize + Overlap + IF titled THEN title + 2 ELSE 0
            <4>1. CASE titled
                BY <3>1, <3>3, <4>1
            <4>2. CASE ~titled
                BY <3>1, <3>3, <4>2
            <4> QED
                BY <4>1, <4>2
        <3> QED
            BY <3>2, <3>4 DEF text, title, titled
    <2> QED
        BY <2>1, <2>2, Zenon DEF ChunksFitInOrder
<1> QED
    BY <1>1, ChunkingIsInductive, PTL

=============================================================================
