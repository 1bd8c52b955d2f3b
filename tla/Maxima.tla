------------------------------- MODULE Maxima -------------------------------
(***************************************************************************)
(* What the proofs use of the greatest element of a set of numbers, and of *)
(* the folds that are built from it.                                       *)
(***************************************************************************)
EXTENDS Naturals, FiniteSets, FiniteSetsExt, TLAPS, FiniteSetTheorems,
        WellFoundedInduction

\* A finite set of numbers that is not empty has a greatest.
LEMMA FiniteSetHasMax ==
    ASSUME NEW S \in SUBSET Nat, IsFiniteSet(S), S # {}
    PROVE  /\ Max(S) \in S
           /\ \A y \in S : y <= Max(S)
<1> DEFINE HasMax(T) == \E x \in T : \A y \in T : x >= y
           Bad == {T \in FiniteSubsetsOf(S) : T # {} /\ ~HasMax(T)}
<1>1. Bad = {}
    <2> SUFFICES ASSUME Bad # {} PROVE FALSE
        OBVIOUS
    <2>1. PICK T \in Bad : \A U \in Bad : <<U, T>> \notin StrictSubsetOrdering(S)
        BY FS_StrictSubsetOrderingWellFounded, WFMin, Zenon
    <2>2. T \subseteq S /\ IsFiniteSet(T) /\ T # {}
        BY DEF FiniteSubsetsOf
    <2>3. PICK x \in T : TRUE
        BY <2>2
    <2>4. T \ {x} \in FiniteSubsetsOf(S) /\ <<T \ {x}, T>> \in StrictSubsetOrdering(S)
        BY <2>2, <2>3, FS_RemoveElement DEF FiniteSubsetsOf, StrictSubsetOrdering
    <2>5. T \ {x} = {} \/ HasMax(T \ {x})
        BY <2>1, <2>4
    <2>6. x \in Nat /\ T \subseteq Nat
        BY <2>2, <2>3
    <2>7. HasMax(T)
        <3>1. CASE T \ {x} = {}
            BY <3>1, <2>3, <2>6
        <3>2. CASE HasMax(T \ {x})
            <4>1. PICK z \in T \ {x} : \A y \in T \ {x} : z >= y
                BY <3>2
            <4>2. CASE z >= x
                BY <4>1, <4>2, <2>6
            <4>3. CASE ~(z >= x)
                BY <4>1, <4>3, <2>3, <2>6
            <4> QED
                BY <4>2, <4>3
        <3> QED
            BY <2>5, <3>1, <3>2
    <2> QED
        BY <2>1, <2>7
<1>2. S \in FiniteSubsetsOf(S)
    BY DEF FiniteSubsetsOf
<1>3. HasMax(S)
    BY <1>1, <1>2
<1> QED
    BY <1>3 DEF Max

\* A set of numbers that is not empty has a least: what is used for a concrete
\* induction, of a set of counterexamples.
LEMMA SetHasLeast ==
    ASSUME NEW S \in SUBSET Nat, S # {}
    PROVE  \E m \in S : \A k \in Nat : k < m => k \notin S
<1>1. \E m \in S : \A k \in S : <<k, m>> \notin OpToRel(<, Nat)
    BY NatLessThanWellFounded, WFMin, Zenon
<1>2. PICK m \in S : \A k \in S : ~(k < m)
    BY <1>1 DEF OpToRel
<1> QED
    BY <1>2

\* The greatest of an interval is its end.
LEMMA MaxOfInterval ==
    ASSUME NEW n \in Nat, n # 0
    PROVE  Max(1..n) = n
<1>1. n \in 1..n /\ \A y \in 1..n : n >= y
    OBVIOUS
<1>2. \A x \in 1..n : (\A y \in 1..n : x >= y) => x = n
    BY <1>1
<1> QED
    BY <1>1, <1>2 DEF Max

LEMMA IntervalWithoutEnd ==
    ASSUME NEW n \in Nat, n # 0
    PROVE  1..n # {} /\ (1..n) \ {n} = 1..n - 1
<1>1. n \in 1..n
    OBVIOUS
<1>2. \A k : k \in (1..n) \ {n} <=> k \in 1..n - 1
    OBVIOUS
<1> QED
    BY <1>1, <1>2

\* What is below the greatest of a set of numbers up to n is up to n as well.
LEMMA MaxIsBounded ==
    ASSUME NEW n \in Nat, NEW s \in SUBSET (1..n), s # {}
    PROVE  /\ Max(s) \in 1..n /\ Max(s) \in s
           /\ \A y \in s : y <= Max(s)
<1>0. IsFiniteSet(1..n)
    BY FS_Interval
<1>1. s \in SUBSET Nat /\ IsFiniteSet(s)
    <2>1. s \in SUBSET Nat
        OBVIOUS
    <2>2. IsFiniteSet(s)
        BY <1>0, FS_Subset, Zenon
    <2> QED
        BY <2>1, <2>2
<1>2. Max(s) \in s /\ \A y \in s : y <= Max(s)
    BY <1>1, FiniteSetHasMax
<1> QED
    BY <1>2, Zenon

-----------------------------------------------------------------------------
(* Folds over a sequence.  The library's FoldLeft chooses a function of the *)
(* sets of places, which is shown to exist here.                            *)

\* The result for the places in a set, given those for the smaller sets.
StepOfFold(base, step, before, s) ==
    IF s = {} THEN base ELSE step[Max(s)][before[s \ {Max(s)}]]

Stays(step, R, n) == step \in [1..n -> [R -> R]]

IsFoldOf(g, base, step, R, n) ==
    /\ g \in [SUBSET (1..n) -> R]
    /\ \A s \in SUBSET (1..n) : g[s] = StepOfFold(base, step, g, s)

\* The results of a fold whose steps stay in R exist and stay in R: each is
\* made from the results up to the length before.
LEMMA FoldExists ==
    ASSUME NEW R, NEW base \in R, NEW n \in Nat, NEW step, Stays(step, R, n)
    PROVE  \E g : IsFoldOf(g, base, step, R, n)
<1> USE DEF Stays
<1> DEFINE IsFold(g, m) == IsFoldOf(g, base, step, R, m)
           Bad == {m \in 0..n : ~ \E g : IsFold(g, m)}
<1> HIDE DEF IsFold
<1>1. Bad = {}
    <2> SUFFICES ASSUME Bad # {} PROVE FALSE
        OBVIOUS
    <2>0. Bad \in SUBSET Nat
        OBVIOUS
    <2>1. PICK m \in Bad : \A k \in Nat : k < m => k \notin Bad
        BY <2>0, SetHasLeast, Zenon
    <2>2. m \in 0..n /\ \A k \in 0..n : k < m => \E g : IsFold(g, k)
        BY <2>1
    <2>3. CASE m = 0
        <3> DEFINE g == [s \in SUBSET (1..0) |-> base]
        <3>1. \A s \in SUBSET (1..0) : s = {}
            OBVIOUS
        <3>2. \A s \in SUBSET (1..0) : g[s] = base
            BY <3>1
        <3>3. g \in [SUBSET (1..0) -> R]
            OBVIOUS
        <3> HIDE DEF g
        <3>4. IsFold(g, 0)
            BY <3>1, <3>2, <3>3, Zenon DEF IsFold, IsFoldOf, StepOfFold
        <3> QED
            BY <2>1, <2>3, <3>4
    <2>4. CASE m # 0
        <3>1. m - 1 \in 0..n /\ m - 1 < m /\ (1..m) = (1..m - 1) \union {m} /\ m \in 1..n
            BY <2>2, <2>4
        <3>2. PICK g : IsFold(g, m - 1)
            BY <2>2, <3>1
        <3>m. m \in Nat
            BY <2>2
        <3> DEFINE h == [s \in SUBSET (1..m) |->
                          IF m \in s THEN step[m][g[s \ {m}]] ELSE g[s]]
        <3>3. ASSUME NEW s \in SUBSET (1..m), m \in s
              PROVE  h[s] \in R /\ h[s] = StepOfFold(base, step, h, s)
            <4>1. Max(s) = m
                <5>1. Max(s) \in 1..m /\ m <= Max(s)
                    BY <3>m, <3>3, MaxIsBounded
                <5> DEFINE top == Max(s)
                <5> HIDE DEF top
                <5>2. top \in 1..m /\ m <= top
                    BY <5>1 DEF top
                <5> QED
                    BY <3>m, <5>2 DEF top
            <4>2. s \ {m} \in SUBSET (1..m) /\ m \notin s \ {m} /\ s \ {m} \in SUBSET (1..m - 1)
                BY <3>1
            <4>3. g[s \ {m}] \in R /\ h[s \ {m}] = g[s \ {m}]
                BY <3>2, <4>2 DEF IsFold, IsFoldOf
            <4>4. h[s] = step[m][g[s \ {m}]]
                BY <3>3
            <4>5. step[m][g[s \ {m}]] \in R
                BY <3>1, <4>3
            <4> HIDE DEF h
            <4> QED
                BY <3>3, <4>1, <4>3, <4>4, <4>5, Zenon DEF StepOfFold
        <3>4. ASSUME NEW s \in SUBSET (1..m), m \notin s
              PROVE  h[s] \in R /\ h[s] = StepOfFold(base, step, h, s)
            <4>1. s \in SUBSET (1..m - 1)
                BY <3>1, <3>4
            <4>2. h[s] = g[s] /\ g[s] \in R /\ g[s] = StepOfFold(base, step, g, s)
                BY <3>2, <3>4, <4>1, Zenon DEF IsFold, IsFoldOf
            <4>3. CASE s = {}
                BY <4>2, <4>3 DEF StepOfFold
            <4>4. CASE s # {}
                <5>1. s \ {Max(s)} \in SUBSET (1..m) /\ m \notin s \ {Max(s)}
                    BY <3>4
                <5>2. h[s \ {Max(s)}] = g[s \ {Max(s)}]
                    BY <5>1, Zenon
                <5> QED
                    BY <4>2, <4>4, <5>2, Zenon DEF StepOfFold
            <4> QED
                BY <4>3, <4>4
        <3>5. IsFold(h, m)
            <4>1. \A s \in SUBSET (1..m) : h[s] \in R /\ h[s] = StepOfFold(base, step, h, s)
                BY <3>3, <3>4
            <4>2. h = [s \in SUBSET (1..m) |-> h[s]]
                OBVIOUS
            <4> HIDE DEF h
            <4>3. h \in [SUBSET (1..m) -> R]
                BY <4>1, <4>2, Zenon
            <4> QED
                BY <4>1, <4>3 DEF IsFold, IsFoldOf
        <3> QED
            BY <2>1, <3>5
    <2> QED
        BY <2>3, <2>4
<1>2. n \in 0..n
    OBVIOUS
<1>3. \E g : IsFold(g, n)
    BY <1>1, <1>2
<1> QED
    BY <1>3 DEF IsFold, IsFoldOf

=============================================================================
