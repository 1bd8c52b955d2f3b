----------------------------- MODULE RankFusion -----------------------------
(***************************************************************************)
(* Reciprocal rank fusion: what a place in a ranking is worth, and how far *)
(* each ranking is read.  A score is a fraction <<numerator, denominator>>;*)
(* place 0 stands for "not in this ranking".                               *)
(***************************************************************************)
EXTENDS Integers

CONSTANT DepthFloor     \* the least depth a ranking is read to (30)

ASSUME DepthFloorAssumption == DepthFloor \in 1..60

RRF_K == 60

\* The lesser of the two.
LesserDepth(limit) == IF limit * 3 < DepthFloor THEN limit * 3 ELSE DepthFloor

\* Each ranking is read three times as deep as the answer is long.
Depth(limit) == IF limit * 3 > DepthFloor THEN limit * 3 ELSE DepthFloor

Worth(place) == IF place = 0 THEN <<0, 1>> ELSE <<1, RRF_K + place>>

\* The later ranking replaces what the earlier one gave.
LastScore(dense, keyword) == IF keyword # 0 THEN Worth(keyword) ELSE Worth(dense)

Score(dense, keyword) ==
    LET d == Worth(dense)
        k == Worth(keyword)
    IN <<d[1] * k[2] + k[1] * d[2], d[2] * k[2]>>

Above(x, y) == x[1] * y[2] > y[1] * x[2]

=============================================================================
