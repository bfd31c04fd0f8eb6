------------------------------ MODULE Treemap -------------------------------
(***************************************************************************)
(* The market map's squarified treemap (treemap.ts), in exact fractions.   *)
(* Floating point rounding is not modelled.  The weights grow one at a     *)
(* time.                                                                   *)
(***************************************************************************)
EXTENDS Integers, Sequences, SequencesExt, Sums

CONSTANTS
    TopWeight,   \* bound: weights are 1..TopWeight
    MaxWeights,  \* bound: number of weights
    BoxW, BoxH   \* the map's rectangle

ASSUME TreemapAssumption ==
    {TopWeight, MaxWeights} \subseteq Nat /\ {BoxW, BoxH} \subseteq Nat \ {0}

VARIABLE weights   \* market capitalisations, largest first

TreemapInit == weights = <<>>

AddWeight(w) ==
    /\ Len(weights) < MaxWeights
    /\ weights # <<>> => w <= Last(weights)
    /\ weights' = Append(weights, w)

TreemapNext == \E w \in 1..TopWeight : AddWeight(w)

-----------------------------------------------------------------------------
(* Fractions that are not negative, <<numerator, denominator>>, reduced. *)

Gcd(a, b) ==
    LET gcd[m \in 0..b] == [x \in Nat |-> IF m = 0 THEN x ELSE gcd[x % m][m]] IN gcd[b][a]
Q(n, d)     == LET g == Gcd(d, n) IN <<n \div g, d \div g>>
Leq(a, b)   == a[1] * b[2] <= b[1] * a[2]
Same(a, b)  == a[1] * b[2] = b[1] * a[2]
Plus(a, b)  == Q(a[1] * b[2] + b[1] * a[2], a[2] * b[2])
Times(a, b) == Q(a[1] * b[1], a[2] * b[2])
Over(a, b)  == Q(a[1] * b[2], a[2] * b[1])
Larger(a, b)  == IF Leq(a, b) THEN b ELSE a
Smaller(a, b) == IF Leq(a, b) THEN a ELSE b

\* Math.max(0, a - b)
Minus(a, b) == IF Leq(b, a) THEN Q(a[1] * b[2] - b[1] * a[2], a[2] * b[2]) ELSE <<0, 1>>

-----------------------------------------------------------------------------
(* treemap.ts *)

\* The area of the weights after position i and up to j.
AreaOf(ws, i, j) == Q((SumTo(ws, j) - SumTo(ws, i)) * (BoxW * BoxH), Total(ws))

\* How far from a square the worst cell of a row is, if these weights are laid along side.
WorstAspect(ws, i, j, side) ==
    LET area(k) == AreaOf(ws, k - 1, k)
        sum2    == Times(AreaOf(ws, i, j), AreaOf(ws, i, j))
        side2   == Times(side, side)
        top     == CHOOSE k \in (i + 1)..j : \A l \in (i + 1)..j : ws[l] <= ws[k]
        low     == CHOOSE k \in (i + 1)..j : \A l \in (i + 1)..j : ws[k] <= ws[l]
    IN  Larger(Over(Times(side2, area(top)), sum2), Over(sum2, Times(side2, area(low))))

\* The last weight of the row that starts after position i: the row grows while its worst
\* aspect ratio does not get worse.
RowEnd(ws, i, side) ==
    LET worst(k) == WorstAspect(ws, i, k, side)
    IN  CHOOSE j \in (i + 1)..Len(ws) :
          /\ \A k \in (i + 1)..(j - 1) : Leq(worst(k + 1), worst(k))
          /\ j = Len(ws) \/ ~Leq(worst(j + 1), worst(j))

MutRest(r, t) == IF Leq(r.w, r.h) THEN [r EXCEPT !.y = Plus(@, t), !.h = Minus(@, t)]
                                  ELSE [r EXCEPT !.w = Minus(@, t)]

\* The rectangle left once a row of thickness t has been laid along its shorter side.
Rest(r, t) == IF Leq(r.w, r.h) THEN [r EXCEPT !.y = Plus(@, t), !.h = Minus(@, t)]
                               ELSE [r EXCEPT !.x = Plus(@, t), !.w = Minus(@, t)]

\* The cell of weight k in a row that starts after position i and is t thick.
RowCell(ws, i, k, r, t) ==
    LET ahead == Over(AreaOf(ws, i, k - 1), t)
        size  == Over(AreaOf(ws, k - 1, k), t)
    IN  IF Leq(r.w, r.h)
        THEN [x |-> Plus(r.x, ahead), y |-> r.y, w |-> size, h |-> t]
        ELSE [x |-> r.x, y |-> Plus(r.y, ahead), w |-> t, h |-> size]

\* One round of the loop: what is laid, and the rectangle that is left.
WithRow(ws, s) ==
    LET i    == Len(s.laid)
        side == Smaller(s.rest.w, s.rest.h)
        j    == RowEnd(ws, i, side)
        t    == Over(AreaOf(ws, i, j), side)
    IN  IF i = Len(ws) THEN s
        ELSE [laid |-> s.laid \o [k \in 1..(j - i) |-> RowCell(ws, i, i + k, s.rest, t)],
              rest |-> Rest(s.rest, t)]

\* squarify, for weights the heatmap has filtered to be positive; a round lays one at least.
Box == [x |-> <<0, 1>>, y |-> <<0, 1>>, w |-> <<BoxW, 1>>, h |-> <<BoxH, 1>>]
Squarify(ws) ==
    LET round[n \in 0..Len(ws)] ==
            IF n = 0 THEN [laid |-> <<>>, rest |-> Box] ELSE WithRow(ws, round[n - 1])
    IN  round[Len(ws)].laid

-----------------------------------------------------------------------------
(* Properties. *)

\* Every variable keeps its type.
TreemapTypeOK == weights \in Seq(1..TopWeight)

\* These rectangles have the weights' shares of the area, are inside the box and do not overlap.
AreTiles(rs, ws) ==
    LET right(i)  == Plus(rs[i].x, rs[i].w)
        bottom(i) == Plus(rs[i].y, rs[i].h)
    IN  /\ Len(rs) = Len(ws)
        /\ \A i \in DOMAIN rs :
              /\ Same(Times(rs[i].w, rs[i].h), <<ws[i] * BoxW * BoxH, Total(ws)>>)
              /\ Leq(right(i), <<BoxW, 1>>) /\ Leq(bottom(i), <<BoxH, 1>>)
        /\ \A i, j \in DOMAIN rs : i < j =>
              \/ Leq(right(i), rs[j].x)  \/ Leq(right(j), rs[i].x)
              \/ Leq(bottom(i), rs[j].y) \/ Leq(bottom(j), rs[i].y)

\* "one rectangle per weight (same order) tiling the container" (treemap.ts:11).
TilesContainer == weights # <<>> => AreTiles(Squarify(weights), weights)
=============================================================================
