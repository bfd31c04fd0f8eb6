----------------------------- MODULE Indicators -----------------------------
(***************************************************************************)
(* The dashboard's arithmetic on price series, as the code computes it and *)
(* against what it is meant to be: the indicators under the candles        *)
(* (indicators.ts) and the correlation matrix (correlation.ts).            *)
(*                                                                         *)
(* Prices are small integers and fractions are exact: a value that the     *)
(* code divides is kept with its denominator, as [num, den], or times a    *)
(* constant that the comment names.  Floating point rounding is not        *)
(* modelled.  The inputs grow one value at a time.                         *)
(***************************************************************************)
EXTENDS Integers, Sequences, Sums

CONSTANTS
    Window,      \* period
    TopValue,    \* bound: prices are 0..TopValue
    MaxSeries    \* bound: length of a series

ASSUME IndicatorsAssumption ==
    Window \in Nat \ {0, 1} /\ TopValue \in Nat /\ MaxSeries \in Nat

VARIABLES
    closes, closes2   \* two price series

indicatorVars == <<closes, closes2>>

IndicatorsInit == closes = <<>> /\ closes2 = <<>>

\* The inputs: a series; beside a long one, another.
AddClose(v) ==
    /\ closes2 = <<>> /\ Len(closes) < MaxSeries
    /\ closes' = Append(closes, v) /\ UNCHANGED closes2
AddClose2(v) ==
    /\ Len(closes) = MaxSeries - 1 /\ Len(closes2) < Len(closes)
    /\ closes2' = Append(closes2, v) /\ UNCHANGED closes

IndicatorsNext == \E v \in 0..TopValue : AddClose(v) \/ AddClose2(v)

Products(s, t) == [i \in DOMAIN s |-> s[i] * t[i]]
Slice(s, i)    == SubSeq(s, i - Window + 1, i)     \* the window that ends at i

-----------------------------------------------------------------------------
(* indicators.ts.  Positions count from 1. *)

MutSma(s) ==
    [i \in DOMAIN s |->
        SumTo([n \in 1..i |-> s[n] - (IF n > Window + 1 THEN s[n - Window] ELSE 0)], i)]

\* sma: the running sum, which adds a value and takes off the one that leaves the window;
\* period times the mean, and meaningful from position Window.
Sma(s) ==
    [i \in DOMAIN s |->
        SumTo([n \in 1..i |-> s[n] - (IF n > Window THEN s[n - Window] ELSE 0)], i)]

\* A smoothed average at position i: first / Window at position start, and from there each
\* value v[n] has share parts in it, and what was there before the other Window - 1.
Smoothed(first, v, share, start, i) ==
    LET a[n \in start..i] ==
            IF n = start THEN [num |-> first, den |-> Window]
            ELSE [num |-> share * v[n] * a[n - 1].den + (Window - 1) * a[n - 1].num,
                  den |-> (Window - 1 + share) * a[n - 1].den]
    IN  a[i]

\* ema at position i >= Window.
Ema(s, i) == Smoothed(SumTo(s, Window), s, 2, Window, i)

\* How far the price at position n rose, and fell.
Gains(s)  == [n \in 2..Len(s) |-> IF s[n] > s[n - 1] THEN s[n] - s[n - 1] ELSE 0]
Losses(s) == [n \in 2..Len(s) |-> IF s[n] < s[n - 1] THEN s[n - 1] - s[n] ELSE 0]

\* rsi's smoothed gain or loss at position i > Window.
Wilder(move, i) ==
    Smoothed(SumTo([m \in 1..Window |-> move[m + 1]], Window), move, 1, Window + 1, i)

\* rsi: gain and loss have one denominator.
Rsi(s, i) ==
    LET g == Wilder(Gains(s), i).num  l == Wilder(Losses(s), i).num
    IN  IF l = 0 THEN [num |-> 100, den |-> 1] ELSE [num |-> 100 * g, den |-> g + l]

\* bollinger's squared distance of the bands from the mid over mult^2, times Window^3.
BandSq(s, i) ==
    LET from == [j \in 1..Window |-> Window * Slice(s, i)[j] - Sma(s)[i]]
    IN  SumTo(Products(from, from), Window)

-----------------------------------------------------------------------------
(* correlation.ts *)

\* The last n points.
Recents(s, n) == SubSeq(s, Len(s) - n + 1, Len(s))

\* How far the prices of a series are from its mean, times its length.
Deviations(s) == [j \in DOMAIN s |-> Len(s) * s[j] - Total(s)]

\* pearson's sums over two series of length n: cov, vx and vy, times n^2.
ScaledMoments(xs, ys) ==
    LET dx == Deviations(xs)  dy == Deviations(ys)  n == Len(xs)
    IN  [cov |-> SumTo(Products(dx, dy), n),
         vx  |-> SumTo(Products(dx, dx), n),
         vy  |-> SumTo(Products(dy, dy), n)]

\* pearson, as the covariance and the square of its divisor; 0 when undefined.
Pearson(a, b) ==
    LET n == IF Len(a) < Len(b) THEN Len(a) ELSE Len(b)
        m == ScaledMoments(Recents(a, n), Recents(b, n))
    IN  IF n < 2 \/ m.vx = 0 \/ m.vy = 0 THEN [num |-> 0, denSq |-> 1]
        ELSE [num |-> m.cov, denSq |-> m.vx * m.vy]

-----------------------------------------------------------------------------
(* Properties. *)

\* Every variable keeps its type; the second series is never the longer one.
IndicatorsTypeOK ==
    /\ closes \in Seq(0..TopValue) /\ closes2 \in Seq(0..TopValue)
    /\ Len(closes2) <= Len(closes)

\* The running sum of sma is the sum of the window, wherever the window is full, and
\* the spread of the bands is the window's variance: zero just for a flat window.
WindowsMatch ==
    \A i \in Window..Len(closes) :
        LET slice == Slice(closes, i)
        IN  /\ Sma(closes)[i] = Total(slice)
            /\ BandSq(closes, i) =
                 Window * (Window * SumTo(Products(slice, slice), Window) - Total(slice) * Total(slice))
            /\ BandSq(closes, i) = 0 <=> \A m, n \in DOMAIN slice : slice[m] = slice[n]

\* An exponential mean stays between the least and the largest price so far.
EmaInRange ==
    \A i \in Window..Len(closes) :
        LET e == Ema(closes, i)
        IN  /\ \E n \in 1..i : closes[n] * e.den <= e.num
            /\ \E n \in 1..i : e.num <= closes[n] * e.den

\* "0-100; 100 when there are no losses" (indicators.ts:33), however long ago they
\* were: smoothing never forgets one.
RsiBounded ==
    \A i \in (Window + 1)..Len(closes) :
        LET r == Rsi(closes, i)
            falls == \E n \in 2..i : closes[n] < closes[n - 1]
            rises == \E n \in 2..i : closes[n] > closes[n - 1]
        IN  /\ r.num >= 0 /\ r.num <= 100 * r.den
            /\ r.num = 100 * r.den <=> ~falls
            /\ r.num = 0 <=> falls /\ ~rises

\* "Pearson r in [-1, 1]" and a symmetric matrix: the clamp only ever hides rounding,
\* and series of different lengths compare their latest points.
PearsonSound ==
    LET r == Pearson(closes, closes2)
    IN  /\ r.num * r.num <= r.denSq
        /\ Pearson(closes2, closes) = r
        /\ Len(closes2) >= 2 /\ closes2 = Recents(closes, Len(closes2)) =>
              r = [num |-> 0, denSq |-> 1] \/ r.num * r.num = r.denSq

\* The indicators and the correlation, incrementally computed and scaled as they are,
\* have the value and the range their documentation gives.
IndicatorsSound ==
    IndicatorsTypeOK /\ WindowsMatch /\ EmaInRange /\ RsiBounded /\ PearsonSound
=============================================================================
