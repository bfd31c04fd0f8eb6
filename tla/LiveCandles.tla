---------------------------- MODULE LiveCandles ----------------------------
(***************************************************************************)
(* The candle chart of the terminal: foldTick (domain/candles.ts) and the  *)
(* hook that feeds it the live tape (useLiveCandles.ts).                   *)
(*                                                                         *)
(* Prints of the watched coin reach the hook's own subscription late and   *)
(* in any order (two sources, one of them polled); the price it seeds from *)
(* comes by way of another subscription, useLivePrices', at any time.      *)
(* Effects of one commit run back to back and are one step.  There are     *)
(* three clocks: trades carry the exchange's, the batches of the service   *)
(* its own (coingecko.rs:183), the seed the page's; both of these may be   *)
(* ahead of the exchange's.                                                *)
(***************************************************************************)
EXTENDS Integers, Sequences, FiniteSetsExt

CONSTANTS
    Coins,
    NoCoin,      \* the symbol "", before the coin list has loaded
    Widths,      \* bucketMs, in clock steps
    MaxCandles,  \* maxCandles
    MaxPrice,    \* bound: prices are 1..MaxPrice
    MaxTime,     \* bound: time
    MaxPrints,   \* bound: prints since the last reset
    MaxSkew      \* bound: how far the other clocks may be ahead of the exchange's

ASSUME CandleAssumption ==
    /\ NoCoin \notin Coins
    /\ Widths \subseteq Nat \ {0}
    /\ MaxCandles \in Nat \ {0}
    /\ {MaxPrice, MaxTime, MaxPrints, MaxSkew} \subseteq Nat

Prices == 1..MaxPrice
NaN    == 0             \* undefined, or a value that is not a finite number
Times  == 0..(MaxTime + MaxSkew)

VARIABLES
    clock,   \* the exchange's clock
    skew,    \* how far the page's is ahead
    lead,    \* how far the service's is ahead
    coin,    \* the watched coin
    width,   \* bucketMs
    seeded,  \* seededRef
    series,  \* ref.current, which setCandles always follows
    tape     \* history: what was folded since the series was last started

vars == <<clock, skew, lead, coin, width, seeded, series, tape>>

Init ==
    /\ clock = 0 /\ skew \in 0..MaxSkew /\ lead \in 0..MaxSkew
    /\ coin = NoCoin /\ width \in Widths
    /\ seeded = FALSE /\ series = <<>> /\ tape = <<>>

-----------------------------------------------------------------------------
(* foldTick *)

BucketStart(at, w) == (at \div w) * w

Higher(a, b) == IF a > b THEN a ELSE b
Lower(a, b)  == IF a < b THEN a ELSE b

MutExtended(open, value) ==
    [open EXCEPT !.h = Higher(@, value), !.c = value]

\* A print inside the open bucket extends its range and moves the close.
Extended(open, value) ==
    [t |-> open.t, o |-> open.o, h |-> Higher(open.h, value),
     l |-> Lower(open.l, value), c |-> value]

MutOpened(t, o, value) == [t |-> t, o |-> value, h |-> value, l |-> value, c |-> value]

\* A print past the boundary opens a bucket at o, the previous close.
Opened(t, o, value) ==
    [t |-> t, o |-> o, h |-> Higher(o, value), l |-> Lower(o, value), c |-> value]

\* The last MaxCandles.
Capped(s) == IF Len(s) > MaxCandles THEN SubSeq(s, Len(s) - MaxCandles + 1, Len(s)) ELSE s

MutFoldTick(s, value, at, w) ==
    LET start == BucketStart(at, w) IN
    IF value = NaN THEN s
    ELSE IF s = <<>> THEN Capped(<<Opened(start, value, value)>>)
    ELSE LET open == s[Len(s)] IN
         IF open.t = start THEN Capped([s EXCEPT ![Len(s)] = Extended(open, value)])
         ELSE Capped(Append(s, Opened(start, open.c, value)))

FoldTick(s, value, at, w) ==
    LET start == BucketStart(at, w) IN
    IF value = NaN THEN s
    ELSE IF s = <<>> THEN Capped(<<Opened(start, value, value)>>)
    ELSE LET open == s[Len(s)] IN
         IF open.t = start THEN Capped([s EXCEPT ![Len(s)] = Extended(open, value)])
         ELSE IF open.t > start THEN s
         ELSE Capped(Append(s, Opened(start, open.c, value)))

-----------------------------------------------------------------------------
(* useLiveCandles *)

\* The seed effect, for a coin c, a width w and the seedPrice of that render:
\* what it leaves in seededRef, the series and (history) the tape.
SeedPrint(price) == [v |-> price, at |-> clock + skew]
Seed(w, price) ==
    /\ seeded' = TRUE
    /\ series' = FoldTick(<<>>, price, clock + skew, w)
    /\ tape' = <<SeedPrint(price)>>

MutWatch(c, w, price) ==
    /\ <<c, w>> # <<coin, width>>
    /\ coin' = c /\ width' = w
    /\ IF seeded \/ price = NaN THEN UNCHANGED <<seeded, series, tape>> ELSE Seed(w, price)
    /\ UNCHANGED <<clock, skew, lead>>

\* Another coin or bucket width is selected: the series is reset, seeded at once
\* if the coin's price is known, and the stream subscribed to anew.
Watch(c, w, price) ==
    /\ <<c, w>> # <<coin, width>>
    /\ coin' = c /\ width' = w
    /\ IF price = NaN
       THEN seeded' = FALSE /\ series' = <<>> /\ tape' = <<>>
       ELSE Seed(w, price)
    /\ UNCHANGED <<clock, skew, lead>>

\* The parent renders with another price: the first one known seeds.
SeedPriceChanges(price) ==
    /\ ~seeded /\ coin # NoCoin /\ price # NaN
    /\ Seed(width, price)
    /\ UNCHANGED <<clock, skew, lead, coin, width>>

\* The subscription is called with a print of the watched coin, stamped some time ago by
\* the exchange or by the service.
OnPrice(value, at) ==
    /\ coin # NoCoin /\ at <= clock + lead /\ Len(tape) < MaxPrints
    /\ series' = FoldTick(series, value, at, width)
    /\ tape' = Append(tape, [v |-> value, at |-> at])
    /\ UNCHANGED <<clock, skew, lead, coin, width, seeded>>

Tick ==
    /\ clock < MaxTime
    /\ clock' = clock + 1
    /\ UNCHANGED <<skew, lead, coin, width, seeded, series, tape>>

Next ==
    \/ Tick
    \/ \E c \in Coins, w \in Widths, p \in Prices \cup {NaN} : Watch(c, w, p)
    \/ \E p \in Prices : SeedPriceChanges(p)
    \/ \E v \in Prices \cup {NaN}, at \in Times : OnPrice(v, at)

Spec == Init /\ [][Next]_vars

-----------------------------------------------------------------------------
(* Properties. *)

Candle == [t : Nat, o : Prices, h : Prices, l : Prices, c : Prices]

\* Every variable keeps its type.
TypeOK ==
    /\ clock \in 0..MaxTime /\ skew \in 0..MaxSkew /\ lead \in 0..MaxSkew
    /\ coin \in Coins \cup {NoCoin} /\ width \in Widths
    /\ seeded \in BOOLEAN
    /\ series \in Seq(Candle)
    /\ tape \in Seq([v : Prices \cup {NaN}, at : Times])

\* A series that can be drawn: in ascending order of time.
Ascending(s) == \A i \in 2..Len(s) : s[i - 1].t < s[i].t

\* ".. so the series is continuous instead of gapping at every boundary": each
\* candle opens at the close before it, and its range contains both its ends.
Continuous(s) ==
    /\ \A i \in 2..Len(s) : s[i].o = s[i - 1].c
    /\ \A i \in 1..Len(s) : /\ s[i].l <= s[i].o /\ s[i].o <= s[i].h
                            /\ s[i].l <= s[i].c /\ s[i].c <= s[i].h

\* "this hook only ever holds buckets of one width": every candle starts on a
\* boundary of the selected width, across switches and late prints.
OneWidth(s, w) == \A i \in 1..Len(s) : \E a \in Times : s[i].t = BucketStart(a, w)

\* The inductive invariant of the chart: never more than maxCandles of them, in
\* order, continuous and of the selected width.
WellFormed(s, w) == Ascending(s) /\ Continuous(s) /\ OneWidth(s, w)
CandleInv == TypeOK /\ Len(series) <= MaxCandles /\ WellFormed(series, width)

\* A reference for the whole series, from the tape alone: prints that belong to
\* an earlier bucket than one printed before are ignored; of the others, each
\* bucket's candle opens at the last print before the bucket and spans it and
\* the bucket's prints.
BucketOf(i) == BucketStart(tape[i].at, width)
InOrder == {i \in DOMAIN tape : /\ tape[i].v # NaN
                                /\ \A j \in 1..(i - 1) :
                                       tape[j].v # NaN => BucketOf(j) <= BucketOf(i)}
CandleOf(b) ==
    LET in     == {i \in InOrder : BucketOf(i) = b}
        before == {i \in InOrder : BucketOf(i) < b}
        open   == IF before = {} THEN tape[Min(in)].v
                                 ELSE tape[Max(before)].v
        range  == {open} \cup {tape[i].v : i \in in}
    IN  [t |-> b, o |-> open, c |-> tape[Max(in)].v,
         h |-> Max(range), l |-> Min(range)]
Buckets == {BucketOf(i) : i \in InOrder}
Recent  == {b \in Buckets : Cardinality({d \in Buckets : d > b}) < MaxCandles}

\* Folding print by print gives the candles of the tape, the recent ones.
MatchesTape == /\ {series[i] : i \in 1..Len(series)} = {CandleOf(b) : b \in Recent}
               /\ Len(series) = Cardinality(Recent)

\* "ignore rather than rewriting history": while one chart is on, a candle that
\* has been closed is never changed; it may only drop off the front.
ClosedFrozen ==
    [][<<coin, width, seeded>>' = <<coin, width, seeded>> =>
         \A i \in 1..(Len(series) - 1) :
             \/ series[i].t < series'[1].t
             \/ \E j \in 1..Len(series') : series'[j] = series[i]]_vars

\* "they start moving the moment the stream connects" (MarketHero.tsx:15): a print moves
\* the last candle unless it is of an earlier bucket.  A chart may be deaf to a trade of this
\* very moment, because the seed or a batch of the service has opened a bucket ahead of the
\* exchange's clock; but only until that clock gets there: the last candle is never ahead of
\* the fastest one.
PrintMovesChart ==
    LET n == Len(tape)  open == series[Len(series)]
    IN  /\ n > 0 /\ tape[n].v # NaN =>
              series # <<>> /\ (open.c = tape[n].v \/ BucketOf(n) < open.t)
        /\ series # <<>> => open.t <= BucketStart(clock + Higher(skew, lead), width)
=============================================================================
