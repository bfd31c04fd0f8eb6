------------------------- MODULE LiveCandlesProofs -------------------------
(***************************************************************************)
(* The candle series stays drawable, its closed candles stay as they are,  *)
(* a print moves it unless its bucket is closed, and it is the series that *)
(* the whole tape gives, for every set of coins and widths, any cap, any   *)
(* difference of the three clocks and any order of prints.                 *)
(***************************************************************************)
EXTENDS LiveCandles, FiniteSetTheorems, TLAPS

\* A bucket begins at a natural number: Math.floor(atMs / bucketMs) * bucketMs.
LEMMA BucketStartNat ==
  ASSUME NEW at \in Nat, NEW w \in Nat \ {0}
  PROVE  BucketStart(at, w) \in Nat
<1>1. at \div w \in Nat
  OBVIOUS
<1> QED
  BY <1>1 DEF BucketStart

\* Every width is a positive number, every time and price a natural one.
LEMMA Domains ==
  /\ Widths \subseteq Nat \ {0}
  /\ Times \subseteq Nat /\ Prices \subseteq Nat /\ NaN \notin Prices
  /\ MaxCandles \in Nat /\ MaxCandles > 0
BY CandleAssumption DEF Times, Prices, NaN

\* The candle foldTick writes back when it extends the open one.
LEMMA ExtendedCandle ==
  ASSUME NEW k \in Candle, NEW v \in Prices,
         k.l <= k.o, k.o <= k.h, k.l <= k.c, k.c <= k.h
  PROVE  LET e == Extended(k, v) IN
         /\ e \in Candle /\ e.t = k.t /\ e.o = k.o /\ e.c = v
         /\ e.l <= e.o /\ e.o <= e.h /\ e.l <= e.c /\ e.c <= e.h
<1>1. /\ k.t \in Nat /\ k.o \in Prices /\ k.h \in Prices /\ k.l \in Prices
      /\ k.o \in Nat /\ k.h \in Nat /\ k.l \in Nat /\ v \in Nat
  BY Domains DEF Candle
<1>2. Higher(k.h, v) \in Prices /\ Higher(k.h, v) >= k.h /\ Higher(k.h, v) >= v
  BY <1>1 DEF Higher
<1>3. Lower(k.l, v) \in Prices /\ Lower(k.l, v) <= k.l /\ Lower(k.l, v) <= v
  BY <1>1 DEF Lower
<1>4. Higher(k.h, v) \in Nat /\ Lower(k.l, v) \in Nat
  BY <1>2, <1>3, Domains
<1>5. Lower(k.l, v) <= k.o /\ k.o <= Higher(k.h, v)
  BY <1>1, <1>2, <1>3, <1>4
<1> QED
  BY <1>1, <1>2, <1>3, <1>5 DEF Candle, Extended

\* The candle foldTick opens.
LEMMA OpenedCandle ==
  ASSUME NEW t \in Nat, NEW o \in Prices, NEW v \in Prices
  PROVE  LET e == Opened(t, o, v) IN
         /\ e \in Candle /\ e.t = t /\ e.o = o /\ e.c = v
         /\ e.l <= e.o /\ e.o <= e.h /\ e.l <= e.c /\ e.c <= e.h
BY Domains DEF Candle, Opened, Higher, Lower

\* Dropping the oldest candles keeps a series well formed and within the cap.
LEMMA CappedKeeps ==
  ASSUME NEW s \in Seq(Candle), NEW w, WellFormed(s, w)
  PROVE  /\ Capped(s) \in Seq(Candle)
         /\ Len(Capped(s)) <= MaxCandles
         /\ WellFormed(Capped(s), w)
<1>1. CASE Len(s) <= MaxCandles
  BY <1>1, Domains DEF Capped
<1>2. CASE Len(s) > MaxCandles
  <2> DEFINE d == Len(s) - MaxCandles
             q == SubSeq(s, d + 1, Len(s))
  <2>1. d \in Nat /\ d + 1 \in 1..Len(s) /\ d + MaxCandles = Len(s)
    BY <1>2, Domains
  <2>2. q \in Seq(Candle) /\ Len(q) = MaxCandles
    BY <2>1, Domains
  <2>3. \A i \in 1..MaxCandles : q[i] = s[i + d] /\ i + d \in 1..Len(s)
    BY <2>1, Domains
  <2> HIDE DEF d, q
  <2>4. Ascending(q)
    <3> SUFFICES ASSUME NEW i \in 2..Len(q) PROVE q[i - 1].t < q[i].t
      BY DEF Ascending
    <3> DEFINE j == i + d
    <3>1. /\ i \in 1..MaxCandles /\ i - 1 \in 1..MaxCandles
         /\ j \in 2..Len(s) /\ (i - 1) + d = j - 1
      BY <2>1, <2>2, <2>3, Domains
    <3>2. q[i] = s[j] /\ q[i - 1] = s[j - 1]
      BY <2>3, <3>1
    <3> HIDE DEF j
    <3> QED
      BY <3>1, <3>2 DEF WellFormed, Ascending
  <2>5. Continuous(q)
    <3>1. ASSUME NEW i \in 2..Len(q) PROVE q[i].o = q[i - 1].c
      <4> DEFINE j == i + d
      <4>1. /\ i \in 1..MaxCandles /\ i - 1 \in 1..MaxCandles
           /\ j \in 2..Len(s) /\ (i - 1) + d = j - 1
        BY <2>1, <2>2, <2>3, Domains
      <4>2. q[i] = s[j] /\ q[i - 1] = s[j - 1]
        BY <2>3, <4>1
      <4> HIDE DEF j
      <4> QED
        BY <4>1, <4>2 DEF WellFormed, Continuous
    <3>2. ASSUME NEW i \in 1..Len(q)
          PROVE  /\ q[i].l <= q[i].o /\ q[i].o <= q[i].h
                 /\ q[i].l <= q[i].c /\ q[i].c <= q[i].h
      BY <2>2, <2>3 DEF WellFormed, Continuous
    <3> QED
      BY <3>1, <3>2 DEF Continuous
  <2>6. OneWidth(q, w)
    BY <2>2, <2>3 DEF WellFormed, OneWidth
  <2>7. Capped(s) = q
    BY <1>2 DEF Capped, q, d
  <2> QED
    BY <2>2, <2>4, <2>5, <2>6, <2>7, Domains DEF WellFormed
<1> QED
  BY <1>1, <1>2, Domains

\* One print: foldTick takes a well-formed series within the cap to another.
LEMMA FoldTickKeeps ==
  ASSUME NEW s \in Seq(Candle), NEW w \in Widths, WellFormed(s, w),
         Len(s) <= MaxCandles,
         NEW v \in Prices \cup {NaN}, NEW at \in Times
  PROVE  /\ FoldTick(s, v, at, w) \in Seq(Candle)
         /\ Len(FoldTick(s, v, at, w)) <= MaxCandles
         /\ WellFormed(FoldTick(s, v, at, w), w)
<1> DEFINE start == BucketStart(at, w)
           open  == s[Len(s)]
<1>1. start \in Nat /\ \E a \in Times : start = BucketStart(a, w)
  BY BucketStartNat, Domains
<1> HIDE DEF start
<1>2. CASE v = NaN
  BY <1>2 DEF FoldTick
<1>3. CASE v # NaN /\ s = <<>>
  <2> DEFINE k == Opened(start, v, v)
  <2>1. v \in Prices
    BY <1>3
  <2>2. /\ k \in Candle /\ k.t = start
        /\ k.l <= k.o /\ k.o <= k.h /\ k.l <= k.c /\ k.c <= k.h
    BY <1>1, <2>1, OpenedCandle
  <2> HIDE DEF k
  <2>3. <<k>> \in Seq(Candle) /\ Len(<<k>>) = 1 /\ <<k>>[1] = k
    BY <2>2
  <2>4. WellFormed(<<k>>, w)
    BY <1>1, <2>2, <2>3 DEF WellFormed, Ascending, Continuous, OneWidth
  <2>5. FoldTick(s, v, at, w) = Capped(<<k>>)
    BY <1>3 DEF FoldTick, k, start
  <2> QED
    BY <2>3, <2>4, <2>5, CappedKeeps
<1>4. CASE v # NaN /\ s # <<>>
  <2>1. v \in Prices /\ Len(s) \in Nat /\ Len(s) > 0 /\ open \in Candle
    BY <1>4
  <2>2. open.l <= open.o /\ open.o <= open.h /\ open.l <= open.c /\ open.c <= open.h
    BY <2>1 DEF WellFormed, Continuous
  <2>3. CASE open.t = start
    <3> DEFINE k == Extended(open, v)
               q == [s EXCEPT ![Len(s)] = k]
    <3>1. /\ k \in Candle /\ k.t = open.t /\ k.o = open.o
          /\ k.l <= k.o /\ k.o <= k.h /\ k.l <= k.c /\ k.c <= k.h
      BY <2>1, <2>2, ExtendedCandle
    <3> HIDE DEF k
    <3>2. /\ q \in Seq(Candle) /\ Len(q) = Len(s) /\ q[Len(s)] = k
          /\ \A i \in 1..(Len(s) - 1) : q[i] = s[i]
      BY <2>1, <3>1
    <3>3. \A i \in 1..Len(q) : q[i].t = s[i].t /\ q[i].o = s[i].o
      BY <2>1, <3>1, <3>2
    <3> HIDE DEF q
    <3>4. Ascending(q)
      BY <3>2, <3>3 DEF WellFormed, Ascending
    <3>5. Continuous(q)
      BY <2>1, <3>1, <3>2, <3>3 DEF WellFormed, Continuous
    <3>6. OneWidth(q, w)
      BY <3>2, <3>3 DEF WellFormed, OneWidth
    <3>7. FoldTick(s, v, at, w) = Capped(q)
      BY <1>4, <2>3 DEF FoldTick, q, k, start
    <3> QED
      BY <3>2, <3>4, <3>5, <3>6, <3>7, CappedKeeps DEF WellFormed
  <2>4. CASE open.t > start
    <3>1. open.t # start
      BY <2>1, <2>4, <1>1 DEF Candle
    <3>2. FoldTick(s, v, at, w) = s
      BY <1>4, <2>4, <3>1 DEF FoldTick, start
    <3> QED
      BY <3>2
  <2>5. CASE open.t < start
    <3> DEFINE k == Opened(start, open.c, v)
               q == Append(s, k)
    <3>1. /\ k \in Candle /\ k.t = start /\ k.o = open.c
          /\ k.l <= k.o /\ k.o <= k.h /\ k.l <= k.c /\ k.c <= k.h
      <4>1. open.c \in Prices
        BY <2>1 DEF Candle
      <4> QED
        BY <1>1, <2>1, <4>1, OpenedCandle
    <3> HIDE DEF k
    <3>2. /\ q \in Seq(Candle) /\ Len(q) = Len(s) + 1 /\ q[Len(s) + 1] = k
          /\ \A i \in 1..Len(s) : q[i] = s[i]
      BY <2>1, <3>1
    <3> HIDE DEF q
    <3>3. Ascending(q)
      BY <2>1, <2>5, <3>1, <3>2 DEF WellFormed, Ascending
    <3>4. Continuous(q)
      BY <2>1, <3>1, <3>2 DEF WellFormed, Continuous
    <3>5. OneWidth(q, w)
      BY <1>1, <2>1, <3>1, <3>2 DEF WellFormed, OneWidth
    <3>6. ~(open.t = start) /\ ~(open.t > start)
      BY <1>1, <2>1, <2>5 DEF Candle
    <3>7. FoldTick(s, v, at, w) = Capped(q)
      BY <1>4, <3>6 DEF FoldTick, q, k, start
    <3> QED
      BY <3>2, <3>3, <3>4, <3>5, <3>7, CappedKeeps DEF WellFormed
  <2> QED
    BY <1>1, <2>1, <2>3, <2>4, <2>5 DEF Candle
<1> QED
  BY <1>2, <1>3, <1>4

\* The empty series is well formed, whatever the width.
LEMMA EmptyWellFormed ==
  ASSUME NEW w
  PROVE  <<>> \in Seq(Candle) /\ Len(<<>>) = 0 /\ WellFormed(<<>>, w)
BY DEF WellFormed, Ascending, Continuous, OneWidth

\* The seed effect starts a series afresh.
LEMMA SeedKeeps ==
  ASSUME CandleInv, NEW w \in Widths, NEW price \in Prices, Seed(w, price)
  PROVE  /\ seeded' \in BOOLEAN
         /\ series' \in Seq(Candle) /\ Len(series') <= MaxCandles
         /\ WellFormed(series', w)
         /\ tape' \in Seq([v : Prices \cup {NaN}, at : Times])
<1>1. clock + skew \in Times
  BY CandleAssumption DEF CandleInv, TypeOK, Times
<1>2. SeedPrint(price) \in [v : Prices \cup {NaN}, at : Times]
  BY <1>1 DEF SeedPrint
<1>3. /\ <<>> \in Seq(Candle) /\ Len(<<>>) <= MaxCandles /\ WellFormed(<<>>, w)
      /\ price \in Prices \cup {NaN}
  BY EmptyWellFormed, Domains
<1>4. /\ FoldTick(<<>>, price, clock + skew, w) \in Seq(Candle)
      /\ Len(FoldTick(<<>>, price, clock + skew, w)) <= MaxCandles
      /\ WellFormed(FoldTick(<<>>, price, clock + skew, w), w)
  BY <1>1, <1>3, FoldTickKeeps
<1>5. tape' \in Seq([v : Prices \cup {NaN}, at : Times])
  BY <1>2 DEF Seed
<1> QED
  BY <1>4, <1>5 DEF Seed

\* The chart's invariant holds in every reachable state: whatever order prints
\* arrive in, whenever the seed price comes and the selection changes, the series
\* is within its cap, in order, continuous and of the selected width.
THEOREM CandleInvariant == Spec => []CandleInv
<1>1. Init => CandleInv
  <2> SUFFICES ASSUME Init PROVE CandleInv
    OBVIOUS
  <2> seeded \in BOOLEAN
    BY Zenon DEF Init
  <2>1. clock \in 0..MaxTime /\ skew \in 0..MaxSkew /\ lead \in 0..MaxSkew /\ series \in Seq(Candle)
    BY CandleAssumption DEF Init
  <2>2. tape \in Seq([v : Prices \cup {NaN}, at : Times])
    BY DEF Init
  <2>3. TypeOK
    BY <2>1, <2>2 DEF Init, TypeOK
  <2> QED
    BY <2>3, EmptyWellFormed, Domains DEF Init, CandleInv
<1>2. CandleInv /\ [Next]_vars => CandleInv'
  <2> SUFFICES ASSUME CandleInv, [Next]_vars PROVE CandleInv'
    OBVIOUS
  <2>1. CASE Tick
    <3>1. /\ clock' \in 0..MaxTime
          /\ UNCHANGED <<skew, lead, coin, width, seeded, series, tape>>
      BY <2>1, CandleAssumption DEF Tick, CandleInv, TypeOK
    <3> QED
      BY <3>1 DEF CandleInv, TypeOK, WellFormed, Ascending, Continuous, OneWidth
  <2>2. ASSUME NEW c \in Coins, NEW w \in Widths, NEW p \in Prices \cup {NaN},
               Watch(c, w, p)
        PROVE  CandleInv'
    <3>1. clock' = clock /\ skew' = skew /\ lead' = lead /\ coin' = c /\ width' = w
      BY <2>2 DEF Watch
    <3>2. CASE p = NaN
      <4>1. seeded' = FALSE /\ series' = <<>> /\ tape' = <<>>
        BY <2>2, <3>2 DEF Watch
      <4> seeded' \in BOOLEAN
        BY <4>1, Zenon
      <4>2. /\ series' \in Seq(Candle)
            /\ tape' \in Seq([v : Prices \cup {NaN}, at : Times])
        BY <4>1
      <4>3. TypeOK'
        BY <3>1, <4>2 DEF CandleInv, TypeOK
      <4> QED
        BY <3>1, <4>1, <4>3, EmptyWellFormed, Domains
        DEF CandleInv, WellFormed, Ascending, Continuous, OneWidth
    <3>3. CASE p # NaN
      <4>1. p \in Prices /\ Seed(w, p)
        BY <2>2, <3>3 DEF Watch
      <4>2. /\ seeded' \in BOOLEAN
            /\ series' \in Seq(Candle) /\ Len(series') <= MaxCandles
            /\ WellFormed(series', w)
            /\ tape' \in Seq([v : Prices \cup {NaN}, at : Times])
        BY <4>1, SeedKeeps
      <4>3. TypeOK'
        BY <3>1, <4>2 DEF CandleInv, TypeOK
      <4> QED
        BY <3>1, <4>2, <4>3 DEF CandleInv, WellFormed, Ascending, Continuous, OneWidth
    <3> QED
      BY <3>2, <3>3
  <2>3. ASSUME NEW p \in Prices, SeedPriceChanges(p)
        PROVE  CandleInv'
    <3>1. clock' = clock /\ skew' = skew /\ lead' = lead /\ coin' = coin /\ width' = width /\ Seed(width, p)
      BY <2>3 DEF SeedPriceChanges
    <3>2. /\ seeded' \in BOOLEAN
          /\ series' \in Seq(Candle) /\ Len(series') <= MaxCandles
          /\ WellFormed(series', width)
          /\ tape' \in Seq([v : Prices \cup {NaN}, at : Times])
      BY <3>1, SeedKeeps DEF CandleInv, TypeOK
    <3>3. TypeOK'
      BY <3>1, <3>2 DEF CandleInv, TypeOK
    <3> QED
      BY <3>1, <3>2, <3>3 DEF CandleInv, WellFormed, Ascending, Continuous, OneWidth
  <2>4. ASSUME NEW v \in Prices \cup {NaN}, NEW at \in Times, OnPrice(v, at)
        PROVE  CandleInv'
    <3>1. /\ clock' = clock /\ skew' = skew /\ lead' = lead /\ coin' = coin /\ width' = width /\ seeded' = seeded
          /\ series' = FoldTick(series, v, at, width)
          /\ tape' = Append(tape, [v |-> v, at |-> at])
      BY <2>4 DEF OnPrice
    <3>2. at \in Times
      OBVIOUS
    <3>3. /\ series' \in Seq(Candle) /\ Len(series') <= MaxCandles
          /\ WellFormed(series', width)
      BY <3>1, <3>2, FoldTickKeeps DEF CandleInv, TypeOK
    <3>4. tape' \in Seq([v : Prices \cup {NaN}, at : Times])
      BY <3>1, <3>2 DEF CandleInv, TypeOK
    <3>5. TypeOK'
      BY <3>1, <3>3, <3>4 DEF CandleInv, TypeOK
    <3> QED
      BY <3>1, <3>3, <3>5 DEF CandleInv, WellFormed, Ascending, Continuous, OneWidth
  <2>5. CASE UNCHANGED vars
    BY <2>5 DEF vars, CandleInv, TypeOK, WellFormed, Ascending, Continuous, OneWidth
  <2> QED
    BY <2>1, <2>2, <2>3, <2>4, <2>5 DEF Next
<1> QED
  BY <1>1, <1>2, PTL DEF Spec

-----------------------------------------------------------------------------
(* Closed candles. *)

\* A candle of a series is still there in another, or has dropped off its front.
Stays(k, s) == k.t < s[1].t \/ \E j \in 1..Len(s) : s[j] = k

\* The cap is exceeded by one candle at most, and only the first one drops off.
LEMMA CappedStays ==
  ASSUME NEW s \in Seq(Candle), Ascending(s), Len(s) <= MaxCandles + 1, NEW i \in 1..Len(s)
  PROVE  Stays(s[i], Capped(s))
<1>1. CASE Len(s) <= MaxCandles
  <2>1. Capped(s) = s
    BY <1>1, Domains DEF Capped
  <2> QED  BY <2>1 DEF Stays
<1>2. CASE Len(s) > MaxCandles
  <2> DEFINE q == SubSeq(s, 2, Len(s))
  <2>1. Len(s) = MaxCandles + 1 /\ Len(s) \in Nat
    BY <1>2, Domains
  <2>2. Capped(s) = q
    BY <1>2, <2>1, Domains DEF Capped
  <2>3. Len(q) = MaxCandles /\ \A j \in 1..MaxCandles : q[j] = s[j + 1]
    BY <2>1, Domains
  <2> HIDE DEF q
  <2>4. CASE i = 1
    <3>1. s[1].t < s[2].t
      BY <2>1, Domains DEF Ascending
    <3> QED  BY <2>2, <2>3, <2>4, <3>1, Domains DEF Stays
  <2>5. CASE i # 1
    <3>1. i - 1 \in 1..Len(q) /\ q[i - 1] = s[i]
      BY <2>1, <2>3, <2>5, Domains
    <3> QED  BY <2>2, <3>1 DEF Stays
  <2> QED  BY <2>4, <2>5
<1> QED  BY <1>1, <1>2, Domains

\* One print leaves every candle but the last as it is, or drops the first one.
LEMMA FoldTickStays ==
  ASSUME NEW s \in Seq(Candle), NEW w \in Widths, Ascending(s), Len(s) <= MaxCandles,
         NEW v \in Prices \cup {NaN}, NEW at \in Times, NEW i \in 1..(Len(s) - 1)
  PROVE  Stays(s[i], FoldTick(s, v, at, w))
<1> DEFINE start == BucketStart(at, w)
           open  == s[Len(s)]
<1>1. i \in 1..Len(s) /\ i # Len(s) /\ s # <<>> /\ Len(s) \in Nat /\ Len(s) > 0 /\ open \in Candle
  OBVIOUS
<1>2. start \in Nat /\ open.t \in Nat
  BY <1>1, BucketStartNat, Domains DEF Candle
<1>3. CASE FoldTick(s, v, at, w) = s
  BY <1>1, <1>3 DEF Stays
<1>4. CASE v # NaN /\ open.t = start
  <2> DEFINE q == [s EXCEPT ![Len(s)] = Extended(open, v)]
  <2>1. v \in Prices /\ open.o \in Prices /\ open.h \in Prices /\ open.l \in Prices
    BY <1>1, <1>4 DEF Candle
  <2>2. Extended(open, v) \in Candle /\ Extended(open, v).t = open.t
    BY <1>1, <2>1, Domains DEF Candle, Extended, Higher, Lower
  <2>3. q \in Seq(Candle) /\ Len(q) = Len(s) /\ \A j \in 1..Len(q) : q[j].t = s[j].t
    BY <1>1, <2>2
  <2>4. q[i] = s[i]
    BY <1>1
  <2>5. FoldTick(s, v, at, w) = Capped(q)
    BY <1>1, <1>4 DEF FoldTick
  <2> HIDE DEF q
  <2>6. Ascending(q)
    BY <2>3 DEF Ascending
  <2>7. Stays(q[i], Capped(q))
    BY <1>1, <2>3, <2>6, CappedStays, Domains
  <2> QED  BY <2>4, <2>5, <2>7
<1>5. CASE v # NaN /\ start > open.t
  <2> DEFINE k == Opened(start, open.c, v)
             q == Append(s, k)
  <2>1. k \in Candle /\ k.t = start
    BY <1>1, <1>2, <1>5, OpenedCandle DEF Candle
  <2>2. ~(open.t = start) /\ ~(open.t > start)
    BY <1>2, <1>5
  <2>3. FoldTick(s, v, at, w) = Capped(q)
    BY <1>1, <1>5, <2>2 DEF FoldTick
  <2> HIDE DEF k
  <2>4. /\ q \in Seq(Candle) /\ Len(q) = Len(s) + 1 /\ q[Len(s) + 1] = k
        /\ \A j \in 1..Len(s) : q[j] = s[j]
    BY <1>1, <2>1
  <2> HIDE DEF q
  <2>5. Ascending(q)
    <3> SUFFICES ASSUME NEW j \in 2..Len(q) PROVE q[j - 1].t < q[j].t
      BY DEF Ascending
    <3>1. CASE j = Len(s) + 1
      <4>1. q[j - 1] = open /\ q[j] = k
        BY <1>1, <2>4, <3>1
      <4> QED  BY <1>2, <1>5, <2>1, <4>1
    <3>2. CASE j # Len(s) + 1
      <4>1. j \in 2..Len(s)
        BY <1>1, <2>4, <3>2
      <4>2. j \in 1..Len(s) /\ j - 1 \in 1..Len(s)
        BY <1>1, <4>1
      <4>3. q[j] = s[j] /\ q[j - 1] = s[j - 1]
        BY <2>4, <4>2
      <4> QED  BY <4>1, <4>3 DEF Ascending
    <3> QED  BY <3>1, <3>2
  <2>6. Stays(q[i], Capped(q))
    BY <1>1, <2>4, <2>5, CappedStays, Domains
  <2> QED  BY <1>1, <2>3, <2>4, <2>6
<1>6. v = NaN \/ open.t > start => FoldTick(s, v, at, w) = s
  BY <1>1, <1>2 DEF FoldTick
<1> QED  BY <1>2, <1>3, <1>4, <1>5, <1>6

\* Closed candles are not rewritten, by any print in any order, while a chart stays on
\* (foldTick's `open.t > start`, and the cap that drops from the front).
THEOREM CandlesStayClosed == Spec => ClosedFrozen
<1>1. CandleInv /\ [Next]_vars =>
        [<<coin, width, seeded>>' = <<coin, width, seeded>> =>
           \A i \in 1..(Len(series) - 1) :
             \/ series[i].t < series'[1].t
             \/ \E j \in 1..Len(series') : series'[j] = series[i]]_vars
  <2> SUFFICES ASSUME CandleInv, Next, UNCHANGED <<coin, width, seeded>>,
                      NEW i \in 1..(Len(series) - 1)
               PROVE  Stays(series[i], series')
    BY DEF Stays
  <2>1. CASE series' = series
    <3>1. i \in 1..Len(series)
      BY DEF CandleInv, TypeOK
    <3> QED  BY <2>1, <3>1 DEF Stays
  <2>2. ASSUME NEW v \in Prices \cup {NaN}, NEW at \in Times, OnPrice(v, at)
        PROVE  Stays(series[i], series')
    <3>1. at \in Times
      OBVIOUS
    <3>2. series' = FoldTick(series, v, at, width)
      BY <2>2 DEF OnPrice
    <3> QED  BY <3>1, <3>2, FoldTickStays DEF CandleInv, TypeOK, WellFormed
  <2>3. ASSUME NEW c \in Coins, NEW w \in Widths, NEW p \in Prices \cup {NaN}, Watch(c, w, p)
        PROVE  FALSE
    BY <2>3 DEF Watch
  <2>4. ASSUME NEW p \in Prices, SeedPriceChanges(p)
        PROVE  FALSE
    BY <2>4 DEF SeedPriceChanges, Seed
  <2> QED  BY <2>1, <2>2, <2>3, <2>4 DEF Next, Tick
<1> QED  BY <1>1, CandleInvariant, PTL DEF ClosedFrozen, Spec
-----------------------------------------------------------------------------
(* The chart moves. *)

\* A later moment is in the same bucket or in a later one.
LEMMA BucketsAscend ==
  ASSUME NEW a \in Nat, NEW b \in Nat, a <= b, NEW w \in Nat \ {0}
  PROVE  BucketStart(a, w) <= BucketStart(b, w)
<1> DEFINE p == a \div w
           q == b \div w
<1>1. p \in Nat /\ q \in Nat /\ p * w <= a /\ b < q * w + w
  OBVIOUS
<1> HIDE DEF p, q
<1>2. p <= q
  <2> SUFFICES ASSUME q + 1 <= p PROVE FALSE
    BY <1>1
  <2>1. (q + 1) * w <= p * w
    BY <1>1
  <2> QED  BY <1>1, <2>1
<1>3. p * w <= q * w
  BY <1>1, <1>2
<1> QED  BY <1>3 DEF BucketStart, p, q

\* The cap leaves the last candle.
LEMMA CappedLast ==
  ASSUME NEW s \in Seq(Candle), s # <<>>
  PROVE  Capped(s) # <<>> /\ Capped(s)[Len(Capped(s))] = s[Len(s)]
<1>1. CASE Len(s) <= MaxCandles
  BY <1>1, Domains DEF Capped
<1>2. CASE Len(s) > MaxCandles
  <2> DEFINE q == SubSeq(s, Len(s) - MaxCandles + 1, Len(s))
  <2>1. Len(q) = MaxCandles /\ q[MaxCandles] = s[Len(s)] /\ q \in Seq(Candle)
    BY <1>2, Domains
  <2>2. Capped(s) = q
    BY <1>2, Domains DEF Capped
  <2> HIDE DEF q
  <2> QED  BY <2>1, <2>2, Domains
<1> QED  BY <1>1, <1>2, Domains

Ends(s, t, c) == s # <<>> /\ s[Len(s)].t = t /\ s[Len(s)].c = c

\* A print that is not late ends in the last candle, as its close.
LEMMA PrintEndsIn ==
  ASSUME NEW s \in Seq(Candle), NEW w \in Widths, NEW v \in Prices, NEW at \in Times,
         s # <<>> => s[Len(s)].t <= BucketStart(at, w)
  PROVE  Ends(FoldTick(s, v, at, w), BucketStart(at, w), v)
<1> DEFINE start == BucketStart(at, w)
<1>1. start \in Nat /\ v # NaN
  BY BucketStartNat, Domains
<1> HIDE DEF start
<1>2. CASE s = <<>>
  <2> DEFINE k == Opened(start, v, v)
  <2>1. k \in Candle /\ k.t = start /\ k.c = v
    BY <1>1, OpenedCandle
  <2> HIDE DEF k
  <2>2. <<k>> \in Seq(Candle) /\ <<k>> # <<>> /\ Len(<<k>>) = 1 /\ <<k>>[1] = k
    BY <2>1
  <2>3. FoldTick(s, v, at, w) = Capped(<<k>>)
    BY <1>1, <1>2 DEF FoldTick, k, start
  <2> QED  BY <2>1, <2>2, <2>3, CappedLast DEF Ends, start
<1>3. CASE s # <<>> /\ s[Len(s)].t = start
  <2> DEFINE k == Extended(s[Len(s)], v)
             q == [s EXCEPT ![Len(s)] = k]
  <2>1. s[Len(s)] \in Candle /\ Len(s) \in 1..Len(s)
    BY <1>3
  <2>2. k \in Candle /\ k.t = start /\ k.c = v
    BY <1>3, <2>1, Domains DEF Candle, Extended, Higher, Lower
  <2>3. FoldTick(s, v, at, w) = Capped(q)
    BY <1>1, <1>3 DEF FoldTick, start
  <2> HIDE DEF k
  <2>4. q \in Seq(Candle) /\ q # <<>> /\ Len(q) = Len(s) /\ q[Len(q)] = k
    BY <2>1, <2>2
  <2> HIDE DEF q
  <2> QED  BY <2>2, <2>3, <2>4, CappedLast DEF Ends, start
<1>4. CASE s # <<>> /\ s[Len(s)].t < start
  <2> DEFINE k == Opened(start, s[Len(s)].c, v)
             q == Append(s, k)
  <2>1. s[Len(s)] \in Candle
    BY <1>4
  <2>2. k \in Candle /\ k.t = start /\ k.c = v
    BY <1>1, <2>1, OpenedCandle DEF Candle
  <2>3. ~(s[Len(s)].t = start) /\ ~(s[Len(s)].t > start)
    BY <1>1, <1>4, <2>1 DEF Candle
  <2>4. FoldTick(s, v, at, w) = Capped(q)
    BY <1>1, <1>4, <2>3 DEF FoldTick, start
  <2> HIDE DEF k
  <2>5. q \in Seq(Candle) /\ Len(q) = Len(s) + 1 /\ q[Len(s) + 1] = k /\ Len(s) \in Nat
    BY <2>2
  <2> HIDE DEF q
  <2>6. q # <<>> /\ q[Len(q)] = k
    BY <2>5
  <2> QED  BY <2>2, <2>4, <2>5, <2>6, CappedLast DEF Ends, start
<1>5. s # <<>> => s[Len(s)] \in Candle
  OBVIOUS
<1> QED  BY <1>1, <1>2, <1>3, <1>4, <1>5 DEF start, Candle

Fastest == clock + Higher(skew, lead)

\* A seed is in the bucket of the page's clock.
LEMMA SeedMoves ==
  ASSUME CandleInv, NEW w \in Widths, NEW price \in Prices, Seed(w, price),
         UNCHANGED <<clock, skew, lead>>, width' = w
  PROVE  PrintMovesChart'
<1> DEFINE at == clock + skew
<1>1. /\ at \in Nat /\ at \in Times /\ Fastest \in Nat /\ at <= Fastest
      /\ w \in Nat \ {0}
  BY CandleAssumption, Domains DEF CandleInv, TypeOK, Times, Fastest, Higher
<1>2. series' = FoldTick(<<>>, price, at, w) /\ tape' = <<[v |-> price, at |-> at]>>
  BY DEF Seed, SeedPrint
<1> HIDE DEF at
<1>3. <<>> \in Seq(Candle)
  OBVIOUS
<1>4. Ends(series', BucketStart(at, w), price)
  BY <1>1, <1>2, <1>3, PrintEndsIn
<1>5. BucketStart(at, w) <= BucketStart(Fastest, w)
  BY <1>1, BucketsAscend
<1>6. Len(tape') = 1 /\ tape'[1].v = price
  BY <1>2
<1>7. Fastest' = Fastest
  BY DEF Fastest, Higher
<1> QED  BY <1>4, <1>5, <1>6, <1>7 DEF PrintMovesChart, Ends, Fastest

\* Time passes, and with it the fastest clock.
LEMMA TickMoves ==
  ASSUME CandleInv, PrintMovesChart, Tick
  PROVE  PrintMovesChart'
<1>1. /\ clock \in Nat /\ width \in Nat \ {0} /\ Fastest \in Nat /\ clock' = clock + 1
      /\ UNCHANGED <<skew, lead, width, series, tape>> /\ series \in Seq(Candle)
  BY CandleAssumption, Domains DEF CandleInv, TypeOK, Tick, Fastest, Higher
<1>2. Fastest' = Fastest + 1
  BY <1>1, CandleAssumption DEF Fastest, Higher, CandleInv, TypeOK
<1>3. BucketStart(Fastest, width) <= BucketStart(Fastest + 1, width)
  BY <1>1, BucketsAscend
<1>4. /\ series # <<>> => series[Len(series)].t \in Nat
      /\ BucketStart(Fastest, width) \in Nat /\ BucketStart(Fastest + 1, width) \in Nat
  <2>1. series # <<>> => series[Len(series)] \in Candle
    BY <1>1
  <2>2. Fastest \in Nat /\ Fastest + 1 \in Nat /\ width \in Nat \ {0}
    BY <1>1
  <2>3. BucketStart(Fastest, width) \in Nat
    BY <2>2, BucketStartNat
  <2>4. BucketStart(Fastest + 1, width) \in Nat
    BY <2>2, BucketStartNat
  <2> QED  BY <2>1, <2>3, <2>4 DEF Candle
<1>5. \A i : BucketOf(i)' = BucketOf(i)
  BY <1>1 DEF BucketOf
<1>6. BucketStart(Fastest, width)' = BucketStart(Fastest + 1, width)
  BY <1>1, <1>2
<1> QED  BY <1>1, <1>3, <1>4, <1>5, <1>6 DEF PrintMovesChart, Fastest

\* A print that is not late is the close of the last candle, in a bucket that the clock that
\* stamped it has reached.
LEMMA PrintMoves ==
  ASSUME CandleInv, PrintMovesChart, NEW v \in Prices \cup {NaN}, NEW at \in Times, OnPrice(v, at)
  PROVE  PrintMovesChart'
<1> DEFINE n == Len(tape) + 1
           start == BucketStart(at, width)
<1>1. /\ UNCHANGED <<clock, skew, lead, coin, width, seeded>>
      /\ series' = FoldTick(series, v, at, width)
      /\ tape' = Append(tape, [v |-> v, at |-> at]) /\ at <= clock + lead
  BY DEF OnPrice
<1>2. /\ clock \in Nat /\ at \in Nat /\ width \in Widths /\ width \in Nat \ {0}
      /\ series \in Seq(Candle) /\ tape \in Seq([v : Prices \cup {NaN}, at : Times])
      /\ Fastest \in Nat /\ at <= Fastest /\ Fastest' = Fastest
  BY <1>1, CandleAssumption, Domains DEF CandleInv, TypeOK, Times, Fastest, Higher
<1>3. start \in Nat /\ start <= BucketStart(Fastest, width) /\ BucketStart(Fastest, width) \in Nat
  BY <1>2, BucketStartNat, BucketsAscend
<1>4. Len(tape') = n /\ tape'[n] = [v |-> v, at |-> at] /\ n \in Nat
  BY <1>1, <1>2
<1>5. series # <<>> => /\ series[Len(series)].t \in Nat
                       /\ series[Len(series)].t <= BucketStart(Fastest, width)
  <2>1. series # <<>> => series[Len(series)] \in Candle
    BY <1>2
  <2> QED  BY <2>1 DEF PrintMovesChart, Candle, Fastest
<1>6. \A i : BucketOf(i)' = BucketStart(tape'[i].at, width)
  BY <1>1 DEF BucketOf
<1>7. BucketStart(Fastest, width)' = BucketStart(Fastest, width)
  BY <1>1, <1>2
<1> HIDE DEF n, start
<1>8. CASE v = NaN
  <2>1. series' = series
    BY <1>1, <1>8 DEF FoldTick
  <2> QED  BY <1>4, <1>5, <1>7, <1>8, <2>1 DEF PrintMovesChart, Fastest
<1>9. CASE v # NaN /\ (series = <<>> \/ series[Len(series)].t <= start)
  <2>1. v \in Prices
    BY <1>9
  <2>2. Ends(series', start, v)
    BY <1>1, <1>2, <1>9, <2>1, PrintEndsIn DEF start
  <2> QED  BY <1>3, <1>4, <1>7, <2>2 DEF PrintMovesChart, Ends, Fastest
<1>10. CASE v # NaN /\ series # <<>> /\ series[Len(series)].t > start
  <2>1. series' = series
    <3>1. series[Len(series)].t # start
      BY <1>3, <1>5, <1>10
    <3> QED  BY <1>1, <1>10, <3>1 DEF FoldTick, start
  <2>2. \A i : i = n => BucketOf(i)' < series'[Len(series')].t
    BY <1>4, <1>6, <1>10, <2>1 DEF start
  <2> QED  BY <1>4, <1>5, <1>7, <1>10, <2>1, <2>2 DEF PrintMovesChart, Fastest
<1> QED  BY <1>3, <1>5, <1>8, <1>9, <1>10

\* A print moves the chart at once unless the chart has a later bucket open, and that bucket
\* is never later than the fastest of the three clocks: a chart that a clock ahead of the
\* exchange's made deaf hears again when the exchange's gets there (useLiveCandles,
\* MarketHero.tsx:15).
THEOREM PrintsMoveChart == Spec => []PrintMovesChart
<1>1. Init => PrintMovesChart
  BY DEF Init, PrintMovesChart
<1>2. CandleInv /\ PrintMovesChart /\ [Next]_vars => PrintMovesChart'
  <2> SUFFICES ASSUME CandleInv, PrintMovesChart, [Next]_vars PROVE PrintMovesChart'
    OBVIOUS
  <2>1. ASSUME NEW c \in Coins, NEW w \in Widths, NEW p \in Prices \cup {NaN}, Watch(c, w, p)
        PROVE  PrintMovesChart'
    <3>1. CASE p = NaN
      BY <2>1, <3>1 DEF Watch, PrintMovesChart
    <3>2. CASE p # NaN
      BY <2>1, <3>2, SeedMoves DEF Watch
    <3> QED  BY <3>1, <3>2
  <2>2. ASSUME NEW p \in Prices, SeedPriceChanges(p)
        PROVE  PrintMovesChart'
    BY <2>2, SeedMoves DEF SeedPriceChanges, CandleInv, TypeOK
  <2>3. CASE UNCHANGED vars
    BY <2>3 DEF vars, PrintMovesChart, BucketOf
  <2> QED  BY <2>1, <2>2, <2>3, TickMoves, PrintMoves DEF Next
<1> QED  BY <1>1, <1>2, CandleInvariant, PTL DEF Spec

-----------------------------------------------------------------------------
(* Induction by the least counterexample. *)

\* Every set of numbers has a least one.
LEMMA LeastNumber ==
  ASSUME NEW T, T \subseteq Nat, T # {}
  PROVE  \E m \in T : \A k \in T : m <= k
<1> DEFINE R == {ss \in Nat \X Nat : ss[1] < ss[2]}
<1>1. IsWellFoundedOn(R, Nat)
  BY NatLessThanWellFounded DEF OpToRel
<1> HIDE DEF R
<1>2. PICK m \in T : \A k \in T : <<k, m>> \notin R
  BY <1>1, WFMin
<1>3. \A k \in T : ~(k < m)
  BY <1>2 DEF R
<1> QED  BY <1>3

-----------------------------------------------------------------------------
(* The series and the tape. *)

Quote == [v : Prices \cup {NaN}, at : Times]

\* InOrder and its parts, of any tape s.
BucketIn(s, w, i) == BucketStart(s[i].at, w)
Priced(s) == {i \in DOMAIN s : s[i].v # NaN}
Ordered(s, w) == {i \in Priced(s) : \A j \in Priced(s) : j < i => BucketIn(s, w, j) <= BucketIn(s, w, i)}
Inside(s, w, b) == {i \in Ordered(s, w) : BucketIn(s, w, i) = b}
Before(s, w, b) == {i \in Ordered(s, w) : BucketIn(s, w, i) < b}

LastOf(S, m)  == m \in S /\ \A i \in S : i <= m
FirstOf(S, m) == m \in S /\ \A i \in S : m <= i

\* Candle k is the one that tape s makes of bucket b.
Describes(s, w, k, b) ==
  /\ k.t = b
  /\ \E m : LastOf(Inside(s, w, b), m) /\ k.c = s[m].v
  /\ \/ Before(s, w, b) = {} /\ \E m : FirstOf(Inside(s, w, b), m) /\ k.o = s[m].v
     \/ \E m : LastOf(Before(s, w, b), m) /\ k.o = s[m].v
  /\ k.h = k.o \/ \E i \in Inside(s, w, b) : k.h = s[i].v
  /\ k.l = k.o \/ \E i \in Inside(s, w, b) : k.l = s[i].v
  /\ k.l <= k.o /\ k.o <= k.h
  /\ \A i \in Inside(s, w, b) : k.l <= s[i].v /\ s[i].v <= k.h

\* Series cs is what is left of folding tape s: no print is past its last candle, every
\* candle is its bucket's, and a bucket without one has been dropped by the cap.
Folded(s, w, cs) ==
  /\ \A j \in Priced(s) : cs # <<>> /\ BucketIn(s, w, j) <= cs[Len(cs)].t
  /\ \A i \in 1..Len(cs) : Describes(s, w, cs[i], cs[i].t)
  /\ \A j \in Ordered(s, w) :
        \/ \E i \in 1..Len(cs) : cs[i].t = BucketIn(s, w, j)
        \/ BucketIn(s, w, j) < cs[1].t /\ Len(cs) >= MaxCandles

\* One more print: the earlier ones are as ordered as they were.
LEMMA OrderedAppend ==
  ASSUME NEW s \in Seq(Quote), NEW e \in Quote, NEW w \in Widths
  PROVE  LET t == Append(s, e)
             n == Len(s) + 1
         IN  /\ \A i \in DOMAIN s : t[i] = s[i] /\ BucketIn(t, w, i) = BucketIn(s, w, i) /\ i < n
             /\ t[n] = e /\ BucketIn(t, w, n) = BucketStart(e.at, w) /\ n \notin DOMAIN s
             /\ n \in Nat /\ DOMAIN s \subseteq Nat
             /\ Priced(t) = Priced(s) \cup (IF e.v # NaN THEN {n} ELSE {})
             /\ Ordered(t, w) =
                  Ordered(s, w) \cup
                    (IF e.v # NaN /\ \A j \in Priced(s) : BucketIn(s, w, j) <= BucketStart(e.at, w)
                     THEN {n} ELSE {})
<1> DEFINE t == Append(s, e)
           n == Len(s) + 1
<1>1. /\ n \in Nat /\ DOMAIN s = 1..Len(s) /\ DOMAIN t = 1..n /\ t[n] = e /\ Len(s) \in Nat
      /\ \A i \in DOMAIN s : t[i] = s[i]
  OBVIOUS
<1> HIDE DEF t
<1>2. \A i \in DOMAIN s : BucketIn(t, w, i) = BucketIn(s, w, i)
  BY <1>1 DEF BucketIn
<1>3. BucketIn(t, w, n) = BucketStart(e.at, w)
  BY <1>1 DEF BucketIn
<1>4. \A i \in DOMAIN s : i < n /\ i \in Nat
  BY <1>1
<1>5. DOMAIN t = DOMAIN s \cup {n} /\ n \notin DOMAIN s
  BY <1>1
<1> HIDE DEF n
<1>6. Priced(t) = Priced(s) \cup (IF e.v # NaN THEN {n} ELSE {})
  BY <1>1, <1>5 DEF Priced
<1>7. Priced(s) \subseteq DOMAIN s
  BY DEF Priced
<1>8. Ordered(t, w) = Ordered(s, w) \cup
        (IF e.v # NaN /\ \A j \in Priced(s) : BucketIn(s, w, j) <= BucketStart(e.at, w)
         THEN {n} ELSE {})
  <2>1. ASSUME NEW i \in DOMAIN s PROVE ~(n < i)
    BY <1>1, <1>4
  <2>2. ~(n < n)
    BY <1>1
  <2>3. \A i : i \in Ordered(s, w) => i \in Priced(s)
    BY DEF Ordered
  <2>4. ASSUME NEW i \in Priced(s) PROVE i \in Ordered(t, w) <=> i \in Ordered(s, w)
    <3>1. i \in Priced(t) /\ i \in DOMAIN s
      BY <1>6, <1>7
    <3>2. \A j \in Priced(s) : BucketIn(t, w, j) = BucketIn(s, w, j)
      BY <1>2, <1>7
    <3> QED  BY <1>6, <2>1, <3>1, <3>2 DEF Ordered
  <2>5. n \in Ordered(t, w) <=> (e.v # NaN /\ \A j \in Priced(s) : BucketIn(s, w, j) <= BucketStart(e.at, w))
    <3>1. n \in Priced(t) <=> e.v # NaN
      BY <1>5, <1>6, <1>7
    <3>2. \A j \in Priced(s) : j \in Priced(t) /\ j < n /\ BucketIn(t, w, j) = BucketIn(s, w, j)
      BY <1>2, <1>4, <1>6, <1>7
    <3> QED  BY <1>3, <1>6, <2>2, <3>1, <3>2 DEF Ordered
  <2>6. \A i : i \in Ordered(t, w) => i \in Priced(s) \/ i = n
    BY <1>6 DEF Ordered
  <2> QED  BY <2>3, <2>4, <2>5, <2>6
<1> QED  BY <1>1, <1>2, <1>3, <1>4, <1>5, <1>6, <1>8 DEF n, t

\* A print that is a price has a natural one, and a bucket.
LEMMA PricedPrints ==
  ASSUME NEW s \in Seq(Quote), NEW w \in Widths, NEW i \in Priced(s)
  PROVE  s[i].v \in Prices /\ s[i].v \in Nat /\ s[i].at \in Times /\ BucketIn(s, w, i) \in Nat /\ i \in Nat
<1>1. i \in DOMAIN s /\ s[i].v # NaN
  BY DEF Priced
<1>2. i \in Nat /\ s[i] \in Quote
  BY <1>1
<1>3. s[i].v \in Prices /\ s[i].at \in Times
  BY <1>1, <1>2 DEF Quote
<1>4. s[i].v \in Nat /\ s[i].at \in Nat
  BY <1>3, Domains
<1> QED  BY <1>2, <1>3, <1>4, BucketStartNat, Domains DEF BucketIn

\* A bucket that a print says nothing about is described as it was.
LEMMA DescribesKeep ==
  ASSUME NEW s, NEW t, NEW w, NEW k, NEW b, Describes(s, w, k, b),
         Inside(t, w, b) = Inside(s, w, b), Before(t, w, b) = Before(s, w, b),
         \A i \in Ordered(s, w) : t[i] = s[i]
  PROVE  Describes(t, w, k, b)
<1>1. /\ \A i \in Inside(s, w, b) : t[i] = s[i]
      /\ \A i \in Before(s, w, b) : t[i] = s[i]
  BY DEF Inside, Before
<1>2. \A S, m : LastOf(S, m) => m \in S
  BY DEF LastOf
<1>3. \A S, m : FirstOf(S, m) => m \in S
  BY DEF FirstOf
<1> QED  BY <1>1, <1>2, <1>3 DEF Describes

\* The last print of the last bucket is the last of all that are in order.
LEMMA LastOrdered ==
  ASSUME NEW s \in Seq(Quote), NEW w \in Widths, NEW b \in Nat, NEW m,
         \A j \in Priced(s) : BucketIn(s, w, j) <= b,
         LastOf(Inside(s, w, b), m)
  PROVE  LastOf(Ordered(s, w), m)
<1>1. m \in Ordered(s, w) /\ m \in Priced(s) /\ BucketIn(s, w, m) = b /\ m \in Nat
  BY PricedPrints DEF LastOf, Inside, Ordered
<1>2. SUFFICES ASSUME NEW i \in Ordered(s, w), i > m PROVE FALSE
  <2>1. \A i \in Ordered(s, w) : i \in Nat
    BY PricedPrints DEF Ordered
  <2> QED  BY <1>1, <2>1 DEF LastOf
<1>3. i \in Priced(s) /\ i \in Nat /\ BucketIn(s, w, i) \in Nat
  BY PricedPrints DEF Ordered
<1>4. BucketIn(s, w, m) <= BucketIn(s, w, i)
  BY <1>1, <1>2, <1>3 DEF Ordered
<1>5. BucketIn(s, w, i) = b
  BY <1>1, <1>3, <1>4
<1>6. i \in Inside(s, w, b)
  BY <1>5 DEF Inside
<1> QED  BY <1>1, <1>2, <1>3, <1>6 DEF LastOf

\* The open candle, extended by a print of its bucket.
LEMMA DescribesExtended ==
  ASSUME NEW s \in Seq(Quote), NEW e \in Quote, NEW w \in Widths, NEW b \in Nat,
         NEW k \in Candle, Describes(s, w, k, b),
         e.v # NaN, BucketStart(e.at, w) = b,
         \A j \in Priced(s) : BucketIn(s, w, j) <= b
  PROVE  Describes(Append(s, e), w, Extended(k, e.v), b)
<1> DEFINE t == Append(s, e)
           n == Len(s) + 1
           x == Extended(k, e.v)
<1>1. /\ \A i \in Ordered(s, w) : t[i] = s[i] /\ BucketIn(t, w, i) = BucketIn(s, w, i) /\ i < n /\ i \in Nat
      /\ t[n] = e /\ BucketIn(t, w, n) = b /\ n \notin Ordered(s, w) /\ n \in Nat
      /\ Ordered(t, w) = Ordered(s, w) \cup {n}
  BY OrderedAppend DEF Ordered, Priced
<1> HIDE DEF t, n
<1>2. Inside(t, w, b) = Inside(s, w, b) \cup {n}
  BY <1>1 DEF Inside
<1>3. Before(t, w, b) = Before(s, w, b)
  BY <1>1 DEF Before
<1>4. /\ \A i \in Inside(s, w, b) : t[i] = s[i] /\ s[i].v \in Nat /\ i < n /\ i \in Nat
      /\ \A i \in Before(s, w, b) : t[i] = s[i]
  BY <1>1, PricedPrints DEF Inside, Before, Ordered
<1>5. e.v \in Prices /\ e.v \in Nat
  BY Domains DEF Quote
<1>6. /\ k.t = b /\ k.o \in Nat /\ k.h \in Nat /\ k.l \in Nat /\ k.c \in Nat
      /\ x.t = b /\ x.o = k.o /\ x.c = e.v
      /\ x.h = Higher(k.h, e.v) /\ x.l = Lower(k.l, e.v)
  BY Domains DEF Candle, Extended, Describes
<1>7. /\ x.h = k.h \/ x.h = e.v
      /\ x.l = k.l \/ x.l = e.v
      /\ x.h \in Nat /\ x.l \in Nat
      /\ k.h <= x.h /\ e.v <= x.h /\ x.l <= k.l /\ x.l <= e.v
  BY <1>5, <1>6 DEF Higher, Lower
<1> HIDE DEF x
<1>8. LastOf(Inside(t, w, b), n) /\ x.c = t[n].v
  BY <1>1, <1>2, <1>4, <1>6 DEF LastOf
<1>9. \/ Before(t, w, b) = {} /\ \E m : FirstOf(Inside(t, w, b), m) /\ x.o = t[m].v
      \/ \E m : LastOf(Before(t, w, b), m) /\ x.o = t[m].v
  <2>1. CASE Before(s, w, b) = {} /\ \E m : FirstOf(Inside(s, w, b), m) /\ k.o = s[m].v
    <3>1. PICK m : FirstOf(Inside(s, w, b), m) /\ k.o = s[m].v
      BY <2>1
    <3>2. FirstOf(Inside(t, w, b), m)
      BY <1>1, <1>2, <1>4, <3>1 DEF FirstOf
    <3>3. t[m] = s[m]
      BY <1>4, <3>1 DEF FirstOf
    <3> QED  BY <1>3, <1>6, <2>1, <3>1, <3>2, <3>3
  <2>2. CASE \E m : LastOf(Before(s, w, b), m) /\ k.o = s[m].v
    <3>1. PICK m : LastOf(Before(s, w, b), m) /\ k.o = s[m].v
      BY <2>2
    <3>2. t[m] = s[m]
      BY <1>4, <3>1 DEF LastOf
    <3> QED  BY <1>3, <1>6, <3>1, <3>2
  <2> QED  BY <2>1, <2>2 DEF Describes
<1>10. /\ x.h = x.o \/ \E i \in Inside(t, w, b) : x.h = t[i].v
       /\ x.l = x.o \/ \E i \in Inside(t, w, b) : x.l = t[i].v
  BY <1>1, <1>2, <1>4, <1>6, <1>7 DEF Describes
<1>11. /\ x.l <= x.o /\ x.o <= x.h
       /\ \A i \in Inside(t, w, b) : x.l <= t[i].v /\ t[i].v <= x.h
  <2>1. x.l <= x.o /\ x.o <= x.h
    BY <1>6, <1>7 DEF Describes
  <2>2. ASSUME NEW i \in Inside(s, w, b) PROVE x.l <= t[i].v /\ t[i].v <= x.h
    <3>1. k.l <= s[i].v /\ s[i].v <= k.h /\ t[i] = s[i] /\ s[i].v \in Nat
      BY <1>4 DEF Describes
    <3> QED  BY <1>6, <1>7, <3>1
  <2> QED  BY <1>1, <1>2, <1>7, <2>1, <2>2
<1> QED  BY <1>6, <1>8, <1>9, <1>10, <1>11 DEF Describes, t, x

\* The candle of a new bucket, opened at the close of the one before or at its own print.
LEMMA DescribesOpened ==
  ASSUME NEW s \in Seq(Quote), NEW e \in Quote, NEW w \in Widths, NEW o \in Prices,
         e.v # NaN,
         \A j \in Priced(s) : BucketIn(s, w, j) < BucketStart(e.at, w),
         \/ Priced(s) = {} /\ o = e.v
         \/ \E m : LastOf(Ordered(s, w), m) /\ o = s[m].v
  PROVE  Describes(Append(s, e), w, Opened(BucketStart(e.at, w), o, e.v), BucketStart(e.at, w))
<1> DEFINE t == Append(s, e)
           n == Len(s) + 1
           b == BucketStart(e.at, w)
           x == Opened(b, o, e.v)
<1>0. b \in Nat /\ \A j \in Priced(s) : BucketIn(s, w, j) \in Nat
  BY BucketStartNat, PricedPrints, Domains DEF Quote
<1>1. /\ \A i \in Ordered(s, w) : t[i] = s[i] /\ BucketIn(t, w, i) = BucketIn(s, w, i) /\ i < n /\ i \in Nat
      /\ t[n] = e /\ BucketIn(t, w, n) = b /\ n \notin Ordered(s, w) /\ n \in Nat
      /\ Ordered(t, w) = Ordered(s, w) \cup {n}
  <2>1. \A j \in Priced(s) : BucketIn(s, w, j) <= b
    BY <1>0
  <2> HIDE DEF b
  <2> QED  BY <2>1, OrderedAppend DEF Ordered, Priced, b
<1>2. e.v \in Prices /\ e.v \in Nat /\ o \in Nat
  BY Domains DEF Quote
<1>3. \A i \in Ordered(s, w) : BucketIn(s, w, i) < b /\ BucketIn(s, w, i) \in Nat
  BY <1>0 DEF Ordered
<1> HIDE DEF t, n, b
<1>4. Inside(t, w, b) = {n}
  BY <1>0, <1>1, <1>3 DEF Inside
<1>5. Before(t, w, b) = Ordered(s, w)
  BY <1>0, <1>1, <1>3 DEF Before
<1>6. /\ x.t = b /\ x.o = o /\ x.c = e.v
      /\ x.h = o \/ x.h = e.v
      /\ x.l = o \/ x.l = e.v
      /\ x.l <= o /\ o <= x.h /\ x.l <= e.v /\ e.v <= x.h
  BY <1>2 DEF Opened, Higher, Lower
<1> HIDE DEF x
<1>7. LastOf({n}, n) /\ FirstOf({n}, n)
  BY <1>1 DEF LastOf, FirstOf
<1>8. \/ Before(t, w, b) = {} /\ \E m : FirstOf(Inside(t, w, b), m) /\ x.o = t[m].v
      \/ \E m : LastOf(Before(t, w, b), m) /\ x.o = t[m].v
  <2>1. CASE Priced(s) = {} /\ o = e.v
    <3>1. Ordered(s, w) = {}
      BY <2>1 DEF Ordered
    <3> QED  BY <1>1, <1>4, <1>5, <1>6, <1>7, <2>1, <3>1
  <2>2. CASE \E m : LastOf(Ordered(s, w), m) /\ o = s[m].v
    <3>1. PICK m : LastOf(Ordered(s, w), m) /\ o = s[m].v
      BY <2>2
    <3>2. t[m] = s[m]
      BY <1>1, <3>1 DEF LastOf
    <3> QED  BY <1>5, <1>6, <3>1, <3>2
  <2> QED  BY <2>1, <2>2
<1>9. Describes(t, w, x, b)
  BY <1>1, <1>4, <1>6, <1>7, <1>8 DEF Describes
<1> QED  BY <1>9 DEF t, x, b

\* Times of candles are numbers.
LEMMA CandleTimes ==
  ASSUME NEW cs \in Seq(Candle), NEW i \in 1..Len(cs)
  PROVE  cs[i] \in Candle /\ cs[i].t \in Nat
<1>1. cs[i] \in Candle
  OBVIOUS
<1> QED  BY <1>1 DEF Candle

\* Not the neighbours alone: all candles are in order of time.
LEMMA AscendingAll ==
  ASSUME NEW cs \in Seq(Candle), Ascending(cs)
  PROVE  \A i, j \in 1..Len(cs) : i < j => cs[i].t < cs[j].t
<1> SUFFICES ASSUME NEW i \in 1..Len(cs) PROVE \A j \in 1..Len(cs) : i < j => cs[i].t < cs[j].t
  OBVIOUS
<1> DEFINE Bad == {j \in 1..Len(cs) : i < j /\ ~(cs[i].t < cs[j].t)}
<1> SUFFICES ASSUME Bad # {} PROVE FALSE
  OBVIOUS
<1>1. PICK j \in Bad : \A k \in Bad : j <= k
  <2>1. Bad \subseteq Nat
    OBVIOUS
  <2> HIDE DEF Bad
  <2> QED  BY <2>1, LeastNumber
<1>2. j \in 1..Len(cs) /\ i < j /\ ~(cs[i].t < cs[j].t)
  BY <1>1
<1>3. /\ j \in 2..Len(cs) /\ j - 1 \in 1..Len(cs) /\ i <= j - 1
  BY <1>2
<1>4. cs[j - 1].t < cs[j].t
  BY <1>3 DEF Ascending
<1>5. cs[i].t \in Nat /\ cs[j].t \in Nat /\ cs[j - 1].t \in Nat
  BY <1>2, <1>3, CandleTimes
<1>6. i # j - 1
  BY <1>2, <1>4
<1>7. j - 1 \in Bad
  BY <1>2, <1>3, <1>4, <1>5, <1>6
<1>8. j <= j - 1
  BY <1>1, <1>7
<1> QED  BY <1>2, <1>8

\* Dropping the first candle, when there is one too many, leaves the rest of the folding.
LEMMA CappedFolded ==
  ASSUME NEW s \in Seq(Quote), NEW w \in Widths, NEW cs \in Seq(Candle), Ascending(cs),
         Len(cs) <= MaxCandles + 1, Folded(s, w, cs)
  PROVE  Folded(s, w, Capped(cs))
<1>1. CASE Len(cs) <= MaxCandles
  BY <1>1, Domains DEF Capped
<1>2. CASE Len(cs) > MaxCandles
  <2> DEFINE q == SubSeq(cs, 2, Len(cs))
  <2>1. Len(cs) = MaxCandles + 1 /\ Len(cs) \in Nat /\ MaxCandles \in Nat /\ MaxCandles >= 1
    BY <1>2, Domains
  <2>2. Capped(cs) = q
    BY <1>2, <2>1, Domains DEF Capped
  <2>3. Len(q) = MaxCandles /\ \A j \in 1..MaxCandles : q[j] = cs[j + 1] /\ j + 1 \in 1..Len(cs)
    BY <2>1
  <2>4. q # <<>>
    BY <2>1, <2>3
  <2> HIDE DEF q
  <2>5. /\ 1 \in 1..Len(cs) /\ 2 \in 1..Len(cs) /\ 2 \in 2..Len(cs) /\ q[1] = cs[2]
        /\ q[Len(q)] = cs[Len(cs)] /\ cs # <<>>
    BY <2>1, <2>3
  <2>6. cs[1].t < cs[2].t /\ cs[1].t \in Nat /\ cs[2].t \in Nat
    <3>1. cs[2 - 1].t < cs[2].t
      BY <2>5 DEF Ascending
    <3> QED  BY <2>5, <3>1, CandleTimes
  <2>7. \A j \in Priced(s) : q # <<>> /\ BucketIn(s, w, j) <= q[Len(q)].t
    BY <2>4, <2>5 DEF Folded
  <2>8. \A i \in 1..Len(q) : Describes(s, w, q[i], q[i].t)
    BY <2>3 DEF Folded
  <2>9. ASSUME NEW j \in Ordered(s, w)
        PROVE  \/ \E i \in 1..Len(q) : q[i].t = BucketIn(s, w, j)
               \/ BucketIn(s, w, j) < q[1].t /\ Len(q) >= MaxCandles
    <3>1. BucketIn(s, w, j) \in Nat
      BY PricedPrints DEF Ordered
    <3>2. CASE BucketIn(s, w, j) <= cs[1].t
      <4>1. BucketIn(s, w, j) < q[1].t
        BY <2>5, <2>6, <3>1, <3>2
      <4> QED  BY <2>1, <2>3, <4>1
    <3>3. CASE ~(BucketIn(s, w, j) <= cs[1].t)
      <4>1. ~(BucketIn(s, w, j) < cs[1].t) /\ BucketIn(s, w, j) # cs[1].t
        BY <2>6, <3>1, <3>3
      <4>2. PICK i \in 1..Len(cs) : cs[i].t = BucketIn(s, w, j)
        BY <4>1 DEF Folded
      <4>3. i # 1
        BY <4>1, <4>2
      <4>4. i - 1 \in 1..Len(q) /\ (i - 1) + 1 = i
        BY <2>1, <2>3, <4>3
      <4> QED  BY <2>3, <4>2, <4>4
    <3> QED  BY <3>2, <3>3
  <2>10. Folded(s, w, q)
    BY <2>7, <2>8, <2>9 DEF Folded
  <2> QED  BY <2>2, <2>10
<1> QED  BY <1>1, <1>2, Domains

\* Nothing has been folded yet.
LEMMA FoldedEmpty ==
  ASSUME NEW w
  PROVE  Folded(<<>>, w, <<>>)
BY DEF Folded, Priced, Ordered

\* One print: what was the folding of the tape is the folding of the longer one.
LEMMA FoldedKeeps ==
  ASSUME NEW s \in Seq(Quote), NEW w \in Widths, NEW cs \in Seq(Candle), WellFormed(cs, w),
         Len(cs) <= MaxCandles, Folded(s, w, cs), NEW e \in Quote
  PROVE  Folded(Append(s, e), w, FoldTick(cs, e.v, e.at, w))
<1> DEFINE t == Append(s, e)
           n == Len(s) + 1
           b == BucketStart(e.at, w)
           L == Len(cs)
           last == cs[L]
<1>1. /\ b \in Nat /\ e.v \in Prices \cup {NaN} /\ Ascending(cs) /\ L \in Nat /\ L <= MaxCandles
      /\ \A j \in Priced(s) : BucketIn(s, w, j) \in Nat
      /\ \A j \in Ordered(s, w) : j \in Priced(s) /\ BucketIn(s, w, j) \in Nat
  <2>1. e.v \in Prices \cup {NaN} /\ e.at \in Times
    BY DEF Quote
  <2>2. b \in Nat
    BY <2>1, BucketStartNat, Domains
  <2>3. L \in Nat /\ L <= MaxCandles /\ Ascending(cs)
    BY DEF WellFormed
  <2>4. \A j \in Priced(s) : BucketIn(s, w, j) \in Nat
    BY PricedPrints
  <2>5. \A j \in Ordered(s, w) : j \in Priced(s)
    BY DEF Ordered
  <2> QED  BY <2>1, <2>2, <2>3, <2>4, <2>5
<1>2. cs # <<>> => L \in 1..L /\ last \in Candle /\ last.t \in Nat /\ Describes(s, w, last, last.t)
  <2>1. cs # <<>> => L \in 1..L
    OBVIOUS
  <2> QED  BY <2>1, CandleTimes DEF Folded
<1>3. cs # <<>> => \E j \in Priced(s) : BucketIn(s, w, j) = last.t
  BY <1>2 DEF Describes, LastOf, Inside, Ordered
<1>4. cs = <<>> => Priced(s) = {}
  BY DEF Folded
<1>5. \A j \in Priced(s) : BucketIn(s, w, j) <= last.t
  BY DEF Folded
<1>6. /\ \A i \in Priced(s) : t[i] = s[i] /\ BucketIn(t, w, i) = BucketIn(s, w, i) /\ i # n
      /\ BucketIn(t, w, n) = b
      /\ Priced(t) = Priced(s) \cup (IF e.v # NaN THEN {n} ELSE {})
      /\ Ordered(t, w) = Ordered(s, w) \cup
                    (IF e.v # NaN /\ \A j \in Priced(s) : BucketIn(s, w, j) <= b
                     THEN {n} ELSE {})
  BY OrderedAppend DEF Priced
<1> HIDE DEF t, n, b, L
<1>7. ASSUME Ordered(t, w) = Ordered(s, w),
             e.v # NaN => cs # <<>> /\ b <= last.t
      PROVE  Folded(t, w, cs)
  <2>1. \A bb : Inside(t, w, bb) = Inside(s, w, bb) /\ Before(t, w, bb) = Before(s, w, bb)
    BY <1>1, <1>6, <1>7 DEF Inside, Before
  <2>2. \A i \in Ordered(s, w) : t[i] = s[i] /\ BucketIn(t, w, i) = BucketIn(s, w, i)
    BY <1>1, <1>6
  <2>3. \A i \in 1..Len(cs) : Describes(t, w, cs[i], cs[i].t)
    BY <2>1, <2>2, DescribesKeep DEF Folded
  <2>4. \A j \in Priced(t) : cs # <<>> /\ BucketIn(t, w, j) <= cs[Len(cs)].t
    <3> SUFFICES ASSUME NEW j \in Priced(t) PROVE cs # <<>> /\ BucketIn(t, w, j) <= cs[Len(cs)].t
      OBVIOUS
    <3>1. CASE j \in Priced(s)
      BY <1>6, <3>1 DEF Folded
    <3>2. CASE j = n /\ e.v # NaN
      BY <1>6, <1>7, <3>2 DEF L
    <3> QED  BY <1>6, <3>1, <3>2
  <2>5. \A j \in Ordered(t, w) :
           \/ \E i \in 1..Len(cs) : cs[i].t = BucketIn(t, w, j)
           \/ BucketIn(t, w, j) < cs[1].t /\ Len(cs) >= MaxCandles
    BY <1>7, <2>2 DEF Folded
  <2> QED  BY <2>3, <2>4, <2>5 DEF Folded
<1>8. CASE e.v = NaN
  <2>1. FoldTick(cs, e.v, e.at, w) = cs
    BY <1>8 DEF FoldTick
  <2>2. Ordered(t, w) = Ordered(s, w)
    BY <1>6, <1>8
  <2> QED  BY <1>7, <1>8, <2>1, <2>2 DEF t
<1>9. CASE e.v # NaN /\ cs # <<>> /\ last.t > b
  <2>1. last.t # b /\ b <= last.t
    BY <1>1, <1>2, <1>9
  <2>2. FoldTick(cs, e.v, e.at, w) = cs
    BY <1>9, <2>1 DEF FoldTick, b, L
  <2>3. Ordered(t, w) = Ordered(s, w)
    BY <1>1, <1>2, <1>3, <1>6, <1>9
  <2> QED  BY <1>7, <1>9, <2>1, <2>2, <2>3 DEF t
\* A candle that is written, the last one of q.
<1>10. ASSUME NEW q \in Seq(Candle), NEW k \in Candle, NEW m \in Nat,
              Len(q) = m + 1, q[m + 1] = k, k.t = b, Ascending(q), Len(q) <= MaxCandles + 1,
              m <= L, L <= m + 1, e.v # NaN,
              cs # <<>> => last.t <= b,
              \A i \in 1..m : q[i] = cs[i] /\ q[i].t < b,
              L = m + 1 => last.t = b,
              Describes(t, w, k, b)
       PROVE  Folded(t, w, Capped(q))
  <2>1. Ordered(t, w) = Ordered(s, w) \cup {n}
    <3>1. \A j \in Priced(s) : BucketIn(s, w, j) <= b
      BY <1>1, <1>2, <1>4, <1>5, <1>10
    <3> QED  BY <1>6, <1>10, <3>1
  <2>2. \A i \in Ordered(s, w) : t[i] = s[i] /\ BucketIn(t, w, i) = BucketIn(s, w, i)
    BY <1>1, <1>6
  <2>3. ASSUME NEW i \in 1..m
        PROVE  Describes(t, w, q[i], q[i].t)
    <3>1. i \in 1..Len(cs) /\ q[i] = cs[i]
      BY <1>1, <1>10 DEF L
    <3>2. cs[i].t < b /\ cs[i].t \in Nat
      BY <1>10, <3>1, CandleTimes
    <3>3. Inside(t, w, cs[i].t) = Inside(s, w, cs[i].t)
      BY <1>1, <1>6, <2>1, <2>2, <3>2 DEF Inside
    <3>4. Before(t, w, cs[i].t) = Before(s, w, cs[i].t)
      BY <1>1, <1>6, <2>1, <2>2, <3>2 DEF Before
    <3>5. Describes(s, w, cs[i], cs[i].t)
      BY <3>1 DEF Folded
    <3> QED  BY <2>2, <3>1, <3>3, <3>4, <3>5, DescribesKeep
  <2>4. q # <<>> /\ q[Len(q)] = k /\ \A i \in 1..Len(q) : i \in 1..m \/ i = m + 1
    BY <1>10
  <2>5. \A i \in 1..Len(q) : Describes(t, w, q[i], q[i].t)
    BY <1>10, <2>3, <2>4
  <2>6. \A j \in Priced(t) : q # <<>> /\ BucketIn(t, w, j) <= q[Len(q)].t
    <3> SUFFICES ASSUME NEW j \in Priced(t) PROVE BucketIn(t, w, j) <= b
      BY <1>10, <2>4
    <3>1. CASE j \in Priced(s)
      <4>1. cs # <<>> /\ BucketIn(s, w, j) <= last.t
        BY <1>4, <1>5, <3>1
      <4> QED  BY <1>1, <1>2, <1>6, <1>10, <3>1, <4>1
    <3>2. CASE j = n
      BY <1>1, <1>6, <3>2
    <3> QED  BY <1>6, <3>1, <3>2
  <2>7. ASSUME NEW j \in Ordered(t, w)
        PROVE  \/ \E i \in 1..Len(q) : q[i].t = BucketIn(t, w, j)
               \/ BucketIn(t, w, j) < q[1].t /\ Len(q) >= MaxCandles
    <3>1. m + 1 \in 1..Len(q)
      BY <1>10
    <3>2. CASE BucketIn(t, w, j) = b
      BY <1>10, <3>1, <3>2
    <3>3. CASE BucketIn(t, w, j) # b
      <4>1. j \in Ordered(s, w) /\ BucketIn(t, w, j) = BucketIn(s, w, j)
        BY <1>6, <2>1, <2>2, <3>3
      <4>2. CASE \E i \in 1..Len(cs) : cs[i].t = BucketIn(s, w, j)
        <5>1. PICK i \in 1..Len(cs) : cs[i].t = BucketIn(s, w, j)
          BY <4>2
        <5>2. i # m + 1
          BY <1>1, <1>10, <3>3, <4>1, <5>1 DEF L
        <5>3. i \in 1..m
          BY <1>1, <1>10, <5>1, <5>2 DEF L
        <5>4. i \in 1..Len(q) /\ q[i].t = BucketIn(t, w, j)
          BY <1>10, <4>1, <5>1, <5>3
        <5> QED  BY <5>4
      <4>3. CASE BucketIn(s, w, j) < cs[1].t /\ Len(cs) >= MaxCandles
        <5>1. Len(q) >= MaxCandles /\ L >= 1
          BY <1>1, <1>10, <4>3, Domains DEF L
        <5>2. CASE m >= 1
          <6>1. q[1] = cs[1]
            BY <1>10, <5>2
          <6> QED  BY <4>1, <4>3, <5>1, <6>1
        <5>3. CASE m = 0
          <6>1. L = 1 /\ cs[1].t = b /\ q[1].t = b
            BY <1>1, <1>10, <5>1, <5>3 DEF L
          <6> QED  BY <4>1, <4>3, <5>1, <6>1
        <5> QED  BY <5>2, <5>3
      <4> QED  BY <4>1, <4>2, <4>3 DEF Folded
    <3> QED  BY <3>2, <3>3
  <2>8. Folded(t, w, q)
    BY <2>5, <2>6, <2>7 DEF Folded
  <2>9. t \in Seq(Quote)
    BY DEF t
  <2> QED  BY <1>10, <2>8, <2>9, CappedFolded
<1>11. CASE e.v # NaN /\ cs = <<>>
  <2> DEFINE k == Opened(b, e.v, e.v)
             q == <<k>>
  <2>1. e.v \in Prices
    BY <1>1, <1>11
  <2>2. k \in Candle /\ k.t = b
    BY <1>1, <2>1, OpenedCandle
  <2>3. Describes(t, w, k, b)
    BY <1>4, <1>11, <2>1, DescribesOpened DEF t, b
  <2>4. FoldTick(cs, e.v, e.at, w) = Capped(q)
    BY <1>11 DEF FoldTick, b
  <2> HIDE DEF k
  <2>5. q \in Seq(Candle) /\ Len(q) = 0 + 1 /\ q[0 + 1] = k /\ Ascending(q) /\ Len(q) <= MaxCandles + 1
    BY <2>2, Domains DEF Ascending
  <2>6. /\ L = 0 /\ 0 <= L /\ L <= 0 + 1 /\ L # 0 + 1 /\ 0 \in Nat
        /\ \A i \in 1..0 : q[i] = cs[i] /\ q[i].t < b
    BY <1>11 DEF L
  <2> HIDE DEF q
  <2>7. Folded(t, w, Capped(q))
    BY <1>10, <1>11, <2>2, <2>3, <2>5, <2>6
  <2> QED  BY <2>4, <2>7 DEF t
<1>12. CASE e.v # NaN /\ cs # <<>> /\ last.t = b
  <2> DEFINE k == Extended(last, e.v)
             q == [cs EXCEPT ![Len(cs)] = k]
  <2>1. e.v \in Prices /\ last \in Candle /\ L \in 1..L /\ L \in Nat /\ L >= 1
    BY <1>1, <1>2, <1>12
  <2>2. k \in Candle /\ k.t = b
    <3>1. last.l <= last.o /\ last.o <= last.h /\ last.l <= last.c /\ last.c <= last.h
      BY <2>1 DEF WellFormed, Continuous, L
    <3> QED  BY <1>12, <2>1, <3>1, ExtendedCandle
  <2>3. Describes(t, w, k, b)
    <3>1. Describes(s, w, last, b) /\ \A j \in Priced(s) : BucketIn(s, w, j) <= b
      BY <1>2, <1>5, <1>12
    <3> HIDE DEF last
    <3> QED  BY <1>1, <1>12, <2>1, <3>1, DescribesExtended DEF t, b
  <2>4. FoldTick(cs, e.v, e.at, w) = Capped(q)
    BY <1>12 DEF FoldTick, b, L
  <2> HIDE DEF k
  <2>5. /\ q \in Seq(Candle) /\ Len(q) = L /\ q[L] = k
        /\ \A i \in 1..(L - 1) : q[i] = cs[i] /\ i \in 1..L
    BY <2>1, <2>2 DEF L
  <2> HIDE DEF q
  <2>6. \A i \in 1..L : q[i].t = cs[i].t
    BY <1>12, <2>1, <2>2, <2>5
  <2>7. Ascending(q)
    BY <1>1, <2>5, <2>6 DEF Ascending, L
  <2>8. \A i \in 1..(L - 1) : q[i].t < b
    <3>1. \A i \in 1..(L - 1) : i \in 1..Len(cs) /\ L \in 1..Len(cs) /\ i < L
      BY <2>1 DEF L
    <3>2. \A i \in 1..(L - 1) : cs[i].t < cs[L].t
      BY <1>1, <3>1, AscendingAll
    <3> QED  BY <1>12, <2>5, <3>2
  <2>9. /\ L - 1 \in Nat /\ (L - 1) + 1 = L /\ L - 1 <= L /\ L <= (L - 1) + 1
        /\ Len(q) <= MaxCandles + 1 /\ Len(q) = (L - 1) + 1 /\ q[(L - 1) + 1] = k
        /\ \A i \in 1..(L - 1) : q[i] = cs[i] /\ q[i].t < b
    BY <1>1, <2>1, <2>5, <2>8, Domains
  <2>10. cs # <<>> => last.t <= b
    BY <1>1, <1>12
  <2>11. Folded(t, w, Capped(q))
    <3> HIDE DEF last
    <3> QED  BY <1>10, <1>12, <2>2, <2>3, <2>5, <2>7, <2>9, <2>10
  <2> QED  BY <2>4, <2>11 DEF t
<1>13. CASE e.v # NaN /\ cs # <<>> /\ last.t < b
  <2> DEFINE k == Opened(b, last.c, e.v)
             q == Append(cs, k)
  <2>1. e.v \in Prices /\ last \in Candle /\ L \in 1..L /\ L \in Nat /\ L >= 1 /\ last.c \in Prices
    BY <1>1, <1>2, <1>13 DEF Candle
  <2>2. k \in Candle /\ k.t = b
    <3> HIDE DEF last
    <3> QED  BY <1>1, <2>1, OpenedCandle
  <2>3. Describes(t, w, k, b)
    <3>1. PICK m : LastOf(Inside(s, w, last.t), m) /\ last.c = s[m].v
      BY <1>2, <1>13 DEF Describes
    <3>2. LastOf(Ordered(s, w), m)
      BY <1>2, <1>5, <1>13, <3>1, LastOrdered
    <3>3. \A j \in Priced(s) : BucketIn(s, w, j) < b
      BY <1>1, <1>2, <1>5, <1>13
    <3>4. \E mm : LastOf(Ordered(s, w), mm) /\ last.c = s[mm].v
      BY <3>1, <3>2
    <3> HIDE DEF last
    <3> QED  BY <1>13, <2>1, <3>3, <3>4, DescribesOpened DEF t, b
  <2>4. FoldTick(cs, e.v, e.at, w) = Capped(q)
    <3>1. ~(last.t = b) /\ ~(last.t > b)
      BY <1>1, <1>2, <1>13
    <3> QED  BY <1>13, <3>1 DEF FoldTick, b, L
  <2> HIDE DEF k
  <2>5. /\ q \in Seq(Candle) /\ Len(q) = L + 1 /\ q[L + 1] = k
        /\ \A i \in 1..L : q[i] = cs[i]
    BY <2>1, <2>2 DEF L
  <2> HIDE DEF q
  <2>6. \A i \in 1..L : cs[i].t < b
    <3>1. \A i \in 1..L : i # L => cs[i].t < cs[L].t
      <4>1. \A i \in 1..L : i \in 1..Len(cs) /\ L \in 1..Len(cs) /\ (i # L => i < L)
        BY <2>1 DEF L
      <4> QED  BY <1>1, <4>1, AscendingAll
    <3>2. \A i \in 1..L : cs[i].t \in Nat
      BY CandleTimes DEF L
    <3> QED  BY <1>1, <1>2, <1>13, <3>1, <3>2
  <2>7. Ascending(q)
    <3> SUFFICES ASSUME NEW i \in 2..Len(q) PROVE q[i - 1].t < q[i].t
      BY DEF Ascending
    <3>1. CASE i = L + 1
      <4>1. i - 1 \in 1..L /\ q[i - 1] = cs[i - 1] /\ q[i] = k
        BY <2>1, <2>5, <3>1
      <4> QED  BY <2>2, <2>6, <4>1
    <3>2. CASE i # L + 1
      <4>1. i - 1 \in 1..L /\ i \in 1..L /\ i \in 2..Len(cs)
        BY <2>1, <2>5, <3>2 DEF L
      <4>2. q[i - 1] = cs[i - 1] /\ q[i] = cs[i]
        BY <2>5, <4>1
      <4> QED  BY <1>1, <4>1, <4>2 DEF Ascending
    <3> QED  BY <3>1, <3>2
  <2>8. /\ \A i \in 1..L : q[i] = cs[i] /\ q[i].t < b
        /\ Len(q) <= MaxCandles + 1 /\ L <= L /\ L <= L + 1 /\ L # L + 1
    BY <1>1, <2>5, <2>6, Domains
  <2>9. cs # <<>> => last.t <= b
    BY <1>1, <1>2, <1>13
  <2>10. Folded(t, w, Capped(q))
    BY <1>10, <1>13, <2>1, <2>2, <2>3, <2>5, <2>7, <2>8, <2>9
  <2> QED  BY <2>4, <2>10 DEF t
<1> QED  BY <1>1, <1>2, <1>8, <1>9, <1>11, <1>12, <1>13

\* The extremes of a set of numbers.
LEMMA MaxIs ==
  ASSUME NEW S \in SUBSET Nat, NEW m, LastOf(S, m)
  PROVE  Max(S) = m
<1>1. m \in S /\ \A i \in S : m >= i
  BY DEF LastOf
<1>2. Max(S) \in S /\ \A i \in S : Max(S) >= i
  BY <1>1 DEF Max
<1>3. m \in Nat /\ Max(S) \in Nat
  BY <1>1, <1>2
<1>4. m <= Max(S) /\ Max(S) <= m
  BY <1>1, <1>2, <1>3
<1> QED  BY <1>3, <1>4

\* The least one.
LEMMA MinIs ==
  ASSUME NEW S \in SUBSET Nat, NEW m, FirstOf(S, m)
  PROVE  Min(S) = m
<1>1. m \in S /\ \A i \in S : m <= i
  BY DEF FirstOf
<1>2. Min(S) \in S /\ \A i \in S : Min(S) <= i
  BY <1>1 DEF Min
<1>3. m \in Nat /\ Min(S) \in Nat
  BY <1>1, <1>2
<1>4. m <= Min(S) /\ Min(S) <= m
  BY <1>1, <1>2, <1>3
<1> QED  BY <1>3, <1>4

\* Candles after the k-th: as many as their buckets.
LEMMA BucketsOfCandles ==
  ASSUME NEW cs \in Seq(Candle), Ascending(cs), NEW k \in 0..Len(cs)
  PROVE  LET T == {cs[j].t : j \in (k + 1)..Len(cs)}
         IN  IsFiniteSet(T) /\ Cardinality(T) = Len(cs) - k
<1> DEFINE D == (k + 1)..Len(cs)
           T == {cs[j].t : j \in D}
           f == [j \in D |-> cs[j].t]
<1>1. Len(cs) \in Nat /\ k \in Nat /\ k <= Len(cs) /\ \A j \in D : j \in 1..Len(cs)
  OBVIOUS
<1>2. IsFiniteSet(D) /\ Cardinality(D) = Len(cs) - k
  <2>1. k + 1 \in Int /\ Len(cs) \in Int
    BY <1>1
  <2>2. IsFiniteSet(D) /\ Cardinality(D) = IF k + 1 > Len(cs) THEN 0 ELSE Len(cs) - (k + 1) + 1
    BY <2>1, FS_Interval
  <2> QED  BY <1>1, <2>2
<1>3. \A i, j \in D : i # j => cs[i].t # cs[j].t
  <2> SUFFICES ASSUME NEW i \in D, NEW j \in D, i # j PROVE cs[i].t # cs[j].t
    OBVIOUS
  <2>1. i \in 1..Len(cs) /\ j \in 1..Len(cs) /\ (i < j \/ j < i)
    BY <1>1
  <2>2. cs[i].t \in Nat /\ cs[j].t \in Nat /\ (cs[i].t < cs[j].t \/ cs[j].t < cs[i].t)
    BY <2>1, AscendingAll, CandleTimes
  <2> QED  BY <2>2
<1> HIDE DEF D
<1>4. f \in Surjection(D, T)
  BY DEF Surjection
<1>5. f \in Injection(D, T)
  BY <1>3 DEF Injection, IsInjective
<1> HIDE DEF f, T
<1>6. IsFiniteSet(T) /\ Cardinality(T) = Cardinality(D)
  BY <1>2, <1>4, <1>5, FS_Surjection
<1> QED  BY <1>2, <1>6 DEF T, D

\* A candle that is its bucket's is the reference's.
LEMMA DescribedIs ==
  ASSUME NEW b \in Nat, tape \in Seq(Quote), width \in Widths, InOrder = Ordered(tape, width),
         NEW k \in Candle, Describes(tape, width, k, b)
  PROVE  k = CandleOf(b)
<1> DEFINE in     == Inside(tape, width, b)
           before == Before(tape, width, b)
           open   == IF before = {} THEN tape[Min(in)].v ELSE tape[Max(before)].v
           range  == {open} \cup {tape[i].v : i \in in}
<1>1. in = {i \in InOrder : BucketOf(i) = b} /\ before = {i \in InOrder : BucketOf(i) < b}
  BY DEF Inside, Before, BucketOf, BucketIn
<1>2. CandleOf(b) = [t |-> b, o |-> open, c |-> tape[Max(in)].v, h |-> Max(range), l |-> Min(range)]
  BY <1>1 DEF CandleOf
<1>3. /\ in \subseteq Nat /\ before \subseteq Nat
      /\ \A i \in in \cup before : tape[i].v \in Nat
  BY PricedPrints DEF Inside, Before, Ordered
<1>4. tape[Max(in)].v = k.c
  BY <1>3, MaxIs DEF Describes
<1>5. open = k.o
  <2>1. CASE before = {} /\ \E m : FirstOf(in, m) /\ k.o = tape[m].v
    BY <1>3, <2>1, MinIs
  <2>2. CASE \E m : LastOf(before, m) /\ k.o = tape[m].v
    <3>1. PICK m : LastOf(before, m) /\ k.o = tape[m].v
      BY <2>2
    <3>2. before # {}
      BY <3>1 DEF LastOf
    <3> QED  BY <1>3, <3>1, <3>2, MaxIs
  <2> QED  BY <2>1, <2>2 DEF Describes
<1>6. k.o \in Nat /\ k.h \in Nat /\ k.l \in Nat
  BY Domains DEF Candle
<1>7. /\ k.h = k.o \/ \E i \in in : k.h = tape[i].v
      /\ k.l = k.o \/ \E i \in in : k.l = tape[i].v
      /\ k.l <= k.o /\ k.o <= k.h
      /\ \A i \in in : k.l <= tape[i].v /\ tape[i].v <= k.h
      /\ k.t = b
  BY DEF Describes
<1> HIDE DEF in, before, open
<1>8. range \in SUBSET Nat
  BY <1>3, <1>5, <1>6
<1>9. LastOf(range, k.h) /\ FirstOf(range, k.l)
  BY <1>5, <1>6, <1>7 DEF LastOf, FirstOf
<1> HIDE DEF range
<1>10. Max(range) = k.h /\ Min(range) = k.l
  BY <1>8, <1>9, MaxIs, MinIs
<1>11. k = [t |-> k.t, o |-> k.o, h |-> k.h, l |-> k.l, c |-> k.c]
  BY DEF Candle
<1> QED  BY <1>2, <1>4, <1>5, <1>7, <1>10, <1>11

\* What is left of folding the tape is the recent candles of the tape.
LEMMA FoldedMatches ==
  ASSUME CandleInv, Folded(tape, width, series)
  PROVE  MatchesTape
<1> DEFINE L == Len(series)
           Greater(b) == {d \in Buckets : d > b}
           From(k) == {series[j].t : j \in (k + 1)..L}
<1>1. /\ tape \in Seq(Quote) /\ width \in Widths /\ series \in Seq(Candle) /\ L \in Nat
      /\ L <= MaxCandles /\ Ascending(series)
  BY DEF CandleInv, TypeOK, Quote, WellFormed
<1>2. InOrder = Ordered(tape, width)
  <2>1. DOMAIN tape = 1..Len(tape) /\ Len(tape) \in Nat
    BY <1>1
  <2>2. ASSUME NEW i \in DOMAIN tape
        PROVE  i \in InOrder <=> i \in Ordered(tape, width)
    <3>1. \A j : j \in 1..(i - 1) <=> j \in DOMAIN tape /\ j < i
      BY <2>1
    <3> QED  BY <3>1 DEF InOrder, Ordered, Priced, BucketOf, BucketIn
  <2>3. \A i : i \in InOrder => i \in DOMAIN tape
    BY DEF InOrder
  <2>4. \A i : i \in Ordered(tape, width) => i \in DOMAIN tape
    BY DEF Ordered, Priced
  <2> QED  BY <2>2, <2>3, <2>4
<1>3. Buckets = {BucketIn(tape, width, i) : i \in Ordered(tape, width)} /\ Buckets \subseteq Nat
  <2>1. Buckets = {BucketIn(tape, width, i) : i \in Ordered(tape, width)}
    BY <1>2 DEF Buckets, BucketOf, BucketIn
  <2>2. \A i \in Ordered(tape, width) : BucketIn(tape, width, i) \in Nat
    BY <1>1, PricedPrints DEF Ordered
  <2> QED  BY <2>1, <2>2
<1>4. IsFiniteSet(Buckets)
  <2>1. Len(tape) \in Nat /\ 1 \in Int /\ DOMAIN tape = 1..Len(tape)
    BY <1>1
  <2>2. IsFiniteSet(DOMAIN tape)
    BY <2>1, FS_Interval
  <2>3. Ordered(tape, width) \in SUBSET DOMAIN tape
    BY DEF Ordered, Priced
  <2>4. IsFiniteSet(Ordered(tape, width))
    BY <2>2, <2>3, FS_Subset
  <2> DEFINE f == [i \in Ordered(tape, width) |-> BucketIn(tape, width, i)]
  <2>5. f \in Surjection(Ordered(tape, width), Buckets)
    BY <1>3 DEF Surjection
  <2> HIDE DEF f
  <2> QED  BY <2>4, <2>5, FS_Surjection
<1>5. \A i \in 1..L : /\ series[i] \in Candle /\ series[i].t \in Nat
                      /\ Describes(tape, width, series[i], series[i].t)
  BY <1>1, CandleTimes DEF Folded
<1>6. \A i \in 1..L : series[i].t \in Buckets
  <2> SUFFICES ASSUME NEW i \in 1..L PROVE series[i].t \in Buckets
    OBVIOUS
  <2>1. PICK m : LastOf(Inside(tape, width, series[i].t), m)
    BY <1>5 DEF Describes
  <2> QED  BY <1>3, <2>1 DEF LastOf, Inside
<1>7. \A k \in 0..L : IsFiniteSet(From(k)) /\ Cardinality(From(k)) = L - k
  BY <1>1, BucketsOfCandles
<1>8. Cardinality(From(0)) = L
  <2>1. 0 \in 0..L /\ L - 0 = L
    BY <1>1
  <2> HIDE DEF From
  <2> QED  BY <1>7, <2>1
<1>9. \A b : IsFiniteSet(Greater(b)) /\ Cardinality(Greater(b)) \in Nat
  <2> SUFFICES ASSUME NEW b PROVE IsFiniteSet(Greater(b)) /\ Cardinality(Greater(b)) \in Nat
    OBVIOUS
  <2>1. Greater(b) \in SUBSET Buckets
    OBVIOUS
  <2> HIDE DEF Greater
  <2> QED  BY <1>4, <2>1, FS_Subset, FS_CardinalityType
<1>10. \A i, j \in 1..L : i < j => series[i].t < series[j].t
  BY <1>1, AscendingAll
<1>11. \A b \in Buckets : \/ \E i \in 1..L : series[i].t = b
                          \/ b < series[1].t /\ L >= MaxCandles
  BY <1>3 DEF Folded
<1>12. ASSUME NEW i \in 1..L PROVE series[i].t \in Recent
  <2>1. Greater(series[i].t) \in SUBSET From(i)
    <3> SUFFICES ASSUME NEW d \in Buckets, d > series[i].t PROVE d \in From(i)
      OBVIOUS
    <3>1. 1 \in 1..L /\ (1 < i \/ 1 = i) /\ d \in Nat /\ L \in Nat
      <4>1. d \in Nat
        BY <1>3
      <4> QED  BY <1>1, <4>1
    <3>2. series[1].t <= series[i].t
      BY <1>5, <1>10, <3>1
    <3>3. ~(d < series[1].t)
      BY <1>5, <3>1, <3>2
    <3>4. PICK j \in 1..L : series[j].t = d
      BY <1>11, <3>3
    <3>5. i < j
      <4>1. ~(j < i) /\ j # i
        BY <1>5, <1>10, <3>4
      <4> QED  BY <4>1
    <3>6. j \in (i + 1)..L
      BY <3>1, <3>5
    <3> QED  BY <3>4, <3>6
  <2>2. i \in 0..L /\ L - i < MaxCandles /\ L - i \in Nat /\ MaxCandles \in Nat
    BY <1>1, Domains
  <2>3. IsFiniteSet(From(i)) /\ Cardinality(From(i)) = L - i
    BY <1>7, <2>2
  <2>4. Cardinality(Greater(series[i].t)) \in Nat
    BY <1>9
  <2>5. series[i].t \in Buckets
    BY <1>6
  <2> HIDE DEF Greater, From
  <2>6. Cardinality(Greater(series[i].t)) <= L - i
    BY <2>1, <2>3, FS_Subset
  <2>7. Cardinality(Greater(series[i].t)) < MaxCandles
    BY <2>2, <2>4, <2>6
  <2> QED  BY <2>5, <2>7 DEF Recent, Greater
<1>13. ASSUME NEW b \in Recent PROVE \E i \in 1..L : series[i].t = b
  <2>1. b \in Buckets /\ Cardinality(Greater(b)) < MaxCandles
    BY DEF Recent
  <2>2. SUFFICES ASSUME b < series[1].t, L >= MaxCandles PROVE FALSE
    BY <1>11, <2>1
  <2>3. From(0) \in SUBSET Greater(b)
    <3> SUFFICES ASSUME NEW j \in 1..L PROVE series[j].t \in Buckets /\ series[j].t > b
      OBVIOUS
    <3>1. 1 \in 1..L /\ (1 < j \/ 1 = j) /\ b \in Nat
      BY <1>1, <1>3, <2>1
    <3> QED  BY <1>5, <1>6, <1>10, <2>2, <3>1
  <2>4. IsFiniteSet(Greater(b)) /\ Cardinality(Greater(b)) \in Nat
    BY <1>9
  <2>5. Cardinality(From(0)) = L
    BY <1>8
  <2> HIDE DEF Greater, From
  <2>6. L <= Cardinality(Greater(b))
    BY <2>3, <2>4, <2>5, FS_Subset
  <2> QED  BY <1>1, <2>1, <2>2, <2>4, <2>6, Domains
<1>14. Recent = From(0)
  <2>1. From(0) = {series[j].t : j \in 1..L}
    OBVIOUS
  <2> HIDE DEF From
  <2> QED  BY <1>12, <1>13, <2>1
<1>15. L = Cardinality(Recent)
  BY <1>14, <1>8
<1>16. \A i \in 1..L : series[i] = CandleOf(series[i].t)
  BY <1>1, <1>2, <1>5, DescribedIs
<1>17. {series[i] : i \in 1..L} = {CandleOf(b) : b \in Recent}
  BY <1>12, <1>13, <1>16
<1> QED  BY <1>15, <1>17 DEF MatchesTape

\* Folding print by print, as they come, gives the candles that the whole tape gives: the
\* reference says which prints count, where each bucket opens and closes and how far it
\* ranges, and the cap leaves the most recent buckets (foldTick and useLiveCandles).
THEOREM SeriesMatchesTape == Spec => []MatchesTape
<1> DEFINE FoldedInv == Folded(tape, width, series)
<1>1. Init => FoldedInv
  BY FoldedEmpty DEF Init
<1>2. CandleInv /\ FoldedInv /\ [Next]_vars => FoldedInv'
  <2> SUFFICES ASSUME CandleInv, FoldedInv, [Next]_vars PROVE FoldedInv'
    OBVIOUS
  <2>1. CASE UNCHANGED <<width, series, tape>>
    BY <2>1
  <2>2. ASSUME NEW w \in Widths, NEW price \in Prices, Seed(w, price), width' = w
        PROVE  FoldedInv'
    <3> DEFINE e == SeedPrint(price)
    <3>1. e \in Quote /\ e.v = price /\ e.at = clock + skew
      <4>1. clock + skew \in Times
        BY CandleAssumption DEF CandleInv, TypeOK, Times
      <4> QED  BY <4>1 DEF SeedPrint, Quote
    <3>2. /\ <<>> \in Seq(Quote) /\ <<>> \in Seq(Candle) /\ Len(<<>>) <= MaxCandles
          /\ WellFormed(<<>>, w) /\ Folded(<<>>, w, <<>>)
      BY EmptyWellFormed, FoldedEmpty, Domains
    <3>3. tape' = Append(<<>>, e) /\ series' = FoldTick(<<>>, e.v, e.at, w)
      BY <2>2, <3>1 DEF Seed
    <3> HIDE DEF e
    <3>4. Folded(Append(<<>>, e), w, FoldTick(<<>>, e.v, e.at, w))
      BY <3>1, <3>2, FoldedKeeps
    <3> QED  BY <2>2, <3>3, <3>4
  <2>3. ASSUME NEW c \in Coins, NEW w \in Widths, NEW p \in Prices \cup {NaN}, Watch(c, w, p)
        PROVE  FoldedInv'
    <3>1. CASE p = NaN
      BY <2>3, <3>1, FoldedEmpty DEF Watch
    <3>2. CASE p # NaN
      BY <2>2, <2>3, <3>2 DEF Watch
    <3> QED  BY <3>1, <3>2
  <2>4. ASSUME NEW p \in Prices, SeedPriceChanges(p)
        PROVE  FoldedInv'
    BY <2>2, <2>4 DEF SeedPriceChanges, CandleInv, TypeOK
  <2>5. ASSUME NEW v \in Prices \cup {NaN}, NEW at \in Times, OnPrice(v, at)
        PROVE  FoldedInv'
    <3> DEFINE e == [v |-> v, at |-> at]
    <3>1. e \in Quote /\ e.v = v /\ e.at = at
      BY CandleAssumption DEF Quote, Times
    <3>2. tape' = Append(tape, e) /\ series' = FoldTick(series, e.v, e.at, width) /\ width' = width
      BY <2>5 DEF OnPrice
    <3> HIDE DEF e
    <3>3. tape \in Seq(Quote) /\ width \in Widths /\ series \in Seq(Candle)
      BY DEF CandleInv, TypeOK, Quote
    <3> QED  BY <3>1, <3>2, <3>3, FoldedKeeps DEF CandleInv
  <2> QED  BY <2>1, <2>3, <2>4, <2>5 DEF Next, Tick, vars
<1>3. CandleInv /\ FoldedInv => MatchesTape
  BY FoldedMatches
<1> QED  BY <1>1, <1>2, <1>3, CandleInvariant, PTL DEF Spec
=============================================================================
