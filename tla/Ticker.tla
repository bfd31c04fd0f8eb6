------------------------------- MODULE Ticker -------------------------------
(***************************************************************************)
(* The realtime ticker (RealtimeChart.tsx), which plots the prints of one  *)
(* coin and currency from a source of the user's choice, and the header's  *)
(* measured tick rate (useTickRate.ts).                                    *)
(*                                                                         *)
(* A print is stamped by its source: the backend and the exchange have     *)
(* clocks of their own, "live" merges both, and an exchange occasionally   *)
(* delivers an older print (candles.ts:37), so any stamp may follow any.   *)
(* A unit of the browser's time is the 500 ms of useTickRate's timer,      *)
(* which may fire late.                                                    *)
(***************************************************************************)
EXTENDS Naturals, Sequences, SequencesExt, Filter

CONSTANTS
    Pairs,       \* coins of the selector; the first one known is preselected
    MaxTicks,    \* MAX_TICKS
    WindowUnits, \* windowMs, in units
    MaxLate,     \* bound: units between two runs of the rate timer
    MaxPrints,   \* bound: prints
    MaxStamp     \* bound: time stamps

ASSUME TickerAssumption ==
    /\ Pairs # {} /\ MaxTicks \in Nat \ {0} /\ WindowUnits \in Nat \ {0}
    /\ MaxLate \in Nat \ {0} /\ MaxPrints \in Nat /\ MaxStamp \in Nat \ {0}

VARIABLES
    watch,     \* what is plotted: coin ("" before the registry lands), currency, source
    ticks,     \* the buffer
    headline,  \* last, 0 for null
    arrow,     \* dir
    before,    \* prevRef, 0 for null
    printed,   \* prints so far; a print is its number
    taken,     \* history: the prints the listener took since the plot started
    stamps,    \* useTickRate's stamps, as ages in units
    tickRate,  \* its rate, as the number of prices in the window
    late,      \* units since its timer last ran
    quiet      \* history: units since the last print, at most QuietCap

tickerVars == <<watch, ticks, headline, arrow, before, printed, taken, stamps,
                tickRate, late, quiet>>
rateVars   == <<stamps, tickRate, late, quiet>>

Sources    == {"live", "backend", "binance"}
Feeds      == {"backend", "binance"}
TickerCurs == {"USD", "EUR"}
QuietCap   == WindowUnits + MaxLate + 1
Price(n)   == (n % 2) + 1

TickerInit ==
    /\ watch = [coin |-> "", cur |-> "USD", src |-> "live"]
    /\ ticks = <<>> /\ headline = 0 /\ arrow = "none" /\ before = 0
    /\ printed = 0 /\ taken = {}
    /\ stamps = <<>> /\ tickRate = 0 /\ late = 0 /\ quiet = 0

-----------------------------------------------------------------------------
(* Choosing. *)

\* The effects of a render that changes what is watched: the buffer starts over (the
\* arrow does not), the exchange's pairs pin the currency, the stream is resubscribed.
WatchNow(w) ==
    /\ watch' = [w EXCEPT !.cur = IF w.src = "binance" THEN "USD" ELSE @]
    /\ ticks' = <<>> /\ headline' = 0 /\ before' = 0 /\ taken' = {}
    /\ UNCHANGED <<arrow, printed>> /\ UNCHANGED rateVars

\* The registry lands: the first coin.
FirstCoin == watch.coin = "" /\ WatchNow([watch EXCEPT !.coin = CHOOSE c \in Pairs : TRUE])

ChooseTickerCoin(c) ==
    watch.coin # "" /\ c # watch.coin /\ WatchNow([watch EXCEPT !.coin = c])

ChooseSource(s) == s # watch.src /\ WatchNow([watch EXCEPT !.src = s])

\* A currency button, disabled where the source quotes dollars only.
ChooseTickerCur(c) ==
    /\ c # watch.cur
    /\ ~(watch.src = "binance" /\ c # "USD")
    /\ WatchNow([watch EXCEPT !.cur = c])

-----------------------------------------------------------------------------
(* Prints. *)

MutWithTick(k) ==
    IF ticks # <<>> /\ Last(ticks).t = k.t THEN ticks
    ELSE LET all == Append(ticks, k)
         IN  SubSeq(all, IF Len(all) > MaxTicks THEN Len(all) - MaxTicks + 1 ELSE 1, Len(all))

\* A print of the last one's time replaces it; the newest MaxTicks are kept.
WithTick(k) ==
    IF ticks # <<>> /\ Last(ticks).t = k.t THEN Append(Front(ticks), k)
    ELSE LET all == Append(ticks, k)
         IN  SubSeq(all, IF Len(all) > MaxTicks THEN Len(all) - MaxTicks + 1 ELSE 1, Len(all))

\* The listener finds a price of the watched coin and currency in the batch.  The exchange
\* quotes dollars only; a batch of the backend that lacks the quote is as one of another coin.
Watched(f, c) ==
    /\ watch.src \in {"live", f} /\ c = watch.coin
    /\ f = "binance" => watch.cur = "USD"

\* A batch of feed f with a print of coin c at time t.  useTickRate counts it whatever
\* is watched.
PrintArrives(f, c, t) ==
    LET n == printed + 1
        k == [coin |-> c, cur |-> watch.cur, src |-> f, t |-> t, n |-> n]
    IN  /\ printed < MaxPrints /\ printed' = n
        /\ stamps' = Append(stamps, 0) /\ quiet' = 0
        /\ IF Watched(f, c)
           THEN /\ ticks' = WithTick(k) /\ taken' = taken \cup {k}
                /\ arrow' = IF before = 0 THEN arrow ELSE IF Price(n) >= before THEN "up" ELSE "down"
                /\ before' = Price(n) /\ headline' = Price(n)
           ELSE UNCHANGED <<ticks, taken, arrow, before, headline>>
        /\ UNCHANGED <<watch, tickRate, late>>

-----------------------------------------------------------------------------
(* The header's rate. *)

UnitPasses ==
    /\ late < MaxLate /\ late' = late + 1
    /\ stamps' = [i \in DOMAIN stamps |-> stamps[i] + 1]
    /\ quiet' = IF quiet < QuietCap THEN quiet + 1 ELSE quiet
    /\ UNCHANGED <<watch, ticks, headline, arrow, before, printed, taken, tickRate>>

\* The interval: stamps older than the window go, the rest is the rate.
RateTimer ==
    /\ late > 0 /\ late' = 0
    /\ LET recent == Keep(stamps, 0..WindowUnits)
       IN  stamps' = recent /\ tickRate' = Len(recent)
    /\ UNCHANGED <<watch, ticks, headline, arrow, before, printed, taken, quiet>>

-----------------------------------------------------------------------------
(* What is on screen. *)

\* The chart's own rate: prints at most a window older than the newest, by their
\* stamps, and none if there is one print only.
ChartRate ==
    IF Len(ticks) < 2 THEN 0
    ELSE Len(SelectSeq(ticks, LAMBDA k : k.t + WindowUnits >= Last(ticks).t))

TickerView == IF ticks = <<>> THEN "waiting" ELSE "chart"

TickerNext ==
    \/ FirstCoin \/ UnitPasses \/ RateTimer
    \/ \E c \in Pairs : ChooseTickerCoin(c)
    \/ \E s \in Sources : ChooseSource(s)
    \/ \E c \in TickerCurs : ChooseTickerCur(c)
    \/ \E f \in Feeds, c \in Pairs, t \in 1..MaxStamp : PrintArrives(f, c, t)

-----------------------------------------------------------------------------
(* Properties. *)

\* Types; the buffer is bounded, and the exchange is watched in dollars only, however
\* source and currency were chosen.
TickerTypeOK ==
    /\ watch.coin \in Pairs \cup {""} /\ watch.cur \in TickerCurs /\ watch.src \in Sources
    /\ Len(ticks) <= MaxTicks /\ headline \in 0..2 /\ arrow \in {"none", "up", "down"}
    /\ watch.src = "binance" => watch.cur = "USD"

\* The plot never mixes coins, currencies or sources, and its last point is the price
\* in the headline, whatever is chosen while prints arrive.
PlotIsOfWatched ==
    /\ \A i \in DOMAIN ticks :
          /\ ticks[i].coin = watch.coin /\ ticks[i].cur = watch.cur
          /\ watch.src \in {"live", ticks[i].src}
    /\ headline = IF ticks = <<>> THEN 0 ELSE Price(Last(ticks).n)

\* "Replacing rather than dropping keeps the latest print" (RealtimeChart.tsx:79): the plot
\* is in the order of arrival, however the stamps of two sources run against each other;
\* no two points in a row share a stamp, and a print that was taken is missing only because
\* one of the same time replaced it or the buffer was full.
LatestKept ==
    /\ \A i \in 1..(Len(ticks) - 1) :
          ticks[i].n < ticks[i + 1].n /\ ticks[i].t # ticks[i + 1].t
    /\ \A p \in taken :
          \/ \E i \in DOMAIN ticks : ticks[i].t = p.t /\ ticks[i].n >= p.n
          \/ Len(ticks) = MaxTicks /\ p.n < ticks[1].n

\* "it pulses just as happily against a dead socket" (useTickRate.ts:7): the header's
\* rate does not.  Once the feed is silent for the window and a timer period it reads 0.
SilenceReadsZero == quiet = QuietCap => tickRate = 0

\* The ticker plots what is watched, as it arrived, and the header does not count a dead feed.
TickerInv == TickerTypeOK /\ PlotIsOfWatched /\ LatestKept /\ SilenceReadsZero
=============================================================================
