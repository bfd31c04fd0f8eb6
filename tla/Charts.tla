------------------------------- MODULE Charts -------------------------------
(***************************************************************************)
(* The charts that fetch what the user selects: the overlay of several     *)
(* coins (MultiCoinChart) and the price series of one (PriceCharts), both  *)
(* over useAllSeries, which also appends the prices of the composite       *)
(* stream; the coin page (CoinDetail), the candles (CandlestickChart) and  *)
(* the high/low ranges (Extremes over useExtremes).                        *)
(*                                                                         *)
(* A change of the selection cancels the requests before it and starts     *)
(* new ones; React runs the effects of a click before anything else.  A    *)
(* point is its time, with the currency and period it was asked for, or    *)
(* "live" when the stream brought it.  Poll n quotes at time n, and not    *)
(* every coin in every currency; the exchange's trades are in dollars, at  *)
(* times of its own, and in no table.                                      *)
(***************************************************************************)
EXTENDS Naturals, Sequences, SequencesExt, Filter

CONSTANTS
    Registry,     \* the coin list, in the order of the server
    Currencies,
    Periods,
    DefaultPick,  \* coins preselected in the overlay
    MaxPoints,    \* points kept of a live series
    Quotes,       \* bound: the quotes <<coin, currency>> a poll may have
    MaxPolls,     \* bound: polls of the service
    MaxTrades,    \* bound: batches of the exchange
    MaxTime,      \* bound: the times a trade may have
    MaxClicks     \* bound: changes of the selection

ASSUME ChartsAssumption ==
    /\ Currencies # {} /\ Periods # {}
    /\ Registry \in Seq(ToSet(Registry)) /\ DefaultPick \in 1..Len(Registry)
    /\ Quotes \subseteq SUBSET (ToSet(Registry) \X Currencies)
    /\ MaxPoints \in Nat \ {0} /\ MaxPolls \in Nat /\ MaxTrades \in Nat /\ MaxClicks \in Nat
    /\ MaxTime \in Nat /\ MaxPolls <= MaxTime

VARIABLES
    chart,      \* which of the charts this is
    coinList,   \* useCoins
    sel,        \* the selection: coins, currency, period
    series,     \* what the chart holds, by coin
    loading,
    failed,     \* an error is set; the coin page, which sets none: its request failed
    asks,       \* requests in flight; the last one is not cancelled
    quoted,     \* the quotes of each poll the service stored
    heard,      \* polls whose batch the stream has delivered or lost
    trades,     \* batches of the exchange
    clicks,
    lost,       \* history: polls whose batch no list of the selection took
    newest      \* history: by coin, the time of its last quote since the last answer, or 0

chartVars == <<chart, coinList, sel, series, loading, failed, asks, quoted, heard, trades,
               clicks, lost, newest>>
feedVars  == <<quoted, heard, trades>>

Kinds    == {"overlay", "detail", "coin", "candle", "range"}
Streamed == chart \in {"overlay", "detail"}
Coins    == ToSet(Registry)
Point    == [cur : Currencies, per : Periods \cup {"live"}, at : 1..MaxTime]
NoSeries == [c \in {} |-> <<>>]
NoneNew  == [c \in Coins |-> 0]
Selected == ToSet(sel.coins)
polls    == Len(quoted)

-----------------------------------------------------------------------------
(* Selecting. *)

\* The cleanup of the effects before.
Cancelled == [i \in DOMAIN asks |-> [asks[i] EXCEPT !.live = FALSE]]

\* The effects of a render with selection s: the previous request is cancelled,
\* and a new one started unless there is no coin to ask for.  The candle chart
\* and the coin page then do nothing; the hooks show an empty list.
Restart(s) ==
    /\ sel' = s
    /\ lost' = {} /\ newest' = NoneNew
    /\ IF s.coins # <<>>
       THEN /\ loading' = TRUE
            /\ asks' = Append(Cancelled, [sel |-> s, live |-> TRUE, got |-> NoSeries])
            /\ UNCHANGED <<series, failed>>
       ELSE IF chart \in {"candle", "coin"}
       THEN UNCHANGED <<loading, series, failed, asks>>
       ELSE /\ loading' = FALSE /\ failed' = FALSE /\ series' = NoSeries
            /\ asks' = Cancelled

\* What each chart asks for once the coin list is known, when nothing is selected.
DefaultCoins(list) ==
    CASE chart = "overlay" -> SubSeq(list, 1, DefaultPick)
      [] chart = "range"   -> list
      [] OTHER             -> <<Head(list)>>

\* The registry arrives (useCoins resolves in any case, if need be to a fallback).
CoinsKnown ==
    /\ coinList = <<>>
    /\ coinList' = Registry
    /\ IF sel.coins = <<>> THEN Restart([sel EXCEPT !.coins = DefaultCoins(Registry)])
       ELSE UNCHANGED <<sel, series, loading, failed, asks, lost, newest>>
    /\ UNCHANGED <<chart, feedVars, clicks>>

Click1 == clicks < MaxClicks /\ clicks' = clicks + 1

\* The period and currency buttons every chart has.
ChooseView(cur, per) ==
    /\ <<cur, per>> # <<sel.cur, sel.per>>
    /\ Click1
    /\ Restart([sel EXCEPT !.cur = cur, !.per = per])
    /\ UNCHANGED <<chart, coinList, feedVars>>

\* The coin selector of the price series and of the candles.
ChooseCoin(c) ==
    /\ chart \in {"detail", "candle"}
    /\ c \in ToSet(coinList) /\ sel.coins # <<c>>
    /\ Click1
    /\ Restart([sel EXCEPT !.coins = <<c>>])
    /\ UNCHANGED <<chart, coinList, feedVars>>

\* The overlay's coin buttons.  Removing the last coin lets the default-pick effect
\* select the top coins again.
Toggle(c) ==
    LET rest == Keep(sel.coins, Selected \ {c})
    IN  /\ chart = "overlay" /\ c \in ToSet(coinList)
        /\ Click1
        /\ Restart([sel EXCEPT !.coins =
                      IF c \notin Selected THEN Append(sel.coins, c)
                      ELSE IF rest = <<>> THEN DefaultCoins(coinList) ELSE rest])
        /\ UNCHANGED <<chart, coinList, feedVars>>

-----------------------------------------------------------------------------
(* Requests: one per coin, joined by Promise.all. *)

\* The service reads the rows of one coin (series, extremes or ohlc).
Serve(i, c) ==
    /\ i \in DOMAIN asks /\ c \in ToSet(asks[i].sel.coins) \ DOMAIN asks[i].got
    /\ asks' = [asks EXCEPT ![i].got =
                  [x \in DOMAIN @ \cup {c} |-> IF x = c THEN polls ELSE @[x]]]
    /\ UNCHANGED <<chart, coinList, sel, series, loading, failed, feedVars, clicks, lost, newest>>

\* The times of the rows that the first n polls left of a coin in a currency, in order.
RowsOf(c, cur, n) ==
    Keep([t \in 1..n |-> t], {t \in DOMAIN quoted : <<c, cur>> \in quoted[t]})

Fetched(a) ==
    [c \in ToSet(a.sel.coins) |->
        LET rows == RowsOf(c, a.sel.cur, a.got[c])
        IN  [k \in DOMAIN rows |-> [cur |-> a.sel.cur, per |-> a.sel.per, at |-> rows[k]]]]

MutApplies(i) == TRUE

\* if (!cancelled)
Applies(i) == asks[i].live

AnswerOk(i) ==
    /\ i \in DOMAIN asks /\ DOMAIN asks[i].got = ToSet(asks[i].sel.coins)
    /\ IF Applies(i)
       THEN series' = Fetched(asks[i]) /\ loading' = FALSE /\ failed' = FALSE /\ newest' = NoneNew
       ELSE UNCHANGED <<series, loading, failed, newest>>
    /\ asks' = RemoveAt(asks, i)
    /\ UNCHANGED <<chart, coinList, sel, feedVars, clicks, lost>>

MutAnswerErr(i) ==
    /\ i \in DOMAIN asks
    /\ IF Applies(i)
       THEN /\ failed' = TRUE /\ newest' = NoneNew /\ UNCHANGED loading
            /\ series' = IF chart \in {"candle", "coin"} THEN series ELSE NoSeries
       ELSE UNCHANGED <<series, loading, failed, newest>>
    /\ asks' = RemoveAt(asks, i)
    /\ UNCHANGED <<chart, coinList, sel, feedVars, clicks, lost>>

\* One of the requests fails.  The hooks clear their list, the candle chart and the
\* coin page keep what they had.
AnswerErr(i) ==
    /\ i \in DOMAIN asks
    /\ IF Applies(i)
       THEN /\ loading' = FALSE /\ failed' = TRUE /\ newest' = NoneNew
            /\ series' = IF chart \in {"candle", "coin"} THEN series ELSE NoSeries
       ELSE UNCHANGED <<series, loading, failed, newest>>
    /\ asks' = RemoveAt(asks, i)
    /\ UNCHANGED <<chart, coinList, sel, feedVars, clicks, lost>>

-----------------------------------------------------------------------------
(* The live stream. *)

\* A poll stores and broadcasts its quotes; coins and currencies without one are skipped.
PollStored(qs) ==
    /\ polls < MaxPolls /\ qs \in Quotes /\ quoted' = Append(quoted, qs)
    /\ UNCHANGED <<chart, coinList, sel, series, loading, failed, asks, heard, trades, clicks,
                   lost, newest>>

MutWithPoint(ps, p) ==
    LET all == IF ps # <<>> /\ Last(ps).at = p.at THEN ps ELSE Append(ps, p)
    IN  SubSeq(all, IF Len(all) > MaxPoints THEN Len(all) - MaxPoints + 1 ELSE 1, Len(all))

\* A point replaces the last one of the same time; the newest MaxPoints are kept.
WithPoint(ps, p) ==
    LET all == IF ps # <<>> /\ Last(ps).at = p.at THEN Append(Front(ps), p) ELSE Append(ps, p)
    IN  SubSeq(all, IF Len(all) > MaxPoints THEN Len(all) - MaxPoints + 1 ELSE 1, Len(all))

Held(c) == IF c \in DOMAIN series THEN series[c] ELSE <<>>

\* What useAllSeries does with a batch of time t that has the selected currency for the
\* coins of S, whether or not its request has been answered: a batch with nothing selected
\* is ignored, and a selected coin without a quote keeps the points it has.
Appended(S, t) ==
    LET p == [cur |-> sel.cur, per |-> "live", at |-> t]
    IN  IF S \cap Selected = {} THEN UNCHANGED <<series, newest>>
        ELSE /\ series' = [c \in Selected |-> IF c \in S THEN WithPoint(Held(c), p) ELSE Held(c)]
             /\ newest' = [c \in Coins |-> IF c \in S \cap Selected THEN t ELSE newest[c]]

\* A batch of the service: the quotes of one poll.
HearPoll ==
    /\ Streamed /\ heard < polls /\ heard' = heard + 1
    /\ Appended({c \in Coins : <<c, sel.cur>> \in quoted[heard + 1]}, heard + 1)
    /\ lost' = IF loading THEN lost \cup {heard + 1} ELSE lost
    /\ UNCHANGED <<chart, coinList, sel, loading, failed, asks, quoted, trades, clicks>>

\* A batch of the exchange: dollar prices of the coins that traded, which no poll stores.
HearTrades(S, t) ==
    /\ Streamed /\ trades < MaxTrades /\ trades' = trades + 1
    /\ S # {} /\ Appended(IF sel.cur = "USD" THEN S ELSE {}, t)
    /\ UNCHANGED <<chart, coinList, sel, loading, failed, asks, quoted, heard, clicks, lost>>

\* A batch sent while the socket is down is never delivered.
MissBatch ==
    /\ Streamed /\ heard < polls /\ heard' = heard + 1
    /\ lost' = lost \cup {heard + 1}
    /\ UNCHANGED <<chart, coinList, sel, series, loading, failed, asks, quoted, trades, clicks,
                   newest>>

-----------------------------------------------------------------------------
(* What is on screen. *)

NoData == \A c \in DOMAIN series : series[c] = <<>>

\* The overlay's and the ranges' panel, which has a message for each case.
OverlayView == IF loading THEN "loading" ELSE IF failed THEN "error"
               ELSE IF sel.coins = <<>> THEN "none selected"
               ELSE IF NoData THEN "empty" ELSE "chart"
DetailView  == IF loading THEN "loading" ELSE IF failed THEN "error"
               ELSE IF NoData THEN "empty" ELSE "chart"
RangeView   == IF loading THEN "loading" ELSE IF failed THEN "error"
               ELSE IF NoData THEN "empty" ELSE "chart"
CandleView  == IF loading THEN "loading" ELSE IF failed THEN "error"
               ELSE IF NoData THEN "empty" ELSE "chart"
\* The coin page knows no error: it draws the series it has.
CoinView    == IF loading THEN "loading" ELSE IF NoData THEN "empty" ELSE "chart"

ChartView ==
    CASE chart = "overlay" -> OverlayView [] chart = "detail" -> DetailView
      [] chart = "range" -> RangeView [] chart = "candle" -> CandleView
      [] chart = "coin" -> CoinView

-----------------------------------------------------------------------------
\* The coin page is mounted for the coin of its address, the others for none; the
\* effects of mounting have run.
ChartsInit ==
    /\ chart \in Kinds
    /\ coinList = <<>>
    /\ sel = [coins |-> IF chart = "coin" THEN <<Head(Registry)>> ELSE <<>>,
              cur |-> CHOOSE c \in Currencies : TRUE, per |-> CHOOSE p \in Periods : TRUE]
    /\ series = NoSeries /\ failed = FALSE
    /\ loading = (chart \in {"coin", "candle"})
    /\ asks = IF chart = "coin" THEN <<[sel |-> sel, live |-> TRUE, got |-> NoSeries]>> ELSE <<>>
    /\ quoted = <<>> /\ heard = 0 /\ trades = 0 /\ clicks = 0 /\ lost = {} /\ newest = NoneNew

MaxAsks == MaxClicks + 2
Answer(i) == AnswerOk(i) \/ AnswerErr(i) \/ \E c \in Coins : Serve(i, c)

ChartsNext ==
    \/ CoinsKnown \/ HearPoll \/ MissBatch
    \/ \E qs \in Quotes : PollStored(qs)
    \/ \E S \in SUBSET Coins, t \in 1..MaxTime : HearTrades(S, t)
    \/ \E cur \in Currencies, per \in Periods : ChooseView(cur, per)
    \/ \E c \in Coins : ChooseCoin(c) \/ Toggle(c)
    \/ \E i \in 1..MaxAsks : Answer(i)

-----------------------------------------------------------------------------
(* Properties. *)

\* Types; at most the newest request can still be applied, and it is the one for the
\* current selection.  A series the stream has added to is capped, one the service sent is
\* drawn whole.
ChartsTypeOK ==
    /\ sel.coins \in Seq(Coins) /\ sel.cur \in Currencies /\ sel.per \in Periods
    /\ DOMAIN series \subseteq Coins
    /\ \A c \in DOMAIN series :
          series[c] \in Seq(Point) /\ (newest[c] # 0 => Len(series[c]) <= MaxPoints)
    /\ \A i \in DOMAIN asks : asks[i].live => i = Len(asks) /\ asks[i].sel = sel

\* Whatever order answers, failures and clicks come in, a chart that is drawn shows
\* the coins, the currency and the period that are selected, and no other.  The one
\* exception is the coin page after a failed request (CoinDetail.tsx:67), which draws
\* the previous series under the newly selected currency.
ShownIsSelected ==
    (ChartView = "chart" /\ ~(chart = "coin" /\ failed)) =>
        /\ DOMAIN series = Selected
        /\ \A c \in DOMAIN series : \A n \in DOMAIN series[c] :
              series[c][n].cur = sel.cur /\ series[c][n].per \in {sel.per, "live"}

\* A live chart ends, for each coin, in the last quote of it that either stream brought
\* since its data arrived, even when the quote repeats the time of the point before.
TailFollowsFeed ==
    (Streamed /\ ~loading) => \A c \in Selected : newest[c] # 0 =>
        /\ c \in DOMAIN series /\ series[c] # <<>>
        /\ Last(series[c]) = [cur |-> sel.cur, per |-> "live", at |-> newest[c]]

\* UseAllSeries.ts:48 replaces what the stream appended while the request was under
\* way.  Those batches, and the ones the socket missed, are the only ones of the service
\* that a series lacks a quote of: batches of other coins, and trades, cost it none.
LostOnlyInFlight ==
    (Streamed /\ ~loading /\ ~failed) =>
        \A c \in Selected : c \in DOMAIN series /\ (Len(series[c]) < MaxPoints =>
            \A t \in 1..heard : <<c, sel.cur>> \in quoted[t] =>
                t \in lost \/ \E n \in DOMAIN series[c] : series[c][n].at = t)

\* What a live chart holds: one request for what is selected, each coin's newest quote
\* last, and every quote of the service but the ones the socket or the request cost it.
ChartsInv == ChartsTypeOK /\ TailFollowsFeed /\ LostOnlyInFlight

\* No chart stays in its loading state: a cancelled request never leaves it there.
LoadingEnds == loading ~> ~loading
=============================================================================
