---------------------------- MODULE MarketViews -----------------------------
(***************************************************************************)
(* The panels that summarise one coin list in parallel: the KPI strip, the *)
(* market overview with its donut, the breadth panel; and the price cards, *)
(* whose order follows favourites, a sort key and a filter.                *)
(*                                                                         *)
(* A coin of the list has a market capitalisation (0: none) and a 24h      *)
(* change, Unknown for null.  An average is the pair of its sum and its    *)
(* count.  The cards are those of the price table (useLivePrices), whose   *)
(* quotes are reduced to their currency and the change of the dollar one.  *)
(* The panels are seen once the coin list is there, and it names every     *)
(* coin of the table: both are the service's.                              *)
(***************************************************************************)
EXTENDS Integers, Sequences, SequencesExt, FiniteSets, Sums

CONSTANTS
    Tracked,   \* symbols in the order of their rank, "BTC" among them
    Alphabet,  \* the same symbols by name
    Queries,   \* bound: what a search matches, as sets of positions in Tracked
    Changes,   \* bound: 24h changes, as integers
    Unknown,   \* stands for null
    TopCap,    \* bound: capitalisations are 0..TopCap
    Donut,     \* DONUT_SLICES
    Answers    \* bound: what GET /api/prices/latest may answer, by coin

ASSUME ViewsAssumption ==
    /\ Tracked \in Seq(ToSet(Tracked)) /\ Alphabet \in Seq(ToSet(Tracked))
    /\ Tracked # <<>> /\ ToSet(Alphabet) = ToSet(Tracked)
    /\ DOMAIN Tracked \in Queries /\ Queries \subseteq SUBSET DOMAIN Tracked
    /\ Unknown \notin Changes /\ Changes \subseteq Int /\ TopCap \in Nat /\ Donut \in Nat \ {0}
    /\ Answers \subseteq [DOMAIN Tracked -> [curs : SUBSET {"USD", "EUR"},
                                           chg : Changes \cup {Unknown}]]

VARIABLES
    market,    \* the coin list, in the order of Tracked
    snapshot,  \* the request for the price table: "asked", "done" or "failed"
    table,     \* prices: the currencies each coin is quoted in, its change in dollars
    byCoin,    \* the coins of the table, the first to be quoted first
    matching,  \* query: the coins it matches, all of them for the empty one
    favorites, favOnly, sort, visible

viewVars  == <<market, snapshot, table, byCoin, matching, favorites, favOnly, sort, visible>>
tableVars == <<market, snapshot, table, byCoin>>

CardCurs == {"USD", "EUR"}
CoinAt   == DOMAIN Tracked

\* The coins of S in the order R, as Array.prototype.sort lists them.
Sorted(S, R) ==
    CHOOSE q \in SetToSeqs(S) : \A m, n \in DOMAIN q : m < n => <<q[m], q[n]>> \in R

\* What the reduce calls add up: f over the coins of S.
SumOver(S, f) == SumTo([i \in CoinAt |-> IF i \in S THEN f[i] ELSE 0], Len(Tracked))
Cap == [i \in CoinAt |-> market[i].cap]
Chg == [i \in CoinAt |-> market[i].chg]

ViewsInit ==
    /\ market \in [CoinAt -> [cap : 0..TopCap, chg : Changes \cup {Unknown}]]
    /\ snapshot = "asked" /\ byCoin = <<>>
    /\ table = [i \in CoinAt |-> [curs |-> {}, chg |-> Unknown]]
    /\ matching = CoinAt /\ favorites = {} /\ favOnly = FALSE /\ sort = "rank" /\ visible = {"USD", "EUR"}

-----------------------------------------------------------------------------
(* The three summaries, each with its own copy of the arithmetic. *)

\* KpiStrip
Kpis ==
    LET capped  == {i \in CoinAt : market[i].cap > 0}
        changed == {i \in CoinAt : market[i].chg # Unknown}
    IN  [total     |-> SumOver(capped, Cap),
         up        |-> Cardinality({i \in changed : market[i].chg >= 0}),
         avg       |-> <<SumOver(changed, Chg), Cardinality(changed)>>,
         dominance |-> SumOver({i \in capped : Tracked[i] = "BTC"}, Cap)]

ByCap == {p \in CoinAt \X CoinAt :
              Cap[p[1]] > Cap[p[2]] \/ (Cap[p[1]] = Cap[p[2]] /\ p[1] < p[2])}

MutSlices ==
    LET sorted == Sorted({i \in CoinAt : market[i].cap > 0}, ByCap)
        rest   == {sorted[n] : n \in (Donut + 2)..Len(sorted)}
        top    == [n \in 1..(IF Len(sorted) < Donut THEN Len(sorted) ELSE Donut) |-> Cap[sorted[n]]]
        other  == SumOver(rest, Cap)
    IN  IF other > 0 THEN Append(top, other) ELSE top

\* MarketOverview's donut: the largest coins, and the others as one slice.
Slices ==
    LET sorted == Sorted({i \in CoinAt : market[i].cap > 0}, ByCap)
        rest   == {sorted[n] : n \in (Donut + 1)..Len(sorted)}
        top    == [n \in 1..(IF Len(sorted) < Donut THEN Len(sorted) ELSE Donut) |-> Cap[sorted[n]]]
        other  == SumOver(rest, Cap)
    IN  IF other > 0 THEN Append(top, other) ELSE top

\* Breadth
Advancing == Cardinality({i \in CoinAt : market[i].chg # Unknown /\ market[i].chg >= 0})
Declining == Cardinality({i \in CoinAt : market[i].chg # Unknown}) - Advancing
AvgMove   == <<SumOver({i \in CoinAt : market[i].chg # Unknown}, Chg),
               Advancing + Declining>>

\* The index, from its rounding to its bounds.
Fear ==
    LET n   == IF AvgMove[2] = 0 THEN 1 ELSE AvgMove[2]
        raw == (2 * (50 * n + 9 * AvgMove[1] + 2 * n * (Advancing - Declining)) + n) \div (2 * n)
    IN  IF raw < 2 THEN 2 ELSE IF raw > 98 THEN 98 ELSE raw
Mood == IF Fear > 66 THEN "greed" ELSE IF Fear < 34 THEN "fear" ELSE "neutral"

-----------------------------------------------------------------------------
(* The price table.  A batch is merged price by price: a part of a batch is a batch too. *)

Quoted(t) == {i \in CoinAt : t[i].curs # {}}

\* A price of coin i in currency c, with its change or, for an exchange trade, without.
PriceArrives(i, c, chg) ==
    /\ table' = [table EXCEPT ![i] = [curs |-> @.curs \cup {c},
                                     chg  |-> IF c = "USD" THEN chg ELSE @.chg]]
    /\ byCoin' = IF i \in Quoted(table) THEN byCoin ELSE Append(byCoin, i)
    /\ UNCHANGED <<market, snapshot, matching, favorites, favOnly, sort, visible>>

\* The snapshot replaces the table; the service lists it by rank.
SnapshotArrives(t) ==
    /\ snapshot = "asked" /\ snapshot' = "done"
    /\ table' = t
    /\ byCoin' = Sorted(Quoted(t), {p \in CoinAt \X CoinAt : p[1] < p[2]})
    /\ UNCHANGED <<market, matching, favorites, favOnly, sort, visible>>

\* Its failure sets an error that nothing clears.
SnapshotFails ==
    /\ snapshot = "asked" /\ snapshot' = "failed"
    /\ UNCHANGED <<market, table, byCoin, matching, favorites, favOnly, sort, visible>>

-----------------------------------------------------------------------------
(* The price cards. *)

ToggleFavorite(i) ==
    /\ favorites' = IF i \in favorites THEN favorites \ {i} ELSE favorites \cup {i}
    /\ UNCHANGED <<matching, favOnly, sort, visible>> /\ UNCHANGED tableVars

ToggleFavOnly ==
    favOnly' = ~favOnly /\ UNCHANGED <<matching, favorites, sort, visible>> /\ UNCHANGED tableVars

SortCards(s) ==
    s # sort /\ sort' = s /\ UNCHANGED <<matching, favorites, favOnly, visible>> /\ UNCHANGED tableVars

Search(q) ==
    q # matching /\ matching' = q /\ UNCHANGED <<favorites, favOnly, sort, visible>> /\ UNCHANGED tableVars

\* The last currency on screen cannot be hidden.
ToggleCurrency(c) ==
    /\ visible' = IF c \notin visible THEN visible \cup {c}
                  ELSE IF Cardinality(visible) > 1 THEN visible \ {c} ELSE visible
    /\ UNCHANGED <<matching, favorites, favOnly, sort>> /\ UNCHANGED tableVars

NamePlace(i) == CHOOSE n \in DOMAIN Alphabet : Alphabet[n] = Tracked[i]

\* What the sort key puts first: a market capitalisation, or the change of the dollar
\* price in the table, is largest first, and a missing one last.
KeyBefore(i, j) ==
    CASE sort = "rank"   -> i < j
      [] sort = "name"   -> NamePlace(i) < NamePlace(j)
      [] sort = "mcap"   -> market[i].cap > market[j].cap
      [] sort = "change" -> /\ table[i].chg # Unknown
                            /\ table[j].chg # Unknown => table[i].chg > table[j].chg

Arrived(i) == CHOOSE n \in DOMAIN byCoin : byCoin[n] = i

\* Favourites first, then the sort key; Array.sort keeps the order of equals.
CardBefore(i, j) ==
    IF (i \in favorites) # (j \in favorites) THEN i \in favorites
    ELSE KeyBefore(i, j) \/ (~KeyBefore(j, i) /\ Arrived(i) < Arrived(j))

\* The coins of the table that pass the favourites filter and the search.
Passing == ToSet(byCoin) \cap matching \cap (IF favOnly THEN favorites ELSE CoinAt)
Cards   == Sorted(Passing, {p \in Passing \X Passing : CardBefore(p[1], p[2])})
CardsView == IF snapshot = "failed" THEN "feed error"
             ELSE IF snapshot = "asked" /\ byCoin = <<>> THEN "connecting"
             ELSE IF Cards # <<>> THEN "grid" ELSE IF favOnly THEN "no favorites" ELSE "no match"

\* The prices on a card; without any it says SELECT A CURRENCY.
CardLines(i) == table[i].curs \cap visible

ViewsNext ==
    \/ ToggleFavOnly \/ SnapshotFails
    \/ \E t \in Answers : SnapshotArrives(t)
    \/ \E i \in CoinAt, c \in CardCurs, chg \in Changes \cup {Unknown} : PriceArrives(i, c, chg)
    \/ \E i \in CoinAt : ToggleFavorite(i)
    \/ \E s \in {"rank", "mcap", "name", "change"} : SortCards(s)
    \/ \E q \in Queries : Search(q)
    \/ \E c \in CardCurs : ToggleCurrency(c)

-----------------------------------------------------------------------------
(* Properties. *)

\* Every variable keeps its type.
ViewsTypeOK ==
    /\ market \in [CoinAt -> [cap : 0..TopCap, chg : Changes \cup {Unknown}]]
    /\ snapshot \in {"asked", "done", "failed"}
    /\ table \in [CoinAt -> [curs : SUBSET CardCurs, chg : Changes \cup {Unknown}]]
    /\ byCoin \in Seq(CoinAt)
    /\ matching \subseteq CoinAt /\ favorites \subseteq CoinAt /\ favOnly \in BOOLEAN
    /\ sort \in {"rank", "mcap", "name", "change"} /\ visible \subseteq CardCurs

\* The panels that repeat the arithmetic agree on one market: the strip's advancers and
\* average are the breadth panel's, and the donut's slices, one per large coin and at
\* most one more, add up to the strip's total.
SummariesAgree ==
    LET kpis == Kpis  slices == Slices
    IN  /\ kpis.up = Advancing /\ kpis.avg = AvgMove
        /\ Total(slices) = kpis.total
        /\ Len(slices) <= Donut + 1 /\ kpis.dominance <= kpis.total

\* The fear and greed index never points against the market it is derived from.
FearFollowsMarket ==
    /\ Declining = 0 => Fear >= 50
    /\ Advancing = 0 => Fear <= 50

\* "favorites always float to the top" (PriceCards.tsx:116), every quoted coin that is not
\* filtered out has one card, however the snapshot, the batches and the clicks interleave,
\* and a card without a price is one whose prices are all in a currency the user has hidden.
CardsComplete ==
    LET cards == Cards
    IN  /\ \A i \in CoinAt :
              (\E n \in DOMAIN cards : cards[n] = i)
                  <=> i \in Quoted(table) /\ i \in matching /\ (favOnly => i \in favorites)
        /\ \A m, n \in DOMAIN cards :
              m < n => /\ cards[m] # cards[n]
                       /\ cards[n] \in favorites => cards[m] \in favorites
        /\ visible # {}
        /\ \A n \in DOMAIN cards :
              CardLines(cards[n]) # {} \/ \E c \in CardCurs \ visible : c \in table[cards[n]].curs

\* The panels tell one story of one market, and the cards show all of it.
ViewsInv == ViewsTypeOK /\ SummariesAgree /\ FearFollowsMarket /\ CardsComplete
=============================================================================
