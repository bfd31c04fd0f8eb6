---------------------------- MODULE TerminalPage ----------------------------
(***************************************************************************)
(* The terminal's shared state: the coin registry every panel reads        *)
(* through useCoins, which asks for it once per page; the selected pair;   *)
(* and the market hero, whose headline flashes when its price moves        *)
(* (usePriceFlash).                                                        *)
(*                                                                         *)
(* A price is a number from 1, 0 while none is known.  The feed stops      *)
(* while it is held.                                                       *)
(***************************************************************************)
EXTENDS Integers, Sequences

CONSTANTS
    Islands,      \* panels that call useCoins
    Listed,       \* coins the server lists, in rank order
    Fallback,     \* FALLBACK_SYMBOLS
    TopPrice,     \* bound: prices are 1..TopPrice
    MaxMoves      \* bound: price updates and selections

ASSUME TerminalAssumption ==
    /\ Islands # {} /\ {Listed, Fallback} \subseteq Seq(STRING) \ {<<>>}
    /\ TopPrice \in Nat /\ MaxMoves \in Nat

VARIABLES
    cache,      \* the module's cache, <<>> for null
    inflight,   \* requests for the registry under way
    mounted,    \* the panels on screen
    coinsOf,    \* per panel its coins, <<>> before they come
    selected,   \* the pair clicked last
    held,       \* the feed is held
    spot,       \* priceBySymbol
    heroUp,     \* the markets tab, and the hero with it, is mounted
    prev, first, \* usePriceFlash's refs: coin and price, price 0 for null
    dir, flashing,
    timer,      \* the 450 ms timer of the last change is running
    moves,
    switched,   \* history: the pair changed since the hero was mounted
    skipped     \* history: since the last change a price unknown or not new was shown

coinVars  == <<cache, inflight, mounted, coinsOf>>
flashVars == <<prev, first, dir, flashing, timer, skipped>>
terminalVars == <<cache, inflight, mounted, coinsOf, selected, held, spot, heroUp, prev,
                  first, dir, flashing, timer, moves, switched, skipped>>

TermCoins == {Listed[i] : i \in DOMAIN Listed} \cup {Fallback[i] : i \in DOMAIN Fallback}
NoPrice   == [coin |-> "", at |-> 0]
Shell     == CHOOSE i \in Islands : TRUE   \* the terminal itself, mounted for good

\* selectedCoin, given the terminal's coins: the one clicked if it is listed, else the
\* first; "" before the registry is there.
Pick(coins, s) ==
    IF coins = <<>> THEN ""
    ELSE IF \E i \in DOMAIN coins : coins[i] = s THEN s ELSE coins[1]
SelectedCoin == Pick(coinsOf[Shell], selected)

\* The hero's `live' property.
Live(c, sp) == IF c = "" THEN 0 ELSE sp[c]

-----------------------------------------------------------------------------
(* usePriceFlash. *)

\* The effect of a render of the hero with the price p of coin c, if p is another
\* price than before: the cleanup stops the timer, then an unknown price or one equal
\* to the last one known does nothing more.
Flash(c, p) ==
    IF ~heroUp \/ p = Live(SelectedCoin, spot) THEN UNCHANGED flashVars
    ELSE IF p = 0 \/ p = prev.at
    THEN /\ timer' = FALSE /\ skipped' = TRUE
         /\ prev' = IF p = 0 THEN prev ELSE [coin |-> c, at |-> p]
         /\ UNCHANGED <<first, dir, flashing>>
    ELSE /\ prev' = [coin |-> c, at |-> p]
         /\ first' = IF first.at = 0 THEN prev' ELSE first
         /\ IF prev.at = 0 THEN timer' = FALSE /\ UNCHANGED <<dir, flashing, skipped>>
            ELSE /\ dir' = IF p > prev.at THEN "up" ELSE "down"
                 /\ flashing' = TRUE /\ timer' = TRUE /\ skipped' = FALSE

FlashTimeout ==
    /\ timer /\ timer' = FALSE /\ flashing' = FALSE
    /\ UNCHANGED <<cache, inflight, mounted, coinsOf, selected, held, spot, heroUp, prev,
                   first, dir, moves, switched, skipped>>

-----------------------------------------------------------------------------
(* useCoins. *)

\* A panel is mounted: it takes the cache, else it waits for the one request.
MountIsland(i) ==
    /\ i \notin mounted /\ mounted' = mounted \cup {i}
    /\ coinsOf' = [coinsOf EXCEPT ![i] = cache]
    /\ inflight' = IF cache = <<>> /\ inflight = 0 THEN 1 ELSE inflight
    /\ UNCHANGED <<cache, selected, held, spot, heroUp, moves, switched>>
    /\ UNCHANGED flashVars

UnmountIsland(i) ==
    /\ i # Shell /\ i \in mounted /\ mounted' = mounted \ {i}
    /\ coinsOf' = [coinsOf EXCEPT ![i] = <<>>]
    /\ UNCHANGED <<cache, inflight, selected, held, spot, heroUp, moves, switched>>
    /\ UNCHANGED flashVars

MutUncached(list) ==
    LET got == IF list # <<>> THEN list ELSE Fallback
    IN  /\ inflight > 0 /\ inflight' = inflight - 1
        /\ cache' = list
        /\ coinsOf' = [i \in Islands |-> IF i \in mounted /\ coinsOf[i] = <<>> THEN got ELSE coinsOf[i]]
        /\ Flash(Pick(got, selected), Live(Pick(got, selected), spot))
        /\ UNCHANGED <<mounted, selected, held, spot, heroUp, moves, switched>>

\* The request is answered; an empty answer or a failure caches the fallback.  Every
\* panel that waits gets the list.  For the hero the price of the pair appears.
CoinsAnswer(list) ==
    /\ inflight > 0 /\ inflight' = inflight - 1
    /\ cache' = IF list # <<>> THEN list ELSE Fallback
    /\ coinsOf' = [i \in Islands |-> IF i \in mounted THEN cache' ELSE <<>>]
    /\ Flash(Pick(cache', selected), Live(Pick(cache', selected), spot))
    /\ UNCHANGED <<mounted, selected, held, spot, heroUp, moves, switched>>

-----------------------------------------------------------------------------
(* The terminal. *)

Move == moves < MaxMoves /\ moves' = moves + 1

\* A row of the watchlist.
Select(c) ==
    /\ Move
    /\ heroUp /\ c # SelectedCoin
    /\ \E i \in DOMAIN coinsOf[Shell] : coinsOf[Shell][i] = c
    /\ selected' = c /\ switched' = TRUE
    /\ Flash(c, Live(c, spot))
    /\ UNCHANGED <<held, spot, heroUp>> /\ UNCHANGED coinVars

\* A live dollar price.
SpotPrice(c, p) ==
    /\ Move
    /\ ~held /\ spot[c] # p
    /\ spot' = [spot EXCEPT ![c] = p]
    /\ Flash(SelectedCoin, Live(SelectedCoin, spot'))
    /\ UNCHANGED <<selected, held, heroUp, switched>> /\ UNCHANGED coinVars

ToggleHold ==
    /\ held' = ~held
    /\ UNCHANGED <<selected, spot, heroUp, moves, switched>>
    /\ UNCHANGED coinVars /\ UNCHANGED flashVars

\* Leaving the markets tab unmounts the hero; coming back mounts a new one, whose
\* first effect sees the price there is.
LeaveMarkets ==
    /\ heroUp /\ heroUp' = FALSE
    /\ prev' = NoPrice /\ first' = NoPrice /\ dir' = "none" /\ flashing' = FALSE
    /\ timer' = FALSE /\ skipped' = FALSE /\ switched' = FALSE
    /\ UNCHANGED <<selected, held, spot, moves>> /\ UNCHANGED coinVars

EnterMarkets ==
    LET p == Live(SelectedCoin, spot)
    IN  /\ ~heroUp /\ heroUp' = TRUE
        /\ prev' = IF p = 0 THEN NoPrice ELSE [coin |-> SelectedCoin, at |-> p]
        /\ first' = prev'
        /\ UNCHANGED <<selected, held, spot, moves, switched, dir, flashing, timer, skipped>>
        /\ UNCHANGED coinVars

-----------------------------------------------------------------------------
(* What is on screen. *)

HoldLabel == IF held THEN "resume" ELSE "streaming"
HeroView  == IF SelectedCoin = "" THEN "loading" ELSE "pair"
Headline  == IF flashing THEN dir ELSE "ink"
\* "since open"
SessionDelta == IF Live(SelectedCoin, spot) = 0 \/ first.at = 0 THEN 0
                ELSE Live(SelectedCoin, spot) - first.at

TerminalInit ==
    /\ cache = <<>> /\ inflight = 1
    /\ mounted = {Shell} /\ coinsOf = [i \in Islands |-> <<>>]
    /\ selected = Fallback[1] /\ held = FALSE /\ spot = [c \in TermCoins |-> 0]
    /\ heroUp = TRUE /\ prev = NoPrice /\ first = NoPrice /\ dir = "none"
    /\ flashing = FALSE /\ timer = FALSE /\ moves = 0 /\ switched = FALSE /\ skipped = FALSE

TerminalNext ==
    \/ FlashTimeout \/ ToggleHold \/ LeaveMarkets \/ EnterMarkets
    \/ \E i \in Islands : MountIsland(i) \/ UnmountIsland(i)
    \/ \E list \in {Listed, <<>>} : CoinsAnswer(list)
    \/ \E c \in TermCoins : Select(c) \/ \E p \in 1..TopPrice : SpotPrice(c, p)

-----------------------------------------------------------------------------
(* Properties. *)

\* Types; the registry is asked for once at a time.
TerminalTypeOK ==
    /\ cache \in {<<>>, Listed, Fallback} /\ inflight \in 0..1
    /\ spot \in [TermCoins -> 0..TopPrice] /\ prev.at \in 0..TopPrice
    /\ dir \in {"none", "up", "down"} /\ moves \in 0..MaxMoves
    /\ (timer => flashing) /\ (flashing => dir # "none")

\* However panels come and go while the registry is asked for, those that have coins
\* have the same ones, and the selected pair is one of them.
IslandsAgree ==
    /\ \A i, j \in Islands : coinsOf[i] # <<>> /\ coinsOf[j] # <<>> => coinsOf[i] = coinsOf[j]
    /\ SelectedCoin # "" => \E n \in DOMAIN cache : cache[n] = SelectedCoin

\* "The headline takes the direction colour only while flashing, then settles back to
\* ink" (MarketHero.tsx:48): a flash has a timer that will end it, unless a pair with
\* no price yet, or with the very price shown, was selected meanwhile.
FlashIsTimed == flashing => timer \/ skipped

\* "since open" and the arrow compare prices of one pair as long as the hero has shown
\* only one; prev and first survive a change of pair.
OnePairPerSession ==
    (~switched /\ heroUp) =>
        /\ first.at # 0 => first.coin = SelectedCoin
        /\ prev.at # 0  => prev.coin = SelectedCoin /\ prev.at = Live(SelectedCoin, spot)

\* What the panels of a page share stays consistent while they come and go: one list of
\* coins; a flash with its timer, but for the selections of `skipped`; prices of one pair in
\* the hero until the pair is changed.
TerminalInv == TerminalTypeOK /\ IslandsAgree /\ FlashIsTimed /\ OnePairPerSession

\* Every panel that stays gets its coins, whether the server answers or fails.
CoinsArrive == \A i \in Islands : i \in mounted ~> i \notin mounted \/ coinsOf[i] # <<>>
=============================================================================
