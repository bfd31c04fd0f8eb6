------------------------------ MODULE MCPanels ------------------------------
(***************************************************************************)
(* A small instance of every panel of the page for TLC, and of the figures *)
(* that they draw.  They share no state (what they read of the server and  *)
(* of the feed is part of each module), so an interleaving of two shows    *)
(* nothing that each one alone does not: a behaviour exercises what is in  *)
(* focus, and the others stay as they start.                               *)
(***************************************************************************)
EXTENDS PriceAlerts, Charts, Ticker, TerminalPage, Ops, DataExport, MarketViews, Indicators, Treemap

VARIABLE focus

figureVars == <<viewVars, indicatorVars, weights>>
panelVars  == <<alertVars, chartVars, tickerVars, terminalVars, opsVars, exportVars, figureVars, focus>>

TwoCoins   == <<"BTC", "ETH">>
ListedTwo  == <<"ETH", "BTC">>
FallbackTwo == <<"BTC", "SOL">>
BtcAndAda  == <<"BTC", "ADA">>
ByName     == <<"ADA", "BTC">>
AllOrOne   == {{1, 2}, {2}}
DownOrFlat == {-1, 0}
OneOrAll   == {[i \in 1..2 |-> [curs |-> {}, chg |-> 99]],
               [i \in 1..2 |-> IF i = 2 THEN [curs |-> {"EUR"}, chg |-> 99]
                              ELSE [curs |-> {"USD", "EUR"}, chg |-> -1]],
               [i \in 1..2 |-> [curs |-> {"USD", "EUR"}, chg |-> 0]]}

AllQuotes  == {"BTC", "ETH"} \X {"USD", "EUR"}
AllOrSome  == {AllQuotes, {<<"BTC", "USD">>, <<"ETH", "EUR">>}}

Panels == {"alerts", "charts", "tape", "ticker", "terminal", "ops", "export", "figures", "cards", "indicators", "treemap"}

\* The charts twice: each kind under two clicks and a poll that quotes everything, and those that
\* listen to the stream under one click, two polls that need not, and a batch of trades.
ChartFoci == {"charts", "tape"}

Init ==
    /\ focus \in Panels
    /\ AlertsInit /\ ChartsInit /\ TickerInit /\ TerminalInit /\ OpsInit /\ ExportInit
    /\ ViewsInit /\ IndicatorsInit /\ TreemapInit
    /\ focus = "tape" => chart \in {"overlay", "detail"}
    /\ focus \notin ChartFoci => chart = "overlay"
    /\ focus # "figures" => market = [i \in CoinAt |-> [cap |-> i - 1, chg |-> Unknown]]

InFocus(p, A, others) == focus = p /\ A /\ UNCHANGED others /\ UNCHANGED focus

otherVars == <<alertVars, chartVars, tickerVars, terminalVars, opsVars, exportVars>>

Next ==
    \/ InFocus("alerts", AlertsNext,
               <<chartVars, tickerVars, terminalVars, opsVars, exportVars, figureVars>>)
    \/ InFocus("charts", ChartsNext /\ trades' = 0 /\ quoted' \in {<<>>, <<AllQuotes>>},
               <<alertVars, tickerVars, terminalVars, opsVars, exportVars, figureVars>>)
    \/ InFocus("tape", ChartsNext /\ clicks' <= 1,
               <<alertVars, tickerVars, terminalVars, opsVars, exportVars, figureVars>>)
    \/ InFocus("ticker", TickerNext,
               <<alertVars, chartVars, terminalVars, opsVars, exportVars, figureVars>>)
    \/ InFocus("terminal", TerminalNext,
               <<alertVars, chartVars, tickerVars, opsVars, exportVars, figureVars>>)
    \/ InFocus("ops", OpsNext,
               <<alertVars, chartVars, tickerVars, terminalVars, exportVars, figureVars>>)
    \/ InFocus("export", ExportNext,
               <<alertVars, chartVars, tickerVars, terminalVars, opsVars, figureVars>>)
    \/ InFocus("cards", ViewsNext, <<otherVars, indicatorVars, weights>>)
    \/ InFocus("indicators", IndicatorsNext, <<otherVars, viewVars, weights>>)
    \/ InFocus("treemap", TreemapNext, <<otherVars, viewVars, indicatorVars>>)

\* React runs the effects and renders it has scheduled, and a request is answered or
\* fails in the end; Prometheus alone is not assumed to answer.  Users, prices and
\* timers of the tick rate are under no obligation.
Fairness ==
    /\ WF_alertVars(focus = "alerts" /\ RunEffects)
    /\ WF_alertVars(focus = "alerts" /\ RenderPending)
    /\ WF_chartVars(focus \in ChartFoci /\ CoinsKnown)
    /\ \A i \in 1..MaxAsks : WF_chartVars(focus \in ChartFoci /\ Answer(i))
    /\ WF_terminalVars(focus = "terminal" /\ \E l \in {Listed, <<>>} : CoinsAnswer(l))
    /\ \A r \in Refreshes : WF_opsVars(focus = "ops" /\ SelfStep(r))
    /\ \A t \in Refreshes : WF_opsVars(focus = "ops" /\ Refresh(t))
    /\ \A j \in Jobs : WF_exportVars(focus = "export" /\ ExportStep(j))

Spec == Init /\ [][Next]_panelVars /\ Fairness

\* Whatever the page waits for comes or is given up: a chart stops loading, an export ends,
\* and, of the behaviours that exercise the page, where the first panel asks for the coins
\* as soon as it is there (useCoins.ts:58), every panel that stays gets its coins.
WaitsEnd == LoadingEnds /\ ExportEnds /\ (focus = "terminal" => CoinsArrive)
=============================================================================
