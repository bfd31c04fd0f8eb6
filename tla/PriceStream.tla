---------------------------- MODULE PriceStream ----------------------------
(***************************************************************************)
(* One subscription to the browser's composite price stream: the backend   *)
(* WebSocket adapter, the Binance trade adapter and the hold switch that   *)
(* gates both (frontend/src/infrastructure/websocket).                     *)
(*                                                                         *)
(* The page is one event loop: each callback (socket event, timer,         *)
(* animation frame, promise reaction, click) is one step.  An adapter may  *)
(* only ever have one thing going on: a socket, a reconnect timer or, for  *)
(* Binance, a request for the symbol list.  They are counted here, so that *)
(* a second one shows.  Backoff delays are time, which steps do not have.  *)
(***************************************************************************)
EXTENDS Integers

CONSTANTS
    Symbols,    \* symbols with a USDT pair
    MaxFrames,  \* bound: frames the backend sends
    MaxTrades   \* bound: trades per symbol

ASSUME StreamAssumption == MaxFrames \in Nat /\ MaxTrades \in Nat

VARIABLES
    stopped,  \* the subscriber has unsubscribed
    paused,   \* feed-gate.ts: the feed is held
    hidden,   \* document.hidden: no animation frames, only timers
    sock,     \* the adapter's ws: "none", "connecting", "open", "closing", "closed"
    live,     \* sockets of the adapter that have not closed
    timers,   \* pending reconnect timers of the adapter
    asking,   \* getSymbols() calls in flight
    unlisted, \* a symbol list came without a pair to stream
    frames,   \* frames the backend sent
    heard,    \* the last of them given to the subscriber
    trades,   \* trades the exchange printed, per symbol
    pending,  \* the adapter's coalescing buffer (0: no entry)
    shown     \* the last trade given to the subscriber, per symbol

vars == <<stopped, paused, hidden, sock, live, timers, asking, unlisted, frames,
          heard, trades, pending, shown>>
chain == <<sock, live, timers, asking, unlisted>>
data  == <<frames, heard, trades, pending, shown>>

Adapters == {"backend", "binance"}

\* subscribe(): both adapters connect at once; Binance asks for symbols first.
Init ==
    /\ stopped = FALSE /\ paused = FALSE /\ hidden = FALSE
    /\ sock = [backend |-> "connecting", binance |-> "none"]
    /\ live = [backend |-> 1, binance |-> 0]
    /\ timers = [a \in Adapters |-> 0]
    /\ asking = 1 /\ unlisted = FALSE
    /\ frames = 0 /\ heard = 0
    /\ trades = [s \in Symbols |-> 0]
    /\ pending = [s \in Symbols |-> 0]
    /\ shown = [s \in Symbols |-> 0]

-----------------------------------------------------------------------------
(* Connecting and reconnecting. *)

\* scheduleReconnect(), on the count of timers.
Rescheduled(a, t) == IF stopped THEN t ELSE [t EXCEPT ![a] = @ + 1]

\* new WebSocket(..)
NewSocket(a) ==
    /\ sock' = [sock EXCEPT ![a] = "connecting"]
    /\ live' = [live EXCEPT ![a] = @ + 1]

\* The symbol list arrives; with no streams to ask for (or nobody left to tell)
\* connect() returns and nothing is scheduled.  GET /api/coins answers an empty list
\* while the service has not discovered its coins (PriceService).
SymbolsArrive(empty) ==
    /\ asking > 0
    /\ asking' = asking - 1
    /\ unlisted' = (unlisted \/ empty)
    /\ IF empty \/ stopped THEN UNCHANGED <<sock, live>> ELSE NewSocket("binance")
    /\ UNCHANGED <<stopped, paused, hidden, timers, data>>

\* The catch of getSymbols() returns without a new attempt.
MutSymbolsFail ==
    /\ asking > 0
    /\ asking' = asking - 1
    /\ UNCHANGED <<stopped, paused, hidden, sock, live, timers, unlisted, data>>

SymbolsFail ==
    /\ asking > 0
    /\ asking' = asking - 1
    /\ timers' = Rescheduled("binance", timers)
    /\ UNCHANGED <<stopped, paused, hidden, sock, live, unlisted, data>>

OnOpen(a) ==
    /\ sock[a] = "connecting"
    /\ sock' = [sock EXCEPT ![a] = "open"]
    /\ UNCHANGED <<stopped, paused, hidden, live, timers, asking, unlisted, data>>

\* onerror: ws.close(); the close event that follows reconnects.
OnError(a) ==
    /\ sock[a] \in {"connecting", "open"}
    /\ sock' = [sock EXCEPT ![a] = "closing"]
    /\ UNCHANGED <<stopped, paused, hidden, live, timers, asking, unlisted, data>>

OnClose(a) ==
    /\ sock[a] \in {"open", "closing"}
    /\ sock' = [sock EXCEPT ![a] = "closed"]
    /\ live' = [live EXCEPT ![a] = @ - 1]
    /\ timers' = Rescheduled(a, timers)
    /\ UNCHANGED <<stopped, paused, hidden, asking, unlisted, data>>

\* The reconnect timer fires: connect().
Reconnect(a) ==
    /\ timers[a] > 0
    /\ timers' = [timers EXCEPT ![a] = @ - 1]
    /\ IF stopped THEN UNCHANGED <<sock, live, asking>>
       ELSE IF a = "binance" THEN asking' = asking + 1 /\ UNCHANGED <<sock, live>>
       ELSE NewSocket(a) /\ UNCHANGED asking
    /\ UNCHANGED <<stopped, paused, hidden, unlisted, data>>

-----------------------------------------------------------------------------
(* Prices. *)

\* A frame of the backend: dropped while held.
OnMessage ==
    /\ sock["backend"] = "open" /\ frames < MaxFrames
    /\ frames' = frames + 1
    /\ heard' = IF paused THEN heard ELSE frames + 1
    /\ UNCHANGED <<stopped, paused, hidden, chain, trades, pending, shown>>

\* A trade: buffered, the newest one per symbol.
OnTrade(s) ==
    /\ sock["binance"] = "open" /\ trades[s] < MaxTrades
    /\ trades' = [trades EXCEPT ![s] = @ + 1]
    /\ pending' = [pending EXCEPT ![s] = trades[s] + 1]
    /\ UNCHANGED <<stopped, paused, hidden, chain, frames, heard, shown>>

MutFlush ==
    /\ shown' = [s \in Symbols |-> IF pending[s] # 0 THEN pending[s] ELSE shown[s]]
    /\ pending' = [s \in Symbols |-> 0]

\* flush(): nothing while held, otherwise the whole buffer in one batch.
Flush ==
    IF paused THEN UNCHANGED <<shown, pending>>
    ELSE /\ shown' = [s \in Symbols |-> IF pending[s] # 0 THEN pending[s] ELSE shown[s]]
         /\ pending' = [s \in Symbols |-> 0]

\* The animation frame loop, in a visible tab.
Tick ==
    /\ ~stopped /\ ~hidden
    /\ Flush
    /\ UNCHANGED <<stopped, paused, hidden, chain, frames, heard, trades>>

MutFallback == FALSE

\* The 200 ms timer, in a hidden one.
Fallback ==
    /\ ~stopped /\ hidden
    /\ Flush
    /\ UNCHANGED <<stopped, paused, hidden, chain, frames, heard, trades>>

-----------------------------------------------------------------------------
(* The user and the page. *)

ToggleHold ==
    /\ paused' = ~paused
    /\ UNCHANGED <<stopped, hidden, chain, data>>

ToggleHidden ==
    /\ hidden' = ~hidden
    /\ UNCHANGED <<stopped, paused, chain, data>>

MutUnsubscribe ==
    /\ ~stopped
    /\ stopped' = TRUE
    /\ timers' = [a \in Adapters |-> IF timers[a] > 0 THEN timers[a] - 1 ELSE 0]
    /\ UNCHANGED <<paused, hidden, sock, live, asking, unlisted, data>>

\* Both adapters' cleanups run in one step: the last timer is cleared, the socket
\* closed, frame and interval cancelled (Tick and Fallback stop).
Unsubscribe ==
    /\ ~stopped
    /\ stopped' = TRUE
    /\ timers' = [a \in Adapters |-> IF timers[a] > 0 THEN timers[a] - 1 ELSE 0]
    /\ sock' = [a \in Adapters |->
                  IF sock[a] \in {"connecting", "open"} THEN "closing" ELSE sock[a]]
    /\ UNCHANGED <<paused, hidden, live, asking, unlisted, data>>

-----------------------------------------------------------------------------
Symbolic == SymbolsFail \/ \E e \in BOOLEAN : SymbolsArrive(e)
Drain    == Tick \/ Fallback

Next ==
    \/ Symbolic
    \/ \E a \in Adapters : OnOpen(a) \/ OnError(a) \/ OnClose(a) \/ Reconnect(a)
    \/ OnMessage \/ \E s \in Symbols : OnTrade(s)
    \/ Drain \/ ToggleHold \/ ToggleHidden \/ Unsubscribe

Spec == Init /\ [][Next]_vars

\* Timers fire, frames are painted in a visible tab and intervals run in a hidden
\* one, requests are answered, a closing socket closes.  The servers are up often
\* enough: a socket that keeps being opened opens, a list asked for again and
\* again arrives.
Fairness ==
    /\ WF_vars(Symbolic) /\ SF_vars(\E e \in BOOLEAN : SymbolsArrive(e))
    /\ WF_vars(Drain)
    /\ \A a \in Adapters : /\ WF_vars(Reconnect(a)) /\ SF_vars(OnOpen(a))
                           /\ WF_vars(sock[a] = "closing" /\ OnClose(a))

FairSpec == Spec /\ Fairness

-----------------------------------------------------------------------------
(* Properties. *)

\* Every variable keeps its type.
TypeOK ==
    /\ stopped \in BOOLEAN /\ paused \in BOOLEAN /\ hidden \in BOOLEAN
    /\ sock \in [Adapters -> {"none", "connecting", "open", "closing", "closed"}]
    /\ live \in [Adapters -> Nat] /\ timers \in [Adapters -> Nat] /\ asking \in Nat /\ unlisted \in BOOLEAN
    /\ frames \in 0..MaxFrames /\ heard \in 0..MaxFrames
    /\ trades \in [Symbols -> 0..MaxTrades]
    /\ pending \in [Symbols -> 0..MaxTrades]
    /\ shown \in [Symbols -> 0..MaxTrades]

\* An adapter never has two of {socket, reconnect timer, symbol request} at once,
\* whatever errors, closes and unsubscribes interleave: prices are never doubled
\* and the one timer handle kept is the one to clear.
OneChain ==
    /\ live["backend"] + timers["backend"] <= 1
    /\ live["binance"] + timers["binance"] + asking <= 1

\* ws is the socket that counts: it is alive exactly when its state says so.
SocketTracked == \A a \in Adapters :
    live[a] = IF sock[a] \in {"connecting", "open", "closing"} THEN 1 ELSE 0

\* After unsubscribe no timer is left and no socket can still deliver.
NothingArmed ==
    stopped => \A a \in Adapters : timers[a] = 0 /\ sock[a] \notin {"connecting", "open"}

\* The inductive invariant of the adapters' life cycle.
StreamInv == TypeOK /\ OneChain /\ SocketTracked /\ NothingArmed

\* While the feed is held, and after unsubscribe, the subscriber is not called.
Silent == [][paused \/ stopped => UNCHANGED <<heard, shown>>]_vars

\* A dropped stream comes back until the caller unsubscribes ("it reconnects until
\* the caller unsubscribes", websocket-price-stream.ts:10), Binance's like the backend's,
\* across failed symbol requests, failed openings and drops.  The one thing that ends
\* Binance's for good is a symbol list without a pair to stream.
Reconnects ==
    /\ []<>(stopped \/ sock["backend"] = "open")
    /\ []<>(stopped \/ sock["binance"] = "open" \/ unlisted)

\* A buffered trade reaches the subscriber, in a hidden tab too, unless the feed
\* is held or dropped.
Drained == \A s \in Symbols : (pending[s] # 0) ~> (pending[s] = 0 \/ paused \/ stopped)

\* After unsubscribe everything the adapters had started comes to an end.
Released == stopped ~> (asking = 0 /\ \A a \in Adapters : live[a] = 0 /\ timers[a] = 0)
=============================================================================
