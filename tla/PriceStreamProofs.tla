------------------------- MODULE PriceStreamProofs -------------------------
(***************************************************************************)
(* Proofs about PriceStream: whatever errors, closes, answers and timers   *)
(* interleave with the unsubscribe, for any symbols and any number of      *)
(* frames and trades, an adapter has one thing going on at a time, nothing *)
(* is armed after the unsubscribe, and a held or dropped feed is silent.   *)
(***************************************************************************)
EXTENDS PriceStream, TLAPS

States == {"none", "connecting", "open", "closing", "closed"}
Alive  == {"connecting", "open", "closing"}

\* The types of what the life cycle is made of, and of the prices.
ChainTypes ==
    /\ stopped \in BOOLEAN /\ sock \in [Adapters -> States]
    /\ live \in [Adapters -> Nat] /\ timers \in [Adapters -> Nat] /\ asking \in Nat
    /\ unlisted \in BOOLEAN

DataTypes ==
    /\ frames \in 0..MaxFrames /\ heard \in 0..MaxFrames
    /\ trades \in [Symbols -> 0..MaxTrades]
    /\ pending \in [Symbols -> 0..MaxTrades]
    /\ shown \in [Symbols -> 0..MaxTrades]

\* The life cycle alone: no price has a part in it.
ChainInv == ChainTypes /\ OneChain /\ SocketTracked /\ NothingArmed

-----------------------------------------------------------------------------
(* Lemmas about the parts of a step. *)

\* The invariant is that of the life cycle and the types of the rest.
LEMMA Apart ==
    StreamInv <=> /\ ChainInv /\ DataTypes
                  /\ paused \in BOOLEAN /\ hidden \in BOOLEAN
BY DEF StreamInv, ChainInv, TypeOK, ChainTypes, DataTypes, States

\* A step that moves no price keeps the types of the prices.
LEMMA DataUntouched == ASSUME DataTypes, UNCHANGED data PROVE DataTypes'
BY DEF DataTypes, data

\* A step that leaves the adapters alone, and does not unsubscribe, keeps their life cycle.
LEMMA ChainUntouched == ASSUME ChainInv, UNCHANGED <<stopped, chain>> PROVE ChainInv'
BY DEF ChainInv, ChainTypes, OneChain, SocketTracked, NothingArmed, chain

\* Counting for the two adapters.
LEMMA Counts ==
    ASSUME ChainInv
    PROVE  /\ Adapters = {"backend", "binance"}
           /\ \A a \in Adapters : live[a] \in Nat /\ timers[a] \in Nat /\ sock[a] \in States
           /\ asking \in Nat
           /\ \A a \in Adapters : live[a] = IF sock[a] \in Alive THEN 1 ELSE 0
BY DEF ChainInv, ChainTypes, SocketTracked, Adapters, Alive

-----------------------------------------------------------------------------
(* One lemma per action of the life cycle. *)

LEMMA SymbolicKeeps ==
    ASSUME ChainInv, Symbolic
    PROVE  ChainInv'
<1> USE Counts DEF ChainInv, ChainTypes, OneChain, SocketTracked, NothingArmed, States, Alive
\* A request is in flight: the adapter has no socket and no timer.
<1>1. asking > 0 /\ asking' = asking - 1 /\ stopped' = stopped
  BY DEF Symbolic, SymbolsFail, SymbolsArrive
<1>2. live["binance"] = 0 /\ timers["binance"] = 0 /\ asking = 1
  BY <1>1
<1>3. ASSUME NEW e \in BOOLEAN, SymbolsArrive(e) PROVE ChainInv'
  <2>1. CASE e \/ stopped
    BY <1>1, <1>2, <1>3, <2>1 DEF SymbolsArrive
  <2>2. CASE ~(e \/ stopped)
    BY <1>1, <1>2, <1>3, <2>2 DEF SymbolsArrive, NewSocket
  <2> QED  BY <2>1, <2>2
<1>4. CASE SymbolsFail
  <2>1. CASE stopped
    BY <1>1, <1>2, <1>4, <2>1 DEF SymbolsFail, Rescheduled
  <2>2. CASE ~stopped
    BY <1>1, <1>2, <1>4, <2>2 DEF SymbolsFail, Rescheduled
  <2> QED  BY <2>1, <2>2
<1> QED  BY <1>3, <1>4 DEF Symbolic

LEMMA OpenErrorKeeps ==
    ASSUME ChainInv, NEW a \in Adapters, OnOpen(a) \/ OnError(a)
    PROVE  ChainInv'
<1> USE Counts DEF ChainInv, ChainTypes, OneChain, SocketTracked, NothingArmed, States, Alive
<1>1. CASE OnOpen(a)
  BY <1>1 DEF OnOpen
<1>2. CASE OnError(a)
  BY <1>2 DEF OnError
<1> QED  BY <1>1, <1>2

\* The socket that closes is counted out; in its place comes at most one timer.
LEMMA OnCloseKeeps ==
    ASSUME ChainInv, NEW a \in Adapters, OnClose(a)
    PROVE  ChainInv'
<1> USE Counts DEF ChainInv, ChainTypes, OneChain, SocketTracked, NothingArmed, States, Alive, OnClose
<1>1. live[a] = 1 /\ timers[a] = 0
  OBVIOUS
<1>2. live' = [live EXCEPT ![a] = 0]
  BY <1>1
<1>3. CASE stopped
  BY <1>1, <1>2, <1>3 DEF Rescheduled
<1>4. CASE ~stopped
  <2>1. timers' = [timers EXCEPT ![a] = 1]
    BY <1>1, <1>4 DEF Rescheduled
  <2> QED  BY <1>1, <1>2, <1>4, <2>1
<1> QED  BY <1>3, <1>4

\* The timer that fires is counted out; in its place comes a socket or a request.
LEMMA ReconnectKeeps ==
    ASSUME ChainInv, NEW a \in Adapters, Reconnect(a)
    PROVE  ChainInv'
<1> USE Counts DEF ChainInv, ChainTypes, OneChain, SocketTracked, NothingArmed, States, Alive
<1>1. timers[a] = 1 /\ live[a] = 0 /\ ~stopped /\ (a = "binance" => asking = 0)
  BY DEF Reconnect
<1>2. timers' = [timers EXCEPT ![a] = 0] /\ stopped' = stopped
  BY <1>1 DEF Reconnect
<1>3. CASE a = "binance"
  BY <1>1, <1>2, <1>3 DEF Reconnect
<1>4. CASE a = "backend"
  BY <1>1, <1>2, <1>4 DEF Reconnect, NewSocket
<1> QED  BY <1>3, <1>4

\* The unsubscribe clears the one timer there may be and closes the socket.
LEMMA UnsubscribeKeeps ==
    ASSUME ChainInv, Unsubscribe
    PROVE  ChainInv'
<1> USE Counts DEF ChainInv, ChainTypes, OneChain, SocketTracked, NothingArmed, States, Alive, Unsubscribe
<1>1. \A a \in Adapters : timers[a] <= 1
  OBVIOUS
<1>2. \A a \in Adapters : timers'[a] = 0
  BY <1>1
<1>3. \A a \in Adapters : sock'[a] \in States /\ sock'[a] \notin {"connecting", "open"}
                          /\ (sock'[a] \in Alive <=> sock[a] \in Alive)
  OBVIOUS
<1>4. timers' \in [Adapters -> Nat] /\ sock' \in [Adapters -> States]
  BY <1>3
<1> QED  BY <1>2, <1>3, <1>4

\* A socket, timer, answer or the unsubscribe moves no price.
LEMMA ChainStep ==
    ASSUME StreamInv,
           Symbolic \/ Unsubscribe \/ \E a \in Adapters : OnOpen(a) \/ OnError(a) \/ OnClose(a) \/ Reconnect(a)
    PROVE  StreamInv' /\ UNCHANGED <<heard, shown>>
<1>1. ChainInv /\ DataTypes /\ paused \in BOOLEAN /\ hidden \in BOOLEAN
  BY Apart
<1>2. UNCHANGED <<paused, hidden, data>>
  BY DEF Symbolic, SymbolsFail, SymbolsArrive, Unsubscribe, OnOpen, OnError, OnClose, Reconnect
<1>3. ChainInv'
  BY <1>1, SymbolicKeeps, OpenErrorKeeps, OnCloseKeeps, ReconnectKeeps, UnsubscribeKeeps
<1>4. DataTypes'
  BY <1>1, <1>2, DataUntouched
<1>5. StreamInv' <=> (ChainInv' /\ DataTypes' /\ paused' \in BOOLEAN /\ hidden' \in BOOLEAN)
  BY DEF StreamInv, ChainInv, TypeOK, ChainTypes, DataTypes, States
<1> QED  BY <1>1, <1>2, <1>3, <1>4, <1>5 DEF data

-----------------------------------------------------------------------------
(* Prices, the hold switch and the tab. *)

\* A frame is heard only by a subscriber that is there and does not hold; so are the
\* trades of a flush.
LEMMA DataStep ==
    ASSUME StreamInv,
           OnMessage \/ Drain \/ ToggleHold \/ ToggleHidden \/ \E s \in Symbols : OnTrade(s)
    PROVE  StreamInv' /\ (paused \/ stopped => UNCHANGED <<heard, shown>>)
<1>1. ChainInv /\ DataTypes /\ paused \in BOOLEAN /\ hidden \in BOOLEAN
  BY Apart
<1>2. UNCHANGED <<stopped, chain>>
  BY DEF OnMessage, Drain, Tick, Fallback, ToggleHold, ToggleHidden, OnTrade
<1>3. ChainInv'
  BY <1>1, <1>2, ChainUntouched
<1>4. paused' \in BOOLEAN /\ hidden' \in BOOLEAN
  BY <1>1 DEF OnMessage, Drain, Tick, Fallback, ToggleHold, ToggleHidden, OnTrade
<1>5. DataTypes' /\ (paused \/ stopped => UNCHANGED <<heard, shown>>)
  <2> USE <1>1, StreamAssumption DEF DataTypes
  <2>1. CASE OnMessage
    <3>1. ~stopped
      BY <2>1 DEF OnMessage, ChainInv, NothingArmed, Adapters
    <3>2. frames' \in 0..MaxFrames /\ heard' \in 0..MaxFrames
      BY <2>1 DEF OnMessage
    <3> QED  BY <2>1, <3>1, <3>2 DEF OnMessage
  <2>2. CASE Drain
    <3>1. CASE paused
      BY <2>2, <3>1 DEF Drain, Tick, Fallback, Flush
    <3>2. CASE ~paused
      <4>1. ~stopped /\ shown' \in [Symbols -> 0..MaxTrades] /\ pending' \in [Symbols -> 0..MaxTrades]
        BY <2>2, <3>2 DEF Drain, Tick, Fallback, Flush
      <4> QED  BY <2>2, <3>2, <4>1 DEF Drain, Tick, Fallback
    <3> QED  BY <3>1, <3>2
  <2>3. CASE ToggleHold \/ ToggleHidden
    BY <2>3 DEF ToggleHold, ToggleHidden, data
  <2>4. ASSUME NEW s \in Symbols, OnTrade(s)
        PROVE  DataTypes' /\ UNCHANGED <<heard, shown>>
    <3>1. trades[s] + 1 \in 0..MaxTrades
      BY <2>4 DEF OnTrade
    <3> QED  BY <2>4, <3>1 DEF OnTrade
  <2> QED  BY <2>1, <2>2, <2>3, <2>4
<1>6. StreamInv' <=> (ChainInv' /\ DataTypes' /\ paused' \in BOOLEAN /\ hidden' \in BOOLEAN)
  BY DEF StreamInv, ChainInv, TypeOK, ChainTypes, DataTypes, States
<1> QED  BY <1>3, <1>4, <1>5, <1>6

-----------------------------------------------------------------------------
(* The theorems. *)

\* The first connection of both adapters.
LEMMA InitHolds == Init => StreamInv
<1> SUFFICES ASSUME Init PROVE StreamInv
  OBVIOUS
<1> USE StreamAssumption DEF Init
<1>1. ChainInv
  <2>1. ChainTypes
    <3>1. sock \in [Adapters -> States]
      BY DEF Adapters, States
    <3>2. live \in [Adapters -> Nat] /\ timers \in [Adapters -> Nat] /\ asking \in Nat
      BY DEF Adapters
    <3> QED  BY <3>1, <3>2 DEF ChainTypes
  <2>2. OneChain /\ SocketTracked /\ NothingArmed
    BY DEF OneChain, SocketTracked, NothingArmed, Adapters
  <2> QED  BY <2>1, <2>2 DEF ChainInv
<1>2. DataTypes
  BY DEF DataTypes
<1> QED  BY <1>1, <1>2, Apart

\* Any step keeps the invariant.
LEMMA StepKeeps == StreamInv /\ [Next]_vars => StreamInv'
<1> SUFFICES ASSUME StreamInv, [Next]_vars PROVE StreamInv'
  OBVIOUS
<1>1. CASE UNCHANGED vars
  BY <1>1 DEF vars, StreamInv, TypeOK, OneChain, SocketTracked, NothingArmed
<1> QED  BY <1>1, ChainStep, DataStep DEF Next

\* An adapter has one of {socket, reconnect timer, symbol request} at a time, its socket
\* is the one it holds, and after the unsubscribe nothing is left that could deliver or
\* reconnect (connect, scheduleReconnect and the cleanups of both adapters).
THEOREM StreamInvariant == Spec => []StreamInv
BY InitHolds, StepKeeps, PTL DEF Spec

\* While the feed is held, and after unsubscribe, the subscriber is not called
\* (feed-gate.ts, the stopped flags).
THEOREM StreamSilent == Spec => Silent
<1>1. StreamInv /\ [Next]_vars => [paused \/ stopped => UNCHANGED <<heard, shown>>]_vars
  BY ChainStep, DataStep DEF Next
<1> QED  BY <1>1, InitHolds, StepKeeps, PTL DEF Spec, Silent
=============================================================================
