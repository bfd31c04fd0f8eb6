-------------------------- MODULE LivePricesProofs --------------------------
(***************************************************************************)
(* Proofs about LivePrices: for any pairs, polls and lost connections, by  *)
(* whichever route a price of the service reaches the page, the table      *)
(* holds it, or a newer one.                                               *)
(***************************************************************************)
EXTENDS LivePrices, TLAPS

Batch == [pairs : SUBSET Pairs, at : 0..MaxPolls]

\* The table holds nothing newer than the last poll: a save never goes back.
SavedByPoll == \A p \in Pairs : db[p] <= polls

IInv == LiveInv /\ SavedByPoll

-----------------------------------------------------------------------------
(* Lemmas about the parts of a step. *)

\* Saves only make the table newer, so what was behind it stays behind it.
LEMMA NewerTable ==
    ASSUME NEW n \in [Pairs -> 0..MaxPolls], NEW a \in [Pairs -> 0..MaxPolls],
           NEW b \in [Pairs -> 0..MaxPolls],
           \A p \in Pairs : a[p] <= b[p], \A p \in Pairs : n[p] <= a[p]
    PROVE  \A p \in Pairs : n[p] <= b[p]
<1> TAKE p \in Pairs
<1>1. n[p] \in Int /\ a[p] \in Int /\ b[p] \in Int /\ n[p] <= a[p] /\ a[p] <= b[p]
  BY LiveAssumption
<1> QED  BY <1>1

\* Every step but a poll's save leaves the table, and adds to what is on its way, or on
\* screen, only what the table holds.
LEMMA TableUntouched ==
    ASSUME IInv, UNCHANGED <<db, polls>>, TypeOK', ShownWasSaved', InFlightWasSaved'
    PROVE  IInv'
BY DEF IInv, LiveInv, SavedByPoll

\* The batches left after one was taken off the wire are as old as they were.
LEMMA WireShrinks ==
    ASSUME TypeOK, InFlightWasSaved, wire # <<>>
    PROVE  /\ Tail(wire) \in Seq(Batch) /\ Head(wire) \in Batch
           /\ \A i \in 1..Len(Tail(wire)) : \A p \in Tail(wire)[i].pairs : Tail(wire)[i].at <= db[p]
           /\ \A p \in Head(wire).pairs : Head(wire).at <= db[p]
<1>1. wire \in Seq(Batch)
  BY DEF TypeOK, Batch
<1>2. /\ Tail(wire) \in Seq(Batch) /\ Head(wire) \in Batch /\ Len(Tail(wire)) = Len(wire) - 1
      /\ \A i \in 1..Len(Tail(wire)) : Tail(wire)[i] = wire[i + 1] /\ i + 1 \in 1..Len(wire)
      /\ 1 \in 1..Len(wire) /\ Head(wire) = wire[1]
  BY <1>1
<1> QED  BY <1>2 DEF InFlightWasSaved

-----------------------------------------------------------------------------
(* One lemma per action, or per few that do the same. *)

\* A poll's save: the pairs quoted take a version newer than all there was.
LEMMA PollSaveKeeps ==
    ASSUME IInv, NEW quoted \in SUBSET Pairs, PollSave(quoted)
    PROVE  IInv'
<1> USE LiveAssumption DEF IInv, LiveInv, PollSave, server, socket, fetch, state
<1>1. polls \in 0..MaxPolls /\ polls' = polls + 1 /\ polls' \in 0..MaxPolls
  BY DEF TypeOK
<1>2. db' \in [Pairs -> 0..MaxPolls] /\ db \in [Pairs -> 0..MaxPolls]
  BY <1>1 DEF TypeOK
<1>3. \A p \in Pairs : db[p] <= db'[p] /\ db'[p] <= polls'
  <2> TAKE p \in Pairs
  <2>1. db[p] \in Int /\ db[p] <= polls
    BY <1>2 DEF SavedByPoll
  <2>2. db'[p] = IF p \in quoted THEN polls + 1 ELSE db[p]
    OBVIOUS
  <2> QED  BY <1>1, <2>1, <2>2
<1>4. \A p \in quoted : db'[p] = polls'
  OBVIOUS
<1>5. TypeOK'
  BY <1>1, <1>2 DEF TypeOK
<1>6. ShownWasSaved'
  BY <1>2, <1>3, NewerTable DEF ShownWasSaved, TypeOK
<1>7. \A p \in Pairs : snap'[p] <= db'[p]
  BY <1>2, <1>3, NewerTable DEF InFlightWasSaved, TypeOK
<1>8. ASSUME NEW i \in 1..Len(wire), NEW p \in wire[i].pairs PROVE wire[i].at <= db'[p]
  <2>1. wire[i] \in Batch
    <3>1. wire \in Seq(Batch)
      BY DEF TypeOK, Batch
    <3> QED  BY <3>1
  <2>2. p \in Pairs /\ wire[i].at \in Int
    BY <2>1 DEF Batch
  <2>3. wire[i].at <= db[p] /\ db[p] \in Int /\ db'[p] \in Int
    BY <1>2, <2>2 DEF InFlightWasSaved
  <2> QED  BY <1>3, <2>2, <2>3
<1>9. InFlightWasSaved'
  BY <1>1, <1>4, <1>7, <1>8 DEF InFlightWasSaved
<1> QED  BY <1>3, <1>5, <1>6, <1>9 DEF SavedByPoll

\* The broadcast: the batch on the wire is the one the poll saved.
LEMMA PollSendKeeps ==
    ASSUME IInv, PollSend
    PROVE  IInv'
<1> USE LiveAssumption DEF IInv, LiveInv, PollSend, fetch, state
<1> DEFINE b == [pairs |-> unsent, at |-> polls]
<1>1. b \in Batch /\ wire \in Seq(Batch)
  BY DEF TypeOK, Batch
<1>2. \A p \in b.pairs : b.at <= db[p]
  BY DEF InFlightWasSaved
<1>3. wire' \in Seq(Batch)
  BY <1>1
<1>4. \A i \in 1..Len(wire') : \A p \in wire'[i].pairs : wire'[i].at <= db[p]
  <2>1. CASE connected
    <3> HIDE DEF b
    <3>1. Len(Append(wire, b)) = Len(wire) + 1
      BY <1>1
    <3>2. \A i \in 1..Len(wire) + 1 : Append(wire, b)[i] = IF i = Len(wire) + 1 THEN b ELSE wire[i]
      BY <1>1
    <3>3. wire' = Append(wire, b)
      BY <2>1 DEF b
    <3> QED  BY <1>1, <1>2, <3>1, <3>2, <3>3 DEF InFlightWasSaved
  <2> QED  BY <2>1 DEF InFlightWasSaved
<1>5. TypeOK'
  BY <1>3 DEF TypeOK, Batch
<1>6. ShownWasSaved' /\ InFlightWasSaved'
  BY <1>4 DEF ShownWasSaved, InFlightWasSaved
<1> QED  BY <1>5, <1>6, TableUntouched

\* latest_prices reads what the table holds; the answer is shown or dropped.
LEMMA FetchingKeeps ==
    ASSUME IInv, Fetching
    PROVE  IInv'
<1> USE LiveAssumption DEF IInv, LiveInv, server, socket, fetch, state
<1>1. ASSUME NEW p \in Pairs, ReadPair(p) PROVE IInv'
  <2> USE <1>1 DEF ReadPair
  <2>1. snap' \in [Pairs -> 0..MaxPolls] /\ \A q \in Pairs : snap'[q] = snap[q] \/ snap'[q] = db[q]
    BY DEF TypeOK
  <2>2. TypeOK'
    BY <2>1 DEF TypeOK
  <2>3. \A q \in Pairs : db[q] \in Int
    BY DEF TypeOK
  <2>4. ShownWasSaved' /\ InFlightWasSaved'
    BY <2>1, <2>3 DEF ShownWasSaved, InFlightWasSaved
  <2> QED  BY <2>2, <2>4, TableUntouched
<1>2. CASE SnapshotResolves
  <2> USE <1>2 DEF SnapshotResolves
  <2>1. TypeOK'
    BY DEF TypeOK
  <2>2. ShownWasSaved' /\ InFlightWasSaved'
    BY DEF ShownWasSaved, InFlightWasSaved
  <2> QED  BY <2>1, <2>2, TableUntouched
<1>3. CASE SnapshotRejects
  <2> USE <1>3 DEF SnapshotRejects
  <2>1. TypeOK'
    BY DEF TypeOK
  <2>2. ShownWasSaved' /\ InFlightWasSaved'
    BY DEF ShownWasSaved, InFlightWasSaved
  <2> QED  BY <2>1, <2>2, TableUntouched
<1> QED  BY <1>1, <1>2, <1>3 DEF Fetching

\* A batch of the service's is merged: each of its prices is in the table.
LEMMA OnPricesKeeps ==
    ASSUME IInv, OnPrices
    PROVE  IInv'
<1> USE LiveAssumption DEF IInv, LiveInv, OnPrices, server, fetch
<1>1. /\ Tail(wire) \in Seq(Batch) /\ Head(wire) \in Batch
      /\ \A i \in 1..Len(Tail(wire)) : \A p \in Tail(wire)[i].pairs : Tail(wire)[i].at <= db[p]
      /\ \A p \in Head(wire).pairs : Head(wire).at <= db[p]
  BY WireShrinks
<1>2. \A p \in Pairs : prices'[p] = IF p \in Head(wire).pairs THEN Head(wire).at ELSE prices[p]
  OBVIOUS
<1>3. Head(wire).at \in 0..MaxPolls
  BY <1>1 DEF Batch
<1>4. prices' \in [Pairs -> 0..MaxPolls]
  BY <1>3 DEF TypeOK
<1>5. TypeOK'
  BY <1>1, <1>4 DEF TypeOK, Batch
<1>6. ShownWasSaved'
  BY <1>1, <1>2 DEF ShownWasSaved
<1>7. InFlightWasSaved'
  BY <1>1 DEF InFlightWasSaved
<1> QED  BY <1>5, <1>6, <1>7, TableUntouched

\* Trades, connections and the unmount bring no price of the service's.
LEMMA OthersKeep ==
    ASSUME IInv, (\E q \in SUBSET Traded : OnTrades(q)) \/ Connect \/ Disconnect \/ Unmount
    PROVE  IInv'
<1> USE LiveAssumption DEF IInv, LiveInv, server, socket, fetch, state
<1>1. UNCHANGED <<db, polls, unsent, snap, prices>> /\ wire' \in {wire, <<>>}
  BY DEF OnTrades, Connect, Disconnect, Unmount
<1>2. ShownWasSaved' /\ InFlightWasSaved'
  BY <1>1 DEF ShownWasSaved, InFlightWasSaved
<1>3. CASE \E q \in SUBSET Traded : OnTrades(q)
  BY <1>2, <1>3, TableUntouched DEF OnTrades, TypeOK
<1>4. CASE Connect
  BY <1>2, <1>4, TableUntouched DEF Connect, TypeOK
<1>5. CASE Disconnect
  <2>1. drops' \in 0..MaxDrops
    BY <1>5 DEF Disconnect, TypeOK
  <2>2. wire' \in Seq(Batch)
    BY <1>5 DEF Disconnect
  <2>3. TypeOK'
    BY <1>5, <2>1, <2>2 DEF Disconnect, TypeOK, Batch
  <2> QED  BY <1>1, <1>2, <2>3, TableUntouched
<1>6. CASE Unmount
  <2>1. wire' \in Seq(Batch)
    BY <1>6 DEF Unmount
  <2>2. TypeOK'
    BY <1>6, <2>1 DEF Unmount, TypeOK, Batch
  <2> QED  BY <1>1, <1>2, <2>2, TableUntouched
<1> QED  BY <1>3, <1>4, <1>5, <1>6

-----------------------------------------------------------------------------
(* The theorem. *)

\* A page never shows, and nothing on its way to it is, a version of the service's that
\* the table does not hold yet (save before send; each connection in order).
THEOREM LivePricesInvariant == Spec => []LiveInv
<1>1. Init => IInv
  <2> SUFFICES ASSUME Init PROVE IInv
    OBVIOUS
  <2> USE LiveAssumption DEF Init, None
  <2>1. TypeOK
    <3>1. wire \in Seq(Batch)
      OBVIOUS
    <3>2. 0 \in 0..MaxPolls /\ 0 \in 0..MaxDrops
      OBVIOUS
    <3>3. None \in [Pairs -> 0..MaxPolls]
      BY <3>2
    <3> HIDE DEF None
    <3> QED  BY <3>1, <3>2, <3>3 DEF TypeOK, Batch
  <2>2. ShownWasSaved /\ InFlightWasSaved /\ SavedByPoll
    BY DEF ShownWasSaved, InFlightWasSaved, SavedByPoll
  <2> QED  BY <2>1, <2>2 DEF IInv, LiveInv
<1>2. IInv /\ [Next]_vars => IInv'
  <2> SUFFICES ASSUME IInv, [Next]_vars PROVE IInv'
    OBVIOUS
  <2>1. CASE UNCHANGED vars
    BY <2>1 DEF vars, IInv, LiveInv, SavedByPoll, TypeOK, ShownWasSaved, InFlightWasSaved
  <2> QED  BY <2>1, PollSaveKeeps, PollSendKeeps, FetchingKeeps, OnPricesKeeps, OthersKeep DEF Next
<1>3. IInv => LiveInv
  BY DEF IInv
<1> QED  BY <1>1, <1>2, <1>3, PTL DEF Spec
=============================================================================
