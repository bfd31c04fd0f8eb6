----------------------------- MODULE LivePrices -----------------------------
(***************************************************************************)
(* The price table of a page: useLivePrices loads a snapshot over REST and *)
(* merges the batches of the backend stream as they come.  The service is  *)
(* reduced to what the page sees of it: a poll saves new versions of some  *)
(* pairs, then broadcasts them (scheduler.rs); GET /api/prices/latest      *)
(* reads the pairs one query at a time (handlers.rs).  A version is the    *)
(* poll that produced it, 0 is no price.  WebSocket and HTTP are separate  *)
(* connections: each is in order, nothing orders one against the other.    *)
(* The composite stream also brings exchange trades, whose prices are not  *)
(* the service's: a pair is ticked while the table shows such a price.     *)
(***************************************************************************)
EXTENDS Integers, Sequences

CONSTANTS
    Pairs,     \* (coin, currency) pairs the service tracks
    Traded,    \* the USD pairs that Binance's stream also quotes
    MaxPolls,  \* bound: poll cycles
    MaxDrops   \* bound: lost connections

ASSUME LiveAssumption == Traded \subseteq Pairs /\ MaxPolls \in Nat /\ MaxDrops \in Nat

VARIABLES
    db,         \* version of each pair in the prices table
    polls,      \* poll cycles so far
    saved,      \* TRUE between a cycle's save and its broadcast
    unsent,     \* the pairs it saved
    wire,       \* batches on their way on the open WebSocket
    connected,  \* whether the page's WebSocket is subscribed
    drops,      \* connections lost so far
    get,        \* the snapshot: "reading", "answered", then "done" or "failed"
    unread,     \* pairs latest_prices has still to query
    snap,       \* the versions it read
    mounted,    \* FALSE once the component is unmounted (cancelled)
    prices,     \* state.prices: the last version of each pair
    ticked,     \* pairs whose entry is an exchange trade that came later
    loading,    \* state.loading
    live        \* state.live

vars == <<db, polls, saved, unsent, wire, connected, drops, get, unread, snap,
          mounted, prices, ticked, loading, live>>
server == <<db, polls, saved, unsent>>
socket == <<wire, connected, drops>>
fetch  == <<get, unread, snap>>
state  == <<prices, ticked, loading, live>>

None == [p \in Pairs |-> 0]

\* Some polls may have been saved before the page was opened.
Init ==
    /\ db = None /\ polls = 0 /\ saved = FALSE /\ unsent = {}
    /\ wire = <<>> /\ connected = FALSE /\ drops = 0
    /\ get = "reading" /\ unread = Pairs /\ snap = None
    /\ mounted = TRUE /\ prices = None /\ ticked = {} /\ loading = TRUE /\ live = FALSE

-----------------------------------------------------------------------------
(* The service. *)

MutPollSave(quoted) ==
    /\ polls < MaxPolls /\ ~saved
    /\ polls' = polls + 1 /\ saved' = TRUE
    /\ unsent' = quoted
    /\ wire' = IF connected THEN Append(wire, [pairs |-> quoted, at |-> polls + 1]) ELSE wire
    /\ UNCHANGED <<db, connected, drops, fetch, mounted, state>>

\* A cycle saves the pairs the provider quoted.
PollSave(quoted) ==
    /\ polls < MaxPolls /\ ~saved
    /\ polls' = polls + 1 /\ saved' = TRUE
    /\ unsent' = quoted
    /\ db' = [p \in Pairs |-> IF p \in quoted THEN polls + 1 ELSE db[p]]
    /\ UNCHANGED <<socket, fetch, mounted, state>>

\* .. and then broadcasts them to whoever is subscribed at that moment.
PollSend ==
    /\ saved
    /\ wire' = IF connected THEN Append(wire, [pairs |-> unsent, at |-> polls]) ELSE wire
    /\ saved' = FALSE /\ unsent' = {}
    /\ UNCHANGED <<db, polls, connected, drops, fetch, mounted, state>>

\* latest_prices queries one more pair.
ReadPair(p) ==
    /\ get = "reading" /\ p \in unread
    /\ snap' = [snap EXCEPT ![p] = db[p]]
    /\ unread' = unread \ {p}
    /\ get' = IF unread' = {} THEN "answered" ELSE "reading"
    /\ UNCHANGED <<server, socket, mounted, state>>

-----------------------------------------------------------------------------
(* The page. *)

\* The snapshot resolves: setState(s => ({ ...s, prices, loading: false })).
SnapshotResolves ==
    /\ get = "answered"
    /\ get' = "done"
    /\ IF mounted THEN prices' = snap /\ ticked' = {} /\ loading' = FALSE
                  ELSE UNCHANGED <<prices, ticked, loading>>
    /\ UNCHANGED <<server, socket, unread, snap, mounted, live>>

MutSnapshotRejects ==
    /\ get \in {"reading", "answered"}
    /\ get' = "failed"
    /\ UNCHANGED <<server, socket, unread, snap, mounted, state>>

\* .. or rejects, at any time: state.error is set and nothing clears it later.
SnapshotRejects ==
    /\ get \in {"reading", "answered"}
    /\ get' = "failed"
    /\ loading' = IF mounted THEN FALSE ELSE loading
    /\ UNCHANGED <<server, socket, unread, snap, mounted, prices, ticked, live>>

MutOnPrices ==
    /\ wire # <<>>
    /\ wire' = Tail(wire)
    /\ prices' = [p \in Pairs |-> IF p \in Head(wire).pairs /\ prices[p] # 0
                                  THEN Head(wire).at ELSE prices[p]]
    /\ ticked' = ticked \ Head(wire).pairs
    /\ loading' = FALSE /\ live' = TRUE
    /\ UNCHANGED <<server, connected, drops, fetch, mounted>>

\* A batch arrives: each of its pairs replaces the one in the table.
OnPrices ==
    /\ wire # <<>> /\ mounted
    /\ wire' = Tail(wire)
    /\ prices' = [p \in Pairs |-> IF p \in Head(wire).pairs THEN Head(wire).at ELSE prices[p]]
    /\ ticked' = ticked \ Head(wire).pairs
    /\ loading' = FALSE /\ live' = TRUE
    /\ UNCHANGED <<server, connected, drops, fetch, mounted>>

\* A batch of exchange trades arrives (PriceStream): the later source wins.
OnTrades(pairs) ==
    /\ mounted /\ pairs # {} /\ pairs \subseteq Traded
    /\ ticked' = ticked \cup pairs
    /\ loading' = FALSE /\ live' = TRUE
    /\ UNCHANGED <<server, socket, fetch, mounted, prices>>

\* The WebSocket is subscribed, first or again; the snapshot is not repeated.
Connect ==
    /\ ~connected /\ mounted
    /\ connected' = TRUE
    /\ UNCHANGED <<server, wire, drops, fetch, mounted, state>>

\* It is lost with whatever was on its way.
Disconnect ==
    /\ connected /\ drops < MaxDrops
    /\ connected' = FALSE /\ wire' = <<>> /\ drops' = drops + 1
    /\ UNCHANGED <<server, fetch, mounted, state>>

\* cancelled = true; unsubscribe().
Unmount ==
    /\ mounted
    /\ mounted' = FALSE /\ connected' = FALSE /\ wire' = <<>>
    /\ UNCHANGED <<server, drops, fetch, state>>

-----------------------------------------------------------------------------
Fetching == SnapshotResolves \/ SnapshotRejects \/ \E p \in Pairs : ReadPair(p)

Next ==
    \/ \E q \in SUBSET Pairs : PollSave(q)
    \/ \E q \in SUBSET Traded : OnTrades(q)
    \/ PollSend \/ Fetching \/ OnPrices \/ Connect \/ Disconnect \/ Unmount

Spec == Init /\ [][Next]_vars

\* The request is answered or fails, and an open socket delivers.
FairSpec == Spec /\ WF_vars(PollSend) /\ WF_vars(Fetching) /\ WF_vars(OnPrices)

-----------------------------------------------------------------------------
(* Properties. *)

\* Every variable keeps its type.
TypeOK ==
    /\ db \in [Pairs -> 0..MaxPolls] /\ polls \in 0..MaxPolls
    /\ saved \in BOOLEAN /\ unsent \in SUBSET Pairs
    /\ wire \in Seq([pairs : SUBSET Pairs, at : 0..MaxPolls])
    /\ connected \in BOOLEAN /\ drops \in 0..MaxDrops
    /\ get \in {"reading", "answered", "done", "failed"}
    /\ unread \in SUBSET Pairs /\ snap \in [Pairs -> 0..MaxPolls]
    /\ mounted \in BOOLEAN
    /\ prices \in [Pairs -> 0..MaxPolls] /\ ticked \in SUBSET Traded
    /\ loading \in BOOLEAN /\ live \in BOOLEAN

\* The page never shows a version of the service's that the table does not hold
\* yet, by whichever route it came: a reload of the same page cannot take prices back.
ShownWasSaved == \A p \in Pairs : prices[p] <= db[p]

\* Nothing on its way to the page is ahead of the table.
InFlightWasSaved ==
    /\ \A p \in Pairs : snap[p] <= db[p]
    /\ \A i \in 1..Len(wire) : \A p \in wire[i].pairs : wire[i].at <= db[p]
    /\ \A p \in unsent : polls <= db[p]

\* The inductive invariant behind ShownWasSaved.
LiveInv == TypeOK /\ ShownWasSaved /\ InFlightWasSaved

\* The page stops loading, whether the snapshot resolves, rejects or is beaten by
\* the stream.
EventuallyLoaded == loading ~> (~loading \/ ~mounted)

\* Once the snapshot has settled, a version broadcast to the connected page is
\* shown, or a newer one, unless the connection drops first.
FreshEventually == \A p \in Pairs : \A v \in 1..MaxPolls :
    (connected /\ get \in {"done", "failed"} /\ saved /\ p \in unsent /\ polls = v)
        ~> (prices[p] >= v \/ ~connected)

\* What the comment on useLivePrices says: the snapshot is what is loaded first
\* ("Loads latest prices once .., then subscribes to the live price stream and
\* merges each broadcast batch", useLivePrices.ts:18), so once the page is live
\* a price it shows is never replaced by an older one of the snapshot.
SnapshotNeverRegresses ==
    [][live /\ get = "answered" /\ get' = "done"
           => \A p \in Pairs : prices'[p] >= prices[p]]_vars
=============================================================================
