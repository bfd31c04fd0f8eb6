----------------------------- MODULE PriceFeed -----------------------------
(***************************************************************************)
(* The fan-out of saved batches to WebSocket clients: the tokio broadcast  *)
(* channel of main.rs and the two tasks handle_socket (websocket.rs) runs  *)
(* for each connection.                                                    *)
(*                                                                         *)
(* Batches are numbered in the order they are broadcast.  The channel is a *)
(* ring of Cap values: a receiver whose cursor fell off the ring gets      *)
(* Err(Lagged), which ends its send task exactly as a closed channel does. *)
(* Each member of Conns is one socket, from upgrade to close.              *)
(***************************************************************************)
EXTENDS Integers, Sequences

CONSTANTS
    Conns,
    Cap,        \* broadcast::channel(16)
    WireCap,    \* frames the transport takes before sender.send blocks
    MaxBatches  \* bound: batches broadcast

ASSUME FeedAssumption ==
    Cap \in Nat \ {0} /\ WireCap \in Nat \ {0} /\ MaxBatches \in Nat

VARIABLES
    tail,      \* batches broadcast so far
    conn,      \* "new", "open" while handle_socket runs, then "closed"
    cursor,    \* the channel receiver: number of the next batch to read
    from,      \* history: where the receiver subscribed
    sendTask,  \* "recv" in rx.recv, "send" in sender.send, "done"
    recvTask,  \* "run" in receiver.next, "done"
    peer,      \* FALSE once the client's close, or an error, reached the server
    wire,      \* frames sent and not yet read by the client
    got        \* batches the client read

vars == <<tail, conn, cursor, from, sendTask, recvTask, peer, wire, got>>
tasks == <<sendTask, recvTask>>

Init ==
    /\ tail = 0
    /\ conn = [c \in Conns |-> "new"]
    /\ cursor = [c \in Conns |-> 0]
    /\ from = [c \in Conns |-> 0]
    /\ sendTask = [c \in Conns |-> "done"]
    /\ recvTask = [c \in Conns |-> "done"]
    /\ peer = [c \in Conns |-> TRUE]
    /\ wire = [c \in Conns |-> <<>>]
    /\ got = [c \in Conns |-> <<>>]

-----------------------------------------------------------------------------
\* broadcaster.send(prices) overwrites the oldest value and never waits.
Send ==
    /\ tail < MaxBatches
    /\ tail' = tail + 1
    /\ UNCHANGED <<conn, cursor, from, tasks, peer, wire, got>>

MutHandleSocket(c) ==
    /\ conn[c] = "new"
    /\ conn' = [conn EXCEPT ![c] = "open"]
    /\ cursor' = [cursor EXCEPT ![c] = tail]
    /\ from' = [from EXCEPT ![c] = tail + 1]
    /\ sendTask' = [sendTask EXCEPT ![c] = "recv"]
    /\ recvTask' = [recvTask EXCEPT ![c] = "run"]
    /\ UNCHANGED <<tail, peer, wire, got>>

\* The upgrade is done: subscribe (a receiver sees later values only) and spawn
\* both tasks.
HandleSocket(c) ==
    /\ conn[c] = "new"
    /\ conn' = [conn EXCEPT ![c] = "open"]
    /\ cursor' = [cursor EXCEPT ![c] = tail + 1]
    /\ from' = [from EXCEPT ![c] = tail + 1]
    /\ sendTask' = [sendTask EXCEPT ![c] = "recv"]
    /\ recvTask' = [recvTask EXCEPT ![c] = "run"]
    /\ UNCHANGED <<tail, peer, wire, got>>

\* The receiver's next value was overwritten.
Lags(c) == tail - cursor[c] >= Cap

\* rx.recv() returns the next value.
Recv(c) ==
    /\ sendTask[c] = "recv" /\ cursor[c] <= tail /\ ~Lags(c)
    /\ cursor' = [cursor EXCEPT ![c] = @ + 1]
    /\ sendTask' = [sendTask EXCEPT ![c] = "send"]
    /\ UNCHANGED <<tail, conn, from, recvTask, peer, wire, got>>

MutRecvLagged(c) ==
    /\ sendTask[c] = "recv" /\ Lags(c)
    /\ cursor' = [cursor EXCEPT ![c] = tail - Cap + 1]
    /\ UNCHANGED <<tail, conn, from, tasks, peer, wire, got>>

\* rx.recv() returns Err(Lagged): the while-let loop ends.
RecvLagged(c) ==
    /\ sendTask[c] = "recv" /\ Lags(c)
    /\ sendTask' = [sendTask EXCEPT ![c] = "done"]
    /\ UNCHANGED <<tail, conn, cursor, from, recvTask, peer, wire, got>>

\* sender.send(..) completes once the transport has room for the frame.
SendOk(c) ==
    /\ sendTask[c] = "send" /\ Len(wire[c]) < WireCap
    /\ wire' = [wire EXCEPT ![c] = Append(@, cursor[c] - 1)]
    /\ sendTask' = [sendTask EXCEPT ![c] = "recv"]
    /\ UNCHANGED <<tail, conn, cursor, from, recvTask, peer, got>>

\* sender.send(..) fails because the connection is gone.
SendErr(c) ==
    /\ sendTask[c] = "send" /\ ~peer[c]
    /\ sendTask' = [sendTask EXCEPT ![c] = "done"]
    /\ UNCHANGED <<tail, conn, cursor, from, recvTask, peer, wire, got>>

\* receiver.next() yields a Close message, an error or the end of the stream.
RecvClose(c) ==
    /\ recvTask[c] = "run" /\ ~peer[c]
    /\ recvTask' = [recvTask EXCEPT ![c] = "done"]
    /\ UNCHANGED <<tail, conn, cursor, from, sendTask, peer, wire, got>>

MutCloseSocket(c, flushed) ==
    /\ conn[c] = "open" /\ sendTask[c] = "done" /\ recvTask[c] = "done"
    /\ wire' = IF flushed THEN wire ELSE [wire EXCEPT ![c] = <<>>]
    /\ conn' = [conn EXCEPT ![c] = "closed"]
    /\ UNCHANGED <<tail, cursor, from, tasks, peer, got>>

\* The select: one task ended, the other is aborted and both halves of the
\* socket are dropped.  A send aborted halfway may or may not have flushed.
CloseSocket(c, flushed) ==
    /\ conn[c] = "open" /\ (sendTask[c] = "done" \/ recvTask[c] = "done")
    /\ flushed => sendTask[c] = "send" /\ Len(wire[c]) < WireCap
    /\ wire' = IF flushed THEN [wire EXCEPT ![c] = Append(@, cursor[c] - 1)] ELSE wire
    /\ conn' = [conn EXCEPT ![c] = "closed"]
    /\ sendTask' = [sendTask EXCEPT ![c] = "done"]
    /\ recvTask' = [recvTask EXCEPT ![c] = "done"]
    /\ UNCHANGED <<tail, cursor, from, peer, got>>

-----------------------------------------------------------------------------
(* The client's end of the socket (external). *)

ClientRead(c) ==
    /\ peer[c] /\ wire[c] # <<>>
    /\ got' = [got EXCEPT ![c] = Append(@, Head(wire[c]))]
    /\ wire' = [wire EXCEPT ![c] = Tail(@)]
    /\ UNCHANGED <<tail, conn, cursor, from, tasks, peer>>

ClientGone(c) ==
    /\ conn[c] = "open" /\ peer[c]
    /\ peer' = [peer EXCEPT ![c] = FALSE]
    /\ UNCHANGED <<tail, conn, cursor, from, tasks, wire, got>>

-----------------------------------------------------------------------------
SendStep(c)  == Recv(c) \/ RecvLagged(c) \/ SendOk(c) \/ SendErr(c)
CloseStep(c) == \E flushed \in BOOLEAN : CloseSocket(c, flushed)

Next == Send \/ \E c \in Conns : HandleSocket(c) \/ SendStep(c) \/ RecvClose(c)
                   \/ CloseStep(c) \/ ClientRead(c) \/ ClientGone(c)

Spec == Init /\ [][Next]_vars

\* The runtime runs every ready task.  A client is not obliged to read.
ServerFairness == \A c \in Conns :
    WF_vars(SendStep(c)) /\ WF_vars(RecvClose(c)) /\ WF_vars(CloseStep(c))

FairSpec == Spec /\ ServerFairness /\ \A c \in Conns : WF_vars(ClientRead(c))

-----------------------------------------------------------------------------
(* Properties. *)

\* Every variable keeps its type.
TypeOK ==
    /\ tail \in 0..MaxBatches
    /\ conn \in [Conns -> {"new", "open", "closed"}]
    /\ cursor \in [Conns -> Nat]
    /\ from \in [Conns -> Nat]
    /\ sendTask \in [Conns -> {"recv", "send", "done"}]
    /\ recvTask \in [Conns -> {"run", "done"}]
    /\ peer \in [Conns -> BOOLEAN]
    /\ wire \in [Conns -> Seq(Nat)]
    /\ got \in [Conns -> Seq(Nat)]

\* What a client read, followed by what is on its way, is an unbroken ascending
\* run of batches from the one published first after it subscribed: a client
\* that cannot keep up is cut off, it is never silently skipped ahead.
Contiguous(c) ==
    /\ \A i \in 1..Len(got[c]) : got[c][i] = from[c] + i - 1
    /\ \A i \in 1..Len(wire[c]) : wire[c][i] = from[c] + Len(got[c]) + i - 1
ContiguousDelivery == \A c \in Conns : Contiguous(c)

\* The cursor of a live send task accounts for every batch it took.
CursorAccounts(c) ==
    /\ sendTask[c] = "recv" => cursor[c] = from[c] + Len(got[c]) + Len(wire[c])
    /\ sendTask[c] = "send" => cursor[c] = from[c] + Len(got[c]) + Len(wire[c]) + 1

\* No client is ahead of the channel, and nothing exists before the upgrade.
WithinLog(c) ==
    /\ conn[c] # "new" => from[c] + Len(got[c]) + Len(wire[c]) <= tail + 1
    /\ sendTask[c] = "send" => from[c] + Len(got[c]) + Len(wire[c]) <= tail
    /\ conn[c] = "new" => /\ wire[c] = <<>> /\ got[c] = <<>> /\ from[c] = 0
                          /\ sendTask[c] = "done" /\ recvTask[c] = "done"
    /\ conn[c] = "closed" => sendTask[c] = "done" /\ recvTask[c] = "done"

\* The inductive invariant behind ContiguousDelivery: the bookkeeping that ties
\* each handle_socket's receiver to what its client was sent.
FeedInv == /\ TypeOK
           /\ \A c \in Conns : Contiguous(c) /\ CursorAccounts(c) /\ WithinLog(c)

\* Once either task of a connection has ended, handle_socket returns.
TasksEndTogether == \A c \in Conns :
    (conn[c] = "open" /\ (sendTask[c] = "done" \/ recvTask[c] = "done"))
        ~> (conn[c] = "closed")

\* A batch published while a reading client is connected reaches it or the
\* connection ends: no third outcome, however far the client fell behind.
DeliveredOrCut == \A c \in Conns : \A n \in 1..MaxBatches :
    (conn[c] = "open" /\ from[c] <= n /\ n <= tail)
        ~> (conn[c] = "closed" \/ \E i \in 1..Len(got[c]) : got[c][i] = n)

\* The fan-out implements the ordered feed its clients rely on.
Feed == INSTANCE OrderedFeed WITH
            log <- tail, opened <- {c \in Conns : conn[c] # "new"}, seen <- got
ImplementsOrderedFeed == Feed!Spec
=============================================================================
