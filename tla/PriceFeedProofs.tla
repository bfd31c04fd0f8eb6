-------------------------- MODULE PriceFeedProofs --------------------------
(***************************************************************************)
(* Proofs about PriceFeed, for any set of connections, any capacity of the *)
(* channel and of the transport.                                           *)
(***************************************************************************)
EXTENDS PriceFeed, TLAPS

\* Every step of one connection leaves the other connections' state alone, so the
\* invariant of a connection only needs its own state and the channel's tail.
ConnInv(c) == Contiguous(c) /\ CursorAccounts(c) /\ WithinLog(c)

\* Init establishes the bookkeeping invariant: no socket has been upgraded.
LEMMA FeedInit == Init => FeedInv
  BY FeedAssumption DEF Init, FeedInv, TypeOK, Contiguous, CursorAccounts, WithinLog

\* Every action keeps the types of all variables.
LEMMA FeedTypes == FeedInv /\ [Next]_vars => TypeOK'
<1> SUFFICES ASSUME FeedInv, [Next]_vars PROVE TypeOK'
  OBVIOUS
<1> USE FeedAssumption DEF FeedInv, TypeOK
<1>1. CASE Send
  BY <1>1 DEF Send, tasks
<1>2. ASSUME NEW c \in Conns, HandleSocket(c) PROVE TypeOK'
  BY <1>2 DEF HandleSocket
<1>3. ASSUME NEW c \in Conns, Recv(c) PROVE TypeOK'
  BY <1>3 DEF Recv
<1>4. ASSUME NEW c \in Conns, RecvLagged(c) PROVE TypeOK'
  BY <1>4 DEF RecvLagged
<1>5. ASSUME NEW c \in Conns, SendOk(c) PROVE TypeOK'
  <2>1. cursor[c] - 1 \in Nat
    BY <1>5 DEF SendOk, CursorAccounts
  <2>2. Append(wire[c], cursor[c] - 1) \in Seq(Nat)
    BY <2>1
  <2>3. QED
    BY <1>5, <2>2 DEF SendOk
<1>6. ASSUME NEW c \in Conns, SendErr(c) PROVE TypeOK'
  BY <1>6 DEF SendErr
<1>7. ASSUME NEW c \in Conns, RecvClose(c) PROVE TypeOK'
  BY <1>7 DEF RecvClose
<1>8. ASSUME NEW c \in Conns, NEW flushed \in BOOLEAN, CloseSocket(c, flushed)
      PROVE TypeOK'
  <2>1. flushed => Append(wire[c], cursor[c] - 1) \in Seq(Nat)
    BY <1>8 DEF CloseSocket, CursorAccounts
  <2>2. wire' \in [Conns -> Seq(Nat)]
    BY <1>8, <2>1 DEF CloseSocket
  <2>3. QED
    BY <1>8, <2>2 DEF CloseSocket
<1>9. ASSUME NEW c \in Conns, ClientRead(c) PROVE TypeOK'
  <2>1. Tail(wire[c]) \in Seq(Nat) /\ Append(got[c], Head(wire[c])) \in Seq(Nat)
    BY <1>9 DEF ClientRead
  <2>2. QED
    BY <1>9, <2>1 DEF ClientRead, tasks
<1>10. ASSUME NEW c \in Conns, ClientGone(c) PROVE TypeOK'
  BY <1>10 DEF ClientGone, tasks
<1>11. CASE UNCHANGED vars
  BY <1>11 DEF vars
<1>12. QED
  BY <1>1, <1>2, <1>3, <1>4, <1>5, <1>6, <1>7, <1>8, <1>9, <1>10, <1>11
     DEF Next, SendStep, CloseStep

\* A frame put on the wire extends the run by exactly the next batch.
LEMMA AppendKeepsRun ==
    ASSUME NEW s \in Seq(Nat), NEW k \in Nat, NEW m \in Nat,
           \A i \in 1..Len(s) : s[i] = k + i - 1, m = k + Len(s)
    PROVE  \A i \in 1..Len(Append(s, m)) : Append(s, m)[i] = k + i - 1
  OBVIOUS

\* Reading a frame removes the first batch of the run and moves its start by one.
LEMMA TailKeepsRun ==
    ASSUME NEW s \in Seq(Nat), NEW k \in Nat, s # <<>>,
           \A i \in 1..Len(s) : s[i] = k + i - 1
    PROVE  /\ Head(s) = k
           /\ Len(Tail(s)) = Len(s) - 1
           /\ \A i \in 1..Len(Tail(s)) : Tail(s)[i] = k + 1 + i - 1
  OBVIOUS

\* The invariant of one connection survives every step.
LEMMA FeedStep ==
    ASSUME FeedInv, [Next]_vars, NEW c \in Conns PROVE ConnInv(c)'
<1>0. TypeOK'
  BY FeedTypes
<1> USE FeedAssumption DEF FeedInv, TypeOK
<1> DEFINE Same == /\ cursor'[c] = cursor[c] /\ from'[c] = from[c]
                   /\ wire'[c] = wire[c] /\ got'[c] = got[c]
                   /\ tail' \in Nat /\ tail <= tail'
<1>a. ASSUME Same, conn'[c] = conn[c], sendTask'[c] = sendTask[c], recvTask'[c] = recvTask[c]
      PROVE  ConnInv(c)'
  BY <1>a, <1>0 DEF ConnInv, Contiguous, CursorAccounts, WithinLog
<1>b. ASSUME Same, conn[c] # "new", conn'[c] \in {"open", "closed"},
             sendTask'[c] \in {sendTask[c], "done"}, recvTask'[c] \in {recvTask[c], "done"},
             conn'[c] = "closed" => sendTask'[c] = "done" /\ recvTask'[c] = "done"
      PROVE  ConnInv(c)'
  BY <1>b, <1>0 DEF ConnInv, Contiguous, CursorAccounts, WithinLog
<1>c. ASSUME conn[c] # "new", sendTask[c] = "send", conn'[c] # "new",
             sendTask'[c] \in {"recv", "done"},
             conn'[c] = "closed" => sendTask'[c] = "done" /\ recvTask'[c] = "done",
             wire'[c] = Append(wire[c], cursor[c] - 1), got'[c] = got[c],
             cursor'[c] = cursor[c], from'[c] = from[c], tail' = tail
      PROVE  ConnInv(c)'
  <2> DEFINE k == from[c] + Len(got[c])
  <2>1. /\ \A i \in 1..Len(wire[c]) : wire[c][i] = k + i - 1
        /\ cursor[c] - 1 = k + Len(wire[c]) /\ k \in Nat /\ cursor[c] - 1 \in Nat
        /\ wire[c] \in Seq(Nat)
    BY <1>c DEF Contiguous, CursorAccounts
  <2>2. \A i \in 1..Len(wire'[c]) : wire'[c][i] = k + i - 1
    BY <1>c, <2>1, AppendKeepsRun
  <2>3. Contiguous(c)'
    BY <1>c, <2>2 DEF Contiguous
  <2>4. Len(wire'[c]) = Len(wire[c]) + 1
    BY <1>c, <2>1
  <2>5. QED
    BY <1>c, <1>0, <2>3, <2>4 DEF ConnInv, CursorAccounts, WithinLog
<1>1. CASE Send
  BY <1>1, <1>a DEF Send, tasks
<1>2. ASSUME NEW d \in Conns, HandleSocket(d) PROVE ConnInv(c)'
  <2>1. CASE d = c
    BY <1>2, <2>1, <1>0 DEF HandleSocket, ConnInv, Contiguous, CursorAccounts, WithinLog
  <2>2. CASE d # c
    BY <1>2, <2>2, <1>a DEF HandleSocket
  <2>3. QED
    BY <2>1, <2>2
<1>3. ASSUME NEW d \in Conns, Recv(d) PROVE ConnInv(c)'
  <2>1. CASE d = c
    BY <1>3, <2>1, <1>0 DEF Recv, ConnInv, Contiguous, CursorAccounts, WithinLog
  <2>2. CASE d # c
    BY <1>3, <2>2, <1>a DEF Recv
  <2>3. QED
    BY <2>1, <2>2
<1>4. ASSUME NEW d \in Conns, RecvLagged(d) PROVE ConnInv(c)'
  <2>1. CASE d = c
    BY <1>4, <2>1, <1>b DEF RecvLagged, WithinLog
  <2>2. CASE d # c
    BY <1>4, <2>2, <1>a DEF RecvLagged
  <2>3. QED
    BY <2>1, <2>2
<1>5. ASSUME NEW d \in Conns, SendOk(d) PROVE ConnInv(c)'
  <2>1. CASE d = c
    BY <1>5, <2>1, <1>c DEF SendOk, WithinLog
  <2>2. CASE d # c
    BY <1>5, <2>2, <1>a DEF SendOk
  <2>3. QED
    BY <2>1, <2>2
<1>6. ASSUME NEW d \in Conns, SendErr(d) PROVE ConnInv(c)'
  <2>1. CASE d = c
    BY <1>6, <2>1, <1>b DEF SendErr, WithinLog
  <2>2. CASE d # c
    BY <1>6, <2>2, <1>a DEF SendErr
  <2>3. QED
    BY <2>1, <2>2
<1>7. ASSUME NEW d \in Conns, RecvClose(d) PROVE ConnInv(c)'
  <2>1. CASE d = c
    BY <1>7, <2>1, <1>b DEF RecvClose, WithinLog
  <2>2. CASE d # c
    BY <1>7, <2>2, <1>a DEF RecvClose
  <2>3. QED
    BY <2>1, <2>2
<1>8. ASSUME NEW d \in Conns, NEW flushed \in BOOLEAN, CloseSocket(d, flushed)
      PROVE ConnInv(c)'
  <2>1. CASE d = c /\ flushed
    BY <1>8, <2>1, <1>c DEF CloseSocket
  <2>2. CASE d = c /\ ~flushed
    BY <1>8, <2>2, <1>b DEF CloseSocket
  <2>3. CASE d # c
    BY <1>8, <2>3, <1>a DEF CloseSocket
  <2>4. QED
    BY <2>1, <2>2, <2>3
<1>9. ASSUME NEW d \in Conns, ClientRead(d) PROVE ConnInv(c)'
  <2>1. CASE d = c
    <3> DEFINE k == from[c] + Len(got[c])
    <3>1. /\ wire[c] \in Seq(Nat) /\ k \in Nat /\ wire[c] # <<>>
          /\ \A i \in 1..Len(wire[c]) : wire[c][i] = k + i - 1
      BY <1>9, <2>1 DEF ClientRead, Contiguous
    <3>2. /\ Head(wire[c]) = k
          /\ Len(Tail(wire[c])) = Len(wire[c]) - 1
          /\ \A i \in 1..Len(Tail(wire[c])) : Tail(wire[c])[i] = k + 1 + i - 1
      BY <3>1, TailKeepsRun
    <3>3. /\ got'[c] = Append(got[c], k) /\ wire'[c] = Tail(wire[c])
          /\ from'[c] = from[c] /\ cursor'[c] = cursor[c] /\ tail' = tail
          /\ conn'[c] = conn[c] /\ sendTask'[c] = sendTask[c] /\ recvTask'[c] = recvTask[c]
      BY <1>9, <2>1, <3>2 DEF ClientRead, tasks
    <3>4. /\ got[c] \in Seq(Nat) /\ from[c] \in Nat
          /\ \A i \in 1..Len(got[c]) : got[c][i] = from[c] + i - 1
      BY DEF Contiguous
    <3>5. \A i \in 1..Len(got'[c]) : got'[c][i] = from[c] + i - 1
      BY <3>3, <3>4, <3>1, AppendKeepsRun
    <3>6. Len(got'[c]) = Len(got[c]) + 1 /\ Len(wire'[c]) = Len(wire[c]) - 1
      BY <3>1, <3>2, <3>3, <3>4
    <3>a. Len(got[c]) \in Nat /\ Len(wire[c]) \in Nat /\ cursor[c] \in Nat /\ tail \in Nat
      BY <3>1, <3>4
    <3>b. ASSUME NEW i \in 1..Len(wire'[c])
          PROVE  wire'[c][i] = from'[c] + Len(got'[c]) + i - 1
      <4>1. wire'[c][i] = k + 1 + i - 1
        BY ONLY <3>2, <3>3, <3>b
      <4>2. Len(got'[c]) = Len(got[c]) + 1 /\ from'[c] = from[c]
        BY ONLY <3>3, <3>6
      <4>3. \A f, g, j \in Int : f + (g + 1) + j - 1 = (f + g) + 1 + j - 1
        OBVIOUS
      <4>4. i \in Int /\ from[c] \in Int /\ Len(got[c]) \in Int
        BY ONLY <3>4, <3>a
      <4>5. from[c] + (Len(got[c]) + 1) + i - 1 = k + 1 + i - 1
        BY ONLY <4>3, <4>4
      <4> QED
        BY ONLY <4>1, <4>2, <4>5
    <3>7. Contiguous(c)'
      BY <3>3, <3>5, <3>b DEF Contiguous
    <3>8. conn[c] # "new"
      BY <3>1 DEF WithinLog
    <3>c. \A f, g, w \in Nat : f + (g + 1) + (w - 1) = f + g + w
      OBVIOUS
    <3>g. from[c] + (Len(got[c]) + 1) + (Len(wire[c]) - 1) = from[c] + Len(got[c]) + Len(wire[c])
      BY ONLY <3>4, <3>a, <3>c
    <3>h. from'[c] = from[c]
      BY ONLY <3>3
    <3>d. from'[c] + Len(got'[c]) + Len(wire'[c]) = from[c] + Len(got[c]) + Len(wire[c])
      BY ONLY <3>6, <3>g, <3>h
    <3>e. CursorAccounts(c)'
      BY <3>3, <3>d DEF CursorAccounts
    <3>f. WithinLog(c)'
      BY <3>3, <3>8, <3>d DEF WithinLog
    <3>9. QED
      BY <3>7, <3>e, <3>f DEF ConnInv
  <2>2. CASE d # c
    BY <1>9, <2>2, <1>a DEF ClientRead, tasks
  <2>3. QED
    BY <2>1, <2>2
<1>10. ASSUME NEW d \in Conns, ClientGone(d) PROVE ConnInv(c)'
  BY <1>10, <1>a DEF ClientGone, tasks
<1>11. CASE UNCHANGED vars
  BY <1>11, <1>a DEF vars
<1>12. QED
  BY <1>1, <1>2, <1>3, <1>4, <1>5, <1>6, <1>7, <1>8, <1>9, <1>10, <1>11
     DEF Next, SendStep, CloseStep

\* The bookkeeping of every handle_socket is right in every reachable state.
THEOREM FeedInvariant == Spec => []FeedInv
<1>1. FeedInv /\ [Next]_vars => FeedInv'
  BY FeedTypes, FeedStep DEF FeedInv, ConnInv
<1>2. QED
  BY FeedInit, <1>1, PTL DEF Spec

\* No client ever sees a gap, a repetition or a reordering: a connection that
\* lags behind the broadcast channel is cut off instead (websocket.rs:29).
THEOREM FeedContiguous == Spec => []ContiguousDelivery
<1>1. FeedInv => ContiguousDelivery
  BY DEF FeedInv, ContiguousDelivery
<1>2. QED
  BY FeedInvariant, <1>1, PTL

\* The fan-out implements the abstract ordered feed: every step publishes, opens
\* a session, shows the next batch of one session, or is invisible.
THEOREM FeedRefinement == Spec => ImplementsOrderedFeed
<1> DEFINE up == {c \in Conns : conn[c] # "new"}
<1>1. Init => Feed!Init
  BY DEF Init, Feed!Init
<1>2. FeedInv /\ [Next]_vars => [Feed!Next]_(Feed!vars)
  <2> SUFFICES ASSUME FeedInv, [Next]_vars PROVE [Feed!Next]_(Feed!vars)
    OBVIOUS
  <2> USE FeedAssumption DEF FeedInv, TypeOK
  <2>1. CASE Send
    BY <2>1 DEF Send, Feed!Next, Feed!Publish
  <2>2. ASSUME NEW c \in Conns, HandleSocket(c) PROVE Feed!Open(c)
    <3>1. up' = up \cup {c} /\ c \notin up
      BY <2>2 DEF HandleSocket
    <3>2. QED
      BY <2>2, <3>1 DEF HandleSocket, Feed!Open
  <2>3. ASSUME NEW c \in Conns, ClientRead(c) PROVE Feed!Show(c)
    <3>1. wire[c] # <<>> /\ wire[c] \in Seq(Nat) /\ from[c] + Len(got[c]) \in Nat
      BY <2>3 DEF ClientRead
    <3>2. Head(wire[c]) = from[c] + Len(got[c])
      BY <3>1, TailKeepsRun DEF Contiguous
    <3>3. c \in up /\ from[c] + Len(got[c]) <= tail
      BY <3>1 DEF WithinLog
    <3>4. QED
      BY <2>3, <3>2, <3>3 DEF ClientRead, Feed!Show
  <2>4. ASSUME NEW c \in Conns,
               SendStep(c) \/ RecvClose(c) \/ CloseStep(c) \/ ClientGone(c)
        PROVE  UNCHANGED Feed!vars
    <3>1. /\ tail' = tail /\ from' = from /\ got' = got
          /\ conn' = conn \/ (conn[c] = "open" /\ conn' = [conn EXCEPT ![c] = "closed"])
      BY <2>4 DEF SendStep, Recv, RecvLagged, SendOk, SendErr, RecvClose, CloseStep,
                  CloseSocket, ClientGone, tasks
    <3>2. up' = up
      BY <3>1
    <3>3. QED
      BY <3>1, <3>2 DEF Feed!vars
  <2>5. CASE UNCHANGED vars
    BY <2>5 DEF vars, Feed!vars
  <2>6. QED
    BY <2>1, <2>2, <2>3, <2>4, <2>5 DEF Next, Feed!Next
<1>3. QED
  BY <1>1, <1>2, FeedInvariant, PTL DEF Spec, ImplementsOrderedFeed, Feed!Spec
=============================================================================
