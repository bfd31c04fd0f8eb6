---------------------------- MODULE OrderedFeed ----------------------------
(***************************************************************************)
(* What the price WebSocket promises its clients: batches 1, 2, 3, .. are  *)
(* published; a session begins with the first batch published after it was *)
(* opened and shows the client every batch from there on, in order, for as *)
(* long as it shows anything.  A session may end at any time; it never     *)
(* skips, repeats or reorders.                                             *)
(***************************************************************************)
EXTENDS Integers, Sequences

CONSTANT Conns

VARIABLES
    log,    \* batches published so far
    opened, \* sessions that were opened
    from,   \* the first batch of each session
    seen    \* what the client of each session was shown

vars == <<log, opened, from, seen>>

Init ==
    /\ log = 0
    /\ opened = {}
    /\ from = [c \in Conns |-> 0]
    /\ seen = [c \in Conns |-> <<>>]

Publish ==
    /\ log' = log + 1
    /\ UNCHANGED <<opened, from, seen>>

Open(c) ==
    /\ c \notin opened
    /\ opened' = opened \cup {c}
    /\ from' = [from EXCEPT ![c] = log + 1]
    /\ UNCHANGED <<log, seen>>

Show(c) ==
    /\ c \in opened
    /\ from[c] + Len(seen[c]) <= log
    /\ seen' = [seen EXCEPT ![c] = Append(@, from[c] + Len(@))]
    /\ UNCHANGED <<log, opened, from>>

Next == Publish \/ \E c \in Conns : Open(c) \/ Show(c)

Spec == Init /\ [][Next]_vars
=============================================================================
