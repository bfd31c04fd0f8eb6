---------------------------- MODULE RequestGate ----------------------------
(***************************************************************************)
(* The middleware in front of every handler (router.rs) and the per-IP     *)
(* fixed-window limiter it consults (rate_limit.rs).                       *)
(*                                                                         *)
(* Requests run on several workers.  check() reads the clock before it     *)
(* takes the lock, so requests can be counted in another order than their  *)
(* clock readings; at most MaxDelay passes between the two.  Preflight     *)
(* requests never get here: the CORS layer around it answers them.         *)
(***************************************************************************)
EXTENDS Integers, Sequences, FiniteSets

CONSTANTS
    Ips,
    Limits,       \* values RATE_LIMIT_PER_MIN may be set to, 0 = off
    Window,       \* one minute
    MaxDelay,     \* bound: time between reading the clock and taking the lock
    MaxTime,      \* bound: time
    MaxRequests   \* bound: requests

ASSUME GateAssumption ==
    /\ Limits \subseteq Nat
    /\ {MaxDelay, MaxTime, MaxRequests} \subseteq Nat
    /\ Window \in Nat \ {0} /\ MaxDelay < Window

VARIABLES
    max,      \* max_per_window, set at start-up
    time,     \* the monotonic clock
    http,     \* AppMetrics.http_requests
    hits,     \* the limiter's map: window start and count of an IP, once seen
    waiting,  \* how many requests of an IP read the clock at a time and now
              \* wait for the lock
    done      \* history: requests in the order they were decided, when, and in which
              \* window they were counted

vars == <<max, time, http, hits, waiting, done>>

Seen == {ip \in Ips : hits[ip].count > 0}

Init ==
    /\ max \in Limits
    /\ time = 0 /\ http = 0
    /\ hits = [ip \in Ips |-> [start |-> 0, count |-> 0]]
    /\ waiting = [ip \in Ips |-> [t \in 0..MaxTime |-> 0]]
    /\ done = <<>>

-----------------------------------------------------------------------------
Tick ==
    /\ time < MaxTime
    /\ \A ip \in Ips : \A t \in 0..MaxTime :
           waiting[ip][t] > 0 => time - t < MaxDelay
    /\ time' = time + 1
    /\ UNCHANGED <<max, http, hits, waiting, done>>

\* A request is counted and enters check(), which with a limit of 0 returns at
\* once.
Enter(ip) ==
    /\ http < MaxRequests
    /\ http' = http + 1
    /\ IF max = 0
       THEN done' = Append(done, [ip |-> ip, at |-> time, ok |-> TRUE, win |-> time]) /\ UNCHANGED waiting
       ELSE waiting' = [waiting EXCEPT ![ip][time] = @ + 1] /\ UNCHANGED done
    /\ UNCHANGED <<max, time, hits>>

\* now.duration_since(start) saturates at zero.
Since(now, start) == IF now > start THEN now - start ELSE 0

\* The entry a request is counted in: the current one, or a new one if there is
\* none or its window is over.
Entry(ip, now) ==
    IF ip \notin Seen \/ Since(now, hits[ip].start) > Window
    THEN [start |-> now, count |-> 0]
    ELSE hits[ip]

\* The decision on a request: entry.count + 1 <= max.
Decide(ip, now, count) ==
    /\ waiting[ip][now] > 0
    /\ waiting' = [waiting EXCEPT ![ip][now] = @ - 1]
    /\ done' = Append(done, [ip |-> ip, at |-> time, ok |-> count <= max,
                             win |-> Entry(ip, now).start])
    /\ UNCHANGED <<max, time, http>>

MutCheck(ip, now) ==
    /\ Decide(ip, now, Entry(ip, now).count)
    /\ hits' = [hits EXCEPT ![ip] = [Entry(ip, now) EXCEPT !.count = @ + 1]]

MutCheckSliding(ip, now) ==
    /\ Decide(ip, now, Entry(ip, now).count + 1)
    /\ hits' = [hits EXCEPT ![ip] = [start |-> now, count |-> Entry(ip, now).count + 1]]

\* check() under the lock; the request goes on to its handler or gets a 429.
Check(ip, now) ==
    /\ Decide(ip, now, Entry(ip, now).count + 1)
    /\ hits' = [hits EXCEPT ![ip] = [Entry(ip, now) EXCEPT !.count = @ + 1]]

Next == Tick \/ \E ip \in Ips : Enter(ip) \/ \E now \in 0..MaxTime : Check(ip, now)

Spec == Init /\ [][Next]_vars

-----------------------------------------------------------------------------
(* Properties. *)

\* Every variable keeps its type.
TypeOK ==
    /\ max \in Limits /\ time \in 0..MaxTime /\ http \in 0..MaxRequests
    /\ hits \in [Ips -> [start : 0..MaxTime, count : Nat]]
    /\ waiting \in [Ips -> [0..MaxTime -> Nat]]
    /\ done \in Seq([ip : Ips, at : 0..MaxTime, ok : BOOLEAN, win : 0..MaxTime])

\* Requests of an IP admitted within a minute that starts at t.
Admitted(ip, t) ==
    {i \in DOMAIN done : done[i].ok /\ done[i].ip = ip /\ done[i].at \in t..(t + Window)}

\* How far the limiter may exceed "Max requests per IP per minute" (README.md:314).
\* However the requests of an IP are spread over windows and threads, a minute
\* sees at most two windows' worth of them, or nearly three if the lock is
\* contended: a whole window then fits in between the end of one and the start
\* of another (on a clock of whole steps, from a delay of two).
BurstBound ==
    max > 0 => \A ip \in Ips : \A t \in 0..MaxTime :
        Cardinality(Admitted(ip, t)) <= (IF MaxDelay < 2 THEN 2 * max ELSE 3 * max - 1)

\* A request is rejected only if its IP had a full budget admitted within the
\* last minute (give or take the lock): rejected requests do not extend the
\* window, one IP never spends another's budget, and a limit of 0 rejects nobody.
RejectedOnlyOverBudget ==
    \A i \in DOMAIN done : ~done[i].ok => max > 0 /\
        Cardinality({j \in 1..(i - 1) : done[j].ok /\ done[j].ip = done[i].ip
                        /\ done[i].at - done[j].at <= Window + MaxDelay}) >= max

\* Every decision of the limiter is the one its budget calls for.
GateInv == TypeOK /\ RejectedOnlyOverBudget
=============================================================================
