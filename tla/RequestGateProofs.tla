------------------------- MODULE RequestGateProofs -------------------------
(***************************************************************************)
(* Proofs about RequestGate: for any clients, budget and window, however   *)
(* long requests wait for the lock and in whatever order they get it, a    *)
(* request is rejected only if its IP's budget was spent in its minute.    *)
(***************************************************************************)
EXTENDS RequestGate, FiniteSetTheorems, TLAPS

Decision == [ip : Ips, at : 0..MaxTime, ok : BOOLEAN, win : 0..MaxTime]

\* The requests of an IP admitted at or after a moment.
AdmittedFrom(s, ip, start) == {j \in DOMAIN s : s[j].ok /\ s[j].ip = ip /\ start <= s[j].at}

\* A request waits for the lock no longer than MaxDelay, and only if there is a limit.
WaitsShort ==
    \A ip \in Ips : \A t \in 0..MaxTime :
        waiting[ip][t] > 0 => t <= time /\ time - t <= MaxDelay /\ max > 0

\* What an entry counts was admitted since its window began, up to the budget.
CountBacked ==
    \A ip \in Ips : hits[ip].count > 0 =>
        /\ hits[ip].start <= time
        /\ Cardinality(AdmittedFrom(done, ip, hits[ip].start))
               >= IF hits[ip].count <= max THEN hits[ip].count ELSE max

IInv == TypeOK /\ RejectedOnlyOverBudget /\ WaitsShort /\ CountBacked

-----------------------------------------------------------------------------
(* Counting the admitted. *)

\* There are finitely many of them.
LEMMA AdmittedFinite ==
    ASSUME NEW s \in Seq(Decision), NEW ip, NEW start
    PROVE  /\ IsFiniteSet(AdmittedFrom(s, ip, start))
           /\ Cardinality(AdmittedFrom(s, ip, start)) \in Nat
<1>1. Len(s) \in Nat /\ DOMAIN s = 1..Len(s)
  OBVIOUS
<1>2. IsFiniteSet(1..Len(s))
  BY <1>1, FS_Interval
<1>3. AdmittedFrom(s, ip, start) \subseteq 1..Len(s)
  BY <1>1 DEF AdmittedFrom
<1> QED  BY <1>2, <1>3, FS_Subset, FS_CardinalityType

\* One more decision is one more admitted request, or none.
LEMMA AdmittedAppend ==
    ASSUME NEW s \in Seq(Decision), NEW d \in Decision, NEW ip, NEW start
    PROVE  Cardinality(AdmittedFrom(Append(s, d), ip, start))
             = IF d.ok /\ d.ip = ip /\ start <= d.at
               THEN Cardinality(AdmittedFrom(s, ip, start)) + 1
               ELSE Cardinality(AdmittedFrom(s, ip, start))
<1> DEFINE n == Len(s) + 1
           A == AdmittedFrom(s, ip, start)
           B == AdmittedFrom(Append(s, d), ip, start)
<1>1. /\ Len(s) \in Nat /\ DOMAIN s = 1..Len(s) /\ DOMAIN Append(s, d) = 1..n
      /\ \A j \in 1..Len(s) : Append(s, d)[j] = s[j]
      /\ Append(s, d)[n] = d
  OBVIOUS
<1>2. n \notin A
  BY <1>1 DEF AdmittedFrom
<1>3. 1..n = (1..Len(s)) \cup {n}
  BY <1>1
<1>4. CASE d.ok /\ d.ip = ip /\ start <= d.at
  <2>1. B = A \cup {n}
    BY <1>1, <1>3, <1>4 DEF AdmittedFrom
  <2>2. IsFiniteSet(A)
    BY AdmittedFinite
  <2> HIDE DEF A, B
  <2>3. Cardinality(B) = Cardinality(A) + 1
    BY <1>2, <2>1, <2>2, FS_AddElement
  <2> QED  BY <1>4, <2>3 DEF A, B
<1>5. CASE ~(d.ok /\ d.ip = ip /\ start <= d.at)
  <2>1. B = A
    BY <1>1, <1>3, <1>5 DEF AdmittedFrom
  <2> QED  BY <1>5, <2>1
<1> QED  BY <1>4, <1>5

\* The budget that was spent when a request was rejected stays spent: a decision is
\* never taken back, and a new one changes nothing for those before it.
Spent(s, i) ==
    {j \in 1..(i - 1) : s[j].ok /\ s[j].ip = s[i].ip /\ s[i].at - s[j].at <= Window + MaxDelay}

\* A decision leaves those before it as they were.
LEMMA RejectionsStand ==
    ASSUME TypeOK, RejectedOnlyOverBudget, NEW d \in Decision, done' = Append(done, d), max' = max,
           ~d.ok => max > 0 /\ Cardinality(Spent(done', Len(done) + 1)) >= max
    PROVE  RejectedOnlyOverBudget'
<1>1. /\ done \in Seq(Decision) /\ Len(done) \in Nat /\ DOMAIN done = 1..Len(done)
      /\ DOMAIN done' = 1..(Len(done) + 1)
      /\ \A j \in 1..Len(done) : done'[j] = done[j]
      /\ done'[Len(done) + 1] = d
  BY DEF TypeOK, Decision
<1>2. ASSUME NEW i \in 1..Len(done) PROVE Spent(done', i) = Spent(done, i)
  <2>1. \A j \in 1..(i - 1) : j \in 1..Len(done)
    BY <1>1
  <2> QED  BY <1>1, <2>1 DEF Spent
<1>3. ASSUME NEW i \in DOMAIN done', ~done'[i].ok
      PROVE  max > 0 /\ Cardinality(Spent(done', i)) >= max
  <2>1. CASE i = Len(done) + 1
    BY <1>1, <1>3, <2>1
  <2>2. CASE i \in 1..Len(done)
    <3>1. ~done[i].ok
      BY <1>1, <1>3, <2>2
    <3>2. max > 0 /\ Cardinality(Spent(done, i)) >= max
      BY <1>1, <2>2, <3>1 DEF RejectedOnlyOverBudget, Spent
    <3> QED  BY <1>2, <2>2, <3>2
  <2> QED  BY <1>1, <2>1, <2>2
<1> QED  BY <1>3 DEF RejectedOnlyOverBudget, Spent

-----------------------------------------------------------------------------
(* One lemma per step. *)

\* Time passes only as far as every request that waits can bear.
LEMMA TickKeeps == ASSUME IInv, Tick PROVE IInv'
<1> USE GateAssumption DEF IInv, Tick
<1>1. time \in Nat /\ time' = time + 1 /\ time' \in 0..MaxTime
  BY DEF TypeOK
<1>2. TypeOK'
  BY <1>1 DEF TypeOK
<1>3. WaitsShort'
  <2> SUFFICES ASSUME NEW ip \in Ips, NEW t \in 0..MaxTime, waiting[ip][t] > 0
               PROVE  t <= time + 1 /\ (time + 1) - t <= MaxDelay /\ max > 0
    BY <1>1 DEF WaitsShort
  <2>1. t <= time /\ max > 0 /\ time - t < MaxDelay
    BY DEF WaitsShort
  <2> QED  BY <1>1, <2>1
<1>4. CountBacked'
  <2>1. ASSUME NEW ip \in Ips, hits[ip].count > 0 PROVE hits[ip].start <= time'
    <3>1. hits[ip].start \in Int /\ hits[ip].start <= time
      BY <2>1 DEF TypeOK, CountBacked
    <3> QED  BY <1>1, <3>1
  <2> QED  BY <2>1 DEF CountBacked
<1>5. RejectedOnlyOverBudget'
  BY DEF RejectedOnlyOverBudget
<1> QED  BY <1>2, <1>3, <1>4, <1>5

\* A request that enters waits from now on, or is admitted for want of a limit.
LEMMA EnterKeeps == ASSUME IInv, NEW ip \in Ips, Enter(ip) PROVE IInv'
<1> USE GateAssumption DEF IInv, Enter
<1>1. http' \in 0..MaxRequests /\ time \in 0..MaxTime
  BY DEF TypeOK
<1>2. CASE max = 0
  <2> DEFINE d == [ip |-> ip, at |-> time, ok |-> TRUE, win |-> time]
  <2>1. d \in Decision /\ d.ok /\ done \in Seq(Decision)
    BY <1>1 DEF TypeOK, Decision
  <2>2. done' = Append(done, d) /\ UNCHANGED <<max, time, hits, waiting>>
    BY <1>2
  <2> HIDE DEF d
  <2>3. done' \in Seq(Decision)
    BY <2>1, <2>2
  <2>4. TypeOK'
    BY <1>1, <2>2, <2>3 DEF TypeOK, Decision
  <2>5. RejectedOnlyOverBudget'
    BY <2>1, <2>2, RejectionsStand
  <2>6. WaitsShort'
    BY <2>2 DEF WaitsShort
  <2>7. CountBacked'
    <3> SUFFICES ASSUME NEW q \in Ips, hits[q].count > 0
                 PROVE  /\ hits[q].start <= time
                        /\ Cardinality(AdmittedFrom(done', q, hits[q].start))
                             >= IF hits[q].count <= max THEN hits[q].count ELSE max
      BY <2>2 DEF CountBacked
    <3> DEFINE C == Cardinality(AdmittedFrom(done, q, hits[q].start))
               D == Cardinality(AdmittedFrom(done', q, hits[q].start))
    <3>1. C \in Nat /\ D \in {C, C + 1}
      BY <2>1, <2>2, AdmittedFinite, AdmittedAppend
    <3>2. hits[q].count \in Nat /\ max \in Nat
      BY DEF TypeOK
    <3>3. hits[q].start <= time /\ C >= IF hits[q].count <= max THEN hits[q].count ELSE max
      BY DEF CountBacked
    <3> HIDE DEF C, D
    <3>4. D >= IF hits[q].count <= max THEN hits[q].count ELSE max
      BY <3>1, <3>2, <3>3
    <3> QED  BY <3>3, <3>4 DEF D
  <2> QED  BY <2>4, <2>5, <2>6, <2>7
<1>3. CASE max # 0
  <2>1. /\ waiting' = [waiting EXCEPT ![ip] = [waiting[ip] EXCEPT ![time] = @ + 1]]
        /\ UNCHANGED <<max, time, hits, done>>
    BY <1>3
  <2>2. waiting[ip] \in [0..MaxTime -> Nat] /\ max > 0
    BY <1>3 DEF TypeOK
  <2>3. waiting' \in [Ips -> [0..MaxTime -> Nat]]
    <3>1. waiting[ip][time] + 1 \in Nat
      BY <1>1, <2>2
    <3>2. [waiting[ip] EXCEPT ![time] = @ + 1] \in [0..MaxTime -> Nat]
      BY <1>1, <2>2, <3>1
    <3> QED  BY <2>1, <3>2 DEF TypeOK
  <2>4. TypeOK'
    BY <1>1, <2>1, <2>3 DEF TypeOK
  <2>5. WaitsShort'
    <3> SUFFICES ASSUME NEW q \in Ips, NEW t \in 0..MaxTime, waiting'[q][t] > 0
                 PROVE  t <= time /\ time - t <= MaxDelay /\ max > 0
      BY <2>1 DEF WaitsShort
    <3>1. CASE t = time
      BY <1>1, <2>2, <3>1
    <3>2. CASE t # time
      <4>1. waiting'[q][t] = waiting[q][t]
        BY <2>1, <2>2, <3>2 DEF TypeOK
      <4> QED  BY <4>1 DEF WaitsShort
    <3> QED  BY <3>1, <3>2
  <2>6. CountBacked' /\ RejectedOnlyOverBudget'
    BY <2>1 DEF CountBacked, RejectedOnlyOverBudget
  <2> QED  BY <2>4, <2>5, <2>6
<1> QED  BY <1>2, <1>3

\* A decision.  In a new window the request is the first of its budget.  In the current
\* one it is rejected only when the entry has counted a whole budget, all admitted since
\* the window began: no more than Window before the clock was read, which is no more
\* than MaxDelay ago.
LEMMA CheckKeeps ==
    ASSUME IInv, NEW ip \in Ips, NEW t \in 0..MaxTime, Check(ip, t)
    PROVE  IInv'
<1> USE GateAssumption DEF IInv
<1> DEFINE e == Entry(ip, t)
           d == [ip |-> ip, at |-> time, ok |-> e.count + 1 <= max, win |-> e.start]
           n == Len(done) + 1
<1>1. /\ time \in 0..MaxTime /\ max \in Nat /\ done \in Seq(Decision)
      /\ hits[ip] \in [start : 0..MaxTime, count : Nat]
      /\ waiting[ip] \in [0..MaxTime -> Nat]
  BY DEF TypeOK, Decision
<1>2. waiting[ip][t] > 0 /\ t <= time /\ time - t <= MaxDelay /\ max > 0
  BY DEF Check, Decide, WaitsShort
<1>3. /\ waiting' = [waiting EXCEPT ![ip] = [waiting[ip] EXCEPT ![t] = @ - 1]]
      /\ done' = Append(done, d)
      /\ UNCHANGED <<max, time, http>>
      /\ hits' = [hits EXCEPT ![ip] = [e EXCEPT !.count = @ + 1]]
  BY DEF Check, Decide
<1>4. e \in [start : 0..MaxTime, count : Nat]
  BY <1>1 DEF Entry
<1>5. d \in Decision /\ d.ip = ip /\ d.at = time /\ (d.ok <=> e.count + 1 <= max)
  <2> HIDE DEF e
  <2>1. (e.count + 1 <= max) \in BOOLEAN
    OBVIOUS
  <2>2. d \in Decision
    BY <1>1, <1>4, <2>1, Zenon DEF Decision
  <2> QED  BY <2>2
\* The window the request falls in.
<1>6. \/ e.count = 0 /\ e.start = t
      \/ e.count > 0 /\ e = hits[ip] /\ t - e.start <= Window
  <2>1. CASE ip \notin Seen \/ Since(t, hits[ip].start) > Window
    BY <2>1 DEF Entry
  <2>2. CASE ~(ip \notin Seen \/ Since(t, hits[ip].start) > Window)
    <3>1. e = hits[ip] /\ hits[ip].count > 0
      BY <2>2 DEF Entry, Seen
    <3>2. t - hits[ip].start <= Window
      BY <1>1, <2>2 DEF Since
    <3> QED  BY <3>1, <3>2
  <2> QED  BY <2>1, <2>2
<1> HIDE DEF e, d
<1>7. e.start <= time
  BY <1>1, <1>2, <1>4, <1>6 DEF CountBacked
<1> DEFINE C == Cardinality(AdmittedFrom(done, ip, e.start))
<1>8. C \in Nat /\ C >= IF e.count <= max THEN e.count ELSE max
  BY <1>1, <1>4, <1>6, AdmittedFinite DEF CountBacked
<1> HIDE DEF C
<1>9. hits'[ip].start = e.start /\ hits'[ip].count = e.count + 1
      /\ hits' \in [Ips -> [start : 0..MaxTime, count : Nat]]
      /\ \A q \in Ips : q # ip => hits'[q] = hits[q]
  <2>1. [e EXCEPT !.count = @ + 1] \in [start : 0..MaxTime, count : Nat]
        /\ [e EXCEPT !.count = @ + 1].start = e.start
        /\ [e EXCEPT !.count = @ + 1].count = e.count + 1
    BY <1>4
  <2> QED  BY <1>3, <2>1 DEF TypeOK
<1>10. TypeOK'
  <2>1. waiting[ip][t] - 1 \in Nat
    <3>1. waiting[ip][t] \in Nat
      BY <1>1
    <3> HIDE DEF IInv
    <3> QED  BY <1>2, <3>1
  <2>2. waiting' \in [Ips -> [0..MaxTime -> Nat]]
    BY <1>1, <1>3, <2>1 DEF TypeOK
  <2>3. done' \in Seq(Decision)
    BY <1>1, <1>3, <1>5
  <2> QED  BY <1>3, <1>9, <2>2, <2>3 DEF TypeOK, Decision
<1>11. WaitsShort'
  <2> SUFFICES ASSUME NEW q \in Ips, NEW u \in 0..MaxTime, waiting'[q][u] > 0
               PROVE  u <= time /\ time - u <= MaxDelay /\ max > 0
    BY <1>3 DEF WaitsShort
  <2>1. CASE q = ip /\ u = t
    BY <1>2, <2>1
  <2>2. CASE ~(q = ip /\ u = t)
    <3>1. waiting'[q][u] = waiting[q][u]
      BY <1>1, <1>3, <2>2 DEF TypeOK
    <3> QED  BY <3>1 DEF WaitsShort
  <2> QED  BY <2>1, <2>2
<1>12. CountBacked'
  <2> SUFFICES ASSUME NEW q \in Ips, hits'[q].count > 0
               PROVE  /\ hits'[q].start <= time
                      /\ Cardinality(AdmittedFrom(done', q, hits'[q].start))
                           >= IF hits'[q].count <= max THEN hits'[q].count ELSE max
    BY <1>3 DEF CountBacked
  <2>1. CASE q = ip
    <3>1. Cardinality(AdmittedFrom(done', ip, e.start)) = IF e.count + 1 <= max THEN C + 1 ELSE C
      BY <1>1, <1>3, <1>5, <1>7, AdmittedAppend DEF C
    <3>2. Cardinality(AdmittedFrom(done', ip, e.start))
            >= IF e.count + 1 <= max THEN e.count + 1 ELSE max
      BY <1>1, <1>4, <1>8, <3>1
    <3> QED  BY <1>7, <1>9, <2>1, <3>2
  <2>2. CASE q # ip
    <3>1. hits'[q] = hits[q]
      BY <1>9, <2>2
    <3>2. Cardinality(AdmittedFrom(done', q, hits[q].start))
            = Cardinality(AdmittedFrom(done, q, hits[q].start))
      BY <1>1, <1>3, <1>5, <2>2, AdmittedAppend
    <3> QED  BY <3>1, <3>2 DEF CountBacked
  <2> QED  BY <2>1, <2>2
<1>13. ~d.ok => Cardinality(Spent(done', n)) >= max
  <2> SUFFICES ASSUME ~(e.count + 1 <= max) PROVE Cardinality(Spent(done', n)) >= max
    BY <1>5
  <2>1. e.count > 0 /\ t - e.start <= Window /\ C >= max
    BY <1>1, <1>2, <1>4, <1>6, <1>8
  <2>2. /\ n - 1 = Len(done) /\ Len(done) \in Nat /\ DOMAIN done = 1..Len(done)
        /\ done'[n] = d /\ \A j \in 1..Len(done) : done'[j] = done[j] /\ done[j] \in Decision
    BY <1>1, <1>3
  <2>3. AdmittedFrom(done, ip, e.start) \subseteq Spent(done', n)
    <3> SUFFICES ASSUME NEW j \in AdmittedFrom(done, ip, e.start) PROVE j \in Spent(done', n)
      OBVIOUS
    <3>1. j \in 1..Len(done) /\ done[j].ok /\ done[j].ip = ip /\ e.start <= done[j].at
      BY <2>2 DEF AdmittedFrom
    <3>2. done[j].at \in Int
      BY <2>2, <3>1 DEF Decision
    <3>3. /\ time \in Int /\ t \in Int /\ e.start \in Int /\ Window \in Int /\ MaxDelay \in Int
          /\ time - t <= MaxDelay /\ t - e.start <= Window
      BY <1>1, <1>2, <1>4, <2>1
    <3>4. time - done[j].at <= Window + MaxDelay
      <4> HIDE DEF IInv
      <4> QED  BY <3>1, <3>2, <3>3
    <3> QED  BY <1>5, <2>2, <3>1, <3>4 DEF Spent
  <2>4. IsFiniteSet(Spent(done', n))
    <3>1. IsFiniteSet(1..Len(done)) /\ Spent(done', n) \subseteq 1..Len(done)
      BY <2>2, FS_Interval DEF Spent
    <3> QED  BY <3>1, FS_Subset
  <2>5. Cardinality(Spent(done', n)) \in Nat /\ C <= Cardinality(Spent(done', n))
    BY <2>3, <2>4, FS_Subset, FS_CardinalityType DEF C
  <2> QED  BY <1>1, <1>8, <2>1, <2>5
<1>14. RejectedOnlyOverBudget'
  BY <1>2, <1>3, <1>5, <1>13, RejectionsStand
<1> QED  BY <1>10, <1>11, <1>12, <1>14

\* The gate as it starts, and a step that changes nothing.
LEMMA InitialGate == ASSUME Init PROVE IInv
<1> USE GateAssumption DEF Init
<1>1. TypeOK
  <2>1. hits \in [Ips -> [start : 0..MaxTime, count : Nat]]
    OBVIOUS
  <2>2. waiting \in [Ips -> [0..MaxTime -> Nat]]
    OBVIOUS
  <2>3. done \in Seq(Decision)
    OBVIOUS
  <2> QED  BY <2>1, <2>2, <2>3 DEF TypeOK, Decision
<1>2. RejectedOnlyOverBudget
  BY DEF RejectedOnlyOverBudget
<1>3. WaitsShort /\ CountBacked
  BY DEF WaitsShort, CountBacked
<1> QED  BY <1>1, <1>2, <1>3 DEF IInv

\* A stuttering step.
LEMMA SameGate == ASSUME IInv, UNCHANGED vars PROVE IInv'
BY DEF vars, IInv, TypeOK, RejectedOnlyOverBudget, WaitsShort, CountBacked

-----------------------------------------------------------------------------
(* Rejections. *)

\* A request is rejected only if its IP had a full budget admitted within the last minute,
\* give or take the wait for the lock (RateLimiter::check).
THEOREM GateInvariant == Spec => []GateInv
<1>1. Init => IInv
  BY InitialGate
<1>2. IInv /\ [Next]_vars => IInv'
  BY SameGate, TickKeeps, EnterKeeps, CheckKeeps DEF Next
<1>3. IInv => GateInv
  BY DEF IInv, GateInv
<1> QED  BY <1>1, <1>2, <1>3, PTL DEF Spec

-----------------------------------------------------------------------------
(* The bound on bursts. *)

\* What was admitted in the window that began at w.
OfWindow(s, ip, w) == {j \in DOMAIN s : s[j].ok /\ s[j].ip = ip /\ s[j].win = w}

\* A request is admitted after its window began, and not long after the window is over.
WindowTimes ==
    \A j \in DOMAIN done : done[j].ok =>
        done[j].win <= done[j].at /\ done[j].at <= done[j].win + Window + MaxDelay

\* Two moments at which windows of one IP began: the same one, or more than Window apart.
Apart(v, w) == v = w \/ v + Window < w \/ w + Window < v
WindowsApart ==
    \A j, k \in DOMAIN done :
        done[j].ok /\ done[k].ok /\ done[j].ip = done[k].ip => Apart(done[j].win, done[k].win)

\* The entry of an IP is the last of its windows.
LastWindow ==
    \A j \in DOMAIN done : done[j].ok =>
        /\ hits[done[j].ip].count > 0
        /\ \/ done[j].win = hits[done[j].ip].start
           \/ done[j].win + Window < hits[done[j].ip].start

\* The part of a count that is admitted.
Within(count) == IF count <= max THEN count ELSE max

\* A window admits its budget at most; the entry of an IP has counted what it admitted.
BudgetKept ==
    \A ip \in Ips : \A w \in 0..MaxTime :
        /\ Cardinality(OfWindow(done, ip, w)) <= max
        /\ w = hits[ip].start => Cardinality(OfWindow(done, ip, w)) = Within(hits[ip].count)

\* The request that opened a window is one of those admitted in it.
WindowOpened ==
    \A j \in DOMAIN done : done[j].ok =>
        \E i \in OfWindow(done, done[j].ip, done[j].win) : done[i].at <= done[i].win + MaxDelay

WindowInv == WindowTimes /\ WindowsApart /\ LastWindow /\ BudgetKept /\ WindowOpened
BurstIInv == IInv /\ (max > 0 => WindowInv)

\* The size of a union.
LEMMA UnionBound ==
    ASSUME NEW A, IsFiniteSet(A), NEW B, IsFiniteSet(B)
    PROVE  IsFiniteSet(A \cup B) /\ Cardinality(A \cup B) <= Cardinality(A) + Cardinality(B)
<1>1. /\ IsFiniteSet(A \cup B)
      /\ Cardinality(A \cup B) = Cardinality(A) + Cardinality(B) - Cardinality(A \cap B)
  BY FS_Union
<1>2. IsFiniteSet(A \cap B)
  BY FS_Intersection
<1> QED  BY <1>1, <1>2, FS_CardinalityType

\* There are finitely many of them.
LEMMA WindowFinite ==
    ASSUME NEW s \in Seq(Decision), NEW ip, NEW w
    PROVE  /\ IsFiniteSet(OfWindow(s, ip, w))
           /\ Cardinality(OfWindow(s, ip, w)) \in Nat
<1>1. Len(s) \in Nat /\ DOMAIN s = 1..Len(s)
  OBVIOUS
<1>2. IsFiniteSet(1..Len(s))
  BY <1>1, FS_Interval
<1>3. OfWindow(s, ip, w) \subseteq 1..Len(s)
  BY <1>1 DEF OfWindow
<1> QED  BY <1>2, <1>3, FS_Subset, FS_CardinalityType

\* One more decision adds itself to its window, if it admits, and nothing to another.
LEMMA WindowAppend ==
    ASSUME NEW s \in Seq(Decision), NEW d \in Decision, NEW ip, NEW w
    PROVE  /\ Len(s) + 1 \notin OfWindow(s, ip, w)
           /\ OfWindow(Append(s, d), ip, w)
                = IF d.ok /\ d.ip = ip /\ d.win = w
                  THEN OfWindow(s, ip, w) \cup {Len(s) + 1}
                  ELSE OfWindow(s, ip, w)
           /\ Cardinality(OfWindow(Append(s, d), ip, w))
                = IF d.ok /\ d.ip = ip /\ d.win = w
                  THEN Cardinality(OfWindow(s, ip, w)) + 1
                  ELSE Cardinality(OfWindow(s, ip, w))
<1> DEFINE n == Len(s) + 1
           A == OfWindow(s, ip, w)
           B == OfWindow(Append(s, d), ip, w)
<1>1. /\ Len(s) \in Nat /\ DOMAIN s = 1..Len(s) /\ DOMAIN Append(s, d) = 1..n
      /\ \A j \in 1..Len(s) : Append(s, d)[j] = s[j]
      /\ Append(s, d)[n] = d
      /\ 1..n = (1..Len(s)) \cup {n}
  OBVIOUS
<1>2. n \notin A
  BY <1>1 DEF OfWindow
<1>3. B = IF d.ok /\ d.ip = ip /\ d.win = w THEN A \cup {n} ELSE A
  BY <1>1 DEF OfWindow
<1>4. IsFiniteSet(A)
  BY WindowFinite
<1> HIDE DEF A, B
<1>5. Cardinality(B) = IF d.ok /\ d.ip = ip /\ d.win = w THEN Cardinality(A) + 1 ELSE Cardinality(A)
  BY <1>2, <1>3, <1>4, FS_AddElement
<1> QED  BY <1>2, <1>3, <1>5 DEF A, B

\* Time and arrivals change neither windows nor, when there is a limit, decisions.
LEMMA SameWindows ==
    ASSUME WindowInv, UNCHANGED <<max, hits, done>>
    PROVE  WindowInv'
BY DEF WindowInv, WindowTimes, WindowsApart, LastWindow, BudgetKept, WindowOpened, Within

\* A decision is made in the last window of its IP or opens the next.
LEMMA CheckKeepsWindows ==
    ASSUME IInv, WindowInv, NEW ip \in Ips, NEW t \in 0..MaxTime, Check(ip, t), max > 0
    PROVE  WindowInv'
<1> USE GateAssumption
<1> DEFINE e == Entry(ip, t)
           d == [ip |-> ip, at |-> time, ok |-> e.count + 1 <= max, win |-> e.start]
           n == Len(done) + 1
<1>1. /\ time \in 0..MaxTime /\ max \in Nat \ {0} /\ done \in Seq(Decision)
      /\ hits \in [Ips -> [start : 0..MaxTime, count : Nat]]
      /\ hits[ip] \in [start : 0..MaxTime, count : Nat]
  BY DEF IInv, TypeOK, Decision
<1>2. t <= time /\ time - t <= MaxDelay
  BY DEF Check, Decide, IInv, WaitsShort
<1>3. /\ done' = Append(done, d) /\ max' = max
      /\ hits' = [hits EXCEPT ![ip] = [e EXCEPT !.count = @ + 1]]
  BY DEF Check, Decide
<1>4. e \in [start : 0..MaxTime, count : Nat]
  BY <1>1 DEF Entry
<1>5. d \in Decision /\ d.ip = ip /\ d.at = time /\ (d.ok <=> e.count + 1 <= max) /\ d.win = e.start
  <2> HIDE DEF e
  <2>1. (e.count + 1 <= max) \in BOOLEAN
    OBVIOUS
  <2>2. d \in Decision
    BY <1>1, <1>4, <2>1, Zenon DEF Decision
  <2> QED  BY <2>2
\* The window the request falls in.
<1>6. \/ e.count = 0 /\ e.start = t /\ (hits[ip].count > 0 => hits[ip].start + Window < t)
      \/ e.count > 0 /\ e = hits[ip] /\ t - e.start <= Window
  <2>1. CASE ip \notin Seen \/ Since(t, hits[ip].start) > Window
    BY <1>1, <2>1 DEF Entry, Seen, Since
  <2>2. CASE ~(ip \notin Seen \/ Since(t, hits[ip].start) > Window)
    <3>1. e = hits[ip] /\ hits[ip].count > 0
      BY <2>2 DEF Entry, Seen
    <3>2. t - hits[ip].start <= Window
      BY <1>1, <2>2 DEF Since
    <3> QED  BY <3>1, <3>2
  <2> QED  BY <2>1, <2>2
<1> HIDE DEF e, d
<1>7. /\ Len(done) \in Nat /\ DOMAIN done = 1..Len(done) /\ DOMAIN done' = 1..n
      /\ \A j \in 1..Len(done) : done'[j] = done[j] /\ done[j] \in Decision
      /\ done'[n] = d
  BY <1>1, <1>3, <1>5
<1>8. hits'[ip].start = e.start /\ hits'[ip].count = e.count + 1
      /\ \A q \in Ips : q # ip => hits'[q] = hits[q]
  <2>1. [e EXCEPT !.count = @ + 1].start = e.start /\ [e EXCEPT !.count = @ + 1].count = e.count + 1
    BY <1>4
  <2> QED  BY <1>1, <1>3, <2>1
<1>9. e.start <= time /\ time <= e.start + Window + MaxDelay
  BY <1>1, <1>2, <1>4, <1>6 DEF IInv, CountBacked
\* The windows of this IP before it.
<1>10. ASSUME NEW j \in 1..Len(done), done[j].ok, done[j].ip = ip
       PROVE  (done[j].win = e.start /\ e.count > 0) \/ done[j].win + Window < e.start
  <2>1. /\ hits[ip].count > 0 /\ done[j].win \in Int /\ Window \in Int
        /\ done[j].win = hits[ip].start \/ done[j].win + Window < hits[ip].start
    <3>1. j \in DOMAIN done /\ done[j].win \in Int /\ Window \in Int
      BY <1>7 DEF Decision
    <3> QED  BY <1>10, <3>1 DEF WindowInv, LastWindow
  <2>2. hits[ip].start \in Int /\ t \in Int /\ e.count \in Int
    BY <1>1, <1>4
  <2>3. CASE e.count = 0
    <3>1. hits[ip].start + Window < t /\ e.start = t
      BY <1>6, <2>1, <2>3
    <3> QED  BY <2>1, <2>2, <3>1
  <2>4. CASE e.count # 0
    BY <1>4, <1>6, <2>1, <2>4
  <2> QED  BY <2>3, <2>4
<1>11. WindowTimes'
  BY <1>5, <1>7, <1>9 DEF WindowInv, WindowTimes
<1>12. WindowsApart'
  <2> SUFFICES ASSUME NEW j \in 1..n, NEW k \in 1..n,
                      done'[j].ok, done'[k].ok, done'[j].ip = done'[k].ip
               PROVE  Apart(done'[j].win, done'[k].win)
    BY <1>7 DEF WindowsApart
  <2>1. CASE j # n /\ k # n
    <3>1. j \in 1..Len(done) /\ k \in 1..Len(done)
      BY <1>7, <2>1
    <3> QED  BY <1>7, <3>1 DEF WindowInv, WindowsApart
  <2>2. CASE j = n /\ k # n
    <3>1. k \in 1..Len(done)
      BY <1>7, <2>2
    <3> QED  BY <1>5, <1>7, <1>10, <2>2, <3>1 DEF Apart
  <2>3. CASE j # n /\ k = n
    <3>1. j \in 1..Len(done)
      BY <1>7, <2>3
    <3> QED  BY <1>5, <1>7, <1>10, <2>3, <3>1 DEF Apart
  <2>4. CASE j = n /\ k = n
    BY <2>4 DEF Apart
  <2> QED  BY <2>1, <2>2, <2>3, <2>4
<1>13. LastWindow'
  <2> SUFFICES ASSUME NEW j \in 1..n, done'[j].ok
               PROVE  /\ hits'[done'[j].ip].count > 0
                      /\ \/ done'[j].win = hits'[done'[j].ip].start
                         \/ done'[j].win + Window < hits'[done'[j].ip].start
    BY <1>7 DEF LastWindow
  <2>1. CASE j = n
    BY <1>4, <1>5, <1>7, <1>8, <2>1
  <2>2. CASE j # n
    <3>1. j \in 1..Len(done) /\ done'[j] = done[j] /\ done[j].ip \in Ips
      BY <1>7, <2>2 DEF Decision
    <3>2. CASE done[j].ip = ip
      BY <1>4, <1>8, <1>10, <3>1, <3>2
    <3>3. CASE done[j].ip # ip
      BY <1>7, <1>8, <3>1, <3>3 DEF WindowInv, LastWindow
    <3> QED  BY <3>2, <3>3
  <2> QED  BY <2>1, <2>2
<1>14. BudgetKept'
  <2> SUFFICES ASSUME NEW q \in Ips, NEW w \in 0..MaxTime
               PROVE  /\ Cardinality(OfWindow(done', q, w)) <= max
                      /\ w = hits'[q].start => Cardinality(OfWindow(done', q, w)) = Within(hits'[q].count)
    BY <1>3 DEF BudgetKept, Within
  <2> DEFINE C == Cardinality(OfWindow(done, q, w))
             D == Cardinality(OfWindow(done', q, w))
  <2>1. /\ C \in Nat /\ C <= max /\ (w = hits[q].start => C = Within(hits[q].count))
    BY <1>1, WindowFinite DEF WindowInv, BudgetKept
  <2>2. D = IF d.ok /\ d.ip = q /\ d.win = w THEN C + 1 ELSE C
    BY <1>1, <1>3, <1>5, WindowAppend
  <2>3. CASE q = ip /\ w = e.start
    <3>1. C = Within(e.count)
      <4>1. CASE e.count > 0
        BY <1>6, <2>1, <2>3, <4>1
      <4>2. CASE ~(e.count > 0)
        <5>1. OfWindow(done, q, w) = {}
          <6> SUFFICES ASSUME NEW j \in OfWindow(done, q, w) PROVE FALSE
            OBVIOUS
          <6>1. j \in 1..Len(done) /\ done[j].ok /\ done[j].ip = ip /\ done[j].win = e.start
            BY <1>7, <2>3 DEF OfWindow
          <6> QED  BY <1>4, <1>10, <4>2, <6>1
        <5> QED  BY <1>1, <1>4, <4>2, <5>1, FS_EmptySet DEF Within
      <4> QED  BY <4>1, <4>2
    <3> HIDE DEF C, D
    <3>2. D = Within(e.count + 1) /\ D <= max
      BY <1>1, <1>4, <1>5, <2>1, <2>2, <2>3, <3>1 DEF Within
    <3> QED  BY <1>8, <2>3, <3>2 DEF D
  <2>4. CASE ~(q = ip /\ w = e.start)
    <3>1. D = C
      BY <1>5, <2>2, <2>4
    <3>2. w = hits'[q].start => w = hits[q].start /\ hits'[q].count = hits[q].count
      BY <1>8, <2>4
    <3> QED  BY <2>1, <3>1, <3>2
  <2> QED  BY <2>3, <2>4
<1>15. WindowOpened'
  <2> SUFFICES ASSUME NEW j \in 1..n, done'[j].ok
               PROVE  \E i \in OfWindow(done', done'[j].ip, done'[j].win) :
                          done'[i].at <= done'[i].win + MaxDelay
    BY <1>7 DEF WindowOpened
  <2>1. ASSUME NEW k \in 1..Len(done), done[k].ok
        PROVE  \E i \in OfWindow(done', done[k].ip, done[k].win) : done'[i].at <= done'[i].win + MaxDelay
    <3>1. PICK i \in OfWindow(done, done[k].ip, done[k].win) : done[i].at <= done[i].win + MaxDelay
      BY <1>7, <2>1 DEF WindowInv, WindowOpened
    <3>2. i \in 1..Len(done)
      BY <1>7, <3>1 DEF OfWindow
    <3>3. i \in OfWindow(done', done[k].ip, done[k].win)
      BY <1>1, <1>3, <1>5, <3>1, WindowAppend
    <3> QED  BY <1>7, <3>1, <3>2, <3>3
  <2>2. CASE j # n
    <3>1. j \in 1..Len(done)
      BY <1>7, <2>2
    <3> QED  BY <1>7, <2>1, <3>1
  <2>3. CASE j = n /\ e.count = 0
    <3>1. n \in OfWindow(done', d.ip, d.win)
      BY <1>1, <1>3, <1>5, <1>7, <2>3, WindowAppend
    <3>2. d.at <= d.win + MaxDelay
      BY <1>1, <1>2, <1>5, <1>6, <2>3
    <3> QED  BY <1>7, <2>3, <3>1, <3>2
  \* An entry that counts requests has admitted the first of them.
  <2>4. CASE j = n /\ e.count # 0
    <3> DEFINE A == OfWindow(done, ip, e.start)
    <3>1. e = hits[ip] /\ e.count > 0
      BY <1>4, <1>6, <2>4
    <3>2. Cardinality(A) = Within(e.count)
      BY <1>4, <3>1 DEF WindowInv, BudgetKept
    <3>3. PICK k : k \in A
      <4>1. Cardinality(A) > 0
        BY <1>1, <1>4, <3>1, <3>2 DEF Within
      <4> HIDE DEF A
      <4>2. A # {}
        <5>1. Cardinality({}) = 0
          BY FS_EmptySet
        <5> QED  BY <4>1, <5>1
      <4> QED  BY <4>2
    <3>4. k \in 1..Len(done) /\ done[k].ok /\ done[k].ip = ip /\ done[k].win = e.start
      BY <1>7, <3>3 DEF OfWindow
    <3> QED  BY <1>5, <1>7, <2>1, <2>4, <3>4
  <2> QED  BY <2>2, <2>3, <2>4
<1> QED  BY <1>11, <1>12, <1>13, <1>14, <1>15 DEF WindowInv

\* Every step.
LEMMA BurstKept == BurstIInv /\ [Next]_vars => BurstIInv'
<1> SUFFICES ASSUME BurstIInv, [Next]_vars PROVE BurstIInv'
  OBVIOUS
<1>1. IInv /\ (max > 0 => WindowInv) /\ max' = max
  BY DEF BurstIInv, Next, Tick, Enter, Check, Decide, vars
<1>2. IInv'
  BY <1>1, TickKeeps, EnterKeeps, CheckKeeps, SameGate DEF Next
<1>3. ASSUME max > 0 PROVE WindowInv'
  <2>1. CASE UNCHANGED vars
    BY <1>1, <1>3, <2>1, SameWindows DEF vars
  <2>2. CASE Tick
    BY <1>1, <1>3, <2>2, SameWindows DEF Tick
  <2>3. ASSUME NEW ip \in Ips, Enter(ip) PROVE WindowInv'
    BY <1>1, <1>3, <2>3, SameWindows DEF Enter
  <2>4. ASSUME NEW ip \in Ips, NEW t \in 0..MaxTime, Check(ip, t) PROVE WindowInv'
    BY <1>1, <1>3, <2>4, CheckKeepsWindows
  <2> QED  BY <2>1, <2>2, <2>3, <2>4 DEF Next
<1> QED  BY <1>1, <1>2, <1>3 DEF BurstIInv

\* The types a count of decisions relies on.
LEMMA DecisionTypes ==
    ASSUME BurstIInv
    PROVE  /\ done \in Seq(Decision) /\ max \in Nat /\ Window \in Nat /\ MaxDelay \in Nat
           /\ MaxDelay < Window
           /\ \A j \in DOMAIN done : done[j].win \in 0..MaxTime /\ done[j].at \in 0..MaxTime
<1>1. done \in Seq(Decision) /\ max \in Nat /\ Window \in Nat /\ MaxDelay \in Nat /\ MaxDelay < Window
  BY GateAssumption DEF BurstIInv, IInv, TypeOK, Decision
<1>2. ASSUME NEW j \in DOMAIN done PROVE done[j] \in Decision
  BY <1>1
<1> QED  BY <1>1, <1>2 DEF Decision

\* Windows that begin in an interval no longer than Window are one window: what the
\* interval admits is at most one budget.
LEMMA OneBudget ==
    ASSUME BurstIInv, max > 0, NEW ip \in Ips, NEW A,
           \A j \in A : j \in DOMAIN done /\ done[j].ok /\ done[j].ip = ip,
           NEW a \in Int, \A j \in A : a <= done[j].win /\ done[j].win <= a + Window
    PROVE  /\ IsFiniteSet(A) /\ Cardinality(A) \in Nat /\ Cardinality(A) <= max
           /\ \A j \in A : A \subseteq OfWindow(done, ip, done[j].win)
<1>1. /\ done \in Seq(Decision) /\ max \in Nat /\ Window \in Nat
      /\ \A j \in DOMAIN done : done[j].win \in 0..MaxTime
  BY DecisionTypes
<1>2. ASSUME NEW j \in A PROVE A \subseteq OfWindow(done, ip, done[j].win)
  <2> SUFFICES ASSUME NEW k \in A PROVE done[k].win = done[j].win
    BY DEF OfWindow
  <2>1. Apart(done[j].win, done[k].win)
    BY DEF BurstIInv, WindowInv, WindowsApart
  <2> QED  BY <1>1, <2>1 DEF Apart
<1>3. CASE A = {}
  BY <1>1, <1>2, <1>3, FS_EmptySet
<1>4. ASSUME NEW j \in A PROVE IsFiniteSet(A) /\ Cardinality(A) \in Nat /\ Cardinality(A) <= max
  <2> DEFINE B == OfWindow(done, ip, done[j].win)
  <2>1. A \subseteq B /\ IsFiniteSet(B) /\ Cardinality(B) \in Nat /\ Cardinality(B) <= max
    BY <1>1, <1>2, WindowFinite DEF BurstIInv, WindowInv, BudgetKept
  <2> HIDE DEF B
  <2> QED  BY <1>1, <2>1, FS_Subset, FS_CardinalityType
<1> QED  BY <1>2, <1>3, <1>4

\* What a minute admits began in one of three intervals, of which the last is empty unless
\* requests wait for the lock; and a minute that meets all three began after the first
\* request of the first window was admitted.
LEMMA MinuteMeetsThree == BurstIInv => BurstBound
<1> SUFFICES ASSUME BurstIInv, max > 0, NEW ip \in Ips, NEW t \in 0..MaxTime
             PROVE  Cardinality(Admitted(ip, t)) <= (IF MaxDelay < 2 THEN 2 * max ELSE 3 * max - 1)
  BY DEF BurstBound
<1> DEFINE a1 == t - MaxDelay - Window
           a2 == a1 + Window + 1
           a3 == a2 + Window + 1
           Part(a) == {j \in Admitted(ip, t) : a <= done[j].win /\ done[j].win <= a + Window}
<1>1. /\ done \in Seq(Decision) /\ max \in Nat /\ Window \in Nat /\ MaxDelay \in Nat
      /\ MaxDelay < Window /\ t \in Nat
      /\ \A j \in DOMAIN done : done[j].win \in 0..MaxTime /\ done[j].at \in Nat
  BY DecisionTypes
<1>2. ASSUME NEW j \in Admitted(ip, t)
      PROVE  /\ j \in DOMAIN done /\ done[j].ok /\ done[j].ip = ip
             /\ t <= done[j].at /\ done[j].at <= t + Window
             /\ done[j].win <= done[j].at /\ done[j].at <= done[j].win + Window + MaxDelay
  BY <1>1 DEF Admitted, BurstIInv, WindowInv, WindowTimes
<1>3. Admitted(ip, t) = Part(a1) \cup Part(a2) \cup Part(a3)
  <2> SUFFICES ASSUME NEW j \in Admitted(ip, t) PROVE j \in Part(a1) \cup Part(a2) \cup Part(a3)
    OBVIOUS
  <2>1. /\ done[j].win \in Nat /\ done[j].at \in Nat
        /\ t <= done[j].at /\ done[j].at <= t + Window
        /\ done[j].win <= done[j].at /\ done[j].at <= done[j].win + Window + MaxDelay
    BY <1>1, <1>2
  <2>2. a1 <= done[j].win /\ done[j].win <= a3 + Window
    BY <1>1, <2>1
  <2>3. \/ a1 <= done[j].win /\ done[j].win <= a1 + Window
        \/ a2 <= done[j].win /\ done[j].win <= a2 + Window
        \/ a3 <= done[j].win /\ done[j].win <= a3 + Window
    BY <1>1, <2>1, <2>2
  <2> QED  BY <2>3
<1>4. ASSUME NEW a \in Int
      PROVE  /\ IsFiniteSet(Part(a)) /\ Cardinality(Part(a)) \in Nat /\ Cardinality(Part(a)) <= max
             /\ \A j \in Part(a) : Part(a) \subseteq OfWindow(done, ip, done[j].win)
  BY <1>2, OneBudget
<1>5. a1 \in Int /\ a2 \in Int /\ a3 \in Int
  BY <1>1
<1>6. MaxDelay < 2 => Part(a3) = {}
  <2> SUFFICES ASSUME MaxDelay < 2, NEW j \in Part(a3) PROVE FALSE
    OBVIOUS
  <2>1. /\ done[j].win \in Nat /\ done[j].at \in Nat
        /\ done[j].win <= done[j].at /\ done[j].at <= t + Window /\ a3 <= done[j].win
    BY <1>1, <1>2
  <2>2. ASSUME NEW w \in Nat, NEW u \in Nat, w <= u, u <= t + Window PROVE ~(a3 <= w)
    BY <1>1, <2>2
  <2> QED  BY <2>1, <2>2
<1>7. ASSUME NEW j \in Part(a1), NEW k \in Part(a2), NEW l \in Part(a3)
      PROVE  Cardinality(Part(a1)) <= max - 1
  <2>1. /\ j \in DOMAIN done /\ k \in DOMAIN done /\ l \in DOMAIN done
        /\ done[j].win + Window < done[k].win /\ done[k].win + Window < done[l].win
    <3>1. /\ j \in DOMAIN done /\ k \in DOMAIN done /\ l \in DOMAIN done
          /\ Apart(done[j].win, done[k].win) /\ Apart(done[k].win, done[l].win)
      BY <1>2 DEF BurstIInv, WindowInv, WindowsApart
    <3>2. done[j].win < done[k].win /\ done[k].win < done[l].win
      BY <1>1, <3>1
    <3> QED  BY <1>1, <3>1, <3>2 DEF Apart
  <2> DEFINE B == OfWindow(done, ip, done[j].win)
  <2>2. PICK i \in B : done[i].at <= done[i].win + MaxDelay
    BY <1>2 DEF BurstIInv, WindowInv, WindowOpened
  <2>3. i \in DOMAIN done /\ done[i].win = done[j].win
    BY <2>2 DEF OfWindow
  <2>4. i \notin Part(a1)
    <3>1. /\ done[j].win \in Nat /\ done[k].win \in Nat /\ done[l].win \in Nat /\ done[l].at \in Nat
          /\ done[i].at \in Nat
      <4>1. j \in DOMAIN done /\ k \in DOMAIN done /\ l \in DOMAIN done /\ i \in DOMAIN done
        BY <2>1, <2>3
      <4>2. \A n \in DOMAIN done : done[n].win \in Nat /\ done[n].at \in Nat
        BY <1>1
      <4> QED  BY <4>1, <4>2
    <3>2. done[l].win <= done[l].at /\ done[l].at <= t + Window
      BY <1>2
    <3>3. done[i].at <= done[j].win + MaxDelay
      BY <2>2, <2>3
    <3>4. done[i].at < t
      <4>1. ASSUME NEW u \in Nat, NEW v \in Nat, NEW w \in Nat, NEW b \in Nat, NEW c \in Nat,
                   u + Window < v, v + Window < w, w <= b, b <= t + Window, c <= u + MaxDelay
            PROVE  c < t
        BY <1>1, <4>1
      <4> QED  BY <2>1, <3>1, <3>2, <3>3, <4>1
    <3>5. i \in Admitted(ip, t) => t <= done[i].at
      BY <1>2
    <3> QED  BY <1>1, <3>1, <3>4, <3>5
  <2>5. Part(a1) \subseteq B \ {i} /\ IsFiniteSet(B) /\ Cardinality(B) \in Nat /\ Cardinality(B) <= max
    <3>1. Part(a1) \subseteq B
      BY <1>4, <1>5
    <3>2. IsFiniteSet(B) /\ Cardinality(B) \in Nat
      BY <1>1, WindowFinite
    <3>3. Cardinality(B) <= max
      BY <1>1, <2>1 DEF BurstIInv, WindowInv, BudgetKept
    <3> QED  BY <2>4, <3>1, <3>2, <3>3
  <2> HIDE DEF B, Part
  <2>6. IsFiniteSet(B \ {i}) /\ Cardinality(B \ {i}) = Cardinality(B) - 1
    BY <2>2, <2>5, FS_RemoveElement
  <2>7. Cardinality(Part(a1)) <= Cardinality(B \ {i})
    BY <2>5, <2>6, FS_Subset
  <2>8. Cardinality(Part(a1)) \in Nat
    BY <1>4, <1>5
  <2> QED  BY <1>1, <2>5, <2>6, <2>7, <2>8
<1> DEFINE P == Part(a1)  Q == Part(a2)  R == Part(a3)
<1>8. /\ IsFiniteSet(P) /\ IsFiniteSet(Q) /\ IsFiniteSet(R)
      /\ Cardinality(P) \in 0..max /\ Cardinality(Q) \in 0..max /\ Cardinality(R) \in 0..max
  <2> HIDE DEF Part
  <2>1. ASSUME NEW a \in Int PROVE IsFiniteSet(Part(a)) /\ Cardinality(Part(a)) \in 0..max
    <3>1. IsFiniteSet(Part(a)) /\ Cardinality(Part(a)) \in Nat /\ Cardinality(Part(a)) <= max
      BY <1>4
    <3> QED  BY <1>1, <3>1
  <2> QED  BY <1>5, <2>1
<1>9. (P = {} => Cardinality(P) = 0) /\ (Q = {} => Cardinality(Q) = 0) /\ (R = {} => Cardinality(R) = 0)
  BY FS_EmptySet
<1>10. P # {} /\ Q # {} /\ R # {} => Cardinality(P) <= max - 1
  BY <1>7
<1> HIDE DEF Part, P, Q, R
<1>11. Cardinality(P \cup Q \cup R) <= Cardinality(P) + Cardinality(Q) + Cardinality(R)
  <2>1. IsFiniteSet(P \cup Q) /\ Cardinality(P \cup Q) <= Cardinality(P) + Cardinality(Q)
    BY <1>8, UnionBound
  <2>2. /\ IsFiniteSet(P \cup Q \cup R)
        /\ Cardinality(P \cup Q \cup R) <= Cardinality(P \cup Q) + Cardinality(R)
    BY <1>8, <2>1, UnionBound
  <2>3. Cardinality(P \cup Q) \in Nat /\ Cardinality(P \cup Q \cup R) \in Nat
    BY <2>1, <2>2, FS_CardinalityType
  <2> QED  BY <1>8, <2>1, <2>2, <2>3
<1>12. Cardinality(P) + Cardinality(Q) + Cardinality(R) <= (IF MaxDelay < 2 THEN 2 * max ELSE 3 * max - 1)
  <2>1. CASE R = {}
    BY <1>1, <1>8, <1>9, <2>1
  <2>2. CASE R # {}
    <3>1. ~(MaxDelay < 2)
      BY <1>6, <2>2 DEF R
    <3> QED  BY <1>1, <1>8, <1>9, <1>10, <2>2, <3>1
  <2>3. QED  BY <2>1, <2>2
<1>13. IsFiniteSet(P \cup Q \cup R) /\ Admitted(ip, t) = P \cup Q \cup R
  <2>1. IsFiniteSet(P \cup Q)
    BY <1>8, UnionBound
  <2> QED  BY <1>3, <1>8, <2>1, UnionBound DEF P, Q, R
<1>14. Cardinality(Admitted(ip, t)) \in Nat
  BY <1>13, FS_CardinalityType
<1> QED  BY <1>1, <1>8, <1>11, <1>12, <1>13, <1>14

\* However requests are spread over windows and threads, a minute admits at most two budgets,
\* or three less one if requests wait long enough for the lock (RateLimiter::check).
THEOREM BurstBounded == Spec => []BurstBound
<1>1. Init => BurstIInv
  <2> SUFFICES ASSUME Init PROVE BurstIInv
    OBVIOUS
  <2>1. IInv
    BY InitialGate
  <2>2. DOMAIN done = {} /\ max \in Nat /\ \A ip \in Ips : hits[ip].count = 0
    BY GateAssumption DEF Init
  <2>3. BudgetKept
    <3> SUFFICES ASSUME NEW ip \in Ips, NEW w PROVE Cardinality(OfWindow(done, ip, w)) = 0
      BY <2>2 DEF BudgetKept, Within
    <3>1. OfWindow(done, ip, w) = {}
      BY <2>2 DEF OfWindow
    <3> QED  BY <3>1, FS_EmptySet
  <2>4. WindowTimes /\ WindowsApart /\ LastWindow /\ WindowOpened
    BY <2>2 DEF WindowTimes, WindowsApart, LastWindow, WindowOpened
  <2> QED  BY <2>1, <2>3, <2>4 DEF BurstIInv, WindowInv
<1> QED  BY <1>1, BurstKept, MinuteMeetsThree, PTL DEF Spec
=============================================================================
