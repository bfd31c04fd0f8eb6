---------------------------- MODULE PanelProofs -----------------------------
(***************************************************************************)
(* Proofs about the panels of the page, each by itself and for any size:   *)
(* price alerts notify once and a click holds unless an evaluation is due; *)
(* the observability board is never torn between two refreshes; a file     *)
(* holds what its name says; all panels have one list of coins; the ticker *)
(* plots what is watched, as it arrived; a drawn chart is of what is       *)
(* selected, and a live one lacks no quote but those of the batches that   *)
(* the socket or a request cost it; the summaries of a market tell one     *)
(* story and the cards are those of the price table; the indicators and    *)
(* the correlation of any series have the value and the range they are     *)
(* documented with; the market map is tiled.                               *)
(***************************************************************************)
EXTENDS PriceAlerts, Ops, DataExport, TerminalPage, Ticker, Charts, MarketViews, Indicators,
        Treemap, FiniteSetTheorems, WellFoundedInduction, TLAPS

-----------------------------------------------------------------------------
(* PriceAlerts. *)

AlertsSpec == AlertsInit /\ [][AlertsNext]_alertVars

\* Only alerts that were added are listed, stored or spoken of.
Known ==
    /\ DOMAIN list \subseteq 1..added /\ DOMAIN saved \subseteq 1..added
    /\ \A i \in AlertIds : sure[i] # "unknown" => i <= added

\* An alert that notified is in firedRef until it is armed again.
NotedFired == \A i \in AlertIds : notes[i] > 0 => i \in fired

\* Leaving the desk ran the effects that were due, and dropped what was not rendered.
LeftSettled == ~up => ~due /\ pending = {}

AlertsIInv == AlertsInv /\ Known /\ NotedFired /\ LeftSettled

\* The lists there are.
IsList(l) == DOMAIN l \subseteq AlertIds /\ l \in [DOMAIN l -> Alert]

LEMMA ListsAreLists == \A l : l \in AlertLists <=> IsList(l)
<1>1. ASSUME NEW l, l \in AlertLists PROVE IsList(l)
  <2>1. PICK ids \in SUBSET AlertIds : l \in [ids -> Alert]
    BY <1>1 DEF AlertLists
  <2> QED  BY <2>1 DEF IsList
<1>2. ASSUME NEW l, IsList(l) PROVE l \in AlertLists
  BY <1>2 DEF AlertLists, IsList
<1> QED  BY <1>1, <1>2

\* Marking what an evaluation triggers, and rendering what was marked, list the same alerts.
LEMMA SameAlerts ==
    ASSUME AlertsTypeOK
    PROVE  /\ Marked \in AlertLists /\ DOMAIN Marked = DOMAIN list
           /\ Current \in AlertLists /\ DOMAIN Current = DOMAIN list
           /\ Hits \subseteq DOMAIN list /\ Hits \subseteq AlertIds
<1>1. IsList(list)
  BY ListsAreLists DEF AlertsTypeOK
<1>2. Hits \subseteq DOMAIN list /\ Hits \subseteq AlertIds
  BY <1>1 DEF Hits, IsList
<1>3. DOMAIN Marked = DOMAIN list
  BY DEF Marked
<1>4. Marked \in AlertLists
  <2>1. ASSUME NEW i \in DOMAIN list PROVE Marked[i] \in Alert
    <3>1. list[i] \in Alert /\ (list[i].hit \/ i \in Hits) \in BOOLEAN
      BY <1>1 DEF IsList
    <3>2. Marked[i] = [list[i] EXCEPT !.hit = list[i].hit \/ i \in Hits]
      BY DEF Marked
    <3> QED  BY <3>1, <3>2 DEF Alert
  <2>2. Marked \in [DOMAIN list -> Alert]
    BY <2>1 DEF Marked
  <2> QED  BY <1>1, <1>3, <2>2, ListsAreLists DEF IsList
<1>5. Current \in AlertLists /\ DOMAIN Current = DOMAIN list
  <2>1. CASE pending = {}
    BY <2>1 DEF Current, AlertsTypeOK
  <2>2. CASE pending # {}
    <3>1. Current \in pending
      BY <2>2 DEF Current
    <3> QED  BY <2>2, <3>1 DEF AlertsTypeOK
  <2> QED  BY <2>1, <2>2
<1> QED  BY <1>2, <1>3, <1>4, <1>5

-----------------------------------------------------------------------------
(* Steps of several kinds. *)

\* notify() counts only alerts that are not in firedRef, and puts them there.
LEMMA NotifyKeeps ==
    ASSUME AlertsIInv, Notify
    PROVE  /\ fired' \in SUBSET AlertIds /\ notes' \in [AlertIds -> Nat]
           /\ NotifiedOnce' /\ NotedFired'
<1>1. fired \in SUBSET AlertIds /\ notes \in [AlertIds -> Nat] /\ Hits \subseteq AlertIds
  BY SameAlerts DEF AlertsIInv, AlertsInv, AlertsTypeOK
<1>2. \A i \in AlertIds : /\ notes[i] \in Nat /\ notes[i] <= 1 /\ (notes[i] > 0 => i \in fired)
                          /\ notes'[i] = IF perm /\ i \in Hits \ fired THEN notes[i] + 1 ELSE notes[i]
  BY <1>1 DEF AlertsIInv, AlertsInv, NotifiedOnce, NotedFired, Notify
<1>3. fired' = fired \cup Hits
  BY DEF Notify
<1>4. \A i \in AlertIds : notes'[i] \in Nat /\ notes'[i] <= 1 /\ (notes'[i] > 0 => i \in fired')
  BY <1>2, <1>3
<1>5. notes' \in [AlertIds -> Nat]
  BY <1>4 DEF Notify
<1> QED  BY <1>1, <1>3, <1>4, <1>5 DEF NotifiedOnce, NotedFired

\* What a click does whatever list it makes.
Clicked(armed) ==
    /\ up /\ UNCHANGED <<up, price, perm>> /\ pending' = {} /\ due' = TRUE
    /\ saved' = IF due THEN list ELSE saved
    /\ fired' = (fired \ armed) \cup (IF due THEN Hits ELSE {})
    /\ notes' = [i \in AlertIds |->
                    LET n == IF i \in armed THEN 0 ELSE notes[i]
                    IN  IF due /\ perm /\ i \in Hits \ (fired \ armed) THEN n + 1 ELSE n]

\* A click: whatever list it makes, as long as what is surely listed stays listed.
LEMMA ClickKeeps ==
    ASSUME AlertsIInv, NEW armed \in SUBSET AlertIds,
           Clicked(armed), list' \in AlertLists, DOMAIN list' \subseteq 1..added',
           added' \in 0..MaxAlerts, added <= added',
           sure' \in [AlertIds -> {"unknown", "present", "absent"}],
           \A i \in AlertIds : /\ sure'[i] = "present" => i \in DOMAIN list'
                               /\ sure'[i] = "absent" => i \notin DOMAIN list'
                               /\ sure'[i] # "unknown" => i <= added'
    PROVE  AlertsIInv'
<1> USE AlertAssumption DEF Clicked
<1>1. /\ fired \in SUBSET AlertIds /\ notes \in [AlertIds -> Nat] /\ Hits \subseteq AlertIds
      /\ list \in AlertLists /\ saved \in AlertLists /\ added \in Nat
  BY SameAlerts DEF AlertsIInv, AlertsInv, AlertsTypeOK
<1>2. \A i \in AlertIds : /\ notes[i] \in Nat /\ notes[i] <= 1 /\ (notes[i] > 0 => i \in fired)
                          /\ notes'[i] = LET n == IF i \in armed THEN 0 ELSE notes[i]
                                         IN  IF due /\ perm /\ i \in Hits \ (fired \ armed) THEN n + 1 ELSE n
  BY <1>1 DEF AlertsIInv, AlertsInv, NotifiedOnce, NotedFired
<1>3. \A i \in AlertIds : notes'[i] \in Nat /\ notes'[i] <= 1 /\ (notes'[i] > 0 => i \in fired')
  BY <1>2
<1>4. notes' \in [AlertIds -> Nat]
  BY <1>3
<1>5. saved' \in AlertLists /\ DOMAIN saved' \subseteq 1..added'
  <2>1. 1..added \subseteq 1..added'
    BY <1>1
  <2> QED  BY <1>1, <2>1 DEF AlertsIInv, Known
<1>6. fired' \in SUBSET AlertIds
  BY <1>1
<1>7. AlertsTypeOK'
  <2>1. due' \in BOOLEAN
    BY Zenon
  <2>2. up' \in BOOLEAN /\ perm' \in BOOLEAN /\ price' \in 0..MaxPrice
    BY DEF AlertsIInv, AlertsInv, AlertsTypeOK
  <2>3. pending' \subseteq AlertLists /\ (pending' # {} => FALSE)
    OBVIOUS
  <2> QED  BY <1>4, <1>5, <1>6, <2>1, <2>2, <2>3 DEF AlertsTypeOK
<1>8. NotifiedOnce' /\ NotedFired'
  BY <1>3 DEF NotifiedOnce, NotedFired
<1>9. ClicksHold' /\ Known' /\ LeftSettled'
  BY <1>5 DEF ClicksHold, Known, LeftSettled
<1> QED  BY <1>7, <1>8, <1>9 DEF AlertsIInv, AlertsInv

-----------------------------------------------------------------------------
(* One lemma per kind of step. *)

\* Effects, renders, ticks and the permission: no alert is added or removed.
LEMMA RenderKeeps ==
    ASSUME AlertsIInv, RunEffects \/ RenderPending \/ RequestPerm \/ \E p \in 1..MaxPrice : PriceTick(p)
    PROVE  AlertsIInv'
<1> USE SameAlerts DEF AlertsIInv, AlertsInv
<1>1. CASE RunEffects
  <2>1. /\ fired' \in SUBSET AlertIds /\ notes' \in [AlertIds -> Nat] /\ NotifiedOnce' /\ NotedFired'
    BY <1>1, NotifyKeeps DEF RunEffects
  <2>2. /\ up /\ due' = FALSE /\ saved' = list /\ pending' \in {{}, {Marked}}
        /\ UNCHANGED <<up, list, price, perm, added, sure>>
    BY <1>1 DEF RunEffects
  <2>3. AlertsTypeOK'
    BY <2>1, <2>2 DEF AlertsTypeOK
  <2>4. ClicksHold' /\ Known' /\ LeftSettled'
    BY <2>2 DEF ClicksHold, Known, LeftSettled
  <2> QED  BY <2>1, <2>3, <2>4
<1>2. CASE RenderPending \/ \E p \in 1..MaxPrice : PriceTick(p)
  <2>1. /\ up /\ list' = Current /\ pending' = {} /\ due' = TRUE
        /\ UNCHANGED <<up, fired, perm, saved, added, notes, sure>>
    BY <1>2 DEF RenderPending, PriceTick
  <2>2. price' \in 0..MaxPrice
    BY <1>2, AlertAssumption DEF RenderPending, PriceTick, AlertsTypeOK
  <2>3. AlertsTypeOK'
    BY <2>1, <2>2 DEF AlertsTypeOK
  <2>4. ClicksHold' /\ Known' /\ LeftSettled' /\ NotifiedOnce' /\ NotedFired'
    BY <2>1 DEF ClicksHold, Known, LeftSettled, NotifiedOnce, NotedFired
  <2> QED  BY <2>3, <2>4
<1>3. CASE RequestPerm
  <2>1. perm' = TRUE /\ UNCHANGED <<up, list, pending, due, fired, price, saved, added, notes, sure>>
    BY <1>3 DEF RequestPerm
  <2>2. AlertsTypeOK'
    BY <2>1 DEF AlertsTypeOK
  <2> QED  BY <2>1, <2>2 DEF ClicksHold, Known, LeftSettled, NotifiedOnce, NotedFired
<1> QED  BY <1>1, <1>2, <1>3

\* Leaving stores what is listed, and coming back lists what is stored.
LEMMA DeskKeeps ==
    ASSUME AlertsIInv, LeaveDesk \/ EnterDesk
    PROVE  AlertsIInv'
<1> USE DEF AlertsIInv, AlertsInv
<1>1. CASE LeaveDesk
  <2>1. /\ up' = FALSE /\ due' = FALSE /\ pending' = {} /\ saved' = IF due THEN list ELSE saved
        /\ UNCHANGED <<list, price, perm, added, sure>>
    BY <1>1 DEF LeaveDesk
  <2>2. /\ fired' \in SUBSET AlertIds /\ notes' \in [AlertIds -> Nat] /\ NotifiedOnce' /\ NotedFired'
    <3>1. CASE due
      BY <1>1, <3>1, NotifyKeeps DEF LeaveDesk
    <3>2. CASE ~due
      BY <1>1, <3>2 DEF LeaveDesk, AlertsTypeOK, NotifiedOnce, NotedFired
    <3> QED  BY <3>1, <3>2
  <2>3. AlertsTypeOK'
    BY <2>1, <2>2 DEF AlertsTypeOK
  <2>4. ClicksHold' /\ Known' /\ LeftSettled'
    BY <2>1 DEF ClicksHold, Known, LeftSettled
  <2> QED  BY <2>2, <2>3, <2>4
<1>2. CASE EnterDesk
  <2>1. /\ ~up /\ ~due /\ up' = TRUE /\ due' = TRUE /\ list' = saved /\ fired' = {} /\ price' = 0
        /\ notes' = [i \in AlertIds |-> 0] /\ UNCHANGED <<pending, perm, saved, added, sure>>
    BY <1>2 DEF EnterDesk, LeftSettled
  <2>2. pending = {}
    BY <2>1 DEF LeftSettled
  <2>3. AlertsTypeOK'
    BY <2>1, <2>2, AlertAssumption DEF AlertsTypeOK
  <2>4. ClicksHold' /\ Known' /\ LeftSettled' /\ NotifiedOnce' /\ NotedFired'
    BY <2>1 DEF ClicksHold, Known, LeftSettled, NotifiedOnce, NotedFired
  <2> QED  BY <2>3, <2>4
<1> QED  BY <1>1, <1>2

\* The three buttons: the list they make is that of their updater, or the marked one.
LEMMA ButtonsKeep ==
    ASSUME AlertsIInv,
           \/ \E a \in [dir : {"above", "below"}, at : 1..MaxPrice, hit : {FALSE}] : AddAlert(a)
           \/ \E id \in AlertIds : RemoveAlert(id) \/ Rearm(id)
    PROVE  AlertsIInv'
<1> USE AlertAssumption
<1>1. /\ list \in AlertLists /\ IsList(list) /\ IsList(Current) /\ IsList(Marked)
      /\ DOMAIN Current = DOMAIN list /\ DOMAIN Marked = DOMAIN list
      /\ DOMAIN list \subseteq 1..added /\ added \in 0..MaxAlerts
      /\ sure \in [AlertIds -> {"unknown", "present", "absent"}]
  BY SameAlerts, ListsAreLists DEF AlertsIInv, AlertsInv, AlertsTypeOK, Known
<1>2. \A i \in AlertIds : /\ sure[i] = "present" => i \in DOMAIN list
                          /\ sure[i] = "absent" => i \notin DOMAIN list
                          /\ sure[i] # "unknown" => i <= added
  BY DEF AlertsIInv, AlertsInv, ClicksHold, Known
<1>3. ASSUME NEW a \in [dir : {"above", "below"}, at : 1..MaxPrice, hit : {FALSE}], AddAlert(a)
      PROVE  AlertsIInv'
  <2> DEFINE id == added + 1
             add(l) == [i \in DOMAIN l \cup {id} |-> IF i = id THEN a ELSE l[i]]
  <2>1. a \in Alert /\ id \in AlertIds /\ id \in 1..MaxAlerts
    <3>1. a \in Alert
      BY DEF Alert
    <3>2. added < MaxAlerts
      BY <1>3 DEF AddAlert
    <3> QED  BY <1>1, <3>1, <3>2 DEF AlertIds
  <2>2. ASSUME NEW l, IsList(l)
        PROVE  IsList(add(l)) /\ DOMAIN add(l) = DOMAIN l \cup {id}
    BY <2>1, <2>2 DEF IsList
  <2>3. /\ list' = IF due THEN (IF Hits = {} THEN add(list) ELSE Marked) ELSE add(Current)
        /\ Clicked({})
        /\ added' = id /\ sure' = IF due THEN sure ELSE [sure EXCEPT ![id] = "present"]
    BY <1>3 DEF AddAlert, Click, AfterClick, Clicked
  <2>4. list' \in AlertLists /\ DOMAIN list \subseteq DOMAIN list'
        /\ DOMAIN list' \subseteq DOMAIN list \cup {id} /\ (~due => id \in DOMAIN list')
    BY <1>1, <2>2, <2>3, ListsAreLists
  <2> HIDE DEF add
  <2>5. DOMAIN list' \subseteq 1..added' /\ added <= added' /\ added' \in 0..MaxAlerts
    BY <1>1, <2>1, <2>3, <2>4
  <2>6. /\ sure' \in [AlertIds -> {"unknown", "present", "absent"}]
        /\ \A i \in AlertIds : sure'[i] = IF ~due /\ i = id THEN "present" ELSE sure[i]
    BY <1>1, <2>1, <2>3
  <2>7. \A i \in AlertIds : /\ sure'[i] = "present" => i \in DOMAIN list'
                            /\ sure'[i] = "absent" => i \notin DOMAIN list'
                            /\ sure'[i] # "unknown" => i <= added'
    <3> TAKE i \in AlertIds
    <3>1. i \in 1..MaxAlerts /\ added \in 0..MaxAlerts
      BY <1>1 DEF AlertIds
    <3>2. CASE i = id
      BY <1>1, <1>2, <2>3, <2>4, <2>6, <3>1, <3>2
    <3>3. CASE i # id
      BY <1>2, <2>3, <2>4, <2>6, <3>1, <3>3
    <3> QED  BY <3>2, <3>3
  <2> QED  BY <2>3, <2>4, <2>5, <2>6, <2>7, ClickKeeps, {} \in SUBSET AlertIds
<1>4. ASSUME NEW id \in AlertIds, RemoveAlert(id)
      PROVE  AlertsIInv'
  <2> DEFINE remove(l) == Without(l, id)
  <2>1. ASSUME NEW l, IsList(l)
        PROVE  IsList(remove(l)) /\ DOMAIN remove(l) = DOMAIN l \ {id}
    BY <2>1 DEF IsList, Without
  <2>2. /\ list' = IF due THEN (IF Hits = {} THEN remove(list) ELSE Marked) ELSE remove(Current)
        /\ Clicked({id})
        /\ added' = added /\ sure' = [sure EXCEPT ![id] = IF due THEN "unknown" ELSE "absent"]
        /\ id \in DOMAIN list
    BY <1>4 DEF RemoveAlert, Click, AfterClick, Clicked
  <2>3. list' \in AlertLists /\ DOMAIN list' \subseteq DOMAIN list
        /\ DOMAIN list \ {id} \subseteq DOMAIN list' /\ (~due => id \notin DOMAIN list')
    BY <1>1, <2>1, <2>2, ListsAreLists
  <2> HIDE DEF remove
  <2>4. /\ sure' \in [AlertIds -> {"unknown", "present", "absent"}]
        /\ \A i \in AlertIds : sure'[i] = IF i = id THEN (IF due THEN "unknown" ELSE "absent") ELSE sure[i]
    BY <1>1, <2>2
  <2>5. id <= added /\ DOMAIN list' \subseteq 1..added' /\ added <= added' /\ added' \in 0..MaxAlerts
    BY <1>1, <2>2, <2>3
  <2>6. \A i \in AlertIds : /\ sure'[i] = "present" => i \in DOMAIN list'
                            /\ sure'[i] = "absent" => i \notin DOMAIN list'
                            /\ sure'[i] # "unknown" => i <= added'
    BY <1>2, <2>2, <2>3, <2>4, <2>5
  <2> QED  BY <2>2, <2>3, <2>4, <2>5, <2>6, ClickKeeps, {id} \in SUBSET AlertIds
<1>5. ASSUME NEW id \in AlertIds, Rearm(id)
      PROVE  AlertsIInv'
  <2> DEFINE rearm(l) == [i \in DOMAIN l |-> IF i = id THEN [l[i] EXCEPT !.hit = FALSE] ELSE l[i]]
  <2>1. ASSUME NEW l, IsList(l)
        PROVE  IsList(rearm(l)) /\ DOMAIN rearm(l) = DOMAIN l
    <3>1. ASSUME NEW i \in DOMAIN l PROVE l[i] \in Alert /\ [l[i] EXCEPT !.hit = FALSE] \in Alert
      BY <2>1 DEF IsList, Alert
    <3> QED  BY <2>1, <3>1 DEF IsList
  <2>2. /\ list' = IF due THEN (IF Hits = {} THEN rearm(list) ELSE Marked) ELSE rearm(Current)
        /\ Clicked({id})
        /\ added' = added /\ sure' = sure
    BY <1>5 DEF Rearm, Click, AfterClick, Clicked
  <2>3. list' \in AlertLists /\ DOMAIN list' = DOMAIN list
    BY <1>1, <2>1, <2>2, ListsAreLists
  <2> HIDE DEF rearm
  <2>4. added <= added' /\ added' \in 0..MaxAlerts
    BY <1>1, <2>2
  <2> QED  BY <1>1, <1>2, <2>2, <2>3, <2>4, ClickKeeps, {id} \in SUBSET AlertIds
<1> QED  BY <1>3, <1>4, <1>5

\* An alert notifies once between two armings, and a click made while no evaluation is due
\* is never undone, in whatever order ticks, effects, renders and clicks come
\* (PriceAlerts.tsx, useLocalState.ts).
THEOREM AlertsInvariant == AlertsSpec => []AlertsInv
<1>1. AlertsInit => AlertsIInv
  <2> SUFFICES ASSUME AlertsInit PROVE AlertsIInv
    OBVIOUS
  <2> USE AlertAssumption DEF AlertsInit
  <2>1. DOMAIN NoAlerts = {} /\ NoAlerts \in AlertLists
    <3>1. DOMAIN NoAlerts = {} /\ IsList(NoAlerts)
      BY DEF NoAlerts, IsList
    <3> QED  BY <3>1, ListsAreLists
  <2>2. AlertsTypeOK
    <3>1. up \in BOOLEAN /\ due \in BOOLEAN /\ perm \in BOOLEAN
      BY Zenon
    <3>2. price \in 0..MaxPrice /\ added \in 0..MaxAlerts /\ notes \in [AlertIds -> Nat]
      OBVIOUS
    <3>3. sure \in [AlertIds -> {"unknown", "present", "absent"}]
      OBVIOUS
    <3> QED  BY <2>1, <3>1, <3>2, <3>3 DEF AlertsTypeOK
  <2>3. NotifiedOnce /\ ClicksHold
    BY <2>1 DEF NotifiedOnce, ClicksHold
  <2>4. Known /\ NotedFired /\ LeftSettled
    BY <2>1 DEF Known, NotedFired, LeftSettled
  <2> QED  BY <2>2, <2>3, <2>4 DEF AlertsIInv, AlertsInv
<1>2. AlertsIInv /\ [AlertsNext]_alertVars => AlertsIInv'
  <2> SUFFICES ASSUME AlertsIInv, [AlertsNext]_alertVars PROVE AlertsIInv'
    OBVIOUS
  <2>1. CASE UNCHANGED alertVars
    BY <2>1 DEF alertVars, AlertsIInv, AlertsInv, AlertsTypeOK, NotifiedOnce, ClicksHold,
                Known, NotedFired, LeftSettled
  <2> QED  BY <2>1, RenderKeeps, DeskKeeps, ButtonsKeep DEF AlertsNext
<1>3. AlertsIInv => AlertsInv
  BY DEF AlertsIInv
<1> QED  BY <1>1, <1>2, <1>3, PTL DEF AlertsSpec

-----------------------------------------------------------------------------
(* Ops. *)

OpsSpec == OpsInit /\ [][OpsNext]_opsVars

\* The reads of a refresh saw a moment that has come; the board is as loadProm leaves it.
ReadsTyped ==
    /\ promBusy \subseteq Refreshes
    /\ prom \in [Refreshes -> [back : SUBSET Parts, alerts : Moments]]
    /\ self \in [Refreshes -> {"idle", "metrics", "health"}]
    /\ board \in [Parts -> Refreshes \cup {"none"}]

OpsIInv == OpsInv /\ ReadsTyped

\* A refresh that has read nothing is well formed.
LEMMA NoReadsType == 0 \in Moments /\ NoReads \in [back : SUBSET Parts, alerts : Moments]
<1>1. 0 \in Moments
  BY OpsAssumption DEF Moments
<1> QED  BY <1>1 DEF NoReads

\* The part of the invariant that loadMetrics has no hand in, and the part loadProm has none in.
PromInv ==
    /\ moment \in Moments /\ shownAlerts \in Moments
    /\ promBusy \subseteq Refreshes
    /\ prom \in [Refreshes -> [back : SUBSET Parts, alerts : Moments]]
    /\ board \in [Parts -> Refreshes \cup {"none"}]
    /\ BoardOfOneRefresh
SelfInv == self \in [Refreshes -> {"idle", "metrics", "health"}]
ClosedInv == ~opsUp => promBusy = {} /\ \A r \in Refreshes : self[r] = "idle"

LEMMA Apart == OpsIInv <=> PromInv /\ SelfInv /\ ClosedInv
BY DEF OpsIInv, OpsInv, OpsTypeOK, ReadsTyped, PromInv, SelfInv, ClosedInv

-----------------------------------------------------------------------------
(* One lemma per handler. *)

\* Opening and leaving the tab, a new refresh, the monitored system moving on.
LEMMA TabKeeps ==
    ASSUME PromInv, SelfInv, ClosedInv, NEW r \in Refreshes,
           EnterOps(r) \/ Refresh(r) \/ LeaveOps \/ MomentPasses
    PROVE  PromInv' /\ SelfInv' /\ ClosedInv'
<1> USE NoReadsType DEF PromInv, SelfInv, ClosedInv
<1>1. CASE EnterOps(r)
  BY <1>1 DEF EnterOps, BoardOfOneRefresh
<1>2. CASE Refresh(r)
  BY <1>2 DEF Refresh, BoardOfOneRefresh
<1>3. CASE LeaveOps
  <2>1. NoBoard \in [Parts -> Refreshes \cup {"none"}] /\ \A p, q \in Parts : NoBoard[p] = NoBoard[q]
    BY DEF NoBoard
  <2> QED  BY <1>3, <2>1 DEF LeaveOps, BoardOfOneRefresh
<1>4. CASE MomentPasses
  <2>1. moment' \in Moments
    BY <1>4, OpsAssumption DEF MomentPasses, Moments
  <2> QED  BY <1>4, <2>1 DEF MomentPasses, selfVars, promVars, BoardOfOneRefresh
<1> QED  BY <1>1, <1>2, <1>3, <1>4

\* loadMetrics touches nothing of Prometheus', and goes on only in an open tab.
LEMMA SelfKeeps ==
    ASSUME PromInv, SelfInv, ClosedInv, NEW r \in Refreshes, SelfStep(r)
    PROVE  PromInv' /\ SelfInv' /\ ClosedInv'
<1>1. self' \in [Refreshes -> {"idle", "metrics", "health"}] /\ opsUp
  BY DEF SelfStep, HealthAnswer, MetricsAnswer, SelfInv, ClosedInv
<1>2. UNCHANGED <<opsUp, moment>> /\ UNCHANGED promVars
  BY DEF SelfStep, HealthAnswer, MetricsAnswer
<1> QED  BY <1>1, <1>2 DEF PromInv, SelfInv, ClosedInv, BoardOfOneRefresh, promVars

\* loadProm: the board changes as a whole or not at all.
LEMMA PromKeeps ==
    ASSUME PromInv, SelfInv, ClosedInv, NEW r \in Refreshes, PromStep(r)
    PROVE  PromInv' /\ SelfInv' /\ ClosedInv'
<1> USE NoReadsType DEF PromInv, SelfInv, ClosedInv
<1>1. ASSUME NEW p \in Parts, PromServe(r, p)
      PROVE  PromInv' /\ SelfInv' /\ ClosedInv'
  <2> DEFINE read == [prom[r] EXCEPT !.back = @ \cup {p},
                                     !.alerts = IF p = "alerts" THEN moment ELSE @]
  <2>1. read \in [back : SUBSET Parts, alerts : Moments]
    OBVIOUS
  <2>2. prom' \in [Refreshes -> [back : SUBSET Parts, alerts : Moments]]
    BY <1>1, <2>1 DEF PromServe
  <2> QED  BY <1>1, <2>2 DEF PromServe, selfVars, BoardOfOneRefresh
<1>2. CASE PromDone(r)
  <2>1. board' \in [Parts -> Refreshes \cup {"none"}] /\ \A p, q \in Parts : board'[p] = board'[q]
    BY <1>2 DEF PromDone
  <2>2. shownAlerts' \in Moments
    BY <1>2 DEF PromDone
  <2> QED  BY <1>2, <2>1, <2>2 DEF PromDone, selfVars, BoardOfOneRefresh
<1>3. CASE PromFails(r)
  BY <1>3 DEF PromFails, selfVars, BoardOfOneRefresh
<1> QED  BY <1>1, <1>2, <1>3 DEF PromStep

-----------------------------------------------------------------------------
(* The theorem. *)

\* Targets, alerts and rates on screen are those of one refresh, and a closed tab has
\* nothing in flight, however many refreshes overlap (loadProm, the effect's cleanup).
THEOREM OpsInvariant == OpsSpec => []OpsInv
<1>1. OpsInit => OpsIInv
  <2> SUFFICES ASSUME OpsInit PROVE PromInv /\ SelfInv /\ ClosedInv
    BY Apart
  <2> USE NoReadsType DEF OpsInit
  <2>1. NoBoard \in [Parts -> Refreshes \cup {"none"}] /\ \A p, q \in Parts : NoBoard[p] = NoBoard[q]
    BY DEF NoBoard
  <2> QED  BY <2>1 DEF PromInv, SelfInv, ClosedInv, BoardOfOneRefresh
<1>2. OpsIInv /\ [OpsNext]_opsVars => OpsIInv'
  <2> SUFFICES ASSUME PromInv, SelfInv, ClosedInv, [OpsNext]_opsVars
               PROVE  PromInv' /\ SelfInv' /\ ClosedInv'
    BY Apart DEF OpsIInv, OpsInv, OpsTypeOK, ReadsTyped, PromInv, SelfInv, ClosedInv
  <2>1. CASE UNCHANGED opsVars
    BY <2>1 DEF opsVars, PromInv, SelfInv, ClosedInv, BoardOfOneRefresh
  <2>2. CASE LeaveOps \/ MomentPasses
    BY <2>2, TabKeeps, OpsAssumption
  <2>3. ASSUME NEW r \in Refreshes, EnterOps(r) \/ Refresh(r) \/ PromStep(r) \/ SelfStep(r)
        PROVE  PromInv' /\ SelfInv' /\ ClosedInv'
    BY <2>3, TabKeeps, PromKeeps, SelfKeeps
  <2> QED  BY <2>1, <2>2, <2>3 DEF OpsNext
<1>3. OpsIInv => OpsInv
  BY DEF OpsIInv
<1> QED  BY <1>1, <1>2, <1>3, PTL DEF OpsSpec

-----------------------------------------------------------------------------
(* DataExport. *)

ExportSpec == ExportInit /\ [][ExportNext]_exportVars

Selection == [coin : ExportCoins \cup {""}, per : ExportPeriods \cup {""}]
ExportKinds     == {"none", "json", "all", "xlsx"}
Steps     == {"none", "import", "series", "ohlc", "write"}
Job  == [kind : ExportKinds, of : Selection, step : Steps, mine : BOOLEAN, rows : Selection,
         sheets : SUBSET {"Prices", "Market Summary", "OHLC"}]

\* An export about to be written holds the rows of the selection it was started with;
\* only a workbook waits for its library or for candles, and it has its main sheets.
JobSound(x) ==
    /\ x.step \in {"ohlc", "write"} => x.rows = x.of
    /\ x.step \in {"import", "ohlc"} => x.kind = "xlsx"
    /\ x.step \in {"ohlc", "write"} /\ x.kind = "xlsx" => {"Prices", "Market Summary"} \subseteq x.sheets
    /\ x.mine => x.step # "none"

JobsSound ==
    /\ jobs \in [Jobs -> Job] /\ choice \in Selection /\ busy \in BOOLEAN
    /\ \A j \in Jobs : JobSound(jobs[j])

\* The buttons are disabled while busy: at most one export is the panel's own.
OneMine == \A j, k \in Jobs : jobs[j].mine /\ jobs[k].mine => j = k

ExportIInv == ExportInv /\ JobsSound /\ OneMine

-----------------------------------------------------------------------------
(* Lemmas about exports. *)

\* The export that is none is well formed.
LEMMA IdleType == Idle \in Job /\ JobSound(Idle) /\ ~Idle.mine
<1>1. [coin |-> "", per |-> ""] \in Selection
  BY DEF Selection
<1> QED  BY <1>1 DEF Idle, Job, JobSound, ExportKinds, Steps

\* An export ends, with or without a file: the panel's own leaves it idle.
LEMMA EndKeeps ==
    ASSUME ExportIInv, NEW j \in Jobs, EndExport(j)
    PROVE  ExportTypeOK' /\ JobsSound' /\ OneMine'
<1> USE IdleType DEF ExportIInv, JobsSound, EndExport
<1>1. jobs' \in [Jobs -> Job] /\ busy' \in BOOLEAN /\ \A k \in Jobs : JobSound(jobs'[k])
  <2>1. jobs' \in [Jobs -> Job]
    OBVIOUS
  <2>2. \A k \in Jobs : jobs'[k] = IF k = j THEN Idle ELSE jobs[k]
    OBVIOUS
  <2>3. busy' \in BOOLEAN
    OBVIOUS
  <2> QED  BY <2>1, <2>2, <2>3
<1>2. \A k \in Jobs : jobs'[k].mine <=> k # j /\ jobs[k].mine
  OBVIOUS
<1>3. JobsSound'
  BY <1>1 DEF JobsSound
<1>4. OneMine'
  BY <1>2 DEF OneMine
<1>5. busy' = \E k \in Jobs : jobs'[k].mine
  <2>1. CASE jobs[j].mine
    BY <1>2, <2>1 DEF OneMine
  <2>2. CASE ~jobs[j].mine
    BY <1>2, <2>2 DEF ExportInv, ExportTypeOK
  <2> QED  BY <2>1, <2>2
<1> QED  BY <1>3, <1>4, <1>5 DEF ExportInv, ExportTypeOK

\* An export goes on, to a step it is sound at.
LEMMA StepKeeps ==
    ASSUME ExportIInv, NEW j \in Jobs, NEW s \in Steps \ {"none"}, NEW rows \in Selection,
           NEW sheets \in SUBSET {"Prices", "Market Summary", "OHLC"}, Step(j, s, rows, sheets),
           JobSound([jobs[j] EXCEPT !.step = s, !.rows = rows, !.sheets = sheets])
    PROVE  ExportIInv'
<1> DEFINE x == [jobs[j] EXCEPT !.step = s, !.rows = rows, !.sheets = sheets]
<1> USE DEF ExportIInv, JobsSound
<1>1. x \in Job /\ x.mine = jobs[j].mine
  BY DEF Job
<1>2. jobs' = [jobs EXCEPT ![j] = x] /\ UNCHANGED <<exportUp, choice, busy, file>>
  BY DEF Step
<1> HIDE DEF x
<1>3. JobSound(x)
  BY DEF x
<1>4. jobs' \in [Jobs -> Job] /\ \A k \in Jobs : JobSound(jobs'[k]) /\ jobs'[k].mine = jobs[k].mine
  BY <1>1, <1>2, <1>3
<1>5. JobsSound' /\ OneMine'
  BY <1>2, <1>4 DEF OneMine
<1>6. ExportInv'
  BY <1>2, <1>4 DEF ExportInv, ExportTypeOK, FileMatchesName, OnlyPricesCostTheFile
<1> QED  BY <1>5, <1>6

\* An export fails for its prices, or is a workbook.
LEMMA FailKeeps ==
    ASSUME ExportIInv, NEW j \in Jobs, NEW why, FailExport(j, why),
           \/ why = "series"
           \/ why \in {"import", "no rows", "write"} /\ jobs[j].kind = "xlsx"
    PROVE  ExportIInv'
<1>1. ExportTypeOK' /\ JobsSound' /\ OneMine'
  BY EndKeeps DEF FailExport
<1>2. file' = [kind |-> jobs[j].kind, name |-> Idle.of, rows |-> Idle.of, sheets |-> {}, lost |-> why]
  BY DEF FailExport, NoFile
<1>3. FileMatchesName' /\ OnlyPricesCostTheFile'
  BY <1>2 DEF FileMatchesName, OnlyPricesCostTheFile
<1> QED  BY <1>1, <1>3 DEF ExportIInv, ExportInv

-----------------------------------------------------------------------------
(* One lemma per step of an export, and one for the panel. *)

LEMMA WriteKeeps ==
    ASSUME ExportIInv, NEW j \in Jobs, NEW lists \in SUBSET LocalLists, Write(j, lists)
    PROVE  ExportIInv'
<1>1. JobSound(jobs[j]) /\ jobs[j].step = "write"
  BY DEF ExportIInv, JobsSound, Write
<1>2. CASE jobs[j].kind = "xlsx" /\ FailExport(j, "write")
  BY <1>2, FailKeeps
<1>3. CASE Deliver(j, jobs[j].sheets \cup (IF jobs[j].kind = "xlsx" THEN lists ELSE {}))
  <2> DEFINE sheets == jobs[j].sheets \cup (IF jobs[j].kind = "xlsx" THEN lists ELSE {})
  <2>1. ExportTypeOK' /\ JobsSound' /\ OneMine'
    BY <1>3, EndKeeps DEF Deliver
  <2>2. file' = [kind |-> jobs[j].kind, name |-> jobs[j].of, rows |-> jobs[j].rows,
                 sheets |-> sheets, lost |-> "none"]
    BY <1>3 DEF Deliver, Closure
  <2>3. FileMatchesName' /\ OnlyPricesCostTheFile'
    BY <1>1, <2>2 DEF FileMatchesName, OnlyPricesCostTheFile, JobSound
  <2> QED  BY <2>1, <2>3 DEF ExportIInv, ExportInv
<1> QED  BY <1>2, <1>3 DEF Write

LEMMA FetchKeeps ==
    ASSUME ExportIInv, NEW j \in Jobs,
           \/ \E ok \in BOOLEAN : Import(j, ok) \/ Series(j, ok)
           \/ \E answer \in {"rows", "none", "failed"} : Ohlc(j, answer)
    PROVE  ExportIInv'
<1>1. jobs[j] \in Job /\ JobSound(jobs[j])
  BY DEF ExportIInv, JobsSound
<1> DEFINE next(s, rows, sheets) ==
             [jobs[j] EXCEPT !.step = s, !.rows = rows, !.sheets = sheets]
<1>2. ASSUME NEW ok \in BOOLEAN, Import(j, ok)
      PROVE  ExportIInv'
  <2>1. jobs[j].kind = "xlsx" /\ jobs[j].rows \in Selection
    BY <1>1, <1>2 DEF Import, JobSound, Job
  <2>2. CASE ok
    <3>1. Step(j, "series", jobs[j].rows, {})
      BY <1>2, <2>2 DEF Import
    <3>2. JobSound(next("series", jobs[j].rows, {}))
      BY <1>1 DEF JobSound, Job
    <3>3. "series" \in Steps \ {"none"} /\ {} \in SUBSET {"Prices", "Market Summary", "OHLC"}
      BY DEF Steps
    <3> HIDE DEF next
    <3> QED  BY <2>1, <3>1, <3>2, <3>3, StepKeeps DEF next
  <2>3. CASE ~ok
    BY <1>2, <2>1, <2>3, FailKeeps DEF Import
  <2> QED  BY <2>2, <2>3
<1>3. ASSUME NEW ok \in BOOLEAN, Series(j, ok)
      PROVE  ExportIInv'
  <2>1. CASE ~ok
    BY <1>3, <2>1, FailKeeps DEF Series
  <2>2. CASE ok /\ jobs[j].kind = "xlsx" /\ Closure(j).coin \in EmptyCoins
    BY <1>3, <2>2, FailKeeps DEF Series
  <2>3. CASE ok /\ ~(jobs[j].kind = "xlsx" /\ Closure(j).coin \in EmptyCoins)
    <3>1. CASE jobs[j].kind = "xlsx"
      <4>1. Step(j, "ohlc", jobs[j].of, {"Prices", "Market Summary"})
        BY <1>3, <2>3, <3>1 DEF Series, Closure
      <4>2. JobSound(next("ohlc", jobs[j].of, {"Prices", "Market Summary"})) /\ jobs[j].of \in Selection
        BY <1>1, <3>1 DEF JobSound, Job
      <4> QED  BY <4>1, <4>2, StepKeeps DEF Steps
    <3>2. CASE jobs[j].kind # "xlsx"
      <4>1. Step(j, "write", jobs[j].of, {})
        BY <1>3, <2>3, <3>2 DEF Series, Closure
      <4>2. JobSound(next("write", jobs[j].of, {})) /\ jobs[j].of \in Selection
        BY <1>1, <3>2 DEF JobSound, Job
      <4>3. "write" \in Steps \ {"none"} /\ {} \in SUBSET {"Prices", "Market Summary", "OHLC"}
        BY DEF Steps
      <4> QED  BY <4>1, <4>2, <4>3, StepKeeps
    <3> QED  BY <3>1, <3>2
  <2> QED  BY <2>1, <2>2, <2>3
<1>4. ASSUME NEW answer, Ohlc(j, answer)
      PROVE  ExportIInv'
  <2> DEFINE sheets == jobs[j].sheets \cup (IF answer = "rows" THEN {"OHLC"} ELSE {})
  <2>1. jobs[j].rows = jobs[j].of /\ jobs[j].kind = "xlsx" /\ jobs[j].rows \in Selection
        /\ jobs[j].sheets \in SUBSET {"Prices", "Market Summary", "OHLC"}
        /\ {"Prices", "Market Summary"} \subseteq jobs[j].sheets
    BY <1>1, <1>4 DEF Ohlc, JobSound, Job
  <2>2. sheets \in SUBSET {"Prices", "Market Summary", "OHLC"}
        /\ {"Prices", "Market Summary"} \subseteq sheets
    BY <2>1
  <2>3. Step(j, "write", jobs[j].rows, sheets)
    BY <1>4 DEF Ohlc
  <2> HIDE DEF sheets
  <2>4. JobSound(next("write", jobs[j].rows, sheets))
    BY <1>1, <2>1, <2>2 DEF JobSound, Job
  <2> QED  BY <2>1, <2>2, <2>3, <2>4, StepKeeps DEF Steps
<1> QED  BY <1>2, <1>3, <1>4

\* The selectors, leaving the desk and coming back, the CSV link and a new export.
LEMMA PanelKeeps ==
    ASSUME ExportIInv,
           \/ SwitchDesk \/ DownloadCsv
           \/ \E c \in ExportCoins, p \in ExportPeriods : ChooseExport(c, p)
           \/ \E j \in Jobs, k \in {"json", "all", "xlsx"} : StartExport(j, k)
    PROVE  ExportIInv'
<1> USE DEF ExportIInv, JobsSound, ExportInv
<1>1. CASE SwitchDesk
  <2>1. choice' \in Selection /\ choice'.coin = ""
    BY <1>1 DEF SwitchDesk, Selection
  <2>2. \A j \in Jobs : jobs'[j] \in Job /\ ~jobs'[j].mine /\ JobSound(jobs'[j])
    <3> TAKE j \in Jobs
    <3>1. jobs[j] \in Job /\ JobSound(jobs[j]) /\ jobs'[j] = [jobs[j] EXCEPT !.mine = FALSE]
      BY <1>1 DEF SwitchDesk
    <3>2. jobs'[j] \in Job /\ ~jobs'[j].mine
      BY <3>1 DEF Job
    <3>3. JobSound(jobs'[j])
      BY <3>1 DEF JobSound, Job
    <3> QED  BY <3>2, <3>3
  <2>3. jobs' \in [Jobs -> Job] /\ busy' = FALSE /\ file' = file
    BY <1>1, <2>2 DEF SwitchDesk
  <2>4. JobsSound' /\ OneMine'
    BY <2>1, <2>2, <2>3 DEF OneMine
  <2>5. ExportTypeOK'
    BY <2>1, <2>2, <2>3 DEF ExportTypeOK
  <2> QED  BY <2>3, <2>4, <2>5 DEF FileMatchesName, OnlyPricesCostTheFile
<1>2. CASE DownloadCsv
  <2>1. file' = [kind |-> "csv", name |-> choice, rows |-> choice, sheets |-> {}, lost |-> "none"]
    BY <1>2 DEF DownloadCsv, NoFile
  <2>2. UNCHANGED <<exportUp, choice, busy, jobs>>
    BY <1>2 DEF DownloadCsv
  <2>3. FileMatchesName' /\ OnlyPricesCostTheFile'
    BY <2>1 DEF FileMatchesName, OnlyPricesCostTheFile
  <2> QED  BY <2>2, <2>3 DEF ExportTypeOK, OneMine
<1>3. ASSUME NEW c \in ExportCoins, NEW p \in ExportPeriods, ChooseExport(c, p)
      PROVE  ExportIInv'
  <2>1. choice' \in Selection /\ choice'.coin \in ExportCoins
    BY <1>3 DEF ChooseExport, Selection
  <2>2. UNCHANGED <<exportUp, busy, jobs, file>>
    BY <1>3 DEF ChooseExport
  <2> QED  BY <2>1, <2>2 DEF ExportTypeOK, OneMine, FileMatchesName, OnlyPricesCostTheFile
<1>4. ASSUME NEW j \in Jobs, NEW k \in {"json", "all", "xlsx"}, StartExport(j, k)
      PROVE  ExportIInv'
  <2> DEFINE x == [Idle EXCEPT !.kind = k, !.of = choice, !.mine = TRUE,
                               !.step = IF k = "xlsx" THEN "import" ELSE "series"]
  <2>1. x \in Job /\ x.mine /\ JobSound(x)
    BY IdleType DEF Job, JobSound, ExportKinds, Steps, Idle
  <2>2. jobs' = [jobs EXCEPT ![j] = x] /\ busy' = TRUE /\ UNCHANGED <<exportUp, choice, file>>
        /\ exportUp /\ ~busy
    BY <1>4 DEF StartExport
  <2> HIDE DEF x
  <2>3. jobs' \in [Jobs -> Job] /\ \A i \in Jobs : JobSound(jobs'[i])
    BY <2>1, <2>2
  <2>4. \A i \in Jobs : ~jobs[i].mine
    BY <2>2 DEF ExportTypeOK
  <2>5. \A i \in Jobs : jobs'[i].mine <=> i = j
    BY <2>1, <2>2, <2>4
  <2>6. busy' \in BOOLEAN
    BY <2>2
  <2>7. JobsSound' /\ OneMine'
    BY <2>2, <2>3, <2>5, <2>6 DEF OneMine
  <2>8. ExportTypeOK'
    BY <2>2, <2>5 DEF ExportTypeOK
  <2> QED  BY <2>2, <2>7, <2>8 DEF FileMatchesName, OnlyPricesCostTheFile
<1> QED  BY <1>1, <1>2, <1>3, <1>4

-----------------------------------------------------------------------------
(* The theorem. *)

\* A file holds the coin and period its name says, whatever is selected meanwhile; no
\* optional sheet costs the user the file; and the buttons are disabled just while an
\* export of this panel is under way (DataExport.tsx).
THEOREM ExportInvariant == ExportSpec => []ExportInv
<1>1. ExportInit => ExportIInv
  <2> SUFFICES ASSUME ExportInit PROVE ExportIInv
    OBVIOUS
  <2>1. choice \in Selection /\ choice.coin = ""
    BY ExportAssumption DEF ExportInit, Selection
  <2>2. jobs \in [Jobs -> Job] /\ (\A j \in Jobs : JobSound(jobs[j]) /\ ~jobs[j].mine)
        /\ busy = FALSE /\ exportUp = TRUE
    BY IdleType DEF ExportInit
  <2>3. JobsSound /\ OneMine /\ ExportTypeOK
    BY <2>1, <2>2 DEF JobsSound, OneMine, ExportTypeOK
  <2>4. FileMatchesName /\ OnlyPricesCostTheFile
    BY DEF ExportInit, NoFile, FileMatchesName, OnlyPricesCostTheFile
  <2> QED  BY <2>3, <2>4 DEF ExportIInv, ExportInv
<1>2. ExportIInv /\ [ExportNext]_exportVars => ExportIInv'
  <2> SUFFICES ASSUME ExportIInv, [ExportNext]_exportVars PROVE ExportIInv'
    OBVIOUS
  <2>1. CASE UNCHANGED exportVars
    BY <2>1 DEF exportVars, ExportIInv, ExportInv, ExportTypeOK, FileMatchesName, OnlyPricesCostTheFile,
                JobsSound, OneMine
  <2>2. ASSUME NEW j \in Jobs, ExportStep(j) PROVE ExportIInv'
    BY <2>2, WriteKeeps, FetchKeeps DEF ExportStep
  <2> QED  BY <2>1, <2>2, PanelKeeps DEF ExportNext
<1>3. ExportIInv => ExportInv
  BY DEF ExportIInv
<1> QED  BY <1>1, <1>2, <1>3, PTL DEF ExportSpec

-----------------------------------------------------------------------------
(* TerminalPage. *)

TerminalSpec == TerminalInit /\ [][TerminalNext]_terminalVars

Priced == [coin : TermCoins \cup {""}, at : 0..TopPrice]

\* The registry is asked for until it is cached, and only then have panels coins: its.
OneRegistry ==
    /\ cache \in {<<>>, Listed, Fallback} /\ inflight = IF cache = <<>> THEN 1 ELSE 0
    /\ coinsOf \in [Islands -> {<<>>, cache}] /\ Shell \in mounted

\* The hero compares prices only after it has shown one, and starts afresh when mounted.
FlashInv ==
    /\ prev \in Priced /\ first \in Priced /\ dir \in {"none", "up", "down"}
    /\ first.at # 0 => prev.at # 0
    /\ timer => flashing
    /\ flashing => heroUp /\ dir # "none" /\ prev.at # 0 /\ (timer \/ skipped)

PricesKnown == spot \in [TermCoins -> 0..TopPrice] /\ moves \in 0..MaxMoves

TerminalIInv == OneRegistry /\ FlashInv /\ PricesKnown /\ OnePairPerSession

\* A list of coins is one of two, and a pair is picked from it.
LEMMA PickListed ==
    ASSUME NEW coins \in {Listed, Fallback}, NEW s
    PROVE  /\ coins # <<>> /\ Pick(coins, s) \in TermCoins
           /\ \E n \in DOMAIN coins : coins[n] = Pick(coins, s)
<1>1. coins \in Seq(STRING) /\ coins # <<>> /\ 1 \in DOMAIN coins
  BY TerminalAssumption
<1>2. \E n \in DOMAIN coins : coins[n] = Pick(coins, s)
  BY <1>1 DEF Pick
<1> QED  BY <1>1, <1>2 DEF TermCoins

\* The pair of the hero is a listed coin, or there is none yet.
LEMMA SelectedListed ==
    ASSUME OneRegistry
    PROVE  /\ Shell \in Islands /\ SelectedCoin \in TermCoins \cup {""}
           /\ coinsOf[Shell] \in {<<>>, cache}
           /\ coinsOf[Shell] = <<>> => SelectedCoin = ""
           /\ coinsOf[Shell] # <<>> => cache \in {Listed, Fallback}
                                       /\ \E n \in DOMAIN cache : cache[n] = SelectedCoin
<1>1. Shell \in Islands
  BY TerminalAssumption DEF Shell
<1>2. coinsOf[Shell] \in {<<>>, cache}
  BY <1>1 DEF OneRegistry
<1>3. coinsOf[Shell] = <<>> => SelectedCoin = ""
  BY DEF SelectedCoin, Pick
<1>4. CASE coinsOf[Shell] # <<>>
  <2>1. coinsOf[Shell] = cache /\ cache \in {Listed, Fallback}
    BY <1>2, <1>4 DEF OneRegistry
  <2> QED  BY <1>1, <1>2, <1>4, <2>1, PickListed DEF SelectedCoin
<1> QED  BY <1>1, <1>2, <1>3, <1>4

\* 0 stands for no price.
LEMMA ZeroPrice == 0 \in 0..TopPrice
BY TerminalAssumption

\* A price is one, or 0 while unknown.
LEMMA LiveType ==
    ASSUME NEW c \in TermCoins \cup {""}, NEW sp \in [TermCoins -> 0..TopPrice]
    PROVE  Live(c, sp) \in 0..TopPrice
<1>1. CASE c = ""
  BY <1>1, ZeroPrice DEF Live
<1>2. CASE c # ""
  <2>1. c \in TermCoins
    BY <1>2
  <2> QED  BY <1>2, <2>1 DEF Live
<1> QED  BY <1>1, <1>2

\* No price is one.
LEMMA NoPriceType == NoPrice \in Priced /\ NoPrice.at = 0
BY ZeroPrice DEF NoPrice, Priced

\* The effect of a render keeps the flash in order, whatever the pair and its price.
LEMMA FlashKeeps ==
    ASSUME FlashInv, NEW c \in TermCoins \cup {""}, NEW p \in 0..TopPrice, Flash(c, p),
           heroUp' = heroUp
    PROVE  FlashInv'
<1> USE TerminalAssumption DEF FlashInv
<1> DEFINE shown == [coin |-> c, at |-> p]
<1>1. shown \in Priced /\ shown.at = p /\ shown.coin = c
  BY DEF Priced
<1> HIDE DEF shown
<1>2. CASE UNCHANGED flashVars
  BY <1>2 DEF flashVars
<1>3. CASE p = 0 \/ p = prev.at
  <2>1. CASE UNCHANGED flashVars
    BY <1>2, <2>1
  <2>2. CASE ~UNCHANGED flashVars
    <3>1. /\ timer' = FALSE /\ skipped' = TRUE /\ UNCHANGED <<first, dir, flashing>>
          /\ prev' = IF p = 0 THEN prev ELSE shown
      BY <1>3, <2>2 DEF Flash, shown
    <3> QED  BY <1>1, <1>3, <3>1
  <2> QED  BY <2>1, <2>2
<1>4. CASE ~(p = 0 \/ p = prev.at) /\ ~UNCHANGED flashVars
  <2>1. heroUp /\ prev' = shown /\ first' = IF first.at = 0 THEN shown ELSE first
    BY <1>4 DEF Flash, shown
  <2>2. CASE prev.at = 0
    <3>1. timer' = FALSE /\ UNCHANGED <<dir, flashing, skipped>>
      BY <1>4, <2>2 DEF Flash
    <3> QED  BY <1>1, <1>4, <2>1, <2>2, <3>1
  <2>3. CASE prev.at # 0
    <3>1. dir' \in {"up", "down"} /\ flashing' = TRUE /\ timer' = TRUE
      BY <1>4, <2>3 DEF Flash
    <3> QED  BY <1>1, <1>4, <2>1, <3>1
  <2> QED  BY <2>2, <2>3
<1> QED  BY <1>2, <1>3, <1>4

\* A render with a price of the pair leaves refs of the pair with that price.
LEMMA FlashShows ==
    ASSUME FlashInv, heroUp, NEW c, NEW p \in 0..TopPrice, Flash(c, p),
           p # Live(SelectedCoin, spot), p # 0, first.at # 0 => first.coin = c
    PROVE  /\ prev'.coin = c /\ prev'.at = p
           /\ first'.at # 0 => first'.coin = c
BY DEF Flash, FlashInv

\* Panels come and go; the flash ends; the feed is held.
LEMMA PanelsComeAndGo ==
    ASSUME TerminalIInv,
           \/ FlashTimeout \/ ToggleHold
           \/ \E i \in Islands : MountIsland(i) \/ UnmountIsland(i)
    PROVE  TerminalIInv'
<1> USE DEF TerminalIInv
<1>1. UNCHANGED <<cache, selected, spot, heroUp, prev, first, moves, switched, dir>>
  BY DEF FlashTimeout, ToggleHold, MountIsland, UnmountIsland, coinVars, flashVars
<1>2. FlashInv'
  BY <1>1 DEF FlashInv, FlashTimeout, ToggleHold, MountIsland, UnmountIsland, flashVars
<1>3. OneRegistry' /\ (coinsOf'[Shell] = coinsOf[Shell])
  <2>1. CASE FlashTimeout \/ ToggleHold
    BY <2>1 DEF OneRegistry, FlashTimeout, ToggleHold, coinVars
  <2>2. ASSUME NEW i \in Islands, MountIsland(i) PROVE OneRegistry' /\ coinsOf'[Shell] = coinsOf[Shell]
    BY <2>2, SelectedListed DEF OneRegistry, MountIsland
  <2>3. ASSUME NEW i \in Islands, UnmountIsland(i) PROVE OneRegistry' /\ coinsOf'[Shell] = coinsOf[Shell]
    BY <2>3, SelectedListed DEF OneRegistry, UnmountIsland
  <2> QED  BY <2>1, <2>2, <2>3
<1>4. SelectedCoin' = SelectedCoin
  BY <1>1, <1>3 DEF SelectedCoin
<1> QED  BY <1>1, <1>2, <1>3, <1>4 DEF PricesKnown, OnePairPerSession

\* The registry is answered: the pair appears, in a hero that has shown no price.
LEMMA AnswerKeeps ==
    ASSUME TerminalIInv, NEW got \in {Listed, <<>>}, CoinsAnswer(got)
    PROVE  TerminalIInv'
<1> USE DEF TerminalIInv
<1>1. /\ cache = <<>> /\ cache' \in {Listed, Fallback} /\ inflight' = 0
      /\ coinsOf' = [i \in Islands |-> IF i \in mounted THEN cache' ELSE <<>>]
      /\ UNCHANGED <<mounted, selected, held, spot, heroUp, moves, switched>>
  BY DEF CoinsAnswer, OneRegistry
<1>2. OneRegistry'
  BY <1>1, PickListed DEF OneRegistry
<1>3. SelectedCoin = "" /\ Live(SelectedCoin, spot) = 0
  BY <1>1, SelectedListed DEF Live
<1> DEFINE c == Pick(cache', selected)
           p == Live(c, spot)
<1>4. SelectedCoin' = c /\ c \in TermCoins
  <2>1. coinsOf'[Shell] = cache'
    BY <1>1, SelectedListed DEF OneRegistry
  <2> QED  BY <1>1, <2>1, PickListed DEF SelectedCoin
<1>5. p \in 0..TopPrice /\ Live(SelectedCoin', spot') = p
  BY <1>1, <1>4, LiveType DEF PricesKnown
<1>6. Flash(c, p)
  BY DEF CoinsAnswer
<1> HIDE DEF c, p
<1>7. FlashInv'
  BY <1>1, <1>4, <1>5, <1>6, FlashKeeps
<1>8. OnePairPerSession'
  <2> SUFFICES ASSUME ~switched, heroUp
               PROVE  /\ first'.at # 0 => first'.coin = SelectedCoin'
                      /\ prev'.at # 0 => prev'.coin = SelectedCoin' /\ prev'.at = p
    BY <1>1, <1>5 DEF OnePairPerSession
  <2>1. prev.at = 0 /\ first.at = 0
    BY <1>3 DEF OnePairPerSession, FlashInv
  <2>2. CASE p = 0
    BY <1>3, <1>6, <2>1, <2>2 DEF Flash, flashVars
  <2>3. CASE p # 0
    BY <1>3, <1>4, <1>5, <1>6, <2>1, <2>3, FlashShows
  <2> QED  BY <2>2, <2>3
<1> QED  BY <1>1, <1>2, <1>7, <1>8 DEF PricesKnown

\* The user selects a pair, a price moves, the hero goes and comes.
LEMMA HeroKeeps ==
    ASSUME TerminalIInv,
           \/ LeaveMarkets \/ EnterMarkets
           \/ \E c \in TermCoins : Select(c) \/ \E p \in 1..TopPrice : SpotPrice(c, p)
    PROVE  TerminalIInv'
<1> USE TerminalAssumption DEF TerminalIInv
<1>1. UNCHANGED coinVars
  BY DEF LeaveMarkets, EnterMarkets, Select, SpotPrice
<1>2. OneRegistry' /\ coinsOf' = coinsOf
  BY <1>1 DEF OneRegistry, coinVars
<1>3. CASE LeaveMarkets
  <2>1. FlashInv'
    BY <1>3, NoPriceType DEF LeaveMarkets, FlashInv
  <2> QED  BY <1>2, <1>3, <2>1 DEF LeaveMarkets, PricesKnown, OnePairPerSession
<1>4. CASE EnterMarkets
  <2> DEFINE p == Live(SelectedCoin, spot)
  <2>1. p \in 0..TopPrice /\ SelectedCoin \in TermCoins \cup {""}
    BY SelectedListed, LiveType DEF PricesKnown
  <2>2. /\ UNCHANGED <<selected, spot, moves, switched, dir, flashing, timer, skipped>>
        /\ ~heroUp /\ heroUp' /\ first' = prev'
        /\ prev' = IF p = 0 THEN NoPrice ELSE [coin |-> SelectedCoin, at |-> p]
    BY <1>4 DEF EnterMarkets
  <2>3. SelectedCoin' = SelectedCoin /\ Live(SelectedCoin, spot)' = p
    BY <1>2, <2>2 DEF SelectedCoin
  <2> HIDE DEF p
  <2>4. prev' \in Priced /\ (prev'.at # 0 => prev'.coin = SelectedCoin /\ prev'.at = p)
    BY <2>1, <2>2 DEF NoPrice, Priced
  <2>5. FlashInv'
    BY <2>2, <2>4 DEF FlashInv
  <2> QED  BY <1>2, <2>2, <2>3, <2>4, <2>5 DEF PricesKnown, OnePairPerSession
<1>5. ASSUME NEW c \in TermCoins, Select(c) PROVE TerminalIInv'
  <2>1. /\ Flash(c, Live(c, spot)) /\ heroUp' = heroUp /\ spot' = spot /\ switched'
        /\ moves' \in 0..MaxMoves
    BY <1>5 DEF Select, Move, PricesKnown
  <2>2. FlashInv'
    BY <2>1, FlashKeeps, LiveType DEF PricesKnown
  <2> QED  BY <1>2, <2>1, <2>2 DEF PricesKnown, OnePairPerSession
<1>6. ASSUME NEW c \in TermCoins, NEW p \in 1..TopPrice, SpotPrice(c, p) PROVE TerminalIInv'
  <2> DEFINE s == SelectedCoin
             q == Live(s, spot')
  <2>1. /\ spot' = [spot EXCEPT ![c] = p] /\ spot[c] # p /\ Flash(s, q)
        /\ UNCHANGED <<selected, heroUp, switched>> /\ moves' \in 0..MaxMoves
    BY <1>6 DEF SpotPrice, Move, PricesKnown
  <2>2. spot' \in [TermCoins -> 0..TopPrice] /\ p \in 0..TopPrice /\ p # 0
    BY <2>1 DEF PricesKnown
  <2>3. s \in TermCoins \cup {""} /\ q \in 0..TopPrice
    BY <2>2, SelectedListed, LiveType
  <2>4. SelectedCoin' = s
    BY <1>2, <2>1 DEF SelectedCoin
  <2>5. Live(SelectedCoin, spot)' = q
    BY <2>4
  <2>6. q = Live(s, spot) \/ (q = p /\ q # 0)
    BY <2>1, <2>2, <2>3 DEF Live, PricesKnown
  <2> HIDE DEF s, q
  <2>7. FlashInv'
    BY <2>1, <2>3, FlashKeeps
  <2>8. OnePairPerSession'
    <3> SUFFICES ASSUME ~switched, heroUp
                 PROVE  /\ first'.at # 0 => first'.coin = s
                        /\ prev'.at # 0 => prev'.coin = s /\ prev'.at = q
      BY <2>1, <2>4, <2>5 DEF OnePairPerSession
    <3>1. CASE q = Live(s, spot)
      BY <2>1, <3>1 DEF Flash, flashVars, OnePairPerSession, s
    <3>2. CASE q # Live(s, spot)
      BY <2>1, <2>3, <2>6, <3>2, FlashShows DEF OnePairPerSession, s
    <3> QED  BY <3>1, <3>2
  <2> QED  BY <1>2, <2>1, <2>2, <2>7, <2>8 DEF PricesKnown
<1> QED  BY <1>3, <1>4, <1>5, <1>6

\* One list of coins for all panels, however they come and go and prices move; a flash that
\* has its timer unless a pair without a price, or with the very price shown, was selected
\* meanwhile; and prices of one pair in the hero until the pair is changed (useCoins.ts,
\* usePriceFlash.ts).
THEOREM TerminalInvariant == TerminalSpec => []TerminalInv
<1>1. TerminalInit => TerminalIInv
  <2> SUFFICES ASSUME TerminalInit PROVE TerminalIInv
    OBVIOUS
  <2> USE TerminalAssumption DEF TerminalInit
  <2>1. OneRegistry /\ PricesKnown
    BY DEF OneRegistry, PricesKnown
  <2> QED  BY <2>1, NoPriceType DEF TerminalIInv, FlashInv, OnePairPerSession
<1>2. TerminalIInv /\ [TerminalNext]_terminalVars => TerminalIInv'
  <2> SUFFICES ASSUME TerminalIInv, [TerminalNext]_terminalVars PROVE TerminalIInv'
    OBVIOUS
  <2>1. CASE UNCHANGED terminalVars
    BY <2>1 DEF terminalVars, TerminalIInv, OneRegistry, FlashInv, PricesKnown,
                OnePairPerSession, SelectedCoin
  <2> QED  BY <2>1, PanelsComeAndGo, AnswerKeeps, HeroKeeps DEF TerminalNext
<1>3. TerminalIInv => TerminalInv
  <2> SUFFICES ASSUME TerminalIInv PROVE TerminalInv
    OBVIOUS
  <2> USE DEF TerminalIInv
  <2>1. TerminalTypeOK
    <3>1. prev.at \in 0..TopPrice
      BY DEF FlashInv, Priced
    <3>2. inflight \in 0..1
      BY DEF OneRegistry
    <3> QED  BY <3>1, <3>2 DEF TerminalTypeOK, OneRegistry, FlashInv, PricesKnown
  <2>2. IslandsAgree
    BY SelectedListed DEF IslandsAgree, OneRegistry
  <2>3. FlashIsTimed
    BY DEF FlashIsTimed, FlashInv
  <2> QED  BY <2>1, <2>2, <2>3 DEF TerminalInv
<1> QED  BY <1>1, <1>2, <1>3, PTL DEF TerminalSpec

-----------------------------------------------------------------------------
(* Filter: induction by the least counterexample. *)

\* Every set of numbers has a least one.
LEMMA LeastNumber ==
    ASSUME NEW T, T \subseteq Nat, T # {}
    PROVE  \E m \in T : \A k \in T : m <= k
<1> DEFINE R == {ss \in Nat \X Nat : ss[1] < ss[2]}
<1>1. IsWellFoundedOn(R, Nat)
  BY NatLessThanWellFounded DEF OpToRel
<1> HIDE DEF R
<1>2. PICK m \in T : \A k \in T : <<k, m>> \notin R
  BY <1>1, WFMin
<1>3. \A k \in T : ~(k < m)
  BY <1>2 DEF R
<1> QED  BY <1>3

\* The step of the filter's loop.
KeepOne(s, S, q, n) == IF s[n] \in S THEN Append(q, s[n]) ELSE q
IsKept(f, s, S, m) == f = [n \in 0..m |-> IF n = 0 THEN <<>> ELSE KeepOne(s, S, f[n - 1], n)]

\* There is such a function up to every number.
LEMMA KeptExists ==
    ASSUME NEW s, NEW S, NEW m \in Nat
    PROVE  \E f : IsKept(f, s, S, m)
<1> DEFINE Bad == {n \in Nat : ~ \E f : IsKept(f, s, S, n)}
<1> SUFFICES ASSUME Bad # {} PROVE FALSE
  OBVIOUS
<1>1. PICK n \in Bad : \A k \in Bad : n <= k
  <2>1. Bad \subseteq Nat
    OBVIOUS
  <2> HIDE DEF Bad
  <2> QED  BY <2>1, LeastNumber
<1>2. n \in Nat /\ ~ \E f : IsKept(f, s, S, n)
  BY <1>1
<1>3. CASE n = 0
  <2> DEFINE f == [k \in 0..0 |-> <<>>]
  <2>1. IsKept(f, s, S, 0)
    BY DEF IsKept
  <2> QED  BY <1>2, <1>3, <2>1
<1>4. CASE n # 0
  <2>1. n - 1 \in Nat /\ n - 1 \notin Bad
    BY <1>1, <1>2, <1>4
  <2>2. PICK f : IsKept(f, s, S, n - 1)
    BY <2>1
  <2> HIDE DEF Bad
  <2> DEFINE g == [k \in 0..n |-> IF k = n THEN KeepOne(s, S, f[n - 1], n) ELSE f[k]]
  <2>3. \A k \in 0..(n - 1) : f[k] = IF k = 0 THEN <<>> ELSE KeepOne(s, S, f[k - 1], k)
    BY <2>2 DEF IsKept
  <2>4. ASSUME NEW k \in 0..n
        PROVE  g[k] = IF k = 0 THEN <<>> ELSE KeepOne(s, S, g[k - 1], k)
    <3>1. CASE k = n
      BY <1>2, <1>4, <3>1
    <3>2. CASE k # n
      <4>1. k \in 0..(n - 1) /\ (k # 0 => k - 1 \in 0..n /\ k - 1 # n)
        BY <1>2, <3>2
      <4> QED  BY <2>3, <3>2, <4>1
    <3> QED  BY <3>1, <3>2
  <2>5. g = [k \in 0..n |-> g[k]]
    OBVIOUS
  <2> HIDE DEF g
  <2>6. IsKept(g, s, S, n)
    BY <2>4, <2>5 DEF IsKept
  <2> QED  BY <1>2, <2>6
<1> QED  BY <1>3, <1>4

\* A filter keeps elements of the sequence that pass, and no others.
LEMMA KeepListing ==
    ASSUME NEW T, NEW s \in Seq(T), NEW S
    PROVE  /\ Keep(s, S) \in Seq(T \cap S) /\ Len(Keep(s, S)) <= Len(s)
           /\ \A i \in DOMAIN Keep(s, S) : \E k \in DOMAIN s : Keep(s, S)[i] = s[k]
<1> DEFINE f == CHOOSE f : IsKept(f, s, S, Len(s))
<1>1. Len(s) \in Nat /\ DOMAIN s = 1..Len(s) /\ \A k \in 1..Len(s) : s[k] \in T
  OBVIOUS
<1>2. Keep(s, S) = f[Len(s)]
  BY DEF Keep, IsKept, KeepOne
<1>3. IsKept(f, s, S, Len(s))
  BY <1>1, KeptExists
<1> HIDE DEF f
<1>4. \A n \in 0..Len(s) : f[n] = IF n = 0 THEN <<>> ELSE KeepOne(s, S, f[n - 1], n)
  BY <1>3 DEF IsKept
<1> DEFINE U == {x \in T \cap S : \E k \in 1..Len(s) : x = s[k]}
           Bad == {n \in 0..Len(s) : ~(f[n] \in Seq(U) /\ Len(f[n]) <= n)}
<1>5. Bad = {}
  <2> SUFFICES ASSUME Bad # {} PROVE FALSE
    OBVIOUS
  <2>1. PICK n \in Bad : \A k \in Bad : n <= k
    <3>1. Bad \subseteq Nat
      OBVIOUS
    <3> HIDE DEF Bad
    <3> QED  BY <3>1, LeastNumber
  <2>2. n \in 0..Len(s) /\ ~(f[n] \in Seq(U) /\ Len(f[n]) <= n)
    BY <2>1
  <2>3. n # 0
    <3>1. f[0] = <<>> /\ <<>> \in Seq(U) /\ Len(<<>>) <= 0
      BY <1>1, <1>4
    <3> HIDE DEF U
    <3>2. f[0] \in Seq(U) /\ Len(f[0]) <= 0
      BY <3>1
    <3> QED  BY <2>2, <3>2
  <2>4. n - 1 \in 0..Len(s) /\ n - 1 \notin Bad /\ n \in 1..Len(s)
    BY <1>1, <2>1, <2>2, <2>3
  <2>5. f[n - 1] \in Seq(U) /\ Len(f[n - 1]) <= n - 1
    BY <2>4
  <2>6. f[n] = IF s[n] \in S THEN Append(f[n - 1], s[n]) ELSE f[n - 1]
    BY <1>4, <2>2, <2>3 DEF KeepOne
  <2>7. s[n] \in S => s[n] \in U
    BY <1>1, <2>4
  <2> HIDE DEF U, Bad
  <2>8. f[n] \in Seq(U) /\ Len(f[n]) <= n
    BY <1>1, <2>4, <2>5, <2>6, <2>7
  <2> QED  BY <2>2, <2>8
<1>6. f[Len(s)] \in Seq(U) /\ Len(f[Len(s)]) <= Len(s)
  BY <1>1, <1>5
<1>7. U \subseteq T \cap S
  OBVIOUS
<1>8. \A x \in U : \E k \in DOMAIN s : x = s[k]
  BY <1>1
<1> HIDE DEF U
<1> QED  BY <1>2, <1>6, <1>7, <1>8

\* A filter keeps every element that passes.
LEMMA KeepAll ==
    ASSUME NEW T, NEW s \in Seq(T), NEW S, NEW k \in DOMAIN s, s[k] \in S
    PROVE  \E i \in DOMAIN Keep(s, S) : Keep(s, S)[i] = s[k]
<1> DEFINE f == CHOOSE f : IsKept(f, s, S, Len(s))
<1>1. Len(s) \in Nat /\ DOMAIN s = 1..Len(s) /\ \A m \in 1..Len(s) : s[m] \in T
  OBVIOUS
<1>2. Keep(s, S) = f[Len(s)]
  BY DEF Keep, IsKept, KeepOne
<1>3. IsKept(f, s, S, Len(s))
  BY <1>1, KeptExists
<1> HIDE DEF f
<1>4. \A n \in 0..Len(s) : f[n] = IF n = 0 THEN <<>> ELSE KeepOne(s, S, f[n - 1], n)
  BY <1>3 DEF IsKept
<1> DEFINE Has(n) == \E i \in DOMAIN f[n] : f[n][i] = s[k]
           Bad == {n \in 0..Len(s) : ~(f[n] \in Seq(T) /\ (k <= n => Has(n)))}
<1>5. Bad = {}
  <2> SUFFICES ASSUME Bad # {} PROVE FALSE
    OBVIOUS
  <2>1. PICK n \in Bad : \A m \in Bad : n <= m
    <3>1. Bad \subseteq Nat
      OBVIOUS
    <3> HIDE DEF Bad
    <3> QED  BY <3>1, LeastNumber
  <2>2. n \in 0..Len(s) /\ ~(f[n] \in Seq(T) /\ (k <= n => Has(n)))
    BY <2>1
  <2>3. n # 0
    <3>1. f[0] = <<>> /\ <<>> \in Seq(T)
      BY <1>1, <1>4
    <3>2. f[0] \in Seq(T) /\ ~(k <= 0)
      BY <1>1, <3>1
    <3> HIDE DEF Has
    <3> QED  BY <2>2, <3>2
  <2>4. n - 1 \in 0..Len(s) /\ n - 1 \notin Bad /\ n \in 1..Len(s)
    BY <1>1, <2>1, <2>2, <2>3
  <2>5. f[n - 1] \in Seq(T) /\ (k <= n - 1 => Has(n - 1))
    BY <2>4
  <2>6. f[n] = IF s[n] \in S THEN Append(f[n - 1], s[n]) ELSE f[n - 1]
    BY <1>4, <2>2, <2>3 DEF KeepOne
  <2> HIDE DEF Bad
  <2>7. CASE s[n] \in S
    <3> DEFINE g == f[n - 1]
               h == f[n]
    <3>1. g \in Seq(T) /\ h = Append(g, s[n]) /\ s[n] \in T
      BY <1>1, <2>4, <2>5, <2>6, <2>7
    <3> HIDE DEF g, h
    <3>2. /\ h \in Seq(T) /\ Len(g) + 1 \in DOMAIN h /\ h[Len(g) + 1] = s[n]
          /\ \A i \in DOMAIN g : i \in DOMAIN h /\ h[i] = g[i]
      BY <3>1
    <3>3. CASE k = n
      BY <2>2, <3>2, <3>3 DEF h
    <3>4. CASE k # n
      <4>1. k <= n => k <= n - 1
        BY <1>1, <2>4, <3>4
      <4> QED  BY <2>2, <2>5, <3>2, <4>1 DEF g, h
    <3> QED  BY <3>3, <3>4
  <2>8. CASE s[n] \notin S
    <3>1. k # n /\ (k <= n => k <= n - 1)
      <4>1. k # n
        BY <2>8
      <4> QED  BY <1>1, <2>4, <4>1
    <3> QED  BY <2>2, <2>5, <2>6, <2>8, <3>1
  <2> QED  BY <2>7, <2>8
<1>6. Has(Len(s))
  <2>1. Len(s) \in 0..Len(s) /\ k <= Len(s)
    BY <1>1
  <2> HIDE DEF Has
  <2> QED  BY <1>5, <2>1
<1> QED  BY <1>2, <1>6

-----------------------------------------------------------------------------
(* Ticker. *)

TickerSpec == TickerInit /\ [][TickerNext]_tickerVars

Watch  == [coin : Pairs \cup {""}, cur : TickerCurs, src : Sources]
TickOf == [coin : Pairs \cup {""}, cur : TickerCurs, src : Feeds, t : Nat, n : Nat]

TickerTyped ==
    /\ watch \in Watch /\ ticks \in Seq(TickOf) /\ printed \in Nat
    /\ headline \in 0..2 /\ arrow \in {"none", "up", "down"}
    /\ taken \subseteq TickOf /\ stamps \in Seq(Nat)
    /\ tickRate \in Nat /\ late \in 0..MaxLate /\ quiet \in 0..QuietCap

\* No point and no print that was taken has a number still to come.
PrintsCounted ==
    /\ \A i \in DOMAIN ticks : ticks[i].n <= printed
    /\ \A p \in taken : p.n <= printed

\* What is counted is no younger than the last print; a rate that is not 0 was measured
\* when that was in the window.
RateFresh ==
    /\ \A i \in DOMAIN stamps : stamps[i] >= quiet
    /\ tickRate > 0 => quiet <= WindowUnits + late

TickerIInv ==
    /\ TickerTyped /\ Len(ticks) <= MaxTicks
    /\ watch.src = "binance" => watch.cur = "USD"
    /\ PlotIsOfWatched /\ LatestKept /\ PrintsCounted /\ RateFresh

\* The new point is last; before it are the points there were, without the one it replaces
\* and those that do not fit.
LEMMA WithTickPoints ==
    ASSUME TickerTyped, Len(ticks) <= MaxTicks, NEW k \in TickOf
    PROVE  /\ WithTick(k) \in Seq(TickOf)
           /\ Len(WithTick(k)) \in 1..MaxTicks /\ WithTick(k)[Len(WithTick(k))] = k
           /\ \E off \in Nat :
                 /\ \A i \in 1..(Len(WithTick(k)) - 1) :
                       i + off \in DOMAIN ticks /\ WithTick(k)[i] = ticks[i + off]
                 /\ Len(WithTick(k)) - 1 + off =
                       IF ticks # <<>> /\ Last(ticks).t = k.t THEN Len(ticks) - 1 ELSE Len(ticks)
           /\ ticks # <<>> /\ Last(ticks).t = k.t => Len(WithTick(k)) = Len(ticks)
           /\ ~(ticks # <<>> /\ Last(ticks).t = k.t) =>
                 Len(WithTick(k)) = IF Len(ticks) < MaxTicks THEN Len(ticks) + 1 ELSE MaxTicks
<1> USE TickerAssumption
<1>1. /\ ticks \in Seq(TickOf) /\ Len(ticks) \in Nat /\ DOMAIN ticks = 1..Len(ticks)
      /\ ticks # <<>> => Len(ticks) > 0
  BY DEF TickerTyped
<1>2. CASE ticks # <<>> /\ Last(ticks).t = k.t
  <2> DEFINE n == Len(ticks)
             base == SubSeq(ticks, 1, n - 1)
  <2>1. base \in Seq(TickOf) /\ Len(base) = n - 1 /\ \A i \in 1..(n - 1) : base[i] = ticks[i]
    BY <1>1, <1>2
  <2>2. WithTick(k) = Append(base, k)
    BY <1>2 DEF WithTick, Front
  <2> HIDE DEF base
  <2>3. /\ WithTick(k) \in Seq(TickOf) /\ Len(WithTick(k)) = n /\ WithTick(k)[n] = k
        /\ \A i \in 1..(n - 1) : WithTick(k)[i] = ticks[i]
    <3> HIDE DEF n
    <3>1. n \in Nat \ {0} /\ Len(base) \in Nat /\ Len(base) + 1 = n
      BY <1>1, <1>2, <2>1 DEF n
    <3>2. /\ Append(base, k) \in Seq(TickOf) /\ Len(Append(base, k)) = Len(base) + 1
          /\ Append(base, k)[Len(base) + 1] = k
          /\ \A i \in 1..Len(base) : Append(base, k)[i] = base[i]
      BY <2>1
    <3> QED  BY <2>1, <2>2, <3>1, <3>2
  <2>4. \A i \in 1..(Len(WithTick(k)) - 1) : i + 0 \in DOMAIN ticks /\ WithTick(k)[i] = ticks[i + 0]
    BY <1>1, <2>3
  <2>5. Len(WithTick(k)) - 1 + 0 = Len(ticks) - 1 /\ Len(WithTick(k)) \in 1..MaxTicks /\ 0 \in Nat
    BY <1>1, <1>2, <2>3 DEF TickerIInv
  <2> HIDE DEF n
  <2> QED  BY <1>2, <2>3, <2>4, <2>5 DEF n
<1>3. CASE ~(ticks # <<>> /\ Last(ticks).t = k.t)
  <2> DEFINE n == Len(ticks)
             all == Append(ticks, k)
             from == IF Len(all) > MaxTicks THEN Len(all) - MaxTicks + 1 ELSE 1
  <2>1. /\ all \in Seq(TickOf) /\ Len(all) = n + 1 /\ all[n + 1] = k
        /\ \A i \in 1..n : all[i] = ticks[i]
    BY <1>1
  <2>2. WithTick(k) = SubSeq(all, from, Len(all))
    BY <1>3 DEF WithTick
  <2>3. /\ from \in 1..2 /\ from <= n + 1 /\ n + 2 - from \in 1..MaxTicks
        /\ n + 2 - from = IF n < MaxTicks THEN n + 1 ELSE MaxTicks
    <3>1. Len(all) = n + 1 /\ n \in Nat /\ n <= MaxTicks
      BY <1>1, <2>1
    <3> HIDE DEF all, n
    <3>2. CASE n < MaxTicks
      <4>1. from = 1
        BY <3>1, <3>2
      <4> QED  BY <3>1, <3>2, <4>1
    <3>3. CASE n = MaxTicks
      <4>1. from = 2
        BY <3>1, <3>3
      <4> QED  BY <3>1, <3>3, <4>1
    <3> QED  BY <3>1, <3>2, <3>3
  <2> HIDE DEF all, from
  <2>4. /\ WithTick(k) \in Seq(TickOf) /\ Len(WithTick(k)) = n + 2 - from
        /\ \A i \in 1..(n + 2 - from) : WithTick(k)[i] = all[from + i - 1]
    BY <1>1, <2>1, <2>2, <2>3
  <2>5. ASSUME NEW i \in 1..(Len(WithTick(k)) - 1)
        PROVE  i + (from - 1) \in DOMAIN ticks /\ WithTick(k)[i] = ticks[i + (from - 1)]
    <3>1. i + (from - 1) \in 1..n /\ from + i - 1 = i + (from - 1) /\ i \in 1..(n + 2 - from)
      BY <1>1, <2>3, <2>4
    <3> QED  BY <1>1, <2>1, <2>4, <3>1
  <2>6. WithTick(k)[Len(WithTick(k))] = k
    <3>1. n + 2 - from \in 1..(n + 2 - from) /\ from + (n + 2 - from) - 1 = n + 1
      BY <1>1, <2>3
    <3> QED  BY <2>1, <2>4, <3>1
  <2>7. from - 1 \in Nat /\ Len(WithTick(k)) - 1 + (from - 1) = Len(ticks)
    <3>1. Len(WithTick(k)) = n + 2 - from /\ n \in Nat /\ n = Len(ticks)
      BY <1>1, <2>4
    <3> HIDE DEF n
    <3> QED  BY <2>3, <3>1
  <2>8. \E off \in Nat :
           /\ \A i \in 1..(Len(WithTick(k)) - 1) :
                 i + off \in DOMAIN ticks /\ WithTick(k)[i] = ticks[i + off]
           /\ Len(WithTick(k)) - 1 + off = Len(ticks)
    <3> DEFINE off == from - 1
    <3>1. /\ off \in Nat /\ Len(WithTick(k)) - 1 + off = Len(ticks)
          /\ \A i \in 1..(Len(WithTick(k)) - 1) :
                i + off \in DOMAIN ticks /\ WithTick(k)[i] = ticks[i + off]
      BY <2>5, <2>7
    <3> HIDE DEF off
    <3> QED  BY <3>1
  <2> QED  BY <1>3, <2>3, <2>4, <2>6, <2>8
<1> QED  BY <1>2, <1>3

\* A new selection starts an empty plot.
LEMMA ChoosingKeeps ==
    ASSUME TickerIInv, NEW w \in Watch, WatchNow(w)
    PROVE  TickerIInv'
<1>1. /\ ticks' = <<>> /\ headline' = 0 /\ taken' = {}
      /\ UNCHANGED <<arrow, printed, stamps, tickRate, late, quiet>>
  BY DEF WatchNow, rateVars
<1>2. watch' \in Watch /\ (watch'.src = "binance" => watch'.cur = "USD")
  BY DEF WatchNow, Watch, TickerCurs
<1>3. <<>> \in Seq(TickOf) /\ Len(<<>>) = 0 /\ DOMAIN <<>> = {}
  OBVIOUS
<1>4. TickerTyped'
  BY <1>1, <1>2, <1>3 DEF TickerIInv, TickerTyped
<1>5. Len(ticks') <= MaxTicks
  BY <1>1, <1>3, TickerAssumption
<1>6. PlotIsOfWatched' /\ LatestKept' /\ PrintsCounted'
  BY <1>1, <1>3 DEF PlotIsOfWatched, LatestKept, PrintsCounted
<1>7. RateFresh'
  BY <1>1 DEF TickerIInv, RateFresh
<1> QED  BY <1>2, <1>4, <1>5, <1>6, <1>7 DEF TickerIInv

\* The ways to choose.
LEMMA SelectorsKeep ==
    ASSUME TickerIInv,
           \/ FirstCoin
           \/ \E c \in Pairs : ChooseTickerCoin(c)
           \/ \E s \in Sources : ChooseSource(s)
           \/ \E c \in TickerCurs : ChooseTickerCur(c)
    PROVE  TickerIInv'
<1>1. watch \in Watch
  BY DEF TickerIInv, TickerTyped
<1>2. ASSUME NEW c \in Pairs PROVE [watch EXCEPT !.coin = c] \in Watch
  BY <1>1 DEF Watch
<1>3. ASSUME NEW s \in Sources PROVE [watch EXCEPT !.src = s] \in Watch
  BY <1>1 DEF Watch
<1>4. ASSUME NEW c \in TickerCurs PROVE [watch EXCEPT !.cur = c] \in Watch
  BY <1>1 DEF Watch
<1>5. CASE FirstCoin
  <2>1. (CHOOSE c \in Pairs : TRUE) \in Pairs
    BY TickerAssumption
  <2> QED  BY <1>2, <1>5, <2>1, ChoosingKeeps DEF FirstCoin
<1>6. CASE \E c \in Pairs : ChooseTickerCoin(c)
  BY <1>2, <1>6, ChoosingKeeps DEF ChooseTickerCoin
<1>7. CASE \E s \in Sources : ChooseSource(s)
  BY <1>3, <1>7, ChoosingKeeps DEF ChooseSource
<1>8. CASE \E c \in TickerCurs : ChooseTickerCur(c)
  BY <1>4, <1>8, ChoosingKeeps DEF ChooseTickerCur
<1> QED  BY <1>5, <1>6, <1>7, <1>8

\* The new point is the last and has the highest number; a print that loses its place to it
\* has its time, or was the first of a full buffer.
LEMMA PrintKeeps ==
    ASSUME TickerIInv, NEW f \in Feeds, NEW c \in Pairs, NEW t \in 1..MaxStamp,
           PrintArrives(f, c, t)
    PROVE  TickerIInv'
<1> USE TickerAssumption
<1> DEFINE m == printed + 1
           k == [coin |-> c, cur |-> watch.cur, src |-> f, t |-> t, n |-> m]
<1>1. /\ watch \in Watch /\ ticks \in Seq(TickOf) /\ printed \in Nat /\ stamps \in Seq(Nat)
      /\ taken \subseteq TickOf /\ Len(ticks) \in Nat /\ DOMAIN ticks = 1..Len(ticks)
      /\ \A i \in DOMAIN ticks : ticks[i].n \in Nat /\ ticks[i].n <= printed
      /\ \A p \in taken : p.n \in Nat /\ p.n <= printed
  <2>1. /\ watch \in Watch /\ ticks \in Seq(TickOf) /\ printed \in Nat /\ stamps \in Seq(Nat)
        /\ taken \subseteq TickOf
    BY DEF TickerIInv, TickerTyped
  <2>2. Len(ticks) \in Nat /\ DOMAIN ticks = 1..Len(ticks) /\ \A i \in DOMAIN ticks : ticks[i] \in TickOf
    BY <2>1
  <2>3. \A x \in TickOf : x.n \in Nat
    BY DEF TickOf
  <2> QED  BY <2>1, <2>2, <2>3 DEF TickerIInv, PrintsCounted
<1>2. /\ printed' = m /\ stamps' = Append(stamps, 0) /\ quiet' = 0
      /\ UNCHANGED <<watch, tickRate, late>>
      /\ IF Watched(f, c)
         THEN /\ ticks' = WithTick(k) /\ taken' = taken \cup {k}
              /\ arrow' \in {arrow, "up", "down"} /\ headline' = Price(m)
         ELSE UNCHANGED <<ticks, taken, arrow, headline>>
  BY DEF PrintArrives
<1>3. Price(m) \in 1..2
  BY <1>1 DEF Price
<1>4. k \in TickOf /\ k.src = f /\ k.t = t /\ k.n = m /\ k.coin = c /\ k.cur = watch.cur
  <2>1. watch.cur \in TickerCurs
    BY <1>1 DEF Watch
  <2>2. t \in Nat /\ m \in Nat
    BY <1>1
  <2> HIDE DEF m
  <2> QED  BY <2>1, <2>2 DEF TickOf
<1>5. m \in Nat /\ m > printed
  BY <1>1
<1> HIDE DEF m, k
<1>6. RateFresh'
  <2>1. \A i \in DOMAIN stamps' : stamps'[i] \in Nat
    BY <1>1, <1>2
  <2> QED  BY <1>2, <2>1 DEF RateFresh, TickerIInv, TickerTyped
<1>7. /\ watch' \in Watch /\ printed' \in Nat /\ stamps' \in Seq(Nat)
      /\ tickRate' \in Nat /\ late' \in 0..MaxLate /\ quiet' \in 0..QuietCap
      /\ watch'.src = "binance" => watch'.cur = "USD"
  BY <1>1, <1>2, <1>5 DEF TickerIInv, TickerTyped, QuietCap
<1>8. CASE ~Watched(f, c)
  <2>1. UNCHANGED <<watch, ticks, taken, arrow, headline>>
    BY <1>2, <1>8
  <2>2. TickerTyped' /\ Len(ticks') <= MaxTicks
    BY <1>7, <2>1 DEF TickerIInv, TickerTyped
  <2>3. PlotIsOfWatched' /\ LatestKept'
    BY <2>1 DEF TickerIInv, PlotIsOfWatched, LatestKept
  <2>4. PrintsCounted'
    BY <1>1, <1>2, <1>5, <2>1 DEF PrintsCounted
  <2> QED  BY <1>6, <1>7, <2>2, <2>3, <2>4 DEF TickerIInv
<1>9. CASE Watched(f, c)
  <2> DEFINE ks == WithTick(k)
             n == Len(ks)
             same == ticks # <<>> /\ Last(ticks).t = k.t
  <2>1. ticks' = ks /\ taken' = taken \cup {k} /\ headline' = Price(m) /\ arrow' \in {"none", "up", "down"}
    BY <1>2, <1>9 DEF TickerIInv, TickerTyped
  <2>2. /\ ks \in Seq(TickOf) /\ Len(ks) = n /\ n \in 1..MaxTicks /\ ks[n] = k
        /\ same => n = Len(ticks)
        /\ ~same => n = IF Len(ticks) < MaxTicks THEN Len(ticks) + 1 ELSE MaxTicks
    BY <1>4, WithTickPoints DEF TickerIInv
  <2>3. PICK off \in Nat :
              /\ \A i \in 1..(n - 1) : i + off \in DOMAIN ticks /\ ks[i] = ticks[i + off]
              /\ n - 1 + off = IF same THEN Len(ticks) - 1 ELSE Len(ticks)
    BY <1>4, WithTickPoints DEF TickerIInv
  <2>4. same => Len(ticks) \in DOMAIN ticks /\ ticks[Len(ticks)].t = k.t
    <3>1. ticks # <<>> => Len(ticks) \in 1..Len(ticks)
      BY <1>1
    <3> QED  BY <1>1, <3>1 DEF Last
  <2> HIDE DEF ks, n
  <2>5. /\ DOMAIN ks = 1..n /\ n \in Nat \ {0} /\ n <= MaxTicks
        /\ \A i \in 1..n : i = n \/ i \in 1..(n - 1)
    BY <2>2
  <2>6. TickerTyped' /\ Len(ticks') <= MaxTicks
    <3>1. headline' \in 0..2 /\ taken' \subseteq TickOf
      BY <1>1, <1>3, <1>4, <2>1
    <3> QED  BY <1>7, <2>1, <2>2, <2>5, <3>1 DEF TickerTyped
  <2>7. PlotIsOfWatched'
    <3>1. /\ c = watch.coin /\ watch.src \in {"live", f}
      BY <1>9 DEF Watched
    <3>2. ASSUME NEW i \in DOMAIN ks
          PROVE  /\ ks[i].coin = watch.coin /\ ks[i].cur = watch.cur
                 /\ watch.src \in {"live", ks[i].src}
      <4>1. CASE i = n
        BY <1>4, <2>2, <3>1, <4>1
      <4>2. CASE i # n
        <5>1. i + off \in DOMAIN ticks /\ ks[i] = ticks[i + off]
          BY <2>3, <2>5, <4>2
        <5> QED  BY <5>1 DEF TickerIInv, PlotIsOfWatched
      <4> QED  BY <4>1, <4>2
    <3>3. ks # <<>> /\ Last(ks) = k
      <4>1. ks # <<>>
        BY <2>2, <2>5
      <4> QED  BY <2>2, <4>1 DEF Last
    <3> QED  BY <1>2, <1>4, <2>1, <3>2, <3>3 DEF PlotIsOfWatched
  <2>8. PrintsCounted'
    <3>1. ASSUME NEW i \in DOMAIN ks PROVE ks[i].n <= m
      <4>1. CASE i = n
        BY <1>4, <1>5, <2>2, <4>1
      <4>2. CASE i # n
        <5>1. i + off \in DOMAIN ticks /\ ks[i] = ticks[i + off]
          BY <2>3, <2>5, <4>2
        <5> QED  BY <1>1, <1>5, <5>1
      <4> QED  BY <4>1, <4>2
    <3>2. \A p \in taken \cup {k} : p.n <= m
      BY <1>1, <1>4, <1>5
    <3> QED  BY <1>2, <2>1, <3>1, <3>2 DEF PrintsCounted
\* Two points in a row: the last two, or two there were.
  <2>9. ASSUME NEW i \in 1..(n - 1)
        PROVE  ks[i].n < ks[i + 1].n /\ ks[i].t # ks[i + 1].t
    <3> DEFINE x == i + off
    <3>1. x \in DOMAIN ticks /\ ks[i] = ticks[x]
      BY <2>3
    <3>2. CASE i = n - 1
      <4>1. ks[i + 1] = k
        BY <2>2, <2>5, <3>2
      <4>2. ks[i].n < k.n
        BY <1>1, <1>4, <1>5, <3>1
      <4>3. CASE same
        <5>1. x \in 1..(Len(ticks) - 1) /\ x + 1 = Len(ticks)
          <6>1. x = Len(ticks) - 1
            BY <2>3, <3>2, <4>3
          <6> HIDE DEF x
          <6> QED  BY <1>1, <3>1, <6>1
        <5>2. ticks[x].t # ticks[x + 1].t
          BY <5>1 DEF TickerIInv, LatestKept
        <5> QED  BY <2>4, <3>1, <4>1, <4>2, <4>3, <5>1, <5>2
      <4>4. CASE ~same
        <5>1. x = Len(ticks) /\ ticks # <<>>
          BY <1>1, <2>3, <2>5, <3>1, <3>2, <4>4
        <5>2. ks[i].t # k.t
          BY <3>1, <4>4, <5>1 DEF Last
        <5> QED  BY <4>1, <4>2, <5>2
      <4> QED  BY <4>3, <4>4
    <3>3. CASE i # n - 1
      <4>1. i + 1 \in 1..(n - 1) /\ i + 1 + off = x + 1
        <5>1. n \in Nat /\ off \in Nat
          BY <2>3, <2>5
        <5> QED  BY <3>3, <5>1
      <4>2. ks[i + 1] = ticks[x + 1] /\ x \in 1..(Len(ticks) - 1)
        BY <1>1, <2>3, <3>1, <4>1
      <4> QED  BY <3>1, <4>2 DEF TickerIInv, LatestKept
    <3> QED  BY <3>2, <3>3
\* The point of an earlier print stays, is replaced by the new one of its time, or falls out.
  <2>10. ASSUME NEW p \in taken \cup {k}
         PROVE  \/ \E i \in DOMAIN ks : ks[i].t = p.t /\ ks[i].n >= p.n
                \/ n = MaxTicks /\ p.n < ks[1].n
    <3>1. CASE p = k
      BY <1>4, <1>5, <2>2, <2>5, <3>1
    <3>2. CASE p \in taken
      <4>1. p.n \in Nat /\ p.n <= printed /\ p.n < m
        BY <1>1, <1>5, <3>2
      <4>2. CASE \E i \in DOMAIN ticks : ticks[i].t = p.t /\ ticks[i].n >= p.n
        <5>1. PICK x \in DOMAIN ticks : ticks[x].t = p.t /\ ticks[x].n >= p.n
          BY <4>2
        <5>2. CASE x > off /\ x - off \in 1..(n - 1)
          <6> DEFINE i == x - off
          <6>1. i + off = x
            BY <1>1, <2>3
          <6>2. ks[i] = ticks[x] /\ i \in DOMAIN ks
            BY <2>3, <2>5, <5>2, <6>1
          <6> QED  BY <5>1, <6>2
        <5>3. CASE x > off /\ x - off \notin 1..(n - 1)
          <6>1. same /\ x = Len(ticks)
            BY <1>1, <2>3, <2>5, <5>3
          <6>2. k.t = p.t /\ n \in DOMAIN ks
            BY <2>4, <2>5, <5>1, <6>1
          <6>3. ks[n].t = p.t /\ ks[n].n >= p.n
            BY <1>4, <1>5, <2>2, <4>1, <6>2
          <6> QED  BY <6>2, <6>3
        <5>4. CASE x <= off
          <6>1. ~same /\ n = MaxTicks
            <7> DEFINE l == Len(ticks)
            <7>1. /\ l \in Nat /\ n \in Nat /\ off \in Nat /\ off >= 1
                  /\ n - 1 + off = IF same THEN l - 1 ELSE l
                  /\ same => n = l
                  /\ ~same => n = IF l < MaxTicks THEN l + 1 ELSE MaxTicks
              BY <1>1, <2>2, <2>3, <2>5, <5>4
            <7> HIDE DEF l, same
            <7>2. CASE same
              BY <7>1, <7>2
            <7>3. CASE ~same
              BY <7>1, <7>3
            <7> QED  BY <7>2, <7>3
          <6>2. ks[1].n > p.n
            <7>1. CASE n = 1
              BY <1>4, <2>2, <4>1, <7>1
            <7>2. CASE n # 1
              <8>1. 1 \in 1..(n - 1) /\ ks[1] = ticks[1 + off] /\ 1 + off \in DOMAIN ticks
                BY <2>3, <2>5, <7>2
              <8>2. off = 1 /\ x = 1 /\ 1 \in 1..(Len(ticks) - 1)
                <9>1. /\ Len(ticks) \in Nat /\ Len(ticks) <= MaxTicks /\ x \in Nat /\ x >= 1
                      /\ off \in Nat /\ n \in Nat /\ n >= 1
                  BY <1>1, <2>3, <2>5 DEF TickerIInv
                <9>2. n - 1 + off = Len(ticks)
                  BY <2>3, <6>1
                <9> QED  BY <5>4, <6>1, <7>2, <9>1, <9>2
              <8>3. ticks[1].n < ticks[2].n
                <9>1. \A i \in 1..(Len(ticks) - 1) : ticks[i].n < ticks[i + 1].n
                  BY DEF TickerIInv, LatestKept
                <9>2. 1 + 1 = 2
                  OBVIOUS
                <9> QED  BY <8>2, <9>1, <9>2
              <8>4. ticks[1].n >= p.n /\ ks[1] = ticks[2] /\ ticks[1].n \in Nat /\ ticks[2].n \in Nat
                BY <1>1, <5>1, <8>1, <8>2
              <8> QED  BY <4>1, <8>3, <8>4
            <7> QED  BY <7>1, <7>2
          <6> QED  BY <6>1, <6>2
        <5> QED  BY <1>1, <2>3, <5>2, <5>3, <5>4
      <4>3. CASE Len(ticks) = MaxTicks /\ p.n < ticks[1].n
        <5>1. n = MaxTicks /\ 1 \in DOMAIN ticks
          BY <1>1, <2>2, <2>5, <4>3
        <5>2. p.n < ks[1].n
          <6>1. CASE n = 1
            BY <1>4, <2>2, <4>1, <6>1
          <6>2. CASE n # 1
            <7>1. 1 \in 1..(n - 1) /\ ks[1] = ticks[1 + off] /\ 1 + off \in DOMAIN ticks
              BY <2>3, <2>5, <6>2
            <7>2. off \in {0, 1}
              BY <1>1, <2>3, <2>5, <4>3, <5>1
            <7>3. off = 1 => ticks[1].n < ticks[2].n
              <8>1. off = 1 => 1 \in 1..(Len(ticks) - 1)
                BY <1>1, <7>1
              <8> QED  BY <8>1 DEF TickerIInv, LatestKept
            <7>4. ticks[1].n \in Nat /\ ticks[1 + off].n \in Nat
              BY <1>1, <5>1, <7>1
            <7> QED  BY <4>1, <4>3, <7>1, <7>2, <7>3, <7>4
          <6> QED  BY <6>1, <6>2
        <5> QED  BY <5>1, <5>2
      <4> QED  BY <3>2, <4>2, <4>3 DEF TickerIInv, LatestKept
    <3> QED  BY <3>1, <3>2
  <2>11. LatestKept'
    <3>1. Len(ticks') = n /\ ticks' = ks /\ taken' = taken \cup {k}
      BY <2>1, <2>2
    <3> QED  BY <2>9, <2>10, <3>1 DEF LatestKept
  <2> QED  BY <1>6, <1>7, <2>6, <2>7, <2>8, <2>11 DEF TickerIInv
<1> QED  BY <1>8, <1>9

\* Time passes for what was counted and for the silence alike, and the timer keeps
\* only what is in the window.
LEMMA ClockKeeps ==
    ASSUME TickerIInv, UnitPasses \/ RateTimer
    PROVE  TickerIInv'
<1> USE TickerAssumption
<1>1. UNCHANGED <<watch, ticks, headline, arrow, taken, printed>>
  BY DEF UnitPasses, RateTimer
<1>2. /\ stamps \in Seq(Nat) /\ tickRate \in Nat /\ late \in 0..MaxLate /\ quiet \in 0..QuietCap
      /\ QuietCap \in Nat /\ Len(stamps) \in Nat /\ DOMAIN stamps = 1..Len(stamps)
      /\ \A i \in DOMAIN stamps : stamps[i] \in Nat /\ stamps[i] >= quiet
      /\ tickRate > 0 => quiet <= WindowUnits + late
  BY DEF TickerIInv, TickerTyped, RateFresh, QuietCap
<1>3. /\ stamps' \in Seq(Nat) /\ tickRate' \in Nat /\ late' \in 0..MaxLate /\ quiet' \in 0..QuietCap
      /\ RateFresh'
  <2>1. CASE UnitPasses
    <3>1. /\ late < MaxLate /\ late' = late + 1 /\ tickRate' = tickRate
          /\ stamps' = [i \in DOMAIN stamps |-> stamps[i] + 1]
          /\ quiet' = IF quiet < QuietCap THEN quiet + 1 ELSE quiet
      BY <2>1 DEF UnitPasses
    <3>2. stamps' \in [1..Len(stamps) -> Nat]
      BY <1>2, <3>1
    <3>3. stamps' \in Seq(Nat)
      BY <1>2, <3>2
    <3> QED  BY <1>2, <3>1, <3>3 DEF RateFresh
  <2>2. CASE RateTimer
    <3> DEFINE recent == Keep(stamps, 0..WindowUnits)
    <3>1. late' = 0 /\ stamps' = recent /\ tickRate' = Len(recent) /\ quiet' = quiet
      BY <2>2 DEF RateTimer
    <3>2. /\ recent \in Seq(Nat \cap (0..WindowUnits))
          /\ \A i \in DOMAIN recent : \E j \in DOMAIN stamps : recent[i] = stamps[j]
      <4>1. stamps \in Seq(Nat)
        BY <1>2
      <4> DEFINE T == Nat
                 S == 0..WindowUnits
      <4>2. stamps \in Seq(T) /\ recent = Keep(stamps, S)
        BY <4>1
      <4> HIDE DEF T, S, recent
      <4>3. /\ recent \in Seq(T \cap S)
            /\ \A i \in DOMAIN recent : \E j \in DOMAIN stamps : recent[i] = stamps[j]
        BY <4>2, KeepListing
      <4> QED  BY <4>3 DEF T, S
    <3> HIDE DEF recent
    <3>3. /\ recent \in Seq(Nat) /\ Len(recent) \in Nat /\ WindowUnits \in Nat
          /\ \A i \in DOMAIN recent : recent[i] \in 0..WindowUnits
          /\ Len(recent) > 0 => 1 \in DOMAIN recent
      BY <3>2
    <3>4. \A i \in DOMAIN recent : recent[i] >= quiet
      BY <1>2, <3>2
    <3>5. Len(recent) > 0 => quiet <= WindowUnits
      <4>1. ASSUME NEW a \in 0..WindowUnits, a >= quiet PROVE quiet <= WindowUnits
        BY <1>2, <3>3, <4>1
      <4> SUFFICES ASSUME Len(recent) > 0 PROVE quiet <= WindowUnits
        OBVIOUS
      <4>2. recent[1] \in 0..WindowUnits /\ recent[1] >= quiet
        BY <3>3, <3>4
      <4> QED  BY <4>1, <4>2
    <3> QED  BY <1>2, <3>1, <3>3, <3>4, <3>5 DEF RateFresh
  <2> QED  BY <2>1, <2>2
<1>4. TickerTyped'
  BY <1>1, <1>3 DEF TickerIInv, TickerTyped
<1> QED  BY <1>1, <1>3, <1>4
         DEF TickerIInv, PlotIsOfWatched, LatestKept, PrintsCounted

\* The ticker plots what is watched and nothing else, in the order it arrived and with the
\* latest print of every moment, the headline its last point, and the header does not count a
\* dead feed: however selections and prints interleave, and whatever stamps these carry
\* (RealtimeChart.tsx, useTickRate.ts).
THEOREM TickerInvariant == TickerSpec => []TickerInv
<1>1. TickerInit => TickerIInv
  <2> SUFFICES ASSUME TickerInit PROVE TickerIInv
    OBVIOUS
  <2>1. <<>> \in Seq(TickOf) /\ <<>> \in Seq(Nat) /\ Len(<<>>) = 0 /\ DOMAIN <<>> = {}
    OBVIOUS
  <2>2. watch \in Watch
    BY DEF TickerInit, Watch, TickerCurs, Sources
  <2>3. /\ ticks = <<>> /\ stamps = <<>> /\ headline = 0 /\ arrow = "none" /\ printed = 0
        /\ taken = {} /\ tickRate = 0 /\ late = 0 /\ quiet = 0 /\ watch.src = "live"
    BY DEF TickerInit
  <2>4. late \in 0..MaxLate /\ quiet \in 0..QuietCap /\ Len(ticks) <= MaxTicks
    BY <2>1, <2>3, TickerAssumption DEF QuietCap
  <2>5. TickerTyped
    BY <2>1, <2>2, <2>3, <2>4 DEF TickerTyped
  <2> QED  BY <2>1, <2>3, <2>4, <2>5
           DEF TickerIInv, PlotIsOfWatched, LatestKept, PrintsCounted, RateFresh
<1>2. TickerIInv /\ [TickerNext]_tickerVars => TickerIInv'
  <2> SUFFICES ASSUME TickerIInv, [TickerNext]_tickerVars PROVE TickerIInv'
    OBVIOUS
  <2>1. CASE UNCHANGED tickerVars
    BY <2>1 DEF tickerVars, TickerIInv, TickerTyped, PlotIsOfWatched, LatestKept,
                PrintsCounted, RateFresh
  <2> QED  BY <2>1, SelectorsKeep, PrintKeeps, ClockKeeps DEF TickerNext
<1>3. TickerIInv => TickerInv
  <2> SUFFICES ASSUME TickerIInv PROVE TickerInv
    OBVIOUS
  <2>1. TickerTypeOK
    BY DEF TickerIInv, TickerTyped, TickerTypeOK, Watch
  <2>2. SilenceReadsZero
    BY TickerAssumption DEF TickerIInv, TickerTyped, RateFresh, SilenceReadsZero, QuietCap
  <2> QED  BY <2>1, <2>2 DEF TickerIInv, TickerInv
<1> QED  BY <1>1, <1>2, <1>3, PTL DEF TickerSpec

-----------------------------------------------------------------------------
(* Charts. *)

ChartsSpec == ChartsInit /\ [][ChartsNext]_chartVars

\* A sequence, of anything.
Listing(s) == \E S : s \in Seq(S)

IsAsk(a) ==
    /\ a \in [sel : {a.sel}, live : BOOLEAN, got : {a.got}]
    /\ \A c \in DOMAIN a.got : a.got[c] \in Nat

SelTyped(s) == s \in [coins : {s.coins}, cur : {s.cur}, per : {s.per}]

ChartsTyped ==
    /\ chart \in Kinds /\ quoted \in Seq(Quotes) /\ SelTyped(sel)
    /\ Listing(asks) /\ \A i \in DOMAIN asks : IsAsk(asks[i])
    /\ \A c \in DOMAIN series : Listing(series[c])

\* Only a request for the current selection can still be applied, and one is made for
\* coins only.
LiveAsks == \A i \in DOMAIN asks : asks[i].live => asks[i].sel = sel /\ sel.coins # <<>>

\* The charts that keep what they had when a request fails, or when there is no coin.
Keeping == chart \in {"candle", "coin"}
WaitsForCoins == Keeping /\ sel.coins = <<>> => loading

\* What is held is of the selection, or nothing is.
OfSelection ==
    /\ DOMAIN series \in {{}, Selected}
    /\ \A c \in DOMAIN series : \A n \in DOMAIN series[c] :
          series[c][n].cur = sel.cur /\ series[c][n].per \in {sel.per, "live"}
ShownSettled == ~loading /\ ~(failed /\ Keeping) => OfSelection

ChartsIInv == ChartsTyped /\ LiveAsks /\ WaitsForCoins /\ ShownSettled

\* One more element.
LEMMA AppendListing ==
    ASSUME NEW s, Listing(s), NEW x
    PROVE  /\ Listing(Append(s, x))
           /\ \A i \in DOMAIN Append(s, x) :
                 Append(s, x)[i] = x \/ (i \in DOMAIN s /\ Append(s, x)[i] = s[i])
<1>1. PICK S : s \in Seq(S)
  BY DEF Listing
<1>2. s \in Seq(S \cup {x}) /\ x \in S \cup {x}
  BY <1>1
<1>3. Append(s, x) \in Seq(S \cup {x})
  BY <1>2
<1> QED  BY <1>2, <1>3 DEF Listing

\* A part of a sequence.
LEMMA PartListing ==
    ASSUME NEW s, Listing(s), NEW a \in Nat \ {0}, NEW b \in 0..Len(s)
    PROVE  /\ Listing(SubSeq(s, a, b))
           /\ \A i \in DOMAIN SubSeq(s, a, b) : \E k \in DOMAIN s : SubSeq(s, a, b)[i] = s[k]
<1>1. PICK S : s \in Seq(S)
  BY DEF Listing
<1>2. SubSeq(s, a, b) \in Seq(S)
  BY <1>1
<1>3. ASSUME NEW i \in DOMAIN SubSeq(s, a, b)
      PROVE  \E k \in DOMAIN s : SubSeq(s, a, b)[i] = s[k]
  <2>1. a + i - 1 \in DOMAIN s /\ SubSeq(s, a, b)[i] = s[a + i - 1]
    BY <1>1, <1>3
  <2> QED  BY <2>1
<1> QED  BY <1>2, <1>3 DEF Listing

\* A sequence without one of its elements.
LEMMA RemovedListing ==
    ASSUME NEW s, Listing(s), NEW i \in DOMAIN s
    PROVE  /\ Listing(RemoveAt(s, i))
           /\ \A j \in DOMAIN RemoveAt(s, i) : \E k \in DOMAIN s : RemoveAt(s, i)[j] = s[k]
<1>1. PICK S : s \in Seq(S)
  BY DEF Listing
<1>2. /\ i \in Nat \ {0} /\ i - 1 \in 0..Len(s) /\ i + 1 \in Nat \ {0} /\ Len(s) \in 0..Len(s)
  BY <1>1
<1> DEFINE p == SubSeq(s, 1, i - 1)
           q == SubSeq(s, i + 1, Len(s))
<1>3. /\ \A j \in DOMAIN p : \E k \in DOMAIN s : p[j] = s[k]
      /\ \A j \in DOMAIN q : \E k \in DOMAIN s : q[j] = s[k]
  <2>1. \A j \in DOMAIN p : j \in DOMAIN s /\ p[j] = s[j]
    BY <1>1, <1>2
  <2>2. ASSUME NEW j \in DOMAIN q PROVE i + j \in DOMAIN s /\ q[j] = s[i + j]
    <3>1. i \in 1..Len(s) /\ Len(s) \in Nat /\ DOMAIN s = 1..Len(s)
      BY <1>1
    <3>2. Len(q) = Len(s) - i /\ DOMAIN q = 1..Len(q)
      BY <1>1, <3>1
    <3>3. j \in 1..(Len(s) - i)
      BY <3>2
    <3>4. q[j] = s[(i + 1) + j - 1]
      BY <1>1, <3>1, <3>3
    <3> HIDE DEF q
    <3> QED  BY <3>1, <3>3, <3>4
  <2> QED  BY <2>1, <2>2
<1>4. p \in Seq(S) /\ q \in Seq(S)
  BY <1>1, <1>2
<1> HIDE DEF p, q
<1>5. /\ p \o q \in Seq(S)
      /\ \A j \in DOMAIN (p \o q) : \/ j \in DOMAIN p /\ (p \o q)[j] = p[j]
                                    \/ j - Len(p) \in DOMAIN q /\ (p \o q)[j] = q[j - Len(p)]
  BY <1>4
<1>6. RemoveAt(s, i) = p \o q
  BY DEF RemoveAt, p, q
<1> QED  BY <1>3, <1>5, <1>6 DEF Listing

\* A live point is added to those there are.
LEMMA WithPointListing ==
    ASSUME NEW ps, Listing(ps), NEW p
    PROVE  /\ Listing(WithPoint(ps, p))
           /\ \A i \in DOMAIN WithPoint(ps, p) :
                 WithPoint(ps, p)[i] = p \/ \E k \in DOMAIN ps : WithPoint(ps, p)[i] = ps[k]
<1> DEFINE all == IF ps # <<>> /\ Last(ps).at = p.at THEN Append(Front(ps), p) ELSE Append(ps, p)
           from == IF Len(all) > MaxPoints THEN Len(all) - MaxPoints + 1 ELSE 1
<1>1. ps # <<>> => Listing(Front(ps)) /\ \A i \in DOMAIN Front(ps) : \E k \in DOMAIN ps : Front(ps)[i] = ps[k]
  <2> SUFFICES ASSUME ps # <<>>
               PROVE  Listing(Front(ps)) /\ \A i \in DOMAIN Front(ps) : \E k \in DOMAIN ps : Front(ps)[i] = ps[k]
    OBVIOUS
  <2>1. Len(ps) - 1 \in 0..Len(ps) /\ 1 \in Nat \ {0}
    BY DEF Listing
  <2> QED  BY <2>1, PartListing DEF Front
<1>2. Listing(all) /\ \A i \in DOMAIN all : all[i] = p \/ \E k \in DOMAIN ps : all[i] = ps[k]
  <2>1. CASE ps # <<>> /\ Last(ps).at = p.at
    BY <1>1, <2>1, AppendListing
  <2>2. CASE ~(ps # <<>> /\ Last(ps).at = p.at)
    BY <2>2, AppendListing
  <2> QED  BY <2>1, <2>2
<1> HIDE DEF all
<1>3. from \in Nat \ {0} /\ Len(all) \in 0..Len(all)
  BY <1>2, ChartsAssumption DEF Listing
<1>4. WithPoint(ps, p) = SubSeq(all, from, Len(all))
  BY DEF WithPoint, all
<1> HIDE DEF from
<1> QED  BY <1>2, <1>3, <1>4, PartListing

\* Steps that leave what is held and asked for.
LEMMA SameCharts ==
    ASSUME ChartsIInv, UNCHANGED <<chart, quoted, sel, series, loading, failed, asks>>
    PROVE  ChartsIInv'
BY DEF ChartsIInv, ChartsTyped, LiveAsks, WaitsForCoins, ShownSettled, OfSelection, Keeping, Selected

\* A cancelled request.
LEMMA CancelledAsk ==
    ASSUME NEW a, IsAsk(a)
    PROVE  IsAsk([a EXCEPT !.live = FALSE]) /\ [a EXCEPT !.live = FALSE].live = FALSE
<1> DEFINE s == a.sel
           g == a.got
           x == [a EXCEPT !.live = FALSE]
<1>1. a \in [sel : {s}, live : BOOLEAN, got : {g}] /\ \A c \in DOMAIN g : g[c] \in Nat
  BY DEF IsAsk
<1> HIDE DEF s, g
<1>2. x \in [sel : {s}, live : BOOLEAN, got : {g}] /\ x.sel = s /\ x.got = g /\ x.live = FALSE
  BY <1>1
<1> HIDE DEF x
<1>3. IsAsk(x) /\ x.live = FALSE
  BY <1>1, <1>2 DEF IsAsk
<1> QED  BY <1>3 DEF x

\* Whatever is selected next, what was asked for before is no longer applied.
LEMMA RestartKeeps ==
    ASSUME ChartsIInv, NEW s, SelTyped(s), Restart(s), UNCHANGED <<chart, quoted>>,
           Keeping /\ s.coins = <<>> => sel.coins = <<>>
    PROVE  ChartsIInv'
<1> USE DEF ChartsIInv
<1>1. sel' = s
  BY DEF Restart
<1>2. /\ Listing(Cancelled) /\ \A i \in DOMAIN Cancelled : IsAsk(Cancelled[i]) /\ Cancelled[i].live = FALSE
  <2>1. DOMAIN Cancelled = DOMAIN asks
    BY DEF Cancelled
  <2>2. \A i \in DOMAIN asks : Cancelled[i] = [asks[i] EXCEPT !.live = FALSE]
    BY DEF Cancelled
  <2>3. ASSUME NEW i \in DOMAIN Cancelled PROVE IsAsk(Cancelled[i]) /\ Cancelled[i].live = FALSE
    <3> DEFINE x == [asks[i] EXCEPT !.live = FALSE]
    <3>1. IsAsk(asks[i])
      BY <2>1 DEF ChartsTyped
    <3>2. IsAsk(x) /\ x.live = FALSE
      BY <3>1, CancelledAsk
    <3>3. Cancelled[i] = x
      BY <2>1, <2>2
    <3> HIDE DEF x
    <3> QED  BY <3>2, <3>3
  <2>4. Listing(Cancelled)
    <3>1. PICK S : asks \in Seq(S)
      BY DEF ChartsTyped, Listing
    <3> DEFINE T == {Cancelled[i] : i \in DOMAIN asks}
    <3>2. Len(asks) \in Nat /\ DOMAIN asks = 1..Len(asks)
      BY <3>1
    <3>3. Cancelled \in [1..Len(asks) -> T]
      BY <2>1, <3>2 DEF Cancelled
    <3> HIDE DEF T
    <3>4. Cancelled \in Seq(T)
      BY <3>2, <3>3
    <3> QED  BY <3>4 DEF Listing
  <2> QED  BY <2>3, <2>4
<1>3. CASE s.coins # <<>>
  <2> DEFINE a == [sel |-> s, live |-> TRUE, got |-> NoSeries]
  <2>1. loading' = TRUE /\ asks' = Append(Cancelled, a) /\ UNCHANGED <<series, failed>>
    BY <1>3 DEF Restart
  <2>2. IsAsk(a) /\ a.sel = s
    <3>1. DOMAIN NoSeries = {}
      BY DEF NoSeries
    <3> QED  BY <3>1 DEF IsAsk
  <2> HIDE DEF a
  <2>3. /\ Listing(asks')
        /\ \A i \in DOMAIN asks' : IsAsk(asks'[i]) /\ (asks'[i].live => asks'[i].sel = s)
    BY <1>2, <2>1, <2>2, AppendListing
  <2>4. ChartsTyped'
    BY <1>1, <2>1, <2>3 DEF ChartsTyped
  <2>5. LiveAsks'
    BY <1>1, <1>3, <2>3 DEF LiveAsks
  <2> QED  BY <2>1, <2>4, <2>5 DEF WaitsForCoins, ShownSettled
<1>4. CASE s.coins = <<>> /\ Keeping
  <2>1. UNCHANGED <<loading, series, failed, asks>>
    BY <1>4 DEF Restart, Keeping
  <2>2. loading /\ \A i \in DOMAIN asks : ~asks[i].live
    BY <1>4 DEF WaitsForCoins, LiveAsks
  <2> QED  BY <1>1, <2>1, <2>2 DEF ChartsTyped, LiveAsks, WaitsForCoins, ShownSettled
<1>5. CASE s.coins = <<>> /\ ~Keeping
  <2>1. loading' = FALSE /\ failed' = FALSE /\ series' = NoSeries /\ asks' = Cancelled
    BY <1>5 DEF Restart, Keeping
  <2>2. DOMAIN series' = {}
    BY <2>1 DEF NoSeries
  <2>3. ChartsTyped'
    BY <1>1, <1>2, <2>1, <2>2 DEF ChartsTyped
  <2> QED  BY <1>2, <1>5, <2>1, <2>2, <2>3 DEF LiveAsks, WaitsForCoins, ShownSettled, OfSelection, Keeping
<1> QED  BY <1>3, <1>4, <1>5

\* The ways to select.
LEMMA SelectKeeps ==
    ASSUME ChartsIInv,
           \/ CoinsKnown
           \/ \E cur \in Currencies, per \in Periods : ChooseView(cur, per)
           \/ \E c \in Coins : ChooseCoin(c) \/ Toggle(c)
    PROVE  ChartsIInv'
<1>1. SelTyped(sel) /\ UNCHANGED <<chart, quoted>>
  <2>1. SelTyped(sel)
    BY DEF ChartsIInv, ChartsTyped
  <2>2. UNCHANGED <<chart, feedVars>>
    BY DEF CoinsKnown, ChooseView, ChooseCoin, Toggle
  <2> QED  BY <2>1, <2>2 DEF feedVars
<1>2. ASSUME NEW cs PROVE SelTyped([sel EXCEPT !.coins = cs]) /\ [sel EXCEPT !.coins = cs].coins = cs
  <2> DEFINE x == [sel EXCEPT !.coins = cs]
  <2>1. x \in [coins : {cs}, cur : {sel.cur}, per : {sel.per}]
    BY <1>1 DEF SelTyped
  <2> HIDE DEF x
  <2>2. SelTyped(x) /\ x.coins = cs
    BY <2>1 DEF SelTyped
  <2> QED  BY <2>2 DEF x
<1>3. CASE CoinsKnown
  <2>1. CASE sel.coins = <<>>
    <3> DEFINE s == [sel EXCEPT !.coins = DefaultCoins(Registry)]
    <3>1. Restart(s)
      BY <1>3, <2>1 DEF CoinsKnown
    <3>2. SelTyped(s)
      BY <1>2
    <3> HIDE DEF s
    <3> QED  BY <1>1, <2>1, <3>1, <3>2, RestartKeeps
  <2>2. CASE sel.coins # <<>>
    <3>1. UNCHANGED <<chart, quoted, sel, series, loading, failed, asks>>
      BY <1>1, <1>3, <2>2 DEF CoinsKnown
    <3> QED  BY <3>1, SameCharts
  <2> QED  BY <2>1, <2>2
<1>4. ASSUME NEW cur, NEW per, ChooseView(cur, per) PROVE ChartsIInv'
  <2> DEFINE s == [sel EXCEPT !.cur = cur, !.per = per]
  <2>1. Restart(s)
    BY <1>4 DEF ChooseView
  <2>2. s \in [coins : {sel.coins}, cur : {cur}, per : {per}]
    BY <1>1 DEF SelTyped
  <2> HIDE DEF s
  <2>3. SelTyped(s) /\ s.coins = sel.coins
    BY <2>2 DEF SelTyped
  <2> QED  BY <1>1, <2>1, <2>3, RestartKeeps
<1>5. ASSUME NEW c, ChooseCoin(c) PROVE ChartsIInv'
  <2> DEFINE s == [sel EXCEPT !.coins = <<c>>]
  <2>1. Restart(s)
    BY <1>5 DEF ChooseCoin
  <2>2. SelTyped(s) /\ s.coins # <<>>
    BY <1>2
  <2> HIDE DEF s
  <2> QED  BY <1>1, <2>1, <2>2, RestartKeeps
<1>6. ASSUME NEW c, Toggle(c) PROVE ChartsIInv'
  <2> DEFINE rest == Keep(sel.coins, Selected \ {c})
             s == [sel EXCEPT !.coins = IF c \notin Selected THEN Append(sel.coins, c)
                                        ELSE IF rest = <<>> THEN DefaultCoins(coinList) ELSE rest]
  <2>1. Restart(s) /\ chart = "overlay"
    BY <1>6 DEF Toggle
  <2>2. SelTyped(s)
    BY <1>2
  <2> HIDE DEF rest, s
  <2> QED  BY <1>1, <2>1, <2>2, RestartKeeps DEF Keeping
<1> QED  BY <1>3, <1>4, <1>5, <1>6

\* A request is served.
LEMMA ServeKeeps ==
    ASSUME ChartsIInv, NEW i, NEW c, Serve(i, c)
    PROVE  ChartsIInv'
<1> USE DEF ChartsIInv
<1> DEFINE g == [x \in DOMAIN asks[i].got \cup {c} |-> IF x = c THEN polls ELSE asks[i].got[x]]
           a == [asks[i] EXCEPT !.got = g]
<1>1. /\ i \in DOMAIN asks /\ asks' = [asks EXCEPT ![i] = a]
      /\ UNCHANGED <<chart, sel, series, loading, failed, quoted>>
  BY DEF Serve, feedVars
<1>2. IsAsk(a) /\ a.sel = asks[i].sel /\ (a.live <=> asks[i].live)
  <2>1. \A x \in DOMAIN g : g[x] \in Nat
    <3>1. polls \in Nat
      BY DEF ChartsTyped, polls
    <3>2. \A x \in DOMAIN asks[i].got : asks[i].got[x] \in Nat
      BY <1>1 DEF ChartsTyped, IsAsk
    <3> QED  BY <3>1, <3>2
  <2>2. asks[i] \in [sel : {asks[i].sel}, live : BOOLEAN, got : {asks[i].got}]
    BY <1>1 DEF ChartsTyped, IsAsk
  <2> HIDE DEF g
  <2>3. a \in [sel : {asks[i].sel}, live : BOOLEAN, got : {g}] /\ a.live = asks[i].live
    BY <2>2
  <2> HIDE DEF a
  <2> QED  BY <2>1, <2>3 DEF IsAsk
<1> HIDE DEF a, g
<1>3. /\ Listing(asks') /\ DOMAIN asks' = DOMAIN asks /\ asks'[i] = a
      /\ \A j \in DOMAIN asks : j # i => asks'[j] = asks[j]
  <2>1. PICK S : asks \in Seq(S)
    BY DEF ChartsTyped, Listing
  <2>2. asks \in Seq(S \cup {a}) /\ a \in S \cup {a}
    BY <2>1
  <2>3. asks' \in Seq(S \cup {a}) /\ DOMAIN asks' = DOMAIN asks
    BY <1>1, <2>2
  <2> QED  BY <1>1, <2>1, <2>3 DEF Listing
<1>4. ChartsTyped'
  BY <1>1, <1>2, <1>3 DEF ChartsTyped
<1>5. LiveAsks'
  BY <1>1, <1>2, <1>3 DEF LiveAsks
<1> QED  BY <1>1, <1>4, <1>5 DEF WaitsForCoins, ShownSettled, OfSelection, Keeping, Selected

\* The rows of a coin in a currency are times of polls that quoted it, all of them.
LEMMA RowsHave ==
    ASSUME NEW c, NEW cur, NEW n \in Nat
    PROVE  RowsOf(c, cur, n) \in Seq(1..n)
<1> DEFINE s == [t \in 1..n |-> t]
           S == {t \in DOMAIN quoted : <<c, cur>> \in quoted[t]}
           rows == RowsOf(c, cur, n)
<1>1. s \in Seq(1..n)
  OBVIOUS
<1>2. rows = Keep(s, S)
  BY DEF RowsOf
<1> HIDE DEF s, S, rows
<1>3. rows \in Seq((1..n) \cap S)
  BY <1>1, <1>2, KeepListing
<1>4. rows \in Seq(1..n)
  BY <1>3
<1> QED  BY <1>4 DEF rows

LEMMA RowsAll ==
    ASSUME NEW c, NEW cur, NEW n \in Nat, NEW t \in 1..n, t \in DOMAIN quoted, <<c, cur>> \in quoted[t]
    PROVE  \E k \in DOMAIN RowsOf(c, cur, n) : RowsOf(c, cur, n)[k] = t
<1> DEFINE s == [u \in 1..n |-> u]
           S == {u \in DOMAIN quoted : <<c, cur>> \in quoted[u]}
<1>1. s \in Seq(1..n) /\ t \in DOMAIN s /\ s[t] = t /\ t \in S
  OBVIOUS
<1>2. RowsOf(c, cur, n) = Keep(s, S)
  BY DEF RowsOf
<1> HIDE DEF s, S
<1>3. \E k \in DOMAIN Keep(s, S) : Keep(s, S)[k] = s[t]
  BY <1>1, KeepAll
<1> QED  BY <1>1, <1>2, <1>3

\* The series of one coin in an answer.
LEMMA FetchedHas ==
    ASSUME NEW a, NEW c \in ToSet(a.sel.coins), a.got[c] \in Nat
    PROVE  LET rows == RowsOf(c, a.sel.cur, a.got[c])
           IN  /\ DOMAIN Fetched(a) = ToSet(a.sel.coins)
               /\ Len(rows) \in Nat /\ DOMAIN rows = 1..Len(rows)
               /\ DOMAIN Fetched(a)[c] = 1..Len(rows)
               /\ \A k \in 1..Len(rows) :
                     /\ rows[k] \in 1..a.got[c]
                     /\ Fetched(a)[c][k] = [cur |-> a.sel.cur, per |-> a.sel.per, at |-> rows[k]]
               /\ Listing(Fetched(a)[c])
<1> DEFINE rows == RowsOf(c, a.sel.cur, a.got[c])
           f == Fetched(a)[c]
           point(k) == [cur |-> a.sel.cur, per |-> a.sel.per, at |-> rows[k]]
<1>1. rows \in Seq(1..a.got[c])
  BY RowsHave
<1>2. DOMAIN Fetched(a) = ToSet(a.sel.coins) /\ f = [k \in DOMAIN rows |-> point(k)]
  BY DEF Fetched
<1> HIDE DEF rows, f
<1>3. /\ Len(rows) \in Nat /\ DOMAIN rows = 1..Len(rows)
      /\ \A k \in 1..Len(rows) : rows[k] \in 1..a.got[c]
  BY <1>1
<1>4. DOMAIN f = 1..Len(rows) /\ \A k \in 1..Len(rows) : f[k] = point(k)
  BY <1>2, <1>3
<1> DEFINE S == {point(k) : k \in 1..Len(rows)}
<1>5. f \in [1..Len(rows) -> S]
  BY <1>2, <1>3, <1>4
<1> HIDE DEF S
<1>6. f \in Seq(S)
  BY <1>3, <1>5
<1>7. Listing(f)
  BY <1>6 DEF Listing
<1> QED  BY <1>2, <1>3, <1>4, <1>7 DEF rows, f

\* An answer or a failure of a request that still counts is of the selection.
LEMMA ChartAnswerKeeps ==
    ASSUME ChartsIInv, NEW i, AnswerOk(i) \/ AnswerErr(i)
    PROVE  ChartsIInv'
<1> USE DEF ChartsIInv
<1>1. i \in DOMAIN asks /\ asks' = RemoveAt(asks, i) /\ UNCHANGED <<chart, sel, quoted>>
  BY DEF AnswerOk, AnswerErr, feedVars
<1>2. /\ Listing(asks')
      /\ \A j \in DOMAIN asks' : \E k \in DOMAIN asks : asks'[j] = asks[k]
  BY <1>1, RemovedListing DEF ChartsTyped
<1>3. LiveAsks'
  BY <1>1, <1>2 DEF LiveAsks
<1>4. CASE ~Applies(i)
  <2>1. UNCHANGED <<series, loading, failed>>
    BY <1>4 DEF AnswerOk, AnswerErr
  <2> QED  BY <1>1, <1>2, <1>3, <2>1 DEF ChartsTyped, WaitsForCoins, ShownSettled, OfSelection, Keeping, Selected
<1>5. CASE Applies(i) /\ AnswerOk(i)
  <2>1. /\ series' = Fetched(asks[i]) /\ loading' = FALSE /\ failed' = FALSE
        /\ DOMAIN asks[i].got = ToSet(asks[i].sel.coins)
    BY <1>5 DEF AnswerOk
  <2>2. asks[i].sel = sel /\ sel.coins # <<>>
    BY <1>1, <1>5 DEF LiveAsks, Applies
  <2>3. series' = Fetched(asks[i]) /\ DOMAIN series' = Selected
    BY <2>1, <2>2 DEF Fetched, Selected
  <2>4. ASSUME NEW c \in Selected
        PROVE  /\ Listing(series'[c])
               /\ \A n \in DOMAIN series'[c] : series'[c][n].cur = sel.cur /\ series'[c][n].per = sel.per
    <3>1. asks[i].got[c] \in Nat /\ c \in ToSet(asks[i].sel.coins)
      BY <1>1, <2>1, <2>2 DEF ChartsTyped, IsAsk, Selected
    <3> DEFINE f == Fetched(asks[i])[c]
               rows == RowsOf(c, sel.cur, asks[i].got[c])
    <3>2. /\ Listing(f) /\ DOMAIN f = 1..Len(rows)
          /\ \A k \in 1..Len(rows) : f[k] = [cur |-> sel.cur, per |-> sel.per, at |-> rows[k]]
      BY <2>2, <3>1, FetchedHas
    <3>3. series'[c] = f
      BY <2>3
    <3> HIDE DEF f, rows
    <3> QED  BY <3>2, <3>3
  <2>5. ChartsTyped'
    BY <1>1, <1>2, <2>1, <2>3, <2>4 DEF ChartsTyped
  <2>6. OfSelection'
    BY <1>1, <2>3, <2>4 DEF OfSelection, Selected
  <2> QED  BY <1>1, <1>3, <2>2, <2>5, <2>6 DEF WaitsForCoins, ShownSettled
<1>6. CASE Applies(i) /\ AnswerErr(i)
  <2>1. /\ loading' = FALSE /\ failed' = TRUE
        /\ series' = IF Keeping THEN series ELSE NoSeries
    BY <1>6 DEF AnswerErr, Keeping
  <2>2. sel.coins # <<>>
    BY <1>1, <1>6 DEF LiveAsks, Applies
  <2>3. DOMAIN NoSeries = {}
    BY DEF NoSeries
  <2>4. ChartsTyped'
    BY <1>1, <1>2, <2>1, <2>3 DEF ChartsTyped
  <2>5. ShownSettled'
    BY <1>1, <2>1, <2>3 DEF ShownSettled, OfSelection, Keeping
  <2> QED  BY <1>1, <1>3, <2>2, <2>4, <2>5 DEF WaitsForCoins
<1> QED  BY <1>4, <1>5, <1>6

StreamSteps ==
    \/ HearPoll \/ MissBatch
    \/ \E qs \in Quotes : PollStored(qs)
    \/ \E S \in SUBSET Coins, t \in 1..MaxTime : HearTrades(S, t)

\* The stream adds a point of the selected currency to the selected coins.
LEMMA StreamKeeps ==
    ASSUME ChartsIInv, StreamSteps
    PROVE  ChartsIInv'
<1> USE DEF ChartsIInv
<1>1. UNCHANGED <<chart, sel, loading, failed, asks>>
  BY DEF StreamSteps, PollStored, HearPoll, HearTrades, MissBatch
<1>0. quoted' \in Seq(Quotes)
  <2>1. \A qs \in Quotes : Append(quoted, qs) \in Seq(Quotes)
    BY DEF ChartsTyped
  <2> QED  BY <2>1 DEF StreamSteps, PollStored, HearPoll, HearTrades, MissBatch, ChartsTyped
<1>2. CASE UNCHANGED series
  BY <1>0, <1>1, <1>2 DEF ChartsTyped, LiveAsks, WaitsForCoins, ShownSettled, OfSelection, Keeping, Selected
<1>3. CASE ~UNCHANGED series
  <2>0. PICK S, t : Appended(S, t)
    BY <1>3 DEF StreamSteps, PollStored, HearPoll, HearTrades, MissBatch
  <2> DEFINE p == [cur |-> sel.cur, per |-> "live", at |-> t]
  <2>1. series' = [c \in Selected |-> IF c \in S THEN WithPoint(Held(c), p) ELSE Held(c)]
    BY <1>3, <2>0 DEF Appended
  <2>2. p.cur = sel.cur /\ p.per = "live"
    OBVIOUS
  <2> HIDE DEF p
  <2>3. ASSUME NEW c \in Selected
        PROVE  /\ Listing(series'[c])
               /\ \A n \in DOMAIN series'[c] :
                     \/ series'[c][n] = p
                     \/ c \in DOMAIN series /\ \E k \in DOMAIN series[c] : series'[c][n] = series[c][k]
    <3>1. series'[c] = IF c \in S THEN WithPoint(Held(c), p) ELSE Held(c)
      BY <2>1
    <3>2. CASE c \in DOMAIN series
      BY <3>1, <3>2, WithPointListing DEF Held, ChartsTyped
    <3>3. CASE c \notin DOMAIN series
      <4>1. Held(c) = <<>> /\ <<>> \in Seq({}) /\ DOMAIN <<>> = {}
        BY <3>3 DEF Held
      <4>2. Listing(Held(c))
        BY <4>1 DEF Listing
      <4> QED  BY <3>1, <4>1, <4>2, WithPointListing
    <3> QED  BY <3>2, <3>3
  <2>4. DOMAIN series' = Selected /\ Selected' = Selected
    BY <1>1, <2>1 DEF Selected
  <2>5. ChartsTyped'
    BY <1>0, <1>1, <2>3, <2>4 DEF ChartsTyped
  <2>6. ShownSettled'
    BY <1>1, <2>2, <2>3, <2>4 DEF ShownSettled, OfSelection, Keeping
  <2> QED  BY <1>1, <2>5, <2>6 DEF LiveAsks, WaitsForCoins, Keeping
<1> QED  BY <1>2, <1>3

\* Where every chart starts.
LEMMA ChartsStart == ChartsInit => ChartsIInv
<1> SUFFICES ASSUME ChartsInit PROVE ChartsIInv
  OBVIOUS
<1> USE ChartsAssumption DEF ChartsInit
<1>1. DOMAIN NoSeries = {}
  BY DEF NoSeries
<1>2. chart \in Kinds /\ quoted \in Seq(Quotes) /\ SelTyped(sel)
  <2> DEFINE coins == IF chart = "coin" THEN <<Head(Registry)>> ELSE <<>>
             cur == CHOOSE c \in Currencies : TRUE
             per == CHOOSE p \in Periods : TRUE
  <2>1. sel = [coins |-> coins, cur |-> cur, per |-> per]
    OBVIOUS
  <2> HIDE DEF coins, cur, per
  <2>2. SelTyped(sel)
    BY <2>1 DEF SelTyped
  <2> QED  BY <2>2
<1>3. Listing(asks) /\ \A i \in DOMAIN asks : IsAsk(asks[i]) /\ asks[i].sel = sel /\ chart = "coin"
  <2>1. CASE chart = "coin"
    <3> DEFINE a == [sel |-> sel, live |-> TRUE, got |-> NoSeries]
    <3>1. IsAsk(a) /\ a.sel = sel
      BY <1>1 DEF IsAsk
    <3>2. asks = <<a>>
      BY <2>1
    <3> HIDE DEF a
    <3>3. asks \in Seq({a}) /\ \A i \in DOMAIN asks : asks[i] = a
      <4>1. <<a>> \in Seq({a}) /\ DOMAIN <<a>> = {1} /\ <<a>>[1] = a
        BY ONLY TRUE
      <4> QED  BY ONLY <4>1, <3>2
    <3> QED  BY <2>1, <3>1, <3>3 DEF Listing
  <2>2. CASE chart # "coin"
    <3>1. asks = <<>> /\ <<>> \in Seq({}) /\ DOMAIN <<>> = {}
      BY <2>2
    <3> QED  BY <3>1 DEF Listing
  <2> QED  BY <2>1, <2>2
<1>4. chart = "coin" => sel.coins # <<>>
  OBVIOUS
<1> QED  BY <1>1, <1>2, <1>3, <1>4
         DEF ChartsIInv, ChartsTyped, LiveAsks, WaitsForCoins, ShownSettled, OfSelection, Keeping

\* A chart that is drawn is of what is selected: no answer, failure or print is drawn under
\* another selection's labels, but on the coin page after a failure (useAllSeries.ts,
\* CandlestickChart.tsx, CoinDetail.tsx).
THEOREM ChartsShowSelected == ChartsSpec => []ShownIsSelected
<1>1. ChartsInit => ChartsIInv
  BY ChartsStart
<1>2. ChartsIInv /\ [ChartsNext]_chartVars => ChartsIInv'
  <2> SUFFICES ASSUME ChartsIInv, [ChartsNext]_chartVars PROVE ChartsIInv'
    OBVIOUS
  <2>1. CASE UNCHANGED chartVars
    BY <2>1, SameCharts DEF chartVars
  <2>2. StreamSteps => ChartsIInv'
    BY StreamKeeps
  <2> QED  BY <2>1, <2>2, SelectKeeps, ChartAnswerKeeps, ServeKeeps DEF ChartsNext, Answer, StreamSteps
<1>3. ChartsIInv => ShownIsSelected
  <2> SUFFICES ASSUME ChartsIInv, ChartView = "chart", ~(chart = "coin" /\ failed)
               PROVE  OfSelection /\ DOMAIN series # {}
    BY DEF ShownIsSelected, OfSelection
  <2>1. ~loading /\ ~NoData /\ (chart = "candle" => ~failed)
    BY DEF ChartsIInv, ChartsTyped, Kinds, ChartView, OverlayView, DetailView, RangeView, CandleView, CoinView
  <2>2. OfSelection
    BY <2>1 DEF ChartsIInv, ShownSettled, Keeping
  <2>3. DOMAIN series # {}
    BY <2>1 DEF NoData
  <2> QED  BY <2>2, <2>3
<1> QED  BY <1>1, <1>2, <1>3, PTL DEF ChartsSpec

-----------------------------------------------------------------------------
(* What a live chart holds. *)

SelectionTyped ==
    /\ sel.coins \in Seq(Coins) /\ sel.cur \in Currencies /\ sel.per \in Periods
    /\ coinList \in {<<>>, Registry}

\* The page has heard of polls that were stored only.
PollsCounted ==
    /\ polls \in 0..MaxPolls /\ heard \in 0..polls /\ newest \in [Coins -> 0..MaxTime]

SeriesTyped ==
    /\ DOMAIN series \subseteq Coins
    /\ \A c \in DOMAIN series :
          series[c] \in Seq(Point) /\ (newest[c] # 0 => Len(series[c]) <= MaxPoints)

\* The request that counts is the last one, and the chart is loading because of it.
LastAsk == \A i \in DOMAIN asks : asks[i].live => i = Len(asks) /\ loading

\* What a request was served are polls; those of a request that counts are every batch
\* the page has got, but the ones the request itself will cost it.
AsksServed ==
    \A i \in DOMAIN asks : \A c \in DOMAIN asks[i].got :
        /\ asks[i].got[c] <= polls
        /\ Streamed /\ asks[i].live => \A t \in 1..heard : t <= asks[i].got[c] \/ t \in lost

NewestLast ==
    \A c \in Selected : newest[c] # 0 =>
        /\ c \in DOMAIN series /\ series[c] # <<>>
        /\ Last(series[c]) = [cur |-> sel.cur, per |-> "live", at |-> newest[c]]

\* A series that was never trimmed lacks no quote but those of the lost batches.
LacksLost(c) ==
    \A t \in 1..heard : <<c, sel.cur>> \in quoted[t] =>
        t \in lost \/ \E n \in DOMAIN series[c] : series[c][n].at = t
SeriesComplete ==
    Streamed /\ ~loading /\ ~failed =>
        \A c \in Selected : c \in DOMAIN series /\ (Len(series[c]) < MaxPoints => LacksLost(c))

FeedIInv ==
    /\ ChartsIInv /\ SelectionTyped /\ PollsCounted /\ SeriesTyped /\ LastAsk /\ AsksServed
    /\ NewestLast /\ SeriesComplete

\* Where the elements of a sequence with one more, or one less, come from.
LEMMA AppendedAt ==
    ASSUME NEW s, Listing(s), NEW x
    PROVE  /\ Len(Append(s, x)) = Len(s) + 1 /\ Len(s) \in Nat
           /\ \A i \in DOMAIN Append(s, x) :
                 \/ i = Len(s) + 1 /\ Append(s, x)[i] = x
                 \/ i \in DOMAIN s /\ Append(s, x)[i] = s[i]
<1>1. PICK S : s \in Seq(S)
  BY DEF Listing
<1>2. s \in Seq(S \cup {x}) /\ x \in S \cup {x}
  BY <1>1
<1> QED  BY <1>2

LEMMA JoinedAt ==
    ASSUME NEW S, NEW p \in Seq(S), NEW q \in Seq(S)
    PROVE  /\ Len(p \o q) = Len(p) + Len(q) /\ DOMAIN (p \o q) = 1..(Len(p) + Len(q))
           /\ \A j \in 1..(Len(p) + Len(q)) :
                 (p \o q)[j] = IF j <= Len(p) THEN p[j] ELSE q[j - Len(p)]
<1>1. p \o q \in Seq(S) /\ Len(p \o q) = Len(p) + Len(q)
  OBVIOUS
<1>2. DOMAIN (p \o q) = 1..(Len(p) + Len(q))
  BY <1>1
<1>3. ASSUME NEW j \in 1..(Len(p) + Len(q))
      PROVE  (p \o q)[j] = IF j <= Len(p) THEN p[j] ELSE q[j - Len(p)]
  OBVIOUS
<1> QED  BY <1>1, <1>2, <1>3

LEMMA RemovedAt ==
    ASSUME NEW s, Listing(s), NEW i \in DOMAIN s
    PROVE  /\ Len(RemoveAt(s, i)) = Len(s) - 1 /\ Len(s) \in Nat
           /\ \A j \in DOMAIN RemoveAt(s, i) :
                 \/ j < i /\ j \in DOMAIN s /\ RemoveAt(s, i)[j] = s[j]
                 \/ ~(j < i) /\ j + 1 \in DOMAIN s /\ RemoveAt(s, i)[j] = s[j + 1]
<1>1. PICK S : s \in Seq(S)
  BY DEF Listing
<1> DEFINE p == SubSeq(s, 1, i - 1)
           q == SubSeq(s, i + 1, Len(s))
<1>2. Len(s) \in Nat /\ DOMAIN s = 1..Len(s) /\ i \in 1..Len(s)
  BY <1>1
<1>3. /\ p \in Seq(S) /\ Len(p) = i - 1 /\ DOMAIN p = 1..(i - 1)
      /\ \A j \in 1..(i - 1) : p[j] = s[j]
  BY <1>1, <1>2
<1>4. /\ q \in Seq(S) /\ Len(q) = Len(s) - i /\ DOMAIN q = 1..(Len(s) - i)
      /\ \A j \in 1..(Len(s) - i) : q[j] = s[i + j]
  <2>1. q \in Seq(S) /\ Len(q) = Len(s) - i
    BY <1>1, <1>2
  <2>2. ASSUME NEW j \in 1..(Len(s) - i) PROVE q[j] = s[i + j]
    <3>1. q[j] = s[(i + 1) + j - 1]
      BY <1>1, <1>2
    <3> HIDE DEF q
    <3> QED  BY <1>2, <3>1
  <2> HIDE DEF q
  <2> QED  BY <2>1, <2>2
<1> HIDE DEF p, q
<1>5. /\ Len(p \o q) = Len(s) - 1 /\ DOMAIN (p \o q) = 1..(Len(s) - 1)
      /\ \A j \in 1..(Len(s) - 1) : (p \o q)[j] = IF j < i THEN p[j] ELSE q[j - (i - 1)]
  <2>1. /\ Len(p \o q) = Len(p) + Len(q) /\ DOMAIN (p \o q) = 1..(Len(p) + Len(q))
        /\ \A j \in 1..(Len(p) + Len(q)) :
              (p \o q)[j] = IF j <= Len(p) THEN p[j] ELSE q[j - Len(p)]
    BY <1>3, <1>4, JoinedAt
  <2>2. Len(p) + Len(q) = Len(s) - 1 /\ \A j \in 1..(Len(s) - 1) : (j <= Len(p) <=> j < i)
    BY <1>2, <1>3, <1>4
  <2> QED  BY <1>3, <2>1, <2>2
<1>6. ASSUME NEW j \in 1..(Len(s) - 1)
      PROVE  \/ j < i /\ j \in DOMAIN s /\ (p \o q)[j] = s[j]
             \/ ~(j < i) /\ j + 1 \in DOMAIN s /\ (p \o q)[j] = s[j + 1]
  <2>1. CASE j < i
    <3>1. j \in 1..(i - 1) /\ j \in DOMAIN s
      BY <1>2, <2>1
    <3> QED  BY <1>3, <1>5, <2>1, <3>1
  <2>2. CASE ~(j < i)
    <3>1. j - (i - 1) \in 1..(Len(s) - i) /\ i + (j - (i - 1)) = j + 1 /\ j + 1 \in DOMAIN s
      BY <1>2, <2>2
    <3> QED  BY <1>4, <1>5, <2>2, <3>1
  <2> QED  BY <2>1, <2>2
<1>7. RemoveAt(s, i) = p \o q
  BY DEF RemoveAt, p, q
<1> QED  BY <1>2, <1>5, <1>6, <1>7

\* A live point is last; before the cap is reached no other time is dropped for it.
LEMMA WithPointHolds ==
    ASSUME NEW ps \in Seq(Point), NEW p \in Point
    PROVE  LET new == WithPoint(ps, p)
           IN  /\ new \in Seq(Point) /\ new # <<>> /\ Last(new) = p /\ Len(new) <= MaxPoints
               /\ Len(new) < MaxPoints =>
                     /\ Len(ps) < MaxPoints
                     /\ \E n \in DOMAIN new : new[n].at = p.at
                     /\ \A k \in DOMAIN ps : \E n \in DOMAIN new : new[n].at = ps[k].at
<1> USE ChartsAssumption
<1> DEFINE all == IF ps # <<>> /\ Last(ps).at = p.at THEN Append(Front(ps), p) ELSE Append(ps, p)
           from == IF Len(all) > MaxPoints THEN Len(all) - MaxPoints + 1 ELSE 1
           new == WithPoint(ps, p)
<1>1. Len(ps) \in Nat /\ DOMAIN ps = 1..Len(ps) /\ (ps # <<>> => Len(ps) > 0)
  OBVIOUS
<1>2. /\ all \in Seq(Point) /\ Len(all) >= 1 /\ Len(all) >= Len(ps) /\ all[Len(all)] = p
      /\ \A k \in DOMAIN ps : \E n \in 1..Len(all) : all[n].at = ps[k].at
  <2>1. CASE ps # <<>> /\ Last(ps).at = p.at
    <3> DEFINE base == SubSeq(ps, 1, Len(ps) - 1)
    <3>1. /\ base \in Seq(Point) /\ Len(base) = Len(ps) - 1
          /\ \A k \in 1..(Len(ps) - 1) : base[k] = ps[k]
      BY <1>1, <2>1
    <3>2. all = Append(base, p)
      BY <2>1 DEF Front
    <3> HIDE DEF base, all
    <3>3. /\ all \in Seq(Point) /\ Len(all) = Len(base) + 1 /\ all[Len(base) + 1] = p
          /\ \A k \in 1..Len(base) : all[k] = base[k]
      BY <3>1, <3>2
    <3>4. Len(all) = Len(ps) /\ all[Len(ps)] = p /\ \A k \in 1..(Len(ps) - 1) : all[k] = ps[k]
      <4>1. Len(base) + 1 = Len(ps) /\ Len(base) = Len(ps) - 1
        BY <1>1, <3>1
      <4> QED  BY <3>1, <3>3, <4>1
    <3>5. ASSUME NEW k \in DOMAIN ps PROVE k \in 1..Len(all) /\ all[k].at = ps[k].at
      <4>1. CASE k = Len(ps)
        BY <1>1, <2>1, <3>4, <4>1 DEF Last
      <4>2. CASE k # Len(ps)
        <5>1. k \in 1..(Len(ps) - 1)
          BY <1>1, <4>2
        <5> QED  BY <1>1, <3>4, <5>1
      <4> QED  BY <4>1, <4>2
    <3> QED  BY <1>1, <2>1, <3>3, <3>4, <3>5
  <2>2. CASE ~(ps # <<>> /\ Last(ps).at = p.at)
    <3>1. all = Append(ps, p)
      BY <2>2
    <3> HIDE DEF all
    <3>2. /\ all \in Seq(Point) /\ Len(all) = Len(ps) + 1 /\ all[Len(ps) + 1] = p
          /\ \A k \in 1..Len(ps) : all[k] = ps[k]
      BY <1>1, <3>1
    <3>3. \A k \in 1..Len(ps) : k \in 1..Len(all)
      BY <1>1, <3>2
    <3> QED  BY <1>1, <3>2, <3>3
  <2> QED  BY <2>1, <2>2
<1>3. new = SubSeq(all, from, Len(all))
  BY DEF WithPoint
<1> HIDE DEF all, new
<1>4. /\ Len(all) \in Nat \ {0} /\ MaxPoints \in Nat \ {0}
      /\ from \in 1..Len(all) /\ Len(all) - from + 1 \in 1..MaxPoints
      /\ Len(all) - from + 1 < MaxPoints => from = 1 /\ Len(all) < MaxPoints
  <2>1. Len(all) \in Nat \ {0} /\ MaxPoints \in Nat \ {0}
    <3>1. Len(all) \in Nat
      BY <1>2
    <3> QED  BY <1>2, <3>1
  <2>2. CASE Len(all) > MaxPoints
    <3>1. from = Len(all) - MaxPoints + 1
      BY <2>2
    <3> HIDE DEF from
    <3> QED  BY <2>1, <2>2, <3>1
  <2>3. CASE ~(Len(all) > MaxPoints)
    <3>1. from = 1
      BY <2>3
    <3> HIDE DEF from
    <3> QED  BY <2>1, <2>3, <3>1
  <2> QED  BY <2>2, <2>3
<1> HIDE DEF from
<1>5. /\ new \in Seq(Point) /\ Len(new) = Len(all) - from + 1 /\ DOMAIN new = 1..Len(new)
      /\ \A n \in 1..(Len(all) - from + 1) : new[n] = all[from + n - 1]
  BY <1>2, <1>3, <1>4
<1>6. new # <<>> /\ Last(new) = p
  <2>1. Len(new) \in 1..(Len(all) - from + 1) /\ from + Len(new) - 1 = Len(all)
    BY <1>4, <1>5
  <2>2. new[Len(new)] = all[from + Len(new) - 1] /\ new # <<>>
    BY <1>5, <2>1
  <2> QED  BY <1>2, <2>1, <2>2 DEF Last
<1>7. ASSUME Len(new) < MaxPoints
      PROVE  Len(ps) < MaxPoints /\ DOMAIN new = 1..Len(all) /\ \A n \in 1..Len(all) : new[n] = all[n]
  <2>1. from = 1 /\ Len(all) < MaxPoints
    BY <1>4, <1>5, <1>7
  <2>2. Len(all) - from + 1 = Len(all) /\ \A n \in 1..Len(all) : from + n - 1 = n
    BY <1>4, <2>1
  <2>3. Len(ps) < MaxPoints
    BY <1>1, <1>2, <1>4, <2>1
  <2> QED  BY <1>5, <2>2, <2>3
<1>8. Len(new) <= MaxPoints
  BY <1>4, <1>5
<1>9. Len(new) < MaxPoints =>
         /\ Len(ps) < MaxPoints
         /\ \E n \in DOMAIN new : new[n].at = p.at
         /\ \A k \in DOMAIN ps : \E n \in DOMAIN new : new[n].at = ps[k].at
  <2> SUFFICES ASSUME Len(new) < MaxPoints
               PROVE  /\ Len(ps) < MaxPoints
                      /\ \E n \in DOMAIN new : new[n].at = p.at
                      /\ \A k \in DOMAIN ps : \E n \in DOMAIN new : new[n].at = ps[k].at
    OBVIOUS
  <2>1. Len(all) \in 1..Len(all)
    BY <1>4
  <2> QED  BY <1>2, <1>7, <2>1
<1>10. new \in Seq(Point)
  BY <1>5
<1> QED  BY <1>6, <1>8, <1>9, <1>10 DEF new

\* The coins a chart asks for by itself.
LEMMA DefaultsListed == DefaultCoins(Registry) \in Seq(Coins) /\ Registry \in Seq(Coins)
<1>1. Registry \in Seq(Coins) /\ DefaultPick \in 1..Len(Registry)
  BY ChartsAssumption DEF Coins
<1>2. Len(Registry) \in Nat /\ Head(Registry) \in Coins
  <2>1. Len(Registry) \in Nat \ {0} /\ 1 \in DOMAIN Registry
    BY <1>1
  <2> QED  BY <1>1, <2>1
<1>3. SubSeq(Registry, 1, DefaultPick) \in Seq(Coins)
  BY <1>1, <1>2
<1>4. <<Head(Registry)>> \in Seq(Coins)
  BY <1>2
<1> QED  BY <1>1, <1>3, <1>4 DEF DefaultCoins

\* Steps that leave all that is said.
LEMMA SameFeed ==
    ASSUME FeedIInv, coinList' \in {<<>>, Registry},
           UNCHANGED <<chart, sel, series, loading, failed, asks, quoted, heard, lost, newest>>
    PROVE  FeedIInv'
<1>1. ChartsIInv'
  BY SameCharts DEF FeedIInv
<1> QED  BY <1>1 DEF FeedIInv, SelectionTyped, PollsCounted, SeriesTyped, LastAsk, AsksServed,
                     NewestLast, SeriesComplete, LacksLost, Selected, Streamed, polls

\* A new selection starts over: nothing is appended yet, and the chart is not complete until
\* its request is answered.
LEMMA RestartFeed ==
    ASSUME FeedIInv, NEW s, Restart(s), SelTyped(s), UNCHANGED <<chart, quoted, heard>>,
           s.coins \in Seq(Coins), s.cur \in Currencies, s.per \in Periods,
           coinList' \in {<<>>, Registry},
           Keeping /\ s.coins = <<>> => sel.coins = <<>>
    PROVE  FeedIInv'
<1>1. ChartsIInv'
  BY RestartKeeps DEF FeedIInv
<1>2. /\ sel' = s /\ newest' = NoneNew /\ polls' = polls
      /\ chart \in Kinds /\ Listing(asks) /\ \A i \in DOMAIN asks : IsAsk(asks[i])
      /\ polls \in 0..MaxPolls /\ heard \in 0..polls /\ MaxPolls \in Nat
  BY ChartsAssumption DEF Restart, FeedIInv, ChartsIInv, ChartsTyped, PollsCounted, polls
<1>9. newest' \in [Coins -> 0..MaxTime] /\ \A c \in Coins : newest'[c] = 0
  BY <1>2, ChartsAssumption DEF NoneNew
<1>10. ASSUME NEW c \in Selected' PROVE c \in Coins
  <2>1. \A n \in DOMAIN s.coins : s.coins[n] \in Coins
    OBVIOUS
  <2> QED  BY <1>2, <1>10, <2>1 DEF Selected, ToSet
<1>3. SelectionTyped' /\ PollsCounted' /\ NewestLast'
  BY <1>2, <1>9, <1>10 DEF SelectionTyped, PollsCounted, NewestLast
<1>4. /\ DOMAIN Cancelled = DOMAIN asks /\ Len(Cancelled) = Len(asks) /\ Listing(Cancelled)
      /\ \A i \in DOMAIN asks : /\ Cancelled[i].live = FALSE
                                /\ Cancelled[i].got = asks[i].got
  <2>1. DOMAIN Cancelled = DOMAIN asks /\ \A i \in DOMAIN asks : Cancelled[i] = [asks[i] EXCEPT !.live = FALSE]
    BY DEF Cancelled
  <2>2. ASSUME NEW i \in DOMAIN asks PROVE Cancelled[i].live = FALSE /\ Cancelled[i].got = asks[i].got
    <3> DEFINE a == asks[i]
    <3>1. a \in [sel : {a.sel}, live : BOOLEAN, got : {a.got}] /\ Cancelled[i] = [a EXCEPT !.live = FALSE]
      BY <1>2, <2>1 DEF IsAsk
    <3> HIDE DEF a
    <3>2. Cancelled[i].live = FALSE /\ Cancelled[i].got = a.got
      BY <3>1
    <3> QED  BY <3>2 DEF a
  <2>3. Len(Cancelled) = Len(asks) /\ Listing(Cancelled)
    <3>1. PICK S : asks \in Seq(S)
      BY <1>2 DEF Listing
    <3> DEFINE T == {Cancelled[i] : i \in DOMAIN asks}
    <3>2. Len(asks) \in Nat /\ DOMAIN asks = 1..Len(asks)
      BY <3>1
    <3>3. Cancelled \in [1..Len(asks) -> T]
      BY <2>1, <3>2 DEF Cancelled
    <3> HIDE DEF T
    <3>4. Cancelled \in Seq(T) /\ Len(Cancelled) = Len(asks)
      BY <3>2, <3>3
    <3> QED  BY <3>4 DEF Listing
  <2> QED  BY <2>1, <2>2, <2>3
<1>5. ASSUME NEW i \in DOMAIN Cancelled, NEW c \in DOMAIN Cancelled[i].got
      PROVE  Cancelled[i].got[c] <= polls
  BY <1>4 DEF FeedIInv, AsksServed
<1>6. CASE s.coins # <<>>
  <2> DEFINE a == [sel |-> s, live |-> TRUE, got |-> NoSeries]
  <2>1. /\ loading' = TRUE /\ asks' = Append(Cancelled, a) /\ UNCHANGED <<series, failed>>
    BY <1>6 DEF Restart
  <2>2. DOMAIN a.got = {}
    BY DEF NoSeries
  <2> HIDE DEF a
  <2>3. /\ Len(asks') = Len(Cancelled) + 1 /\ Len(Cancelled) \in Nat
        /\ \A i \in DOMAIN asks' : \/ i = Len(asks') /\ asks'[i] = a
                                   \/ i \in DOMAIN Cancelled /\ asks'[i] = Cancelled[i]
    BY <1>4, <2>1, AppendedAt
  <2>4. LastAsk'
    BY <1>4, <2>1, <2>3 DEF LastAsk
  <2>5. AsksServed'
    <3> SUFFICES ASSUME NEW i \in DOMAIN asks', NEW c \in DOMAIN asks'[i].got
                 PROVE  asks'[i].got[c] <= polls /\ asks'[i].live = FALSE
      BY <1>2 DEF AsksServed
    <3>1. i \in DOMAIN Cancelled /\ asks'[i] = Cancelled[i]
      BY <2>2, <2>3
    <3> QED  BY <1>4, <1>5, <3>1
  <2>6. SeriesTyped' /\ SeriesComplete'
    BY <1>2, <1>9, <2>1 DEF FeedIInv, SeriesTyped, SeriesComplete
  <2> QED  BY <1>1, <1>3, <2>4, <2>5, <2>6 DEF FeedIInv
<1>7. CASE s.coins = <<>> /\ Keeping
  <2>1. UNCHANGED <<loading, series, failed, asks>>
    BY <1>7 DEF Restart, Keeping
  <2>2. ~Streamed /\ \A i \in DOMAIN asks : ~asks[i].live
    BY <1>7 DEF FeedIInv, ChartsIInv, LiveAsks, Keeping, Streamed
  <2>3. LastAsk' /\ SeriesTyped'
    BY <1>2, <1>9, <2>1, <2>2 DEF LastAsk, SeriesTyped, FeedIInv
  <2>4. AsksServed' /\ SeriesComplete'
    BY <1>2, <2>1, <2>2 DEF FeedIInv, AsksServed, SeriesComplete, Streamed
  <2> QED  BY <1>1, <1>3, <2>3, <2>4 DEF FeedIInv
<1>8. CASE s.coins = <<>> /\ ~Keeping
  <2>1. loading' = FALSE /\ failed' = FALSE /\ series' = NoSeries /\ asks' = Cancelled
    BY <1>8 DEF Restart, Keeping
  <2>2. DOMAIN series' = {} /\ Selected' = {}
    <3>1. DOMAIN <<>> = {}
      OBVIOUS
    <3>2. sel'.coins = <<>>
      BY <1>2, <1>8
    <3> QED  BY <2>1, <3>1, <3>2 DEF NoSeries, Selected, ToSet
  <2>3. SeriesTyped' /\ SeriesComplete'
    BY <2>2 DEF SeriesTyped, SeriesComplete
  <2>4. LastAsk' /\ AsksServed'
    BY <1>2, <1>4, <1>5, <2>1 DEF LastAsk, AsksServed
  <2> QED  BY <1>1, <1>3, <2>3, <2>4 DEF FeedIInv
<1> QED  BY <1>6, <1>7, <1>8

\* The ways to select: buttons name listed coins, and the defaults are some.
LEMMA SelectFeed ==
    ASSUME FeedIInv,
           \/ CoinsKnown
           \/ \E cur \in Currencies, per \in Periods : ChooseView(cur, per)
           \/ \E c \in Coins : ChooseCoin(c) \/ Toggle(c)
    PROVE  FeedIInv'
<1>1. /\ SelTyped(sel) /\ sel.coins \in Seq(Coins) /\ sel.cur \in Currencies /\ sel.per \in Periods
      /\ coinList \in {<<>>, Registry}
  BY DEF FeedIInv, ChartsIInv, ChartsTyped, SelectionTyped
<1>2. /\ UNCHANGED <<chart, quoted, heard>> /\ coinList' \in {<<>>, Registry}
  BY <1>1 DEF CoinsKnown, ChooseView, ChooseCoin, Toggle, feedVars
<1>3. ASSUME NEW cs \in Seq(Coins)
      PROVE  LET s == [sel EXCEPT !.coins = cs]
             IN  SelTyped(s) /\ s.coins = cs /\ s.cur = sel.cur /\ s.per = sel.per
  <2> DEFINE s == [sel EXCEPT !.coins = cs]
  <2>1. s \in [coins : {cs}, cur : {sel.cur}, per : {sel.per}]
    BY <1>1 DEF SelTyped
  <2> HIDE DEF s
  <2>2. SelTyped(s) /\ s.coins = cs /\ s.cur = sel.cur /\ s.per = sel.per
    BY <2>1 DEF SelTyped
  <2> QED  BY <2>2 DEF s
<1>4. ASSUME NEW cs \in Seq(Coins), Restart([sel EXCEPT !.coins = cs]),
             Keeping /\ cs = <<>> => sel.coins = <<>>
      PROVE  FeedIInv'
  <2> DEFINE s == [sel EXCEPT !.coins = cs]
  <2>1. SelTyped(s) /\ s.coins = cs /\ s.cur = sel.cur /\ s.per = sel.per /\ Restart(s)
    BY <1>3, <1>4
  <2> HIDE DEF s
  <2> QED  BY <1>1, <1>2, <1>4, <2>1, RestartFeed
<1>5. CASE CoinsKnown
  <2>1. CASE sel.coins = <<>>
    <3>1. Restart([sel EXCEPT !.coins = DefaultCoins(Registry)])
      BY <1>5, <2>1 DEF CoinsKnown
    <3> QED  BY <1>4, <2>1, <3>1, DefaultsListed
  <2>2. CASE sel.coins # <<>>
    BY <1>2, <1>5, <2>2, SameFeed DEF CoinsKnown, feedVars
  <2> QED  BY <2>1, <2>2
<1>6. ASSUME NEW cur \in Currencies, NEW per \in Periods, ChooseView(cur, per) PROVE FeedIInv'
  <2> DEFINE s == [sel EXCEPT !.cur = cur, !.per = per]
  <2>1. Restart(s)
    BY <1>6 DEF ChooseView
  <2>2. s \in [coins : {sel.coins}, cur : {cur}, per : {per}]
    BY <1>1 DEF SelTyped
  <2> HIDE DEF s
  <2>3. SelTyped(s) /\ s.coins = sel.coins /\ s.cur = cur /\ s.per = per
    BY <2>2 DEF SelTyped
  <2> QED  BY <1>1, <1>2, <2>1, <2>3, RestartFeed
<1>7. ASSUME NEW c \in Coins, ChooseCoin(c) PROVE FeedIInv'
  <2>1. <<c>> \in Seq(Coins) /\ <<c>> # <<>> /\ Restart([sel EXCEPT !.coins = <<c>>])
    BY <1>7 DEF ChooseCoin
  <2> QED  BY <1>4, <2>1
<1>8. ASSUME NEW c \in Coins, Toggle(c) PROVE FeedIInv'
  <2> DEFINE rest == Keep(sel.coins, Selected \ {c})
             cs == IF c \notin Selected THEN Append(sel.coins, c)
                   ELSE IF rest = <<>> THEN DefaultCoins(coinList) ELSE rest
  <2>1. Restart([sel EXCEPT !.coins = cs]) /\ chart = "overlay" /\ c \in ToSet(coinList)
    BY <1>8 DEF Toggle
  <2>2. coinList = Registry
    <3>1. DOMAIN <<>> = {}
      OBVIOUS
    <3> QED  BY <1>1, <2>1, <3>1 DEF ToSet
  <2>3. rest \in Seq(Coins)
    <3>1. rest \in Seq(Coins \cap (Selected \ {c}))
      BY <1>1, KeepListing
    <3> HIDE DEF rest
    <3> QED  BY <3>1
  <2> HIDE DEF rest
  <2>4. Append(sel.coins, c) \in Seq(Coins)
    BY <1>1
  <2>5. cs \in Seq(Coins)
    BY <2>2, <2>3, <2>4, DefaultsListed
  <2> HIDE DEF cs
  <2> QED  BY <1>4, <2>1, <2>5 DEF Keeping
<1> QED  BY <1>5, <1>6, <1>7, <1>8

\* What a request is served is every poll stored, those the page has heard of among them.
LEMMA ServeFeed ==
    ASSUME FeedIInv, NEW i, NEW c, Serve(i, c)
    PROVE  FeedIInv'
<1>1. ChartsIInv'
  BY ServeKeeps DEF FeedIInv
<1> DEFINE g == [x \in DOMAIN asks[i].got \cup {c} |-> IF x = c THEN polls ELSE asks[i].got[x]]
           a == [asks[i] EXCEPT !.got = g]
<1>2. /\ i \in DOMAIN asks /\ asks' = [asks EXCEPT ![i] = a]
      /\ UNCHANGED <<chart, coinList, sel, series, loading, failed, quoted, heard, lost, newest>>
      /\ polls' = polls
  BY DEF Serve, feedVars, polls
<1>3. Listing(asks) /\ IsAsk(asks[i]) /\ polls \in Nat /\ heard \in 0..polls
  BY <1>2 DEF FeedIInv, ChartsIInv, ChartsTyped, PollsCounted
<1>4. a.got = g /\ a.sel = asks[i].sel /\ (a.live <=> asks[i].live)
  <2> DEFINE b == asks[i]
  <2>1. b \in [sel : {b.sel}, live : BOOLEAN, got : {b.got}] /\ a = [b EXCEPT !.got = g]
    BY <1>3 DEF IsAsk
  <2> HIDE DEF b, g, a
  <2>2. a.got = g /\ a.sel = b.sel /\ (a.live <=> b.live)
    BY <2>1
  <2> QED  BY <2>2 DEF b
<1>5. \A x \in DOMAIN g : \/ g[x] = polls
                          \/ x \in DOMAIN asks[i].got /\ g[x] = asks[i].got[x]
  OBVIOUS
<1> HIDE DEF a, g
<1>6. /\ DOMAIN asks' = DOMAIN asks /\ Len(asks') = Len(asks) /\ asks'[i] = a
      /\ \A j \in DOMAIN asks : j # i => asks'[j] = asks[j]
  <2>1. PICK S : asks \in Seq(S)
    BY <1>3 DEF Listing
  <2>2. asks \in Seq(S \cup {a}) /\ a \in S \cup {a}
    BY <2>1
  <2> QED  BY <1>2, <2>2
<1>7. LastAsk'
  BY <1>2, <1>4, <1>6 DEF FeedIInv, LastAsk
<1>8. AsksServed'
  <2> SUFFICES ASSUME NEW j \in DOMAIN asks, NEW x \in DOMAIN asks'[j].got
               PROVE  /\ asks'[j].got[x] <= polls
                      /\ Streamed /\ asks'[j].live =>
                            \A t \in 1..heard : t <= asks'[j].got[x] \/ t \in lost
    BY <1>2, <1>6 DEF AsksServed, Streamed
  <2>1. CASE j = i /\ g[x] = polls
    BY <1>3, <1>4, <1>6, <2>1
  <2>2. CASE ~(j = i /\ g[x] = polls)
    <3>1. x \in DOMAIN asks[j].got /\ asks'[j].got[x] = asks[j].got[x] /\ (asks'[j].live <=> asks[j].live)
      BY <1>4, <1>5, <1>6, <2>2
    <3> QED  BY <3>1 DEF FeedIInv, AsksServed
  <2> QED  BY <2>1, <2>2
<1> QED  BY <1>1, <1>2, <1>7, <1>8
         DEF FeedIInv, SelectionTyped, PollsCounted, SeriesTyped, NewestLast, SeriesComplete,
             LacksLost, Selected, Streamed

\* An answer that counts holds every batch the page has got and not lost; after it, or a
\* failure that counts, nothing is appended yet.
LEMMA AnswerFeed ==
    ASSUME FeedIInv, NEW i, AnswerOk(i) \/ AnswerErr(i)
    PROVE  FeedIInv'
<1>1. ChartsIInv'
  BY ChartAnswerKeeps DEF FeedIInv
<1>2. /\ i \in DOMAIN asks /\ asks' = RemoveAt(asks, i) /\ (Applies(i) <=> asks[i].live)
      /\ UNCHANGED <<chart, coinList, sel, quoted, heard, lost>> /\ polls' = polls
  BY DEF AnswerOk, AnswerErr, Applies, feedVars, polls
<1>3. /\ Listing(asks) /\ IsAsk(asks[i]) /\ Listing(asks')
      /\ DOMAIN asks = 1..Len(asks) /\ DOMAIN asks' = 1..Len(asks')
      /\ polls \in 0..MaxPolls /\ heard \in 0..polls /\ MaxPolls \in Nat
      /\ sel.coins \in Seq(Coins) /\ sel.cur \in Currencies /\ sel.per \in Periods
      /\ polls = Len(quoted) /\ DOMAIN quoted = 1..Len(quoted)
  BY <1>1, <1>2, ChartsAssumption
  DEF FeedIInv, ChartsIInv, ChartsTyped, PollsCounted, SelectionTyped, Listing, polls
<1>4. /\ Len(asks') = Len(asks) - 1 /\ Len(asks) \in Nat
      /\ \A j \in DOMAIN asks' : \/ j < i /\ j \in DOMAIN asks /\ asks'[j] = asks[j]
                                 \/ ~(j < i) /\ j + 1 \in DOMAIN asks /\ asks'[j] = asks[j + 1]
  BY <1>2, <1>3, RemovedAt
<1>5. \A j \in DOMAIN asks' : \E k \in DOMAIN asks : asks'[j] = asks[k]
  BY <1>4
<1>6. AsksServed'
  BY <1>2, <1>5 DEF FeedIInv, AsksServed, Streamed
\* A request that counts is the last, so without it none is.
<1>7. /\ \A j \in DOMAIN asks' : asks'[j].live => j = Len(asks') /\ loading
      /\ Applies(i) => \A j \in DOMAIN asks' : ~asks'[j].live
  <2> SUFFICES ASSUME NEW j \in DOMAIN asks', asks'[j].live
               PROVE  j = Len(asks') /\ loading /\ ~Applies(i)
    OBVIOUS
  <2>1. j \in 1..(Len(asks) - 1) /\ i \in 1..Len(asks)
    BY <1>2, <1>3, <1>4
  <2>2. CASE j < i /\ j \in DOMAIN asks /\ asks'[j] = asks[j]
    BY <1>4, <2>1, <2>2 DEF FeedIInv, LastAsk
  <2>3. CASE j + 1 \in DOMAIN asks /\ asks'[j] = asks[j + 1] /\ ~(j < i)
    <3>1. j + 1 = Len(asks) /\ loading
      BY <2>3 DEF FeedIInv, LastAsk
    <3>2. j + 1 # i
      BY <2>1, <2>3
    <3>3. asks[i].live => i = Len(asks)
      BY <1>2 DEF FeedIInv, LastAsk
    <3> QED  BY <1>2, <1>4, <2>1, <3>1, <3>2, <3>3
  <2> QED  BY <1>4, <2>2, <2>3
<1>8. CASE ~Applies(i)
  <2>1. UNCHANGED <<series, loading, failed, newest>>
    BY <1>8 DEF AnswerOk, AnswerErr
  <2>2. LastAsk'
    BY <1>7, <2>1 DEF LastAsk
  <2> QED  BY <1>1, <1>2, <1>6, <2>1, <2>2
           DEF FeedIInv, SelectionTyped, PollsCounted, SeriesTyped, NewestLast, SeriesComplete,
               LacksLost, Selected, Streamed
<1>9. CASE Applies(i)
  <2>1. loading' = FALSE /\ newest' = NoneNew
    BY <1>9 DEF AnswerOk, AnswerErr
  <2>6. newest' \in [Coins -> 0..MaxTime] /\ \A c \in Coins : newest'[c] = 0
    BY <2>1, ChartsAssumption DEF NoneNew
  <2>7. ASSUME NEW c \in Selected' PROVE c \in Coins
    <3>1. \A n \in DOMAIN sel.coins : sel.coins[n] \in Coins
      BY <1>3
    <3> QED  BY <1>2, <2>7, <3>1 DEF Selected, ToSet
  <2>2. SelectionTyped' /\ PollsCounted' /\ NewestLast'
    BY <1>2, <2>6, <2>7 DEF FeedIInv, SelectionTyped, PollsCounted, NewestLast
  <2>3. LastAsk'
    BY <1>7, <1>9 DEF LastAsk
  <2>4. CASE AnswerErr(i)
    <3>1. failed' = TRUE /\ series' \in {series, NoSeries}
      BY <1>9, <2>4 DEF AnswerErr
    <3>2. DOMAIN NoSeries = {}
      BY DEF NoSeries
    <3>3. SeriesTyped' /\ SeriesComplete'
      BY <2>1, <2>6, <3>1, <3>2 DEF FeedIInv, SeriesTyped, SeriesComplete
    <3> QED  BY <1>1, <1>6, <2>2, <2>3, <3>3 DEF FeedIInv
  <2>5. CASE AnswerOk(i)
    <3> DEFINE got == asks[i].got
    <3>1. series' = Fetched(asks[i]) /\ DOMAIN got = ToSet(asks[i].sel.coins)
      BY <1>9, <2>5 DEF AnswerOk
    <3>2. asks[i].sel = sel /\ asks[i].live
      BY <1>2, <1>9 DEF FeedIInv, ChartsIInv, LiveAsks
    <3>3. /\ DOMAIN series' = Selected /\ DOMAIN got = Selected /\ Selected \subseteq Coins
      <4>1. \A n \in DOMAIN sel.coins : sel.coins[n] \in Coins
        BY <1>3
      <4> QED  BY <3>1, <3>2, <4>1 DEF Fetched, Selected, ToSet
    <3>4. ASSUME NEW c \in Selected
          PROVE  /\ got[c] \in 0..polls
                 /\ Streamed => \A t \in 1..heard : t <= got[c] \/ t \in lost
      <4>1. got[c] \in Nat /\ got[c] <= polls
        BY <1>2, <1>3, <3>3 DEF FeedIInv, AsksServed, IsAsk
      <4>2. Streamed => \A t \in 1..heard : t <= got[c] \/ t \in lost
        BY <1>2, <3>2, <3>3 DEF FeedIInv, AsksServed
      <4> QED  BY <1>3, <4>1, <4>2
    <3>5. ASSUME NEW c \in Selected
          PROVE  /\ series'[c] \in Seq(Point)
                 /\ \A t \in 1..got[c] : <<c, sel.cur>> \in quoted[t] =>
                       \E n \in DOMAIN series'[c] : series'[c][n].at = t
      <4> DEFINE rows == RowsOf(c, sel.cur, got[c])
                 f == series'[c]
                 m == Len(rows)
                 point(n) == [cur |-> sel.cur, per |-> sel.per, at |-> rows[n]]
      <4>1. /\ m \in Nat /\ DOMAIN rows = 1..m /\ DOMAIN f = 1..m
            /\ \A n \in 1..m : rows[n] \in 1..got[c] /\ f[n] = point(n)
            /\ Listing(f)
        <5>1. asks[i].got[c] \in Nat /\ c \in ToSet(asks[i].sel.coins)
          BY <1>2, <1>3, <3>1, <3>3 DEF IsAsk
        <5> QED  BY <3>1, <3>2, <5>1, FetchedHas
      <4>2. ASSUME NEW n \in 1..m PROVE f[n] \in Point /\ f[n].at = rows[n]
        <5>1. rows[n] \in 1..MaxTime
          <6>1. got[c] \in Nat /\ got[c] <= MaxTime
            BY <1>3, <3>4, ChartsAssumption
          <6>2. rows[n] \in 1..got[c]
            BY <4>1
          <6> HIDE DEF rows, got
          <6> QED  BY <6>1, <6>2, ChartsAssumption
        <5>2. f[n] = point(n)
          BY <4>1
        <5> HIDE DEF rows, f, m
        <5> QED  BY <1>3, <5>1, <5>2 DEF Point
      <4>3. \A t \in 1..got[c] : <<c, sel.cur>> \in quoted[t] => \E n \in DOMAIN rows : rows[n] = t
        <5>1. \A t \in 1..got[c] : t \in DOMAIN quoted
          BY <1>3, <3>4
        <5>2. got[c] \in Nat
          BY <1>3, <3>4
        <5>3. ASSUME NEW t \in 1..got[c], <<c, sel.cur>> \in quoted[t]
              PROVE  \E n \in DOMAIN rows : rows[n] = t
          <6>1. t \in DOMAIN quoted
            BY <5>1
          <6> QED  BY <5>2, <5>3, <6>1, RowsAll
        <5> QED  BY <5>3
      <4> HIDE DEF rows, f, m, point
      <4>4. f \in Seq(Point)
        <5>1. Len(f) = m
          BY <4>1 DEF Listing
        <5> QED  BY <4>1, <4>2, <5>1 DEF Listing
      <4> QED  BY <4>1, <4>2, <4>3, <4>4 DEF f
    <3> HIDE DEF got
    <3>6. SeriesTyped'
      BY <2>6, <3>3, <3>5 DEF SeriesTyped
    <3>7. SeriesComplete'
      <4> SUFFICES ASSUME Streamed, NEW c \in Selected, NEW t \in 1..heard, <<c, sel.cur>> \in quoted[t]
                   PROVE  t \in lost \/ \E n \in DOMAIN series'[c] : series'[c][n].at = t
        BY <1>2, <3>3 DEF SeriesComplete, LacksLost, Selected, Streamed
      <4>1. CASE t <= got[c]
        <5>1. t \in 1..got[c]
          BY <1>3, <3>4, <4>1
        <5> QED  BY <3>5, <5>1
      <4> QED  BY <3>4, <4>1
    <3> QED  BY <1>1, <1>6, <2>2, <2>3, <3>6, <3>7 DEF FeedIInv
  <2> QED  BY <2>4, <2>5
<1> QED  BY <1>8, <1>9

\* What a batch does to the series: those it quotes end in its point; none loses the time
\* of a point before the cap is reached.
LEMMA AppendedFeed ==
    ASSUME FeedIInv, NEW S \in SUBSET Coins, NEW t \in 1..MaxTime, Appended(S, t),
           UNCHANGED sel
    PROVE  /\ SeriesTyped' /\ NewestLast' /\ newest' \in [Coins -> 0..MaxTime]
           /\ \A c \in Selected : c \in DOMAIN series =>
                 /\ c \in DOMAIN series'
                 /\ Len(series'[c]) < MaxPoints =>
                       /\ Len(series[c]) < MaxPoints
                       /\ c \in S => \E k \in DOMAIN series'[c] : series'[c][k].at = t
                       /\ \A j \in DOMAIN series[c] : \E k \in DOMAIN series'[c] :
                             series'[c][k].at = series[c][j].at
<1> DEFINE p == [cur |-> sel.cur, per |-> "live", at |-> t]
<1>1. /\ Selected' = Selected /\ Selected \subseteq Coins /\ newest \in [Coins -> 0..MaxTime]
      /\ sel.cur \in Currencies /\ t # 0 /\ t \in 0..MaxTime
  <2>1. \A n \in DOMAIN sel.coins : sel.coins[n] \in Coins
    BY DEF FeedIInv, SelectionTyped
  <2> QED  BY <2>1, ChartsAssumption DEF FeedIInv, SelectionTyped, PollsCounted, Selected, ToSet
<1>2. CASE S \cap Selected = {}
  <2>1. UNCHANGED <<series, newest>> /\ \A c \in Selected : c \notin S
    BY <1>2 DEF Appended
  <2> QED  BY <1>1, <2>1 DEF FeedIInv, SeriesTyped, NewestLast
<1>3. CASE S \cap Selected # {}
  <2>1. /\ series' = [c \in Selected |-> IF c \in S THEN WithPoint(Held(c), p) ELSE Held(c)]
        /\ newest' = [c \in Coins |-> IF c \in S \cap Selected THEN t ELSE newest[c]]
    BY <1>3 DEF Appended
  <2>2. p \in Point /\ p.at = t
    BY <1>1 DEF Point
  <2>3. newest' \in [Coins -> 0..MaxTime]
    BY <1>1, <2>1
  <2>4. ASSUME NEW c \in Selected
        PROVE  /\ c \in Coins /\ Held(c) \in Seq(Point)
               /\ c \notin S => series'[c] = Held(c) /\ newest'[c] = newest[c]
               /\ c \in S =>
                     /\ newest'[c] = t
                     /\ series'[c] \in Seq(Point) /\ series'[c] # <<>> /\ Last(series'[c]) = p
                     /\ Len(series'[c]) <= MaxPoints
                     /\ Len(series'[c]) < MaxPoints =>
                           /\ Len(Held(c)) < MaxPoints
                           /\ \E k \in DOMAIN series'[c] : series'[c][k].at = t
                           /\ \A j \in DOMAIN Held(c) : \E k \in DOMAIN series'[c] :
                                 series'[c][k].at = Held(c)[j].at
    <3>1. Held(c) \in Seq(Point)
      <4>1. <<>> \in Seq(Point)
        OBVIOUS
      <4> QED  BY <4>1 DEF Held, FeedIInv, SeriesTyped
    <3>2. /\ series'[c] = IF c \in S THEN WithPoint(Held(c), p) ELSE Held(c)
          /\ newest'[c] = IF c \in S THEN t ELSE newest[c]
      BY <1>1, <2>1
    <3> DEFINE ps == Held(c)
               new == series'[c]
    <3>3. ps \in Seq(Point) /\ (c \in S => new = WithPoint(ps, p))
      BY <3>1, <3>2
    <3> HIDE DEF ps, new, p
    <3>4. c \in S =>
          /\ new \in Seq(Point) /\ new # <<>> /\ Last(new) = p /\ Len(new) <= MaxPoints
          /\ Len(new) < MaxPoints =>
                /\ Len(ps) < MaxPoints
                /\ \E k \in DOMAIN new : new[k].at = p.at
                /\ \A j \in DOMAIN ps : \E k \in DOMAIN new : new[k].at = ps[j].at
      <4> DEFINE w == WithPoint(ps, p)
      <4>1. ps \in Seq(Point) /\ p \in Point
        BY <2>2, <3>3 DEF p
      <4>2. /\ w \in Seq(Point) /\ w # <<>> /\ Last(w) = p /\ Len(w) <= MaxPoints
            /\ Len(w) < MaxPoints =>
                  /\ Len(ps) < MaxPoints
                  /\ \E k \in DOMAIN w : w[k].at = p.at
                  /\ \A j \in DOMAIN ps : \E k \in DOMAIN w : w[k].at = ps[j].at
        BY <4>1, WithPointHolds
      <4>3. c \in S => new = w
        BY <3>3
      <4> HIDE DEF w
      <4> QED  BY <4>2, <4>3
    <3> QED  BY <1>1, <2>2, <3>1, <3>2, <3>4 DEF ps, new
  <2>5. DOMAIN series' = Selected
    BY <2>1
  <2>6. p = [cur |-> sel.cur, per |-> "live", at |-> t]
    OBVIOUS
  <2> HIDE DEF p
  <2>7. SeriesTyped'
    <3> SUFFICES ASSUME NEW c \in Selected
                 PROVE  series'[c] \in Seq(Point) /\ (newest'[c] # 0 => Len(series'[c]) <= MaxPoints)
      BY <1>1, <2>5 DEF SeriesTyped
    <3>1. CASE c \in S
      BY <2>4, <3>1
    <3>2. CASE c \notin S
      <4>1. newest[c] # 0 => Held(c) = series[c] /\ c \in DOMAIN series
        BY DEF FeedIInv, NewestLast, Held
      <4> QED  BY <2>4, <3>2, <4>1 DEF FeedIInv, SeriesTyped
    <3> QED  BY <3>1, <3>2
  <2>8. NewestLast'
    <3> SUFFICES ASSUME NEW c \in Selected, newest'[c] # 0
                 PROVE  /\ series'[c] # <<>>
                        /\ Last(series'[c]) = [cur |-> sel.cur, per |-> "live", at |-> newest'[c]]
      BY <1>1, <2>5 DEF NewestLast
    <3>1. CASE c \in S
      BY <2>4, <2>6, <3>1
    <3>2. CASE c \notin S
      <4>1. newest[c] # 0 => Held(c) = series[c]
        BY DEF FeedIInv, NewestLast, Held
      <4> QED  BY <2>4, <3>2, <4>1 DEF FeedIInv, NewestLast
    <3> QED  BY <3>1, <3>2
  <2>9. ASSUME NEW c \in Selected, c \in DOMAIN series, Len(series'[c]) < MaxPoints
        PROVE  /\ Len(series[c]) < MaxPoints
               /\ c \in S => \E k \in DOMAIN series'[c] : series'[c][k].at = t
               /\ \A j \in DOMAIN series[c] : \E k \in DOMAIN series'[c] :
                     series'[c][k].at = series[c][j].at
    <3>1. Held(c) = series[c]
      BY <2>9 DEF Held
    <3> QED  BY <2>4, <2>9, <3>1
  <2> QED  BY <2>3, <2>5, <2>7, <2>8, <2>9
<1> QED  BY <1>2, <1>3

\* A batch is lost while a request is under way or the socket is down, and otherwise adds a
\* point to the series it quotes.
LEMMA StreamFeed ==
    ASSUME FeedIInv, StreamSteps
    PROVE  FeedIInv'
<1>1. ChartsIInv' /\ quoted \in Seq(Quotes)
  BY StreamKeeps DEF FeedIInv, ChartsIInv, ChartsTyped
<1>2. /\ UNCHANGED <<chart, coinList, sel, loading, failed, asks>>
      /\ polls \in 0..MaxPolls /\ heard \in 0..polls /\ MaxPolls \in Nat /\ polls = Len(quoted)
      /\ DOMAIN quoted = 1..Len(quoted)
  BY <1>1, ChartsAssumption
  DEF StreamSteps, PollStored, HearPoll, HearTrades, MissBatch, FeedIInv, PollsCounted, polls
<1>3. SelectionTyped' /\ LastAsk' /\ Selected' = Selected /\ (Streamed <=> Streamed')
  BY <1>2 DEF FeedIInv, SelectionTyped, LastAsk, Selected, Streamed
<1>4. ASSUME NEW qs \in Quotes, PollStored(qs) PROVE FeedIInv'
  <2>1. /\ polls < MaxPolls /\ quoted' = Append(quoted, qs)
        /\ UNCHANGED <<series, heard, lost, newest>>
    BY <1>4 DEF PollStored
  <2>2. polls' = polls + 1 /\ \A t \in 1..heard : quoted'[t] = quoted[t]
    BY <1>1, <1>2, <2>1 DEF polls
  <2>3. PollsCounted' /\ SeriesTyped' /\ NewestLast'
    BY <1>2, <1>3, <2>1, <2>2 DEF FeedIInv, PollsCounted, SeriesTyped, NewestLast
  <2>4. AsksServed'
    <3>1. \A i \in DOMAIN asks : \A c \in DOMAIN asks[i].got : asks[i].got[c] \in Nat
      BY DEF FeedIInv, ChartsIInv, ChartsTyped, IsAsk
    <3> QED  BY <1>2, <1>3, <2>1, <2>2, <3>1 DEF FeedIInv, AsksServed
  <2>5. SeriesComplete'
    BY <1>2, <1>3, <2>1, <2>2 DEF FeedIInv, SeriesComplete, LacksLost
  <2> QED  BY <1>1, <1>3, <2>3, <2>4, <2>5 DEF FeedIInv
\* The steps of the stream, as one: what is heard, and of which coins.
<1>5. ASSUME NEW S \in SUBSET Coins, NEW t \in 1..MaxTime, UNCHANGED quoted,
             Appended(S, t) \/ UNCHANGED <<series, newest>>,
             heard' \in 0..polls, lost \subseteq lost',
             \A n \in 1..heard' : n \in 1..heard \/
                \/ n \in lost'
                \/ n = t /\ ~loading /\ Appended(S, t) /\ \A c \in Coins : <<c, sel.cur>> \in quoted[n] => c \in S
      PROVE  FeedIInv'
  <2>1. /\ SeriesTyped' /\ NewestLast' /\ newest' \in [Coins -> 0..MaxTime]
        /\ \A c \in Selected : c \in DOMAIN series =>
              /\ c \in DOMAIN series'
              /\ Len(series'[c]) < MaxPoints =>
                    /\ Len(series[c]) < MaxPoints
                    /\ c \in S /\ Appended(S, t) => \E k \in DOMAIN series'[c] : series'[c][k].at = t
                    /\ \A j \in DOMAIN series[c] : \E k \in DOMAIN series'[c] :
                          series'[c][k].at = series[c][j].at
    <3>1. CASE Appended(S, t)
      BY <1>2, <3>1, AppendedFeed
    <3>2. CASE ~Appended(S, t)
      BY <1>2, <1>3, <1>5, <3>2 DEF FeedIInv, SeriesTyped, NewestLast, PollsCounted
    <3> QED  BY <3>1, <3>2
  <2>2. PollsCounted' /\ polls' = polls
    BY <1>2, <1>5, <2>1 DEF PollsCounted, polls
  <2>3. AsksServed'
    <3> SUFFICES ASSUME NEW i \in DOMAIN asks, NEW c \in DOMAIN asks[i].got
                 PROVE  /\ asks[i].got[c] <= polls
                        /\ Streamed /\ asks[i].live =>
                              \A n \in 1..heard' : n <= asks[i].got[c] \/ n \in lost'
      BY <1>2, <1>3, <2>2 DEF AsksServed
    <3>1. asks[i].live => loading
      BY DEF FeedIInv, LastAsk
    <3> QED  BY <1>5, <3>1 DEF FeedIInv, AsksServed
  <2>4. SeriesComplete'
    <3> SUFFICES ASSUME Streamed, ~loading, ~failed, NEW c \in Selected
                 PROVE  c \in DOMAIN series' /\ (Len(series'[c]) < MaxPoints => LacksLost(c)')
      BY <1>2, <1>3 DEF SeriesComplete
    <3>1. /\ c \in DOMAIN series /\ (Len(series[c]) < MaxPoints => LacksLost(c))
          /\ c \in DOMAIN series' /\ c \in Coins
      BY <2>1 DEF FeedIInv, SeriesComplete, SeriesTyped
    <3>2. ASSUME Len(series'[c]) < MaxPoints, NEW n \in 1..heard', <<c, sel.cur>> \in quoted[n]
          PROVE  n \in lost' \/ \E k \in DOMAIN series'[c] : series'[c][k].at = n
      <4>1. CASE n \in 1..heard
        <5>1. n \in lost \/ \E j \in DOMAIN series[c] : series[c][j].at = n
          BY <2>1, <3>1, <3>2, <4>1 DEF LacksLost
        <5> QED  BY <1>5, <2>1, <3>1, <3>2, <5>1
      <4>2. CASE n \notin 1..heard
        BY <1>5, <2>1, <3>1, <3>2, <4>2
      <4> QED  BY <4>1, <4>2
    <3> QED  BY <1>2, <1>5, <3>1, <3>2 DEF LacksLost
  <2> QED  BY <1>1, <1>3, <2>1, <2>2, <2>3, <2>4 DEF FeedIInv
<1>6. heard < polls =>
         /\ heard + 1 \in 1..MaxTime /\ heard + 1 \in 0..polls
         /\ \A n \in 1..(heard + 1) : n \in 1..heard \/ n = heard + 1
  BY <1>2, ChartsAssumption
<1>7. CASE HearPoll
  <2> DEFINE n == heard + 1
             S == {c \in Coins : <<c, sel.cur>> \in quoted[n]}
  <2>1. /\ UNCHANGED quoted /\ Appended(S, n) /\ heard < polls /\ heard' = n
        /\ lost' = IF loading THEN lost \cup {n} ELSE lost
    BY <1>7 DEF HearPoll
  <2>2. S \in SUBSET Coins /\ \A c \in Coins : <<c, sel.cur>> \in quoted[n] => c \in S
    OBVIOUS
  <2> HIDE DEF S
  <2> QED  BY <1>5, <1>6, <2>1, <2>2
<1>8. CASE MissBatch
  <2>1. /\ UNCHANGED <<quoted, series, newest>> /\ heard < polls /\ heard' = heard + 1
        /\ lost' = lost \cup {heard + 1}
    BY <1>8 DEF MissBatch
  <2>2. {} \in SUBSET Coins
    OBVIOUS
  <2> QED  BY <1>5, <1>6, <2>1, <2>2
<1>9. ASSUME NEW S \in SUBSET Coins, NEW t \in 1..MaxTime, HearTrades(S, t) PROVE FeedIInv'
  <2>1. /\ UNCHANGED <<quoted, heard, lost>>
        /\ Appended(IF sel.cur = "USD" THEN S ELSE {}, t)
        /\ (IF sel.cur = "USD" THEN S ELSE {}) \in SUBSET Coins
    BY <1>9 DEF HearTrades
  <2> QED  BY <1>2, <1>5, <2>1
<1> QED  BY <1>4, <1>7, <1>8, <1>9 DEF StreamSteps

\* A live chart ends, for each coin, in the last quote of it since the data arrived, and a
\* series that was never trimmed lacks only quotes of batches the socket missed or a request
\* replaced: whatever coins the batches of the service and of the exchange price, and however
\* they interleave with answers, failures and clicks (UseAllSeries.ts).
THEOREM ChartsInvariant == ChartsSpec => []ChartsInv
<1>1. ChartsInit => FeedIInv
  <2> SUFFICES ASSUME ChartsInit PROVE FeedIInv
    OBVIOUS
  <2>1. ChartsIInv
    BY ChartsStart
  <2>2. /\ chart \in Kinds /\ coinList = <<>> /\ series = NoSeries /\ failed = FALSE
        /\ polls = 0 /\ heard = 0 /\ newest = NoneNew /\ loading = (chart \in {"coin", "candle"})
        /\ asks = IF chart = "coin" THEN <<[sel |-> sel, live |-> TRUE, got |-> NoSeries]>> ELSE <<>>
    BY DEF ChartsInit, polls
  <2>3. SelectionTyped
    <3> DEFINE coins == IF chart = "coin" THEN <<Head(Registry)>> ELSE <<>>
               cur == CHOOSE c \in Currencies : TRUE
               per == CHOOSE p \in Periods : TRUE
    <3>1. coins \in Seq(Coins) /\ cur \in Currencies /\ per \in Periods
      <4>1. Head(Registry) \in Coins
        <5>1. Len(Registry) \in Nat \ {0} /\ 1 \in DOMAIN Registry
          BY DefaultsListed, ChartsAssumption
        <5> QED  BY <5>1, DefaultsListed
      <4> QED  BY <4>1, ChartsAssumption
    <3>2. sel = [coins |-> coins, cur |-> cur, per |-> per]
      BY DEF ChartsInit
    <3> HIDE DEF coins, cur, per
    <3> QED  BY <2>2, <3>1, <3>2 DEF SelectionTyped
  <2>4. PollsCounted /\ NewestLast
    <3>1. newest \in [Coins -> 0..MaxTime] /\ \A c \in Coins : newest[c] = 0
      BY <2>2, ChartsAssumption DEF NoneNew
    <3>2. \A c \in Selected : c \in Coins
      <4>1. \A n \in DOMAIN sel.coins : sel.coins[n] \in Coins
        BY <2>3 DEF SelectionTyped
      <4> QED  BY <4>1 DEF Selected, ToSet
    <3> QED  BY <2>2, <3>1, <3>2, ChartsAssumption DEF PollsCounted, NewestLast
  <2>5. DOMAIN NoSeries = {}
    BY DEF NoSeries
  <2>6. SeriesTyped
    BY <2>2, <2>5 DEF SeriesTyped
  <2>7. LastAsk /\ AsksServed
    <3>1. CASE chart = "coin"
      <4> DEFINE a == [sel |-> sel, live |-> TRUE, got |-> NoSeries]
      <4>1. asks = <<a>> /\ loading
        BY <2>2, <3>1
      <4>2. DOMAIN a.got = {}
        BY <2>5
      <4> HIDE DEF a
      <4>3. DOMAIN asks = {1} /\ asks[1] = a /\ Len(asks) = 1
        BY <4>1
      <4> QED  BY <4>1, <4>2, <4>3 DEF LastAsk, AsksServed
    <3>2. CASE chart # "coin"
      <4>1. DOMAIN asks = {}
        BY <2>2, <3>2
      <4> QED  BY <4>1 DEF LastAsk, AsksServed
    <3> QED  BY <3>1, <3>2
  <2>8. SeriesComplete
    <3>1. Streamed => Selected = {}
      <4>1. DOMAIN <<>> = {}
        OBVIOUS
      <4>2. Streamed => sel.coins = <<>>
        BY DEF ChartsInit, Streamed
      <4> QED  BY <4>1, <4>2 DEF Selected, ToSet
    <3> QED  BY <3>1 DEF SeriesComplete
  <2> QED  BY <2>1, <2>3, <2>4, <2>6, <2>7, <2>8 DEF FeedIInv
<1>2. FeedIInv /\ [ChartsNext]_chartVars => FeedIInv'
  <2> SUFFICES ASSUME FeedIInv, [ChartsNext]_chartVars PROVE FeedIInv'
    OBVIOUS
  <2>1. CASE UNCHANGED chartVars
    <3>1. coinList' \in {<<>>, Registry}
      BY <2>1 DEF chartVars, FeedIInv, SelectionTyped
    <3> QED  BY <2>1, <3>1, SameFeed DEF chartVars
  <2>2. StreamSteps => FeedIInv'
    BY StreamFeed
  <2> QED  BY <2>1, <2>2, SelectFeed, AnswerFeed, ServeFeed DEF ChartsNext, Answer, StreamSteps
<1>3. FeedIInv => ChartsInv
  <2> SUFFICES ASSUME FeedIInv PROVE ChartsInv
    OBVIOUS
  <2>1. ChartsTypeOK
    BY DEF FeedIInv, ChartsIInv, SelectionTyped, SeriesTyped, LastAsk, LiveAsks, ChartsTypeOK
  <2>2. TailFollowsFeed
    BY DEF FeedIInv, NewestLast, TailFollowsFeed
  <2>3. LostOnlyInFlight
    BY DEF FeedIInv, SeriesComplete, LacksLost, LostOnlyInFlight
  <2> QED  BY <2>1, <2>2, <2>3 DEF ChartsInv
<1> QED  BY <1>1, <1>2, <1>3, PTL DEF ChartsSpec

-----------------------------------------------------------------------------
(* Sums. *)

\* Induction, for a set of numbers: it holds all of them.
LEMMA AllNumbers ==
  ASSUME NEW G, 0 \in G, \A n \in Nat : n \in G => n + 1 \in G
  PROVE  \A n \in Nat : n \in G
<1> DEFINE Bad == Nat \ G
<1> SUFFICES ASSUME Bad # {} PROVE FALSE
  OBVIOUS
<1>1. PICK n \in Bad : \A k \in Bad : n <= k
  <2>1. Bad \subseteq Nat
    OBVIOUS
  <2> HIDE DEF Bad
  <2> QED  BY <2>1, LeastNumber
<1>2. n \in Nat /\ n \notin G /\ n # 0
  BY <1>1
<1>3. n - 1 \in Nat /\ (n - 1) + 1 = n /\ ~(n <= n - 1)
  BY <1>2
<1>4. n - 1 \in G
  BY <1>1, <1>3
<1> QED  BY <1>2, <1>3, <1>4

\* The recursive function of a sum of n terms.
IsSum(t, f, n) == t = [k \in 0..n |-> IF k = 0 THEN 0 ELSE t[k - 1] + f[k]]

\* There is one.
LEMMA SumExists ==
  ASSUME NEW f, NEW n \in Nat
  PROVE  \E t : IsSum(t, f, n)
<1> DEFINE G == {m \in Nat : \E t : IsSum(t, f, m)}
<1>1. 0 \in G
  <2> DEFINE t == [k \in 0..0 |-> 0]
  <2>1. IsSum(t, f, 0)
    BY DEF IsSum
  <2> QED  BY <2>1
<1>2. ASSUME NEW m \in Nat, m \in G PROVE m + 1 \in G
  <2>1. PICK t : IsSum(t, f, m)
    BY <1>2
  <2> DEFINE u == [k \in 0..(m + 1) |-> IF k = m + 1 THEN t[m] + f[m + 1] ELSE t[k]]
  <2>2. \A k \in 0..(m + 1) : u[k] = IF k = 0 THEN 0 ELSE u[k - 1] + f[k]
    <3> SUFFICES ASSUME NEW k \in 0..(m + 1) PROVE u[k] = IF k = 0 THEN 0 ELSE u[k - 1] + f[k]
      OBVIOUS
    <3>1. CASE k = m + 1
      <4>1. k # 0 /\ k - 1 = m /\ m \in 0..(m + 1) /\ m # m + 1
        BY <3>1
      <4> QED  BY <3>1, <4>1
    <3>2. CASE k # m + 1
      <4>1. k \in 0..m /\ u[k] = t[k]
        BY <3>2
      <4>2. k # 0 => k - 1 \in 0..(m + 1) /\ k - 1 # m + 1
        BY <4>1
      <4>3. t[k] = IF k = 0 THEN 0 ELSE t[k - 1] + f[k]
        BY <2>1, <4>1 DEF IsSum
      <4> QED  BY <4>1, <4>2, <4>3
    <3> QED  BY <3>1, <3>2
  <2>3. IsSum(u, f, m + 1)
    <3>1. u = [k \in 0..(m + 1) |-> u[k]]
      OBVIOUS
    <3> HIDE DEF u
    <3> QED  BY <2>2, <3>1 DEF IsSum
  <2> HIDE DEF u
  <2> QED  BY <2>3
<1> HIDE DEF G
<1>3. n \in G
  BY <1>1, <1>2, AllNumbers
<1> QED  BY <1>3 DEF G

\* Two of them agree as far as both go.
LEMMA SumUnique ==
  ASSUME NEW f, NEW n \in Nat, NEW m \in Nat, n <= m, NEW t, IsSum(t, f, n), NEW u, IsSum(u, f, m)
  PROVE  t[n] = u[n]
<1> DEFINE G == {k \in Nat : k <= n => t[k] = u[k]}
<1>1. 0 \in G
  BY DEF IsSum
<1>2. ASSUME NEW k \in Nat, k \in G PROVE k + 1 \in G
  <2> SUFFICES ASSUME k + 1 <= n PROVE t[k + 1] = u[k + 1]
    OBVIOUS
  <2>1. k + 1 \in 0..n /\ k + 1 \in 0..m /\ k + 1 # 0 /\ (k + 1) - 1 = k /\ k <= n
    OBVIOUS
  <2>2. t[k + 1] = t[k] + f[k + 1]
    BY <2>1 DEF IsSum
  <2>3. u[k + 1] = u[k] + f[k + 1]
    BY <2>1 DEF IsSum
  <2> QED  BY <1>2, <2>1, <2>2, <2>3
<1> HIDE DEF G
<1>3. n \in G
  BY <1>1, <1>2, AllNumbers
<1> QED  BY <1>3 DEF G

\* A sum of no terms, and of one more.
LEMMA SumSteps ==
  ASSUME NEW f
  PROVE  /\ SumTo(f, 0) = 0
         /\ \A n \in Nat : SumTo(f, n + 1) = SumTo(f, n) + f[n + 1]
<1>1. ASSUME NEW n \in Nat PROVE \E t : IsSum(t, f, n) /\ SumTo(f, n) = t[n]
  <2> DEFINE t == CHOOSE t : IsSum(t, f, n)
  <2>1. IsSum(t, f, n)
    BY SumExists
  <2>2. SumTo(f, n) = t[n]
    BY DEF SumTo, IsSum
  <2> HIDE DEF t
  <2> QED  BY <2>1, <2>2
<1>2. SumTo(f, 0) = 0
  BY <1>1 DEF IsSum
<1>3. ASSUME NEW n \in Nat PROVE SumTo(f, n + 1) = SumTo(f, n) + f[n + 1]
  <2>1. n + 1 \in Nat /\ n <= n + 1 /\ n + 1 \in 0..(n + 1) /\ n + 1 # 0 /\ (n + 1) - 1 = n
    OBVIOUS
  <2>2. PICK t : IsSum(t, f, n) /\ SumTo(f, n) = t[n]
    BY <1>1
  <2>3. PICK u : IsSum(u, f, n + 1) /\ SumTo(f, n + 1) = u[n + 1]
    BY <1>1, <2>1
  <2>4. t[n] = u[n]
    BY <2>1, <2>2, <2>3, SumUnique
  <2>5. u[n + 1] = u[n] + f[n + 1]
    BY <2>1, <2>3 DEF IsSum
  <2> QED  BY <2>2, <2>3, <2>4, <2>5
<1> QED  BY <1>2, <1>3

\* Of integers it is one.
LEMMA SumInt ==
  ASSUME NEW f, NEW n \in Nat, \A k \in 1..n : f[k] \in Int
  PROVE  SumTo(f, n) \in Int
<1> DEFINE G == {k \in Nat : k <= n => SumTo(f, k) \in Int}
<1>1. 0 \in G
  BY SumSteps
<1>2. ASSUME NEW k \in Nat, k \in G PROVE k + 1 \in G
  <2> SUFFICES ASSUME k + 1 <= n PROVE SumTo(f, k + 1) \in Int
    OBVIOUS
  <2>1. k + 1 \in 1..n /\ k <= n
    OBVIOUS
  <2> QED  BY <1>2, <2>1, SumSteps
<1> HIDE DEF G
<1>3. n \in G
  BY <1>1, <1>2, AllNumbers
<1> QED  BY <1>3 DEF G

\* Terms that are equal have equal sums.
LEMMA SumSame ==
  ASSUME NEW f, NEW g, NEW n \in Nat, \A k \in 1..n : f[k] = g[k]
  PROVE  SumTo(f, n) = SumTo(g, n)
<1> DEFINE G == {k \in Nat : k <= n => SumTo(f, k) = SumTo(g, k)}
<1>1. 0 \in G
  BY SumSteps
<1>2. ASSUME NEW k \in Nat, k \in G PROVE k + 1 \in G
  <2> SUFFICES ASSUME k + 1 <= n PROVE SumTo(f, k + 1) = SumTo(g, k + 1)
    OBVIOUS
  <2>1. k + 1 \in 1..n /\ k <= n
    OBVIOUS
  <2> QED  BY <1>2, <2>1, SumSteps
<1> HIDE DEF G
<1>3. n \in G
  BY <1>1, <1>2, AllNumbers
<1> QED  BY <1>3 DEF G

\* h is c times f and d times g, term by term.
Linear(c, f, d, g, h, n) ==
  /\ c \in Int /\ d \in Int
  /\ \A k \in 1..n : f[k] \in Int /\ g[k] \in Int /\ h[k] = c * f[k] + d * g[k]

\* So is its sum.
LEMMA SumAdds ==
  ASSUME NEW c, NEW f, NEW d, NEW g, NEW h, NEW n \in Nat, Linear(c, f, d, g, h, n)
  PROVE  SumTo(h, n) = c * SumTo(f, n) + d * SumTo(g, n)
<1> USE DEF Linear
<1> DEFINE G == {k \in Nat : k <= n => SumTo(h, k) = c * SumTo(f, k) + d * SumTo(g, k)}
<1>1. 0 \in G
  BY SumSteps
<1>2. ASSUME NEW k \in Nat, k \in G PROVE k + 1 \in G
  <2> SUFFICES ASSUME k + 1 <= n PROVE SumTo(h, k + 1) = c * SumTo(f, k + 1) + d * SumTo(g, k + 1)
    OBVIOUS
  <2>1. k + 1 \in 1..n /\ k <= n
    OBVIOUS
  <2> DEFINE a == SumTo(f, k)
             b == SumTo(g, k)
             x == f[k + 1]
             y == g[k + 1]
  <2>2. a \in Int /\ b \in Int
    <3>1. \A j \in 1..k : j \in 1..n
      BY <2>1
    <3> QED  BY <3>1, SumInt
  <2>3. x \in Int /\ y \in Int /\ h[k + 1] = c * x + d * y
    BY <2>1
  <2>4. SumTo(f, k + 1) = a + x /\ SumTo(g, k + 1) = b + y /\ SumTo(h, k + 1) = SumTo(h, k) + h[k + 1]
    BY SumSteps
  <2>5. SumTo(h, k) = c * a + d * b
    BY <1>2, <2>1
  <2> HIDE DEF a, b, x, y
  <2>6. (c * a + d * b) + (c * x + d * y) = c * (a + x) + d * (b + y)
    BY <2>2, <2>3
  <2> QED  BY <2>3, <2>4, <2>5, <2>6
<1> HIDE DEF G
<1>3. n \in G
  BY <1>1, <1>2, AllNumbers
<1> QED  BY <1>3 DEF G

\* Terms that are no greater have no greater sum.
LEMMA SumLeq ==
  ASSUME NEW f, NEW g, NEW n \in Nat, \A k \in 1..n : f[k] \in Int /\ g[k] \in Int /\ f[k] <= g[k]
  PROVE  SumTo(f, n) <= SumTo(g, n)
<1> DEFINE G == {k \in Nat : k <= n => SumTo(f, k) <= SumTo(g, k)}
<1>1. 0 \in G
  BY SumSteps
<1>2. ASSUME NEW k \in Nat, k \in G PROVE k + 1 \in G
  <2> SUFFICES ASSUME k + 1 <= n PROVE SumTo(f, k + 1) <= SumTo(g, k + 1)
    OBVIOUS
  <2>1. k + 1 \in 1..n /\ k <= n /\ \A j \in 1..k : j \in 1..n
    OBVIOUS
  <2>2. SumTo(f, k) \in Int /\ SumTo(g, k) \in Int
    BY <2>1, SumInt
  <2>3. /\ SumTo(f, k + 1) = SumTo(f, k) + f[k + 1] /\ SumTo(g, k + 1) = SumTo(g, k) + g[k + 1]
        /\ f[k + 1] \in Int /\ g[k + 1] \in Int /\ f[k + 1] <= g[k + 1]
    BY <2>1, SumSteps
  <2>4. SumTo(f, k) <= SumTo(g, k)
    BY <1>2, <2>1
  <2> QED  BY <2>2, <2>3, <2>4
<1> HIDE DEF G
<1>3. n \in G
  BY <1>1, <1>2, AllNumbers
<1> QED  BY <1>3 DEF G

\* The sum of the sums.
LEMMA SumPlus ==
  ASSUME NEW f, NEW g, NEW h, NEW n \in Nat,
         \A k \in 1..n : f[k] \in Int /\ g[k] \in Int /\ h[k] = f[k] + g[k]
  PROVE  SumTo(h, n) = SumTo(f, n) + SumTo(g, n)
<1>1. PICK c \in Int : c = 1
  OBVIOUS
<1>2. Linear(c, f, c, g, h, n) /\ \A k \in 1..n : f[k] \in Int /\ g[k] \in Int
  BY <1>1 DEF Linear
<1>3. SumTo(h, n) = c * SumTo(f, n) + c * SumTo(g, n) /\ SumTo(f, n) \in Int /\ SumTo(g, n) \in Int
  BY <1>2, SumAdds, SumInt
<1> QED  BY <1>1, <1>3

\* Of zeros it is zero.
LEMMA SumZero ==
  ASSUME NEW f, NEW n \in Nat, \A k \in 1..n : f[k] = 0
  PROVE  SumTo(f, n) = 0
<1>1. PICK c \in Int : c = 0
  OBVIOUS
<1>2. Linear(c, f, c, f, f, n) /\ \A k \in 1..n : f[k] \in Int
  BY <1>1 DEF Linear
<1>3. SumTo(f, n) = c * SumTo(f, n) + c * SumTo(f, n) /\ SumTo(f, n) \in Int
  BY <1>2, SumAdds, SumInt
<1> QED  BY <1>1, <1>3

\* One term alone.
LEMMA SumOne ==
  ASSUME NEW f, NEW n \in Nat, NEW x \in 1..n, f[x] \in Int,
         \A k \in 1..n : k # x => f[k] = 0
  PROVE  SumTo(f, n) = f[x]
<1> DEFINE G == {k \in Nat : k <= n => SumTo(f, k) = IF x <= k THEN f[x] ELSE 0}
<1>1. 0 \in G
  BY SumSteps
<1>2. ASSUME NEW k \in Nat, k \in G PROVE k + 1 \in G
  <2> SUFFICES ASSUME k + 1 <= n PROVE SumTo(f, k + 1) = IF x <= k + 1 THEN f[x] ELSE 0
    OBVIOUS
  <2>1. k + 1 \in 1..n /\ k <= n
    OBVIOUS
  <2>2. SumTo(f, k + 1) = SumTo(f, k) + f[k + 1]
    BY SumSteps
  <2>3. SumTo(f, k) = IF x <= k THEN f[x] ELSE 0
    BY <1>2, <2>1
  <2>4. CASE x = k + 1
    BY <2>2, <2>3, <2>4
  <2>5. CASE x # k + 1
    <3>1. f[k + 1] = 0 /\ (x <= k + 1 <=> x <= k)
      BY <2>1, <2>5
    <3> QED  BY <2>2, <2>3, <3>1
  <2> QED  BY <2>4, <2>5
<1> HIDE DEF G
<1>3. n \in G
  BY <1>1, <1>2, AllNumbers
<1> QED  BY <1>3 DEF G

-----------------------------------------------------------------------------
(* MarketViews: sums over coins. *)

\* The coins are numbered.
LEMMA Numbered ==
  /\ CoinAt = 1..Len(Tracked) /\ Len(Tracked) \in Nat /\ CoinAt \subseteq Nat
  /\ IsFiniteSet(CoinAt)
<1>1. CoinAt = 1..Len(Tracked) /\ Len(Tracked) \in Nat
  BY ViewsAssumption DEF CoinAt
<1> QED  BY <1>1, FS_Interval

\* f on the coins of S.
Part(S, f) == [i \in CoinAt |-> IF i \in S THEN f[i] ELSE 0]

\* Of numbers it is one.
LEMMA OverInt ==
  ASSUME NEW S, NEW f, \A i \in CoinAt : i \in S => f[i] \in Int
  PROVE  SumOver(S, f) \in Int
<1> DEFINE p == Part(S, f)
<1>1. \A k \in 1..Len(Tracked) : p[k] \in Int
  BY Numbered DEF Part
<1>2. SumOver(S, f) = SumTo(p, Len(Tracked))
  BY DEF SumOver, Part
<1> HIDE DEF p
<1> QED  BY <1>1, <1>2, Numbered, SumInt

\* Over two sets without a coin in common.
LEMMA OverSplits ==
  ASSUME NEW A, NEW B, A \cap B = {}, NEW f, \A i \in CoinAt : i \in A \cup B => f[i] \in Int
  PROVE  SumOver(A \cup B, f) = SumOver(A, f) + SumOver(B, f)
<1> DEFINE p == Part(A, f)
           q == Part(B, f)
           r == Part(A \cup B, f)
<1>1. \A k \in 1..Len(Tracked) : p[k] \in Int /\ q[k] \in Int /\ r[k] = p[k] + q[k]
  BY Numbered DEF Part
<1>2. /\ SumOver(A, f) = SumTo(p, Len(Tracked)) /\ SumOver(B, f) = SumTo(q, Len(Tracked))
      /\ SumOver(A \cup B, f) = SumTo(r, Len(Tracked))
  BY DEF SumOver, Part
<1> HIDE DEF p, q, r
<1> QED  BY <1>1, <1>2, Numbered, SumPlus

\* Over one coin.
LEMMA OverOne ==
  ASSUME NEW x \in CoinAt, NEW f, f[x] \in Int
  PROVE  SumOver({x}, f) = f[x]
<1> DEFINE p == Part({x}, f)
<1>1. p[x] = f[x] /\ \A k \in 1..Len(Tracked) : k # x => p[k] = 0
  BY Numbered DEF Part
<1>2. SumOver({x}, f) = SumTo(p, Len(Tracked))
  BY DEF SumOver, Part
<1> HIDE DEF p
<1> QED  BY <1>1, <1>2, Numbered, SumOne

\* Over no coin, and over coins of one sign.
LEMMA OverEmpty ==
  ASSUME NEW f
  PROVE  SumOver({}, f) = 0
<1> DEFINE p == Part({}, f)
<1>1. \A k \in 1..Len(Tracked) : p[k] = 0
  BY Numbered DEF Part
<1>2. SumOver({}, f) = SumTo(p, Len(Tracked))
  BY DEF SumOver, Part
<1> HIDE DEF p
<1> QED  BY <1>1, <1>2, Numbered, SumZero

\* It has the sign that all of its terms have.
LEMMA OverSign ==
  ASSUME NEW S, NEW f, \A i \in CoinAt : i \in S => f[i] \in Int
  PROVE  /\ (\A i \in CoinAt : i \in S => f[i] >= 0) => SumOver(S, f) >= 0
         /\ (\A i \in CoinAt : i \in S => f[i] <= 0) => SumOver(S, f) <= 0
<1> DEFINE p == Part(S, f)
           z == [k \in CoinAt |-> 0]
           N == Len(Tracked)
<1>1. \A k \in 1..N : p[k] \in Int /\ z[k] = 0 /\ z[k] \in Int
  BY Numbered DEF Part
<1>2. SumOver(S, f) = SumTo(p, N)
  BY DEF SumOver, Part
<1>3. /\ (\A i \in CoinAt : i \in S => f[i] >= 0) => \A k \in 1..N : z[k] <= p[k]
      /\ (\A i \in CoinAt : i \in S => f[i] <= 0) => \A k \in 1..N : p[k] <= z[k]
  BY Numbered DEF Part
<1>4. N \in Nat
  BY Numbered
<1> HIDE DEF p, z, N
<1>5. SumTo(z, N) = 0
  BY <1>1, <1>4, SumZero
<1>6. (\A k \in 1..N : z[k] <= p[k]) => SumTo(z, N) <= SumTo(p, N)
  BY <1>1, <1>4, SumLeq
<1>7. (\A k \in 1..N : p[k] <= z[k]) => SumTo(p, N) <= SumTo(z, N)
  BY <1>1, <1>4, SumLeq
<1>8. SumTo(p, N) \in Int
  BY <1>1, <1>4, SumInt
<1> QED  BY <1>2, <1>3, <1>5, <1>6, <1>7, <1>8

-----------------------------------------------------------------------------
(* MarketViews: sorting. *)

\* R puts the elements of S in one order.
Orders(R, S) ==
  /\ \A i, j \in S : i # j => <<i, j>> \in R \/ <<j, i>> \in R
  /\ \A i \in S : <<i, i>> \notin R
  /\ \A i, j, k \in S : <<i, j>> \in R /\ <<j, k>> \in R => <<i, k>> \in R

\* Then they can be listed: the place of each is how many are before it.
LEMMA SortedLists ==
  ASSUME NEW S, IsFiniteSet(S), NEW R, Orders(R, S)
  PROVE  LET q == Sorted(S, R)
             n == Cardinality(S)
         IN  /\ n \in Nat /\ q \in [1..n -> S] /\ q \in Seq(S) /\ Len(q) = n
             /\ \A i \in S : \E m \in 1..n : q[m] = i
             /\ \A l, m \in 1..n : l < m => q[l] # q[m] /\ <<q[l], q[m]>> \in R
<1> DEFINE n == Cardinality(S)
           Ahead(i) == {j \in S : <<j, i>> \in R}
           place == [i \in S |-> 1 + Cardinality(Ahead(i))]
<1>1. n \in Nat
  BY FS_CardinalityType
<1>2. \A i \in S : /\ IsFiniteSet(Ahead(i)) /\ Cardinality(Ahead(i)) \in Nat
                   /\ Cardinality(Ahead(i)) < n
  <2> SUFFICES ASSUME NEW i \in S
               PROVE  /\ IsFiniteSet(Ahead(i)) /\ Cardinality(Ahead(i)) \in Nat
                      /\ Cardinality(Ahead(i)) < n
    OBVIOUS
  <2>1. Ahead(i) \in SUBSET S /\ i \notin Ahead(i)
    BY DEF Orders
  <2> HIDE DEF Ahead
  <2>2. /\ IsFiniteSet(Ahead(i)) /\ Cardinality(Ahead(i)) <= n
        /\ n = Cardinality(Ahead(i)) => S = Ahead(i)
    BY <2>1, FS_Subset
  <2>3. Cardinality(Ahead(i)) \in Nat
    BY <2>2, FS_CardinalityType
  <2> QED  BY <1>1, <2>1, <2>2, <2>3
<1>3. \A i, j \in S : <<i, j>> \in R => Cardinality(Ahead(i)) < Cardinality(Ahead(j))
  <2> SUFFICES ASSUME NEW i \in S, NEW j \in S, <<i, j>> \in R
               PROVE  Cardinality(Ahead(i)) < Cardinality(Ahead(j))
    OBVIOUS
  <2>1. Ahead(i) \in SUBSET Ahead(j) /\ i \in Ahead(j) /\ i \notin Ahead(i)
    BY DEF Orders
  <2>2. IsFiniteSet(Ahead(j)) /\ Cardinality(Ahead(i)) \in Nat /\ Cardinality(Ahead(j)) \in Nat
    BY <1>2
  <2> HIDE DEF Ahead
  <2>3. /\ Cardinality(Ahead(i)) <= Cardinality(Ahead(j))
        /\ Cardinality(Ahead(j)) = Cardinality(Ahead(i)) => Ahead(j) = Ahead(i)
    BY <2>1, <2>2, FS_Subset
  <2> QED  BY <2>1, <2>2, <2>3
<1>4. \A i \in S : place[i] \in 1..n
  BY <1>1, <1>2
<1>5. \A i, j \in S : <<i, j>> \in R => place[i] < place[j]
  <2> SUFFICES ASSUME NEW i \in S, NEW j \in S, <<i, j>> \in R PROVE place[i] < place[j]
    OBVIOUS
  <2>1. /\ Cardinality(Ahead(i)) < Cardinality(Ahead(j))
        /\ Cardinality(Ahead(i)) \in Nat /\ Cardinality(Ahead(j)) \in Nat
    BY <1>2, <1>3
  <2>2. place[i] = 1 + Cardinality(Ahead(i)) /\ place[j] = 1 + Cardinality(Ahead(j))
    OBVIOUS
  <2> HIDE DEF place, Ahead
  <2> QED  BY <2>1, <2>2
<1>6. place \in [S -> 1..n]
  BY <1>4
<1> HIDE DEF place, Ahead
<1>7. \A i, j \in S : i # j => place[i] # place[j]
  <2> SUFFICES ASSUME NEW i \in S, NEW j \in S, i # j PROVE place[i] # place[j]
    OBVIOUS
  <2>1. place[i] < place[j] \/ place[j] < place[i]
    BY <1>5 DEF Orders
  <2>2. place[i] \in Int /\ place[j] \in Int
    BY <1>4
  <2> QED  BY <2>1, <2>2
<1>8. place \in Injection(S, 1..n)
  BY <1>6, <1>7 DEF Injection, IsInjective
<1>9. IsFiniteSet(1..n) /\ Cardinality(1..n) = n
  <2>1. 1 \in Int /\ n \in Int
    BY <1>1
  <2>2. IsFiniteSet(1..n) /\ Cardinality(1..n) = IF 1 > n THEN 0 ELSE n - 1 + 1
    BY <2>1, FS_Interval
  <2> QED  BY <1>1, <2>2
<1>10. place \in Surjection(S, 1..n)
  <2> HIDE DEF n
  <2>1. Cardinality(S) = Cardinality(1..n)
    BY <1>9 DEF n
  <2> QED  BY <1>8, <1>9, <2>1, FS_Injection
<1> DEFINE At(m) == CHOOSE i \in S : place[i] = m
           q == [m \in 1..n |-> At(m)]
<1>11. \A m \in 1..n : At(m) \in S /\ place[At(m)] = m
  BY <1>10 DEF Surjection
<1>12. q \in [1..n -> S] /\ \A m \in 1..n : q[m] \in S /\ place[q[m]] = m
  BY <1>11
<1> HIDE DEF q
<1>13. \A l, m \in 1..n : l < m => q[l] # q[m] /\ <<q[l], q[m]>> \in R
  <2> SUFFICES ASSUME NEW l \in 1..n, NEW m \in 1..n, l < m
               PROVE  q[l] # q[m] /\ <<q[l], q[m]>> \in R
    OBVIOUS
  <2>1. q[l] \in S /\ q[m] \in S /\ place[q[l]] < place[q[m]] /\ l \in Nat /\ m \in Nat
    BY <1>1, <1>12
  <2>2. q[l] # q[m]
    BY <1>12, <2>1
  <2>3. <<q[m], q[l]>> \notin R
    BY <1>5, <1>12, <2>1
  <2> QED  BY <2>1, <2>2, <2>3 DEF Orders
<1>14. q \in SetToSeqs(S) /\ \A l, m \in DOMAIN q : l < m => <<q[l], q[m]>> \in R
  <2>1. \A l, m \in 1..n : l # m => q[l] # q[m]
    BY <1>12
  <2>2. q \in SetToSeqs(S)
    BY <1>12, <2>1 DEF SetToSeqs, n
  <2>3. DOMAIN q = 1..n
    BY <1>12
  <2> HIDE DEF n
  <2> QED  BY <1>13, <2>2, <2>3
<1> DEFINE s == Sorted(S, R)
<1>15. s \in SetToSeqs(S) /\ \A l, m \in DOMAIN s : l < m => <<s[l], s[m]>> \in R
  BY <1>14 DEF Sorted
<1> HIDE DEF s
<1>16. s \in [1..n -> S] /\ \A l, m \in 1..n : l # m => s[l] # s[m]
  BY <1>15 DEF SetToSeqs
<1>17. s \in Seq(S) /\ Len(s) = n /\ DOMAIN s = 1..n
  <2>1. s \in Seq(S)
    BY <1>1, <1>16
  <2>2. Len(s) \in Nat /\ DOMAIN s = 1..Len(s) /\ DOMAIN s = 1..n
    BY <1>16, <2>1
  <2> QED  BY <1>1, <2>1, <2>2
<1>18. s \in Injection(1..n, S)
  BY <1>16 DEF Injection, IsInjective
<1>19. \A i \in S : \E m \in 1..n : s[m] = i
  <2>1. Cardinality(1..n) = Cardinality(S)
    BY <1>9
  <2> HIDE DEF n
  <2>2. s \in Surjection(1..n, S)
    BY <1>18, <2>1, FS_Injection
  <2> QED  BY <2>2 DEF Surjection
<1>20. \A l, m \in 1..n : l < m => s[l] # s[m] /\ <<s[l], s[m]>> \in R
  <2> SUFFICES ASSUME NEW l \in 1..n, NEW m \in 1..n, l < m
               PROVE  s[l] # s[m] /\ <<s[l], s[m]>> \in R
    OBVIOUS
  <2>1. l # m
    BY <1>1
  <2> QED  BY <1>15, <1>16, <1>17, <2>1
<1> QED  BY <1>1, <1>16, <1>17, <1>19, <1>20 DEF n, s

-----------------------------------------------------------------------------
(* MarketViews: the figures of any market, and the cards. *)

ViewsSpec == ViewsInit /\ [][ViewsNext]_viewVars

\* Capitalisations are natural numbers, and changes that are known are numbers.
LEMMA Figures ==
  ASSUME ViewsTypeOK
  PROVE  \A i \in CoinAt : /\ Cap[i] = market[i].cap /\ Cap[i] \in Nat
                           /\ Chg[i] = market[i].chg /\ (Chg[i] # Unknown => Chg[i] \in Int)
<1> SUFFICES ASSUME NEW i \in CoinAt
             PROVE  /\ Cap[i] = market[i].cap /\ Cap[i] \in Nat
                    /\ Chg[i] = market[i].chg /\ (Chg[i] # Unknown => Chg[i] \in Int)
  OBVIOUS
<1>1. market[i] \in [cap : 0..TopCap, chg : Changes \cup {Unknown}]
  BY DEF ViewsTypeOK
<1>2. market[i].cap \in Nat /\ market[i].chg \in Changes \cup {Unknown}
  BY <1>1, ViewsAssumption
<1> QED  BY <1>2, ViewsAssumption DEF Cap, Chg

Capped  == {i \in CoinAt : market[i].cap > 0}
Changed == {i \in CoinAt : market[i].chg # Unknown}
Risers  == {i \in Changed : market[i].chg >= 0}

\* How many coins have a change, and how many of them rise.
LEMMA Counted ==
  /\ IsFiniteSet(Capped) /\ IsFiniteSet(Changed) /\ IsFiniteSet(Risers)
  /\ Cardinality(Changed) \in Nat /\ Cardinality(Risers) \in Nat
  /\ Cardinality(Risers) <= Cardinality(Changed)
  /\ Cardinality(Risers) = Cardinality(Changed) => Risers = Changed
  /\ Cardinality(Risers) = 0 => Risers = {}
  /\ Cardinality(Changed) = 0 => Changed = {}
  /\ Advancing = Cardinality(Risers) /\ Declining = Cardinality(Changed) - Cardinality(Risers)
<1>1. Capped \in SUBSET CoinAt /\ Changed \in SUBSET CoinAt /\ Risers \in SUBSET Changed
  BY DEF Capped, Changed, Risers
<1>2. IsFiniteSet(Capped) /\ IsFiniteSet(Changed) /\ IsFiniteSet(Risers)
  BY <1>1, Numbered, FS_Subset
<1>3. /\ Cardinality(Risers) <= Cardinality(Changed)
      /\ Cardinality(Risers) = Cardinality(Changed) => Risers = Changed
  BY <1>1, <1>2, FS_Subset
<1>4. {i \in CoinAt : market[i].chg # Unknown /\ market[i].chg >= 0} = Risers
  BY DEF Risers, Changed
<1>5. Advancing = Cardinality(Risers) /\ Declining = Cardinality(Changed) - Cardinality(Risers)
  BY <1>4 DEF Advancing, Declining, Changed
<1> QED  BY <1>2, <1>3, <1>5, FS_CardinalityType, FS_EmptySet

\* The index against the signs of the changes.
LEMMA FearIsSound ==
  ASSUME ViewsTypeOK
  PROVE  FearFollowsMarket
<1> DEFINE A == Advancing
           D == Declining
           s == SumOver(Changed, Chg)
           c == Cardinality(Changed)
           n == IF c = 0 THEN 1 ELSE c
           raw == (2 * (50 * n + 9 * s + 2 * n * (A - D)) + n) \div (2 * n)
<1>1. A \in Nat /\ D \in Nat /\ c \in Nat /\ A + D = c
  BY Counted
<1>2. \A i \in Changed : i \in CoinAt /\ Chg[i] \in Int /\ Chg[i] = market[i].chg
  BY Figures DEF Changed
<1>3. s \in Int
  BY <1>2, OverInt
<1>4. D = 0 => s >= 0
  <2> SUFFICES ASSUME D = 0 PROVE s >= 0
    OBVIOUS
  <2>1. Risers = Changed
    BY <1>1, Counted
  <2>2. \A i \in CoinAt : i \in Changed => Chg[i] >= 0
    BY <1>2, <2>1 DEF Risers
  <2> QED  BY <1>2, <2>2, OverSign
<1>5. A = 0 => s <= 0
  <2> SUFFICES ASSUME A = 0 PROVE s <= 0
    OBVIOUS
  <2>1. Risers = {}
    BY Counted
  <2>2. \A i \in CoinAt : i \in Changed => Chg[i] <= 0
    BY <1>2, <2>1 DEF Risers
  <2> QED  BY <1>2, <2>2, OverSign
<1>6. AvgMove = <<s, c>>
  BY <1>1 DEF AvgMove, Changed
<1>7. Fear = IF raw < 2 THEN 2 ELSE IF raw > 98 THEN 98 ELSE raw
  BY <1>6 DEF Fear
<1> HIDE DEF A, D, s, c
<1>8. n \in Nat /\ n >= 1 /\ 2 * n \in Nat /\ 2 * n > 0
  BY <1>1
<1> HIDE DEF n
<1>9. 2 * n * (A - D) \in Int /\ (D = 0 => 2 * n * (A - D) >= 0) /\ (A = 0 => 2 * n * (A - D) <= 0)
  BY <1>1, <1>8
<1> DEFINE top == 2 * (50 * n + 9 * s + 2 * n * (A - D)) + n
           q == 2 * n
<1>10. /\ top \in Int /\ q \in Nat /\ q > 0
       /\ D = 0 => top >= 50 * q
       /\ A = 0 => top < 51 * q
  BY <1>3, <1>4, <1>5, <1>8, <1>9
<1>11. raw = top \div q
  OBVIOUS
<1> HIDE DEF raw, top, q
<1>12. top \div q \in Int /\ q * (top \div q) <= top /\ top < q * (top \div q) + q
  BY <1>10
<1>13. (D = 0 => raw >= 50) /\ (A = 0 => raw <= 50) /\ raw \in Int
  <2> DEFINE x == top \div q
  <2>1. x \in Int /\ q * x <= top /\ top < q * x + q
    BY <1>12
  <2> HIDE DEF x
  <2>2. ASSUME x <= 49, D = 0 PROVE FALSE
    <3>1. q * x + q = q * (x + 1) /\ q * (x + 1) <= q * 50
      BY <1>10, <2>1, <2>2
    <3> QED  BY <1>10, <2>1, <2>2, <3>1
  <2>3. ASSUME x >= 51, A = 0 PROVE FALSE
    <3>1. q * 51 <= q * x
      BY <1>10, <2>1, <2>3
    <3> QED  BY <1>10, <2>1, <2>3, <3>1
  <2> QED  BY <1>11, <2>1, <2>2, <2>3 DEF x
<1> QED  BY <1>7, <1>13 DEF FearFollowsMarket, A, D

\* The donut: the sizes of its slices add up to the market's.
LEMMA DonutIsWhole ==
  ASSUME ViewsTypeOK
  PROVE  Total(Slices) = SumOver(Capped, Cap) /\ Len(Slices) <= Donut + 1
<1> DEFINE sorted == Sorted(Capped, ByCap)
           n == Cardinality(Capped)
           k == IF n < Donut THEN n ELSE Donut
           First(m) == {sorted[j] : j \in 1..m}
           rest == {sorted[j] : j \in (Donut + 1)..n}
           size == [j \in 1..n |-> Cap[sorted[j]]]
           top == [j \in 1..k |-> Cap[sorted[j]]]
           other == SumOver(rest, Cap)
<1>1. Orders(ByCap, Capped)
  <2>1. \A i \in Capped : i \in CoinAt /\ Cap[i] \in Nat /\ i \in Nat
    BY Figures, Numbered DEF Capped
  <2>2. \A i, j \in Capped : <<i, j>> \in ByCap <=> Cap[i] > Cap[j] \/ (Cap[i] = Cap[j] /\ i < j)
    BY <2>1 DEF ByCap
  <2> QED  BY <2>1, <2>2 DEF Orders
<1>2. /\ n \in Nat /\ sorted \in [1..n -> Capped] /\ Len(sorted) = n
      /\ \A i \in Capped : \E m \in 1..n : sorted[m] = i
      /\ \A l, m \in 1..n : l < m => sorted[l] # sorted[m]
  <2>1. IsFiniteSet(Capped)
    BY Counted
  <2>2. /\ n \in Nat /\ sorted \in [1..n -> Capped] /\ sorted \in Seq(Capped) /\ Len(sorted) = n
        /\ \A i \in Capped : \E m \in 1..n : sorted[m] = i
        /\ \A l, m \in 1..n : l < m => sorted[l] # sorted[m] /\ <<sorted[l], sorted[m]>> \in ByCap
    BY <1>1, <2>1, SortedLists
  <2> QED  BY <2>2
<1>3. /\ Donut \in Nat /\ k \in Nat /\ k <= n /\ k <= Donut /\ (k = n \/ k = Donut)
  BY <1>2, ViewsAssumption
<1>4. Slices = IF other > 0 THEN Append(top, other) ELSE top
  BY <1>2 DEF Slices, Capped
<1>5. \A j \in 1..n : sorted[j] \in Capped /\ sorted[j] \in CoinAt /\ Cap[sorted[j]] \in Nat
  BY <1>2, Figures DEF Capped
<1>6. \A i \in CoinAt : Cap[i] \in Int /\ Cap[i] \in Nat
  BY Figures
<1> HIDE DEF sorted, n, k
<1>7. \A m \in Nat : m <= n => SumTo(size, m) = SumOver(First(m), Cap)
  <2> DEFINE G == {m \in Nat : m <= n => SumTo(size, m) = SumOver(First(m), Cap)}
  <2>1. 0 \in G
    <3>1. First(0) = {}
      OBVIOUS
    <3> QED  BY <3>1, SumSteps, OverEmpty
  <2>2. ASSUME NEW m \in Nat, m \in G PROVE m + 1 \in G
    <3> SUFFICES ASSUME m + 1 <= n PROVE SumTo(size, m + 1) = SumOver(First(m + 1), Cap)
      OBVIOUS
    <3>1. m + 1 \in 1..n /\ m <= n /\ \A j \in 1..m : j \in 1..n /\ j < m + 1
      BY <1>2
    <3> DEFINE x == sorted[m + 1]
    <3>2. x \in CoinAt /\ Cap[x] \in Int /\ size[m + 1] = Cap[x]
      BY <1>5, <1>6, <3>1
    <3>3. First(m + 1) = First(m) \cup {x}
      <4>1. \A j : j \in 1..(m + 1) <=> j \in 1..m \/ j = m + 1
        OBVIOUS
      <4> QED  BY <4>1
    <3>4. First(m) \cap {x} = {}
      BY <1>2, <3>1
    <3>5. SumTo(size, m + 1) = SumTo(size, m) + size[m + 1]
      BY SumSteps
    <3>6. SumTo(size, m) = SumOver(First(m), Cap)
      BY <2>2, <3>1
    <3> HIDE DEF x, size, First
    <3>7. SumOver(First(m) \cup {x}, Cap) = SumOver(First(m), Cap) + SumOver({x}, Cap)
      BY <1>6, <3>4, OverSplits
    <3>8. SumOver({x}, Cap) = Cap[x]
      BY <3>2, OverOne
    <3> QED  BY <3>2, <3>3, <3>5, <3>6, <3>7, <3>8
  <2> HIDE DEF G
  <2>3. \A m \in Nat : m \in G
    BY <2>1, <2>2, AllNumbers
  <2> QED  BY <2>3 DEF G
<1>8. SumTo(top, k) = SumOver(First(k), Cap)
  <2>1. \A j \in 1..k : top[j] = size[j]
    BY <1>2, <1>3
  <2> HIDE DEF top, size
  <2>2. SumTo(top, k) = SumTo(size, k)
    BY <1>3, <2>1, SumSame
  <2> QED  BY <1>3, <1>7, <2>2
<1>9. Capped = First(k) \cup rest /\ First(k) \cap rest = {}
  <2>1. \A j : j \in 1..n <=> j \in 1..k \/ j \in (Donut + 1)..n
    BY <1>2, <1>3
  <2>2. \A i \in Capped : i \in First(k) \cup rest
    BY <1>2, <2>1
  <2>3. \A i \in First(k) \cup rest : i \in Capped
    BY <1>5, <2>1
  <2>4. \A j \in 1..k, l \in (Donut + 1)..n : j < l /\ j \in 1..n /\ l \in 1..n
    BY <1>2, <1>3
  <2>5. First(k) \cap rest = {}
    BY <1>2, <2>4
  <2> QED  BY <2>2, <2>3, <2>5
<1>10. /\ SumOver(Capped, Cap) = SumOver(First(k), Cap) + other
       /\ other \in Int /\ other >= 0 /\ SumOver(First(k), Cap) \in Int
  <2> HIDE DEF First, rest
  <2>1. SumOver(Capped, Cap) = SumOver(First(k), Cap) + other
    BY <1>6, <1>9, OverSplits
  <2>2. other >= 0
    BY <1>6, OverSign
  <2> QED  BY <1>6, <2>1, <2>2, OverInt
<1>11. top \in Seq(Int) /\ Len(top) = k
  <2>1. top \in [1..k -> Int]
    BY <1>2, <1>3, <1>5
  <2>2. top \in Seq(Int)
    BY <1>3, <2>1
  <2> HIDE DEF top
  <2>3. DOMAIN top = 1..k /\ DOMAIN top = 1..Len(top) /\ Len(top) \in Nat
    BY <2>1, <2>2
  <2> QED  BY <1>3, <2>2, <2>3
<1> HIDE DEF top, other
<1>12. CASE other > 0
  <2> DEFINE whole == Append(top, other)
  <2>1. Len(whole) = k + 1 /\ whole[k + 1] = other /\ \A j \in 1..k : whole[j] = top[j]
    BY <1>3, <1>10, <1>11
  <2> HIDE DEF whole
  <2>2. SumTo(whole, k) = SumTo(top, k)
    BY <1>3, <2>1, SumSame
  <2>3. SumTo(whole, k + 1) = SumTo(whole, k) + other
    BY <1>3, <2>1, SumSteps
  <2>4. Slices = whole
    BY <1>4, <1>12 DEF whole
  <2> QED  BY <1>3, <1>8, <1>10, <2>1, <2>2, <2>3, <2>4 DEF Total
<1>13. CASE ~(other > 0)
  <2>1. Slices = top /\ other = 0
    BY <1>4, <1>10, <1>13
  <2> QED  BY <1>3, <1>8, <1>10, <1>11, <2>1 DEF Total
<1> QED  BY <1>12, <1>13

\* The copies of the arithmetic agree.
LEMMA SummariesAreOne ==
  ASSUME ViewsTypeOK
  PROVE  SummariesAgree
<1> DEFINE btc == {i \in Capped : Tracked[i] = "BTC"}
<1>1. /\ Kpis.total = SumOver(Capped, Cap) /\ Kpis.up = Cardinality(Risers)
      /\ Kpis.avg = <<SumOver(Changed, Chg), Cardinality(Changed)>>
      /\ Kpis.dominance = SumOver(btc, Cap)
  BY DEF Kpis, Capped, Changed, Risers
<1>2. Kpis.up = Advancing /\ Kpis.avg = AvgMove
  BY <1>1, Counted DEF AvgMove, Changed
<1>3. \A i \in CoinAt : Cap[i] \in Int /\ Cap[i] >= 0
  BY Figures
<1>4. SumOver(btc, Cap) <= SumOver(Capped, Cap)
  <2> DEFINE others == Capped \ btc
  <2>1. Capped = btc \cup others /\ btc \cap others = {}
    OBVIOUS
  <2> HIDE DEF others, btc
  <2>2. SumOver(btc \cup others, Cap) = SumOver(btc, Cap) + SumOver(others, Cap)
    BY <1>3, <2>1, OverSplits
  <2>3. SumOver(others, Cap) >= 0 /\ SumOver(others, Cap) \in Int /\ SumOver(btc, Cap) \in Int
    BY <1>3, OverSign, OverInt
  <2> QED  BY <2>1, <2>2, <2>3
<1> QED  BY <1>1, <1>2, <1>4, DonutIsWhole DEF SummariesAgree

\* The sort key puts the coins in classes, one after another.
LEMMA KeysOrder ==
  ASSUME ViewsTypeOK
  PROVE  /\ \A i \in CoinAt : ~KeyBefore(i, i)
         /\ \A i, j, k \in CoinAt : KeyBefore(i, j) /\ KeyBefore(j, k) => KeyBefore(i, k)
         /\ \A i, j, k \in CoinAt : KeyBefore(i, k) => KeyBefore(i, j) \/ KeyBefore(j, k)
<1>1. \A i \in CoinAt : i \in Nat /\ market[i].cap \in Nat
  BY Figures, Numbered
<1>2. \A i \in CoinAt : table[i].chg # Unknown => table[i].chg \in Int
  BY ViewsAssumption DEF ViewsTypeOK
<1>3. \A i \in CoinAt : NamePlace(i) \in Int
  <2> SUFFICES ASSUME NEW i \in CoinAt PROVE NamePlace(i) \in Int
    OBVIOUS
  <2>1. Tracked[i] \in ToSet(Alphabet)
    BY ViewsAssumption DEF CoinAt, ToSet
  <2>2. \E n \in DOMAIN Alphabet : Alphabet[n] = Tracked[i]
    BY <2>1 DEF ToSet
  <2>3. DOMAIN Alphabet \subseteq Int
    BY ViewsAssumption
  <2> QED  BY <2>2, <2>3 DEF NamePlace
<1>4. CASE sort = "rank"
  BY <1>1, <1>4 DEF KeyBefore
<1>5. CASE sort = "name"
  BY <1>3, <1>5 DEF KeyBefore
<1>6. CASE sort = "mcap"
  BY <1>1, <1>6 DEF KeyBefore
<1>7. CASE sort = "change"
  BY <1>2, <1>7 DEF KeyBefore
<1> QED  BY <1>4, <1>5, <1>6, <1>7 DEF ViewsTypeOK

\* The coins of the table are listed, and a currency is visible.
TableListed == ToSet(byCoin) = Quoted(table)

\* The cards, while a currency is visible.
LEMMA CardsAreComplete ==
  ASSUME ViewsTypeOK, TableListed, visible # {}
  PROVE  CardsComplete
<1> DEFINE R == {p \in Passing \X Passing : CardBefore(p[1], p[2])}
           n == Cardinality(Passing)
<1>1. Passing \in SUBSET CoinAt /\ IsFiniteSet(Passing)
  <2>1. Passing \in SUBSET CoinAt
    BY DEF Passing, ViewsTypeOK
  <2> QED  BY <2>1, Numbered, FS_Subset
<1>2. \A i, j \in Passing : <<i, j>> \in R <=> CardBefore(i, j)
  OBVIOUS
<1>3. \A i \in Passing : Arrived(i) \in Int /\ byCoin[Arrived(i)] = i
  <2> SUFFICES ASSUME NEW i \in Passing PROVE Arrived(i) \in Int /\ byCoin[Arrived(i)] = i
    OBVIOUS
  <2>1. i \in ToSet(byCoin)
    BY DEF Passing
  <2>2. \E m \in DOMAIN byCoin : byCoin[m] = i
    BY <2>1 DEF ToSet
  <2>3. DOMAIN byCoin \subseteq Int
    BY DEF ViewsTypeOK
  <2> QED  BY <2>2, <2>3 DEF Arrived
<1>4. Orders(R, Passing)
  <2> HIDE DEF R
  <2>1. \A i, j \in Passing : i # j => CardBefore(i, j) \/ CardBefore(j, i)
    BY <1>3 DEF CardBefore
  <2>2. \A i \in Passing : ~CardBefore(i, i)
    BY <1>1, <1>3, KeysOrder DEF CardBefore
  <2>3. \A i, j, k \in Passing : CardBefore(i, j) /\ CardBefore(j, k) => CardBefore(i, k)
    <3> SUFFICES ASSUME NEW i \in Passing, NEW j \in Passing, NEW k \in Passing,
                        CardBefore(i, j), CardBefore(j, k)
                 PROVE  CardBefore(i, k)
      OBVIOUS
    <3>1. i \in CoinAt /\ j \in CoinAt /\ k \in CoinAt
      BY <1>1
    <3>2. /\ KeyBefore(i, j) /\ KeyBefore(j, k) => KeyBefore(i, k)
          /\ KeyBefore(i, j) => KeyBefore(i, k) \/ KeyBefore(k, j)
          /\ KeyBefore(j, k) => KeyBefore(j, i) \/ KeyBefore(i, k)
          /\ KeyBefore(k, i) => KeyBefore(k, j) \/ KeyBefore(j, i)
      BY <3>1, KeysOrder
    <3>3. Arrived(i) < Arrived(j) /\ Arrived(j) < Arrived(k) => Arrived(i) < Arrived(k)
      BY <1>3
    <3> QED  BY <3>2, <3>3, Zenon DEF CardBefore
  <2> QED  BY <1>2, <2>1, <2>2, <2>3 DEF Orders
<1>5. Cards = Sorted(Passing, R)
  BY DEF Cards
<1> HIDE DEF R
<1>6. /\ n \in Nat /\ Cards \in [1..n -> Passing]
      /\ \A i \in Passing : \E m \in 1..n : Cards[m] = i
      /\ \A l, m \in 1..n : l < m => Cards[l] # Cards[m] /\ <<Cards[l], Cards[m]>> \in R
  BY <1>1, <1>4, <1>5, SortedLists
<1>7. DOMAIN Cards = 1..n /\ \A m \in 1..n : Cards[m] \in Passing
  BY <1>6
<1>8. \A i \in CoinAt :
        i \in Passing <=> i \in Quoted(table) /\ i \in matching /\ (favOnly => i \in favorites)
  BY DEF Passing, TableListed
<1>9. \A l, m \in 1..n : l < m /\ Cards[m] \in favorites => Cards[l] \in favorites
  <2> SUFFICES ASSUME NEW l \in 1..n, NEW m \in 1..n, l < m, Cards[m] \in favorites
               PROVE  Cards[l] \in favorites
    OBVIOUS
  <2>1. CardBefore(Cards[l], Cards[m])
    BY <1>2, <1>6, <1>7
  <2> QED  BY <2>1 DEF CardBefore
<1>10. \A i \in Passing : CardLines(i) # {} \/ \E c \in CardCurs \ visible : c \in table[i].curs
  <2> SUFFICES ASSUME NEW i \in Passing, CardLines(i) = {}
               PROVE  \E c \in CardCurs \ visible : c \in table[i].curs
    OBVIOUS
  <2>1. i \in CoinAt /\ table[i].curs # {}
    BY <1>1, <1>8 DEF Quoted
  <2>2. table[i].curs \subseteq CardCurs
    BY <2>1 DEF ViewsTypeOK
  <2> QED  BY <2>1, <2>2 DEF CardLines
<1> HIDE DEF n
<1> QED  BY <1>6, <1>7, <1>8, <1>9, <1>10 DEF CardsComplete

LEMMA ToSetAppend ==
  ASSUME NEW S, NEW q \in Seq(S), NEW x \in S
  PROVE  ToSet(Append(q, x)) = ToSet(q) \cup {x}
<1> DEFINE r == Append(q, x)
<1>1. /\ Len(q) \in Nat /\ DOMAIN q = 1..Len(q) /\ DOMAIN r = 1..(Len(q) + 1)
      /\ r[Len(q) + 1] = x /\ \A n \in 1..Len(q) : r[n] = q[n]
  OBVIOUS
<1> HIDE DEF r
<1>2. \A n : n \in DOMAIN r <=> n \in DOMAIN q \/ n = Len(q) + 1
  BY <1>1
<1>3. \A y : y \in ToSet(r) <=> y \in ToSet(q) \/ y = x
  BY <1>1, <1>2 DEF ToSet
<1> QED  BY <1>3 DEF r

\* A snapshot lists the coins it quotes.
LEMMA SnapshotListed ==
  ASSUME NEW t \in Answers
  PROVE  LET q == Sorted(Quoted(t), {p \in CoinAt \X CoinAt : p[1] < p[2]})
         IN  q \in Seq(CoinAt) /\ ToSet(q) = Quoted(t)
<1> DEFINE R == {p \in CoinAt \X CoinAt : p[1] < p[2]}
           q == Sorted(Quoted(t), R)
           n == Cardinality(Quoted(t))
<1>1. Quoted(t) \subseteq CoinAt /\ IsFiniteSet(Quoted(t))
  <2>1. Quoted(t) \in SUBSET CoinAt
    BY DEF Quoted
  <2> QED  BY <2>1, Numbered, FS_Subset
<1>2. Orders(R, Quoted(t))
  <2>1. \A i \in Quoted(t) : i \in CoinAt /\ i \in Nat
    BY <1>1, Numbered
  <2>2. \A i, j \in Quoted(t) : <<i, j>> \in R <=> i < j
    BY <2>1
  <2> HIDE DEF R
  <2> QED  BY <2>1, <2>2 DEF Orders
<1> HIDE DEF R
<1>3. /\ n \in Nat /\ q \in [1..n -> Quoted(t)] /\ q \in Seq(Quoted(t)) /\ Len(q) = n
      /\ \A i \in Quoted(t) : \E m \in 1..n : q[m] = i
  BY <1>1, <1>2, SortedLists
<1> HIDE DEF q, n
<1>4. q \in Seq(CoinAt)
  BY <1>1, <1>3
<1>5. ToSet(q) = Quoted(t)
  BY <1>3 DEF ToSet
<1> QED  BY <1>4, <1>5 DEF q, R

\* The summaries tell one story of every market, the index never points against it, and the
\* cards are those of the price table, favourites first, whatever arrives and is clicked in
\* which order (KpiStrip, MarketOverview, Breadth and PriceCards).  The steps have to preserve
\* that byCoin lists what is quoted and that a currency is visible.
THEOREM ViewsInvariant == ViewsSpec => []ViewsInv
<1> DEFINE IInv == ViewsTypeOK /\ TableListed /\ visible # {}
<1>1. ViewsInit => IInv
  <2> SUFFICES ASSUME ViewsInit PROVE IInv
    OBVIOUS
  <2>1. ViewsTypeOK /\ visible # {}
    <3>1. table \in [CoinAt -> [curs : SUBSET CardCurs, chg : Changes \cup {Unknown}]]
      <4> DEFINE row == [curs |-> {}, chg |-> Unknown]
      <4>1. row \in [curs : SUBSET CardCurs, chg : Changes \cup {Unknown}]
        OBVIOUS
      <4>2. table = [i \in CoinAt |-> row]
        BY DEF ViewsInit
      <4> HIDE DEF row
      <4> QED  BY <4>1, <4>2
    <3>2. market \in [CoinAt -> [cap : 0..TopCap, chg : Changes \cup {Unknown}]]
      BY DEF ViewsInit
    <3>3. byCoin = <<>> /\ byCoin \in Seq(CoinAt)
      BY DEF ViewsInit
    <3>4. visible # {} /\ visible \subseteq CardCurs
      BY DEF ViewsInit, CardCurs
    <3> QED  BY <3>1, <3>2, <3>3, <3>4 DEF ViewsInit, ViewsTypeOK
  <2>2. ToSet(byCoin) = {} /\ Quoted(table) = {}
    BY DEF ViewsInit, ToSet, Quoted
  <2> QED  BY <2>1, <2>2 DEF TableListed
<1>2. IInv /\ [ViewsNext]_viewVars => IInv'
  <2> SUFFICES ASSUME IInv, [ViewsNext]_viewVars PROVE IInv'
    OBVIOUS
  <2> USE DEF tableVars
  <2>1. CASE ToggleFavOnly
    <3>1. favOnly' \in BOOLEAN
      BY <2>1, Zenon DEF ToggleFavOnly
    <3> QED  BY <2>1, <3>1 DEF ToggleFavOnly, ViewsTypeOK, TableListed, Quoted
  <2>2. ASSUME NEW i \in CoinAt, ToggleFavorite(i) PROVE IInv'
    BY <2>2 DEF ToggleFavorite, ViewsTypeOK, TableListed, Quoted
  <2>3. ASSUME NEW s \in {"rank", "mcap", "name", "change"}, SortCards(s) PROVE IInv'
    BY <2>3 DEF SortCards, ViewsTypeOK, TableListed, Quoted
  <2>4. ASSUME NEW q \in Queries, Search(q) PROVE IInv'
    <3>1. q \subseteq CoinAt
      BY ViewsAssumption DEF CoinAt
    <3> QED  BY <2>4, <3>1 DEF Search, ViewsTypeOK, TableListed, Quoted
  <2>5. ASSUME NEW c \in CardCurs, ToggleCurrency(c) PROVE IInv'
    <3>1. UNCHANGED <<market, snapshot, table, byCoin, matching, favorites, favOnly, sort>>
      BY <2>5 DEF ToggleCurrency
    <3>2. visible' \subseteq CardCurs
      BY <2>5 DEF ToggleCurrency, ViewsTypeOK
    <3>3. visible' # {}
      <4>1. CASE visible = {c}
        <5>1. Cardinality(visible) = 1
          BY <4>1, FS_Singleton
        <5> QED  BY <2>5, <4>1, <5>1 DEF ToggleCurrency
      <4>2. CASE visible # {c}
        <5>1. visible \ {c} # {}
          BY <4>2
        <5> QED  BY <2>5, <5>1 DEF ToggleCurrency
      <4> QED  BY <4>1, <4>2
    <3> QED  BY <3>1, <3>2, <3>3 DEF ViewsTypeOK, TableListed, Quoted
  <2>6. CASE SnapshotFails
    BY <2>6 DEF SnapshotFails, ViewsTypeOK, TableListed, Quoted
  <2>7. ASSUME NEW t \in Answers, SnapshotArrives(t) PROVE IInv'
    <3>1. /\ table' = t /\ byCoin' \in Seq(CoinAt) /\ ToSet(byCoin') = Quoted(t)
          /\ snapshot' = "done" /\ UNCHANGED <<market, matching, favorites, favOnly, sort, visible>>
      BY <2>7, SnapshotListed DEF SnapshotArrives
    <3>2. t \in [CoinAt -> [curs : SUBSET CardCurs, chg : Changes \cup {Unknown}]]
      BY ViewsAssumption DEF CoinAt, CardCurs
    <3>3. ViewsTypeOK'
      BY <3>1, <3>2 DEF ViewsTypeOK
    <3>4. TableListed'
      BY <3>1 DEF TableListed, Quoted, ToSet
    <3> QED  BY <3>1, <3>3, <3>4
  <2>8. ASSUME NEW i \in CoinAt, NEW c \in CardCurs, NEW chg \in Changes \cup {Unknown},
               PriceArrives(i, c, chg)
        PROVE  IInv'
    <3> DEFINE row == [curs |-> table[i].curs \cup {c},
                       chg  |-> IF c = "USD" THEN chg ELSE table[i].chg]
    <3>1. table[i] \in [curs : SUBSET CardCurs, chg : Changes \cup {Unknown}]
      BY DEF ViewsTypeOK
    <3>2. /\ table' = [table EXCEPT ![i] = row]
          /\ byCoin' = IF i \in Quoted(table) THEN byCoin ELSE Append(byCoin, i)
          /\ UNCHANGED <<market, snapshot, matching, favorites, favOnly, sort, visible>>
      BY <2>8 DEF PriceArrives
    <3>3. row \in [curs : SUBSET CardCurs, chg : Changes \cup {Unknown}] /\ row.curs # {}
      BY <3>1
    <3> HIDE DEF row
    <3>4. byCoin' \in Seq(CoinAt) /\ table' \in [CoinAt -> [curs : SUBSET CardCurs, chg : Changes \cup {Unknown}]]
      BY <3>2, <3>3 DEF ViewsTypeOK
    <3>5. ViewsTypeOK'
      BY <3>2, <3>4 DEF ViewsTypeOK
    <3>6. Quoted(table') = Quoted(table) \cup {i}
      BY <3>2, <3>3 DEF Quoted, ViewsTypeOK
    <3>7. ToSet(byCoin') = ToSet(byCoin) \cup {i}
      <4>1. CASE i \in Quoted(table)
        BY <3>2, <4>1 DEF TableListed
      <4>2. CASE i \notin Quoted(table)
        <5>1. byCoin \in Seq(CoinAt) /\ byCoin' = Append(byCoin, i)
          BY <3>2, <4>2 DEF ViewsTypeOK
        <5> QED  BY <5>1, ToSetAppend
      <4> QED  BY <4>1, <4>2
    <3>8. TableListed'
      <4>1. ToSet(byCoin') = Quoted(table')
        BY <3>6, <3>7 DEF TableListed
      <4> QED  BY <4>1 DEF TableListed
    <3> QED  BY <3>2, <3>5, <3>8
  <2>9. CASE UNCHANGED viewVars
    BY <2>9 DEF viewVars, ViewsTypeOK, TableListed, Quoted
  <2> QED  BY <2>1, <2>2, <2>3, <2>4, <2>5, <2>6, <2>7, <2>8, <2>9 DEF ViewsNext
<1>3. IInv => ViewsInv
  BY SummariesAreOne, FearIsSound, CardsAreComplete DEF ViewsInv
<1> QED  BY <1>1, <1>2, <1>3, PTL DEF ViewsSpec

-----------------------------------------------------------------------------
(* Indicators: sums over windows. *)

\* A term is no greater than a sum of natural terms.
LEMMA SumOfNaturals ==
  ASSUME NEW f, NEW n \in Nat, \A k \in 1..n : f[k] \in Nat
  PROVE  SumTo(f, n) \in Nat /\ \A k \in 1..n : f[k] <= SumTo(f, n)
<1>1. ASSUME NEW x \in 1..n PROVE f[x] <= SumTo(f, n)
  <2> DEFINE g == [k \in 1..n |-> IF k = x THEN f[k] ELSE 0]
  <2>1. /\ g[x] = f[x] /\ g[x] \in Int
        /\ \A k \in 1..n : (k # x => g[k] = 0) /\ g[k] \in Int /\ f[k] \in Int /\ g[k] <= f[k]
    OBVIOUS
  <2> HIDE DEF g
  <2>2. SumTo(g, n) = g[x]
    BY <2>1, SumOne
  <2>3. SumTo(g, n) <= SumTo(f, n)
    BY <2>1, SumLeq
  <2> QED  BY <2>1, <2>2, <2>3
<1>2. SumTo(f, n) \in Int
  BY SumInt
<1>3. SumTo(f, n) >= 0
  <2>1. CASE n = 0
    BY <2>1, SumSteps
  <2>2. CASE n # 0
    <3>1. 1 \in 1..n
      BY <2>2
    <3> QED  BY <1>1, <1>2, <3>1
  <2> QED  BY <2>1, <2>2
<1> QED  BY <1>1, <1>2, <1>3

\* It is zero just if all of them are.
LEMMA SumIsZero ==
  ASSUME NEW f, NEW n \in Nat, \A k \in 1..n : f[k] \in Nat
  PROVE  SumTo(f, n) = 0 <=> \A k \in 1..n : f[k] = 0
<1>1. ASSUME SumTo(f, n) = 0, NEW k \in 1..n PROVE f[k] = 0
  <2>1. f[k] <= SumTo(f, n) /\ f[k] \in Nat
    BY SumOfNaturals
  <2> QED  BY <1>1, <2>1
<1> QED  BY <1>1, SumZero

\* n times one number.
LEMMA SumConstant ==
  ASSUME NEW f, NEW n \in Nat, NEW c \in Int, \A k \in 1..n : f[k] = c
  PROVE  SumTo(f, n) = n * c
<1> DEFINE G == {k \in Nat : k <= n => SumTo(f, k) = k * c}
<1>1. 0 \in G
  BY SumSteps
<1>2. ASSUME NEW k \in Nat, k \in G PROVE k + 1 \in G
  <2> SUFFICES ASSUME k + 1 <= n PROVE SumTo(f, k + 1) = (k + 1) * c
    OBVIOUS
  <2>1. k + 1 \in 1..n /\ k <= n /\ k * c + c = (k + 1) * c
    OBVIOUS
  <2> QED  BY <1>2, <2>1, SumSteps
<1> HIDE DEF G
<1>3. n \in G
  BY <1>1, <1>2, AllNumbers
<1> QED  BY <1>3 DEF G

\* g has the n terms of f that follow position d.
Following(f, d, n, g) ==
  /\ d \in Nat /\ n \in Nat
  /\ \A k \in 1..(d + n) : f[k] \in Int
  /\ \A k \in 1..n : g[k] = f[d + k]

\* It is what they add to the sum up to d.
LEMMA SumShifted ==
  ASSUME NEW f, NEW d, NEW n, NEW g, Following(f, d, n, g)
  PROVE  SumTo(g, n) = SumTo(f, d + n) - SumTo(f, d)
<1> USE DEF Following
<1> DEFINE G == {k \in Nat : k <= n => SumTo(g, k) = SumTo(f, d + k) - SumTo(f, d)}
<1>0. \A k \in Nat : k <= d + n => SumTo(f, k) \in Int
  <2> SUFFICES ASSUME NEW k \in Nat, k <= d + n PROVE SumTo(f, k) \in Int
    OBVIOUS
  <2>1. \A j \in 1..k : j \in 1..(d + n)
    OBVIOUS
  <2> QED  BY <2>1, SumInt
<1>1. 0 \in G
  <2>1. d + 0 = d /\ d <= d + n
    OBVIOUS
  <2> QED  BY <1>0, <2>1, SumSteps
<1>2. ASSUME NEW k \in Nat, k \in G PROVE k + 1 \in G
  <2> SUFFICES ASSUME k + 1 <= n PROVE SumTo(g, k + 1) = SumTo(f, d + (k + 1)) - SumTo(f, d)
    OBVIOUS
  <2>1. /\ k + 1 \in 1..n /\ k <= n /\ d + (k + 1) = (d + k) + 1 /\ d + k \in Nat
        /\ d + k <= d + n /\ d <= d + n /\ d + (k + 1) \in 1..(d + n)
    OBVIOUS
  <2>2. SumTo(g, k + 1) = SumTo(g, k) + f[d + (k + 1)]
    BY <2>1, SumSteps
  <2>3. SumTo(f, (d + k) + 1) = SumTo(f, d + k) + f[(d + k) + 1]
    BY <2>1, SumSteps
  <2>4. SumTo(g, k) = SumTo(f, d + k) - SumTo(f, d)
    BY <1>2, <2>1
  <2>5. SumTo(f, d + k) \in Int /\ SumTo(f, d) \in Int /\ f[d + (k + 1)] \in Int
    BY <1>0, <2>1
  <2> QED  BY <2>1, <2>2, <2>3, <2>4, <2>5
<1> HIDE DEF G
<1>3. n \in G
  BY <1>1, <1>2, AllNumbers
<1> QED  BY <1>3 DEF G

\* What the running sum holds after n values.
LEMMA RunningSum ==
  ASSUME NEW s, NEW i \in Nat, NEW n \in Nat, n <= i, \A k \in 1..i : s[k] \in Int
  PROVE  SumTo([k \in 1..i |-> s[k] - (IF k > Window THEN s[k - Window] ELSE 0)], n)
           = SumTo(s, n) - (IF n > Window THEN SumTo(s, n - Window) ELSE 0)
<1> DEFINE f == [k \in 1..i |-> s[k] - (IF k > Window THEN s[k - Window] ELSE 0)]
           Left(k) == IF k > Window THEN SumTo(s, k - Window) ELSE 0
           G == {k \in Nat : k <= n => SumTo(f, k) = SumTo(s, k) - Left(k)}
<1>0. Window \in Nat /\ Window > 1
  BY IndicatorsAssumption
<1>1. 0 \in G
  BY <1>0, SumSteps
<1>2. ASSUME NEW k \in Nat, k \in G PROVE k + 1 \in G
  <2> SUFFICES ASSUME k + 1 <= n PROVE SumTo(f, k + 1) = SumTo(s, k + 1) - Left(k + 1)
    OBVIOUS
  <2>1. k + 1 \in 1..i /\ k <= n
    OBVIOUS
  <2>2. /\ SumTo(f, k + 1) = SumTo(f, k) + f[k + 1] /\ SumTo(s, k + 1) = SumTo(s, k) + s[k + 1]
        /\ SumTo(f, k) = SumTo(s, k) - Left(k)
    BY <1>2, <2>1, SumSteps
  <2>3. SumTo(s, k) \in Int /\ s[k + 1] \in Int
    <3>1. \A j \in 1..k : j \in 1..i
      BY <2>1
    <3> QED  BY <2>1, <3>1, SumInt
  <2>4. CASE k + 1 > Window
    <3> DEFINE m == k - Window
    <3>1. m \in Nat /\ (k + 1) - Window = m + 1 /\ m + 1 \in 1..i /\ \A j \in 1..m : j \in 1..i
      BY <1>0, <2>1, <2>4
    <3>2. SumTo(s, m + 1) = SumTo(s, m) + s[m + 1] /\ SumTo(s, m) \in Int /\ s[m + 1] \in Int
      BY <3>1, SumSteps, SumInt
    <3>3. Left(k) = SumTo(s, m)
      <4>1. CASE k > Window
        BY <4>1
      <4>2. CASE ~(k > Window)
        <5>1. m = 0
          BY <1>0, <2>4, <4>2
        <5> HIDE DEF m
        <5> QED  BY <4>2, <5>1, SumSteps
      <4> QED  BY <4>1, <4>2
    <3>4. f[k + 1] = s[k + 1] - s[m + 1]
      BY <2>1, <2>4, <3>1
    <3>5. Left(k + 1) = SumTo(s, m + 1)
      BY <2>4, <3>1
    <3> HIDE DEF f, m, Left
    <3> QED  BY <2>2, <2>3, <3>2, <3>3, <3>4, <3>5
  <2>5. CASE ~(k + 1 > Window)
    <3>1. Left(k) = 0 /\ Left(k + 1) = 0 /\ f[k + 1] = s[k + 1] - 0
      BY <1>0, <2>1, <2>5
    <3> HIDE DEF f, Left
    <3> QED  BY <2>2, <2>3, <3>1
  <2> QED  BY <2>4, <2>5
<1> HIDE DEF G
<1>3. n \in G
  BY <1>1, <1>2, AllNumbers
<1> QED  BY <1>3 DEF G

\* A full window.
LEMMA SliceIs ==
  ASSUME NEW s \in Seq(Nat), NEW i \in Window..Len(s)
  PROVE  LET x == Slice(s, i)
         IN  /\ x \in Seq(Nat) /\ Len(x) = Window /\ DOMAIN x = 1..Window
             /\ \A j \in 1..Window : x[j] = s[(i - Window) + j] /\ x[j] \in Nat
             /\ Total(x) = SumTo(s, i) - SumTo(s, i - Window)
             /\ Sma(s)[i] = Total(x) /\ Total(x) \in Nat
<1> DEFINE x == Slice(s, i)
           d == i - Window
<1>1. /\ Window \in Nat /\ Window > 1 /\ i \in Nat /\ Len(s) \in Nat /\ i <= Len(s) /\ d \in Nat
      /\ d + Window = i /\ i \in 1..Len(s) /\ i - Window + 1 = d + 1 /\ i >= Window
  BY IndicatorsAssumption
<1>2. x \in Seq(Nat) /\ Len(x) = Window /\ \A j \in 1..Window : x[j] = s[d + j]
  BY <1>1 DEF Slice
<1>3. DOMAIN x = 1..Window /\ \A j \in 1..Window : x[j] \in Nat
  BY <1>2
<1>4. \A k \in 1..i : s[k] \in Nat /\ s[k] \in Int
  BY <1>1
<1> HIDE DEF x
<1>5. Total(x) = SumTo(x, Window)
  BY <1>2 DEF Total
<1>6. SumTo(x, Window) = SumTo(s, i) - SumTo(s, d)
  <2>1. Following(s, d, Window, x)
    BY <1>1, <1>2, <1>4 DEF Following
  <2> HIDE DEF d
  <2>2. SumTo(x, Window) = SumTo(s, d + Window) - SumTo(s, d)
    BY <2>1, SumShifted
  <2> QED  BY <1>1, <2>2
<1>7. Total(x) \in Nat
  BY <1>1, <1>3, <1>5, SumOfNaturals
<1>8. Sma(s)[i] = SumTo(s, i) - (IF i > Window THEN SumTo(s, d) ELSE 0)
  <2>1. Sma(s)[i] = SumTo([k \in 1..i |-> s[k] - (IF k > Window THEN s[k - Window] ELSE 0)], i)
    <3>1. i \in DOMAIN s
      BY <1>1
    <3> QED  BY <3>1 DEF Sma
  <2>2. i <= i
    BY <1>1
  <2> QED  BY <1>1, <1>4, <2>1, <2>2, RunningSum
<1>9. SumTo(s, i) \in Int
  BY <1>1, <1>4, SumInt
<1>10. ~(i > Window) => SumTo(s, d) = 0
  <2> SUFFICES ASSUME ~(i > Window) PROVE SumTo(s, d) = 0
    OBVIOUS
  <2>1. d = 0
    BY <1>1
  <2> HIDE DEF d
  <2> QED  BY <2>1, SumSteps
<1>11. Sma(s)[i] = Total(x)
  BY <1>5, <1>6, <1>8, <1>9, <1>10
<1> QED  BY <1>2, <1>3, <1>5, <1>6, <1>7, <1>11 DEF x, d
-----------------------------------------------------------------------------
(* Indicators: sums of squares, and the bands. *)

\* The squares of c f[k] + d.
Squares(c, f, d, h, n) ==
  /\ c \in Int /\ d \in Int /\ n \in Nat
  /\ \A k \in 1..n : f[k] \in Int /\ h[k] = (c * f[k] + d) * (c * f[k] + d)

\* Their sum is that of f[k]^2 and f[k], multiplied out.
LEMMA SumOfSquares ==
  ASSUME NEW c, NEW f, NEW d, NEW h, NEW n, Squares(c, f, d, h, n),
         NEW sq, \A k \in 1..n : sq[k] = f[k] * f[k]
  PROVE  SumTo(h, n) = c * c * SumTo(sq, n) + 2 * c * d * SumTo(f, n) + n * (d * d)
<1> USE DEF Squares
<1> DEFINE u == [k \in 1..n |-> (c * c) * sq[k] + (2 * c * d) * f[k]]
           w == [k \in 1..n |-> d * d]
<1>1. c * c \in Int /\ 2 * c * d \in Int /\ d * d \in Int
  OBVIOUS
<1>2. \A k \in 1..n : sq[k] \in Int /\ f[k] \in Int
  OBVIOUS
<1>3. Linear(c * c, sq, 2 * c * d, f, u, n)
  BY <1>1, <1>2 DEF Linear
<1>4. \A k \in 1..n : u[k] \in Int /\ w[k] \in Int /\ h[k] = u[k] + w[k]
  <2> SUFFICES ASSUME NEW k \in 1..n PROVE u[k] \in Int /\ w[k] \in Int /\ h[k] = u[k] + w[k]
    OBVIOUS
  <2> DEFINE x == f[k]
  <2>1. x \in Int /\ sq[k] = x * x /\ h[k] = (c * x + d) * (c * x + d)
    OBVIOUS
  <2>2. u[k] = (c * c) * (x * x) + (2 * c * d) * x /\ w[k] = d * d
    BY <2>1
  <2> HIDE DEF x, u, w
  <2>3. (c * x + d) * (c * x + d) = (c * c) * (x * x) + (2 * c * d) * x + d * d
    BY <2>1
  <2>4. (c * c) * (x * x) + (2 * c * d) * x \in Int
    BY <2>1
  <2> QED  BY <1>1, <2>1, <2>2, <2>3, <2>4
<1>5. \A k \in 1..n : w[k] = d * d
  OBVIOUS
<1> HIDE DEF u, w
<1>6. SumTo(u, n) = (c * c) * SumTo(sq, n) + (2 * c * d) * SumTo(f, n)
  BY <1>3, SumAdds
<1>7. SumTo(h, n) = SumTo(u, n) + SumTo(w, n)
  BY <1>4, SumPlus
<1>8. SumTo(w, n) = n * (d * d)
  <2> DEFINE dd == d * d
  <2>1. dd \in Int /\ \A k \in 1..n : w[k] = dd
    BY <1>1, <1>5
  <2> HIDE DEF dd
  <2>2. SumTo(w, n) = n * dd
    BY <2>1, SumConstant
  <2> QED  BY <2>2 DEF dd
<1> QED  BY <1>6, <1>7, <1>8

\* The spread of the bands is the variance of the window.
LEMMA BandsAreVariance ==
  ASSUME NEW s \in Seq(Nat), NEW i \in Window..Len(s)
  PROVE  LET x == Slice(s, i)
         IN  /\ BandSq(s, i) = Window * (Window * SumTo(Products(x, x), Window) - Total(x) * Total(x))
             /\ BandSq(s, i) = 0 <=> \A m, n \in DOMAIN x : x[m] = x[n]
<1> DEFINE x == Slice(s, i)
           T == Total(x)
           from == [j \in 1..Window |-> Window * x[j] - T]
           h == Products(from, from)
           sq == Products(x, x)
<1>1. Window \in Nat /\ Window > 1
  BY IndicatorsAssumption
<1>2. DOMAIN x = 1..Window /\ T \in Nat /\ Sma(s)[i] = T /\ \A j \in 1..Window : x[j] \in Nat
  BY SliceIs
<1>3. T = SumTo(x, Window)
  BY SliceIs DEF Total
<1>4. BandSq(s, i) = SumTo(h, Window)
  BY <1>2 DEF BandSq
<1> HIDE DEF x, T
<1>5. \A j \in 1..Window : from[j] = Window * x[j] - T /\ h[j] = from[j] * from[j] /\ sq[j] = x[j] * x[j]
  BY <1>2 DEF Products
<1> HIDE DEF from, h, sq
<1>6. \A j \in 1..Window : /\ x[j] \in Int /\ Window * x[j] \in Int /\ from[j] \in Int
                           /\ h[j] \in Nat /\ (h[j] = 0 <=> from[j] = 0)
  <2> SUFFICES ASSUME NEW j \in 1..Window
               PROVE  /\ x[j] \in Int /\ Window * x[j] \in Int /\ from[j] \in Int
                      /\ h[j] \in Nat /\ (h[j] = 0 <=> from[j] = 0)
    OBVIOUS
  <2>1. x[j] \in Int /\ Window * x[j] \in Int
    BY <1>1, <1>2
  <2>2. from[j] \in Int
    BY <1>2, <1>5, <2>1
  <2>3. \A y \in Int : y * y \in Nat /\ (y * y = 0 <=> y = 0)
    OBVIOUS
  <2> QED  BY <1>5, <2>1, <2>2, <2>3
<1>7. SumTo(h, Window) = Window * (Window * SumTo(sq, Window) - T * T)
  <2> DEFINE d == 0 - T
             S == SumTo(sq, Window)
  <2>1. d \in Int /\ \A j \in 1..Window : h[j] = (Window * x[j] + d) * (Window * x[j] + d)
    BY <1>2, <1>5, <1>6
  <2>2. Squares(Window, x, d, h, Window)
    BY <1>1, <1>6, <2>1 DEF Squares
  <2>3. SumTo(h, Window) = Window * Window * S + 2 * Window * d * SumTo(x, Window) + Window * (d * d)
    <3> HIDE DEF d
    <3> QED  BY <1>5, <2>2, SumOfSquares
  <2>4. S \in Int
    <3>1. \A j \in 1..Window : sq[j] \in Int
      BY <1>5, <1>6
    <3> QED  BY <1>1, <3>1, SumInt
  <2>5. SumTo(h, Window) = Window * Window * S + 2 * Window * (0 - T) * T + Window * ((0 - T) * (0 - T))
    BY <1>3, <2>3
  <2> HIDE DEF S, d
  <2>6. Window * Window * S + 2 * Window * (0 - T) * T + Window * ((0 - T) * (0 - T))
          = Window * (Window * S - T * T)
    BY <1>1, <1>2, <2>4
  <2> QED  BY <2>5, <2>6 DEF S
<1>8. SumTo(h, Window) = 0 <=> \A j \in 1..Window : from[j] = 0
  <2>1. \A j \in 1..Window : h[j] \in Nat
    BY <1>6
  <2>2. SumTo(h, Window) = 0 <=> \A j \in 1..Window : h[j] = 0
    BY <1>1, <2>1, SumIsZero
  <2> QED  BY <1>6, <2>2
<1>9. ASSUME \A j \in 1..Window : from[j] = 0, NEW m \in 1..Window, NEW n \in 1..Window
      PROVE  x[m] = x[n]
  <2>0. \A a \in Int : a - T = 0 => a = T
    BY <1>2
  <2>1. Window * x[m] = T /\ Window * x[n] = T
    <3>1. Window * x[m] - T = 0 /\ Window * x[n] - T = 0 /\ Window * x[m] \in Int /\ Window * x[n] \in Int
      BY <1>5, <1>6, <1>9
    <3> QED  BY <2>0, <3>1
  <2>2. \A a, b \in Nat : Window * a = Window * b => a = b
    BY <1>1
  <2> QED  BY <1>2, <2>1, <2>2
<1>10. ASSUME \A m, n \in 1..Window : x[m] = x[n], NEW j \in 1..Window PROVE from[j] = 0
  <2>1. PICK c \in Int : c = x[j]
    BY <1>6
  <2>2. \A k \in 1..Window : x[k] = c
    BY <1>10, <2>1
  <2>3. SumTo(x, Window) = Window * c
    BY <1>1, <2>2, SumConstant
  <2> QED  BY <1>3, <1>5, <1>6, <2>1, <2>3
<1> QED  BY <1>2, <1>4, <1>7, <1>8, <1>9, <1>10 DEF x, T, sq

\* What WindowsMatch says of any series.
LEMMA WindowsOfSeries ==
  ASSUME closes \in Seq(Nat)
  PROVE  WindowsMatch
<1> SUFFICES ASSUME NEW i \in Window..Len(closes)
             PROVE  LET slice == Slice(closes, i)
                    IN  /\ Sma(closes)[i] = Total(slice)
                        /\ BandSq(closes, i) =
                             Window * (Window * SumTo(Products(slice, slice), Window)
                                         - Total(slice) * Total(slice))
                        /\ BandSq(closes, i) = 0 <=> \A m, n \in DOMAIN slice : slice[m] = slice[n]
  BY DEF WindowsMatch
<1> QED  BY SliceIs, BandsAreVariance
-----------------------------------------------------------------------------
(* Indicators: smoothed averages. *)

\* The recursive function of a smoothed average.
Blend(v, share, a, n) ==
  [num |-> share * v[n] * a.den + (Window - 1) * a.num, den |-> (Window - 1 + share) * a.den]
IsSmoothed(t, base, v, share, start, i) ==
  t = [n \in start..i |-> IF n = start THEN [num |-> base, den |-> Window]
                                       ELSE Blend(v, share, t[n - 1], n)]

\* There is one.
LEMMA SmoothedExists ==
  ASSUME NEW base, NEW v, NEW share, NEW start \in Nat, NEW i \in Nat, start <= i
  PROVE  \E t : IsSmoothed(t, base, v, share, start, i)
<1> DEFINE G == {m \in Nat : m >= start => \E t : IsSmoothed(t, base, v, share, start, m)}
           one == [num |-> base, den |-> Window]
<1>1. ASSUME NEW m \in Nat, m = start PROVE m \in G
  <2> DEFINE t == [n \in start..start |-> one]
  <2>1. \A n \in start..start : n = start
    OBVIOUS
  <2>2. IsSmoothed(t, base, v, share, start, start)
    BY <2>1 DEF IsSmoothed
  <2> QED  BY <1>1, <2>2
<1>2. 0 \in G
  BY <1>1
<1>3. ASSUME NEW m \in Nat, m \in G PROVE m + 1 \in G
  <2>1. CASE m + 1 <= start
    BY <1>1, <2>1
  <2>2. CASE ~(m + 1 <= start)
    <3>1. m >= start /\ m \in start..m /\ m + 1 \in start..(m + 1) /\ m + 1 # start /\ (m + 1) - 1 = m
      BY <2>2
    <3>2. PICK t : IsSmoothed(t, base, v, share, start, m)
      BY <1>3, <3>1
    <3> DEFINE u == [n \in start..(m + 1) |-> IF n = m + 1 THEN Blend(v, share, t[m], m + 1) ELSE t[n]]
               Val(y, n) == IF n = start THEN one ELSE Blend(v, share, y[n - 1], n)
    <3>3. \A n \in start..(m + 1) : u[n] = Val(u, n)
      <4> SUFFICES ASSUME NEW n \in start..(m + 1) PROVE u[n] = Val(u, n)
        OBVIOUS
      <4>1. CASE n = m + 1
        <5>1. u[n] = Blend(v, share, t[m], n) /\ u[m] = t[m]
          BY <3>1, <4>1
        <5> HIDE DEF u
        <5> QED  BY <3>1, <4>1, <5>1
      <4>2. CASE n # m + 1
        <5>1. n \in start..m /\ u[n] = t[n]
          BY <4>2
        <5>2. n # start => n - 1 \in start..m /\ u[n - 1] = t[n - 1]
          BY <5>1
        <5>3. t[n] = Val(t, n)
          BY <3>2, <5>1 DEF IsSmoothed
        <5> HIDE DEF u
        <5> QED  BY <5>1, <5>2, <5>3
      <4> QED  BY <4>1, <4>2
    <3>4. u = [n \in start..(m + 1) |-> u[n]]
      OBVIOUS
    <3>5. IsSmoothed(u, base, v, share, start, m + 1)
      <4> HIDE DEF u
      <4> QED  BY <3>3, <3>4 DEF IsSmoothed
    <3> HIDE DEF u
    <3> QED  BY <3>5
  <2> QED  BY <2>1, <2>2
<1> HIDE DEF G
<1>4. i \in G
  BY <1>2, <1>3, AllNumbers
<1> QED  BY <1>4 DEF G

\* Two of them agree as far as both go.
LEMMA SmoothedUnique ==
  ASSUME NEW base, NEW v, NEW share, NEW start \in Nat, NEW n \in Nat, NEW m \in Nat, start <= n, n <= m,
         NEW t, IsSmoothed(t, base, v, share, start, n), NEW u, IsSmoothed(u, base, v, share, start, m)
  PROVE  t[n] = u[n]
<1> DEFINE G == {k \in Nat : k >= start /\ k <= n => t[k] = u[k]}
<1>1. ASSUME NEW k \in Nat, k = start PROVE k \in G
  BY <1>1 DEF IsSmoothed
<1>2. 0 \in G
  BY <1>1
<1>3. ASSUME NEW k \in Nat, k \in G PROVE k + 1 \in G
  <2>1. CASE k + 1 = start
    BY <1>1, <2>1
  <2>2. CASE k + 1 # start
    <3> SUFFICES ASSUME k + 1 >= start, k + 1 <= n PROVE t[k + 1] = u[k + 1]
      OBVIOUS
    <3>1. k + 1 \in start..n /\ k + 1 \in start..m /\ (k + 1) - 1 = k /\ k >= start /\ k <= n
      BY <2>2
    <3>2. t[k + 1] = Blend(v, share, t[k], k + 1)
      BY <2>2, <3>1 DEF IsSmoothed
    <3>3. u[k + 1] = Blend(v, share, u[k], k + 1)
      BY <2>2, <3>1 DEF IsSmoothed
    <3> QED  BY <1>3, <3>1, <3>2, <3>3
  <2> QED  BY <2>1, <2>2
<1> HIDE DEF G
<1>4. n \in G
  BY <1>2, <1>3, AllNumbers
<1> QED  BY <1>4 DEF G

\* Where it starts, and one value more.
LEMMA SmoothedSteps ==
  ASSUME NEW base, NEW v, NEW share, NEW start \in Nat
  PROVE  /\ Smoothed(base, v, share, start, start) = [num |-> base, den |-> Window]
         /\ \A n \in Nat : n >= start =>
              Smoothed(base, v, share, start, n + 1) = Blend(v, share, Smoothed(base, v, share, start, n), n + 1)
<1> DEFINE At(n) == Smoothed(base, v, share, start, n)
<1>1. ASSUME NEW n \in Nat, n >= start PROVE \E t : IsSmoothed(t, base, v, share, start, n) /\ At(n) = t[n]
  <2> DEFINE t == CHOOSE t : IsSmoothed(t, base, v, share, start, n)
  <2>1. IsSmoothed(t, base, v, share, start, n)
    BY <1>1, SmoothedExists
  <2>2. At(n) = t[n]
    BY DEF Smoothed, IsSmoothed, Blend
  <2> HIDE DEF t
  <2> QED  BY <2>1, <2>2
<1> HIDE DEF At
<1>2. At(start) = [num |-> base, den |-> Window]
  <2>1. start >= start /\ start \in start..start
    OBVIOUS
  <2> QED  BY <1>1, <2>1 DEF IsSmoothed
<1>3. ASSUME NEW n \in Nat, n >= start PROVE At(n + 1) = Blend(v, share, At(n), n + 1)
  <2>1. /\ n + 1 \in Nat /\ n <= n + 1 /\ start <= n /\ n + 1 \in start..(n + 1) /\ n + 1 # start
        /\ (n + 1) - 1 = n /\ n + 1 >= start
    BY <1>3
  <2>2. PICK t : IsSmoothed(t, base, v, share, start, n) /\ At(n) = t[n]
    BY <1>1, <1>3
  <2>3. PICK u : IsSmoothed(u, base, v, share, start, n + 1) /\ At(n + 1) = u[n + 1]
    BY <1>1, <2>1
  <2>4. t[n] = u[n]
    BY <2>1, <2>2, <2>3, SmoothedUnique
  <2>5. u[n + 1] = Blend(v, share, u[n], n + 1)
    BY <2>1, <2>3 DEF IsSmoothed
  <2> QED  BY <2>2, <2>3, <2>4, <2>5
<1> QED  BY <1>2, <1>3 DEF At
-----------------------------------------------------------------------------
(* Indicators: ema and rsi. *)

\* Some value is not above the mean of n, and some is not below it.
LEMMA MeanIsBetween ==
  ASSUME NEW s, NEW n \in Nat \ {0}, \A k \in 1..n : s[k] \in Int
  PROVE  (\E k \in 1..n : s[k] * n <= SumTo(s, n)) /\ (\E k \in 1..n : SumTo(s, n) <= s[k] * n)
<1> DEFINE T == SumTo(s, n)
           h == [k \in 1..n |-> n * s[k]]
<1>1. T \in Int
  BY SumInt
<1>2. SumTo(h, n) = n * T /\ \A k \in 1..n : h[k] \in Int /\ h[k] = s[k] * n
  <2>1. PICK z \in Int : z = 0
    OBVIOUS
  <2>2. \A k \in 1..n : h[k] = n * s[k] /\ n * s[k] \in Int
    OBVIOUS
  <2> HIDE DEF h
  <2>3. Linear(n, s, z, s, h, n)
    BY <2>1, <2>2 DEF Linear
  <2>4. SumTo(h, n) = n * T + z * T
    BY <2>3, SumAdds
  <2> QED  BY <1>1, <2>1, <2>2, <2>4
<1> HIDE DEF T, h
<1>3. ASSUME NEW c \in Int, NEW g, \A k \in 1..n : g[k] = c PROVE SumTo(g, n) = n * c
  BY <1>3, SumConstant
<1>4. ASSUME \A k \in 1..n : ~(s[k] * n <= T) PROVE FALSE
  <2>1. PICK c \in Int : c = T + 1
    BY <1>1
  <2> DEFINE g == [k \in 1..n |-> c]
  <2>2. \A k \in 1..n : g[k] = c /\ g[k] \in Int /\ h[k] \in Int /\ g[k] <= h[k]
    BY <1>1, <1>2, <1>4, <2>1
  <2> HIDE DEF g
  <2>3. SumTo(g, n) <= SumTo(h, n) /\ SumTo(g, n) = n * c
    BY <1>3, <2>2, SumLeq
  <2>4. n * (T + 1) = n * T + n /\ n * T \in Int
    BY <1>1
  <2> QED  BY <1>1, <1>2, <2>1, <2>3, <2>4
<1>5. ASSUME \A k \in 1..n : ~(T <= s[k] * n) PROVE FALSE
  <2>1. PICK c \in Int : c = T - 1
    BY <1>1
  <2> DEFINE g == [k \in 1..n |-> c]
  <2>2. \A k \in 1..n : g[k] = c /\ g[k] \in Int /\ h[k] \in Int /\ h[k] <= g[k]
    BY <1>1, <1>2, <1>5, <2>1
  <2> HIDE DEF g
  <2>3. SumTo(h, n) <= SumTo(g, n) /\ SumTo(g, n) = n * c
    BY <1>3, <2>2, SumLeq
  <2>4. n * (T - 1) = n * T - n /\ n * T \in Int
    BY <1>1
  <2> QED  BY <1>1, <1>2, <2>1, <2>3, <2>4
<1> QED  BY <1>4, <1>5 DEF T

\* A smoothed mean stays between values it was made of.
EmaBetween(s, i) ==
  LET e == Ema(s, i)
  IN  /\ e.num \in Int /\ e.den \in Nat /\ e.den > 0
      /\ \E n \in 1..i : s[n] * e.den <= e.num
      /\ \E n \in 1..i : e.num <= s[n] * e.den

\* So does ema, from the first full window on.
LEMMA EmaStaysBetween ==
  ASSUME NEW s \in Seq(Nat), NEW i \in Window..Len(s)
  PROVE  EmaBetween(s, i)
<1> DEFINE G == {k \in Nat : k >= Window /\ k <= Len(s) => EmaBetween(s, k)}
<1>0. Window \in Nat /\ Window > 1 /\ i \in Nat /\ i >= Window /\ i <= Len(s) /\ Len(s) \in Nat
  BY IndicatorsAssumption
<1>1. ASSUME NEW k \in Nat, k = Window PROVE k \in G
  <2>1. Ema(s, Window) = [num |-> SumTo(s, Window), den |-> Window]
    BY <1>0, SmoothedSteps DEF Ema
  <2>2. \A n \in 1..Window : s[n] \in Int
    BY <1>0
  <2>3. SumTo(s, Window) \in Int
    BY <1>0, <2>2, SumInt
  <2>4. (\E n \in 1..Window : s[n] * Window <= SumTo(s, Window))
        /\ (\E n \in 1..Window : SumTo(s, Window) <= s[n] * Window)
    BY <1>0, <2>2, MeanIsBetween
  <2> QED  BY <1>0, <1>1, <2>1, <2>3, <2>4 DEF EmaBetween
<1>2. 0 \in G
  BY <1>0
<1>3. ASSUME NEW k \in Nat, k \in G PROVE k + 1 \in G
  <2>1. CASE k + 1 = Window
    BY <1>1, <2>1
  <2>2. CASE k + 1 # Window
    <3> SUFFICES ASSUME k + 1 >= Window, k + 1 <= Len(s) PROVE EmaBetween(s, k + 1)
      OBVIOUS
    <3>1. k >= Window /\ k <= Len(s) /\ k + 1 \in 1..Len(s) /\ \A n \in 1..k : n \in 1..(k + 1) /\ n \in 1..Len(s)
      BY <1>0, <2>2
    <3> DEFINE e == Ema(s, k)
               N == e.num
               D == e.den
               x == s[k + 1]
               w == Window - 1
    <3>2. N \in Int /\ D \in Nat /\ D > 0 /\ x \in Nat /\ w \in Nat
      BY <1>0, <1>3, <3>1 DEF EmaBetween
    <3>3. PICK lo \in 1..k : s[lo] * D <= N
      BY <1>3, <3>1 DEF EmaBetween
    <3>4. PICK hi \in 1..k : N <= s[hi] * D
      BY <1>3, <3>1 DEF EmaBetween
    <3>5. Ema(s, k + 1) = [num |-> 2 * x * D + w * N, den |-> (w + 2) * D]
      <4>1. Ema(s, k + 1) = Blend(s, 2, e, k + 1)
        BY <1>0, <3>1, SmoothedSteps DEF Ema
      <4>2. Window - 1 + 2 = w + 2
        BY <1>0
      <4> HIDE DEF e
      <4> QED  BY <4>1, <4>2 DEF Blend
    <3> DEFINE a == s[lo]
               b == s[hi]
    <3>6. a \in Int /\ b \in Int /\ a * D <= N /\ N <= b * D
      BY <3>1, <3>3, <3>4
    <3> HIDE DEF N, D, x, w, e, a, b
    <3> DEFINE N1 == 2 * x * D + w * N
               D1 == (w + 2) * D
    <3>7. N1 \in Int /\ D1 \in Nat /\ D1 > 0
      BY <3>2
    <3>8. ASSUME NEW y \in Int PROVE y * D \in Int /\ y * D1 = 2 * (y * D) + w * (y * D) /\ 2 * x * D = 2 * (x * D)
      BY <3>2
    <3>9. ASSUME NEW c \in Int, NEW d \in Int, c <= d PROVE w * c <= w * d /\ w * c \in Int /\ w * d \in Int
      BY <3>2, <3>9
    <3>10. \E n \in 1..(k + 1) : s[n] * D1 <= N1
      <4>1. CASE x * D <= N
        <5>1. w * (x * D) <= w * N /\ w * (x * D) \in Int /\ w * N \in Int
          BY <3>2, <3>8, <3>9, <4>1
        <5>2. x * D1 <= N1
          BY <3>2, <3>8, <5>1
        <5> QED  BY <5>2, <3>1 DEF x
      <4>2. CASE ~(x * D <= N)
        <5>1. a * D <= x * D /\ a * D \in Int /\ x * D \in Int
          BY <3>2, <3>6, <3>8, <4>2
        <5>2. w * (a * D) <= w * N /\ w * (a * D) \in Int /\ w * N \in Int
          BY <3>2, <3>6, <3>9, <5>1
        <5>3. a * D1 = 2 * (a * D) + w * (a * D) /\ 2 * x * D = 2 * (x * D)
          BY <3>6, <3>8
        <5>4. a * D1 <= N1
          BY <5>1, <5>2, <5>3
        <5> QED  BY <5>4, <3>1 DEF a
      <4> QED  BY <4>1, <4>2
    <3>11. \E n \in 1..(k + 1) : N1 <= s[n] * D1
      <4>1. CASE N <= x * D
        <5>1. w * N <= w * (x * D) /\ w * (x * D) \in Int /\ w * N \in Int
          BY <3>2, <3>8, <3>9, <4>1
        <5>2. N1 <= x * D1
          BY <3>2, <3>8, <5>1
        <5> QED  BY <5>2, <3>1 DEF x
      <4>2. CASE ~(N <= x * D)
        <5>1. x * D <= b * D /\ b * D \in Int /\ x * D \in Int
          BY <3>2, <3>6, <3>8, <4>2
        <5>2. w * N <= w * (b * D) /\ w * (b * D) \in Int /\ w * N \in Int
          BY <3>2, <3>6, <3>9, <5>1
        <5>3. b * D1 = 2 * (b * D) + w * (b * D) /\ 2 * x * D = 2 * (x * D)
          BY <3>6, <3>8
        <5>4. N1 <= b * D1
          BY <5>1, <5>2, <5>3
        <5> QED  BY <5>4, <3>1 DEF b
      <4> QED  BY <4>1, <4>2
    <3> HIDE DEF N1, D1
    <3>12. Ema(s, k + 1) = [num |-> N1, den |-> D1]
      BY <3>5 DEF N1, D1
    <3> QED  BY <3>7, <3>10, <3>11, <3>12 DEF EmaBetween
  <2> QED  BY <2>1, <2>2
<1> HIDE DEF G
<1>4. i \in G
  BY <1>0, <1>2, <1>3, AllNumbers
<1> QED  BY <1>0, <1>4 DEF G

\* A smoothed gain or loss forgets nothing: it is zero just if there never was one.
Remembers(move, i) ==
  LET a == Wilder(move, i)
  IN  /\ a.num \in Nat /\ a.den \in Nat /\ a.den > 0
      /\ a.num = 0 <=> \A n \in 2..i : move[n] = 0

\* Wilder's smoothing of any moves does.
LEMMA WilderRemembers ==
  ASSUME NEW move, NEW l \in Nat, \A n \in 2..l : move[n] \in Nat, NEW i \in (Window + 1)..l
  PROVE  Remembers(move, i)
<1> DEFINE G == {k \in Nat : k >= Window + 1 /\ k <= l => Remembers(move, k)}
           start == Window + 1
           base == [m \in 1..Window |-> move[m + 1]]
           At(k) == Smoothed(SumTo(base, Window), move, 1, start, k)
<1>0. Window \in Nat /\ Window > 1 /\ i \in Nat /\ i >= Window + 1 /\ i <= l /\ start \in Nat /\ start <= l
  BY IndicatorsAssumption
<1>1. \A k : Wilder(move, k) = At(k)
  BY DEF Wilder
<1>2. /\ At(start) = [num |-> SumTo(base, Window), den |-> Window]
      /\ \A n \in Nat : n >= start => At(n + 1) = Blend(move, 1, At(n), n + 1)
  <2>0. start \in Nat
    BY <1>0
  <2>1. PICK one \in Int : one = 1
    OBVIOUS
  <2> HIDE DEF base, start
  <2>2. ASSUME NEW sum
        PROVE  /\ Smoothed(sum, move, one, start, start) = [num |-> sum, den |-> Window]
               /\ \A n \in Nat : n >= start =>
                    Smoothed(sum, move, one, start, n + 1)
                      = Blend(move, one, Smoothed(sum, move, one, start, n), n + 1)
    BY <2>0, SmoothedSteps
  <2> QED  BY <2>1, <2>2
<1> HIDE DEF At
<1>3. ASSUME NEW k \in Nat, k = start PROVE k \in G
  <2>1. \A m \in 1..Window : base[m] = move[m + 1] /\ m + 1 \in 2..start /\ m + 1 \in 2..l
    BY <1>0
  <2>2. \A m \in 1..Window : base[m] \in Nat
    BY <2>1
  <2>3. \A n \in 2..start : n - 1 \in 1..Window /\ (n - 1) + 1 = n
    BY <1>0
  <2> HIDE DEF base, start
  <2>4. SumTo(base, Window) \in Nat /\ (SumTo(base, Window) = 0 <=> \A m \in 1..Window : base[m] = 0)
    BY <1>0, <2>2, SumOfNaturals, SumIsZero
  <2>5. (\A m \in 1..Window : base[m] = 0) <=> \A n \in 2..start : move[n] = 0
    <3>1. ASSUME \A m \in 1..Window : base[m] = 0, NEW n \in 2..start PROVE move[n] = 0
      <4>1. base[n - 1] = move[(n - 1) + 1]
        BY <2>1, <2>3
      <4> QED  BY <2>3, <3>1, <4>1
    <3> QED  BY <2>1, <3>1
  <2> QED  BY <1>0, <1>1, <1>2, <1>3, <2>4, <2>5 DEF Remembers
<1>4. 0 \in G
  BY <1>0
<1>5. ASSUME NEW k \in Nat, k \in G PROVE k + 1 \in G
  <2>1. CASE k + 1 = start
    BY <1>3, <2>1
  <2>2. CASE k + 1 # start
    <3> SUFFICES ASSUME k + 1 >= start, k + 1 <= l PROVE Remembers(move, k + 1)
      OBVIOUS
    <3>1. k >= start /\ k >= Window + 1 /\ k <= l /\ k + 1 \in 2..l /\ \A n : n \in 2..(k + 1) <=> n \in 2..k \/ n = k + 1
      BY <1>0, <2>2
    <3> DEFINE N == At(k).num
               D == At(k).den
               x == move[k + 1]
               w == Window - 1
    <3>2. /\ N \in Nat /\ D \in Nat /\ D > 0 /\ x \in Nat /\ w \in Nat /\ w > 0
          /\ N = 0 <=> \A n \in 2..k : move[n] = 0
      BY <1>0, <1>1, <1>5, <3>1 DEF Remembers
    <3>3. At(k + 1) = [num |-> 1 * x * D + w * N, den |-> (w + 1) * D]
      BY <1>2, <3>1 DEF Blend
    <3> HIDE DEF N, D, x, w
    <3>4. /\ 1 * x * D + w * N \in Nat /\ (w + 1) * D \in Nat /\ (w + 1) * D > 0
          /\ 1 * x * D + w * N = 0 <=> x = 0 /\ N = 0
      <4>1. \A a, b \in Nat : a * b \in Nat /\ (b > 0 => (a * b = 0 <=> a = 0)) /\ (a > 0 => (a * b = 0 <=> b = 0))
        OBVIOUS
      <4>2. x * D \in Nat /\ (x * D = 0 <=> x = 0) /\ w * N \in Nat /\ (w * N = 0 <=> N = 0) /\ 1 * x * D = x * D
        BY <3>2, <4>1
      <4>3. (w + 1) * D \in Nat /\ (w + 1) * D > 0
        BY <3>2
      <4> QED  BY <4>2, <4>3
    <3>5. x = 0 /\ N = 0 <=> \A n \in 2..(k + 1) : move[n] = 0
      BY <3>1, <3>2 DEF x
    <3> QED  BY <1>1, <3>3, <3>4, <3>5 DEF Remembers
  <2> QED  BY <2>1, <2>2
<1> HIDE DEF G
<1>6. i \in G
  BY <1>0, <1>4, <1>5, AllNumbers
<1> QED  BY <1>0, <1>6 DEF G

\* What RsiBounded says of any series.
LEMMA RsiOfSeries ==
  ASSUME closes \in Seq(Nat)
  PROVE  RsiBounded
<1> DEFINE gains == Gains(closes)
           losses == Losses(closes)
<1>1. Len(closes) \in Nat /\ Window \in Nat /\ \A n \in 2..Len(closes) : closes[n] \in Nat /\ closes[n - 1] \in Nat
  BY IndicatorsAssumption
<1>2. \A n \in 2..Len(closes) : /\ gains[n] \in Nat /\ losses[n] \in Nat
                                /\ gains[n] = 0 <=> ~(closes[n] > closes[n - 1])
                                /\ losses[n] = 0 <=> ~(closes[n] < closes[n - 1])
  BY <1>1 DEF Gains, Losses
<1> HIDE DEF gains, losses
<1> SUFFICES ASSUME NEW i \in (Window + 1)..Len(closes)
             PROVE  LET r == Rsi(closes, i)
                        falls == \E n \in 2..i : closes[n] < closes[n - 1]
                        rises == \E n \in 2..i : closes[n] > closes[n - 1]
                    IN  /\ r.num >= 0 /\ r.num <= 100 * r.den
                        /\ r.num = 100 * r.den <=> ~falls
                        /\ r.num = 0 <=> falls /\ ~rises
  BY DEF RsiBounded
<1> DEFINE falls == \E n \in 2..i : closes[n] < closes[n - 1]
           rises == \E n \in 2..i : closes[n] > closes[n - 1]
           g == Wilder(gains, i).num
           l == Wilder(losses, i).num
<1>3. Remembers(gains, i) /\ Remembers(losses, i)
  BY <1>1, <1>2, WilderRemembers
<1>4. \A n \in 2..i : n \in 2..Len(closes)
  BY <1>1
<1>5. g \in Nat /\ l \in Nat /\ (g = 0 <=> ~rises) /\ (l = 0 <=> ~falls)
  BY <1>2, <1>3, <1>4 DEF Remembers
<1>6. Rsi(closes, i) = IF l = 0 THEN [num |-> 100, den |-> 1] ELSE [num |-> 100 * g, den |-> g + l]
  BY DEF Rsi, gains, losses
<1> HIDE DEF falls, rises, g, l
<1>7. CASE l = 0
  BY <1>5, <1>6, <1>7 DEF falls, rises
<1>8. CASE l # 0
  <2>1. Rsi(closes, i).num = 100 * g /\ Rsi(closes, i).den = g + l /\ falls
    BY <1>5, <1>6, <1>8
  <2>2. 100 * g >= 0 /\ 100 * g <= 100 * (g + l) /\ 100 * g # 100 * (g + l) /\ (100 * g = 0 <=> g = 0)
    BY <1>5, <1>8
  <2> QED  BY <1>5, <2>1, <2>2 DEF falls, rises
<1> QED  BY <1>7, <1>8
-----------------------------------------------------------------------------
(* Indicators: the correlation. *)

\* Two series, their squares and their products.
Multiplied(u, v, uu, vv, uv, n) ==
  \A k \in 1..n : /\ u[k] \in Int /\ v[k] \in Int
                  /\ uu[k] = u[k] * u[k] /\ vv[k] = v[k] * v[k] /\ uv[k] = u[k] * v[k]

\* The inequality of Cauchy and Schwarz, where the second series is not zero.
LEMMA CauchySchwarz ==
  ASSUME NEW n \in Nat, NEW u, NEW v, NEW uu, NEW vv, NEW uv, Multiplied(u, v, uu, vv, uv, n),
         SumTo(vv, n) # 0
  PROVE  SumTo(uv, n) * SumTo(uv, n) <= SumTo(uu, n) * SumTo(vv, n)
<1> USE DEF Multiplied
<1> DEFINE A == SumTo(uu, n)
           B == SumTo(vv, n)
           C == SumTo(uv, n)
           p == [k \in 1..n |-> (B * B) * uu[k] + (0 - 2 * B * C) * uv[k]]
           h == [k \in 1..n |-> (B * u[k] - C * v[k]) * (B * u[k] - C * v[k])]
<1>1. \A k \in 1..n : uu[k] \in Int /\ vv[k] \in Nat /\ uv[k] \in Int
  <2>1. \A a, b \in Int : a * b \in Int /\ a * a \in Nat
    OBVIOUS
  <2> QED  BY <2>1
<1>2. A \in Int /\ B \in Nat /\ C \in Int /\ B > 0
  <2>1. \A k \in 1..n : vv[k] \in Nat
    BY <1>1
  <2>2. A \in Int /\ C \in Int
    BY <1>1, SumInt
  <2>3. B \in Nat
    BY <2>1, SumOfNaturals
  <2> QED  BY <2>2, <2>3
<1>3. PICK bb, bc, cc, one \in Int : bb = B * B /\ bc = 0 - 2 * B * C /\ cc = C * C /\ one = 1
  <2> HIDE DEF A, B, C
  <2>1. B * B \in Int /\ 0 - 2 * B * C \in Int /\ C * C \in Int /\ 1 \in Int
    BY <1>2
  <2> QED  BY <2>1
<1>4. \A k \in 1..n : p[k] = bb * uu[k] + bc * uv[k] /\ p[k] \in Int
  <2>1. \A k \in 1..n : p[k] = bb * uu[k] + bc * uv[k]
    BY <1>3
  <2>2. \A a, b \in Int : bb * a + bc * b \in Int
    BY <1>3
  <2> HIDE DEF p
  <2> QED  BY <1>1, <2>1, <2>2
<1>5. \A k \in 1..n : h[k] = one * p[k] + cc * vv[k] /\ h[k] \in Nat
  <2> SUFFICES ASSUME NEW k \in 1..n PROVE h[k] = one * p[k] + cc * vv[k] /\ h[k] \in Nat
    OBVIOUS
  <2> DEFINE a == u[k]
             b == v[k]
  <2>1. a \in Int /\ b \in Int /\ uu[k] = a * a /\ vv[k] = b * b /\ uv[k] = a * b
    OBVIOUS
  <2>2. h[k] = (B * a - C * b) * (B * a - C * b)
    OBVIOUS
  <2>3. p[k] = bb * (a * a) + bc * (a * b)
    BY <1>4, <2>1
  <2> HIDE DEF A, B, C, a, b, h, p
  <2>4. (B * a - C * b) * (B * a - C * b) = (B * B) * (a * a) + (0 - 2 * B * C) * (a * b) + (C * C) * (b * b)
    BY <1>2, <2>1
  <2>5. B * a - C * b \in Int /\ \A x \in Int : x * x \in Nat
    BY <1>2, <2>1
  <2>6. bb * (a * a) + bc * (a * b) \in Int
    BY <1>3, <2>1
  <2> QED  BY <1>3, <2>1, <2>2, <2>3, <2>4, <2>5, <2>6
<1> HIDE DEF p, h, A, B, C
<1>6. SumTo(p, n) = bb * A + bc * C
  <2>1. Linear(bb, uu, bc, uv, p, n)
    BY <1>1, <1>3, <1>4 DEF Linear
  <2> QED  BY <2>1, SumAdds DEF A, C
<1>7. SumTo(h, n) = one * SumTo(p, n) + cc * B
  <2>1. Linear(one, p, cc, vv, h, n)
    BY <1>1, <1>3, <1>4, <1>5 DEF Linear
  <2> QED  BY <2>1, SumAdds DEF B
<1>8. SumTo(h, n) \in Nat
  BY <1>5, SumOfNaturals
<1>9. SumTo(h, n) = B * (A * B - C * C)
  <2>1. bb * A + bc * C \in Int
    BY <1>2, <1>3
  <2>2. SumTo(h, n) = bb * A + bc * C + cc * B
    BY <1>3, <1>6, <1>7, <2>1
  <2>3. (B * B) * A + (0 - 2 * B * C) * C + (C * C) * B = B * (A * B - C * C)
    BY <1>2
  <2> QED  BY <1>3, <2>2, <2>3
<1>10. A * B - C * C >= 0
  <2>1. A * B - C * C \in Int
    BY <1>2
  <2>2. \A x \in Int : B * x >= 0 => x >= 0
    BY <1>2
  <2> QED  BY <1>8, <1>9, <2>1, <2>2
<1>11. A * B \in Int /\ C * C \in Int
  BY <1>2
<1> QED  BY <1>10, <1>11 DEF A, B, C

\* The last n points of a series are a series of length n.
LEMMA RecentsAre ==
  ASSUME NEW s \in Seq(Nat), NEW n \in 0..Len(s)
  PROVE  /\ Recents(s, n) \in Seq(Nat) /\ Len(Recents(s, n)) = n
         /\ n = Len(s) => Recents(s, n) = s
<1>1. Len(s) \in Nat /\ n \in Nat /\ n <= Len(s) /\ Len(s) - n + 1 \in Nat /\ Len(s) - n + 1 >= 1
  OBVIOUS
<1>2. Recents(s, n) \in Seq(Nat) /\ Len(Recents(s, n)) = n
  BY <1>1 DEF Recents
<1>3. ASSUME n = Len(s) PROVE Recents(s, n) = s
  <2>1. Recents(s, n) = SubSeq(s, 1, Len(s))
    BY <1>1, <1>3 DEF Recents
  <2> QED  BY <2>1
<1> QED  BY <1>2, <1>3

\* The deviations of a series are numbers.
LEMMA DeviationsAre ==
  ASSUME NEW s \in Seq(Nat), NEW n, n = Len(s)
  PROVE  n \in Nat /\ DOMAIN Deviations(s) = 1..n /\ \A k \in 1..n : Deviations(s)[k] \in Int
<1>1. n \in Nat /\ DOMAIN s = 1..n /\ \A k \in 1..n : s[k] \in Int
  OBVIOUS
<1>2. Total(s) \in Int
  BY <1>1, SumInt DEF Total
<1>3. \A k \in 1..n : n * s[k] \in Int
  BY <1>1
<1>4. \A k \in 1..n : n * s[k] - Total(s) \in Int
  BY <1>2, <1>3
<1> QED  BY <1>1, <1>4 DEF Deviations

\* The sums of pearson.
LEMMA MomentsAre ==
  ASSUME NEW x \in Seq(Nat), NEW y \in Seq(Nat), Len(x) = Len(y)
  PROVE  LET m == ScaledMoments(x, y)
         IN  /\ m.cov \in Int /\ m.vx \in Nat /\ m.vy \in Nat
             /\ m.vy # 0 => m.cov * m.cov <= m.vx * m.vy
             /\ ScaledMoments(y, x) = [cov |-> m.cov, vx |-> m.vy, vy |-> m.vx]
             /\ x = y => m.vx = m.cov /\ m.vy = m.cov
<1> DEFINE n == Len(x)
           dx == Deviations(x)
           dy == Deviations(y)
           xx == Products(dx, dx)
           yy == Products(dy, dy)
           xy == Products(dx, dy)
           yx == Products(dy, dx)
<1>1. n \in Nat /\ DOMAIN dx = 1..n /\ DOMAIN dy = 1..n /\ \A k \in 1..n : dx[k] \in Int /\ dy[k] \in Int
  BY DeviationsAre
<1>2. ScaledMoments(x, y) = [cov |-> SumTo(xy, n), vx |-> SumTo(xx, n), vy |-> SumTo(yy, n)]
  BY DEF ScaledMoments
<1>3. ScaledMoments(y, x) = [cov |-> SumTo(yx, n), vx |-> SumTo(yy, n), vy |-> SumTo(xx, n)]
  BY DEF ScaledMoments
<1>4. x = y => dx = dy
  OBVIOUS
<1> HIDE DEF n, dx, dy
<1>5. \A k \in 1..n : /\ xx[k] = dx[k] * dx[k] /\ yy[k] = dy[k] * dy[k]
                      /\ xy[k] = dx[k] * dy[k] /\ yx[k] = dy[k] * dx[k]
  BY <1>1 DEF Products
<1>6. x = y => xx = xy /\ yy = xy
  BY <1>4
<1> HIDE DEF xx, yy, xy, yx
<1>7. \A k \in 1..n : xx[k] \in Nat /\ yy[k] \in Nat /\ xy[k] \in Int /\ yx[k] = xy[k]
  <2>1. \A a, b \in Int : a * b \in Int /\ a * a \in Nat /\ a * b = b * a
    OBVIOUS
  <2> QED  BY <1>1, <1>5, <2>1
<1>8. SumTo(xx, n) \in Nat /\ SumTo(yy, n) \in Nat /\ SumTo(xy, n) \in Int
  BY <1>1, <1>7, SumOfNaturals, SumInt
<1>9. SumTo(yx, n) = SumTo(xy, n)
  BY <1>1, <1>7, SumSame
<1>10. SumTo(yy, n) # 0 => SumTo(xy, n) * SumTo(xy, n) <= SumTo(xx, n) * SumTo(yy, n)
  <2>1. Multiplied(dx, dy, xx, yy, xy, n)
    BY <1>1, <1>5 DEF Multiplied
  <2> QED  BY <1>1, <2>1, CauchySchwarz
<1> QED  BY <1>2, <1>3, <1>6, <1>8, <1>9, <1>10

\* What PearsonSound says of any two series.
LEMMA PearsonOfSeries ==
  ASSUME closes \in Seq(Nat), closes2 \in Seq(Nat), Len(closes2) <= Len(closes)
  PROVE  PearsonSound
<1> DEFINE n == Len(closes2)
           x == Recents(closes, n)
           y == Recents(closes2, n)
           m == ScaledMoments(x, y)
           m2 == ScaledMoments(y, x)
           r == Pearson(closes, closes2)
           zero == [num |-> 0, denSq |-> 1]
<1>1. n \in Nat /\ Len(closes) \in Nat /\ n \in 0..Len(closes) /\ n \in 0..Len(closes2)
  OBVIOUS
<1>2. x \in Seq(Nat) /\ y \in Seq(Nat) /\ Len(x) = n /\ Len(y) = n /\ y = closes2
  BY <1>1, RecentsAre
<1>3. r = IF n < 2 \/ m.vx = 0 \/ m.vy = 0 THEN zero ELSE [num |-> m.cov, denSq |-> m.vx * m.vy]
  <2>1. (IF Len(closes) < Len(closes2) THEN Len(closes) ELSE Len(closes2)) = n
    BY <1>1
  <2> QED  BY <2>1 DEF Pearson
<1>4. Pearson(closes2, closes) =
        IF n < 2 \/ m2.vx = 0 \/ m2.vy = 0 THEN zero ELSE [num |-> m2.cov, denSq |-> m2.vx * m2.vy]
  <2>1. (IF Len(closes2) < Len(closes) THEN Len(closes2) ELSE Len(closes)) = n
    BY <1>1
  <2> QED  BY <2>1 DEF Pearson
<1>5. closes2 = Recents(closes, Len(closes2)) => x = y
  BY <1>2
<1> HIDE DEF n, x, y
<1>6. /\ m.cov \in Int /\ m.vx \in Nat /\ m.vy \in Nat
      /\ m.vy # 0 => m.cov * m.cov <= m.vx * m.vy
      /\ m2 = [cov |-> m.cov, vx |-> m.vy, vy |-> m.vx]
      /\ x = y => m.vx = m.cov /\ m.vy = m.cov
  BY <1>2, MomentsAre
<1> DEFINE c == m.cov
           a == m.vx
           b == m.vy
<1>7. Pearson(closes2, closes) = IF n < 2 \/ b = 0 \/ a = 0 THEN zero ELSE [num |-> c, denSq |-> b * a]
  BY <1>4, <1>6
<1>8. r = IF n < 2 \/ a = 0 \/ b = 0 THEN zero ELSE [num |-> c, denSq |-> a * b]
  BY <1>3
<1>9. a \in Nat /\ b \in Nat /\ c \in Int /\ (b # 0 => c * c <= a * b) /\ (x = y => a = c /\ b = c)
  BY <1>6
<1> HIDE DEF m, m2, a, b, c, r
<1>10. a * b = b * a
  BY <1>9
<1>11. r.num * r.num <= r.denSq
  BY <1>8, <1>9
<1>12. Pearson(closes2, closes) = r
  BY <1>7, <1>8, <1>10
<1>13. x = y => r = zero \/ r.num * r.num = r.denSq
  BY <1>8, <1>9
<1> QED  BY <1>5, <1>11, <1>12, <1>13 DEF PearsonSound, r

-----------------------------------------------------------------------------
(* Indicators: every series. *)

IndicatorsSpec == IndicatorsInit /\ [][IndicatorsNext]_indicatorVars

\* For every period and every price series, the running sum of sma is the window's, the bands
\* are as wide as its variance, ema stays among the prices, rsi is within its range and 100
\* only without a loss, and pearson is within [-1, 1] and symmetric (indicators.ts and
\* correlation.ts), in exact arithmetic.
THEOREM IndicatorsInvariant == IndicatorsSpec => []IndicatorsSound
<1>1. IndicatorsInit => IndicatorsTypeOK
  BY DEF IndicatorsInit, IndicatorsTypeOK
<1>2. IndicatorsTypeOK /\ [IndicatorsNext]_indicatorVars => IndicatorsTypeOK'
  <2> SUFFICES ASSUME IndicatorsTypeOK, [IndicatorsNext]_indicatorVars PROVE IndicatorsTypeOK'
    OBVIOUS
  <2> USE DEF IndicatorsTypeOK
  <2>1. ASSUME NEW v \in 0..TopValue, AddClose(v) PROVE IndicatorsTypeOK'
    BY <2>1 DEF AddClose
  <2>2. ASSUME NEW v \in 0..TopValue, AddClose2(v) PROVE IndicatorsTypeOK'
    BY <2>2 DEF AddClose2
  <2>3. CASE UNCHANGED indicatorVars
    BY <2>3 DEF indicatorVars
  <2> QED  BY <2>1, <2>2, <2>3 DEF IndicatorsNext
<1>3. IndicatorsTypeOK => IndicatorsSound
  <2> SUFFICES ASSUME IndicatorsTypeOK PROVE IndicatorsSound
    OBVIOUS
  <2>1. closes \in Seq(Nat) /\ closes2 \in Seq(Nat) /\ Len(closes2) <= Len(closes)
    <3>1. \A k \in 0..TopValue : k \in Nat
      BY IndicatorsAssumption
    <3>2. ASSUME NEW S, \A k \in S : k \in Nat, NEW s \in Seq(S) PROVE s \in Seq(Nat)
      BY <3>2
    <3> QED  BY <3>1, <3>2 DEF IndicatorsTypeOK
  <2>2. \A i \in Window..Len(closes) : EmaBetween(closes, i)
    BY <2>1, EmaStaysBetween
  <2>3. EmaInRange
    BY <2>2 DEF EmaInRange, EmaBetween
  <2> QED  BY <2>1, <2>3, WindowsOfSeries, RsiOfSeries, PearsonOfSeries DEF IndicatorsSound
<1> QED  BY <1>1, <1>2, <1>3, PTL DEF IndicatorsSpec

-----------------------------------------------------------------------------
(* Treemap: the greatest common divisor. *)

IsGcd(t, b) == t = [m \in 0..b |-> [x \in Nat |-> IF m = 0 THEN x ELSE t[x % m][m]]]

LEMMA GcdExists ==
  ASSUME NEW b \in Nat
  PROVE  \E t : IsGcd(t, b)
<1> DEFINE G == {m \in Nat : \E t : IsGcd(t, m)}
<1>1. 0 \in G
  <2> DEFINE t == [m \in 0..0 |-> [x \in Nat |-> x]]
  <2>1. IsGcd(t, 0)
    BY DEF IsGcd
  <2> QED  BY <2>1
<1>2. ASSUME NEW m \in Nat, m \in G PROVE m + 1 \in G
  <2>1. PICK t : IsGcd(t, m)
    BY <1>2
  <2> DEFINE c == m + 1
             Row(y, k) == [x \in Nat |-> IF k = 0 THEN x ELSE y[x % k][k]]
             u == [k \in 0..c |-> IF k = c THEN [x \in Nat |-> t[x % c][c]] ELSE t[k]]
  <2>2. c \in Nat /\ c > 0 /\ c \notin 0..m /\ \A k \in 0..c : k = c \/ (k \in 0..m /\ k < c)
    OBVIOUS
  <2>9. \A k \in 0..c : \A y \in 0..(k - 1) : y \in 0..m /\ y # c /\ y \in 0..c
    OBVIOUS
  <2> HIDE DEF c
  <2>3. \A k \in 0..c : u[k] = Row(u, k)
    <3> SUFFICES ASSUME NEW k \in 0..c PROVE u[k] = Row(u, k)
      OBVIOUS
    <3>1. \A x \in Nat : k # 0 => x % k \in 0..(k - 1)
      BY <2>2
    <3>2. \A y \in 0..(k - 1) : u[y] = t[y] /\ y \in 0..m
      BY <2>9
    <3>3. \A x \in Nat : k # 0 => u[x % k] = t[x % k]
      BY <3>1, <3>2
    <3>4. CASE k = c
      <4>1. u[k] = [x \in Nat |-> t[x % k][k]]
        BY <3>4
      <4> HIDE DEF u
      <4> QED  BY <2>2, <3>3, <3>4, <4>1
    <3>5. CASE k # c
      <4>1. u[k] = t[k] /\ t[k] = Row(t, k)
        BY <2>1, <2>2, <3>5 DEF IsGcd
      <4> HIDE DEF u
      <4> QED  BY <3>3, <4>1
    <3> QED  BY <3>4, <3>5
  <2>4. u = [k \in 0..c |-> u[k]]
    OBVIOUS
  <2>5. IsGcd(u, c)
    <3> HIDE DEF u
    <3> QED  BY <2>3, <2>4 DEF IsGcd
  <2> HIDE DEF u
  <2> QED  BY <2>5 DEF c
<1> HIDE DEF G
<1>3. b \in G
  BY <1>1, <1>2, AllNumbers
<1> QED  BY <1>3 DEF G

\* It divides both.
LEMMA GcdDivides ==
  ASSUME NEW a \in Nat, NEW b \in Nat, a # 0 \/ b # 0
  PROVE  Gcd(a, b) \in Nat \ {0} /\ \E p, q \in Nat : a = Gcd(a, b) * p /\ b = Gcd(a, b) * q
<1> DEFINE t == CHOOSE t : IsGcd(t, b)
<1>1. IsGcd(t, b)
  BY GcdExists
<1>2. Gcd(a, b) = t[b][a]
  BY DEF Gcd, IsGcd
<1> HIDE DEF t
<1> DEFINE Divides(m, x) == t[m][x] \in Nat \ {0} /\ \E p, q \in Nat : x = t[m][x] * p /\ m = t[m][x] * q
           All(m) == m <= b => \A x \in Nat : x # 0 \/ m # 0 => Divides(m, x)
           G == {m \in Nat : \A k \in 0..m : All(k)}
<1>3. ASSUME NEW m \in Nat, \A k \in Nat : k < m => All(k) PROVE All(m)
  <2> SUFFICES ASSUME m <= b, NEW x \in Nat, x # 0 \/ m # 0 PROVE Divides(m, x)
    OBVIOUS
  <2>1. t[m][x] = IF m = 0 THEN x ELSE t[x % m][m]
    BY <1>1 DEF IsGcd
  <2>2. CASE m = 0
    <3>1. t[m][x] = x /\ x = x * 1 /\ m = x * 0
      BY <2>1, <2>2
    <3> QED  BY <2>2, <3>1
  <2>3. CASE m # 0
    <3> DEFINE r == x % m
               d == x \div m
               g == t[r][m]
    <3>1. r \in Nat /\ r < m /\ d \in Nat /\ x = m * d + r
      BY <2>3
    <3>2. t[m][x] = g
      BY <2>1, <2>3
    <3> HIDE DEF r, d, g
    <3>3. Divides(r, m)
      BY <1>3, <2>3, <3>1
    <3>4. PICK p, q \in Nat : m = g * p /\ r = g * q /\ g \in Nat \ {0}
      BY <3>3 DEF g
    <3>5. x = g * (p * d + q) /\ p * d + q \in Nat
      <4>1. (g * p) * d + g * q = g * (p * d + q) /\ p * d + q \in Nat
        BY <3>1, <3>4
      <4> QED  BY <3>1, <3>4, <4>1
    <3> QED  BY <3>2, <3>4, <3>5
  <2> QED  BY <2>2, <2>3
<1> HIDE DEF All
<1>4. 0 \in G
  BY <1>3
<1>5. ASSUME NEW m \in Nat, m \in G PROVE m + 1 \in G
  <2>1. \A k \in Nat : k < m + 1 => All(k)
    BY <1>5
  <2>2. All(m + 1)
    BY <1>3, <2>1
  <2> QED  BY <2>1, <2>2
<1>6. b \in G
  <2> HIDE DEF G
  <2> QED  BY <1>4, <1>5, AllNumbers
<1>7. All(b)
  BY <1>6
<1> QED  BY <1>2, <1>7 DEF All

-----------------------------------------------------------------------------
(* Treemap: fractions. *)

Frac == Nat \X (Nat \ {0})

\* Fraction a is n divided by d.
Of(a, n, d) == a \in Frac /\ n \in Nat /\ d \in Nat \ {0} /\ a[1] * d = n * a[2]

\* Factors can be cancelled.
LEMMA Cancel ==
  ASSUME NEW a \in Int, NEW b \in Int, NEW c \in Nat \ {0}
  PROVE  (a * c = b * c <=> a = b) /\ (a * c <= b * c <=> a <= b)
OBVIOUS

\* A reduced fraction is what was reduced.
LEMMA QIs ==
  ASSUME NEW n \in Nat, NEW d \in Nat \ {0}
  PROVE  Of(Q(n, d), n, d)
<1> DEFINE g == Gcd(d, n)
<1>1. PICK p, q \in Nat : g \in Nat \ {0} /\ d = g * p /\ n = g * q
  <2>1. d # 0 /\ d \in Nat
    OBVIOUS
  <2>2. Gcd(d, n) \in Nat \ {0} /\ \E p, q \in Nat : d = Gcd(d, n) * p /\ n = Gcd(d, n) * q
    BY <2>1, GcdDivides
  <2> QED  BY <2>2
<1>2. Q(n, d) = <<n \div g, d \div g>>
  BY DEF Q
<1> HIDE DEF g
<1>3. n \div g = q /\ d \div g = p
  <2>1. \A x \in Nat : (g * x) \div g = x
    BY <1>1
  <2> QED  BY <1>1, <2>1
<1>4. p # 0
  BY <1>1
<1>5. q * (g * p) = (g * q) * p
  BY <1>1
<1> QED  BY <1>1, <1>2, <1>3, <1>4, <1>5 DEF Of, Frac

\* What a fraction is does not depend on how it is written.
LEMMA OfSame ==
  ASSUME NEW a, NEW n, NEW d, Of(a, n, d), NEW m \in Nat, NEW e \in Nat \ {0}, n * e = m * d
  PROVE  Of(a, m, e)
<1> DEFINE a1 == a[1]
           a2 == a[2]
<1>1. /\ a \in Frac /\ a1 \in Nat /\ a2 \in Nat \ {0} /\ n \in Nat /\ d \in Nat \ {0}
      /\ a1 * d = n * a2
  BY DEF Of, Frac
<1> HIDE DEF a1, a2
<1>2. (a1 * e) * d = (m * a2) * d
  <2>1. (a1 * e) * d = (a1 * d) * e /\ (n * a2) * e = (n * e) * a2 /\ (m * d) * a2 = (m * a2) * d
    BY <1>1
  <2> QED  BY <1>1, <2>1
<1>3. a1 * e \in Int /\ m * a2 \in Int
  BY <1>1
<1>4. a1 * e = m * a2
  BY <1>1, <1>2, <1>3, Cancel
<1> QED  BY <1>1, <1>4 DEF Of, a1, a2

\* Fractions of one denominator compare as their numerators do.
LEMMA LeqOf ==
  ASSUME NEW a, NEW n, NEW d, Of(a, n, d), NEW b, NEW m, Of(b, m, d)
  PROVE  (Leq(a, b) <=> n <= m) /\ (Same(a, b) <=> n = m)
<1> DEFINE a1 == a[1]
           a2 == a[2]
           b1 == b[1]
           b2 == b[2]
<1>1. /\ a1 \in Nat /\ a2 \in Nat \ {0} /\ n \in Nat /\ d \in Nat \ {0} /\ a1 * d = n * a2
      /\ b1 \in Nat /\ b2 \in Nat \ {0} /\ m \in Nat /\ b1 * d = m * b2
  BY DEF Of, Frac
<1>2. (Leq(a, b) <=> a1 * b2 <= b1 * a2) /\ (Same(a, b) <=> a1 * b2 = b1 * a2)
  BY DEF Leq, Same
<1> HIDE DEF a1, a2, b1, b2
<1> DEFINE e == a2 * b2
           x == a1 * b2
           y == b1 * a2
<1>3. x * d = n * e /\ y * d = m * e
  <2>1. x * d = (a1 * d) * b2 /\ y * d = (b1 * d) * a2
    BY <1>1
  <2>2. (n * a2) * b2 = n * e /\ (m * b2) * a2 = m * e
    BY <1>1
  <2> QED  BY <1>1, <2>1, <2>2
<1>4. e \in Nat \ {0} /\ x \in Int /\ y \in Int
  BY <1>1
<1> HIDE DEF e, x, y
<1>5. (x <= y <=> x * d <= y * d) /\ (x = y <=> x * d = y * d)
  BY <1>1, <1>4, Cancel
<1>6. (n <= m <=> n * e <= m * e) /\ (n = m <=> n * e = m * e)
  BY <1>1, <1>4, Cancel
<1> QED  BY <1>2, <1>3, <1>5, <1>6 DEF x, y

\* Their sum and their difference.
LEMMA PlusOf ==
  ASSUME NEW a, NEW n, NEW d, Of(a, n, d), NEW b, NEW m, Of(b, m, d)
  PROVE  Of(Plus(a, b), n + m, d) /\ (m <= n => Of(Minus(a, b), n - m, d))
<1> DEFINE a1 == a[1]
           a2 == a[2]
           b1 == b[1]
           b2 == b[2]
<1>1. /\ a1 \in Nat /\ a2 \in Nat \ {0} /\ n \in Nat /\ d \in Nat \ {0} /\ a1 * d = n * a2
      /\ b1 \in Nat /\ b2 \in Nat \ {0} /\ m \in Nat /\ b1 * d = m * b2
  BY DEF Of, Frac
<1>2. Plus(a, b) = Q(a1 * b2 + b1 * a2, a2 * b2)
  BY DEF Plus
<1>3. m <= n => Minus(a, b) = Q(a1 * b2 - b1 * a2, a2 * b2) /\ b1 * a2 <= a1 * b2
  <2> SUFFICES ASSUME m <= n PROVE Minus(a, b) = Q(a1 * b2 - b1 * a2, a2 * b2) /\ b1 * a2 <= a1 * b2
    OBVIOUS
  <2>1. Leq(b, a)
    BY LeqOf
  <2> QED  BY <2>1 DEF Minus, Leq
<1> HIDE DEF a1, a2, b1, b2
<1> DEFINE x == a1 * b2
           y == b1 * a2
           e == a2 * b2
<1>4. x \in Nat /\ y \in Nat /\ e \in Nat \ {0}
  BY <1>1
<1>5. x * d = n * e /\ y * d = m * e
  <2>1. x * d = (a1 * d) * b2 /\ y * d = (b1 * d) * a2
    BY <1>1
  <2>2. (n * a2) * b2 = n * e /\ (m * b2) * a2 = m * e
    BY <1>1
  <2> QED  BY <1>1, <2>1, <2>2
<1> HIDE DEF x, y, e
<1>6. (x + y) * d = (n + m) * e /\ (x - y) * d = (n - m) * e
  <2>1. (x + y) * d = x * d + y * d /\ (n + m) * e = n * e + m * e
    BY <1>1, <1>4
  <2>2. (x - y) * d = x * d - y * d /\ (n - m) * e = n * e - m * e
    BY <1>1, <1>4
  <2> QED  BY <1>5, <2>1, <2>2
<1>7. Of(Plus(a, b), n + m, d)
  <2>1. x + y \in Nat /\ n + m \in Nat
    BY <1>1, <1>4
  <2>2. Of(Plus(a, b), x + y, e)
    BY <1>2, <1>4, <2>1, QIs DEF x, y, e
  <2> QED  BY <1>1, <1>6, <2>1, <2>2, OfSame
<1>8. ASSUME m <= n PROVE Of(Minus(a, b), n - m, d)
  <2>1. x - y \in Nat /\ n - m \in Nat
    BY <1>1, <1>3, <1>4, <1>8 DEF x, y
  <2>2. Of(Minus(a, b), x - y, e)
    BY <1>3, <1>4, <1>8, <2>1, QIs DEF x, y, e
  <2> QED  BY <1>1, <1>6, <2>1, <2>2, OfSame
<1> QED  BY <1>7, <1>8

\* Their product and their quotient, whatever the denominators.
LEMMA TimesOf ==
  ASSUME NEW a, NEW n, NEW d, Of(a, n, d), NEW b, NEW m, NEW e, Of(b, m, e)
  PROVE  Of(Times(a, b), n * m, d * e) /\ (m # 0 => Of(Over(a, b), n * e, d * m))
<1> DEFINE a1 == a[1]
           a2 == a[2]
           b1 == b[1]
           b2 == b[2]
<1>1. /\ a1 \in Nat /\ a2 \in Nat \ {0} /\ n \in Nat /\ d \in Nat \ {0} /\ a1 * d = n * a2
      /\ b1 \in Nat /\ b2 \in Nat \ {0} /\ m \in Nat /\ e \in Nat \ {0} /\ b1 * e = m * b2
  BY DEF Of, Frac
<1>2. Times(a, b) = Q(a1 * b1, a2 * b2) /\ Over(a, b) = Q(a1 * b2, a2 * b1)
  BY DEF Times, Over
<1> HIDE DEF a1, a2, b1, b2
<1>3. Of(Times(a, b), n * m, d * e)
  <2> DEFINE x == a1 * b1
             y == a2 * b2
             z == n * m
             v == d * e
  <2>1. x \in Nat /\ y \in Nat \ {0} /\ z \in Nat /\ v \in Nat \ {0}
    BY <1>1
  <2>2. x * v = z * y
    <3>1. x * v = (a1 * d) * (b1 * e) /\ (n * a2) * (m * b2) = z * y
      BY <1>1
    <3> QED  BY <1>1, <3>1
  <2>3. Times(a, b) = Q(x, y)
    BY <1>2
  <2> HIDE DEF x, y, z, v
  <2>4. Of(Times(a, b), x, y)
    BY <2>1, <2>3, QIs
  <2>5. Of(Times(a, b), z, v)
    BY <2>1, <2>2, <2>4, OfSame
  <2> QED  BY <2>5 DEF z, v
<1>4. ASSUME m # 0 PROVE Of(Over(a, b), n * e, d * m)
  <2> DEFINE x == a1 * b2
             y == a2 * b1
             z == n * e
             v == d * m
  <2>1. b1 # 0
    <3>1. m * b2 # 0
      BY <1>1, <1>4
    <3> QED  BY <1>1, <3>1
  <2>2. x \in Nat /\ y \in Nat \ {0} /\ z \in Nat /\ v \in Nat \ {0}
    BY <1>1, <1>4, <2>1
  <2>3. x * v = z * y
    <3>1. x * v = (a1 * d) * (m * b2) /\ (n * a2) * (b1 * e) = z * y
      BY <1>1
    <3> QED  BY <1>1, <3>1
  <2>4. Over(a, b) = Q(x, y)
    BY <1>2
  <2> HIDE DEF x, y, z, v
  <2>5. Of(Over(a, b), x, y)
    BY <2>2, <2>4, QIs
  <2>6. Of(Over(a, b), z, v)
    BY <2>2, <2>3, <2>5, OfSame
  <2> QED  BY <2>6 DEF z, v
<1> QED  BY <1>3, <1>4

\* Fractions compare by their cross products.
LEMMA CompareOf ==
  ASSUME NEW a, NEW n, NEW d, Of(a, n, d), NEW b, NEW m, NEW e, Of(b, m, e)
  PROVE  (Leq(a, b) <=> n * e <= m * d) /\ (Same(a, b) <=> n * e = m * d)
<1>1. n \in Nat /\ d \in Nat \ {0} /\ m \in Nat /\ e \in Nat \ {0}
  BY DEF Of
<1> DEFINE x == n * e
           y == m * d
           f == d * e
<1>2. x \in Nat /\ y \in Nat /\ f \in Nat \ {0} /\ n * f = x * d /\ m * f = y * e
  BY <1>1
<1>3. Of(a, x, f) /\ Of(b, y, f)
  <2> HIDE DEF x, y, f
  <2> QED  BY <1>2, OfSame
<1> HIDE DEF f
<1> QED  BY <1>3, LeqOf

\* The order of fractions is one.
LEMMA LeqOrder ==
  ASSUME NEW a \in Frac, NEW b \in Frac
  PROVE  /\ Leq(a, b) \/ Leq(b, a)
         /\ \A c \in Frac : Leq(a, b) /\ Leq(b, c) => Leq(a, c)
<1>1. \A q \in Frac : q[1] \in Nat /\ q[2] \in Nat \ {0}
  BY DEF Frac
<1>2. Leq(a, b) \/ Leq(b, a)
  BY <1>1 DEF Leq
<1>3. ASSUME NEW c \in Frac, Leq(a, b), Leq(b, c) PROVE Leq(a, c)
  <2> DEFINE a1 == a[1]
             a2 == a[2]
             b1 == b[1]
             b2 == b[2]
             c1 == c[1]
             c2 == c[2]
  <2>1. /\ a1 \in Nat /\ a2 \in Nat \ {0} /\ b1 \in Nat /\ b2 \in Nat \ {0}
        /\ c1 \in Nat /\ c2 \in Nat \ {0}
        /\ a1 * b2 <= b1 * a2 /\ b1 * c2 <= c1 * b2
    BY <1>1, <1>3 DEF Leq
  <2> HIDE DEF a1, a2, b1, b2, c1, c2
  <2> DEFINE x == a1 * b2
             y == b1 * a2
             u == b1 * c2
             v == c1 * b2
  <2>2. x * c2 <= y * c2 /\ u * a2 <= v * a2
    <3>1. x \in Nat /\ y \in Nat /\ u \in Nat /\ v \in Nat
      BY <2>1
    <3>2. x <= y /\ u <= v
      BY <2>1
    <3> HIDE DEF x, y, u, v
    <3> QED  BY <2>1, <3>1, <3>2, Cancel
  <2>3. y * c2 = u * a2 /\ x * c2 = (a1 * c2) * b2 /\ v * a2 = (c1 * a2) * b2
    BY <2>1
  <2>4. (a1 * c2) * b2 <= (c1 * a2) * b2 /\ a1 * c2 \in Int /\ c1 * a2 \in Int
    <3>1. x * c2 \in Int /\ y * c2 \in Int /\ v * a2 \in Int
      BY <2>1
    <3>2. a1 * c2 \in Int /\ c1 * a2 \in Int
      BY <2>1
    <3>3. x * c2 <= v * a2
      <4> HIDE DEF x, y, u, v
      <4> QED  BY <2>2, <2>3, <3>1
    <3> QED  BY <2>3, <3>2, <3>3
  <2>5. a1 * c2 <= c1 * a2
    BY <2>1, <2>4, Cancel
  <2> QED  BY <2>5 DEF Leq, a1, a2, c1, c2
<1> QED  BY <1>2, <1>3

-----------------------------------------------------------------------------
(* Treemap: a row. *)

\* From p, for a length of l, inside B.
IsSpan(p, l, x, u, B, K) ==
  B \in Nat /\ K \in Nat \ {0} /\ Of(p, x, K) /\ Of(l, u, K) /\ x + u <= B * K

\* U by V over K has the share R of T of the area P, and a row takes part of that.
IsRow(P, T, K, U, V, R, part) ==
  /\ {P, T, K, U, V, R, part} \subseteq Nat \ {0} /\ part <= R
  /\ U * V * T = P * R * (K * K)

LEMMA RowIs ==
  ASSUME NEW P, NEW T, NEW K, NEW U, NEW V, NEW R, NEW part, IsRow(P, T, K, U, V, R, part)
  PROVE  /\ P \in Nat \ {0} /\ T \in Nat \ {0} /\ K \in Nat \ {0} /\ U \in Nat \ {0}
         /\ V \in Nat \ {0} /\ R \in Nat \ {0} /\ part \in Nat \ {0} /\ part <= R
         /\ U * V * T = P * R * (K * K)
BY DEF IsRow

\* How thick a row is, a share part/rest of what is left across: U by V over K is left of the
\* box, with the area of what is left of the weights.
LEMMA ThickOf ==
  ASSUME NEW P, NEW T, NEW K, NEW U, NEW V, NEW R, NEW part, IsRow(P, T, K, U, V, R, part),
         NEW area, Of(area, part * P, T), NEW side, Of(side, U, K)
  PROVE  Of(Over(area, side), part * V, R * K)
<1>0. /\ P \in Nat \ {0} /\ T \in Nat \ {0} /\ K \in Nat \ {0} /\ U \in Nat \ {0}
      /\ V \in Nat \ {0} /\ R \in Nat \ {0} /\ part \in Nat \ {0} /\ part <= R
      /\ U * V * T = P * R * (K * K)
  BY RowIs
<1> USE <1>0
<1> DEFINE n == (part * P) * K
           d == T * U
           m == part * V
           e == R * K
<1>1. Of(Over(area, side), n, d)
  BY TimesOf
<1>2. m \in Nat /\ e \in Nat \ {0} /\ n \in Nat /\ d \in Nat
  BY DEF Of
<1>3. n * e = m * d
  <2>1. n * e = part * (P * R * (K * K))
    OBVIOUS
  <2>2. m * d = part * (U * V * T)
    OBVIOUS
  <2> QED  BY <2>1, <2>2
<1> HIDE DEF n, d, m, e
<1>4. Of(Over(area, side), m, e)
  BY <1>1, <1>2, <1>3, OfSame
<1> QED  BY <1>4 DEF m, e

\* How long some weights of the row are along it, and what a cell of them covers.
LEMMA LongOf ==
  ASSUME NEW P, NEW T, NEW K, NEW U, NEW V, NEW R, NEW part, IsRow(P, T, K, U, V, R, part),
         NEW t, Of(t, part * V, R * K),
         NEW n \in Nat, NEW area, Of(area, n * P, T)
  PROVE  /\ Of(Over(area, t), n * U, part * K)
         /\ Same(Times(Over(area, t), t), <<n * P, T>>)
         /\ Same(Times(t, Over(area, t)), <<n * P, T>>)
<1>0. /\ P \in Nat \ {0} /\ T \in Nat \ {0} /\ K \in Nat \ {0} /\ U \in Nat \ {0}
      /\ V \in Nat \ {0} /\ R \in Nat \ {0} /\ part \in Nat \ {0} /\ part <= R
      /\ U * V * T = P * R * (K * K)
  BY RowIs
<1> USE <1>0
<1> DEFINE x == (n * P) * (R * K)
           y == T * (part * V)
           m == n * U
           e == part * K
<1>1. Of(Over(area, t), x, y)
  <2>1. part * V # 0
    OBVIOUS
  <2> QED  BY <2>1, TimesOf
<1>2. m \in Nat /\ e \in Nat \ {0} /\ x \in Nat /\ y \in Nat
  OBVIOUS
<1>3. x * e = m * y
  <2>1. x * e = (n * part) * (P * R * (K * K))
    OBVIOUS
  <2>2. m * y = (n * part) * (U * V * T)
    OBVIOUS
  <2> QED  BY <2>1, <2>2
<1>4. Of(Over(area, t), m, e)
  <2> HIDE DEF x, y, m, e
  <2> QED  BY <1>1, <1>2, <1>3, OfSame
<1> DEFINE c == Times(Over(area, t), t)
           b == Times(t, Over(area, t))
           k == m * (part * V)
           l == e * (R * K)
<1>5. Of(c, k, l) /\ Of(b, k, l)
  <2>1. Of(c, m * (part * V), e * (R * K)) /\ Of(b, (part * V) * m, (R * K) * e)
    BY <1>4, TimesOf
  <2>2. (part * V) * m = k /\ (R * K) * e = l
    OBVIOUS
  <2> QED  BY <2>1, <2>2
<1>6. Of(<<n * P, T>>, n * P, T)
  BY DEF Of, Frac
<1>7. k * T = (n * P) * l
  <2>1. k * T = (n * part) * (U * V * T)
    OBVIOUS
  <2>2. (n * P) * l = (n * part) * (P * R * (K * K))
    OBVIOUS
  <2> QED  BY <2>1, <2>2
<1>8. Same(c, <<n * P, T>>) /\ Same(b, <<n * P, T>>)
  <2> HIDE DEF c, b, k, l
  <2> QED  BY <1>5, <1>6, <1>7, CompareOf
<1> QED  BY <1>4, <1>8

\* A cell that is size long, ahead along a row of thickness t, and a cell further along.
LEMMA SpansOf ==
  ASSUME NEW P, NEW T, NEW K, NEW U, NEW V, NEW R, NEW part, IsRow(P, T, K, U, V, R, part),
         NEW X, NEW px, NEW pw, NEW B, IsSpan(px, pw, X, U, B, K),
         NEW Y, NEW py, NEW ph, NEW C, IsSpan(py, ph, Y, V, C, K),
         NEW t, Of(t, part * V, R * K),
         NEW n \in Nat, NEW ahead, Of(ahead, n * U, part * K),
         NEW m \in Nat, NEW size, Of(size, m * U, part * K), n + m <= part
  PROVE  /\ Plus(px, ahead) \in Frac /\ Leq(px, Plus(px, ahead))
         /\ Leq(Plus(Plus(px, ahead), size), <<B, 1>>)
         /\ Plus(py, t) \in Frac /\ Leq(py, Plus(py, t)) /\ Leq(Plus(py, t), <<C, 1>>)
         /\ \A b \in Nat : \A far : n + m <= b /\ Of(far, b * U, part * K) =>
               Leq(Plus(Plus(px, ahead), size), Plus(px, far))
<1>0. /\ P \in Nat \ {0} /\ T \in Nat \ {0} /\ K \in Nat \ {0} /\ U \in Nat \ {0}
      /\ V \in Nat \ {0} /\ R \in Nat \ {0} /\ part \in Nat \ {0} /\ part <= R
      /\ U * V * T = P * R * (K * K)
  BY RowIs
<1> USE <1>0
<1>00. /\ B \in Nat /\ C \in Nat /\ Of(px, X, K) /\ Of(pw, U, K) /\ X + U <= B * K
       /\ Of(py, Y, K) /\ Of(ph, V, K) /\ Y + V <= C * K
  BY DEF IsSpan
<1> USE <1>00
<1>1. X \in Nat /\ Y \in Nat
  BY DEF Of
<1> DEFINE e == part * K
           x == X * part
           a == n * U
           s == m * U
<1>2. e \in Nat \ {0} /\ x \in Nat /\ a \in Nat /\ s \in Nat /\ X * e = x * K
  BY <1>1
<1>3. Of(px, x, e)
  <2> HIDE DEF e, x
  <2> QED  BY <1>2, OfSame
<1>4. Of(ahead, a, e) /\ Of(size, s, e)
  OBVIOUS
<1>5. a + s <= part * U /\ x + part * U <= (B * K) * part
  <2>1. a + s = (n + m) * U /\ (n + m) * U <= part * U
    <3>1. \A p, q, z \in Nat : p <= q => p * z <= q * z
      OBVIOUS
    <3>2. (n + m) * U <= part * U
      BY <3>1
    <3> QED  BY <3>2
  <2>2. x + part * U = (X + U) * part /\ (X + U) * part <= (B * K) * part
    <3>1. X + U \in Int /\ B * K \in Int
      BY <1>1
    <3>2. (X + U) * part <= (B * K) * part
      BY <3>1, Cancel
    <3> QED  BY <1>1, <3>2
  <2> QED  BY <2>1, <2>2
<1>6. B * e = (B * K) * part /\ part * U \in Nat
  OBVIOUS
<1> DEFINE c == Plus(px, ahead)
           r == Plus(c, size)
<1> HIDE DEF e, x, a, s
<1>7. Of(c, x + a, e)
  BY <1>3, <1>4, PlusOf
<1>8. Of(r, (x + a) + s, e)
  BY <1>4, <1>7, PlusOf
<1>9. Of(<<B, 1>>, B, 1) /\ Of(<<C, 1>>, C, 1)
  BY DEF Of, Frac
<1>10. c \in Frac /\ Leq(px, c)
  <2>1. x <= x + a
    BY <1>2
  <2>2. Leq(px, c)
    BY <1>3, <1>7, <2>1, LeqOf
  <2> QED  BY <1>7, <2>2 DEF Of
<1>11. Leq(r, <<B, 1>>)
  <2> DEFINE z == (x + a) + s
  <2>1. z * 1 <= B * e
    BY <1>2, <1>5, <1>6
  <2>2. Of(r, z, e)
    BY <1>8
  <2> HIDE DEF z, r
  <2> QED  BY <1>9, <2>1, <2>2, CompareOf
<1>12. ASSUME NEW b \in Nat, NEW far, n + m <= b, Of(far, b * U, part * K)
       PROVE  Leq(r, Plus(px, far))
  <2> DEFINE f == b * U
  <2>1. a + s <= f
    <3>1. (n + m) * U <= b * U
      <4>1. \A p, q, z \in Nat : p <= q => p * z <= q * z
        OBVIOUS
      <4> QED  BY <1>12, <4>1
    <3> QED  BY <3>1 DEF a, s
  <2>2. f \in Nat /\ Of(far, f, e)
    BY <1>12 DEF e
  <2> HIDE DEF f, r
  <2>3. Of(Plus(px, far), x + f, e)
    BY <1>3, <2>2, PlusOf
  <2>4. (x + a) + s <= x + f
    BY <1>2, <2>1, <2>2
  <2> QED  BY <1>8, <2>3, <2>4, LeqOf
<1>13. Plus(py, t) \in Frac /\ Leq(py, Plus(py, t)) /\ Leq(Plus(py, t), <<C, 1>>)
  <2> DEFINE g == R * K
             y == Y * R
             v == part * V
             q == Plus(py, t)
  <2>1. g \in Nat \ {0} /\ y \in Nat /\ v \in Nat /\ Y * g = y * K
    BY <1>1
  <2>2. Of(py, y, g)
    <3> HIDE DEF g, y
    <3> QED  BY <2>1, OfSame
  <2>3. Of(t, v, g)
    OBVIOUS
  <2>4. y + v <= C * g
    <3>1. v <= R * V
      <4>1. \A p, h, z \in Nat : p <= h => p * z <= h * z
        OBVIOUS
      <4> QED  BY <4>1
    <3>2. (Y + V) * R <= (C * K) * R
      <4>1. Y + V \in Int /\ C * K \in Int
        BY <1>1
      <4> QED  BY <4>1, Cancel
    <3>3. (Y + V) * R = y + R * V /\ (C * K) * R = C * g
      BY <1>1
    <3>4. R * V \in Nat /\ C * g \in Nat
      BY <1>1
    <3> HIDE DEF y, v, g
    <3> QED  BY <2>1, <3>1, <3>2, <3>3, <3>4
  <2> HIDE DEF g, y, v
  <2>5. Of(q, y + v, g)
    BY <2>2, <2>3, PlusOf
  <2>6. Leq(py, q)
    <3>1. y <= y + v
      BY <2>1
    <3> QED  BY <2>2, <2>5, <3>1, LeqOf
  <2>7. Leq(q, <<C, 1>>)
    <3> DEFINE z == y + v
    <3>1. z * 1 <= C * g
      BY <2>1, <2>4
    <3>2. Of(q, z, g)
      BY <2>5
    <3> HIDE DEF z, q
    <3> QED  BY <1>9, <3>1, <3>2, CompareOf
  <2>8. q \in Frac
    BY <2>5 DEF Of
  <2> QED  BY <2>6, <2>7, <2>8
<1> QED  BY <1>10, <1>11, <1>12, <1>13

\* What is left of a box after a row, across it and along it.
LEMMA LeftOf ==
  ASSUME NEW P, NEW T, NEW K, NEW U, NEW V, NEW R, NEW part, IsRow(P, T, K, U, V, R, part),
         NEW X, NEW px, NEW pw, NEW B, IsSpan(px, pw, X, U, B, K),
         NEW Y, NEW py, NEW ph, NEW C, IsSpan(py, ph, Y, V, C, K),
         NEW t, Of(t, part * V, R * K)
  PROVE  /\ IsSpan(px, pw, X * R, U * R, B, R * K)
         /\ IsSpan(Plus(py, t), Minus(ph, t), Y * R + part * V, V * (R - part), C, R * K)
         /\ (U * R) * (V * (R - part)) * T = P * (R - part) * ((R * K) * (R * K))
<1>0. /\ P \in Nat \ {0} /\ T \in Nat \ {0} /\ K \in Nat \ {0} /\ U \in Nat \ {0}
      /\ V \in Nat \ {0} /\ R \in Nat \ {0} /\ part \in Nat \ {0} /\ part <= R
      /\ U * V * T = P * R * (K * K)
  BY RowIs
<1> USE <1>0
<1>00. /\ B \in Nat /\ C \in Nat /\ Of(px, X, K) /\ Of(pw, U, K) /\ X + U <= B * K
       /\ Of(py, Y, K) /\ Of(ph, V, K) /\ Y + V <= C * K
  BY DEF IsSpan
<1> USE <1>00
<1>1. X \in Nat /\ Y \in Nat /\ U \in Nat /\ V \in Nat
  BY DEF Of
<1>2. ASSUME NEW q, NEW n \in Nat, Of(q, n, K) PROVE Of(q, n * R, R * K)
  <2> DEFINE g == R * K
             y == n * R
  <2>1. g \in Nat \ {0} /\ y \in Nat /\ n * g = y * K
    OBVIOUS
  <2> HIDE DEF g, y
  <2>2. Of(q, y, g)
    BY <1>2, <2>1, OfSame
  <2> QED  BY <2>2 DEF g, y
<1>3. Of(px, X * R, R * K) /\ Of(pw, U * R, R * K) /\ Of(py, Y * R, R * K) /\ Of(ph, V * R, R * K)
  BY <1>1, <1>2
<1>4. Of(Plus(py, t), Y * R + part * V, R * K)
  BY <1>3, PlusOf
<1>5. part * V <= V * R
  <2>1. \A p, h, z \in Nat : p <= h => p * z <= z * h
    OBVIOUS
  <2> QED  BY <1>1, <2>1
<1>6. Of(Minus(ph, t), V * R - part * V, R * K)
  BY <1>3, <1>5, PlusOf
<1>7. V * R - part * V = V * (R - part)
  BY <1>1
<1>8. \A a, b, D \in Nat : a + b <= D * K => a * R + b * R <= D * (R * K)
  <2> SUFFICES ASSUME NEW a \in Nat, NEW b \in Nat, NEW D \in Nat, a + b <= D * K
               PROVE  a * R + b * R <= D * (R * K)
    OBVIOUS
  <2>1. a + b \in Int /\ D * K \in Int
    OBVIOUS
  <2>2. (a + b) * R <= (D * K) * R
    BY <2>1, Cancel
  <2> QED  BY <2>2
<1>9. X * R + U * R <= B * (R * K) /\ Y * R + V * R <= C * (R * K)
  BY <1>1, <1>8
<1>10. (Y * R + part * V) + V * (R - part) = Y * R + V * R
  BY <1>1
<1>11. (U * R) * (V * (R - part)) * T = P * (R - part) * ((R * K) * (R * K))
  <2> DEFINE d == R - part
  <2>1. d \in Nat
    OBVIOUS
  <2> HIDE DEF d
  <2>2. (U * R) * (V * d) * T = (R * d) * (U * V * T)
    BY <1>1, <2>1
  <2>3. P * d * ((R * K) * (R * K)) = (R * d) * (P * R * (K * K))
    BY <1>1, <2>1
  <2>4. (U * R) * (V * d) * T = P * d * ((R * K) * (R * K))
    BY <2>2, <2>3
  <2> QED  BY <2>4 DEF d
<1>12. R * K \in Nat \ {0} /\ R - part \in Nat
  OBVIOUS
<1> QED  BY <1>3, <1>4, <1>6, <1>7, <1>9, <1>10, <1>11, <1>12 DEF IsSpan

\* Sums of positive weights grow.
LEMMA SumsGrow ==
  ASSUME NEW ws \in Seq(Nat \ {0}), NEW j \in 0..Len(ws)
  PROVE  /\ SumTo(ws, j) \in Nat
         /\ \A i \in 0..j : SumTo(ws, i) \in Nat /\ SumTo(ws, i) <= SumTo(ws, j)
         /\ \A i \in 0..j : i < j => SumTo(ws, i) < SumTo(ws, j)
<1> DEFINE All(k) == /\ SumTo(ws, k) \in Nat
                     /\ \A i \in 0..k : SumTo(ws, i) \in Nat /\ SumTo(ws, i) <= SumTo(ws, k)
                     /\ \A i \in 0..k : i < k => SumTo(ws, i) < SumTo(ws, k)
           G == {k \in Nat : k <= Len(ws) => All(k)}
<1>1. 0 \in G
  <2>1. SumTo(ws, 0) = 0
    BY SumSteps
  <2> QED  BY <2>1
<1>2. ASSUME NEW k \in Nat, k \in G PROVE k + 1 \in G
  <2> SUFFICES ASSUME k + 1 <= Len(ws) PROVE All(k + 1)
    OBVIOUS
  <2>1. All(k)
    BY <1>2
  <2>2. ws[k + 1] \in Nat \ {0}
    OBVIOUS
  <2>3. SumTo(ws, k + 1) = SumTo(ws, k) + ws[k + 1]
    BY SumSteps
  <2>4. SumTo(ws, k + 1) \in Nat /\ SumTo(ws, k) < SumTo(ws, k + 1)
    BY <2>1, <2>2, <2>3
  <2>5. ASSUME NEW i \in 0..(k + 1), i # k + 1
        PROVE  SumTo(ws, i) \in Nat /\ SumTo(ws, i) < SumTo(ws, k + 1)
    <3>1. i \in 0..k
      BY <2>5
    <3> QED  BY <2>1, <2>4, <3>1
  <2> QED  BY <2>4, <2>5
<1> HIDE DEF G
<1>3. j \in G
  <2>1. j \in Nat
    OBVIOUS
  <2> QED  BY <1>1, <1>2, <2>1, AllNumbers
<1> QED  BY <1>3 DEF G

\* The area of the weights between two positions.
LEMMA AreaIs ==
  ASSUME NEW ws \in Seq(Nat \ {0}), NEW j \in 1..Len(ws), NEW i \in 0..j
  PROVE  /\ Total(ws) \in Nat \ {0} /\ SumTo(ws, j) - SumTo(ws, i) \in Nat
         /\ SumTo(ws, j) <= Total(ws)
         /\ Of(AreaOf(ws, i, j), (SumTo(ws, j) - SumTo(ws, i)) * (BoxW * BoxH), Total(ws))
<1>1. Len(ws) \in 0..Len(ws) /\ j \in 0..Len(ws) /\ Len(ws) # 0 /\ 0 \in 0..Len(ws)
  OBVIOUS
<1>2. SumTo(ws, j) \in Nat /\ SumTo(ws, i) \in Nat /\ SumTo(ws, i) <= SumTo(ws, j)
  BY <1>1, SumsGrow
<1>3. Total(ws) \in Nat /\ SumTo(ws, 0) < Total(ws) /\ SumTo(ws, 0) \in Nat /\ SumTo(ws, j) <= Total(ws)
  BY <1>1, SumsGrow DEF Total
<1> DEFINE d == SumTo(ws, j) - SumTo(ws, i)
           P == BoxW * BoxH
<1>4. d \in Nat /\ Total(ws) \in Nat \ {0}
  BY <1>2, <1>3
<1>5. P \in Nat
  BY TreemapAssumption
<1>6. d * P \in Nat
  <2> HIDE DEF d, P
  <2> QED  BY <1>4, <1>5
<1>7. AreaOf(ws, i, j) = Q(d * P, Total(ws))
  BY DEF AreaOf
<1> HIDE DEF d, P
<1>8. Of(AreaOf(ws, i, j), d * P, Total(ws))
  BY <1>4, <1>6, <1>7, QIs
<1> QED  BY <1>3, <1>4, <1>8 DEF d, P

\* Rectangles, and a cell that is inside the box and has its share of the area.
Rect == [x : Frac, y : Frac, w : Frac, h : Frac]
Right(c)  == Plus(c.x, c.w)
Bottom(c) == Plus(c.y, c.h)
IsCell(ws, c, k) ==
  /\ c \in Rect
  /\ Same(Times(c.w, c.h), <<ws[k] * BoxW * BoxH, Total(ws)>>)
  /\ Leq(Right(c), <<BoxW, 1>>) /\ Leq(Bottom(c), <<BoxH, 1>>)

\* A rectangle is to the left of another one, or above it.
Before(c, d) == Leq(Right(c), d.x) \/ Leq(Bottom(c), d.y)

\* A rectangle starts no further left and no higher.
Within(c, r) == Leq(r.x, c.x) /\ Leq(r.y, c.y)

\* What is left of the box after the first i weights has the area of the others.
Measured(ws, i, r, K, X, Y, U, V) ==
  /\ IsSpan(r.x, r.w, X, U, BoxW, K) /\ IsSpan(r.y, r.h, Y, V, BoxH, K)
  /\ U * V * Total(ws) = (BoxW * BoxH) * (Total(ws) - SumTo(ws, i)) * (K * K)
IsLeft(ws, i, r) ==
  /\ r \in Rect
  /\ \E K \in Nat \ {0}, X, Y, U, V \in Nat : Measured(ws, i, r, K, X, Y, U, V)

\* Neither of what is left, across or along, is zero while weights are.
LEMMA NotFlat ==
  ASSUME NEW P \in Nat \ {0}, NEW R \in Nat \ {0}, NEW K \in Nat \ {0}, NEW T \in Nat \ {0},
         NEW U \in Nat, NEW V \in Nat, U * V * T = P * R * (K * K)
  PROVE  U \in Nat \ {0} /\ V \in Nat \ {0}
<1>1. \A a, b \in Nat \ {0} : a * b \in Nat \ {0}
  OBVIOUS
<1>2. P * R * (K * K) \in Nat \ {0}
  BY <1>1
<1>3. U = 0 \/ V = 0 => U * V * T = 0
  OBVIOUS
<1> QED  BY <1>2, <1>3

\* A row along x: it is along the side that is not longer.
LEMMA RowLaid ==
  ASSUME NEW ws \in Seq(Nat \ {0}), NEW i \in 0..(Len(ws) - 1), NEW j \in (i + 1)..Len(ws),
         NEW r, IsLeft(ws, i, r)
  PROVE  LET t    == Over(AreaOf(ws, i, j), Smaller(r.w, r.h))
             c(k) == RowCell(ws, i, k, r, t)
         IN  /\ \A k \in (i + 1)..j : /\ IsCell(ws, c(k), k) /\ Within(c(k), r)
                                      /\ Before(c(k), Rest(r, t))
             /\ \A k, l \in (i + 1)..j : k < l => Before(c(k), c(l))
             /\ IsLeft(ws, j, Rest(r, t)) /\ Within(Rest(r, t), r)
<1> DEFINE P == BoxW * BoxH
           T == Total(ws)
           R == T - SumTo(ws, i)
           part == SumTo(ws, j) - SumTo(ws, i)
           n(k) == SumTo(ws, k - 1) - SumTo(ws, i)
           m(k) == SumTo(ws, k) - SumTo(ws, k - 1)
           t == Over(AreaOf(ws, i, j), Smaller(r.w, r.h))
           c(k) == RowCell(ws, i, k, r, t)
           ahead(k) == Over(AreaOf(ws, i, k - 1), t)
           size(k) == Over(AreaOf(ws, k - 1, k), t)
<1>1. PICK K \in Nat \ {0}, X, Y, U, V \in Nat : Measured(ws, i, r, K, X, Y, U, V)
  BY DEF IsLeft
<1>2. r \in Rect /\ r.x \in Frac /\ r.y \in Frac /\ r.w \in Frac /\ r.h \in Frac
  BY DEF IsLeft, Rect
<1>3. P \in Nat \ {0} /\ BoxW \in Nat /\ BoxH \in Nat
  <2>1. \A a, b \in Nat \ {0} : a * b \in Nat \ {0}
    OBVIOUS
  <2> QED  BY <2>1, TreemapAssumption
<1>4. /\ T \in Nat \ {0} /\ R \in Nat \ {0} /\ part \in Nat \ {0} /\ part <= R
      /\ Of(AreaOf(ws, i, j), part * P, T) /\ T - SumTo(ws, j) = R - part
  <2>1. j \in 1..Len(ws) /\ i \in 0..j /\ i < j /\ j \in 0..Len(ws)
    OBVIOUS
  <2>2. SumTo(ws, i) \in Nat /\ SumTo(ws, j) \in Nat /\ SumTo(ws, i) < SumTo(ws, j)
    BY <2>1, SumsGrow
  <2>3. T \in Nat \ {0} /\ SumTo(ws, j) <= T /\ Of(AreaOf(ws, i, j), part * P, T)
    BY <2>1, AreaIs
  <2> QED  BY <2>2, <2>3
<1>5. ASSUME NEW k \in (i + 1)..j
      PROVE  /\ n(k) \in Nat /\ m(k) \in Nat /\ n(k) + m(k) <= part /\ m(k) = ws[k]
             /\ Of(AreaOf(ws, i, k - 1), n(k) * P, T) /\ Of(AreaOf(ws, k - 1, k), m(k) * P, T)
             /\ \A l \in (i + 1)..j : k < l => n(k) + m(k) <= n(l)
  <2>1. /\ k \in 1..Len(ws) /\ k \in 0..Len(ws) /\ k - 1 \in 0..Len(ws) /\ k - 1 \in Nat /\ k \in Nat
        /\ i \in 0..(k - 1) /\ k - 1 \in 0..k /\ j \in 0..Len(ws) /\ k \in 0..j /\ i \in 0..k
    OBVIOUS
  <2>2. /\ SumTo(ws, i) \in Nat /\ SumTo(ws, k - 1) \in Nat /\ SumTo(ws, k) \in Nat
        /\ SumTo(ws, j) \in Nat
        /\ SumTo(ws, i) <= SumTo(ws, k - 1) /\ SumTo(ws, k - 1) <= SumTo(ws, k)
        /\ SumTo(ws, k) <= SumTo(ws, j)
    BY <2>1, SumsGrow
  <2>3. SumTo(ws, k) = SumTo(ws, k - 1) + ws[k] /\ ws[k] \in Nat
    <3>1. SumTo(ws, (k - 1) + 1) = SumTo(ws, k - 1) + ws[(k - 1) + 1]
      BY <2>1, SumSteps
    <3>2. (k - 1) + 1 = k
      BY <2>1
    <3> QED  BY <2>1, <3>1, <3>2
  <2>4. Of(AreaOf(ws, k - 1, k), m(k) * P, T)
    BY <2>1, AreaIs
  <2>5. Of(AreaOf(ws, i, k - 1), n(k) * P, T)
    <3> DEFINE z == n(k) * P
    <3>1. n(k) \in Nat
      BY <2>2
    <3>2. z \in Nat
      <4> HIDE DEF n, P
      <4> QED  BY <1>3, <3>1
    <3>3. AreaOf(ws, i, k - 1) = Q(z, T)
      BY DEF AreaOf
    <3> HIDE DEF z, T
    <3>4. Of(AreaOf(ws, i, k - 1), z, T)
      BY <1>4, <3>2, <3>3, QIs
    <3> QED  BY <3>4 DEF z
  <2>6. ASSUME NEW l \in (i + 1)..j, k < l PROVE n(k) + m(k) <= n(l)
    <3>1. l - 1 \in 0..Len(ws) /\ k \in 0..(l - 1)
      BY <2>1, <2>6
    <3>2. SumTo(ws, k) <= SumTo(ws, l - 1) /\ SumTo(ws, l - 1) \in Nat
      BY <3>1, SumsGrow
    <3> QED  BY <2>2, <3>2
  <2>7. n(k) \in Nat /\ m(k) \in Nat /\ n(k) + m(k) <= part /\ m(k) = ws[k]
    <3> DEFINE a == SumTo(ws, i)
               b == SumTo(ws, k - 1)
               e == SumTo(ws, k)
               f == SumTo(ws, j)
               g == ws[k]
    <3>1. /\ a \in Nat /\ b \in Nat /\ e \in Nat /\ f \in Nat /\ g \in Nat
          /\ a <= b /\ b <= e /\ e <= f /\ e = b + g
      BY <2>2, <2>3
    <3>2. n(k) = b - a /\ m(k) = e - b /\ part = f - a /\ ws[k] = g
      OBVIOUS
    <3> HIDE DEF n, m, part, a, b, e, f, g
    <3> QED  BY <3>1, <3>2
  <2> HIDE DEF n, m, part
  <2> QED  BY <2>4, <2>5, <2>6, <2>7
<1>6. /\ IsSpan(r.x, r.w, X, U, BoxW, K) /\ IsSpan(r.y, r.h, Y, V, BoxH, K)
      /\ U * V * T = P * R * (K * K)
  BY <1>1 DEF Measured
<1> HIDE DEF P, T, R, part, n, m
<1>7. IsRow(P, T, K, U, V, R, part) /\ IsRow(P, T, K, V, U, R, part)
  <2>1. U \in Nat \ {0} /\ V \in Nat \ {0}
    BY <1>3, <1>4, <1>6, NotFlat
  <2>2. V * U * T = U * V * T
    BY <1>4
  <2> QED  BY <1>3, <1>4, <1>6, <2>1, <2>2 DEF IsRow
<1> HIDE DEF t, c, ahead, size
<1> DEFINE Laid(px, pw, B, py, ph, C) ==
             /\ t \in Frac /\ Leq(px, px) /\ Leq(py, py)
             /\ Plus(py, t) \in Frac /\ Leq(py, Plus(py, t)) /\ Leq(Plus(py, t), <<C, 1>>)
             /\ Leq(Plus(py, t), Plus(py, t)) /\ Minus(ph, t) \in Frac
             /\ \A k \in (i + 1)..j :
                  /\ size(k) \in Frac /\ Plus(px, ahead(k)) \in Frac /\ Leq(px, Plus(px, ahead(k)))
                  /\ Leq(Plus(Plus(px, ahead(k)), size(k)), <<B, 1>>)
                  /\ Same(Times(size(k), t), <<m(k) * P, T>>)
                  /\ Same(Times(t, size(k)), <<m(k) * P, T>>)
                  /\ \A l \in (i + 1)..j : k < l =>
                        Leq(Plus(Plus(px, ahead(k)), size(k)), Plus(px, ahead(l)))
             /\ \E x, u, y, v \in Nat :
                  /\ IsSpan(px, pw, x, u, B, R * K) /\ IsSpan(Plus(py, t), Minus(ph, t), y, v, C, R * K)
                  /\ u * v * T = P * (R - part) * ((R * K) * (R * K))
<1>8. ASSUME NEW A, NEW D, NEW px, NEW pw, NEW B, IsSpan(px, pw, A, D, B, K),
             NEW E, NEW F, NEW py, NEW ph, NEW C, IsSpan(py, ph, E, F, C, K),
             IsRow(P, T, K, D, F, R, part), t = Over(AreaOf(ws, i, j), pw)
      PROVE  Laid(px, pw, B, py, ph, C)
  <2>1. Of(t, part * F, R * K)
    <3>1. Of(pw, D, K)
      BY <1>8 DEF IsSpan
    <3> QED  BY <1>4, <1>8, <3>1, ThickOf
  <2>2. ASSUME NEW k \in (i + 1)..j
        PROVE  /\ Of(ahead(k), n(k) * D, part * K) /\ Of(size(k), m(k) * D, part * K)
               /\ Same(Times(size(k), t), <<m(k) * P, T>>)
               /\ Same(Times(t, size(k)), <<m(k) * P, T>>)
    <3>1. n(k) \in Nat /\ Of(AreaOf(ws, i, k - 1), n(k) * P, T)
      BY <1>5
    <3>2. m(k) \in Nat /\ Of(AreaOf(ws, k - 1, k), m(k) * P, T)
      BY <1>5
    <3>3. Of(ahead(k), n(k) * D, part * K)
      <4> DEFINE q == n(k)
                 area == AreaOf(ws, i, k - 1)
      <4>1. q \in Nat /\ Of(area, q * P, T) /\ ahead(k) = Over(area, t)
        BY <3>1 DEF ahead
      <4> HIDE DEF q, area
      <4>2. Of(Over(area, t), q * D, part * K)
        BY <1>8, <2>1, <4>1, LongOf
      <4> QED  BY <4>1, <4>2 DEF q
    <3>4. /\ Of(size(k), m(k) * D, part * K)
          /\ Same(Times(size(k), t), <<m(k) * P, T>>) /\ Same(Times(t, size(k)), <<m(k) * P, T>>)
      BY <1>8, <2>1, <3>2, LongOf DEF size
    <3> QED  BY <3>3, <3>4
  <2>3. ASSUME NEW k \in (i + 1)..j
        PROVE  /\ Plus(px, ahead(k)) \in Frac /\ Leq(px, Plus(px, ahead(k)))
               /\ Leq(Plus(Plus(px, ahead(k)), size(k)), <<B, 1>>)
               /\ Plus(py, t) \in Frac /\ Leq(py, Plus(py, t)) /\ Leq(Plus(py, t), <<C, 1>>)
               /\ \A b \in Nat : \A far : n(k) + m(k) <= b /\ Of(far, b * D, part * K) =>
                     Leq(Plus(Plus(px, ahead(k)), size(k)), Plus(px, far))
    <3>1. n(k) \in Nat /\ m(k) \in Nat /\ n(k) + m(k) <= part
      BY <1>5
    <3>2. Of(ahead(k), n(k) * D, part * K) /\ Of(size(k), m(k) * D, part * K)
      BY <2>2
    <3> QED  BY <1>8, <2>1, <3>1, <3>2, SpansOf
  <2>4. ASSUME NEW k \in (i + 1)..j, NEW l \in (i + 1)..j, k < l
        PROVE  Leq(Plus(Plus(px, ahead(k)), size(k)), Plus(px, ahead(l)))
    <3>1. n(l) \in Nat /\ n(k) + m(k) <= n(l) /\ Of(ahead(l), n(l) * D, part * K)
      BY <1>5, <2>2, <2>4
    <3> QED  BY <2>3, <3>1
  <2>5. \A a, q, d : Of(a, q, d) => a \in Frac /\ q \in Nat
    BY DEF Of
  <2>6. j \in (i + 1)..j
    OBVIOUS
  <2>7. Plus(py, t) \in Frac /\ Leq(py, Plus(py, t)) /\ Leq(Plus(py, t), <<C, 1>>)
    BY <2>3, <2>6
  <2>8. t \in Frac /\ px \in Frac /\ py \in Frac
    BY <1>8, <2>1, <2>5 DEF IsSpan
  <2>9. Leq(px, px) /\ Leq(py, py) /\ Leq(Plus(py, t), Plus(py, t))
    BY <2>7, <2>8, LeqOrder
  <2> DEFINE x == A * R
             u == D * R
             y == E * R + part * F
             v == F * (R - part)
  <2>10. /\ IsSpan(px, pw, x, u, B, R * K) /\ IsSpan(Plus(py, t), Minus(ph, t), y, v, C, R * K)
         /\ u * v * T = P * (R - part) * ((R * K) * (R * K))
    BY <1>8, <2>1, LeftOf
  <2> HIDE DEF x, u, y, v
  <2>11. x \in Nat /\ u \in Nat /\ y \in Nat /\ v \in Nat /\ Minus(ph, t) \in Frac
    BY <2>5, <2>10 DEF IsSpan
  <2>12. \A k \in (i + 1)..j : size(k) \in Frac
    BY <2>2, <2>5
  <2>13. \E x_, u_, y_, v_ \in Nat :
           /\ IsSpan(px, pw, x_, u_, B, R * K) /\ IsSpan(Plus(py, t), Minus(ph, t), y_, v_, C, R * K)
           /\ u_ * v_ * T = P * (R - part) * ((R * K) * (R * K))
    BY <2>10, <2>11, Zenon
  <2> QED  BY <2>2, <2>3, <2>4, <2>7, <2>8, <2>9, <2>11, <2>12, <2>13
<1> HIDE DEF Laid
<1>9. \A k \in (i + 1)..j : m(k) * P = ws[k] * BoxW * BoxH
  <2> SUFFICES ASSUME NEW k \in (i + 1)..j PROVE m(k) * P = ws[k] * BoxW * BoxH
    OBVIOUS
  <2>1. m(k) = ws[k] /\ m(k) \in Nat
    BY <1>5
  <2> QED  BY <1>3, <2>1 DEF P
<1>10. ASSUME NEW z, z \in Rect,
              NEW x \in Nat, NEW u \in Nat, NEW y \in Nat, NEW v \in Nat,
              IsSpan(z.x, z.w, x, u, BoxW, R * K), IsSpan(z.y, z.h, y, v, BoxH, R * K),
              u * v * T = P * (R - part) * ((R * K) * (R * K))
       PROVE  IsLeft(ws, j, z)
  <2>1. R * K \in Nat \ {0}
    BY <1>10 DEF IsSpan
  <2>2. Measured(ws, j, z, R * K, x, y, u, v)
    BY <1>4, <1>10 DEF Measured, P, T
  <2> DEFINE K_ == R * K
  <2>3. K_ \in Nat \ {0} /\ Measured(ws, j, z, K_, x, y, u, v)
    BY <2>1, <2>2
  <2> HIDE DEF K_
  <2> QED  BY <1>10, <2>3 DEF IsLeft
<1>11. CASE Leq(r.w, r.h)
  <2> DEFINE z == [x |-> r.x, y |-> Plus(r.y, t), w |-> r.w, h |-> Minus(r.h, t)]
  <2>1. t = Over(AreaOf(ws, i, j), r.w)
    BY <1>11 DEF Smaller, t
  <2>2. /\ Rest(r, t) = z
        /\ \A k : c(k) = [x |-> Plus(r.x, ahead(k)), y |-> r.y, w |-> size(k), h |-> t]
    BY <1>2, <1>11 DEF Rest, RowCell, Rect, c, ahead, size
  <2>3. Laid(r.x, r.w, BoxW, r.y, r.h, BoxH)
    BY <1>6, <1>7, <1>8, <2>1
  <2>4. z \in Rect
    BY <1>2, <2>3 DEF Laid, Rect
  <2>5. IsLeft(ws, j, z)
    <3>1. PICK x, u, y, v \in Nat :
            /\ IsSpan(r.x, r.w, x, u, BoxW, R * K)
            /\ IsSpan(Plus(r.y, t), Minus(r.h, t), y, v, BoxH, R * K)
            /\ u * v * T = P * (R - part) * ((R * K) * (R * K))
      BY <2>3 DEF Laid
    <3> QED  BY <1>10, <2>4, <3>1
  <2>6. Within(z, r)
    BY <2>3 DEF Laid, Within
  <2>7. ASSUME NEW k \in (i + 1)..j
        PROVE  IsCell(ws, c(k), k) /\ Within(c(k), r) /\ Before(c(k), z)
    <3>1. c(k) = [x |-> Plus(r.x, ahead(k)), y |-> r.y, w |-> size(k), h |-> t]
      BY <2>2
    <3>2. /\ Right(c(k)) = Plus(Plus(r.x, ahead(k)), size(k)) /\ Bottom(c(k)) = Plus(r.y, t)
          /\ c(k).w = size(k) /\ c(k).h = t /\ c(k).x = Plus(r.x, ahead(k)) /\ c(k).y = r.y
      BY <3>1 DEF Right, Bottom
    <3>3. c(k) \in Rect
      <4>1. size(k) \in Frac /\ t \in Frac /\ c(k).x \in Frac /\ c(k).y \in Frac
        BY <1>2, <2>3, <3>2 DEF Laid
      <4> QED  BY <3>1, <3>2, <4>1 DEF Rect
    <3>4. Same(Times(size(k), t), <<ws[k] * BoxW * BoxH, T>>)
      BY <1>9, <2>3 DEF Laid
    <3>5. IsCell(ws, c(k), k)
      BY <2>3, <3>2, <3>3, <3>4 DEF IsCell, Laid, T
    <3>6. Within(c(k), r)
      BY <2>3, <3>2 DEF Within, Laid
    <3>7. Before(c(k), z)
      BY <2>3, <3>2 DEF Before, Laid
    <3> QED  BY <3>5, <3>6, <3>7
  <2>8. ASSUME NEW k \in (i + 1)..j, NEW l \in (i + 1)..j, k < l PROVE Before(c(k), c(l))
    <3>1. Right(c(k)) = Plus(Plus(r.x, ahead(k)), size(k)) /\ c(l).x = Plus(r.x, ahead(l))
      BY <2>2 DEF Right
    <3> QED  BY <2>3, <2>8, <3>1 DEF Before, Laid
  <2> HIDE DEF z
  <2> QED  BY <2>2, <2>5, <2>6, <2>7, <2>8 DEF t, c
<1>12. CASE ~Leq(r.w, r.h)
  <2> DEFINE z == [x |-> Plus(r.x, t), y |-> r.y, w |-> Minus(r.w, t), h |-> r.h]
  <2>1. t = Over(AreaOf(ws, i, j), r.h)
    BY <1>12 DEF Smaller, t
  <2>2. /\ Rest(r, t) = z
        /\ \A k : c(k) = [x |-> r.x, y |-> Plus(r.y, ahead(k)), w |-> t, h |-> size(k)]
    BY <1>2, <1>12 DEF Rest, RowCell, Rect, c, ahead, size
  <2>3. Laid(r.y, r.h, BoxH, r.x, r.w, BoxW)
    BY <1>6, <1>7, <1>8, <2>1
  <2>4. z \in Rect
    BY <1>2, <2>3 DEF Laid, Rect
  <2>5. IsLeft(ws, j, z)
    <3>1. PICK y, v, x, u \in Nat :
            /\ IsSpan(r.y, r.h, y, v, BoxH, R * K)
            /\ IsSpan(Plus(r.x, t), Minus(r.w, t), x, u, BoxW, R * K)
            /\ v * u * T = P * (R - part) * ((R * K) * (R * K))
      BY <2>3 DEF Laid
    <3>2. v * u = u * v
      OBVIOUS
    <3> QED  BY <1>10, <2>4, <3>1, <3>2
  <2>6. Within(z, r)
    BY <2>3 DEF Laid, Within
  <2>7. ASSUME NEW k \in (i + 1)..j
        PROVE  IsCell(ws, c(k), k) /\ Within(c(k), r) /\ Before(c(k), z)
    <3>1. c(k) = [x |-> r.x, y |-> Plus(r.y, ahead(k)), w |-> t, h |-> size(k)]
      BY <2>2
    <3>2. /\ Bottom(c(k)) = Plus(Plus(r.y, ahead(k)), size(k)) /\ Right(c(k)) = Plus(r.x, t)
          /\ c(k).h = size(k) /\ c(k).w = t /\ c(k).y = Plus(r.y, ahead(k)) /\ c(k).x = r.x
      BY <3>1 DEF Right, Bottom
    <3>3. c(k) \in Rect
      <4>1. size(k) \in Frac /\ t \in Frac /\ c(k).x \in Frac /\ c(k).y \in Frac
        BY <1>2, <2>3, <3>2 DEF Laid
      <4> QED  BY <3>1, <3>2, <4>1 DEF Rect
    <3>4. Same(Times(t, size(k)), <<ws[k] * BoxW * BoxH, T>>)
      BY <1>9, <2>3 DEF Laid
    <3>5. IsCell(ws, c(k), k)
      BY <2>3, <3>2, <3>3, <3>4 DEF IsCell, Laid, T
    <3>6. Within(c(k), r)
      BY <2>3, <3>2 DEF Within, Laid
    <3>7. Before(c(k), z)
      BY <2>3, <3>2 DEF Before, Laid
    <3> QED  BY <3>5, <3>6, <3>7
  <2>8. ASSUME NEW k \in (i + 1)..j, NEW l \in (i + 1)..j, k < l PROVE Before(c(k), c(l))
    <3>1. Bottom(c(k)) = Plus(Plus(r.y, ahead(k)), size(k)) /\ c(l).y = Plus(r.y, ahead(l))
      BY <2>2 DEF Bottom
    <3> QED  BY <2>3, <2>8, <3>1 DEF Before, Laid
  <2> HIDE DEF z
  <2> QED  BY <2>2, <2>5, <2>6, <2>7, <2>8 DEF t, c
<1> QED  BY <1>11, <1>12

\* Adding fractions gives one.
LEMMA PlusFrac ==
  ASSUME NEW a \in Frac, NEW b \in Frac
  PROVE  Plus(a, b) \in Frac
<1> DEFINE n == a[1] * b[2] + b[1] * a[2]
           d == a[2] * b[2]
<1>1. a[1] \in Nat /\ b[1] \in Nat /\ a[2] \in Nat \ {0} /\ b[2] \in Nat \ {0}
  BY DEF Frac
<1>2. n \in Nat /\ d \in Nat \ {0}
  BY <1>1
<1>3. Plus(a, b) = Q(n, d)
  BY DEF Plus
<1> HIDE DEF n, d
<1> QED  BY <1>2, <1>3, QIs DEF Of

\* What a rectangle is before, it is before whatever starts there or further on.
LEMMA BeforeWithin ==
  ASSUME NEW c \in Rect, NEW r \in Rect, NEW d \in Rect, Before(c, r), Within(d, r)
  PROVE  Before(c, d)
<1>1. /\ Right(c) \in Frac /\ Bottom(c) \in Frac
      /\ r.x \in Frac /\ r.y \in Frac /\ d.x \in Frac /\ d.y \in Frac
  BY PlusFrac DEF Rect, Right, Bottom
<1> QED  BY <1>1, LeqOrder DEF Before, Within

\* A row ends.
LEMMA RowEnds ==
  ASSUME NEW ws, Len(ws) \in Nat, NEW i \in 0..(Len(ws) - 1), NEW side
  PROVE  RowEnd(ws, i, side) \in (i + 1)..Len(ws)
<1> DEFINE worst(k) == WorstAspect(ws, i, k, side)
           Stop(j) == j = Len(ws) \/ ~Leq(worst(j + 1), worst(j))
           Good(j) == (\A k \in (i + 1)..(j - 1) : Leq(worst(k + 1), worst(k))) /\ Stop(j)
           S == {j \in (i + 1)..Len(ws) : Stop(j)}
<1>1. PICK j \in S : \A k \in S : j <= k
  <2>1. S \subseteq Nat /\ Len(ws) \in S
    OBVIOUS
  <2> HIDE DEF S
  <2> QED  BY <2>1, LeastNumber
<1>2. j \in (i + 1)..Len(ws) /\ Stop(j)
  BY <1>1
<1>3. ASSUME NEW k \in (i + 1)..(j - 1) PROVE Leq(worst(k + 1), worst(k))
  <2>1. k \in (i + 1)..Len(ws) /\ ~(j <= k)
    BY <1>2
  <2>2. k \notin S
    BY <1>1, <2>1
  <2> QED  BY <2>1, <2>2
<1>4. RowEnd(ws, i, side) = CHOOSE n \in (i + 1)..Len(ws) : Good(n)
  BY DEF RowEnd
<1>5. Good(j)
  BY <1>2, <1>3
<1> HIDE DEF Good
<1> QED  BY <1>2, <1>4, <1>5

\* What has been laid does not overlap and is before what is left.
Tiled(ws, s) ==
  /\ s.laid \in Seq(Rect) /\ Len(s.laid) <= Len(ws) /\ IsLeft(ws, Len(s.laid), s.rest)
  /\ \A k \in 1..Len(s.laid) : IsCell(ws, s.laid[k], k) /\ Before(s.laid[k], s.rest)
  /\ \A k, l \in 1..Len(s.laid) : k < l => Before(s.laid[k], s.laid[l])

LEMMA RoundKeeps ==
  ASSUME NEW ws \in Seq(Nat \ {0}), NEW s, Tiled(ws, s)
  PROVE  /\ Tiled(ws, WithRow(ws, s))
         /\ Len(s.laid) = Len(ws) \/ Len(s.laid) < Len(WithRow(ws, s).laid)
<1>1. CASE Len(s.laid) = Len(ws)
  <2>1. WithRow(ws, s) = s
    BY <1>1 DEF WithRow
  <2> QED  BY <1>1, <2>1
<1>2. CASE Len(s.laid) # Len(ws)
  <2> DEFINE i == Len(s.laid)
             side == Smaller(s.rest.w, s.rest.h)
             j == RowEnd(ws, i, side)
             t == Over(AreaOf(ws, i, j), side)
             c(k) == RowCell(ws, i, k, s.rest, t)
             row == [k \in 1..(j - i) |-> c(i + k)]
             z == s.laid \o row
             r == Rest(s.rest, t)
  <2>1. /\ s.laid \in Seq(Rect) /\ i \in 0..(Len(ws) - 1) /\ Len(ws) \in Nat
        /\ IsLeft(ws, i, s.rest) /\ s.rest \in Rect
    BY <1>2 DEF Tiled, IsLeft
  <2>2. j \in (i + 1)..Len(ws)
    <3> HIDE DEF i, side
    <3> QED  BY <2>1, RowEnds
  <2>3. WithRow(ws, s) = [laid |-> z, rest |-> r]
    BY <1>2 DEF WithRow
  <2>4. /\ \A k \in (i + 1)..j : IsCell(ws, c(k), k) /\ Within(c(k), s.rest) /\ Before(c(k), r)
        /\ \A k, l \in (i + 1)..j : k < l => Before(c(k), c(l))
        /\ IsLeft(ws, j, r) /\ Within(r, s.rest)
    <3> HIDE DEF i, j
    <3> QED  BY <2>1, <2>2, RowLaid
  <2>5. \A k \in 1..i : IsCell(ws, s.laid[k], k) /\ Before(s.laid[k], s.rest) /\ s.laid[k] \in Rect
    BY <2>1 DEF Tiled
  <2>6. \A k, l \in 1..i : k < l => Before(s.laid[k], s.laid[l])
    BY DEF Tiled
  <2> HIDE DEF j, t, c, r
  <2>7. \A k \in (i + 1)..j : c(k) \in Rect
    BY <2>4 DEF IsCell
  <2>8. row \in Seq(Rect) /\ Len(row) = j - i
    <3>1. j - i \in Nat /\ \A k \in 1..(j - i) : i + k \in (i + 1)..j
      BY <2>1, <2>2
    <3>2. row \in [1..(j - i) -> Rect]
      BY <2>7, <3>1
    <3>3. \A n \in Nat : \A q \in [1..n -> Rect] : q \in Seq(Rect) /\ Len(q) = n
      OBVIOUS
    <3> HIDE DEF row
    <3> QED  BY <3>1, <3>2, <3>3
  <2>9. /\ z \in Seq(Rect) /\ Len(z) = j
        /\ \A k \in 1..j : z[k] = IF k <= i THEN s.laid[k] ELSE c(k)
    <3>1. i \in Nat /\ j \in Nat /\ i + (j - i) = j
      BY <2>1, <2>2
    <3>2. z \in Seq(Rect) /\ Len(z) = j
      <4> HIDE DEF row
      <4> QED  BY <2>1, <2>8, <3>1
    <3>3. ASSUME NEW k \in 1..j PROVE z[k] = IF k <= i THEN s.laid[k] ELSE row[k - i]
      <4> HIDE DEF row
      <4> QED  BY <2>1, <2>8, <3>1
    <3>4. ASSUME NEW k \in 1..j, ~(k <= i) PROVE row[k - i] = c(k)
      <4>1. k - i \in 1..(j - i) /\ i + (k - i) = k
        BY <3>1, <3>4
      <4> QED  BY <4>1
    <3> QED  BY <3>2, <3>3, <3>4
  <2> HIDE DEF z, row
  <2>10. r \in Rect
    BY <2>4 DEF IsLeft
  <2>11. \A k \in 1..j : (k <= i /\ k \in 1..i) \/ (~(k <= i) /\ k \in (i + 1)..j)
    BY <2>1
  <2>12. ASSUME NEW k \in 1..j PROVE IsCell(ws, z[k], k) /\ Before(z[k], r)
    <3>1. CASE k <= i
      <4>1. k \in 1..i /\ z[k] = s.laid[k]
        BY <2>9, <2>11, <3>1
      <4> QED  BY <2>1, <2>4, <2>5, <2>10, <4>1, BeforeWithin
    <3>2. CASE ~(k <= i)
      <4>1. k \in (i + 1)..j /\ z[k] = c(k)
        BY <2>9, <2>11, <3>2
      <4> QED  BY <2>4, <4>1
    <3> QED  BY <3>1, <3>2
  <2>13. ASSUME NEW k \in 1..j, NEW l \in 1..j, k < l PROVE Before(z[k], z[l])
    <3>1. CASE k <= i /\ l <= i
      <4>1. k \in 1..i /\ l \in 1..i /\ z[k] = s.laid[k] /\ z[l] = s.laid[l]
        BY <2>9, <2>11, <3>1
      <4> QED  BY <2>6, <2>13, <4>1
    <3>2. CASE k <= i /\ ~(l <= i)
      <4>1. k \in 1..i /\ l \in (i + 1)..j /\ z[k] = s.laid[k] /\ z[l] = c(l)
        BY <2>9, <2>11, <3>2
      <4> QED  BY <2>1, <2>4, <2>5, <2>7, <4>1, BeforeWithin
    <3>3. CASE ~(k <= i)
      <4>1. ~(l <= i)
        BY <2>1, <2>13, <3>3
      <4>2. k \in (i + 1)..j /\ l \in (i + 1)..j /\ z[k] = c(k) /\ z[l] = c(l)
        BY <2>9, <2>11, <3>3, <4>1
      <4> QED  BY <2>4, <2>13, <4>2
    <3> QED  BY <3>1, <3>2, <3>3
  <2>14. j <= Len(ws) /\ i < j
    BY <2>1, <2>2
  <2>15. Tiled(ws, [laid |-> z, rest |-> r])
    BY <2>4, <2>9, <2>12, <2>13, <2>14 DEF Tiled
  <2> QED  BY <2>3, <2>9, <2>14, <2>15
<1> QED  BY <1>1, <1>2

-----------------------------------------------------------------------------
(* Treemap: the rounds. *)

Start == [laid |-> <<>>, rest |-> Box]
AreRounds(t, ws, m) == t = [n \in 0..m |-> IF n = 0 THEN Start ELSE WithRow(ws, t[n - 1])]

LEMMA RoundsExist ==
  ASSUME NEW ws, NEW m \in Nat
  PROVE  \E t : AreRounds(t, ws, m)
<1> DEFINE G == {n \in Nat : \E t : AreRounds(t, ws, n)}
<1>1. 0 \in G
  <2> DEFINE t == [n \in 0..0 |-> Start]
  <2>1. AreRounds(t, ws, 0)
    BY DEF AreRounds
  <2> QED  BY <2>1
<1>2. ASSUME NEW n \in Nat, n \in G PROVE n + 1 \in G
  <2>1. PICK t : AreRounds(t, ws, n)
    BY <1>2
  <2> DEFINE u == [k \in 0..(n + 1) |-> IF k = n + 1 THEN WithRow(ws, t[n]) ELSE t[k]]
  <2>2. \A k \in 0..n : t[k] = IF k = 0 THEN Start ELSE WithRow(ws, t[k - 1])
    BY <2>1 DEF AreRounds
  <2>3. \A k \in 0..(n + 1) : u[k] = IF k = 0 THEN Start ELSE WithRow(ws, u[k - 1])
    <3> SUFFICES ASSUME NEW k \in 0..(n + 1)
                 PROVE  u[k] = IF k = 0 THEN Start ELSE WithRow(ws, u[k - 1])
      OBVIOUS
    <3>1. k # 0 => k - 1 \in 0..n /\ k - 1 \in 0..(n + 1) /\ k - 1 # n + 1
      OBVIOUS
    <3>2. k # 0 => u[k - 1] = t[k - 1]
      BY <3>1
    <3>3. CASE k = n + 1
      <4>1. u[k] = WithRow(ws, t[n]) /\ k # 0 /\ k - 1 = n
        BY <3>3
      <4> HIDE DEF u
      <4> QED  BY <3>2, <4>1
    <3>4. CASE k # n + 1
      <4>1. u[k] = t[k] /\ k \in 0..n
        BY <3>4
      <4> HIDE DEF u
      <4> QED  BY <2>2, <3>2, <4>1
    <3> QED  BY <3>3, <3>4
  <2>4. u = [k \in 0..(n + 1) |-> u[k]]
    OBVIOUS
  <2> HIDE DEF u
  <2>5. AreRounds(u, ws, n + 1)
    BY <2>3, <2>4 DEF AreRounds
  <2> QED  BY <2>5
<1> HIDE DEF G
<1>3. m \in G
  BY <1>1, <1>2, AllNumbers
<1> QED  BY <1>3 DEF G

\* As many rounds as there are weights lay all of them.
LEMMA AllLaid ==
  ASSUME NEW ws \in Seq(Nat \ {0}), ws # <<>>
  PROVE  \E s : Squarify(ws) = s.laid /\ Tiled(ws, s) /\ Len(s.laid) = Len(ws)
<1> DEFINE N == Len(ws)
           t == CHOOSE t : AreRounds(t, ws, N)
<1>1. N \in Nat
  OBVIOUS
<1>2. AreRounds(t, ws, N)
  <2> HIDE DEF N
  <2> QED  BY <1>1, RoundsExist
<1>3. Squarify(ws) = t[N].laid
  BY DEF Squarify, AreRounds, Start
<1> HIDE DEF t
<1>4. /\ t[0] = Start
      /\ \A n \in Nat : n + 1 <= N => t[n + 1] = WithRow(ws, t[n])
  <2>1. \A n \in 0..N : t[n] = IF n = 0 THEN Start ELSE WithRow(ws, t[n - 1])
    BY <1>2 DEF AreRounds
  <2>2. \A n \in Nat : n + 1 <= N => n + 1 \in 0..N /\ n + 1 # 0 /\ (n + 1) - 1 = n
    BY <1>1
  <2> QED  BY <1>1, <2>1, <2>2
<1>5. Tiled(ws, Start)
  <2> DEFINE P == BoxW * BoxH
             T == Total(ws)
  <2>1. T \in Nat /\ BoxW \in Nat /\ BoxH \in Nat /\ P \in Nat
    <3>1. N \in 1..N
      BY <1>1
    <3>2. T \in Nat \ {0}
      BY <3>1, AreaIs
    <3> QED  BY <3>2, TreemapAssumption
  <2>2. /\ Of(<<0, 1>>, 0, 1) /\ Of(<<BoxW, 1>>, BoxW, 1) /\ Of(<<BoxH, 1>>, BoxH, 1)
        /\ <<0, 1>> \in Frac /\ <<BoxW, 1>> \in Frac /\ <<BoxH, 1>> \in Frac
    BY <2>1 DEF Of, Frac
  <2>3. Box \in Rect
    BY <2>2 DEF Box, Rect
  <2>4. BoxW * BoxH * T = P * (T - SumTo(ws, 0)) * (1 * 1)
    <3>1. SumTo(ws, 0) = 0
      BY SumSteps
    <3> HIDE DEF T
    <3> QED  BY <2>1, <3>1
  <2>5. IsSpan(Box.x, Box.w, 0, BoxW, BoxW, 1) /\ IsSpan(Box.y, Box.h, 0, BoxH, BoxH, 1)
    BY <2>1, <2>2 DEF IsSpan, Box
  <2>6. Measured(ws, 0, Box, 1, 0, 0, BoxW, BoxH)
    BY <2>4, <2>5 DEF Measured
  <2>7. IsLeft(ws, 0, Box)
    BY <2>1, <2>3, <2>6 DEF IsLeft
  <2>8. Start.laid = <<>> /\ Start.rest = Box /\ Len(<<>>) = 0 /\ <<>> \in Seq(Rect)
    BY DEF Start
  <2> QED  BY <1>1, <2>7, <2>8 DEF Tiled
<1> HIDE DEF N
<1> DEFINE All(n) == Tiled(ws, t[n]) /\ n <= Len(t[n].laid)
           G == {n \in Nat : n <= N => All(n)}
<1>6. 0 \in G
  <2>1. Len(t[0].laid) = 0
    BY <1>4 DEF Start
  <2> QED  BY <1>4, <1>5, <2>1
<1>7. ASSUME NEW n \in Nat, n \in G PROVE n + 1 \in G
  <2> SUFFICES ASSUME n + 1 <= N PROVE All(n + 1)
    OBVIOUS
  <2>1. All(n)
    BY <1>1, <1>7
  <2>2. t[n + 1] = WithRow(ws, t[n])
    BY <1>4
  <2>3. /\ Tiled(ws, t[n + 1])
        /\ Len(t[n].laid) = N \/ Len(t[n].laid) < Len(t[n + 1].laid)
    BY <2>1, <2>2, RoundKeeps DEF N
  <2>4. \A s : Tiled(ws, s) => Len(s.laid) \in Nat /\ Len(s.laid) <= N
    BY DEF Tiled, N
  <2>5. CASE Len(t[n].laid) = N
    <3>1. t[n + 1] = t[n]
      BY <2>2, <2>5 DEF WithRow, N
    <3> QED  BY <2>1, <2>5, <3>1
  <2>6. CASE Len(t[n].laid) < Len(t[n + 1].laid)
    <3>1. Len(t[n].laid) \in Nat /\ Len(t[n + 1].laid) \in Nat
      BY <2>1, <2>3, <2>4
    <3> QED  BY <2>1, <2>3, <2>6, <3>1
  <2> QED  BY <2>3, <2>5, <2>6
<1>8. All(N)
  <2>1. N \in G
    <3> HIDE DEF G
    <3> QED  BY <1>1, <1>6, <1>7, AllNumbers
  <2> QED  BY <1>1, <2>1
<1>9. Len(t[N].laid) = N
  BY <1>1, <1>8 DEF Tiled, N
<1> QED  BY <1>3, <1>8, <1>9 DEF N

TreemapSpec == TreemapInit /\ [][TreemapNext]_weights

\* The map is tiled, whatever the weights and the box are: every cell has its share of the
\* area, stays inside and overlaps no other (treemap.ts:11).
THEOREM TreemapInvariant == TreemapSpec => []TilesContainer
<1>1. TreemapInit => TreemapTypeOK
  BY DEF TreemapInit, TreemapTypeOK
<1>2. TreemapTypeOK /\ [TreemapNext]_weights => TreemapTypeOK'
  <2> SUFFICES ASSUME TreemapTypeOK, [TreemapNext]_weights PROVE TreemapTypeOK'
    OBVIOUS
  <2>1. CASE TreemapNext
    <3>1. PICK w \in 1..TopWeight : weights' = Append(weights, w)
      BY <2>1 DEF TreemapNext, AddWeight
    <3> QED  BY <3>1 DEF TreemapTypeOK
  <2>2. CASE UNCHANGED weights
    BY <2>2 DEF TreemapTypeOK
  <2> QED  BY <2>1, <2>2
<1>3. TreemapTypeOK => TilesContainer
  <2> SUFFICES ASSUME TreemapTypeOK, weights # <<>> PROVE TilesContainer
    BY DEF TilesContainer
  <2>1. weights \in Seq(Nat \ {0})
    BY TreemapAssumption DEF TreemapTypeOK
  <2>2. PICK s : Squarify(weights) = s.laid /\ Tiled(weights, s) /\ Len(s.laid) = Len(weights)
    BY <2>1, AllLaid
  <2> DEFINE rs == s.laid
  <2>3. /\ DOMAIN rs = 1..Len(rs) /\ Len(rs) = Len(weights)
        /\ \A k \in 1..Len(rs) : IsCell(weights, rs[k], k)
        /\ \A k, l \in 1..Len(rs) : k < l => Before(rs[k], rs[l])
    BY <2>2 DEF Tiled
  <2> HIDE DEF rs
  <2>4. Squarify(weights) = rs
    BY <2>2 DEF rs
  <2> QED  BY <2>3, <2>4 DEF TilesContainer, AreTiles, IsCell, Before, Right, Bottom
<1> QED  BY <1>1, <1>2, <1>3, PTL DEF TreemapSpec
=============================================================================
