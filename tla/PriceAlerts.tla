---------------------------- MODULE PriceAlerts -----------------------------
(***************************************************************************)
(* The price alerts of the desk tab (PriceAlerts.tsx) over React's         *)
(* scheduling: an effect that is due runs after the render that made it    *)
(* due, but before the next one; a click renders at once, so an evaluation *)
(* still due at a click runs between the click's update and its render,    *)
(* on the list as it was before the click.                                 *)
(*                                                                         *)
(* One pair is priced; 0 is a price not known yet.  The alert list is a    *)
(* function from identifiers, for its order does not matter.               *)
(***************************************************************************)
EXTENDS Naturals

CONSTANTS
    MaxAlerts,  \* bound: alerts ever added
    MaxPrice    \* bound: prices and thresholds are 1..MaxPrice

ASSUME AlertAssumption == MaxAlerts \in Nat /\ MaxPrice \in Nat

VARIABLES
    up,        \* the desk tab is mounted
    list,      \* alerts, as rendered
    pending,   \* a setAlerts(next) not rendered yet, as a set of at most one list
    due,       \* the effects of the last render have not run
    fired,     \* firedRef
    price,     \* priceOf, as rendered
    perm,      \* notification permission granted
    saved,     \* "cw.alerts" in localStorage
    added,     \* alerts ever added
    notes,     \* history: notifications of each alert since it was armed or mounted
    sure       \* history: what a click with no evaluation due made of an alert

alertVars == <<up, list, pending, due, fired, price, perm, saved, added, notes, sure>>

AlertIds == 1..MaxAlerts
Alert    == [dir : {"above", "below"}, at : 1..MaxPrice, hit : BOOLEAN]
AlertLists == UNION {[ids -> Alert] : ids \in SUBSET AlertIds}
NoAlerts == [i \in {} |-> 0]

AlertsInit ==
    /\ up = TRUE /\ list = NoAlerts /\ pending = {} /\ due = TRUE /\ fired = {}
    /\ price = 0 /\ perm = FALSE /\ saved = NoAlerts /\ added = 0
    /\ notes = [i \in AlertIds |-> 0] /\ sure = [i \in AlertIds |-> "unknown"]

-----------------------------------------------------------------------------
(* The evaluation effect, on the rendered list and price. *)

Crossed(a) == /\ price # 0
              /\ IF a.dir = "above" THEN price >= a.at ELSE price <= a.at

\* The alerts this evaluation triggers.
Hits == {i \in DOMAIN list : Crossed(list[i]) /\ ~list[i].hit}

Marked == [i \in DOMAIN list |-> [list[i] EXCEPT !.hit = @ \/ i \in Hits]]

\* notify(), once per alert that is not in firedRef.
Notify ==
    /\ fired' = fired \cup Hits
    /\ notes' = [i \in AlertIds |->
                    IF perm /\ i \in Hits \ fired THEN notes[i] + 1 ELSE notes[i]]

MutRunEffects ==
    /\ up /\ due
    /\ due' = FALSE
    /\ saved' = list
    /\ notes' = [i \in AlertIds |-> IF perm /\ i \in Hits THEN notes[i] + 1 ELSE notes[i]]
    /\ UNCHANGED <<up, list, pending, fired, price, perm, added, sure>>

\* The effects of a render: useLocalState saves the list, then it is evaluated.
RunEffects ==
    /\ up /\ due
    /\ due' = FALSE
    /\ saved' = list
    /\ Notify
    /\ pending' = IF Hits = {} THEN {} ELSE {Marked}
    /\ UNCHANGED <<up, list, price, perm, added, sure>>

\* The list as the updates enqueued so far make it.
Current == IF pending = {} THEN list ELSE CHOOSE l \in pending : TRUE

\* The render of a setAlerts(next).
RenderPending ==
    /\ up /\ pending # {}
    /\ list' = Current /\ pending' = {} /\ due' = TRUE
    /\ UNCHANGED <<up, fired, price, perm, saved, added, notes, sure>>

MutPriceTick(p) ==
    /\ up /\ ~due /\ p # price
    /\ price' = p
    /\ list' = Current /\ pending' = {} /\ due' = (pending # {})
    /\ UNCHANGED <<up, fired, perm, saved, added, notes, sure>>

\* A live tick renders, with whatever was enqueued; its effects are due.
PriceTick(p) ==
    /\ up /\ ~due /\ p # price
    /\ price' = p
    /\ list' = Current /\ pending' = {} /\ due' = TRUE
    /\ UNCHANGED <<up, fired, perm, saved, added, notes, sure>>

-----------------------------------------------------------------------------
(* Clicks. *)

\* The list after a click that enqueues the updater f.  An evaluation still due
\* runs in between and, if something triggers, its list replaces f's.
AfterClick(f(_)) ==
    IF due THEN (IF Hits = {} THEN f(list) ELSE Marked) ELSE f(Current)

\* What a click does besides: forget firedRef entries, render, effects due again.
Click(f(_), armed) ==
    /\ up
    /\ list' = AfterClick(f) /\ pending' = {} /\ due' = TRUE
    /\ saved' = IF due THEN list ELSE saved
    /\ fired' = (fired \ armed) \cup (IF due THEN Hits ELSE {})
    /\ notes' = [i \in AlertIds |->
                    LET n == IF i \in armed THEN 0 ELSE notes[i]
                    IN  IF due /\ perm /\ i \in Hits \ (fired \ armed) THEN n + 1 ELSE n]
    /\ UNCHANGED <<up, price, perm>>

Without(l, id) == [i \in DOMAIN l \ {id} |-> l[i]]

AddAlert(a) ==
    LET id == added + 1
        add(l) == [i \in DOMAIN l \cup {id} |-> IF i = id THEN a ELSE l[i]]
    IN  /\ added < MaxAlerts
        /\ Click(add, {})
        /\ added' = id
        /\ sure' = IF due THEN sure ELSE [sure EXCEPT ![id] = "present"]

RemoveAlert(id) ==
    LET remove(l) == Without(l, id)
    IN  /\ id \in DOMAIN list
        /\ Click(remove, {id})
        /\ sure' = [sure EXCEPT ![id] = IF due THEN "unknown" ELSE "absent"]
        /\ UNCHANGED added

Rearm(id) ==
    LET rearm(l) == [i \in DOMAIN l |-> IF i = id THEN [l[i] EXCEPT !.hit = FALSE] ELSE l[i]]
    IN  /\ id \in DOMAIN list /\ list[id].hit
        /\ Click(rearm, {id})
        /\ UNCHANGED <<added, sure>>

RequestPerm ==
    /\ up /\ ~perm
    /\ perm' = TRUE
    /\ UNCHANGED <<up, list, pending, due, fired, price, saved, added, notes, sure>>

\* Another tab is chosen: due effects run, an update not rendered is lost.
LeaveDesk ==
    /\ up
    /\ up' = FALSE /\ pending' = {} /\ due' = FALSE
    /\ saved' = IF due THEN list ELSE saved
    /\ IF due THEN Notify ELSE UNCHANGED <<fired, notes>>
    /\ UNCHANGED <<list, price, perm, added, sure>>

\* The desk again: the list is read back, refs start over, no price is known.
EnterDesk ==
    /\ ~up
    /\ up' = TRUE /\ list' = saved /\ due' = TRUE /\ fired' = {} /\ price' = 0
    /\ notes' = [i \in AlertIds |-> 0]
    /\ UNCHANGED <<pending, perm, saved, added, sure>>

AlertsNext ==
    \/ RunEffects \/ RenderPending \/ RequestPerm \/ LeaveDesk \/ EnterDesk
    \/ \E p \in 1..MaxPrice : PriceTick(p)
    \/ \E a \in [dir : {"above", "below"}, at : 1..MaxPrice, hit : {FALSE}] : AddAlert(a)
    \/ \E id \in AlertIds : RemoveAlert(id) \/ Rearm(id)

-----------------------------------------------------------------------------
(* Properties. *)

\* Types; an update waits to be rendered only after the effects that made it ran,
\* and then differs from what is rendered just by marks.
AlertsTypeOK ==
    /\ up \in BOOLEAN /\ due \in BOOLEAN /\ perm \in BOOLEAN
    /\ list \in AlertLists /\ saved \in AlertLists
    /\ fired \in SUBSET AlertIds /\ price \in 0..MaxPrice /\ added \in 0..MaxAlerts
    /\ notes \in [AlertIds -> Nat]
    /\ sure \in [AlertIds -> {"unknown", "present", "absent"}]
    /\ pending \subseteq AlertLists
    /\ pending # {} => ~due /\ \A l \in pending : DOMAIN l = DOMAIN list

\* "fire once per crossing" (PriceAlerts.tsx:49): while the desk stays open an alert
\* notifies at most once between two armings, whatever ticks, clicks and renders do.
NotifiedOnce == \A i \in AlertIds : notes[i] <= 1

\* setAlerts(next) writes a list computed from the rendered one.  A click made while
\* no evaluation is due is never undone by it: the alert it added stays, the one it
\* removed does not come back, here or in localStorage.
ClicksHold ==
    \A i \in AlertIds :
        /\ sure[i] = "present" => i \in DOMAIN list /\ (~due => i \in DOMAIN saved)
        /\ sure[i] = "absent"  => i \notin DOMAIN list /\ (~due => i \notin DOMAIN saved)

\* Alerts fire once, and clicks made while no evaluation is due hold, in every order of
\* ticks, effects, renders and clicks.
AlertsInv == AlertsTypeOK /\ NotifiedOnce /\ ClicksHold

\* An armed alert whose threshold the shown price has passed is triggered, unless it
\* is removed, the price moves away or the desk is left ("Evaluate on every live tick").
ArmedIsTriggered ==
    \A i \in AlertIds :
        (up /\ i \in DOMAIN list /\ Crossed(list[i]) /\ ~list[i].hit)
            ~> (~up \/ i \notin DOMAIN list \/ ~Crossed(list[i]) \/ list[i].hit)
=============================================================================
