-------------------------------- MODULE Ops ---------------------------------
(***************************************************************************)
(* The observability tab (ObservabilityPanel.tsx, prometheus.ts): every    *)
(* ten seconds it reads the backend's /metrics and then /health, and, side *)
(* by side, Prometheus' targets, alerts and rates.  A refresh does not     *)
(* wait for the one before, so their answers may come in any order.        *)
(*                                                                         *)
(* The alerts a read returns are the moment it was served at; they fire at *)
(* the odd moments.  What the other reads return is irrelevant here.       *)
(***************************************************************************)
EXTENDS Naturals

CONSTANTS
    Refreshes,   \* bound: refreshes in flight
    MaxMoment    \* bound: moments of the monitored system

ASSUME OpsAssumption == Refreshes # {} /\ MaxMoment \in Nat

VARIABLES
    opsUp,     \* the tab is open
    moment,
    self,      \* per refresh the step of loadMetrics: "idle", "metrics", "health"
    prom,      \* per refresh the reads of loadProm: which are back, and the alerts
    promBusy,  \* the refreshes whose loadProm is under way
    vitals, metricsError, healthy,   \* whether vitals and health are known
    board,     \* per part the refresh it is from, or "none"
    shownAlerts, promError

opsVars  == <<opsUp, moment, self, prom, promBusy, vitals, metricsError, healthy,
              board, shownAlerts, promError>>
selfVars == <<self, vitals, metricsError, healthy>>
promVars == <<prom, promBusy, board, shownAlerts, promError>>

Parts   == {"targets", "alerts", "rates"}
Moments == 0..MaxMoment
Firing(m) == m % 2 = 1
NoReads == [back |-> {}, alerts |-> 0]
NoBoard == [p \in Parts |-> "none"]

\* The tab is mounted: the first refresh starts.
EnterOps(first) ==
    /\ ~opsUp /\ opsUp' = TRUE /\ UNCHANGED moment
    /\ self' = [r \in Refreshes |-> IF r = first THEN "metrics" ELSE "idle"]
    /\ prom' = [r \in Refreshes |-> NoReads] /\ promBusy' = {first}
    /\ UNCHANGED <<vitals, metricsError, healthy, board, shownAlerts, promError>>

-----------------------------------------------------------------------------
(* Refreshing. *)

\* The interval.  (A refresh in flight keeps its number: a free one is taken.)
Refresh(r) ==
    /\ opsUp /\ self[r] = "idle" /\ r \notin promBusy
    /\ self' = [self EXCEPT ![r] = "metrics"]
    /\ promBusy' = promBusy \cup {r} /\ prom' = [prom EXCEPT ![r] = NoReads]
    /\ UNCHANGED <<opsUp, moment, vitals, metricsError, healthy, board, shownAlerts, promError>>

\* Leaving aborts every request and unmounts the state.
LeaveOps ==
    /\ opsUp /\ opsUp' = FALSE
    /\ self' = [r \in Refreshes |-> "idle"] /\ promBusy' = {}
    /\ prom' = [r \in Refreshes |-> NoReads]
    /\ vitals' = FALSE /\ metricsError' = FALSE /\ healthy' = FALSE
    /\ board' = NoBoard /\ shownAlerts' = 0 /\ promError' = FALSE
    /\ UNCHANGED moment

MomentPasses ==
    /\ moment < MaxMoment /\ moment' = moment + 1
    /\ UNCHANGED opsUp /\ UNCHANGED selfVars /\ UNCHANGED promVars

-----------------------------------------------------------------------------
(* The service about itself: loadMetrics. *)

MutMetricsAnswer(r, ok) ==
    /\ self[r] = "metrics" /\ r \notin promBusy
    /\ self' = [self EXCEPT ![r] = "health"]
    /\ vitals' = (vitals \/ ok)
    /\ metricsError' = ~ok
    /\ UNCHANGED <<opsUp, moment, healthy>> /\ UNCHANGED promVars

\* /metrics is answered or fails; /health is asked in either case.
MetricsAnswer(r, ok) ==
    /\ self[r] = "metrics"
    /\ self' = [self EXCEPT ![r] = "health"]
    /\ vitals' = (vitals \/ ok)
    /\ metricsError' = ~ok
    /\ UNCHANGED <<opsUp, moment, healthy>> /\ UNCHANGED promVars

HealthAnswer(r) ==
    /\ self[r] = "health"
    /\ self' = [self EXCEPT ![r] = "idle"]
    /\ healthy' = TRUE
    /\ UNCHANGED <<opsUp, moment, vitals, metricsError>> /\ UNCHANGED promVars

-----------------------------------------------------------------------------
(* Prometheus: loadProm. *)

MutPromServe(r, p) ==
    /\ r \in promBusy /\ p \notin prom[r].back
    /\ prom' = [prom EXCEPT ![r].back = @ \cup {p},
                            ![r].alerts = IF p = "alerts" THEN moment ELSE @]
    /\ board' = [board EXCEPT ![p] = r]
    /\ shownAlerts' = prom'[r].alerts
    /\ UNCHANGED <<opsUp, moment, promBusy, promError>> /\ UNCHANGED selfVars

\* promTargets, promAlerts or the promQuerys: each a request of its own.
PromServe(r, p) ==
    /\ r \in promBusy /\ p \notin prom[r].back
    /\ prom' = [prom EXCEPT ![r].back = @ \cup {p},
                            ![r].alerts = IF p = "alerts" THEN moment ELSE @]
    /\ UNCHANGED <<opsUp, moment, promBusy, board, shownAlerts, promError>> /\ UNCHANGED selfVars

MutPromDone(r) ==
    /\ r \in promBusy /\ prom[r].back = Parts
    /\ promBusy' = promBusy \ {r} /\ prom' = [prom EXCEPT ![r] = NoReads]
    /\ board' = [p \in Parts |-> r]
    /\ shownAlerts' = IF board = NoBoard THEN prom[r].alerts ELSE shownAlerts
    /\ promError' = FALSE
    /\ UNCHANGED <<opsUp, moment>> /\ UNCHANGED selfVars

\* Promise.all has all of them: the three parts change together.
PromDone(r) ==
    /\ r \in promBusy /\ prom[r].back = Parts
    /\ promBusy' = promBusy \ {r} /\ prom' = [prom EXCEPT ![r] = NoReads]
    /\ board' = [p \in Parts |-> r] /\ shownAlerts' = prom[r].alerts
    /\ promError' = FALSE
    /\ UNCHANGED <<opsUp, moment>> /\ UNCHANGED selfVars

\* One of them failed: the message; what was shown stays.
PromFails(r) ==
    /\ r \in promBusy
    /\ promBusy' = promBusy \ {r} /\ prom' = [prom EXCEPT ![r] = NoReads]
    /\ promError' = TRUE
    /\ UNCHANGED <<opsUp, moment, board, shownAlerts>> /\ UNCHANGED selfVars

-----------------------------------------------------------------------------
(* What is on screen. *)

VitalsView  == IF metricsError THEN "unreachable" ELSE IF vitals THEN "numbers" ELSE "dashes"
RatesView   == IF promError THEN "down" ELSE IF board["rates"] = "none" THEN "dashes" ELSE "numbers"
TargetsView == IF board["targets"] = "none" THEN "none reported" ELSE "table"
AlertsView  == IF Firing(shownAlerts) THEN "table"
               ELSE IF promError THEN "unavailable" ELSE "nominal"

OpsInit ==
    /\ opsUp = FALSE /\ moment = 0
    /\ self = [r \in Refreshes |-> "idle"] /\ prom = [r \in Refreshes |-> NoReads]
    /\ promBusy = {} /\ vitals = FALSE /\ metricsError = FALSE /\ healthy = FALSE
    /\ board = NoBoard /\ shownAlerts = 0 /\ promError = FALSE

PromStep(r) == PromDone(r) \/ PromFails(r) \/ \E p \in Parts : PromServe(r, p)
SelfStep(r) == HealthAnswer(r) \/ \E ok \in BOOLEAN : MetricsAnswer(r, ok)

OpsNext ==
    \/ LeaveOps \/ MomentPasses
    \/ \E r \in Refreshes : EnterOps(r) \/ Refresh(r) \/ PromStep(r) \/ SelfStep(r)

-----------------------------------------------------------------------------
(* Properties. *)

\* Types; nothing is in flight for a closed tab.
OpsTypeOK ==
    /\ moment \in Moments /\ promBusy \subseteq Refreshes
    /\ \A r \in Refreshes : self[r] \in {"idle", "metrics", "health"} /\ prom[r].back \subseteq Parts
    /\ shownAlerts \in Moments
    /\ ~opsUp => promBusy = {} /\ \A r \in Refreshes : self[r] = "idle"

\* Targets, alerts and rates on screen were read by one refresh, however the answers
\* of overlapping refreshes interleave.
BoardOfOneRefresh == \A p, q \in Parts : board[p] = board[q]

\* However refreshes overlap and whenever the tab is left, nothing is torn or left over.
OpsInv == OpsTypeOK /\ BoardOfOneRefresh

\* "The Ops tab degrades to the first when the second is unreachable"
\* (prometheus.ts:7): while the tab stays open the vitals and the health appear, or an
\* error does, though Prometheus may never answer.
VitalsArrive ==
    opsUp ~> (~opsUp \/ (VitalsView # "dashes" /\ healthy))

PrometheusAnswers == \A r \in Refreshes : WF_opsVars(PromStep(r))

\* An answer of an older refresh may replace a newer one, but not for good: once the
\* monitored system has settled, so do the alerts shown, as long as Prometheus answers.
AlertsSettle ==
    PrometheusAnswers => [](moment = MaxMoment =>
         <>[](~opsUp \/ promError \/ board = NoBoard \/ shownAlerts = MaxMoment))
=============================================================================
