------------------------------ MODULE Accounts ------------------------------
(***************************************************************************)
(* Who is signed in, and where the dashboard's settings live.              *)
(*                                                                         *)
(* One browser window: its localStorage, the sign-in gate (LoginGate), the *)
(* terminal with its tabs, the header's identity cell (AuthCell), the      *)
(* account panel with its push and pull (AccountPanel, cloud-sync) and the *)
(* panels that keep a setting in localStorage (useLocalState).  Opposite   *)
(* it the account API (auth.rs, users.rs), which other devices use too.    *)
(*                                                                         *)
(* Leaving a tab unmounts its panels, but not the requests they started:   *)
(* `mine' tells whether an operation still belongs to the mounted panel.   *)
(* Loading another page aborts every call the server has not served yet.   *)
(* A setting is the number of the edit that produced it and whether an     *)
(* alert has marked it since; what it says is irrelevant here.             *)
(***************************************************************************)
EXTENDS Integers, FiniteSets

CONSTANTS
    Users,      \* account names
    Keys,       \* SYNCED_KEYS
    KeyTab,     \* the tab whose panel keeps the key
    Alerts,     \* "cw.alerts", the key a price can change by itself
    None,       \* null
    MaxEdits,   \* bound: edits, on this device and elsewhere
    MaxOps      \* bound: operations in flight

VARIABLES
    session,   \* cw.token and cw.user: whose token is stored
    guest,     \* cw.guest
    stored,    \* the synced keys in localStorage
    page,      \* "arriving" at /login, the "gate", or the "terminal"
    tab,       \* Terminal's tab
    island,    \* useLocalState of each key
    cell,      \* AuthCell's session
    panel,     \* AccountPanel: mounted, session, busy
    ops,       \* cloud-sync calls in flight
    prefs,     \* user_prefs: per registered user its blob
    edits,     \* number of edits so far
    edited,    \* history: per key this window's last edit, if no pull replaced it
    pulled,    \* history: per key the edit the last pull brought, until edited
    fresh,     \* history: no pull has been applied since the terminal was loaded
    leaving    \* history: how the user last left for the gate

vars == <<session, guest, stored, page, tab, island, cell, panel, ops, prefs,
          edits, edited, pulled, fresh, leaving>>
screen  == <<page, tab, island, cell, panel>>
history == <<edits, edited, pulled, fresh, leaving>>

Tabs    == {"markets", "desk"}   \* the tabs whose panels keep a synced setting
Value   == [edit : 0..MaxEdits, hit : BOOLEAN]
Blob    == [Keys -> Value \cup {None}]
Slots   == 1..MaxOps
User    == Users \cup {None}
Island  == [up : BOOLEAN, settled : BOOLEAN, value : Value]
Panel   == [up : BOOLEAN, session : User, busy : BOOLEAN]
Op      == [at : {"none", "login", "register", "push", "pull"}, user : User,
            from : {"panel", "gate"}, mine : BOOLEAN, blob : Blob, reply : {"none", "ok", "err"}]
Default == [edit |-> 0, hit |-> FALSE]
Down    == [up |-> FALSE, settled |-> FALSE, value |-> Default]
NoPanel == [up |-> FALSE, session |-> None, busy |-> FALSE]
EmptyBlob == [k \in Keys |-> None]
NoOp    == [at |-> "none", user |-> None, from |-> "panel", mine |-> FALSE,
            blob |-> EmptyBlob, reply |-> "none"]
NoOps   == [i \in Slots |-> NoOp]

ASSUME AccountsAssumption ==
    /\ Alerts \in Keys
    /\ KeyTab \in [Keys -> {"markets", "desk"}]
    /\ None \notin Users /\ None \notin Value /\ None \notin Blob
    /\ MaxEdits \in Nat /\ MaxOps \in Nat \ {0}

Registered(u) == prefs[u] # None

Init ==
    /\ session = None /\ guest = FALSE /\ stored = EmptyBlob
    /\ page = "arriving" /\ tab = "markets"
    /\ island = [k \in Keys |-> Down] /\ cell = None /\ panel = NoPanel
    /\ ops = NoOps
    /\ prefs = [u \in Users |-> None]
    /\ edits = 0 /\ edited = [k \in Keys |-> 0] /\ pulled = [k \in Keys |-> 0]
    /\ fresh = TRUE /\ leaving = "none"

-----------------------------------------------------------------------------
(* Pages and tabs. *)

MutReadStored(k, s) == Default

\* useLocalState's first effect: what the key holds, else the initial value.
ReadStored(k, s) == IF s[k] = None THEN Default ELSE s[k]

\* The panels of tab t after mounting it with localStorage s.
Mounted(t, s) ==
    [k \in Keys |-> IF KeyTab[k] = t
                    THEN [up |-> TRUE, settled |-> FALSE, value |-> ReadStored(k, s)]
                    ELSE Down]

\* Loading "/" with session se, guest flag g and storage st: the inline script
\* sends a visitor who is neither to the gate; else the terminal starts over.
EnterTerminal(se, g, st) ==
    /\ page' = IF se = None /\ ~g THEN "arriving" ELSE "terminal"
    /\ tab' = "markets"
    /\ cell' = se
    /\ panel' = NoPanel
    /\ island' = Mounted("markets", st)
    /\ fresh' = TRUE

\* Loading "/login".
ToGate ==
    /\ page' = "arriving"
    /\ tab' = "markets" /\ cell' = None /\ panel' = NoPanel
    /\ island' = [k \in Keys |-> Down]
    /\ ops' = NoOps

\* LoginGate's effect: straight to the terminal when signed in or a guest.
GateEffect ==
    /\ page = "arriving"
    /\ IF session # None \/ guest
       THEN EnterTerminal(session, guest, stored)
       ELSE page' = "gate" /\ UNCHANGED <<tab, cell, panel, island, fresh>>
    /\ UNCHANGED <<session, guest, stored, ops, prefs, edits, edited, pulled, leaving>>

Reload ==
    /\ page = "terminal"
    /\ EnterTerminal(session, guest, stored)
    /\ ops' = NoOps
    /\ UNCHANGED <<session, guest, stored, prefs, edits, edited, pulled, leaving>>

\* A tab's panels unmount, another's mount and read their settings.
SetTab(t) ==
    /\ page = "terminal" /\ t # tab
    /\ tab' = t
    /\ island' = Mounted(t, stored)
    /\ panel' = IF t = "desk" THEN [NoPanel EXCEPT !.up = TRUE, !.session = session]
                              ELSE NoPanel
    /\ ops' = [i \in Slots |-> [ops[i] EXCEPT !.mine = FALSE]]
    /\ UNCHANGED <<session, guest, stored, page, cell, prefs, history>>

-----------------------------------------------------------------------------
(* Settings. *)

\* useLocalState's second effect, once loaded: the value read is written back.
Settle(k) ==
    /\ island[k].up /\ ~island[k].settled
    /\ island' = [island EXCEPT ![k].settled = TRUE]
    /\ stored' = [stored EXCEPT ![k] = island[k].value]
    /\ UNCHANGED <<session, guest, page, tab, cell, panel, ops, prefs, history>>

\* The user changes a setting (an alert, a holding, a favourite, a clock); the
\* click's render and its effect write it.
Edit(k) ==
    /\ island[k].up /\ edits < MaxEdits
    /\ edits' = edits + 1
    /\ LET v == [edit |-> edits + 1, hit |-> FALSE]
       IN  /\ island' = [island EXCEPT ![k].value = v, ![k].settled = TRUE]
           /\ stored' = [stored EXCEPT ![k] = v]
    /\ edited' = [edited EXCEPT ![k] = edits + 1]
    /\ pulled' = [pulled EXCEPT ![k] = 0]
    /\ UNCHANGED <<session, guest, page, tab, cell, panel, ops, prefs, fresh, leaving>>

\* PriceAlerts marks an alert of its list as triggered, which saves the list.
AlertHit ==
    /\ island[Alerts].up /\ island[Alerts].value.edit # 0 /\ ~island[Alerts].value.hit
    /\ LET v == [island[Alerts].value EXCEPT !.hit = TRUE]
       IN  /\ island' = [island EXCEPT ![Alerts].value = v, ![Alerts].settled = TRUE]
           /\ stored' = [stored EXCEPT ![Alerts] = v]
    /\ UNCHANGED <<session, guest, page, tab, cell, panel, ops, prefs, history>>

-----------------------------------------------------------------------------
(* Operations the user starts. *)

\* Slots are interchangeable: a call takes the first free one.
Start(i, op) ==
    /\ ops[i].at = "none" /\ \A j \in 1..(i - 1) : ops[j].at # "none"
    /\ ops' = [ops EXCEPT ![i] = op]
Call(kind, u, from) ==
    [NoOp EXCEPT !.at = kind, !.user = u, !.from = from, !.mine = TRUE]

GateBusy == \E i \in Slots : ops[i].from = "gate"

GateSubmit(i, kind, u) ==
    /\ page = "gate" /\ ~GateBusy
    /\ Start(i, Call(kind, u, "gate"))
    /\ leaving' = "none"
    /\ UNCHANGED <<session, guest, stored, screen, prefs, edits, edited, pulled, fresh>>

GateGuest ==
    /\ page = "gate" /\ ~GateBusy
    /\ guest' = TRUE
    /\ EnterTerminal(session, TRUE, stored)
    /\ ops' = NoOps
    /\ leaving' = "none"
    /\ UNCHANGED <<session, stored, prefs, edits, edited, pulled>>

\* AccountPanel's submit, in either mode; run() sets busy.
PanelSubmit(i, kind, u) ==
    /\ panel.up /\ ~panel.busy /\ panel.session = None
    /\ Start(i, Call(kind, u, "panel"))
    /\ panel' = [panel EXCEPT !.busy = TRUE]
    /\ UNCHANGED <<session, guest, stored, page, tab, island, cell, prefs, history>>

\* doPush and doPull; the body of a push is collected before it is sent.
PanelSync(i, kind) ==
    /\ panel.up /\ ~panel.busy /\ panel.session # None
    /\ Start(i, [Call(kind, panel.session, "panel") EXCEPT
                    !.blob = IF kind = "push" THEN stored ELSE EmptyBlob])
    /\ panel' = [panel EXCEPT !.busy = TRUE]
    /\ UNCHANGED <<session, guest, stored, page, tab, island, cell, prefs, history>>

\* SIGN OUT in the panel: the session goes, local data and the header stay.
PanelSignOut ==
    /\ panel.up /\ ~panel.busy /\ panel.session # None
    /\ session' = None
    /\ panel' = [panel EXCEPT !.session = None]
    /\ UNCHANGED <<guest, stored, page, tab, island, cell, ops, prefs, history>>

\* SIGN OUT in the header.
CellSignOut ==
    /\ page = "terminal" /\ cell # None
    /\ session' = None /\ guest' = FALSE
    /\ ToGate
    /\ leaving' = "signout"
    /\ UNCHANGED <<stored, prefs, edits, edited, pulled, fresh>>

\* The header's SIGN IN link, shown to a guest and to a visitor without session.
CellSignIn ==
    /\ page = "terminal" /\ cell = None
    /\ ToGate
    /\ leaving' = IF session = None THEN "signin" ELSE "none"
    /\ UNCHANGED <<session, guest, stored, prefs, edits, edited, pulled, fresh>>

-----------------------------------------------------------------------------
(* The account API.  A call may also fail: refused, expired, or not delivered. *)

Pending(i) == ops[i].at # "none" /\ ops[i].reply = "none"
Auth(i)    == ops[i].at \in {"login", "register"}

ServerAuth(i) ==
    LET u  == ops[i].user
        ok == (ops[i].at = "register") = ~Registered(u)
    IN  /\ Pending(i) /\ Auth(i)
        /\ ops' = [ops EXCEPT ![i].reply = IF ok THEN "ok" ELSE "err"]
        /\ prefs' = IF Registered(u) \/ ~ok THEN prefs
                    ELSE [prefs EXCEPT ![u] = EmptyBlob]
        /\ UNCHANGED <<session, guest, stored, screen, history>>

ServerPrefs(i) ==
    /\ Pending(i) /\ ops[i].at \in {"push", "pull"}
    /\ IF ops[i].at = "push"
       THEN /\ prefs' = [prefs EXCEPT ![ops[i].user] = ops[i].blob]
            /\ ops' = [ops EXCEPT ![i].reply = "ok", ![i].blob = EmptyBlob]
       ELSE /\ ops' = [ops EXCEPT ![i].reply = "ok", ![i].blob = prefs[ops[i].user]]
            /\ UNCHANGED prefs
    /\ UNCHANGED <<session, guest, stored, screen, history>>

\* An error status or no answer; the request may have been served all the same.
CallFails(i) ==
    /\ ops[i].at # "none" /\ ops[i].reply # "err"
    /\ ops' = [ops EXCEPT ![i].reply = "err", ![i].blob = EmptyBlob]
    /\ UNCHANGED <<session, guest, stored, screen, prefs, history>>

\* Another device of a registered user pushes an edit.
OtherDevice(u, k) ==
    /\ Registered(u) /\ edits < MaxEdits
    /\ edits' = edits + 1
    /\ prefs' = [prefs EXCEPT ![u][k] = [edit |-> edits + 1, hit |-> FALSE]]
    /\ UNCHANGED <<session, guest, stored, screen, ops, edited, pulled, fresh, leaving>>

-----------------------------------------------------------------------------
(* The answers, in the window. *)

Answered(i, reply) == ops[i].at # "none" /\ ops[i].reply = reply

\* authRequest succeeds: storeSession; then the panel pulls after a login and
\* pushes after a registration, the gate pulls after either.
AuthOk(i) ==
    /\ Answered(i, "ok") /\ Auth(i)
    /\ session' = ops[i].user
    /\ panel' = IF ops[i].mine /\ ops[i].from = "panel"
                THEN [panel EXCEPT !.session = ops[i].user] ELSE panel
    /\ LET at == IF ops[i].at = "register" /\ ops[i].from = "panel" THEN "push" ELSE "pull"
       IN  ops' = [ops EXCEPT ![i].at = at, ![i].reply = "none",
                              ![i].blob = IF at = "push" THEN stored ELSE EmptyBlob]
    /\ UNCHANGED <<guest, stored, page, tab, island, cell, prefs, history>>

\* applyPrefs: the keys the blob has replace the stored ones.
Applied(blob) == [k \in Keys |-> IF blob[k] = None THEN stored[k] ELSE blob[k]]

\* run()'s finally.
Release(i) == IF ops[i].mine THEN [panel EXCEPT !.busy = FALSE] ELSE panel

\* A pull's answer is applied; at the gate the terminal is entered with it.
PullOk(i) ==
    LET blob == ops[i].blob
        has(k) == blob[k] # None
    IN  /\ Answered(i, "ok") /\ ops[i].at = "pull"
        /\ stored' = Applied(blob)
        /\ edited' = [k \in Keys |-> IF has(k) THEN 0 ELSE edited[k]]
        /\ pulled' = [k \in Keys |-> IF has(k) THEN blob[k].edit ELSE pulled[k]]
        /\ IF ops[i].from = "gate"
           THEN EnterTerminal(session, guest, stored') /\ ops' = NoOps
           ELSE /\ ops' = [ops EXCEPT ![i] = NoOp]
                /\ panel' = Release(i)
                /\ fresh' = FALSE
                /\ UNCHANGED <<page, tab, island, cell>>
        /\ UNCHANGED <<session, guest, prefs, edits, leaving>>

PushOk(i) ==
    /\ Answered(i, "ok") /\ ops[i].at = "push"
    /\ ops' = [ops EXCEPT ![i] = NoOp]
    /\ panel' = Release(i)
    /\ UNCHANGED <<session, guest, stored, page, tab, island, cell, prefs, history>>

MutOpErr(i) ==
    /\ Answered(i, "err")
    /\ IF ops[i].from = "gate" /\ ~Auth(i)
       THEN EnterTerminal(session, guest, stored) /\ ops' = NoOps
       ELSE /\ ops' = [ops EXCEPT ![i] = NoOp]
            /\ UNCHANGED <<page, tab, island, cell, panel, fresh>>
    /\ UNCHANGED <<session, guest, stored, prefs, edits, edited, pulled, leaving>>

\* An error: the panel shows it; the gate shows it too, but enters the terminal
\* when only the pull has failed.
OpErr(i) ==
    /\ Answered(i, "err")
    /\ IF ops[i].from = "gate" /\ ~Auth(i)
       THEN EnterTerminal(session, guest, stored) /\ ops' = NoOps
       ELSE /\ ops' = [ops EXCEPT ![i] = NoOp]
            /\ panel' = Release(i)
            /\ UNCHANGED <<page, tab, island, cell, fresh>>
    /\ UNCHANGED <<session, guest, stored, prefs, edits, edited, pulled, leaving>>

-----------------------------------------------------------------------------
Answer(i) == AuthOk(i) \/ PullOk(i) \/ PushOk(i) \/ OpErr(i)
Serve(i)  == ServerAuth(i) \/ ServerPrefs(i)
\* A click's own render also completes the one that mounting started.
Settled   == \A k \in Keys : island[k].up => island[k].settled
Click     == \/ GateGuest \/ PanelSignOut \/ CellSignOut \/ CellSignIn \/ Reload
             \/ \E t \in Tabs : SetTab(t)
             \/ \E k \in Keys : Edit(k)
             \/ \E i \in Slots, kind \in {"login", "register"}, u \in Users :
                    GateSubmit(i, kind, u) \/ PanelSubmit(i, kind, u)
             \/ \E i \in Slots, kind \in {"push", "pull"} : PanelSync(i, kind)

Next == \/ (Settled /\ Click) \/ GateEffect \/ AlertHit
        \/ \E k \in Keys : Settle(k)
        \/ \E u \in Users, k \in Keys : OtherDevice(u, k)
        \/ \E i \in Slots : Serve(i) \/ CallFails(i) \/ Answer(i)

Spec == Init /\ [][Next]_vars

-----------------------------------------------------------------------------
(* Properties. *)

\* Every variable keeps its type.
TypeOK ==
    /\ session \in User /\ guest \in BOOLEAN /\ stored \in Blob
    /\ page \in {"arriving", "gate", "terminal"} /\ tab \in Tabs
    /\ island \in [Keys -> Island] /\ cell \in User /\ panel \in Panel
    /\ ops \in [Slots -> Op]
    /\ prefs \in [Users -> Blob \cup {None}]
    /\ edits \in 0..MaxEdits
    /\ edited \in [Keys -> 0..MaxEdits] /\ pulled \in [Keys -> 0..MaxEdits]
    /\ fresh \in BOOLEAN /\ leaving \in {"none", "signin", "signout"}

\* A setting the user changed is never lost to mounting, unmounting, reloading,
\* an alert that fires or a sign-out: only a pull that brings the key replaces it
\* (useLocalState writes nothing before it has read).
EditsSurvive == \A k \in Keys : edited[k] # 0 => stored[k] # None /\ stored[k].edit = edited[k]

\* Until a pull is applied under the terminal's feet, what every mounted panel
\* shows is what localStorage holds: the gate pulls before the panels mount.
PanelsMirrorStorage ==
    fresh => \A k \in Keys :
        island[k].up => island[k].value = ReadStored(k, stored)

\* A stored session names an account that exists, whatever order answers, sign-outs
\* and page loads come in: authRequest stores it only after res.ok.
SessionIsReal == session # None => Registered(session)

\* Signing out in the header ends at the gate, guest flag or not: "Signing out
\* clears the guest flag too, otherwise the gate would be skipped" (AuthCell.tsx:12).
SignOutReachesGate == leaving = "signout" => page # "terminal"

\* The account panel is busy exactly while a call of the mounted panel is in flight:
\* run() releases it however the call ends, and the answer to a call of a panel that
\* has since been unmounted never frees, nor blocks, the one that replaced it.
BusyWhileCalling ==
    panel.busy <=> \E i \in Slots : ops[i].at # "none" /\ ops[i].from = "panel" /\ ops[i].mine

\* Settings are neither lost nor shown as other than they are stored, whatever the
\* order of mounts, saves, pulls, alerts, tabs, reloads and sign-outs.
SettingsKept == EditsSurvive /\ PanelsMirrorStorage

\* Sessions and the calls made for them: no answer, late or lost, leaves a session of
\* nobody, a sign-out that does not hold, or an account panel that is stuck.
AccountsInv == TypeOK /\ SessionIsReal /\ SignOutReachesGate /\ BusyWhileCalling

\* AuthCell.tsx:6-10: the cell is "the way back" to the sign-in gate for who once
\* picked "continue as guest".
SignInReachesGate == leaving = "signin" => page # "terminal"

\* AccountPanel.tsx:55: "PULLED n SECTIONS - RELOAD TO APPLY": what a pull stored is
\* there for the reload, unless the user has changed it meanwhile.
PullAwaitsReload ==
    \A k \in Keys : pulled[k] # 0 => stored[k] # None /\ stored[k].edit = pulled[k]
=============================================================================
