--------------------------- MODULE AccountsProofs ---------------------------
(***************************************************************************)
(* Proofs about Accounts: for any number of accounts, settings, edits and  *)
(* calls in flight, sessions name accounts, the account panel is busy just *)
(* while its call is under way, and settings are neither lost nor shown as *)
(* other than they are stored.                                             *)
(***************************************************************************)
EXTENDS Accounts, TLAPS

InFlight(i) == ops[i].at # "none"
OfPanel(i)  == InFlight(i) /\ ops[i].from = "panel" /\ ops[i].mine

\* Whoever the browser takes to be signed in has an account: the session, the panel's
\* copy of it, and the user a call made after the sign-in is for.
RealUsers ==
    /\ SessionIsReal
    /\ panel.session # None => Registered(panel.session)
    /\ \A i \in Slots : InFlight(i) =>
          /\ ops[i].user \in Users
          /\ ~Auth(i) \/ ops[i].reply = "ok" => Registered(ops[i].user)

\* A call in flight belongs to the page that is loaded, and at most one to the panel.
CallsPlaced ==
    /\ panel.up => page = "terminal"
    /\ \A i \in Slots : InFlight(i) =>
          page = IF ops[i].from = "gate" THEN "gate" ELSE "terminal"
    /\ \A i, j \in Slots : OfPanel(i) /\ OfPanel(j) => i = j
    /\ panel.busy <=> \E i \in Slots : OfPanel(i)

\* After a sign-out in the header nothing is left that would reopen the terminal.
SignedOut ==
    leaving = "signout" =>
        page # "terminal" /\ session = None /\ ~guest /\ \A i \in Slots : ~InFlight(i)

\* A panel on screen holds the user's last edit, so that saving it loses nothing.
PanelsHoldEdits ==
    \A k \in Keys : island[k].up /\ edited[k] # 0 => island[k].value.edit = edited[k]

Settings == SettingsKept /\ PanelsHoldEdits

IInv == TypeOK /\ RealUsers /\ CallsPlaced /\ SignedOut /\ Settings

-----------------------------------------------------------------------------
(* What the records the actions build are. *)

\* The records that stand for nothing have the type of what they stand for.
LEMMA EmptyTypes == /\ Default \in Value /\ Down \in Island /\ NoPanel \in Panel
                    /\ EmptyBlob \in Blob /\ NoOp \in Op /\ NoOps \in [Slots -> Op]
BY AccountsAssumption
   DEF Default, Down, NoPanel, EmptyBlob, NoOp, NoOps, Value, Island, Panel, Blob, Op, User

\* What a panel reads from localStorage is a setting, and the setting stored if there
\* is one (useLocalState.ts:13).
LEMMA ReadStoredType ==
    ASSUME NEW k \in Keys, NEW s \in Blob
    PROVE  ReadStored(k, s) \in Value /\ (s[k] # None => ReadStored(k, s) = s[k])
BY EmptyTypes DEF ReadStored, Blob

\* The panels of a tab that is mounted show what is stored.
LEMMA MountedType ==
    ASSUME NEW t, NEW s \in Blob
    PROVE  /\ Mounted(t, s) \in [Keys -> Island]
           /\ \A k \in Keys : Mounted(t, s)[k].up => Mounted(t, s)[k].value = ReadStored(k, s)
BY EmptyTypes, ReadStoredType DEF Mounted, Island, Down

\* applyPrefs keeps localStorage well formed.
LEMMA AppliedType ==
    ASSUME stored \in Blob, NEW blob \in Blob
    PROVE  Applied(blob) \in Blob
BY DEF Applied, Blob

\* An answer changes what a call brought back and nothing else of it; a call whose panel
\* is gone is the same call, disowned.
LEMMA OpUpdates ==
    ASSUME NEW op \in Op, NEW r \in {"none", "ok", "err"}, NEW b \in Blob
    PROVE  /\ [op EXCEPT !.reply = r, !.blob = b] \in Op
           /\ [op EXCEPT !.mine = FALSE] \in Op
<1>1. [op EXCEPT !.reply = r, !.blob = b] \in Op
  BY DEF Op
<1>2. [op EXCEPT !.mine = FALSE] \in Op
  BY DEF Op
<1> QED  BY <1>1, <1>2

\* Mounting the panels of a tab from a storage that has the user's edits: they show
\* what is stored, the edits among it.
LEMMA MountKeepsSettings ==
    ASSUME NEW t, island' = Mounted(t, stored'), stored' \in Blob, EditsSurvive'
    PROVE  Settings'
BY MountedType, ReadStoredType
   DEF Settings, SettingsKept, EditsSurvive, PanelsMirrorStorage, PanelsHoldEdits

-----------------------------------------------------------------------------
(* One lemma per action. *)

\* The gate's effect, which may load the terminal.
LEMMA GateEffectKeeps ==
    ASSUME IInv, GateEffect
    PROVE  IInv'
<1> USE AccountsAssumption, EmptyTypes DEF IInv, GateEffect, EnterTerminal, screen, history
<1>1. TypeOK'
  <2>1. island' \in [Keys -> Island]
    BY MountedType DEF TypeOK
  <2>2. panel' \in Panel
    BY DEF TypeOK
  <2> QED  BY <2>1, <2>2 DEF TypeOK, Tabs
<1>2. RealUsers'
  BY DEF RealUsers, SessionIsReal, Registered, InFlight, Auth, NoPanel, NoOps, NoOp
<1>3. CallsPlaced'
  BY DEF CallsPlaced, TypeOK, InFlight, OfPanel, NoPanel, NoOps, NoOp
<1>4. SignedOut'
  BY DEF SignedOut, TypeOK, InFlight, NoOps, NoOp, CallsPlaced
<1>5. Settings'
  BY <1>1, MountKeepsSettings
     DEF Settings, SettingsKept, EditsSurvive, PanelsMirrorStorage, PanelsHoldEdits,
         ReadStored, TypeOK
<1> QED  BY <1>1, <1>2, <1>3, <1>4, <1>5

\* A reload drops every call and mounts the panels anew.
LEMMA ReloadKeeps ==
    ASSUME IInv, Reload
    PROVE  IInv'
<1> USE AccountsAssumption, EmptyTypes DEF IInv, Reload, EnterTerminal, screen, history
<1>1. TypeOK'
  BY MountedType, ReadStoredType DEF TypeOK, Tabs
<1>2. RealUsers'
  BY DEF RealUsers, SessionIsReal, Registered, InFlight, Auth, NoPanel, NoOps, NoOp
<1>3. CallsPlaced'
  BY DEF CallsPlaced, TypeOK, InFlight, OfPanel, NoPanel, NoOps, NoOp
<1>4. SignedOut'
  BY DEF SignedOut, TypeOK, InFlight, NoOps, NoOp, CallsPlaced
<1>5. Settings'
  BY <1>1, MountKeepsSettings DEF Settings, SettingsKept, EditsSurvive, TypeOK
<1> QED  BY <1>1, <1>2, <1>3, <1>4, <1>5

\* A change of tab disowns the panel's calls and mounts other panels.
LEMMA SetTabKeeps ==
    ASSUME IInv, NEW t \in Tabs, SetTab(t)
    PROVE  IInv'
<1> USE AccountsAssumption, EmptyTypes DEF IInv, SetTab, Tabs, NoPanel, screen, history
<1>1. TypeOK'
  <2>1. island' \in [Keys -> Island]
    BY MountedType DEF TypeOK
  <2>2. panel' \in Panel
    BY DEF TypeOK, Panel
  <2>3. ops' \in [Slots -> Op]
    BY OpUpdates DEF TypeOK
  <2> QED  BY <2>1, <2>2, <2>3 DEF TypeOK, Tabs
<1>2. RealUsers'
  <2>1. \A j \in Slots : /\ ops'[j].at = ops[j].at /\ ops'[j].user = ops[j].user
                         /\ ops'[j].reply = ops[j].reply
    BY DEF TypeOK, Op
  <2>2. session' = session /\ prefs' = prefs /\ panel'.session \in {None, session}
    OBVIOUS
  <2> HIDE DEF SetTab
  <2> QED  BY <2>1, <2>2 DEF RealUsers, SessionIsReal, Registered, InFlight, Auth
<1>3. CallsPlaced'
  <2>1. \A j \in Slots : /\ ops'[j].at = ops[j].at /\ ops'[j].from = ops[j].from
                         /\ ops'[j].mine = FALSE
    BY DEF TypeOK, Op
  <2>2. page = "terminal" /\ page' = page /\ panel'.busy = FALSE
    OBVIOUS
  <2> HIDE DEF SetTab
  <2> QED  BY <2>1, <2>2 DEF CallsPlaced, InFlight, OfPanel
<1>4. SignedOut'
  BY DEF SignedOut, InFlight, CallsPlaced, TypeOK
<1>5. Settings'
  BY <1>1, MountKeepsSettings DEF Settings, SettingsKept, EditsSurvive, TypeOK
<1> QED  BY <1>1, <1>2, <1>3, <1>4, <1>5

\* The write-back of a mounted panel writes what it has read.
LEMMA SettleKeeps ==
    ASSUME IInv, NEW k \in Keys, Settle(k)
    PROVE  IInv'
<1> USE AccountsAssumption, EmptyTypes DEF IInv, Settle, screen, history
<1>1. TypeOK'
  <2>1. island' \in [Keys -> Island]
    BY DEF TypeOK, Island
  <2>2. stored' \in Blob
    BY DEF TypeOK, Island, Blob
  <2> QED  BY <2>1, <2>2 DEF TypeOK, Tabs
<1>2. RealUsers'
  BY DEF RealUsers, SessionIsReal, Registered, InFlight, Auth
<1>3. CallsPlaced'
  BY DEF CallsPlaced, InFlight, OfPanel
<1>4. SignedOut'
  BY DEF SignedOut, InFlight
<1>5. Settings'
  BY DEF Settings, SettingsKept, EditsSurvive, PanelsMirrorStorage, PanelsHoldEdits,
         ReadStored, TypeOK, Island, Blob
<1> QED  BY <1>1, <1>2, <1>3, <1>4, <1>5

\* An edit reaches the panel and localStorage together.
LEMMA EditKeeps ==
    ASSUME IInv, NEW k \in Keys, Edit(k)
    PROVE  IInv'
<1> USE AccountsAssumption, EmptyTypes DEF IInv, Edit, screen, history
<1>1. TypeOK'
  <2>1. edits' \in 0..MaxEdits
    BY DEF TypeOK
  <2>2. [edit |-> edits + 1, hit |-> FALSE] \in Value
    BY DEF TypeOK, Value
  <2>3. island' \in [Keys -> Island]
    BY <2>2 DEF TypeOK, Island
  <2>4. stored' \in Blob
    BY <2>2 DEF TypeOK, Blob
  <2>5. edited' \in [Keys -> 0..MaxEdits] /\ pulled' \in [Keys -> 0..MaxEdits]
    BY <2>1 DEF TypeOK
  <2> QED  BY <2>1, <2>2, <2>3, <2>4, <2>5 DEF TypeOK, Tabs
<1>2. RealUsers'
  BY DEF RealUsers, SessionIsReal, Registered, InFlight, Auth
<1>3. CallsPlaced'
  BY DEF CallsPlaced, InFlight, OfPanel
<1>4. SignedOut'
  BY DEF SignedOut, InFlight
<1>5. Settings'
  <2> DEFINE v == [edit |-> edits + 1, hit |-> FALSE]
  <2>1. v \in Value
    BY DEF TypeOK, Value
  <2>2. v # None
    BY <2>1
  <2>3. /\ stored' = [stored EXCEPT ![k] = v]
        /\ \A j \in Keys : island'[j].up = island[j].up
        /\ \A j \in Keys : island'[j].value = IF j = k THEN v ELSE island[j].value
        /\ \A j \in Keys : edited'[j] = IF j = k THEN v.edit ELSE edited[j]
        /\ fresh' = fresh
    BY DEF TypeOK, Island
  <2>4. stored' \in Blob
    BY <1>1 DEF TypeOK
  <2>5. \A j \in Keys : stored'[j] = IF j = k THEN v ELSE stored[j]
    BY <2>3 DEF TypeOK, Blob
  <2> HIDE DEF v, Edit
  <2>6. EditsSurvive'
    BY <2>2, <2>3, <2>5 DEF Settings, SettingsKept, EditsSurvive, PanelsHoldEdits
  <2>7. PanelsMirrorStorage'
    BY <2>2, <2>3, <2>5 DEF Settings, SettingsKept, PanelsMirrorStorage, ReadStored
  <2>8. PanelsHoldEdits'
    BY <2>2, <2>3, <2>5 DEF Settings, PanelsHoldEdits
  <2> QED  BY <2>6, <2>7, <2>8 DEF Settings, SettingsKept
<1> QED  BY <1>1, <1>2, <1>3, <1>4, <1>5

\* A fired alert marks the list the panel holds, the user's last edit among it.
LEMMA AlertHitKeeps ==
    ASSUME IInv, AlertHit
    PROVE  IInv'
<1> USE AccountsAssumption, EmptyTypes DEF IInv, AlertHit, screen, history
<1>1. TypeOK'
  <2>1. [island[Alerts].value EXCEPT !.hit = TRUE] \in Value
    BY DEF TypeOK, Island, Value
  <2>2. island' \in [Keys -> Island]
    BY <2>1 DEF TypeOK, Island
  <2>3. stored' \in Blob
    BY <2>1 DEF TypeOK, Blob
  <2> QED  BY <2>1, <2>2, <2>3 DEF TypeOK, Tabs
<1>2. RealUsers'
  BY DEF RealUsers, SessionIsReal, Registered, InFlight, Auth
<1>3. CallsPlaced'
  BY DEF CallsPlaced, InFlight, OfPanel
<1>4. SignedOut'
  BY DEF SignedOut, InFlight
<1>5. Settings'
  <2> DEFINE v == [island[Alerts].value EXCEPT !.hit = TRUE]
  <2>1. v \in Value /\ v.edit = island[Alerts].value.edit
    BY DEF TypeOK, Island, Value
  <2>2. v # None
    BY <2>1
  <2>3. /\ stored' = [stored EXCEPT ![Alerts] = v]
        /\ \A j \in Keys : island'[j].up = island[j].up
        /\ \A j \in Keys : island'[j].value = IF j = Alerts THEN v ELSE island[j].value
        /\ fresh' = fresh /\ edited' = edited /\ island[Alerts].up
    BY DEF TypeOK, Island
  <2>4. \A j \in Keys : stored'[j] = IF j = Alerts THEN v ELSE stored[j]
    BY <2>3 DEF TypeOK, Blob
  <2> HIDE DEF v, AlertHit
  <2>5. EditsSurvive'
    BY <2>1, <2>2, <2>3, <2>4 DEF Settings, SettingsKept, EditsSurvive, PanelsHoldEdits
  <2>6. PanelsMirrorStorage'
    BY <2>1, <2>2, <2>3, <2>4 DEF Settings, SettingsKept, PanelsMirrorStorage, ReadStored
  <2>7. PanelsHoldEdits'
    BY <2>1, <2>2, <2>3, <2>4 DEF Settings, PanelsHoldEdits
  <2> QED  BY <2>5, <2>6, <2>7 DEF Settings, SettingsKept
<1> QED  BY <1>1, <1>2, <1>3, <1>4, <1>5

\* A sign-in or registration at the gate.
LEMMA GateSubmitKeeps ==
    ASSUME IInv, NEW i \in Slots, NEW kind \in {"login", "register"}, NEW u \in Users,
           GateSubmit(i, kind, u)
    PROVE  IInv'
<1> USE AccountsAssumption, EmptyTypes DEF IInv, GateSubmit, Start, Call, screen, history
<1>1. TypeOK'
  <2>1. ops' \in [Slots -> Op]
    BY DEF TypeOK, Op, User
  <2> QED  BY <2>1 DEF TypeOK, Tabs
<1>2. RealUsers'
  BY <1>1
     DEF RealUsers, TypeOK, SessionIsReal, Registered, InFlight, Auth, NoOp, Op, Panel, User
<1>3. CallsPlaced'
  BY DEF CallsPlaced, TypeOK, InFlight, OfPanel, NoOp, Op, Panel
<1>4. SignedOut'
  BY DEF SignedOut, InFlight, CallsPlaced, TypeOK
<1>5. Settings'
  BY DEF Settings, SettingsKept, EditsSurvive, PanelsMirrorStorage, PanelsHoldEdits, ReadStored
<1> QED  BY <1>1, <1>2, <1>3, <1>4, <1>5

\* Continuing as a guest.
LEMMA GateGuestKeeps ==
    ASSUME IInv, GateGuest
    PROVE  IInv'
<1> USE AccountsAssumption, EmptyTypes DEF IInv, GateGuest, EnterTerminal, screen, history
<1>1. TypeOK'
  BY MountedType, ReadStoredType DEF TypeOK, Tabs
<1>2. RealUsers'
  BY DEF RealUsers, SessionIsReal, Registered, InFlight, Auth, NoPanel, NoOps, NoOp
<1>3. CallsPlaced'
  BY DEF CallsPlaced, TypeOK, InFlight, OfPanel, NoPanel, NoOps, NoOp
<1>4. SignedOut'
  BY DEF SignedOut, TypeOK, InFlight, NoOps, NoOp, CallsPlaced
<1>5. Settings'
  BY <1>1, MountKeepsSettings DEF Settings, SettingsKept, EditsSurvive, TypeOK
<1> QED  BY <1>1, <1>2, <1>3, <1>4, <1>5

\* A sign-in or registration in the account panel.
LEMMA PanelSubmitKeeps ==
    ASSUME IInv, NEW i \in Slots, NEW kind \in {"login", "register"}, NEW u \in Users,
           PanelSubmit(i, kind, u)
    PROVE  IInv'
<1> USE AccountsAssumption, EmptyTypes DEF IInv, PanelSubmit, Start, Call, screen, history
<1>1. TypeOK'
  <2>1. ops' \in [Slots -> Op]
    BY DEF TypeOK, Op, User
  <2>2. panel' \in Panel
    BY DEF TypeOK, Panel
  <2> QED  BY <2>1, <2>2 DEF TypeOK, Tabs
<1>2. RealUsers'
  BY <1>1
     DEF RealUsers, TypeOK, SessionIsReal, Registered, InFlight, Auth, NoOp, Op, Panel, User
<1>3. CallsPlaced'
  BY DEF CallsPlaced, TypeOK, InFlight, OfPanel, NoOp, Op, Panel
<1>4. SignedOut'
  BY DEF SignedOut, InFlight, CallsPlaced, TypeOK
<1>5. Settings'
  BY DEF Settings, SettingsKept, EditsSurvive, PanelsMirrorStorage, PanelsHoldEdits, ReadStored
<1> QED  BY <1>1, <1>2, <1>3, <1>4, <1>5

\* A push or a pull from the account panel.
LEMMA PanelSyncKeeps ==
    ASSUME IInv, NEW i \in Slots, NEW kind \in {"push", "pull"},
           PanelSync(i, kind)
    PROVE  IInv'
<1> USE AccountsAssumption, EmptyTypes DEF IInv, PanelSync, Start, Call, screen, history
<1>1. TypeOK'
  <2>1. ops' \in [Slots -> Op]
    BY DEF TypeOK, Op, Panel
  <2>2. panel' \in Panel
    BY DEF TypeOK, Panel
  <2> QED  BY <2>1, <2>2 DEF TypeOK, Tabs
<1>2. RealUsers'
  BY <1>1
     DEF RealUsers, TypeOK, SessionIsReal, Registered, InFlight, Auth, NoOp, Op, Panel, User
<1>3. CallsPlaced'
  BY DEF CallsPlaced, TypeOK, InFlight, OfPanel, NoOp, Op, Panel
<1>4. SignedOut'
  BY DEF SignedOut, InFlight, CallsPlaced, TypeOK
<1>5. Settings'
  BY DEF Settings, SettingsKept, EditsSurvive, PanelsMirrorStorage, PanelsHoldEdits, ReadStored
<1> QED  BY <1>1, <1>2, <1>3, <1>4, <1>5

\* A sign-out in the account panel.
LEMMA PanelSignOutKeeps ==
    ASSUME IInv, PanelSignOut
    PROVE  IInv'
<1> USE AccountsAssumption, EmptyTypes DEF IInv, PanelSignOut, screen, history
<1>1. TypeOK'
  <2>1. panel' \in Panel /\ session' \in User
    BY DEF TypeOK, Panel, User
  <2> QED  BY <2>1 DEF TypeOK, Tabs
<1>2. RealUsers'
  BY <1>1
     DEF RealUsers, TypeOK, SessionIsReal, Registered, InFlight, Auth, NoOp, Op, Panel, User
<1>3. CallsPlaced'
  BY DEF CallsPlaced, TypeOK, InFlight, OfPanel, NoOp, Op, Panel
<1>4. SignedOut'
  BY DEF SignedOut, InFlight, CallsPlaced, TypeOK
<1>5. Settings'
  BY DEF Settings, SettingsKept, EditsSurvive, PanelsMirrorStorage, PanelsHoldEdits, ReadStored
<1> QED  BY <1>1, <1>2, <1>3, <1>4, <1>5

\* A sign-out in the header.
LEMMA CellSignOutKeeps ==
    ASSUME IInv, CellSignOut
    PROVE  IInv'
<1> USE AccountsAssumption, EmptyTypes DEF IInv, CellSignOut, ToGate, screen, history
<1>1. TypeOK'
  <2>1. session' \in User /\ cell' \in User
    BY DEF User
  <2> QED  BY <2>1 DEF TypeOK, Tabs
<1>2. RealUsers'
  BY DEF RealUsers, SessionIsReal, Registered, InFlight, Auth, NoPanel, NoOps, NoOp
<1>3. CallsPlaced'
  BY DEF CallsPlaced, TypeOK, InFlight, OfPanel, NoPanel, NoOps, NoOp
<1>4. SignedOut'
  BY DEF SignedOut, TypeOK, InFlight, NoOps, NoOp, CallsPlaced
<1>5. Settings'
  BY DEF Settings, SettingsKept, EditsSurvive, PanelsMirrorStorage, PanelsHoldEdits, Down
<1> QED  BY <1>1, <1>2, <1>3, <1>4, <1>5

\* The header's way to the gate.
LEMMA CellSignInKeeps ==
    ASSUME IInv, CellSignIn
    PROVE  IInv'
<1> USE AccountsAssumption, EmptyTypes DEF IInv, CellSignIn, ToGate, screen, history
<1>1. TypeOK'
  BY MountedType, ReadStoredType DEF TypeOK, Tabs
<1>2. RealUsers'
  BY DEF RealUsers, SessionIsReal, Registered, InFlight, Auth, NoPanel, NoOps, NoOp
<1>3. CallsPlaced'
  BY DEF CallsPlaced, TypeOK, InFlight, OfPanel, NoPanel, NoOps, NoOp
<1>4. SignedOut'
  BY DEF SignedOut, TypeOK, InFlight, NoOps, NoOp, CallsPlaced
<1>5. Settings'
  BY DEF Settings, SettingsKept, EditsSurvive, PanelsMirrorStorage, PanelsHoldEdits, Down
<1> QED  BY <1>1, <1>2, <1>3, <1>4, <1>5

\* register and login: an account exists once either has succeeded.
LEMMA ServerAuthKeeps ==
    ASSUME IInv, NEW i \in Slots, ServerAuth(i)
    PROVE  IInv'
<1> USE AccountsAssumption, EmptyTypes DEF IInv, ServerAuth, Pending, Auth, screen, history
<1>1. TypeOK'
  <2>1. ops' \in [Slots -> Op]
    BY DEF TypeOK, Op
  <2>2. prefs' \in [Users -> Blob \cup {None}]
    BY DEF TypeOK
  <2> QED  BY <2>1, <2>2 DEF TypeOK, Tabs
<1>2. RealUsers'
  BY <1>1
     DEF RealUsers, TypeOK, SessionIsReal, Registered, InFlight, Auth, NoOp, Op, Panel, User
<1>3. CallsPlaced'
  BY DEF CallsPlaced, TypeOK, InFlight, OfPanel, NoOp, Op, Panel
<1>4. SignedOut'
  BY DEF SignedOut, InFlight, CallsPlaced, TypeOK
<1>5. Settings'
  BY DEF Settings, SettingsKept, EditsSurvive, PanelsMirrorStorage, PanelsHoldEdits, ReadStored
<1> QED  BY <1>1, <1>2, <1>3, <1>4, <1>5

\* get_prefs and put_prefs, for an account that exists.
LEMMA ServerPrefsKeeps ==
    ASSUME IInv, NEW i \in Slots, ServerPrefs(i)
    PROVE  IInv'
<1> USE AccountsAssumption, EmptyTypes DEF IInv, ServerPrefs, Pending, screen, history
<1>1. TypeOK'
  <2>1. ops[i].user \in Users /\ Registered(ops[i].user)
    BY DEF RealUsers, InFlight, Auth
  <2>2. ops[i].blob \in Blob /\ prefs[ops[i].user] \in Blob
    BY <2>1 DEF TypeOK, Op, Registered
  <2>3. [ops[i] EXCEPT !.reply = "ok", !.blob = EmptyBlob] \in Op
    BY OpUpdates DEF TypeOK
  <2>4. [ops[i] EXCEPT !.reply = "ok", !.blob = prefs[ops[i].user]] \in Op
    BY <2>2, OpUpdates DEF TypeOK
  <2>5. ops' \in [Slots -> Op]
    BY <2>3, <2>4 DEF TypeOK
  <2>6. prefs' \in [Users -> Blob \cup {None}]
    BY <2>2 DEF TypeOK
  <2> QED  BY <2>1, <2>2, <2>3, <2>4, <2>5, <2>6 DEF TypeOK, Tabs
<1>2. RealUsers'
  <2>1. /\ ops[i].user \in Users /\ Registered(ops[i].user)
        /\ ops[i].blob \in Blob /\ i \in Slots /\ InFlight(i) /\ ~Auth(i)
    BY DEF RealUsers, TypeOK, Op, InFlight, Auth
  <2>2. \A w \in Users : Registered(w) => Registered(w)'
    BY <2>1 DEF TypeOK, Registered
  <2>3. \A j \in Slots : /\ ops'[j].at = ops[j].at /\ ops'[j].user = ops[j].user
                         /\ ops'[j].reply = IF j = i THEN "ok" ELSE ops[j].reply
    <3>1. CASE ops[i].at = "push"
      BY <3>1 DEF TypeOK, Op
    <3>2. CASE ops[i].at # "push"
      BY <3>2 DEF TypeOK, Op
    <3> QED  BY <3>1, <3>2
  <2>4. session' = session /\ panel' = panel
    OBVIOUS
  <2>5. session \in User /\ panel.session \in User
    BY DEF TypeOK, Panel
  <2> HIDE DEF ServerPrefs
  <2> QED  BY <2>1, <2>2, <2>3, <2>4, <2>5 DEF RealUsers, SessionIsReal, InFlight, Auth, User
<1>3. CallsPlaced'
  <2>1. \A j \in Slots : /\ ops'[j].at = ops[j].at /\ ops'[j].from = ops[j].from
                         /\ ops'[j].mine = ops[j].mine
    <3>1. CASE ops[i].at = "push"
      BY <3>1 DEF TypeOK, Op
    <3>2. CASE ops[i].at # "push"
      BY <3>2 DEF TypeOK, Op
    <3> QED  BY <3>1, <3>2
  <2>2. page' = page /\ panel' = panel
    OBVIOUS
  <2> HIDE DEF ServerPrefs
  <2> QED  BY <2>1, <2>2 DEF CallsPlaced, InFlight, OfPanel
<1>4. SignedOut'
  BY DEF SignedOut, InFlight, CallsPlaced, TypeOK
<1>5. Settings'
  BY DEF Settings, SettingsKept, EditsSurvive, PanelsMirrorStorage, PanelsHoldEdits, ReadStored
<1> QED  BY <1>1, <1>2, <1>3, <1>4, <1>5

\* A call that fails keeps its place.
LEMMA CallFailsKeeps ==
    ASSUME IInv, NEW i \in Slots, CallFails(i)
    PROVE  IInv'
<1> USE AccountsAssumption, EmptyTypes DEF IInv, CallFails, screen, history
<1>1. TypeOK'
  <2>1. [ops[i] EXCEPT !.reply = "err", !.blob = EmptyBlob] \in Op
    BY OpUpdates DEF TypeOK
  <2>2. ops' \in [Slots -> Op]
    BY <2>1 DEF TypeOK
  <2> QED  BY <2>1, <2>2 DEF TypeOK, Tabs
<1>2. RealUsers'
  BY <1>1
     DEF RealUsers, TypeOK, SessionIsReal, Registered, InFlight, Auth, NoPanel, NoOps, NoOp,
         Op, Panel, User
<1>3. CallsPlaced'
  <2>1. \A j \in Slots : /\ ops'[j].at = ops[j].at /\ ops'[j].from = ops[j].from
                         /\ ops'[j].mine = ops[j].mine
    BY DEF TypeOK, Op
  <2>2. page' = page /\ panel' = panel
    OBVIOUS
  <2> HIDE DEF CallFails
  <2> QED  BY <2>1, <2>2 DEF CallsPlaced, InFlight, OfPanel
<1>4. SignedOut'
  BY DEF SignedOut, InFlight, CallsPlaced, TypeOK
<1>5. Settings'
  BY DEF Settings, SettingsKept, EditsSurvive, PanelsMirrorStorage, PanelsHoldEdits, ReadStored
<1> QED  BY <1>1, <1>2, <1>3, <1>4, <1>5

\* A push from another device.
LEMMA OtherDeviceKeeps ==
    ASSUME IInv, NEW u \in Users, NEW k \in Keys, OtherDevice(u, k)
    PROVE  IInv'
<1> USE AccountsAssumption, EmptyTypes DEF IInv, OtherDevice, screen, history
<1>1. TypeOK'
  <2>1. edits' \in 0..MaxEdits
    BY DEF TypeOK
  <2>2. [edit |-> edits + 1, hit |-> FALSE] \in Value
    BY DEF TypeOK, Value
  <2>3. prefs[u] \in Blob
    BY DEF TypeOK, Registered
  <2>4. [prefs[u] EXCEPT ![k] = [edit |-> edits + 1, hit |-> FALSE]] \in Blob
    BY <2>2, <2>3 DEF Blob
  <2>5. prefs' \in [Users -> Blob \cup {None}]
    BY <2>4 DEF TypeOK
  <2> QED  BY <2>1, <2>2, <2>3, <2>4, <2>5 DEF TypeOK, Tabs
<1>2. RealUsers'
  <2>1. prefs[u] \in Blob /\ [edit |-> edits + 1, hit |-> FALSE] \in Value
    BY DEF TypeOK, Registered, Value
  <2>2. [prefs[u] EXCEPT ![k] = [edit |-> edits + 1, hit |-> FALSE]] \in Blob
    BY <2>1 DEF Blob
  <2>3. \A w \in Users : Registered(w) => Registered(w)'
    BY <2>2 DEF TypeOK, Registered
  <2> QED  BY <2>3 DEF RealUsers, TypeOK, SessionIsReal, InFlight, Auth, Panel, User
<1>3. CallsPlaced'
  BY DEF CallsPlaced, InFlight, OfPanel
<1>4. SignedOut'
  BY DEF SignedOut, InFlight
<1>5. Settings'
  BY DEF Settings, SettingsKept, EditsSurvive, PanelsMirrorStorage, PanelsHoldEdits, ReadStored
<1> QED  BY <1>1, <1>2, <1>3, <1>4, <1>5

\* A successful sign-in stores a session of an account that exists.
LEMMA AuthOkKeeps ==
    ASSUME IInv, NEW i \in Slots, AuthOk(i)
    PROVE  IInv'
<1> USE AccountsAssumption, EmptyTypes DEF IInv, AuthOk, Answered, Auth, screen, history
<1>1. TypeOK'
  <2>1. ops' \in [Slots -> Op]
    BY DEF TypeOK, Op
  <2>2. panel' \in Panel
    BY DEF TypeOK, Op, Panel
  <2>3. session' \in User
    BY DEF TypeOK, Op
  <2> QED  BY <2>1, <2>2, <2>3 DEF TypeOK, Tabs
<1>2. RealUsers'
  <2>1. ops[i].user \in Users /\ Registered(ops[i].user)
    BY DEF RealUsers, InFlight
  <2>2. \A j \in Slots : /\ ops'[j].user = ops[j].user
                         /\ j # i => ops'[j] = ops[j]
    BY DEF TypeOK, Op
  <2>3. /\ session' = ops[i].user /\ panel'.session \in {panel.session, ops[i].user}
        /\ prefs' = prefs /\ InFlight(i)
    BY DEF TypeOK, Panel, InFlight
  <2> HIDE DEF AuthOk
  <2>4. SessionIsReal' /\ (panel.session # None => Registered(panel.session))'
    BY <2>1, <2>3 DEF RealUsers, SessionIsReal, Registered
  <2>5. ops'[i].user \in Users /\ Registered(ops[i].user)'
    BY <2>1, <2>2, <2>3 DEF Registered
  <2>6. ASSUME NEW j \in Slots, j # i, InFlight(j)'
        PROVE  /\ ops'[j].user \in Users
               /\ (Auth(j)' /\ ops'[j].reply # "ok") \/ Registered(ops[j].user)'
    <3>1. ops'[j] = ops[j] /\ InFlight(j)
      BY <2>2, <2>6 DEF InFlight
    <3> QED  BY <2>3, <3>1 DEF RealUsers, Auth, Registered
  <2> QED  BY <2>4, <2>5, <2>6 DEF RealUsers
<1>3. CallsPlaced'
  BY DEF CallsPlaced, TypeOK, InFlight, OfPanel, NoPanel, NoOps, NoOp, Op, Panel
<1>4. SignedOut'
  BY DEF SignedOut, InFlight, CallsPlaced, TypeOK
<1>5. Settings'
  BY DEF Settings, SettingsKept, EditsSurvive, PanelsMirrorStorage, PanelsHoldEdits, ReadStored
<1> QED  BY <1>1, <1>2, <1>3, <1>4, <1>5

\* A pull's answer replaces settings and nothing else.
LEMMA PullOkKeeps ==
    ASSUME IInv, NEW i \in Slots, PullOk(i)
    PROVE  IInv'
<1> USE AccountsAssumption, EmptyTypes DEF IInv, PullOk, Answered, Release, EnterTerminal,
       screen, history
<1>1. TypeOK'
  <2>1. ops[i].blob \in Blob
    BY DEF TypeOK, Op
  <2>2. stored' \in Blob
    BY <2>1, AppliedType DEF TypeOK
  <2>3. ops' \in [Slots -> Op]
    BY DEF TypeOK
  <2>4. panel' \in Panel
    BY DEF TypeOK, Panel
  <2>5. island' \in [Keys -> Island]
    BY <2>2, MountedType DEF TypeOK
  <2>6. edited' \in [Keys -> 0..MaxEdits] /\ pulled' \in [Keys -> 0..MaxEdits]
    BY <2>1 DEF TypeOK, Blob, Value
  <2>7. /\ page' \in {"arriving", "gate", "terminal"} /\ tab' \in Tabs
        /\ cell' \in User /\ fresh' \in BOOLEAN
    BY DEF TypeOK, Tabs
  <2> QED  BY <2>1, <2>2, <2>3, <2>4, <2>5, <2>6, <2>7 DEF TypeOK, Tabs
<1>2. RealUsers'
  BY <1>1
     DEF RealUsers, TypeOK, SessionIsReal, Registered, InFlight, Auth, NoPanel, NoOps, NoOp,
         Op, Panel, User
<1>3. CallsPlaced'
  <2>1. CASE ops[i].from = "gate"
    BY <2>1 DEF CallsPlaced, InFlight, OfPanel, NoPanel, NoOps, NoOp
  <2>2. CASE ~(ops[i].from = "gate")
    <3>1. /\ ops' = [ops EXCEPT ![i] = NoOp] /\ page' = page /\ panel' = Release(i)
          /\ InFlight(i)
      BY <2>2 DEF InFlight
    <3>2. \A j \in Slots : ~OfPanel(i)' /\ ~InFlight(i)' /\ (j # i => ops'[j] = ops[j])
      BY <3>1 DEF TypeOK, InFlight, OfPanel, NoOp
    <3>3. /\ panel'.up = panel.up
          /\ panel'.busy = IF ops[i].mine THEN FALSE ELSE panel.busy
      BY <3>1 DEF TypeOK, Panel
    <3> HIDE DEF PullOk
    <3> QED  BY <3>1, <3>2, <3>3 DEF CallsPlaced, InFlight, OfPanel, TypeOK, Op
  <2> QED  BY <2>1, <2>2
<1>4. SignedOut'
  BY DEF SignedOut, TypeOK, InFlight, NoOps, NoOp, CallsPlaced
<1>5. Settings'
  <2>1. EditsSurvive'
    BY DEF Settings, SettingsKept, EditsSurvive, Applied, TypeOK
  <2>2. CASE ops[i].from = "gate"
    <3>1. stored' \in Blob /\ island' = Mounted("markets", stored')
      BY <1>1, <2>2 DEF TypeOK
    <3> QED  BY <2>1, <3>1, MountKeepsSettings
  <2>3. CASE ops[i].from # "gate"
    <3>1. PanelsHoldEdits'
      BY <2>3 DEF Settings, PanelsHoldEdits, TypeOK
    <3> QED  BY <2>1, <2>3, <3>1 DEF Settings, SettingsKept, PanelsMirrorStorage
  <2> QED  BY <2>2, <2>3
<1> QED  BY <1>1, <1>2, <1>3, <1>4, <1>5

\* A push's answer releases the panel.
LEMMA PushOkKeeps ==
    ASSUME IInv, NEW i \in Slots, PushOk(i)
    PROVE  IInv'
<1> USE AccountsAssumption, EmptyTypes DEF IInv, PushOk, Answered, Release, screen, history
<1>1. TypeOK'
  <2>1. ops' \in [Slots -> Op]
    BY DEF TypeOK
  <2>2. panel' \in Panel
    BY DEF TypeOK, Panel
  <2> QED  BY <2>1, <2>2 DEF TypeOK, Tabs
<1>2. RealUsers'
  BY <1>1
     DEF RealUsers, TypeOK, SessionIsReal, Registered, InFlight, Auth, NoPanel, NoOps, NoOp,
         Op, Panel, User
<1>3. CallsPlaced'
  BY DEF CallsPlaced, TypeOK, InFlight, OfPanel, NoPanel, NoOps, NoOp, Op, Panel
<1>4. SignedOut'
  BY DEF SignedOut, InFlight, CallsPlaced, TypeOK
<1>5. Settings'
  BY DEF Settings, SettingsKept, EditsSurvive, PanelsMirrorStorage, PanelsHoldEdits, ReadStored
<1> QED  BY <1>1, <1>2, <1>3, <1>4, <1>5

\* A call's error releases the panel, or takes the gate to the terminal.
LEMMA OpErrKeeps ==
    ASSUME IInv, NEW i \in Slots, OpErr(i)
    PROVE  IInv'
<1> USE AccountsAssumption, EmptyTypes DEF IInv, OpErr, Answered, Release, EnterTerminal,
       screen, history
<1>1. TypeOK'
  <2>1. ops' \in [Slots -> Op]
    BY DEF TypeOK
  <2>2. panel' \in Panel
    BY DEF TypeOK, Panel
  <2>3. island' \in [Keys -> Island]
    BY MountedType DEF TypeOK
  <2>4. /\ page' \in {"arriving", "gate", "terminal"} /\ tab' \in Tabs
        /\ cell' \in User /\ fresh' \in BOOLEAN
    BY DEF TypeOK, Tabs
  <2> QED  BY <2>1, <2>2, <2>3, <2>4 DEF TypeOK, Tabs
<1>2. RealUsers'
  BY <1>1
     DEF RealUsers, TypeOK, SessionIsReal, Registered, InFlight, Auth, NoPanel, NoOps, NoOp,
         Op, Panel, User
<1>3. CallsPlaced'
  <2>1. CASE ops[i].from = "gate" /\ ~Auth(i)
    BY <2>1 DEF CallsPlaced, InFlight, OfPanel, NoPanel, NoOps, NoOp
  <2>2. CASE ~(ops[i].from = "gate" /\ ~Auth(i))
    <3>1. /\ ops' = [ops EXCEPT ![i] = NoOp] /\ page' = page /\ panel' = Release(i)
          /\ InFlight(i)
      BY <2>2 DEF InFlight
    <3>2. \A j \in Slots : ~OfPanel(i)' /\ ~InFlight(i)' /\ (j # i => ops'[j] = ops[j])
      BY <3>1 DEF TypeOK, InFlight, OfPanel, NoOp
    <3>3. /\ panel'.up = panel.up
          /\ panel'.busy = IF ops[i].mine THEN FALSE ELSE panel.busy
      BY <3>1 DEF TypeOK, Panel
    <3> HIDE DEF OpErr
    <3> QED  BY <3>1, <3>2, <3>3 DEF CallsPlaced, InFlight, OfPanel, TypeOK, Op
  <2> QED  BY <2>1, <2>2
<1>4. SignedOut'
  BY DEF SignedOut, TypeOK, InFlight, NoOps, NoOp, CallsPlaced
<1>5. Settings'
  <2>1. CASE ops[i].from = "gate" /\ ~Auth(i)
    BY <1>1, <2>1, MountKeepsSettings DEF Settings, SettingsKept, EditsSurvive, TypeOK
  <2>2. CASE ~(ops[i].from = "gate" /\ ~Auth(i))
    BY <2>2 DEF Settings, SettingsKept, EditsSurvive, PanelsMirrorStorage, PanelsHoldEdits
  <2> QED  BY <2>1, <2>2
<1> QED  BY <1>1, <1>2, <1>3, <1>4, <1>5

-----------------------------------------------------------------------------
(* The theorems. *)

\* The invariant is inductive: no step of the window, the API or another device breaks it.
LEMMA StepKeeps == IInv /\ [Next]_vars => IInv'
<1> SUFFICES ASSUME IInv, [Next]_vars PROVE IInv'
  OBVIOUS
<1>1. CASE Click
  BY <1>1, GateGuestKeeps, PanelSignOutKeeps, CellSignOutKeeps, CellSignInKeeps, ReloadKeeps,
     SetTabKeeps, EditKeeps, GateSubmitKeeps, PanelSubmitKeeps, PanelSyncKeeps DEF Click
<1>2. CASE \E i \in Slots : Serve(i) \/ CallFails(i) \/ Answer(i)
  BY <1>2, ServerAuthKeeps, ServerPrefsKeeps, CallFailsKeeps, AuthOkKeeps, PullOkKeeps,
     PushOkKeeps, OpErrKeeps DEF Serve, Answer
<1>3. CASE GateEffect \/ AlertHit \/ (\E k \in Keys : Settle(k))
           \/ (\E u \in Users, k \in Keys : OtherDevice(u, k))
  BY <1>3, GateEffectKeeps, AlertHitKeeps, SettleKeeps, OtherDeviceKeeps
<1>4. CASE UNCHANGED vars
  BY <1>4 DEF vars, IInv, TypeOK, RealUsers, CallsPlaced, SignedOut, Settings, SettingsKept,
              EditsSurvive, PanelsMirrorStorage, PanelsHoldEdits, SessionIsReal, Registered,
              InFlight, OfPanel, Auth, ReadStored
<1> QED  BY <1>1, <1>2, <1>3, <1>4 DEF Next

\* A browser that has never been here satisfies it.
LEMMA InitHolds == Init => IInv
<1> SUFFICES ASSUME Init PROVE IInv
  OBVIOUS
<1> USE AccountsAssumption, EmptyTypes DEF Init
<1>1. TypeOK
  <2>1. 0 \in 0..MaxEdits
    OBVIOUS
  <2>2. /\ island \in [Keys -> Island] /\ prefs \in [Users -> Blob \cup {None}]
        /\ edited \in [Keys -> 0..MaxEdits] /\ pulled \in [Keys -> 0..MaxEdits]
    BY <2>1
  <2> QED  BY <2>1, <2>2 DEF TypeOK, Tabs, User
<1>2. RealUsers /\ CallsPlaced
  BY DEF RealUsers, CallsPlaced, SessionIsReal, InFlight, OfPanel, NoPanel, NoOps, NoOp
<1>3. SignedOut /\ Settings
  BY DEF SignedOut, Settings, SettingsKept, EditsSurvive, PanelsMirrorStorage,
         PanelsHoldEdits, Down
<1> QED  BY <1>1, <1>2, <1>3 DEF IInv

\* So it holds in every state of a behaviour.
LEMMA AlwaysIInv == Spec => []IInv
BY InitHolds, StepKeeps, PTL DEF Spec

\* Whatever order answers, failures, page loads and sign-outs come in, a stored session
\* names an account, a sign-out in the header holds, and the account panel is busy just
\* while its own call is under way (cloud-sync.ts, AccountPanel.tsx, LoginGate.tsx).
THEOREM AccountsInvariant == Spec => []AccountsInv
<1>1. IInv => AccountsInv
  BY DEF IInv, AccountsInv, RealUsers, CallsPlaced, SignedOut, SignOutReachesGate,
         BusyWhileCalling, OfPanel, InFlight
<1> QED  BY <1>1, AlwaysIInv, PTL

\* No mount, save, pull, alert, tab change, reload or sign-out loses an edit or shows a
\* setting as other than it is stored (useLocalState.ts, applyPrefs).
THEOREM SettingsInvariant == Spec => []SettingsKept
<1>1. IInv => SettingsKept
  BY DEF IInv, Settings
<1> QED  BY <1>1, AlwaysIInv, PTL
=============================================================================
