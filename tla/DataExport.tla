----------------------------- MODULE DataExport -----------------------------
(***************************************************************************)
(* The export panel of the desk tab (DataExport.tsx).  An export works on  *)
(* the selection of the render it was clicked in and survives both later   *)
(* selections and the panel: leaving the tab does not stop it, and the     *)
(* panel that comes back knows nothing of it.                              *)
(***************************************************************************)
EXTENDS Naturals

CONSTANTS
    ExportCoins,   \* coins; the first one known is preselected
    EmptyCoins,    \* coins with no rows in the chosen period
    ExportPeriods, \* periods; currencies are selected alike
    LocalLists,    \* the local lists a workbook may add: holdings, alerts
    Jobs           \* bound: exports under way

ASSUME ExportAssumption == ExportCoins # {} /\ ExportPeriods # {} /\ EmptyCoins \subseteq ExportCoins

VARIABLES
    exportUp,  \* the panel is mounted
    choice,    \* coin ("" before the registry lands) and period
    busy,
    jobs,      \* the exports under way
    file       \* what the last export to end gave: a file, or why there is none

exportVars == <<exportUp, choice, busy, jobs, file>>

Idle    == [kind |-> "none", of |-> [coin |-> "", per |-> ""], step |-> "none",
            mine |-> FALSE, rows |-> [coin |-> "", per |-> ""], sheets |-> {}]
NoFile  == [kind |-> "none", name |-> Idle.of, rows |-> Idle.of, sheets |-> {}, lost |-> "none"]

ExportInit ==
    /\ exportUp = TRUE /\ choice = [coin |-> "", per |-> CHOOSE p \in ExportPeriods : TRUE]
    /\ busy = FALSE /\ jobs = [j \in Jobs |-> Idle] /\ file = NoFile

-----------------------------------------------------------------------------
(* The panel. *)

\* The selectors; the first coin is chosen when the registry lands.
ChooseExport(c, p) ==
    /\ exportUp /\ [coin |-> c, per |-> p] # choice
    /\ choice' = [coin |-> c, per |-> p]
    /\ UNCHANGED <<exportUp, busy, jobs, file>>

\* Leaving the desk and coming back: selectors and busy start over.
SwitchDesk ==
    /\ exportUp' = ~exportUp
    /\ choice' = [choice EXCEPT !.coin = ""] /\ busy' = FALSE
    /\ jobs' = [j \in Jobs |-> [jobs[j] EXCEPT !.mine = FALSE]]
    /\ UNCHANGED file

\* downloadCsv: the server names and fills the file.
DownloadCsv ==
    /\ exportUp /\ choice.coin # ""
    /\ file' = [NoFile EXCEPT !.kind = "csv", !.name = choice, !.rows = choice]
    /\ UNCHANGED <<exportUp, choice, busy, jobs>>

\* The JSON, ALL JSON and XLSX buttons, disabled while busy.  A workbook first waits
\* for its library.
StartExport(j, kind) ==
    /\ exportUp /\ ~busy /\ choice.coin # ""
    /\ jobs[j] = Idle
    /\ busy' = TRUE
    /\ jobs' = [jobs EXCEPT ![j] = [Idle EXCEPT !.kind = kind, !.of = choice, !.mine = TRUE,
                                     !.step = IF kind = "xlsx" THEN "import" ELSE "series"]]
    /\ UNCHANGED <<exportUp, choice, file>>

-----------------------------------------------------------------------------
(* An export. *)

MutClosure(j) == IF exportUp THEN choice ELSE jobs[j].of

\* The selection an export reads: that of the render it was started in.
Closure(j) == jobs[j].of

\* finally { setBusy(false) }, which reaches only the panel that started the export.
EndExport(j) ==
    /\ jobs' = [jobs EXCEPT ![j] = Idle]
    /\ busy' = IF jobs[j].mine THEN FALSE ELSE busy
    /\ UNCHANGED <<exportUp, choice>>

FailExport(j, why) ==
    /\ EndExport(j)
    /\ file' = [NoFile EXCEPT !.kind = jobs[j].kind, !.lost = why]

Deliver(j, sheets) ==
    /\ EndExport(j)
    /\ file' = [kind |-> jobs[j].kind, name |-> Closure(j), rows |-> jobs[j].rows,
                sheets |-> sheets, lost |-> "none"]

Step(j, s, rows, sheets) ==
    /\ jobs' = [jobs EXCEPT ![j].step = s, ![j].rows = rows, ![j].sheets = sheets]
    /\ UNCHANGED <<exportUp, choice, busy, file>>

\* The library is loaded, or the export fails with it.
Import(j, ok) ==
    /\ jobs[j].step = "import"
    /\ IF ok THEN Step(j, "series", jobs[j].rows, {}) ELSE FailExport(j, "import")

\* The series is answered: a JSON file is written from it, and a workbook takes its
\* first two sheets, unless there is no row to take the header from.
Series(j, ok) ==
    /\ jobs[j].step = "series"
    /\ IF ~ok THEN FailExport(j, "series")
       ELSE IF jobs[j].kind = "xlsx" /\ Closure(j).coin \in EmptyCoins
       THEN FailExport(j, "no rows")
       ELSE Step(j, IF jobs[j].kind = "xlsx" THEN "ohlc" ELSE "write", Closure(j),
                 IF jobs[j].kind = "xlsx" THEN {"Prices", "Market Summary"} ELSE {})

\* Candles are best effort: none, or a failure, leaves their sheet out.
Ohlc(j, answer) ==
    /\ jobs[j].step = "ohlc"
    /\ Step(j, "write", jobs[j].rows,
            jobs[j].sheets \cup (IF answer = "rows" THEN {"OHLC"} ELSE {}))

\* The download; a workbook adds those of the local lists that are not empty now, and
\* its library may fail to write it.
Write(j, lists) ==
    /\ jobs[j].step = "write"
    /\ \/ Deliver(j, jobs[j].sheets \cup (IF jobs[j].kind = "xlsx" THEN lists ELSE {}))
       \/ jobs[j].kind = "xlsx" /\ FailExport(j, "write")

ExportStep(j) ==
    \/ \E lists \in SUBSET LocalLists : Write(j, lists)
    \/ \E ok \in BOOLEAN : Import(j, ok) \/ Series(j, ok)
    \/ \E answer \in {"rows", "none", "failed"} : Ohlc(j, answer)

ExportNext ==
    \/ SwitchDesk \/ DownloadCsv
    \/ \E c \in ExportCoins, p \in ExportPeriods : ChooseExport(c, p)
    \/ \E j \in Jobs : ExportStep(j) \/ \E k \in {"json", "all", "xlsx"} : StartExport(j, k)

-----------------------------------------------------------------------------
(* Properties. *)

\* Types; the panel is busy exactly while an export it started is under way.
ExportTypeOK ==
    /\ choice.coin \in ExportCoins \cup {""}
    /\ busy = (\E j \in Jobs : jobs[j].mine)
    /\ busy => exportUp

\* A file is named after the coin and period whose prices it holds, whatever is
\* selected while they are fetched.  A workbook always has its two main sheets.
FileMatchesName ==
    /\ file.rows = file.name
    /\ file.kind = "xlsx" /\ file.lost = "none" => {"Prices", "Market Summary"} \subseteq file.sheets

\* "candles are optional in the workbook" (DataExport.tsx:135): no optional part costs
\* the user the file.  A series without rows costs the workbook (line 92), not the JSON.
OnlyPricesCostTheFile ==
    file.lost \in {"none", "series"} \cup (IF file.kind = "xlsx" THEN {"import", "no rows", "write"} ELSE {})

\* Exports do what their names and their buttons say, while selections change and panels
\* come and go under them.
ExportInv == ExportTypeOK /\ FileMatchesName /\ OnlyPricesCostTheFile

\* Failed or not, an export ends and the buttons work again.
ExportEnds == busy ~> ~busy
=============================================================================
