---------------------------- MODULE PriceService ----------------------------
(***************************************************************************)
(* The price service process: start-up discovery and history backfill      *)
(* (main.rs), the registry refresh task, the polling loop (scheduler.rs,   *)
(* use_cases.rs) with the provider's bounded retry (coingecko.rs), the     *)
(* transactional save (postgres.rs), the metrics (metrics.rs) and the      *)
(* hand-over of each batch to the broadcast channel.                       *)
(*                                                                         *)
(* The process may be killed between any two steps and be started again;   *)
(* only the prices table survives.  Every .await is a step boundary.       *)
(* A price is the pair it quotes and when it was observed; its value is    *)
(* irrelevant here.  A seeded sparkline series is one row: its last point. *)
(***************************************************************************)
EXTENDS Integers, Sequences, FiniteSets

CONSTANTS
    Coins,        \* provider ids
    Currencies,   \* Currency::ALL
    Usd,          \* Currency::Usd
    Limit,        \* TRACKED_COINS_LIMIT: how many coins discovery asks for
    MaxAttempts,  \* get_with_retry's MAX_ATTEMPTS
    ReadErrors,   \* may the backfill's latest_price read fail: a set of BOOLEANs
    MaxNow,       \* bound: clock readings (one per saved batch)
    MaxSent,      \* bound: batches broadcast by one process
    MaxBoots      \* bound: process starts

ASSUME ServiceAssumption ==
    /\ Usd \in Currencies
    /\ IsFiniteSet(Coins) /\ IsFiniteSet(Currencies)
    /\ Limit \in Nat \ {0}
    /\ MaxAttempts \in Nat \ {0}
    /\ ReadErrors \subseteq BOOLEAN
    /\ MaxNow \in Nat
    /\ MaxSent \in Nat
    /\ MaxBoots \in Nat

VARIABLES
    phase,     \* how far main() is
    disc,      \* the discovery in progress (main's, later the refresh task's)
    registry,  \* CoinRegistry: coins in market-cap order
    poll,      \* the polling loop
    save,      \* the save_prices transaction in progress
    db,        \* the prices table
    sent,      \* values handed to the broadcast channel by this process
    tracked,   \* AppMetrics.tracked_coins
    written,   \* AppMetrics.prices_written
    now,       \* clock: the last observed_at taken
    boots,     \* process starts so far
    fetched,   \* history: every batch of rows ever built for saving
    before,    \* history: what the table held when the process before this one ended
    unseen     \* history: rows stored by a COMMIT whose answer a poll did not get

vars == <<phase, disc, registry, poll, save, db, sent, tracked, written, now,
          boots, fetched, before, unseen>>
memory == <<registry, sent, tracked, written, before, unseen>>

Rankings == UNION {{s \in [1..n -> Coins] : \A i, j \in 1..n :
                        s[i] = s[j] => i = j} : n \in 0..Limit}
Rows == [coin : Coins, cur : Currencies, at : 1..MaxNow, src : {"poll", "seed"}]
CoinsOf(ranking) == {ranking[i] : i \in DOMAIN ranking}

Phases   == {"down", "discover", "check", "seed", "serving", "draining"}
DiscIdle == [pc |-> "idle", attempt |-> 0]
PollIdle == [pc |-> "idle", attempt |-> 0, coins |-> {}]
NoSave   == [rows |-> {}, done |-> {}, blind |-> FALSE]

Init ==
    /\ phase = "down" /\ disc = DiscIdle /\ registry = <<>>
    /\ poll = PollIdle /\ save = NoSave /\ db = {} /\ sent = <<>>
    /\ tracked = 0 /\ written = 0 /\ now = 0 /\ boots = 0 /\ fetched = {}
    /\ before = {} /\ unseen = {}

-----------------------------------------------------------------------------
(* Start-up. *)

\* Config, pool, health check and migrations; then the first discover_top.
\* A failure of any of them ends the process (Crash).
Boot ==
    /\ phase = "down" /\ boots < MaxBoots
    /\ boots' = boots + 1
    /\ phase' = "discover"
    /\ disc' = [pc |-> "request", attempt |-> 1]
    /\ UNCHANGED <<poll, save, db, now, fetched, memory>>

\* get_with_retry: 429, 5xx or a transport error with attempts left.
DiscRetry ==
    /\ disc.pc = "request" /\ disc.attempt < MaxAttempts
    /\ disc' = [disc EXCEPT !.attempt = @ + 1]
    /\ UNCHANGED <<phase, poll, save, db, now, boots, fetched, memory>>

MutDiscFail ==
    /\ disc.pc = "request"
    /\ disc' = [pc |-> "dead", attempt |-> 0]
    /\ phase' = IF phase = "discover" THEN "serving" ELSE phase
    /\ UNCHANGED <<poll, save, db, now, boots, fetched, memory>>

\* Attempts used up, a non-success status or an unreadable body: the registry
\* and its gauge keep what they had and main() goes on without backfill.
DiscFail ==
    /\ disc.pc = "request"
    /\ disc' = DiscIdle
    /\ phase' = IF phase = "discover" THEN "serving" ELSE phase
    /\ UNCHANGED <<poll, save, db, now, boots, fetched, memory>>

\* A parsed answer: registry.replace(metas).
DiscOk(metas) ==
    /\ disc.pc = "request"
    /\ registry' = metas
    /\ disc' = [disc EXCEPT !.pc = "record"]
    /\ UNCHANGED <<phase, poll, save, db, sent, tracked, written, now, boots,
                   fetched, before, unseen>>

\* record_discovery_ok(n); at start-up the backfill comes next.
DiscRecord ==
    /\ disc.pc = "record"
    /\ tracked' = Len(registry)
    /\ disc' = DiscIdle
    /\ phase' = IF phase = "discover" THEN "check" ELSE phase
    /\ UNCHANGED <<registry, poll, save, db, sent, written, now, boots, fetched,
                   before, unseen>>

MutHasHistory(coin, cur) == \E r \in db : r.coin = coin /\ r.cur # cur

\* latest_price(coin, currency) finds a row.
HasHistory(coin, cur) == \E r \in db : r.coin = coin /\ r.cur = cur

TopCoinHasHistory == registry # <<>> /\ HasHistory(registry[1], Usd)

\* backfill_from_sparklines: the first-ranked coin has USD history.
BackfillSkip ==
    /\ phase = "check"
    /\ TopCoinHasHistory
    /\ phase' = "serving"
    /\ UNCHANGED <<disc, poll, save, db, now, boots, fetched, memory>>

\* No row for it, or reading failed (readErr): build a series for each coin that
\* came with a sparkline of two points or more, all on one clock reading.  The
\* seed is blind if there was a row the failed read did not show.
BackfillBuild(readErr, withSpark) ==
    /\ phase = "check" /\ now < MaxNow
    /\ ~TopCoinHasHistory \/ readErr
    /\ LET rows == {[coin |-> c, cur |-> Usd, at |-> now + 1, src |-> "seed"] :
                        c \in withSpark}
       IN  /\ save' = [rows |-> rows, done |-> {}, blind |-> TopCoinHasHistory]
           /\ fetched' = fetched \cup {rows}
           /\ phase' = IF rows = {} THEN "serving" ELSE "seed"
    /\ now' = now + 1
    /\ UNCHANGED <<disc, poll, db, boots, memory>>

-----------------------------------------------------------------------------
(* save_prices: one transaction, a row at a time, used by backfill and poll. *)

Saving == phase = "seed" \/ poll.pc = "save"

MutSaveRow ==
    /\ Saving /\ save.done # save.rows
    /\ LET r == CHOOSE r \in save.rows : r \notin save.done
       IN  save' = [save EXCEPT !.done = @ \cup {r}] /\ db' = db \cup {r}
    /\ UNCHANGED <<phase, disc, poll, now, boots, fetched, memory>>

SaveRow ==
    /\ Saving /\ save.done # save.rows
    /\ save' = [save EXCEPT !.done = @ \cup {CHOOSE r \in save.rows : r \notin save.done}]
    /\ UNCHANGED <<phase, disc, poll, db, now, boots, fetched, memory>>

\* What follows an Ok (ok) or an Err from save_prices: backfill only logs, and
\* main() goes on to spawn the tasks; a poll goes on to its counters, or counts
\* an error and waits for the next tick.
AfterSave(ok) ==
    IF phase = "seed"
    THEN phase' = "serving" /\ save' = NoSave /\ UNCHANGED poll
    ELSE /\ poll' = IF ok THEN [poll EXCEPT !.pc = "record"] ELSE PollIdle
         /\ save' = IF ok THEN save ELSE NoSave
         /\ UNCHANGED phase

MutSaveFail ==
    /\ Saving
    /\ AfterSave(TRUE)
    /\ UNCHANGED <<disc, db, now, boots, fetched, memory>>

\* begin, an INSERT or COMMIT fails: the transaction is rolled back.
SaveFail ==
    /\ Saving
    /\ AfterSave(FALSE)
    /\ UNCHANGED <<disc, db, now, boots, fetched, memory>>

\* COMMIT; ack = FALSE: it took effect but its answer was lost.
SaveCommit(ack) ==
    /\ Saving /\ save.done = save.rows
    /\ db' = db \cup save.done
    /\ AfterSave(ack)
    /\ unseen' = IF ack \/ phase = "seed" THEN unseen ELSE unseen \cup save.done
    /\ UNCHANGED <<disc, registry, sent, tracked, written, now, boots, fetched, before>>

-----------------------------------------------------------------------------
(* The polling loop and the refresh task, spawned once start-up is done. *)

Running == phase \in {"serving", "draining"}

\* A tick: fetch_current_prices reads the registry before it awaits; with no
\* coins it returns an empty batch at once, which is saved like any other.
StartPoll ==
    /\ Running /\ poll.pc = "idle" /\ Len(sent) < MaxSent
    /\ poll' = IF registry = <<>>
               THEN [PollIdle EXCEPT !.pc = "save"]
               ELSE [pc |-> "request", attempt |-> 1, coins |-> CoinsOf(registry)]
    /\ save' = NoSave
    /\ UNCHANGED <<phase, disc, db, now, boots, fetched, memory>>

\* The attempt counter starts over, so that the retries have no bound.
MutPollRetry ==
    /\ poll.pc = "request"
    /\ poll' = [poll EXCEPT !.attempt = (@ % MaxAttempts) + 1]
    /\ UNCHANGED <<phase, disc, save, db, now, boots, fetched, memory>>

PollRetry ==
    /\ poll.pc = "request" /\ poll.attempt < MaxAttempts
    /\ poll' = [poll EXCEPT !.attempt = @ + 1]
    /\ UNCHANGED <<phase, disc, save, db, now, boots, fetched, memory>>

\* Attempts used up, a non-success status, an unreadable body or value:
\* record_poll_err, the loop goes on.
PollFail ==
    /\ poll.pc = "request"
    /\ poll' = PollIdle
    /\ UNCHANGED <<phase, disc, save, db, now, boots, fetched, memory>>

\* A parsed answer quotes some of the requested pairs; the others are skipped.
PollResponse(pairs) ==
    /\ poll.pc = "request" /\ now < MaxNow
    /\ pairs \subseteq poll.coins \X Currencies
    /\ LET rows == {[coin |-> p[1], cur |-> p[2], at |-> now + 1, src |-> "poll"] :
                        p \in pairs}
       IN  /\ save' = [NoSave EXCEPT !.rows = rows]
           /\ fetched' = fetched \cup {rows}
    /\ now' = now + 1
    /\ poll' = [poll EXCEPT !.pc = "save"]
    /\ UNCHANGED <<phase, disc, db, boots, memory>>

MutRecordPollOk ==
    /\ poll.pc = "record"
    /\ written' = Cardinality(save.rows)
    /\ poll' = [poll EXCEPT !.pc = "send"]
    /\ UNCHANGED <<phase, disc, registry, save, db, sent, tracked, now, boots, fetched,
                   before, unseen>>

\* record_poll_ok(count, ..).
RecordPollOk ==
    /\ poll.pc = "record"
    /\ written' = written + Cardinality(save.rows)
    /\ poll' = [poll EXCEPT !.pc = "send"]
    /\ UNCHANGED <<phase, disc, registry, save, db, sent, tracked, now, boots, fetched,
                   before, unseen>>

\* broadcaster.send(prices).  main() keeps _rx alive, so send never fails.
Broadcast ==
    /\ poll.pc = "send"
    /\ sent' = Append(sent, save.rows)
    /\ poll' = PollIdle
    /\ save' = NoSave
    /\ UNCHANGED <<phase, disc, registry, db, tracked, written, now, boots, fetched,
                   before, unseen>>

\* A tick of the refresh task.
StartRefresh ==
    /\ Running /\ disc.pc = "idle"
    /\ disc' = [pc |-> "request", attempt |-> 1]
    /\ UNCHANGED <<phase, poll, save, db, now, boots, fetched, memory>>

-----------------------------------------------------------------------------
(* The end of the process. *)

\* Everything but the table is gone.  A transaction whose COMMIT was on its way
\* may still take effect (commits).
Die(commits) ==
    /\ phase' = "down"
    /\ disc' = DiscIdle /\ poll' = PollIdle /\ save' = NoSave
    /\ registry' = <<>> /\ sent' = <<>> /\ tracked' = 0 /\ written' = 0
    /\ db' = IF commits THEN db \cup save.done ELSE db
    /\ before' = db' /\ unseen' = {}
    /\ UNCHANGED <<now, boots, fetched>>

InDoubt == Saving /\ save.done = save.rows

\* Ctrl-C: serve() begins its graceful shutdown; the polling loop sees the
\* signal only while it waits for a tick.
CtrlC ==
    /\ Running
    /\ phase' = "draining"
    /\ poll' = IF poll.pc = "idle" THEN [poll EXCEPT !.pc = "stopped"] ELSE poll
    /\ UNCHANGED <<disc, save, db, now, boots, fetched, memory>>

\* serve() has returned: the poll task is aborted, which takes effect at an
\* .await only, and there is none between its counters and its send.
Exit(commits) ==
    /\ phase = "draining"
    /\ poll.pc \notin {"record", "send"} /\ disc.pc # "record"
    /\ commits => InDoubt
    /\ Die(commits)

\* The process is killed, or start-up failed with an error.
Crash(commits) ==
    /\ phase # "down"
    /\ commits => InDoubt
    /\ Die(commits)

-----------------------------------------------------------------------------
Discovery  == DiscRetry \/ DiscFail \/ DiscRecord \/ \E m \in Rankings : DiscOk(m)
Backfill   == \/ BackfillSkip
              \/ \E e \in ReadErrors, s \in SUBSET CoinsOf(registry) : BackfillBuild(e, s)
SaveStep   == SaveRow \/ SaveFail \/ \E ack \in BOOLEAN : SaveCommit(ack)
PollAnswer == \/ PollRetry \/ PollFail
              \/ \E pairs \in SUBSET (poll.coins \X Currencies) : PollResponse(pairs)
Finish     == RecordPollOk \/ Broadcast
Stop       == CtrlC \/ \E c \in BOOLEAN : Exit(c) \/ Crash(c)

Next == Boot \/ Discovery \/ Backfill \/ SaveStep \/ StartPoll \/ PollAnswer
        \/ Finish \/ StartRefresh \/ Stop

Spec == Init /\ [][Next]_vars

\* The runtime keeps polling ready tasks, the timers keep ticking, and every
\* request and statement is eventually answered (reqwest is given no timeout, so
\* this last part is an assumption on the network).  Asked again and again,
\* discovery is eventually answered with a non-empty list.
Fairness ==
    /\ WF_vars(Discovery) /\ WF_vars(Backfill) /\ WF_vars(SaveStep)
    /\ WF_vars(PollAnswer) /\ WF_vars(Finish) /\ WF_vars(StartRefresh)
    /\ SF_vars(\E m \in Rankings : m # <<>> /\ DiscOk(m))

FairSpec == Spec /\ Fairness

-----------------------------------------------------------------------------
(* Properties. *)

\* Every variable keeps its type, whatever the process does or loses.
TypeOK ==
    /\ phase \in Phases
    /\ disc \in [pc : {"idle", "request", "record"}, attempt : 0..MaxAttempts]
    /\ registry \in Rankings
    /\ poll \in [pc : {"idle", "request", "save", "record", "send", "stopped"},
                 attempt : 0..MaxAttempts, coins : SUBSET Coins]
    /\ save \in [rows : SUBSET Rows, done : SUBSET Rows, blind : BOOLEAN]
    /\ db \in SUBSET Rows
    /\ sent \in Seq(SUBSET Rows)
    /\ tracked \in 0..Limit
    /\ written \in Nat
    /\ now \in 0..MaxNow
    /\ boots \in 0..MaxBoots
    /\ fetched \in SUBSET SUBSET Rows
    /\ before \in SUBSET Rows /\ unseen \in SUBSET Rows

\* Subscribers never see a price the database does not hold: run_polling_loop
\* sends a batch only after its transaction committed, across save errors, lost
\* commit answers, shutdown and crashes.
BroadcastPersisted == \A i \in DOMAIN sent : sent[i] \subseteq db

\* save_prices is all or nothing: whatever fails or dies halfway, the table holds
\* every row of a batch or none of them.
AtomicSaves == \A batch \in fetched : batch \subseteq db \/ batch \cap db = {}

\* cw_prices_written_total, "Price rows persisted." (metrics.rs:76), counts once every
\* row that the polls of this process have in the table, and no other: a failed save and a
\* crash leave nothing over, a restart begins at 0.  What it leaves out are the rows of a
\* COMMIT whose answer was lost, whose cycle counts as failed, and those of the backfill.
WrittenMatchesTable ==
    poll.pc # "record" =>
        written = Cardinality({r \in db \ before : r.src = "poll"} \ unseen)

\* cw_tracked_coins equals the size of the registry except in the instant between
\* replace and record_discovery_ok; a failed refresh leaves both alone.
GaugeMatchesRegistry == disc.pc # "record" => tracked = Len(registry)

\* What /metrics says of the service agrees with the table and the registry, at every
\* await and across crashes, failed saves and refreshes.
ServiceInv == TypeOK /\ WrittenMatchesTable /\ GaugeMatchesRegistry

\* Nothing is seeded while the first-ranked coin already has USD rows, provided
\* that the check could be read: no poll can slip in between check and seed.
TopCoinNotReseeded ==
    [][(\E r \in db' \ db : r.src = "seed") /\ ~save.blind
           => ~\E r \in db : r.coin = registry[1] /\ r.cur = Usd]_vars

\* What the comment on backfill_from_sparklines promises: "Runs only when the
\* table is empty, so restarts don't duplicate" (main.rs:166).
SeededOnce ==
    \A r, q \in db : r.src = "seed" /\ q.src = "seed" /\ r.coin = q.coin => r = q

\* A poll cycle ends: retries are bounded and every outcome returns to the loop.
PollCompletes == (poll.pc \notin {"idle", "stopped"}) ~> (poll.pc \in {"idle", "stopped"})

\* A failed discovery is retried on refresh until the registry is populated.
RegistryPopulated == []<>(~Running \/ registry # <<>>)
=============================================================================
