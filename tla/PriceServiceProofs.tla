------------------------- MODULE PriceServiceProofs -------------------------
(***************************************************************************)
(* Proofs about PriceService: for any coins and currencies, any number of  *)
(* boots, polls and attempts, what subscribers were sent is stored, the    *)
(* table holds every row of a batch or none of them, /metrics reports what *)
(* the process did, and a known history is not seeded again.               *)
(***************************************************************************)
EXTENDS PriceService, FiniteSetTheorems, TLAPS

PollState == [pc : {"idle", "request", "save", "record", "send", "stopped"},
              attempt : 0..MaxAttempts, coins : SUBSET Coins]
SaveState == [rows : SUBSET Rows, done : SUBSET Rows, blind : BOOLEAN]

\* The types of what a batch passes through.
DataTypes ==
    /\ phase \in Phases /\ poll \in PollState /\ save \in SaveState
    /\ db \in SUBSET Rows /\ sent \in Seq(SUBSET Rows)
    /\ now \in 0..MaxNow /\ fetched \in SUBSET SUBSET Rows

\* The transaction has inserted rows of its batch only; the batch was built by a fetch,
\* or is empty; and it is stored once its save has succeeded, until it is broadcast.
SaveSound ==
    /\ save.done \subseteq save.rows
    /\ save.rows = {} \/ save.rows \in fetched
    /\ poll.pc \in {"record", "send"} => save.rows \subseteq db

\* The polling loop is spawned after start-up is done: it never shares the transaction
\* with the backfill.
OneSaver == ~Running => poll.pc = "idle"

\* The rows of a batch carry the clock reading they were built at: no row is from the
\* future, and no two batches share a row.
BatchesApart ==
    /\ \A r \in db : r.at <= now
    /\ \A b \in fetched : \A r \in b : r.at <= now
    /\ \A b, c \in fetched : b # c => b \cap c = {}

\* The registry is a ranking: no discovery answers anything else.
Ranked == registry \in Rankings

IInv == DataTypes /\ SaveSound /\ OneSaver /\ BatchesApart /\ BroadcastPersisted /\ AtomicSaves

-----------------------------------------------------------------------------
(* Steps of several kinds. *)

\* Discovery, the backfill's check and the start of the process touch no batch.
LEMMA BatchUntouched ==
    ASSUME IInv, phase' \in Phases, Running => Running',
           UNCHANGED <<poll, save, db, sent, now, fetched>>
    PROVE  IInv'
BY DEF IInv, DataTypes, SaveSound, OneSaver, BatchesApart, BroadcastPersisted, AtomicSaves

\* A fetch builds a batch whose rows carry a new clock reading: none of them is stored
\* yet, or part of another batch.
LEMMA NewBatch ==
    ASSUME IInv, NEW rows \in SUBSET Rows, \A r \in rows : r.at = now + 1,
           now < MaxNow, now' = now + 1, fetched' = fetched \cup {rows}, db' = db
    PROVE  /\ now' \in 0..MaxNow /\ fetched' \in SUBSET SUBSET Rows
           /\ BatchesApart' /\ AtomicSaves'
<1> USE ServiceAssumption DEF IInv, DataTypes
<1>1. now' \in 0..MaxNow /\ fetched' \in SUBSET SUBSET Rows
  OBVIOUS
<1>2. \A r \in db : r \notin rows
  BY DEF BatchesApart
<1>3. \A b \in fetched : b \cap rows = {}
  BY DEF BatchesApart
<1>4. \A r \in db : r.at <= now'
  <2> TAKE r \in db
  <2>1. r.at <= now /\ r.at \in Int
    BY DEF BatchesApart, Rows
  <2> QED  BY <2>1
<1>5. \A b \in fetched' : \A r \in b : r.at <= now'
  <2> TAKE b \in fetched'
  <2> TAKE r \in b
  <2>1. r.at \in Int
    BY <1>1 DEF Rows
  <2>2. r.at <= now \/ r.at = now + 1
    BY DEF BatchesApart
  <2> QED  BY <2>1, <2>2
<1>6. BatchesApart'
  BY <1>3, <1>4, <1>5 DEF BatchesApart
<1>7. AtomicSaves'
  BY <1>2 DEF AtomicSaves
<1> QED  BY <1>1, <1>6, <1>7

\* A transaction that takes effect stores one batch, whole, and no part of another.
LEMMA Committed ==
    ASSUME IInv, save.done = save.rows, db' = db \cup save.done, now' = now, fetched' = fetched
    PROVE  db' \in SUBSET Rows /\ BatchesApart' /\ AtomicSaves' /\ save.rows \subseteq db'
<1> USE DEF IInv, DataTypes
<1>1. save.rows \in SUBSET Rows
  BY DEF SaveState
<1>2. \A r \in save.rows : r.at <= now
  BY DEF SaveSound, BatchesApart
<1>3. BatchesApart'
  BY <1>2 DEF BatchesApart
<1>4. ASSUME NEW b \in fetched PROVE b \subseteq db' \/ b \cap db' = {}
  <2>1. b = save.rows \/ b \cap save.rows = {}
    BY DEF SaveSound, BatchesApart
  <2> QED  BY <2>1 DEF AtomicSaves
<1> QED  BY <1>1, <1>3, <1>4 DEF AtomicSaves

-----------------------------------------------------------------------------
(* One lemma per action, or per few that do the same to a batch. *)

\* Start-up, discovery and refresh.
LEMMA StartKeeps ==
    ASSUME IInv, Boot \/ Discovery \/ BackfillSkip \/ StartRefresh
    PROVE  IInv'
<1>1. CASE Boot
  BY <1>1, BatchUntouched DEF Boot, memory, Running, Phases
<1>2. CASE Discovery
  <2>1. phase' = phase \/ (phase = "discover" /\ phase' \in {"serving", "check"})
    BY <1>2 DEF Discovery, DiscRetry, DiscFail, DiscRecord, DiscOk
  <2>2. UNCHANGED <<poll, save, db, sent, now, fetched>>
    BY <1>2 DEF Discovery, DiscRetry, DiscFail, DiscRecord, DiscOk, memory
  <2>3. phase' \in Phases /\ (Running => Running')
    BY <2>1 DEF IInv, DataTypes, Phases, Running
  <2> QED  BY <2>2, <2>3, BatchUntouched
<1>3. CASE BackfillSkip
  BY <1>3, BatchUntouched DEF BackfillSkip, memory, Running, Phases
<1>4. CASE StartRefresh
  BY <1>4, BatchUntouched DEF StartRefresh, memory, Running, IInv, DataTypes
<1> QED  BY <1>1, <1>2, <1>3, <1>4

\* The backfill builds one batch of seed rows.
LEMMA BackfillBuildKeeps ==
    ASSUME IInv, NEW e \in ReadErrors, NEW s \in SUBSET CoinsOf(registry), registry \in Rankings,
           BackfillBuild(e, s)
    PROVE  IInv'
<1> DEFINE rows == {[coin |-> c, cur |-> Usd, at |-> now + 1, src |-> "seed"] : c \in s}
<1> USE ServiceAssumption
<1>1. s \subseteq Coins
  BY DEF CoinsOf, Rankings
<1>2. now + 1 \in 1..MaxNow
  BY DEF BackfillBuild, IInv, DataTypes
<1>3. rows \in SUBSET Rows /\ \A r \in rows : r.at = now + 1
  BY <1>1, <1>2 DEF Rows
<1>4. /\ save' = [rows |-> rows, done |-> {}, blind |-> TopCoinHasHistory]
      /\ fetched' = fetched \cup {rows} /\ now' = now + 1 /\ now < MaxNow
      /\ phase = "check" /\ phase' \in {"serving", "seed"}
      /\ poll' = poll /\ db' = db /\ sent' = sent
  BY DEF BackfillBuild, memory
<1> HIDE DEF rows
<1>5. now' \in 0..MaxNow /\ fetched' \in SUBSET SUBSET Rows /\ BatchesApart' /\ AtomicSaves'
  BY <1>3, <1>4, NewBatch
<1>6. poll.pc = "idle"
  BY <1>4 DEF IInv, OneSaver, Running
<1>7. TopCoinHasHistory \in BOOLEAN
  BY DEF TopCoinHasHistory, HasHistory
<1>8. DataTypes'
  BY <1>3, <1>4, <1>5, <1>7 DEF IInv, DataTypes, SaveState, Phases
<1>9. SaveSound' /\ OneSaver' /\ BroadcastPersisted'
  BY <1>4, <1>6 DEF IInv, SaveSound, OneSaver, BroadcastPersisted
<1> QED  BY <1>5, <1>8, <1>9 DEF IInv

\* One INSERT.
LEMMA SaveRowKeeps ==
    ASSUME IInv, SaveRow
    PROVE  IInv'
<1>1. PICK r \in save.rows : save' = [save EXCEPT !.done = @ \cup {r}]
  <2>1. \E r \in save.rows : r \notin save.done
    BY DEF SaveRow, IInv, SaveSound
  <2> QED  BY <2>1 DEF SaveRow
<1>2. save' \in SaveState /\ save'.rows = save.rows /\ save'.done \subseteq save.rows
  BY <1>1 DEF IInv, DataTypes, SaveState, SaveSound
<1>3. UNCHANGED <<phase, poll, db, sent, now, fetched>>
  BY DEF SaveRow, memory
<1> QED  BY <1>2, <1>3 DEF IInv, DataTypes, SaveSound, OneSaver, Running, BatchesApart,
                            BroadcastPersisted, AtomicSaves

\* What an answer of save_prices leads to, with the table as it is then.
LEMMA AfterSaveKeeps ==
    ASSUME IInv, NEW ok \in BOOLEAN, AfterSave(ok), Saving,
           UNCHANGED <<sent, now, fetched>>, db \subseteq db', db' \in SUBSET Rows,
           BatchesApart', AtomicSaves', ok => save.rows \subseteq db'
    PROVE  IInv'
<1> USE DEF IInv, DataTypes
<1>1. NoSave \in SaveState /\ PollIdle \in PollState
  BY ServiceAssumption DEF NoSave, SaveState, PollIdle, PollState
<1>2. BroadcastPersisted'
  BY DEF BroadcastPersisted
<1>3. CASE phase = "seed"
  <2>1. phase' = "serving" /\ save' = NoSave /\ poll' = poll /\ poll.pc = "idle"
    BY <1>3 DEF AfterSave, OneSaver, Running
  <2>2. DataTypes' /\ SaveSound' /\ OneSaver'
    BY <1>1, <2>1 DEF Phases, SaveSound, OneSaver, NoSave
  <2> QED  BY <1>2, <2>2
<1>4. CASE phase # "seed"
  <2>1. poll.pc = "save" /\ Running /\ phase' = phase
    BY <1>4 DEF Saving, AfterSave, OneSaver
  <2>2. \/ ok /\ save' = save /\ poll' = [poll EXCEPT !.pc = "record"]
        \/ ~ok /\ save' = NoSave /\ poll' = PollIdle
    BY <1>4 DEF AfterSave
  <2>3. poll' \in PollState /\ save' \in SaveState
    BY <1>1, <2>2 DEF PollState
  <2>4. SaveSound'
    BY <2>2 DEF SaveSound, NoSave, PollState, PollIdle
  <2>5. OneSaver'
    BY <2>1 DEF OneSaver, Running
  <2> QED  BY <1>2, <2>1, <2>3, <2>4, <2>5
<1> QED  BY <1>3, <1>4

\* A rollback, and a COMMIT with or without its answer.
LEMMA SaveEndKeeps ==
    ASSUME IInv, NEW ack \in BOOLEAN, SaveFail \/ SaveCommit(ack)
    PROVE  IInv'
<1>1. CASE SaveFail
  <2>1. Saving /\ AfterSave(FALSE) /\ UNCHANGED <<db, sent, now, fetched>>
    BY <1>1 DEF SaveFail, memory
  <2>2. BatchesApart' /\ AtomicSaves' /\ db' \in SUBSET Rows
    BY <2>1 DEF IInv, DataTypes, BatchesApart, AtomicSaves
  <2> QED  BY <2>1, <2>2, AfterSaveKeeps
<1>2. CASE SaveCommit(ack)
  <2>1. /\ Saving /\ AfterSave(ack) /\ UNCHANGED <<sent, now, fetched>>
        /\ save.done = save.rows /\ db' = db \cup save.done
    BY <1>2 DEF SaveCommit, memory
  <2>2. db' \in SUBSET Rows /\ BatchesApart' /\ AtomicSaves' /\ save.rows \subseteq db'
    BY <2>1, Committed
  <2> QED  BY <2>1, <2>2, AfterSaveKeeps
<1> QED  BY <1>1, <1>2
\* A tick of the polling loop.
LEMMA StartPollKeeps ==
    ASSUME IInv, registry \in Rankings, StartPoll
    PROVE  IInv'
<1> USE ServiceAssumption DEF IInv, DataTypes
<1>1. CoinsOf(registry) \subseteq Coins
  BY DEF CoinsOf, Rankings
<1>2. poll' \in PollState /\ poll'.pc \in {"save", "request"}
  BY <1>1 DEF StartPoll, PollState, PollIdle
<1>3. save' = NoSave /\ NoSave \in SaveState
  BY DEF StartPoll, NoSave, SaveState
<1>4. Running /\ UNCHANGED <<phase, db, sent, now, fetched>>
  BY DEF StartPoll, memory
<1>5. DataTypes'
  BY <1>2, <1>3, <1>4
<1>6. SaveSound' /\ OneSaver'
  BY <1>2, <1>3, <1>4 DEF SaveSound, OneSaver, NoSave, Running
<1> QED  BY <1>4, <1>5, <1>6 DEF BatchesApart, BroadcastPersisted, AtomicSaves

\* A retry or a failure of a poll's request.
LEMMA PollNoAnswerKeeps ==
    ASSUME IInv, PollRetry \/ PollFail
    PROVE  IInv'
<1> USE ServiceAssumption DEF IInv, DataTypes
<1>1. poll' \in PollState /\ poll'.pc \in {"request", "idle"} /\ poll.pc = "request"
  BY DEF PollRetry, PollFail, PollState, PollIdle
<1>2. UNCHANGED <<phase, save, db, sent, now, fetched>>
  BY DEF PollRetry, PollFail, memory
<1> QED  BY <1>1, <1>2 DEF SaveSound, OneSaver, Running, BatchesApart, BroadcastPersisted,
                            AtomicSaves

\* An answer: one batch of the pairs it quotes.
LEMMA PollResponseKeeps ==
    ASSUME IInv, NEW pairs \in SUBSET (poll.coins \X Currencies), PollResponse(pairs)
    PROVE  IInv'
<1> DEFINE rows == {[coin |-> p[1], cur |-> p[2], at |-> now + 1, src |-> "poll"] : p \in pairs}
<1> USE ServiceAssumption
<1>1. poll.coins \subseteq Coins
  BY DEF IInv, DataTypes, PollState
<1>2. now + 1 \in 1..MaxNow
  BY DEF PollResponse, IInv, DataTypes
<1>3. rows \in SUBSET Rows /\ \A r \in rows : r.at = now + 1
  BY <1>1, <1>2 DEF Rows
<1>4. /\ save' = [NoSave EXCEPT !.rows = rows] /\ poll' = [poll EXCEPT !.pc = "save"]
      /\ fetched' = fetched \cup {rows} /\ now' = now + 1 /\ now < MaxNow
      /\ poll.pc = "request" /\ UNCHANGED <<phase, db, sent>>
  BY DEF PollResponse, memory
<1> HIDE DEF rows
<1>5. now' \in 0..MaxNow /\ fetched' \in SUBSET SUBSET Rows /\ BatchesApart' /\ AtomicSaves'
  BY <1>3, <1>4, NewBatch
<1>6. save' \in SaveState /\ save'.rows = rows /\ save'.done = {}
  BY <1>3, <1>4 DEF NoSave, SaveState
<1>7. poll' \in PollState /\ poll'.pc = "save" /\ Running
  BY <1>4 DEF IInv, DataTypes, PollState, OneSaver
<1>8. DataTypes'
  BY <1>4, <1>5, <1>6, <1>7 DEF IInv, DataTypes
<1>9. SaveSound' /\ OneSaver' /\ BroadcastPersisted'
  BY <1>4, <1>6, <1>7 DEF IInv, SaveSound, OneSaver, BroadcastPersisted, Running
<1> QED  BY <1>5, <1>8, <1>9 DEF IInv

\* The counters of a poll, then its broadcast: the rows it sends are stored.
LEMMA FinishKeeps ==
    ASSUME IInv, Finish
    PROVE  IInv'
<1> USE ServiceAssumption DEF IInv, DataTypes
<1>1. CASE RecordPollOk
  <2>1. poll' \in PollState /\ poll'.pc = "send" /\ poll.pc = "record"
    BY <1>1 DEF RecordPollOk, PollState
  <2>2. UNCHANGED <<phase, save, db, sent, now, fetched>>
    BY <1>1 DEF RecordPollOk
  <2> QED  BY <2>1, <2>2 DEF SaveSound, OneSaver, Running, BatchesApart, BroadcastPersisted,
                              AtomicSaves
<1>2. CASE Broadcast
  <2>1. /\ poll.pc = "send" /\ sent' = Append(sent, save.rows)
        /\ poll' = PollIdle /\ save' = NoSave /\ UNCHANGED <<phase, db, now, fetched>>
    BY <1>2 DEF Broadcast
  <2>2. save.rows \in SUBSET Rows /\ save.rows \subseteq db
    BY <2>1 DEF SaveState, SaveSound
  <2>3. sent' \in Seq(SUBSET Rows)
    BY <2>1, <2>2
  <2>4. BroadcastPersisted'
    BY <2>1, <2>2 DEF BroadcastPersisted
  <2>5. NoSave \in SaveState /\ PollIdle \in PollState /\ PollIdle.pc = "idle"
    BY DEF NoSave, SaveState, PollIdle, PollState
  <2>6. DataTypes' /\ SaveSound' /\ OneSaver'
    BY <2>1, <2>3, <2>5 DEF SaveSound, OneSaver, NoSave
  <2> QED  BY <2>1, <2>4, <2>6 DEF BatchesApart, AtomicSaves
<1> QED  BY <1>1, <1>2 DEF Finish

\* Ctrl-C, the exit after it and a kill at any moment: the process forgets, and of the
\* table's rows only those of a COMMIT on its way may still be added.
LEMMA StopKeeps ==
    ASSUME IInv, Stop
    PROVE  IInv'
<1> USE ServiceAssumption DEF IInv, DataTypes
<1>1. CASE CtrlC
  <2>1. /\ poll' \in PollState /\ (poll'.pc = poll.pc \/ poll'.pc = "stopped")
        /\ phase' = "draining" /\ Running'
    BY <1>1 DEF CtrlC, PollState, Running
  <2>2. UNCHANGED <<save, db, sent, now, fetched>>
    BY <1>1 DEF CtrlC, memory
  <2> QED  BY <2>1, <2>2 DEF Phases, SaveSound, OneSaver, BatchesApart, BroadcastPersisted,
                              AtomicSaves
<1>2. ASSUME NEW c \in BOOLEAN, c => InDoubt, Die(c)
      PROVE  IInv'
  <2>1. /\ phase' = "down" /\ poll' = PollIdle /\ save' = NoSave /\ sent' = <<>>
        /\ db' = (IF c THEN db \cup save.done ELSE db) /\ now' = now /\ fetched' = fetched
    BY <1>2 DEF Die
  <2>2. db' \in SUBSET Rows /\ BatchesApart' /\ AtomicSaves'
    <3>1. CASE c
      BY <1>2, <2>1, <3>1, Committed DEF InDoubt
    <3>2. CASE ~c
      BY <2>1, <3>2 DEF BatchesApart, AtomicSaves
    <3> QED  BY <3>1, <3>2
  <2>3. NoSave \in SaveState /\ PollIdle \in PollState /\ PollIdle.pc = "idle"
    BY DEF NoSave, SaveState, PollIdle, PollState
  <2>4. DataTypes' /\ BroadcastPersisted'
    BY <2>1, <2>2, <2>3 DEF Phases, BroadcastPersisted
  <2>5. SaveSound' /\ OneSaver'
    BY <2>1, <2>3 DEF SaveSound, OneSaver, NoSave
  <2> QED  BY <2>2, <2>4, <2>5
<1> QED  BY <1>1, <1>2 DEF Stop, Exit, Crash

-----------------------------------------------------------------------------
(* The theorems. *)

\* The registry stays a ranking, through discovery, refresh and restart.
LEMMA RegistryRanked == Spec => []Ranked
<1>1. Init => Ranked
  <2>1. <<>> \in [1..0 -> Coins] /\ 0 \in 0..Limit
    BY ServiceAssumption
  <2> QED  BY <2>1 DEF Init, Rankings, Ranked
<1>2. Ranked /\ [Next]_vars => Ranked'
  <2> SUFFICES ASSUME registry \in Rankings, [Next]_vars PROVE registry' \in Rankings
    BY DEF Ranked
  <2>1. <<>> \in Rankings
    <3>1. <<>> \in [1..0 -> Coins] /\ 0 \in 0..Limit
      BY ServiceAssumption
    <3> QED  BY <3>1 DEF Rankings
  <2>2. registry' \in {registry, <<>>} \cup Rankings
    BY DEF Next, vars, memory, Boot, Discovery, DiscRetry, DiscFail, DiscOk, DiscRecord, Backfill,
           BackfillSkip, BackfillBuild, SaveStep, SaveRow, SaveFail, SaveCommit, StartPoll,
           PollAnswer, PollRetry, PollFail, PollResponse, Finish, RecordPollOk, Broadcast,
           StartRefresh, Stop, CtrlC, Exit, Crash, Die
  <2> QED  BY <2>1, <2>2
<1> QED  BY <1>1, <1>2, PTL DEF Spec

\* The invariant is inductive.
LEMMA StepKeeps == IInv /\ Ranked /\ [Next]_vars => IInv'
<1> SUFFICES ASSUME IInv, registry \in Rankings, [Next]_vars PROVE IInv'
  BY DEF Ranked
<1>1. CASE Boot \/ Discovery \/ StartRefresh
  BY <1>1, StartKeeps
<1>2. CASE Backfill
  BY <1>2, StartKeeps, BackfillBuildKeeps DEF Backfill
<1>3. CASE SaveStep
  BY <1>3, SaveRowKeeps, SaveEndKeeps DEF SaveStep
<1>4. CASE StartPoll \/ PollAnswer
  BY <1>4, StartPollKeeps, PollNoAnswerKeeps, PollResponseKeeps DEF PollAnswer
<1>5. CASE Finish \/ Stop
  BY <1>5, FinishKeeps, StopKeeps
<1>6. CASE UNCHANGED vars
  BY <1>6 DEF vars, IInv, DataTypes, SaveSound, OneSaver, Running, BatchesApart,
              BroadcastPersisted, AtomicSaves
<1> QED  BY <1>1, <1>2, <1>3, <1>4, <1>5, <1>6 DEF Next

\* Before the first start there are no batches.
LEMMA InitHolds == Init => IInv
<1> SUFFICES ASSUME Init PROVE IInv
  OBVIOUS
<1> USE ServiceAssumption DEF Init
<1>1. DataTypes
  BY DEF DataTypes, Phases, PollState, PollIdle, SaveState, NoSave
<1>2. SaveSound /\ OneSaver /\ BatchesApart
  BY DEF SaveSound, OneSaver, BatchesApart, PollIdle, NoSave
<1>3. BroadcastPersisted /\ AtomicSaves
  BY DEF BroadcastPersisted, AtomicSaves
<1> QED  BY <1>1, <1>2, <1>3 DEF IInv

\* What subscribers were sent is stored: a batch is broadcast only after its transaction
\* committed, whatever fails, is lost or dies (run_polling_loop, save_prices).
THEOREM SentIsStored == Spec => []BroadcastPersisted
<1>1. IInv => BroadcastPersisted
  BY DEF IInv
<1> QED  BY <1>1, InitHolds, StepKeeps, RegistryRanked, PTL DEF Spec

\* The table holds every row of a batch or none of them, whatever statement fails and
\* whenever the process dies (save_prices' transaction).
THEOREM SavesAreAtomic == Spec => []AtomicSaves
<1>1. IInv => AtomicSaves
  BY DEF IInv
<1> QED  BY <1>1, InitHolds, StepKeeps, RegistryRanked, PTL DEF Spec

-----------------------------------------------------------------------------
(* What /metrics says. *)

\* The rows this process broadcast, and those a cycle has counted but not broadcast yet.
Told    == UNION {sent[i] : i \in DOMAIN sent}
Counted == IF poll.pc = "send" THEN save.rows ELSE {}

\* The polled rows this process has in the table, but for those of a lost answer; and
\* those it knows to be there and has not broadcast yet.
InTable == {r \in db \ before : r.src = "poll"} \ unseen
InHand  == IF poll.pc \in {"record", "send"} THEN save.rows ELSE {}

RestTypes ==
    /\ disc \in [pc : {"idle", "request", "record"}, attempt : 0..MaxAttempts]
    /\ tracked \in 0..Limit /\ boots \in 0..MaxBoots

\* A batch is broadcast once: what is being saved was not told before.
NotToldYet == save.rows \cap Told = {}

\* The counter runs ahead of the broadcasts by the batch of the cycle under way.
WrittenCounts == written = Cardinality(Told) + Cardinality(Counted)

\* What history recorded is in the table, and a batch under way is none of it; the backfill
\* saves seeds and the polls do not.
HistoryStored ==
    /\ before \subseteq db /\ unseen \subseteq db
    /\ save.rows \cap (before \cup unseen) = {}
    /\ \A r \in save.rows : r.src = (IF phase = "seed" THEN "seed" ELSE "poll")

\* A process has told all that its polls have in the table, but for what it has in hand.
TableTold == InTable = Told \cup InHand

\* A process that is down has no discovery under way.
DownIdle == phase = "down" => disc = DiscIdle

MetricsInv == RestTypes /\ NotToldYet /\ WrittenCounts /\ GaugeMatchesRegistry /\ DownIdle
StoreInv   == HistoryStored /\ TableTold
FullInv    == IInv /\ Ranked /\ MetricsInv /\ StoreInv

\* There are finitely many rows within the bounds.
LEMMA RowsFinite == IsFiniteSet(Rows)
<1> DEFINE S == ((Coins \X Currencies) \X (1..MaxNow)) \X {"poll", "seed"}
           f == [r \in Rows |-> <<<<<<r.coin, r.cur>>, r.at>>, r.src>>]
<1>1. IsFiniteSet(Coins \X Currencies)
  BY ServiceAssumption, FS_Product
<1>2. IsFiniteSet(1..MaxNow)
  BY ServiceAssumption, FS_Interval
<1>3. IsFiniteSet((Coins \X Currencies) \X (1..MaxNow))
  BY <1>1, <1>2, FS_Product
<1>4. IsFiniteSet({"poll", "seed"})
  <2>1. IsFiniteSet({"poll"})
    BY FS_Singleton
  <2>2. {"poll", "seed"} = {"poll"} \cup {"seed"}
    OBVIOUS
  <2> QED  BY <2>1, <2>2, FS_AddElement
<1>5. IsFiniteSet(S)
  BY <1>3, <1>4, FS_Product
<1>6. f \in Injection(Rows, S)
  <2>1. f \in [Rows -> S]
    BY DEF Rows
  <2>2. ASSUME NEW r \in Rows, NEW t \in Rows, f[r] = f[t] PROVE r = t
    BY <2>2 DEF Rows
  <2> QED  BY <2>1, <2>2 DEF Injection, IsInjective
<1>7. IsFiniteSet(Rows)
  <2> HIDE DEF S, f
  <2> QED  BY <1>5, <1>6, FS_Injection
<1> QED  BY <1>7

\* What was told is stored, and of finitely many rows.
LEMMA ToldStored ==
    ASSUME IInv
    PROVE  /\ Told \subseteq db /\ Told \subseteq Rows
           /\ IsFiniteSet(Told) /\ IsFiniteSet(save.rows) /\ IsFiniteSet({})
           /\ Cardinality({}) = 0 /\ Cardinality(Told) \in Nat /\ Cardinality(save.rows) \in Nat
<1>1. Told \subseteq db /\ Told \subseteq Rows /\ save.rows \subseteq Rows
  BY DEF Told, IInv, BroadcastPersisted, DataTypes, SaveState
<1>2. IsFiniteSet(Told) /\ IsFiniteSet(save.rows)
  BY <1>1, RowsFinite, FS_Subset
<1> QED  BY <1>1, <1>2, FS_EmptySet, FS_CardinalityType

\* The counts are numbers.
LEMMA ToldNumbers ==
    ASSUME FullInv PROVE Cardinality(Told) \in Nat /\ Cardinality(save.rows) \in Nat
BY ToldStored DEF FullInv

\* Steps that tell nothing and count nothing.
LEMMA CountersUntouched ==
    ASSUME NotToldYet, WrittenCounts, UNCHANGED <<sent, written>>,
           save'.rows \subseteq save.rows, Counted' = Counted
    PROVE  NotToldYet' /\ WrittenCounts'
<1>1. Told' = Told
  BY DEF Told
<1> QED  BY <1>1 DEF NotToldYet, WrittenCounts

\* The process starts, discovers and refreshes: the gauge follows the registry.
LEMMA DiscoveryCounts ==
    ASSUME FullInv, Boot \/ Discovery \/ BackfillSkip \/ StartRefresh
    PROVE  MetricsInv'
<1> USE ServiceAssumption DEF FullInv, MetricsInv
<1>1. UNCHANGED <<poll, save, sent, written>>
  BY DEF Boot, Discovery, DiscRetry, DiscFail, DiscOk, DiscRecord, BackfillSkip, StartRefresh, memory
<1>2. NotToldYet' /\ WrittenCounts'
  BY <1>1, CountersUntouched DEF Counted
<1>3. CASE Boot
  <2>1. boots' \in 0..MaxBoots /\ 1 \in 0..MaxAttempts
    BY <1>3 DEF Boot, RestTypes
  <2>2. disc.pc = "idle"
    BY <1>3 DEF Boot, DownIdle, DiscIdle
  <2> QED  BY <1>2, <1>3, <2>1, <2>2 DEF Boot, RestTypes, GaugeMatchesRegistry, DownIdle, memory
<1>4. CASE BackfillSkip
  BY <1>2, <1>4 DEF BackfillSkip, RestTypes, GaugeMatchesRegistry, DownIdle, memory
<1>5. CASE StartRefresh
  <2>1. 1 \in 0..MaxAttempts
    OBVIOUS
  <2> QED  BY <1>2, <1>5, <2>1 DEF StartRefresh, RestTypes, GaugeMatchesRegistry, DownIdle, Running, memory
<1>6. CASE Discovery
  <2>1. phase # "down" /\ phase' # "down"
    BY <1>6 DEF Discovery, DiscRetry, DiscFail, DiscOk, DiscRecord, DownIdle, DiscIdle
  <2>2. CASE DiscRetry
    <3>1. disc.attempt + 1 \in 0..MaxAttempts
      BY <2>2 DEF DiscRetry, RestTypes
    <3> QED  BY <1>2, <2>1, <2>2, <3>1 DEF DiscRetry, RestTypes, GaugeMatchesRegistry, DownIdle, memory
  <2>3. CASE DiscFail
    BY <1>2, <2>1, <2>3 DEF DiscFail, DiscIdle, RestTypes, GaugeMatchesRegistry, DownIdle, memory
  <2>4. CASE \E m \in Rankings : DiscOk(m)
    BY <1>2, <2>1, <2>4 DEF DiscOk, RestTypes, GaugeMatchesRegistry, DownIdle
  <2>5. CASE DiscRecord
    <3>1. Len(registry) \in 0..Limit
      BY DEF Ranked, Rankings
    <3> QED  BY <1>2, <2>1, <2>5, <3>1 DEF DiscRecord, DiscIdle, RestTypes, GaugeMatchesRegistry, DownIdle
  <2> QED  BY <1>6, <2>2, <2>3, <2>4, <2>5 DEF Discovery
<1> QED  BY <1>3, <1>4, <1>5, <1>6

\* A batch is built, saved or given up, a poll starts or fails: a new batch is newer than
\* all that was told.
LEMMA BatchCounts ==
    ASSUME FullInv,
           \/ \E e \in ReadErrors, s \in SUBSET CoinsOf(registry) : BackfillBuild(e, s)
           \/ SaveStep \/ StartPoll \/ PollAnswer
    PROVE  MetricsInv'
<1> USE DEF FullInv, MetricsInv
<1>1. UNCHANGED <<sent, written, disc, tracked, boots, registry>>
  BY DEF BackfillBuild, SaveStep, SaveRow, SaveFail, SaveCommit, StartPoll, PollAnswer, PollRetry,
         PollFail, PollResponse, memory
<1>2. RestTypes' /\ GaugeMatchesRegistry'
  BY <1>1 DEF RestTypes, GaugeMatchesRegistry
<1>3. DownIdle'
  <2>1. phase' = "down" => phase = "down"
    BY DEF BackfillBuild, SaveStep, SaveRow, SaveFail, SaveCommit, AfterSave, StartPoll, PollAnswer,
           PollRetry, PollFail, PollResponse
  <2> QED  BY <1>1, <2>1 DEF DownIdle
<1>4. poll.pc # "send" /\ poll'.pc # "send"
  BY DEF IInv, OneSaver, Running, BackfillBuild, SaveStep, SaveRow, SaveFail, SaveCommit, Saving,
         AfterSave, StartPoll, PollAnswer, PollRetry, PollFail, PollResponse, PollIdle, DataTypes, PollState
<1>5. save'.rows \subseteq save.rows \/ \A r \in save'.rows : r.at = now + 1
  <2>1. CASE SaveStep
    BY <2>1 DEF SaveStep, SaveRow, SaveFail, SaveCommit, AfterSave, NoSave, IInv, DataTypes, SaveState
  <2>2. CASE StartPoll \/ PollRetry \/ PollFail
    BY <2>2 DEF StartPoll, PollRetry, PollFail, NoSave
  <2>3. ASSUME NEW e \in ReadErrors, NEW s \in SUBSET CoinsOf(registry), BackfillBuild(e, s)
        PROVE  \A r \in save'.rows : r.at = now + 1
    BY <2>3 DEF BackfillBuild
  <2>4. ASSUME NEW pairs \in SUBSET (poll.coins \X Currencies), PollResponse(pairs)
        PROVE  \A r \in save'.rows : r.at = now + 1
    BY <2>4 DEF PollResponse, NoSave
  <2> QED  BY <2>1, <2>2, <2>3, <2>4 DEF PollAnswer
<1>6. save'.rows \cap Told = {}
  <2>1. CASE save'.rows \subseteq save.rows
    BY <2>1 DEF NotToldYet
  <2>2. CASE \A r \in save'.rows : r.at = now + 1
    <3>1. \A r \in Told : r.at <= now /\ r.at \in Int
      BY ToldStored DEF IInv, BatchesApart, Rows
    <3>2. now \in Int
      BY ServiceAssumption DEF IInv, DataTypes
    <3>3. \A r \in Told : r.at # now + 1
      BY <3>1, <3>2
    <3> QED  BY <2>2, <3>3
  <2> QED  BY <1>5, <2>1, <2>2
<1>7. Told' = Told /\ Counted' = Counted
  BY <1>1, <1>4 DEF Told, Counted
<1>8. NotToldYet' /\ WrittenCounts'
  BY <1>1, <1>6, <1>7 DEF NotToldYet, WrittenCounts
<1> QED  BY <1>2, <1>3, <1>8

\* The counter, the broadcast, and the end of the process, which forgets both.
LEMMA EndCounts ==
    ASSUME FullInv, Finish \/ Stop
    PROVE  MetricsInv'
<1> USE ServiceAssumption DEF FullInv, MetricsInv
<1>1. CASE RecordPollOk
  <2>1. /\ poll.pc = "record" /\ poll'.pc = "send" /\ written' = written + Cardinality(save.rows)
        /\ UNCHANGED <<phase, disc, registry, save, sent, tracked, boots>>
    BY <1>1 DEF RecordPollOk, IInv, DataTypes, PollState
  <2>2. Told' = Told /\ Counted = {} /\ Counted' = save.rows
    BY <2>1 DEF Told, Counted
  <2>3. WrittenCounts'
    BY <2>1, <2>2, ToldStored DEF WrittenCounts
  <2> QED  BY <2>1, <2>2, <2>3 DEF NotToldYet, RestTypes, GaugeMatchesRegistry, DownIdle
<1>2. CASE Broadcast
  <2>1. /\ poll.pc = "send" /\ poll' = PollIdle /\ save' = NoSave /\ sent' = Append(sent, save.rows)
        /\ UNCHANGED <<phase, disc, registry, written, tracked, boots>>
    BY <1>2 DEF Broadcast
  <2>2. Counted = save.rows /\ Counted' = {} /\ save'.rows = {}
    BY <2>1 DEF Counted, PollIdle, NoSave
  <2>3. Told' = Told \cup save.rows
    <3>1. sent \in Seq(SUBSET Rows) /\ save.rows \in SUBSET Rows
      BY DEF IInv, DataTypes, SaveState
    <3>2. DOMAIN sent' = DOMAIN sent \cup {Len(sent) + 1} /\ sent'[Len(sent) + 1] = save.rows
          /\ \A i \in DOMAIN sent : sent'[i] = sent[i]
      BY <2>1, <3>1
    <3> QED  BY <3>2 DEF Told
  <2>4. Cardinality(Told \cup save.rows) = Cardinality(Told) + Cardinality(save.rows)
    <3>1. Told \cap save.rows = {}
      BY DEF NotToldYet
    <3>2. Cardinality(Told \cup save.rows)
            = Cardinality(Told) + Cardinality(save.rows) - Cardinality(Told \cap save.rows)
      BY ToldStored, FS_Union
    <3>3. Cardinality(Told \cap save.rows) = 0
      BY <3>1, ToldStored
    <3> HIDE DEF FullInv, MetricsInv
    <3> QED  BY <3>2, <3>3, ToldNumbers
  <2>5. WrittenCounts'
    BY <2>1, <2>2, <2>3, <2>4, ToldStored DEF WrittenCounts
  <2> QED  BY <2>1, <2>2, <2>5 DEF NotToldYet, RestTypes, GaugeMatchesRegistry, DownIdle
<1>3. CASE CtrlC
  <2>1. /\ phase' = "draining" /\ (poll'.pc = poll.pc \/ (poll.pc = "idle" /\ poll'.pc = "stopped"))
        /\ UNCHANGED <<save, sent, written, disc, registry, tracked, boots>>
    BY <1>3 DEF CtrlC, memory, IInv, DataTypes, PollState
  <2>2. NotToldYet' /\ WrittenCounts'
    BY <2>1, CountersUntouched DEF Counted
  <2> QED  BY <2>1, <2>2 DEF RestTypes, GaugeMatchesRegistry, DownIdle
<1>4. ASSUME NEW c \in BOOLEAN, Die(c) PROVE MetricsInv'
  <2>1. /\ phase' = "down" /\ disc' = DiscIdle /\ poll' = PollIdle /\ save' = NoSave
        /\ registry' = <<>> /\ sent' = <<>> /\ tracked' = 0 /\ written' = 0 /\ boots' = boots
    BY <1>4 DEF Die
  <2>2. Told' = {} /\ Counted' = {}
    BY <2>1 DEF Told, Counted, PollIdle
  <2>3. NotToldYet' /\ WrittenCounts'
    BY <2>1, <2>2, ToldStored DEF NotToldYet, WrittenCounts
  <2>4. RestTypes'
    BY <2>1 DEF RestTypes, DiscIdle
  <2> QED  BY <2>1, <2>3, <2>4 DEF GaugeMatchesRegistry, DownIdle
<1> QED  BY <1>1, <1>2, <1>3, <1>4 DEF Finish, Stop, Exit, Crash

\* Steps that neither store, nor tell, nor begin a batch.
LEMMA StoreUntouched ==
    ASSUME StoreInv, UNCHANGED <<db, sent, before, unseen>>, save'.rows \subseteq save.rows,
           InHand' = InHand, save'.rows = {} \/ (phase' = "seed" <=> phase = "seed")
    PROVE  StoreInv'
<1>1. Told' = Told /\ InTable' = InTable
  BY DEF Told, InTable
<1>2. \A r \in save'.rows : r.src = (IF phase' = "seed" THEN "seed" ELSE "poll")
  BY DEF StoreInv, HistoryStored
<1> QED  BY <1>1, <1>2 DEF StoreInv, HistoryStored, TableTold

\* Start-up, discovery, refresh and Ctrl-C store nothing, nor do a poll without an answer,
\* an INSERT, a rollback and the counters.
LEMMA QuietStores ==
    ASSUME FullInv,
           \/ Boot \/ Discovery \/ BackfillSkip \/ StartRefresh \/ CtrlC
           \/ StartPoll \/ PollRetry \/ PollFail \/ SaveRow \/ SaveFail \/ RecordPollOk
    PROVE  StoreInv'
<1> USE DEF FullInv, IInv
<1>1. UNCHANGED <<db, sent, before, unseen>>
  BY DEF Boot, Discovery, DiscRetry, DiscFail, DiscOk, DiscRecord, BackfillSkip, StartRefresh,
         CtrlC, StartPoll, PollRetry, PollFail, SaveRow, SaveFail, RecordPollOk, memory
<1>2. save'.rows \subseteq save.rows
  BY DEF Boot, Discovery, DiscRetry, DiscFail, DiscOk, DiscRecord, BackfillSkip, StartRefresh,
         CtrlC, StartPoll, PollRetry, PollFail, SaveRow, SaveFail, RecordPollOk, AfterSave,
         NoSave, DataTypes, SaveState
<1>3. InHand' = InHand
  <2>1. CASE RecordPollOk
    BY <2>1 DEF RecordPollOk, InHand, DataTypes, PollState
  <2>2. CASE CtrlC
    BY <2>2 DEF CtrlC, InHand, DataTypes, PollState
  <2>3. CASE StartPoll \/ PollRetry \/ PollFail
    BY <2>3 DEF StartPoll, PollRetry, PollFail, InHand, PollIdle, DataTypes, PollState
  <2>4. CASE SaveRow
    BY <2>4 DEF SaveRow, InHand, DataTypes, SaveState
  <2>5. CASE SaveFail
    <3>1. poll.pc \notin {"record", "send"} /\ poll'.pc \notin {"record", "send"}
      BY <2>5 DEF SaveFail, Saving, AfterSave, PollIdle, OneSaver, Running
    <3> QED  BY <3>1 DEF InHand
  <2>6. CASE Boot \/ Discovery \/ BackfillSkip \/ StartRefresh
    BY <2>6 DEF Boot, Discovery, DiscRetry, DiscFail, DiscOk, DiscRecord, BackfillSkip,
                StartRefresh, InHand
  <2> QED  BY <2>1, <2>2, <2>3, <2>4, <2>5, <2>6
<1>4. save'.rows = {} \/ (phase' = "seed" <=> phase = "seed")
  BY DEF Boot, Discovery, DiscRetry, DiscFail, DiscOk, DiscRecord, BackfillSkip, StartRefresh,
         CtrlC, StartPoll, PollRetry, PollFail, SaveRow, SaveFail, RecordPollOk, AfterSave,
         NoSave, Running
<1> QED  BY <1>1, <1>2, <1>3, <1>4, StoreUntouched

\* A new batch is newer than all that is in the table.
LEMMA BuildStores ==
    ASSUME FullInv,
           \/ \E e \in ReadErrors, s \in SUBSET CoinsOf(registry) : BackfillBuild(e, s)
           \/ \E pairs \in SUBSET (poll.coins \X Currencies) : PollResponse(pairs)
    PROVE  StoreInv'
<1> USE DEF FullInv, IInv
<1>1. UNCHANGED <<db, sent, before, unseen>> /\ \A r \in save'.rows : r.at = now + 1
  BY DEF BackfillBuild, PollResponse, NoSave, memory
<1>2. save'.rows \cap db = {}
  <2>1. \A r \in db : r.at <= now /\ r.at \in Int /\ now \in Int
    BY ServiceAssumption DEF BatchesApart, DataTypes, Rows
  <2> QED  BY <1>1, <2>1
<1>3. InHand = {} /\ InHand' = {}
  BY DEF BackfillBuild, PollResponse, InHand, OneSaver, Running, DataTypes, PollState
<1>4. \A r \in save'.rows : r.src = (IF phase' = "seed" THEN "seed" ELSE "poll")
  <2>1. ASSUME NEW e \in ReadErrors, NEW s \in SUBSET CoinsOf(registry), BackfillBuild(e, s)
        PROVE  \A r \in save'.rows : r.src = "seed" /\ (save'.rows # {} => phase' = "seed")
    BY <2>1 DEF BackfillBuild
  <2>2. ASSUME NEW pairs \in SUBSET (poll.coins \X Currencies), PollResponse(pairs)
        PROVE  (\A r \in save'.rows : r.src = "poll") /\ phase' # "seed"
    BY <2>2 DEF PollResponse, NoSave, OneSaver, Running
  <2> QED  BY <2>1, <2>2
<1>5. Told' = Told /\ InTable' = InTable
  BY <1>1 DEF Told, InTable
<1> QED  BY <1>1, <1>2, <1>3, <1>4, <1>5 DEF StoreInv, HistoryStored, TableTold

\* COMMIT: the rows are in hand, or seeds, or those of a lost answer.
LEMMA CommitStores ==
    ASSUME FullInv, NEW ack \in BOOLEAN, SaveCommit(ack)
    PROVE  StoreInv'
<1> USE DEF FullInv, IInv, StoreInv
<1>1. /\ Saving /\ db' = db \cup save.rows /\ UNCHANGED <<sent, before>> /\ AfterSave(ack)
      /\ unseen' = IF ack \/ phase = "seed" THEN unseen ELSE unseen \cup save.rows
  BY DEF SaveCommit
<1>2. Told' = Told /\ InHand = {} /\ InTable = Told
  BY <1>1 DEF Told, InHand, Saving, OneSaver, Running, TableTold
<1>3. CASE phase = "seed"
  <2>1. save'.rows = {} /\ InHand' = {} /\ phase' = "serving"
    BY <1>1, <1>3 DEF AfterSave, NoSave, InHand, OneSaver, Running
  <2>2. InTable' = InTable
    BY <1>1, <1>3 DEF InTable, HistoryStored
  <2> QED  BY <1>1, <1>2, <1>3, <2>1, <2>2 DEF HistoryStored, TableTold
<1>4. CASE phase # "seed" /\ ack
  <2>1. save' = save /\ InHand' = save.rows /\ phase' = phase
    BY <1>1, <1>4 DEF AfterSave, InHand, DataTypes, PollState
  <2>2. InTable' = InTable \cup save.rows
    BY <1>1, <1>4 DEF InTable, HistoryStored
  <2> QED  BY <1>1, <1>2, <1>4, <2>1, <2>2 DEF HistoryStored, TableTold
<1>5. CASE phase # "seed" /\ ~ack
  <2>1. save'.rows = {} /\ InHand' = {} /\ phase' = phase
    BY <1>1, <1>5 DEF AfterSave, NoSave, InHand, PollIdle
  <2>2. InTable' = InTable
    BY <1>1, <1>2, <1>5 DEF InTable, MetricsInv, NotToldYet
  <2> QED  BY <1>1, <1>2, <1>5, <2>1, <2>2 DEF HistoryStored, TableTold
<1> QED  BY <1>3, <1>4, <1>5

\* A broadcast tells what was in hand; the end of the process starts the accounts anew.
LEMMA EndStores ==
    ASSUME FullInv, Broadcast \/ \E c \in BOOLEAN : Exit(c) \/ Crash(c)
    PROVE  StoreInv'
<1> USE DEF FullInv, IInv, StoreInv
<1>1. CASE Broadcast
  <2>1. /\ poll.pc = "send" /\ poll' = PollIdle /\ save' = NoSave /\ sent' = Append(sent, save.rows)
        /\ UNCHANGED <<phase, db, before, unseen>>
    BY <1>1 DEF Broadcast
  <2>2. Told' = Told \cup save.rows
    <3>1. sent \in Seq(SUBSET Rows) /\ save.rows \in SUBSET Rows
      BY DEF DataTypes, SaveState
    <3>2. DOMAIN sent' = DOMAIN sent \cup {Len(sent) + 1} /\ sent'[Len(sent) + 1] = save.rows
          /\ \A i \in DOMAIN sent : sent'[i] = sent[i]
      BY <2>1, <3>1
    <3> QED  BY <3>2 DEF Told
  <2>3. InHand = save.rows /\ InHand' = {} /\ InTable' = InTable /\ save'.rows = {}
    BY <2>1 DEF InHand, InTable, PollIdle, NoSave
  <2> QED  BY <2>1, <2>2, <2>3 DEF HistoryStored, TableTold
<1>2. ASSUME NEW c \in BOOLEAN, Die(c) PROVE StoreInv'
  <2>1. /\ poll' = PollIdle /\ save' = NoSave /\ sent' = <<>> /\ before' = db' /\ unseen' = {}
    BY <1>2 DEF Die
  <2>2. Told' = {} /\ InHand' = {} /\ InTable' = {} /\ save'.rows = {}
    BY <2>1 DEF Told, InHand, InTable, PollIdle, NoSave
  <2> QED  BY <2>1, <2>2 DEF HistoryStored, TableTold
<1> QED  BY <1>1, <1>2 DEF Exit, Crash

\* What /metrics reports is what the process did: prices written are the rows its polls have
\* in the table but for those of a lost answer, tracked coins those of its registry,
\* whatever fails and whenever it dies (metrics.rs).
THEOREM ServiceInvariant == Spec => []ServiceInv
<1>1. Init => MetricsInv
  <2> SUFFICES ASSUME Init PROVE MetricsInv
    OBVIOUS
  <2> USE ServiceAssumption DEF Init
  <2>1. Told = {} /\ Counted = {} /\ Cardinality({}) = 0
    BY FS_EmptySet DEF Told, Counted, PollIdle
  <2>2. RestTypes
    BY DEF RestTypes, DiscIdle
  <2> QED  BY <2>1, <2>2 DEF MetricsInv, NotToldYet, WrittenCounts, GaugeMatchesRegistry, DownIdle, NoSave
<1>2. Init => StoreInv
  <2> SUFFICES ASSUME Init PROVE StoreInv
    OBVIOUS
  <2>1. Told = {} /\ InHand = {} /\ InTable = {} /\ save.rows = {}
    BY DEF Init, Told, InHand, InTable, PollIdle, NoSave
  <2> QED  BY <2>1 DEF Init, StoreInv, HistoryStored, TableTold
<1>3. FullInv /\ [Next]_vars => MetricsInv'
  <2> SUFFICES ASSUME FullInv, [Next]_vars PROVE MetricsInv'
    OBVIOUS
  <2>1. CASE UNCHANGED vars
    BY <2>1 DEF vars, FullInv, MetricsInv, RestTypes, NotToldYet, WrittenCounts, Told, Counted,
                GaugeMatchesRegistry, DownIdle
  <2> QED  BY <2>1, DiscoveryCounts, BatchCounts, EndCounts DEF Next, Backfill
<1>4. FullInv /\ [Next]_vars => StoreInv'
  <2> SUFFICES ASSUME FullInv, [Next]_vars PROVE StoreInv'
    OBVIOUS
  <2>1. CASE UNCHANGED vars
    <3>1. InHand' = InHand /\ phase' = phase
      BY <2>1 DEF vars, InHand
    <3> QED  BY <2>1, <3>1, StoreUntouched DEF vars, FullInv
  <2> QED  BY <2>1, QuietStores, BuildStores, CommitStores, EndStores
           DEF Next, Backfill, SaveStep, PollAnswer, Finish, Stop
<1>5. FullInv => ServiceInv
  <2> SUFFICES ASSUME FullInv PROVE ServiceInv
    OBVIOUS
  <2> USE DEF FullInv, MetricsInv, StoreInv
  <2>1. written \in Nat
    BY ToldStored DEF WrittenCounts, Counted
  <2>2. WrittenMatchesTable
    <3>1. CASE poll.pc = "send"
      <4>1. InTable = Told \cup save.rows /\ Told \cap save.rows = {}
        BY <3>1 DEF TableTold, InHand, NotToldYet
      <4>2. Cardinality(Told \cup save.rows)
              = Cardinality(Told) + Cardinality(save.rows) - Cardinality(Told \cap save.rows)
        BY ToldStored, FS_Union
      <4>3. Cardinality(InTable) = Cardinality(Told) + Cardinality(save.rows)
        <5>1. Cardinality(Told \cap save.rows) = 0
          BY <4>1, ToldStored
        <5> HIDE DEF FullInv, MetricsInv, StoreInv
        <5> QED  BY <4>1, <4>2, <5>1, ToldNumbers
      <4> QED  BY <3>1, <4>3 DEF WrittenMatchesTable, WrittenCounts, Counted, InTable
    <3>2. CASE poll.pc \notin {"send", "record"}
      <4>1. InTable = Told
        BY <3>2 DEF TableTold, InHand
      <4> QED  BY <3>2, <4>1, ToldStored DEF WrittenMatchesTable, WrittenCounts, Counted, InTable
    <3> QED  BY <3>1, <3>2 DEF WrittenMatchesTable
  <2>3. TypeOK
    <3>1. db \in SUBSET Rows /\ before \subseteq db /\ unseen \subseteq db
      BY DEF IInv, DataTypes, HistoryStored
    <3> QED  BY <2>1, <3>1 DEF TypeOK, IInv, DataTypes, PollState, SaveState, Ranked, RestTypes
  <2> QED  BY <2>2, <2>3 DEF ServiceInv
<1>6. FullInv <=> IInv /\ Ranked /\ MetricsInv /\ StoreInv
  BY DEF FullInv
<1> QED  BY <1>1, <1>2, <1>3, <1>4, <1>5, <1>6, InitHolds, StepKeeps, RegistryRanked, PTL DEF Spec
-----------------------------------------------------------------------------
(* The backfill. *)

\* Between the backfill's check and its save neither the registry nor what the check saw
\* can change, and seeded rows are saved by the backfill only.
SeedChecked ==
    /\ phase \in {"check", "seed"} => disc.pc = "idle"
    /\ phase = "seed" => registry # <<>> /\ (save.blind \/ ~TopCoinHasHistory)
    /\ phase # "seed" => \A r \in save.rows : r.src = "poll"

\* Start-up and the registry: the backfill's check comes after the discovery has ended.
LEMMA DiscoverySeeds ==
    ASSUME SeedChecked, IInv, Boot \/ Discovery \/ StartRefresh \/ BackfillSkip
    PROVE  SeedChecked'
<1> USE DEF SeedChecked
<1>1. UNCHANGED <<save, db>> /\ phase' # "seed"
  BY DEF Boot, Discovery, DiscRetry, DiscFail, DiscOk, DiscRecord, StartRefresh, BackfillSkip, Running
<1>2. phase # "seed"
  BY DEF Boot, Discovery, DiscRetry, DiscFail, DiscOk, DiscRecord, StartRefresh, BackfillSkip, Running
<1>3. phase' = "check" => disc'.pc = "idle"
  BY DEF Boot, Discovery, DiscRetry, DiscFail, DiscOk, DiscRecord, StartRefresh, BackfillSkip,
         Running, DiscIdle
<1> QED  BY <1>1, <1>2, <1>3

\* The backfill builds its series, for coins of a registry that has some.
LEMMA BuildSeeds ==
    ASSUME SeedChecked, NEW e \in BOOLEAN, NEW s \in SUBSET CoinsOf(registry), BackfillBuild(e, s)
    PROVE  SeedChecked'
<1> USE DEF SeedChecked
<1>1. /\ phase' \in {"seed", "serving"} /\ UNCHANGED <<disc, registry, db>> /\ phase = "check"
      /\ save'.blind = TopCoinHasHistory /\ (phase' = "serving" <=> save'.rows = {})
  BY DEF BackfillBuild, memory
<1>2. TopCoinHasHistory' = TopCoinHasHistory
  BY <1>1 DEF TopCoinHasHistory, HasHistory
<1>3. phase' = "seed" => registry # <<>>
  <2>1. registry = <<>> => s = {}
    BY DEF CoinsOf
  <2>2. s = {} => save'.rows = {}
    BY DEF BackfillBuild
  <2> QED  BY <1>1, <2>1, <2>2
<1> QED  BY <1>1, <1>2, <1>3

\* A save ends the backfill; a poll builds no seed.
LEMMA SaveSeeds ==
    ASSUME SeedChecked, IInv, SaveStep \/ StartPoll \/ PollAnswer \/ Finish \/ Stop
    PROVE  SeedChecked'
<1> USE DEF SeedChecked
<1>1. CASE SaveRow \/ RecordPollOk
  <2>1. UNCHANGED <<phase, disc, registry, db>> /\ save'.rows = save.rows /\ save'.blind = save.blind
    BY <1>1 DEF SaveRow, RecordPollOk, memory, IInv, DataTypes, SaveState
  <2> QED  BY <2>1 DEF TopCoinHasHistory, HasHistory
<1>2. CASE SaveFail \/ \E ack \in BOOLEAN : SaveCommit(ack)
  <2>1. /\ phase' # "seed" /\ (phase' = phase \/ phase' = "serving") /\ disc' = disc
        /\ save'.rows = {} \/ (phase # "seed" /\ save'.rows = save.rows)
    BY <1>2 DEF SaveFail, SaveCommit, AfterSave, NoSave
  <2> QED  BY <2>1
<1>3. CASE StartPoll \/ PollAnswer \/ Broadcast
  <2>1. phase' = phase /\ disc' = disc /\ phase \in {"serving", "draining"}
    <3>1. poll.pc # "idle" \/ Running
      BY <1>3 DEF StartPoll, PollAnswer, PollRetry, PollFail, PollResponse, Broadcast
    <3> QED  BY <1>3, <3>1 DEF StartPoll, PollAnswer, PollRetry, PollFail, PollResponse, Broadcast,
                               IInv, OneSaver, Running
  <2>2. \A r \in save'.rows : r.src = "poll"
    BY <1>3, <2>1 DEF StartPoll, PollAnswer, PollRetry, PollFail, PollResponse, Broadcast, NoSave
  <2> QED  BY <2>1, <2>2
<1>4. CASE Stop
  <2>1. phase' \in {"draining", "down"} /\ ((save' = save /\ phase # "seed") \/ save' = NoSave)
    BY <1>4 DEF Stop, CtrlC, Exit, Crash, Die, Running
  <2> QED  BY <2>1 DEF NoSave
<1> QED  BY <1>1, <1>2, <1>3, <1>4 DEF SaveStep, Finish

\* A commit, acknowledged or not, is all that stores rows, and a seed it stores was checked.
LEMMA SeedsAreNew ==
    ASSUME SeedChecked, IInv, Next, NEW r \in db' \ db, r.src = "seed", ~save.blind
    PROVE  ~\E q \in db : q.coin = registry[1] /\ q.cur = Usd
<1>1. r \in save.done
  BY DEF Next, vars, memory, Boot, Discovery, DiscRetry, DiscFail, DiscOk, DiscRecord, Backfill,
         BackfillSkip, BackfillBuild, SaveStep, SaveRow, SaveFail, SaveCommit, StartPoll,
         PollAnswer, PollRetry, PollFail, PollResponse, Finish, RecordPollOk, Broadcast,
         StartRefresh, Stop, CtrlC, Exit, Crash, Die
<1>2. phase = "seed"
  BY <1>1 DEF SeedChecked, IInv, SaveSound
<1> QED  BY <1>2 DEF SeedChecked, TopCoinHasHistory, HasHistory

\* The backfill does not seed a history the first-ranked coin already has, unless it could
\* not read it: nothing slips in between its check and its save (backfill_from_sparklines).
THEOREM TopCoinKept == Spec => TopCoinNotReseeded
<1>1. Init => SeedChecked
  BY DEF Init, SeedChecked, NoSave
<1>2. IInv /\ SeedChecked /\ [Next]_vars => SeedChecked'
  <2> SUFFICES ASSUME IInv, SeedChecked, [Next]_vars PROVE SeedChecked'
    OBVIOUS
  <2>1. CASE UNCHANGED vars
    BY <2>1 DEF vars, SeedChecked, TopCoinHasHistory, HasHistory
  <2>2. ReadErrors \subseteq BOOLEAN
    BY ServiceAssumption
  <2> QED  BY <2>1, <2>2, DiscoverySeeds, BuildSeeds, SaveSeeds DEF Next, Backfill
<1>3. IInv /\ SeedChecked /\ [Next]_vars =>
        [(\E r \in db' \ db : r.src = "seed") /\ ~save.blind
            => ~\E r \in db : r.coin = registry[1] /\ r.cur = Usd]_vars
  BY SeedsAreNew
<1> QED  BY <1>1, <1>2, <1>3, InitHolds, StepKeeps, RegistryRanked, PTL DEF Spec, TopCoinNotReseeded
=============================================================================
