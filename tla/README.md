# A TLA+ development for animus-db

animus-db is a replicated, strongly consistent item store with a DynamoDB- and
S3-compatible front.  This directory holds TLA+ models of the parts its safety
rests on, the TLC configurations that check them on small instances, and proofs
checked by TLAPS.  Paths below are relative to the repository (`crates/...`);
`PROJECT.json` maps every definition to the lines it models.

Two layers are covered.  The **durability core**: the Raft core both planes
share, the bookkeeping that decides when a message may be sent relative to an
fsync, the lock that orders the writers of a WAL file, the two drivers (data plane
and control plane) that put these together, and the WAL file many tablets share.
Everything else in the system assumes that this layer does not lose what it has
promised.  And what the data plane builds on it: the **commit timestamps** of a
group, and the **cross-tablet transactions** with their recovery.

## 1. Inventory

### The system

A cluster is a set of `animusd` processes.  One small Raft group, the *control
plane*, holds the metadata (tables, tablets, placement, membership).  Every
tablet is a Raft group of its own, the *data plane*.  Both use the same
`RaftCore`, a deterministic state machine without I/O, and each has its own
driver: an async loop that steps the core, writes its WAL and sends its messages.

| Component | Source (`crates/`) | State | Operations | Talks to | What is hard, and what makes it correct |
|---|---|---|---|---|---|
| Raft core | `animus-control/src/raft.rs` | term, vote, log, role, `commit_index`, `durable_index`, `last_applied`, `next_index`/`match_index`, snapshot base, membership, leases | timers, pre-vote, vote, append, snapshot, transfer, membership, propose, apply | driver (drain, mark durable), peers | a crash between a decision and its fsync; late, repeated and reordered answers; pre-votes crossing elections. One leader per term; logs match; what a client was told survives |
| Persist rounds | `animus-control/src/persist_round.rs` | `drained`, `durable`, `suspect`; the queue of held replies | begin/complete a drain, gate, release, recover a suspect file | both drivers | a round may be drained by one task and awaited by another. No claim ships before its round; no reply is stranded |
| WAL lock | `animus-control/src/fair_lock.rs` | `held`, `reserved_for`, ticket queue; `RewriteTail` | poll, guard drop, future drop; tail begin/push/take/end | every writer of a WAL | wake-ups, cancellation of a queued or reserved future. Exclusion, FIFO order, nobody stranded |
| WAL records, replay | `animus-control/src/persist.rs`, `format.rs` | line-framed records with checksums | encode, decode, replay, `check_log_contiguous`, repair | drivers, recovery | torn tail; positional replay. A restart reads back a contiguous log |
| Data-plane driver | `animus-cp-data/src/lib.rs` | the loop, its persist future, the apply task, the background rewrite | `drive`, `persist_wal`, `recover_kv_wal`, `apply_and_compact`, `rewrite_wal_staged` | core, lock, disk | three writers of one file and of one `.tmp` sibling; ENOSPC at every write; a crash anywhere |
| Control-plane driver | `animus-control/src/node.rs` | as above, plus `install_rewrite_owed`, the engine's watermark | `drive`, `persist_wal`, `flush`, `recover_control_wal`, `meta_apply_and_compact` | core, lock, disk, engine | an installed snapshot that is not logged; a WAL ahead of its engine |
| Shared WAL | `animus-control/src/shared_wal.rs` | one file for many groups, the operation queue and its leader, cached tail per group, `needs_rewrite` | group commit, whole-file rewrite, forget, open | data-plane driver | a batch of several groups failing; a rewrite built from tails whose append is still in flight. An acknowledged round survives; what a restart finds of a group has no gap; every caller is answered |
| Apply, MVCC | `animus-cp-data/src/lib.rs`, `hlc.rs`, `ts_cache.rs`, `ceiling.rs`, `hwm.rs` | versions, clock, read-timestamp cache, read ceiling, high-water mark | mint, evaluate at apply, reads at a timestamp | core, engine | a read served by a leader that lost its lease; a new leader without the old one's clock and cache. No write commits below a read that was served before it; timestamps increase along the log |
| Transactions | `animus-cp-data/src/txn.rs`, `animusd/src/txn_coordinator.rs` | intents, the anchor record, resolved markers | stage, push, commit, abort, resolve, settle, recover, sweep | several tablets | a coordinator dying between any two steps; two deciders; an answer lost and its entry applied late. The writes appear together or not at all; a definite answer is true; nothing stays in doubt |
| Tablet host, splits | `animus-cp-data/src/host.rs`, `split.rs`, `seal.rs` | hosted groups, seals, forks | reconcile, fork-first split, seal, tear down | control plane, engine | a split crossing a crash, a move, a late write |
| Metadata | `animus-control/src/meta.rs`, `schema.rs` | tables, tablets, epochs | deterministic commands with epoch compare-and-set | control-plane core | stale commands; order of two administrators |
| Mirror, delta ring | `animus-control/src/mirror.rs`, `delta_ring.rs`, `syskv.rs` | engine copy of the metadata; ring of deltas | merge, install, catch a watcher up | apply task, every node | a ring overtaken by its reader |
| Detector, repair pacing | `animus-control/src/detector.rs`, `repair_pacing.rs` | per-peer history | verdicts | placement | verdicts are hints: safety may not depend on them |
| Versions, rolling upgrade | `animus-control/src/version.rs`, `animus-roll` | gates, roll state | raise a gate, drain, restart | control plane | a gate raised while an old node is in |
| Quorum-loss recovery | `animus-control/src/recover.rs` | files of a stopped node | rewrite membership | operator | offline |
| Storage engine | `animus-storage/src/lsm.rs` | memtables, tables, manifest, WAL | write, flush, compact, open | disk | manifest and WAL after a crash |
| Environment, simulator | `animus-env`, `animus-sim` | disk, network, clock, tasks | append, sync, replace, send | everything | ENOSPC is the only survivable I/O error |
| Backpressure, density | `campaign_governor.rs`, `awake_admission.rs`, `background_budget.rs`, ... | budgets | admit or delay | drivers | may only delay |
| Streams, indexes, TTL, backups | `animusd/src/index_drain.rs`, ... | cursors, leases | drain, reap, copy | tablets | at-least-once with idempotent apply |
| Global tables | `animusd/src/mrec_*.rs` | saga state, shipped positions | ship, receive, saga steps | other regions | duplicates, reordering, half-done sagas |
| Request paths, codecs, tools | `animusd`, `animus-item`, `animus-dynamo`, `animus-s3`, `animus-operator`, `animus-cli`, `animus-web` | none of consensus | translate, route, retry | planes | retries of unacknowledged writes |

`PROJECT.json` lists the hazards of the code at their lines with the properties
that watch them.

### How a durable step travels

1. The driver's loop steps the core under the core lock (`step`, `tick`,
   `propose`).  The core appends to its log and to its pending WAL records and
   returns messages.
2. In the same hold the loop asks the *gate* (`persist_round.rs:247`) which
   round must be durable before replies may go out.  `AppendEntries` and other
   messages that claim nothing go at once (`ships_before_durable`); the rest wait
   in `GatedOuts`.
3. A *round* drains the pending records under `wal_lock` and gives them a number;
   append and fsync happen outside the core lock; then `mark_durable_through` and
   `complete_drain` move the two watermarks.
4. The loop releases the longest prefix of `GatedOuts` whose rounds are durable.

The apply task drains too (a compaction supersedes the drained records with an
image), the control plane's `flush` also does, and ENOSPC makes the file *suspect*:
nothing may be appended to it until a whole-image rewrite has replaced it.

## 2. Modules

| Module | Models | Built on |
|---|---|---|
| `WalFile` | a WAL file as the run of mutations it replays; append, torn append, image, repair | |
| `PersistRound` | `PersistProgress`, the gate, `GatedOuts`, the test of `PersistArm` | |
| `DataWal` | the data-plane driver, per-group-file layout | `PersistRound`, `WalFile` |
| `WalFacts` | lemmas about the two modules above, for both drivers | `PersistRound`, `WalFile` |
| `DataWalProofs` | theorems about `DataWal` | `DataWal`, `WalFacts` |
| `ControlWal` | the control-plane driver | `PersistRound`, `WalFile` |
| `ControlWalProofs` | theorems about `ControlWal` | `ControlWal`, `WalFacts` |
| `FifoMutex` | what the lock promises: an owner and a line | |
| `FairLock` | `FairMutex`, one action per hold of the inner mutex | refines `FifoMutex` |
| `FairLockProofs` | theorems about `FairLock`, the refinement among them | `FairLock` |
| `Raft` | `RaftCore` of one group and the durability of its messages | |
| `RaftProofs` | theorems about `Raft` | `Raft` |
| `SharedWal` | the WAL file the tablets of a node share | |
| `SharedWalProofs` | theorems about `SharedWal` | `SharedWal` |
| `ReadTs` | commit timestamps, read-timestamp cache and read ceiling of one group | |
| `ReadTsProofs` | theorems about `ReadTs` | `ReadTs` |
| `TxnApply` | what the five transaction entries do at apply, as operators | |
| `AtomicStore` | what transactions promise: writes that take effect together | |
| `Txn` | coordinator, recovery and sweep over several tablets | `TxnApply`, refines `AtomicStore` |
| `TxnProofs` | theorems about `Txn`, the refinement among them | `Txn` |
| `MCFairLock`, `MCRaft`, `MCTxn` | instances for TLC | |
| `MCSafety` | `ControlWal`, `SharedWal` and `ReadTs` in one run of invariants | those three |
| `MCLive` | `FairLock`, `SharedWal`, `Txn` and `ControlWal` in one run of liveness | `MCFairLock` |

Definitions whose comment starts with "Bug:" are deliberate faults.  No
specification uses them; they show that a property notices the fault they name.

### State and code

**`WalFile`.**  The core's durable mutations (log records, truncations, hard-state
changes, installs) are numbered as they are made.  WAL bytes are a run `from .. to`
of them, with a flag that goes false when two runs are joined that do not meet:
replay is positional, so that is a log `check_log_contiguous` refuses or, worse,
a record repeated.  `torn` is a partial last line: what is written behind it can
never be read.

**`DataWal`.**  `ver`, `drainedTo`, `durableIndex`, `base` are the core; `prog` is
`PersistProgress`; `holder`/`queue` is `wal_lock`, in the form `FairLock` is shown
to implement; `tail` is `RewriteTail`; `wal`, `tmp`, `staged` are the files; `pc`,
`own`, `comp`, `rw` are the control points of the loop, of its persist future, of
the apply task's compaction and of the background rewrite, one value per await
point.  The persist future only moves while the loop is in its select, and only
after `PersistArm` has looked for a landed round.  `Preemptive` chooses whether
other tasks may run between two statements with no await between them: FALSE is
one executor (the simulator, a current-thread runtime), TRUE a runtime with
several threads, as in production.  `vouched` is a history variable: what every
shipped reply claimed to be durable.

**`ControlWal`.**  The same with a compaction that replaces the file under the
lock, a second caller of `persist_wal` (`flush`), and installs: `StepInstall`
moves the base in memory, sets `owed` and `pendInstall`, and the file learns of it
only with the next rewrite by the apply task, after `EngineInstall`.  A restart
with an engine behind the replayed base sets `halted`.

**`FairLock`.**  `held`, `reservedFor`, `nextTicket`, `queue` are the fields of
`Inner`; `st` and `ticket` the futures; `awake` the wakers that have fired.

**`Raft`.**  `core[n]` is `RaftCore`, `disk[n]` what a restart replays, `flight[n]`
the round in flight with the replies that wait for it, `held[n]` the replies for
the next one, `msgs` the network.  A log is the sequence of the terms of its
entries.  `applied` and `acked` are history: what any node handed to its engine,
and what a leader made visible to clients.  Timeouts may fire at any time.

**`SharedWal`.** `tails` is `group_tails`, `opQueue`/`batch` the operations that wait
and those the leader flushes, `step` where the flush is between its two or three disk
calls, `needs` is `needs_rewrite`, `halting` the tablets being torn down.  A tablet's
rounds are numbered: a record is the round that wrote it and an image stands for all
rounds up to its own, so that a missing or doubled record shows as a gap in the
numbers. `onDisk[t]` is what is durable of a tablet, `buf[t]` what was appended of it
and not synced, `torn` half a line behind that, after which nothing can be read.
Recovery sorts the lines by tablet, so only the order within a tablet matters; how the
lines of several tablets interleave is left open, and a crash may keep any prefix of
each, which includes every prefix of the file. `AppendTagged`, `CompactGroup` and
`Forget` change the tail and enter the queue in one critical section, as
`submit_with_mutation` does; a failed flush puts the tails back before it answers
(`DoneErr`).

A tablet's driver is two tasks: the consensus loop appends and recovers a suspect log,
the apply task compacts.  Every disk call may fail, for lack of space or for another
reason.  An error of a live tablet that is not ENOSPC is a panic, and a panic stops the
task that met it and nothing else (`spawn_counted` in `animus-env/src/prod.rs`,
`docs/runbook/node-down.md`): `stopped[t]` are the tasks of a tablet that will never run
again, while its other task, the other tablets, the queue and the file go on.  A tablet
with a stopped task is never forgotten, because `is_stopped` stays false; only a
restart of the node (`NodeCrash`) reopens the file.  How much of a failed append is in
the file is open (`Partly`), and a failed `replace` may have renamed already
(`RenameOver`).  `Errors` says which of three faults the disk may have besides:
`"short"`, half a line left by an append that failed for another reason than a full
disk; `"undone"`, a power loss that undoes a rename whose directory was not synced
(`prior` is what it brings back); and `"compact"`, a compaction of a live tablet that
fails for another reason than a full disk.  After a full disk half a line is always
possible.  The three are parameters because each breaks a property (section 4).

**`ReadTs`.**  A timestamp is a natural number in the order of the packed pair
(wall, logical).  `hlc`, `lastTs`, `lastCeil`, `absorbed`, `ceiling`, `cache` and
`mark` are the fields of the group and of its engine; `rd` is the read a node is in
the middle of, one value per await point, so that leadership, the clock and the
ceiling may change under it.  Raft appears by its effect (`Elect`, `Replicate`,
`Follow`, `committed` as a history); `Raft` is the module that looks inside.
`committedIn` remembers the term of the leader that committed each entry: a node may
apply what it heard to be committed from a leader of a term it has reached, about
entries that its log shares with that leader's (`Known`).
`served` is a history variable: the highest timestamp each key was read at, and
each entry remembers what had been served when it was proposed.

**`Txn`.**  `row`, `mark` and `rec` are the tablets: the newest record of a key, its
resolved marker, and the anchor record of a transaction.  One action applies one
entry.  `co` is a running `cp_txn`, `wk` a running `txn_recover` or a visit of the
decided-record sweep, one value per await point.  A call whose answer is lost leaves
its proposal in `late`, where it may be applied at any later time or never.  `done`
and `gone` are histories: the ids that committed, and the intents that were
resolved.  `TxnApply` is the pure part: what a stage finds, which intents it writes,
what a decision and a resolution leave.

**`MCSafety`, `MCLive`.**  Their components share no state.  `part` selects, at the
start, the one that moves, so the state graph is the disjoint union of the
components' graphs; what holds in the run holds in each.  In `MCLive` the fairness of
`ControlWal` is asked only of its own behaviours, because its loop cycles from the
start; nothing the other parts are fair to is enabled before their first step.

## 3. Runs

All runs finish in well under five minutes with two workers.

| Run | Bounds | Shows |
|---|---|---|
| `DataWal` | 2 mutations, 2 held batches, 2 ENOSPC, 1 crash, fairness | no interleaving of the three writers, of a full disk and of a crash ships a claim a restart does not read back, moves `durable_index` past the file, or makes the file unreplayable; rounds land in order; held replies are released and a suspect file is recovered; the recovery does not share `.tmp` with a staged rewrite (but for one window, section 6) |
| `DataWal_threads` | several threads, 1 ENOSPC | **violation**: between releasing the lock after a failed early append (`lib.rs:12735`) and marking the file suspect (`12892`) the loop can append behind the torn line and ship acks |
| `ControlWal_engine` | 2 mutations, 1 install | **violation**: an install that completes while a compaction waits for the lock reaches the WAL before the engine |
| `ControlWal_stuck` | 1 ENOSPC, 1 install, fairness | **violation**: a suspect WAL with an owed rewrite: the loop waits for the apply task (`node.rs:1855`) and the apply task for the loop (`2578`) |
| `Raft` | 3 voters; with 2 pre-vote rounds and 1 crash either a fresh group and 2 terms, or a group that lost power with logs that diverge (1 1, 1 2 and 1 2, by the terms of their entries), 3 terms and logs to 4 entries; with 1 pre-vote round and messages of a term that overtake each other, a fresh group, 1 term, 2 entries and 1 crash, or the group that lost power, 3 terms and 3 entries | one leader per term although votes and self-votes can be lost; logs match and acknowledged entries survive catch-up, step-back, truncation and torn rounds |
| `Raft_ack_lost` | a group caught in the middle of a round, 4 terms, 1 crash | **violation**: an acknowledged write is lost (below) |
| `SharedWal_torn` | 2 tablets, 1 round each, 1 failure, `Errors = {"short"}` | **violation**: the append of one tablet fails half-way; another tablet appends behind the half line and is told that its round is durable |
| `Safety` | *control*: 2 mutations, 2 held batches, 1 crash, 1 install, and 2 ENOSPC or 1 and a flush; *shared*: 2 tablets, 2 rounds each, 2 failures for lack of space or another reason, 1 crash, none of the three faults of `Errors`; *ts*: 3 voters of which 2 may lead, 1 key, 2 reads or writes, 2 terms, 4 entries, 1 compaction, 1 crash | the safety properties of the data plane's driver for the control plane's, with installs and `flush`; an acknowledged round of a shared file survives, and a restart finds no gap, although a failure that is not a full disk stops one task while the others go on; no write commits below a read served before it was proposed, and timestamps increase along the committed log |
| `Txn` | either 2 clients that contend for the anchor key with 1 fault, or 1 client with 2 faults and an ordinary write; 2 attempts, 1 worker | `Txn` implements `AtomicStore`: one step makes all writes visible, at most one attempt of a client commits, conditions hold at that step, and neither answer lies; a resolved intent stays resolved |
| `Txn_precondition` | 1 client, 1 ordinary write, no fault | **violation**: a client is told that its transaction failed, and recovery commits it |
| `Txn_stale_stage` | 2 clients that write one participant key, 1 fault | **violation**: a delayed stage brings a resolved intent back |
| `Live` | *lock*: 3 tasks, 6 tickets; *shared*: 2 tablets, 1 round each, 1 failure, all of `Errors`; *txn*: 1 client, 1 worker, 1 fault, 1 ordinary write; *control*: 2 mutations, 1 held batch, 1 ENOSPC, 1 install; fairness | the lock excludes, is never stranded, refines the FIFO mutex and serves every waiter; every caller of the shared file is answered and a full disk recovered from; a transaction in doubt is decided and a committed one resolved without its coordinator; the control plane releases what it holds, unless the node is stuck or halted as two of the runs above describe |

Why the bounds are enough to be interesting.  In the WAL drivers one mutation can
be in a staged image and one in a round in flight at once; one ENOSPC is enough to
put the file in its suspect state at each of its writes, a second one to fail the
recovery; one crash tears whatever is in flight; two batches are the least that
`GatedOuts` can order.  The value of `CATCH_UP_PASSES` is the source's.

The control plane of run `Safety` has two full disks without a flush, or one with it
(`ControlBudget`): the second full disk fails the recovery of the first.  Both together
stay correct with two mutations (TLC, apart from the run) and do not with three (section
6).

In `Raft` two terms, two concurrent pre-vote rounds and a crash are what it takes to
lose a vote and ask again; the `PowerLoss` start gives logs that must be walked
back, cut and overwritten, which from a fresh group would need two more terms.

In `SharedWal` two tablets with two rounds let one batch hold a record of each, a
rewrite be built while the other tablet's append is in flight, and an append follow
a failure; one failure reaches every disk call, a second one meets what the first left
behind, and the strip after a failed sync may fail besides.  A failure that is not a full
disk stops a task of one tablet while the other appends and rewrites.

In `ReadTs` two operations are a read and a write after it, two terms a leader that
has neither served the read nor minted its timestamp, and the first leader's wall
clock is ahead of the second's by as much as the ceiling offset.  `RotationBound` 0
makes every read rotate the cache, so that low-water marks matter at once.

In `Txn` a fault is a lost answer, a refusal, a crash or a give-up.  One fault with
two clients makes either of them stop anywhere; two faults with one make both a
stage arrive late and the coordinator stop.  `TXN_STAGE_PUSH_ATTEMPTS` is 2 here and
more in the source: a second attempt already has a fresh id beside an old record.

Symmetry (the voters of `Raft`, the two clients of `Txn`, the tablets of `SharedWal`) is used only in runs
without liveness, and so are the views of `Raft` and `Safety`.  A view leaves out what
can no longer matter: the peer indexes of a node that does not lead, a message older
than its receiver's disk, a clock from which nothing will be minted.  No guard and no
property of the run depends on what it drops.  `CHECK_DEADLOCK FALSE` is needed because every bound is a guard.

In `Raft` messages stay for ever, to be delivered never, once or often and in any
order.  In the starts without `overtake` one reordering is left out to keep the state
space small: from one node to another and in one term only the newest `AppendEntries`
and the newest answer to one are kept (`Displaces`).  A message can then be lost,
repeated, and overtaken by one of another type or term, but not by one of its own.
The starts with `overtake`, which the acknowledgements "out of send order" of
`raft.rs:5199` call for, have one pre-vote round and fewer entries and crashes instead.  The proofs
cover both.  The `AckedSurvives` of
run `Raft` holds within its terms of one life of the group; the counterexample of
`Raft_ack_lost` needs more: a round in flight must be overtaken by a
truncation, and the node that was truncated must lead afterwards.

### Findings

Seven of the runs show where the code and what it says of itself part:

* `DataWal_threads` – `apply_and_compact` marks the WAL suspect after it has
  released `wal_lock`; only with several threads, and only in the per-group-file
  layout.  `PersistFull` of the loop itself does it in the right order.
* `ControlWal_engine` – the check that the image is in the engine is made before
  the wait for the lock and not repeated after it.
* `ControlWal_stuck` – recovery and owed rewrite wait for each other; a restart
  resolves it.
* `Raft_ack_lost` – `mark_durable_through` raises `durable_index` to the index
  captured when its round was drained, also when the log was truncated since.
* `SharedWal_torn` – a failed append to the shared file makes a rewrite due only when
  the disk is full (`shared_wal.rs:505`).  After any other error the file may end in half
  a line, the tablets of the batch panic, and the next batch is written behind it.
  `persist.rs:621` argues that stopping at the first bad line is safe because a torn
  region "can only ever be the file's physical TAIL".
* `Txn_precondition` – the second look at the preconditions
  (`txn_coordinator.rs:1945`) is meant to abort the transaction when one changed,
  but leaves `cp_txn` with a definite error first.  Every intent is staged and
  the record pending, so recovery commits what the client was told had failed.
* `Txn_stale_stage` – the marker that keeps a stale stage out
  (`animus-cp-data/src/lib.rs:12159`) names only the last transaction resolved at a
  key.  A second transaction takes the first one's marker away.  In run `Txn` the two
  clients share no participant key, so there `NoResurrection` holds.

### Fairness

The loop is one task that always reaches its next select (`WF` on its steps); a
select polls the persist arm first in every pass, so a future that can move on
infinitely many passes does (`SF`).  The apply and rewrite tasks are polled when
they can move (`WF`); the apply task re-reads `install_rewrite_owed` on each pass
(`SF` on `CompactWait` in `ControlWal`).  Nothing forces a compaction on the data
plane to start, a message to arrive or a proposal to be made.  Failures are
bounded by `MaxFull`, which is the assumption that space returns.  In `FairLock`
only a task whose waker fired must be polled, and a holder drops its guard: a
lost wake-up would therefore show.

In `SharedWal` the leader of the queue drives it until it is empty (`WF` on
`Drive`; failures are no part of it), and a tablet whose log is suspect rewrites it,
which is what its driver's recovery does (`WF`).  In `Txn` the resolver's two passes
visit, tick after tick, each pending and each decided record (`SF`, since a worker is
busy with one record at a time), and a visit that started goes on (`WF`); the
coordinator is promised nothing and may stop anywhere.  `Raft` and `ReadTs` state no
fairness and no liveness.

## 4. Proofs

`FairLockProofs` proves, for any set of tasks and any number of tickets,

* `FairLockTypeOK`, `FairLockExcludes` (`MutualExclusion`) and
  `FairLockNeverStrands` (`NeverStranded`),
* from `FairLockInvariant`: `Spec => []IInv`.

Neither property is inductive alone.  Exclusion needs to know that `held` is true
exactly while a guard exists (`HeldByOne`), and that a reservation exists only on a
free lock, or a claim would make a second guard (`Reservation`).  That a reserved
ticket belongs to a live, woken waiter needs that tickets are fresh and never
shared (`TicketsOwned`), and that the queue holds each of them once and never the
reserved one (`QueueLive`), which is what makes `retain` in a future's drop remove
exactly one place.  `IInv` is the conjunction.  The proof has one lemma per
action; `WithoutFacts` and `HandoverFacts` state what the two queue operations
leave behind.  The only assumption is `FairLockAssumption` (`Nobody` is not a task,
the ticket bound is a natural number).

`FairLockIsFifo` (`IsFifoMutex`) is the refinement: with the owner read off `held` and
the line read off the reservation and the queue (`TheOwner`, `TheLine`), every poll,
hand-over and cancellation is one step of `FifoMutex` or changes nothing there.
`Mapped` states what the invariant makes of the mapping (the n-th in line is the task
that drew the n-th waiting ticket), and one lemma per action shows its abstract step.

`DataWalProofs` proves the safety of the data-plane driver for any number of
mutations, held batches, full disks, crashes and catch-up passes, from
`DataWalAssumption` and `~Preemptive` (its tasks share one executor: with several
threads `DataWal_threads` refutes the first of these):

* `AcksSurviveRestart` (`VouchedSurvivesRestart`), `DurableIndexSafe`
  (`DurableIndexOnDisk`), `LiveFileReplays` (`WalReplayable`), `HeldInRoundOrder`
  (`GatedInRoundOrder`), `RoundsOnlyLand` (`RoundsMoveForward`) and `DataWalTypes`,
* all from `DataWalInvariant`: `Spec => []IInv`.

None of them is inductive.  That a reply is on disk says nothing about the file
that a background rewrite will put in its place, so the claims are made against
`SafeTo`, the smaller of where the file ends and where it would end if the pending
rewrite were swapped in now (`SwapTo`); a swap may shorten the live file, and is
safe because nobody claims more than `SafeTo`.  The parts of `IInv` say

* `LockHeld`, `OneRewrite`: who holds the lock in which state, that there is one
  rewrite at a time and none beside the suspect-file recovery;
* `FileInv`, `OwnInv`, `CompInv`: the live file is contiguous, and unless it is
  suspect it ends at the last drain but for the one batch in flight, which meets it;
* `TailFollows`: image, extension and tail meet, and end where the file ends unless
  it is suspect;
* `Claims`, `HeldInv`: what was shipped, `durable_index` and all landed rounds are
  within `SafeTo`, and a held batch waits for a round that covers all it needs.

There is one lemma per action.  `QuietStep`, `ClaimsKept`/`HeldKept` and
`ClaimsDrain`/`HeldDrain` carry the claims over steps that ship and drain nothing,
that land a round, and that drain; `ReleaseFacts` is about the prefix `release`
takes, `CrashFacts` about what a crash leaves of an append.  `IInv` can also be
model-checked, as an invariant of `DataWalProofs` under the constants of
`DataWal.cfg`.

`TmpFileNotShared` (`TmpNotShared`) needs one more fact, `TmpInv`: while a rewrite
is staging, swapping or has yet to end its tail, the tail says so.

`ControlWalProofs` does the same for the control plane, from `ControlWalAssumption`
and two hypotheses, for any number of mutations, installs, held batches, full disks
and crashes:

* `VouchedRecordsSurvive` (`RecordsVouchedSurvive`), `ControlDurableIndexSafe`
  (`DurableIndexOnDisk`), `ControlFileReplays` (`WalReplayable`),
  `ControlHeldInRoundOrder` (`GatedInRoundOrder`) and `ControlWalTypes`,
* all from `ControlWalInvariant`: `Spec => []IInv`.

The hypotheses are `~Preemptive` and `MaxFlush = 0`: one executor, and no `flush`
beside the loop.  `MaxFlush = 0` cannot be dropped: with a flush TLC refutes
`WalReplayable` on one executor as well (section 6, third observation).  `~Preemptive` is
what the proof uses; whether it is needed is open.  The refutation with several threads
(second observation) has a flush, and without one TLC finds none (two mutations, two full
disks).  A compaction here
replaces the file under the lock, so there is no staged file to reckon with; what is
hard is the write in flight and the install that the file does not know of.  `End` is
where the file ends once the write in flight has landed, and `EndInv` says that this
is where the undrained records begin, unless a rewrite is owed.  `CoreInv` says that
the undrained records are broken only while a rewrite is owed, `Suspects` which steps
can meet a suspect file, `IOInv` that a batch meets the file and an image covers it,
`Claims` and `HeldInv` that nothing vouched for, and no landed round, is beyond the
file, and that a held batch waits for a round that covers it.

`RaftProofs` proves, for any finite set of voters, any number of terms, entries,
pre-vote rounds and crashes, and any loss, repeat and reordering of messages (a start
with `overtake` keeps every message; one without keeps fewer, and is covered too),

* `OneLeaderPerTerm` (`ElectionSafety`), `LogsAlwaysMatch` (`LogMatching`) and
  `RaftTyped` (`TypeOK`),
* all from `RaftInvariant`: `Spec => []IInv`,

from `RaftAssumption` and `SettledStart`: in the starting states nobody leads, memory
is what is on disk, the logs match, and no node is in a term older than some entry.
A fresh group is such a state, and `MCRaft` has TLC evaluate `Settled` on the starts
of run `Raft`.  `Raft_ack_lost` starts in the middle of a round and is not covered.

Voting twice is prevented by three things together, so the invariant ties them:
a vote that was sent is *covered* by the disk, by the round in flight and by memory (a
later term, or this term with this vote), one that waits for a round is covered by
that round (`VotesCovered`), and what a node has sent or is ready to send names one
candidate per term (`VotesAgree`).  A request to vote counts as the candidate's vote for
itself: it is gated, and a candidate that crashes before its fsync has lost a vote
nobody has seen.  With `Elected` (behind a leader there is a majority of votes in the
network) two leaders of a term would share a voter.  For the logs, every
log in memory, on disk or in a round in flight and every `AppendEntries` is a *window*
(`prev`, its term, the entries behind it), and any two windows agree up to an entry
they share (`WindowsAgree`).  A leader that appends must not repeat an entry of its
term made elsewhere: every entry of its term is in its log (`LeaderHas`).  That needs
to know that entries carry terms of leaders there have been, or terms
in which nobody can be elected any more (`TermsKnown`, `Sealed`), which is how the old
entries of a settled start are dealt with.  An `AppendEntries` is sent before the
leader's own fsync (`ships_before_durable`); none of the proof relies on the contrary.

`SharedWalProofs` proves, for any set of tablets and any number of rounds, failures
and crashes (`SharedWalAssumption`: `Errors` is a set of faults, the bounds are natural
numbers),

* `SharedTyped` (`SharedTypeOK`), on any disk;
* `AckedRoundsSurvive` (`AckedSurvives`), where neither `"short"` nor `"undone"` is in
  `Errors`;
* `RecoveryFindsNoGap` (`NoGap`), from `SharedInvariant`: `SharedSpec => []IInv`, where
  `"compact"` is not in `Errors`.

In all three any append, sync, strip and recovery may fail for any reason, and a failure
that is not a full disk stops the task that met it while the others go on.  So the loss
of acknowledged rounds needs half a line or an undone rename, and a gap needs the panic
of an apply task.  No fault can be taken out of its hypothesis: on two tablets TLC refutes
`AckedSurvives` with `"short"` alone (run `SharedWal_torn`) and with `"undone"` alone,
and `NoGap` with `"compact"` alone.

What is acknowledged is safe only if whatever may replace the file has it too, and
images are built when they enter the queue, from tails whose records may still fail.
So both invariants number the operations under way (the batch, then the queue).
`OneOp` says that a tablet has one operation under way exactly while its driver waits,
`OpsOk` which round it carries, and `Shape` that a batch is a run of appends or one
rewrite.

`AInv`, for `AckedSurvives`, only compares last rounds: the file (`AckedFiles`), the
tails and what they are put back to on failure (`AckedTails`, `AckedPrevs`), and each
image under way (`AckedImages`) reach what was acknowledged, and half a line is always
remembered in `needs_rewrite` (`BatchOk`).  It needs no contiguity, and therefore survives
the panic of an apply task.

`IInv`, for `NoGap`, says exactly what each of them holds: of the i-th operation, if it is
a rewrite, what its image has of each tablet, the last round if the tablet's own
operation is not behind it, and the round before if it is an append behind it
(`ImagesOk`); what the file and the tails have of a tablet that may append, that waits,
and that is suspect, stopped or torn down (`FileOk`, `TailsOk`, `PrevsOk`), where a file
that ends in half a line may lack the end; and that what an undone rename brings back is
unbroken (`PriorOk`).  `OkFinishes` and `ErrFinishes` say what the end of a batch leaves to
the callers, and carry both invariants over it.

`ReadTsProofs` proves, for any finite sets of voters and keys, any wall clocks, ceiling
offset and rotation bound, and any number of elections, operations, compactions and
crashes (`ReadTsAssumption`),

* `TimestampsIncrease` (`TsIncreasing`) and `ReadsAreRespected` (`NoWriteBelowRead`),
* from `TsInvariant`: `TsSpec => []TsInv`.

`TsInv` has three layers.  `Replicated` is what the log guarantees: one leader per
term, logs that agree where they share a term, committed entries held by a majority and
present in every later leader's log (`Complete`), and nodes that have applied or
compacted only what is committed (`SureOnly`).  `Timed` says that a node's clock, the
engine's mark or the image it is about to install is above every entry of its log, which
is what a restart, an install and a new leader take their clocks from; so what a leader
appends is above what it has, and logs rise.  `ReadsReached` says that a read that is
served, or about to be, is not above everything that is committed: that is the read
ceiling.  A leader with a complete log then mints above every read that was served; a
deposed one may still append a write below such a read, and `LowIsLost` says that no such
entry commits.  The argument does not use the read-timestamp cache: within one term the
log order has the same effect, and across terms the ceiling does.  What the cache adds, a
push of writes of the keys that were read only, is a matter of precision.

`TxnProofs` proves, for any clients, keys, tablets, recovery workers, attempts, faults and
ordinary writes (`TxnAssumption`),

* `TypeCorrect` (`TypeOK`);
* `ResolvedStaysResolved` (`NoResurrection`), where `SharedAtAnchor`: two clients that
  write one key both anchor its tablet;
* `FailureIsFinal` (`DefiniteFailureNeverCommits`) and `ImplementsAtomicStore`
  (`IsAtomicStore`), where besides `NoPreconditions`: no client has a condition on a key it
  does not write, and `CrossTablet`: every client has a participant beside its anchor.

Each hypothesis is there because the code breaks the property without it, and TLC shows how:
without `SharedAtAnchor` run `Txn_stale_stage`, without `NoPreconditions` run
`Txn_precondition`, without `CrossTablet` the last observation of section 6.  Within them
keys, conditions on own keys and contention for the anchor are arbitrary.  The instance of
run `Txn` satisfies all three.

The invariant `TxnInv` has four parts.  `IdInv` is about ids: one that was not minted is
unknown (`FreshUnused`), an anchor stage that is still under way finds its id unused
(`LateUnused`), so an id is staged on its anchor once; of the ids of a client at most one
ever comes to a participant, and it is the one whose anchor answered (`OneParted`,
`PartedByCall`); a resolved intent is gone, and at a participant its marker is still there
(`GoneStays`, which needs `SharedAtAnchor`).  `RecordInv` is about records: a pending one
has all its anchor's intents and is not done, a committed one is done and knows all its
keys until it is a stub, of a stub or a reaped record no intent is left.  `CallsInv`,
`VisitsInv` and `LateCommits` say what coordinators, workers and decisions under way rely
on: whoever is about to commit a pending record still finds every intent it saw
(`StagedAll`).  `AnswersInv` says that what clients were told is so.

The proof is in two layers, because every step of an actor applies at most one entry to
the tablets.  For each entry one lemma states its effect on the invariant (`StageEffect`,
`DecisionEffect`, `ResolveEffect`, ...) and one what a reader sees of it (`StageData`:
nothing; `DecisionData`: nothing, or all writes of the transaction; ...).  `Step` then
says what the actors around the entry may do: mint and move on (`CallStep`), turn to a
known id (`WorkStep`), leave a proposal behind (`MailStep`); `ProtocolKept` shows that
such a step keeps the invariant, and one lemma per action (`BeginSound` to `SettleSound`)
that the action is one (`Sound`).  The refinement reads the abstract step off the same
`Sound`: no visible change, an answer, a commit or an ordinary write.

Each invariant can also be model-checked, as an invariant of its proof module.

Left to TLC:

* `AckedSurvives` of `Raft`.  It is false in general (`Raft_ack_lost`) and holds only
  within the bounds of run `Raft`.
* Everything with `flush` or with several threads in the WAL drivers, and transactions
  outside the three hypotheses above.
* All liveness: fairness and `ENABLED` are outside the prover.

## 5. What is not modelled

* *In the drivers*: teardown in the per-group-file layout (`SharedWal` has it for the
  shared one); disk errors other than ENOSPC in that layout and on the control plane (but
  for the rename of `RecoverPanic`), where a panic of the apply task or of the background
  rewrite (`animus-cp-data/src/lib.rs:12856` and `12894`, `node.rs:2643`) leaves the loop
  running, as `SharedWal` has it for the shared layout; sync markers and the byte format (a record is a number), membership,
  watch and detector duties.
  Read-only messages and others on the allowlist claim nothing and are left out.
* *In Raft*: snapshots, membership changes and learners, leadership transfer,
  quiescence, the cluster check, leases as such (an ignored message is a lost one),
  the in-flight window that only delays a send.  Snapshot chunks: where an install
  appears (`ControlWal`, `ReadTs`) it is the arrival of the last chunk.
* *In `ReadTs`*: range scans (the cache is per key here), seals, item evaluation, and
  `mint_pushed` on a node that is not the leader, whose proposal fails.
* *In `Txn`*: the list `unresolved_decided` (with the gate closed the sweep of the model
  may visit any decided record, the code only those it has not resolved; the runs of
  liveness have the gate open), the fencing of replayed entries by `engine_ahead`, the recovery grace
  (it only delays a recovery), conditions that need the item's attributes (a condition
  is that a key is absent), and a fork of a participant tablet, which appears as a
  refused proposal.  The timestamps of a transaction are not compared with reads.
* *Components*: see `PROJECT.json`; the reasons there are either "next" (section 7),
  "tooling or codecs", or "may only delay".

## 6. Observations

Met while modelling, and not kept as runs of their own:

* `rewrite_wal_staged` ends its tail (`animus-cp-data/src/lib.rs:13016`) before it
  discards the staging file (`13018`).  A recovery in between sees no rewrite in
  flight, writes its image to the same `.tmp`, and loses it to the discard: the
  rename fails with an error that is not ENOSPC and the node panics
  (`RecoverPanic`).  `TmpNotShared` allows exactly this window, and no other.
* With several threads, `persist_wal` of the control plane reads
  `install_rewrite_owed` in one core-lock hold (`node.rs:3791`) and drains in the
  next (`3810`).  Called from `flush`, an install can come between, and a record
  logged after it lands behind the pre-install log: `ControlWal` with
  `Preemptive = TRUE`, `MaxVer = 2`, one install, one flush and no full disk violates
  `WalReplayable`.  Without the flush it does not.
* `recover_suspect_wal` does not look at the suspect flag again once it has the
  lock (`persist_round.rs:392`).  On the control plane `flush` and the loop may both
  be recovering; the second finds the file already rewritten, drains the records
  made since, and if its own rewrite then fails with ENOSPC nothing marks the file
  suspect: the drained records are lost to it and the next append leaves a gap.
  `ControlWal` with `Preemptive = FALSE`, `MaxVer = 3`, `MaxFull = 2`, `MaxFlush = 1`,
  no install and no crash violates `WalReplayable` this way; with `MaxVer = 2` it does
  not, and neither does run `Safety` with two full disks and no flush.
* The answer to the last `InstallSnapshot` chunk is gated by `has_unflushed_wal`,
  which does not know of the owed rewrite (`raft.rs:2082`,
  `persist_round.rs:586`): it can ship before the install is on disk.  The
  properties of `ControlWal` therefore claim only logged records.
* A snapshot transfer is identified by its last index and its total length only
  (`handle_install_snapshot`, `raft.rs:5246`).  Two images with both equal, say of two
  leaders that compacted at the same index, would be assembled from each other's
  chunks; the code relies on images of one index being the same bytes.
* A rewrite of the shared WAL is built from every tablet's cached tail when it is
  enqueued.  A record whose append is still in flight in front of it is in that
  image: if the append fails and the rewrite then succeeds, the record is on disk
  although its caller was told it failed and its tail was put back.  `NoGap` and
  `AckedSurvives` hold (the caller is suspect or torn down and writes an image next),
  but the words "can never leave a phantom entry" on `submit_with_mutation` promise more.
* When the rewrite of a live tablet's compaction of the shared WAL fails for another
  reason than a full disk, the apply task panics (`animus-cp-data/src/lib.rs:12894`)
  without marking the log suspect.  The round that the compaction drained is in no file,
  and the loop, which goes on, appends the next one behind the gap: `SharedWal` with
  `Errors = {"compact"}` violates `NoGap`.
* `Disk::replace` that fails to sync the directory (`animus-env/src/prod.rs:2295`) has
  renamed already.  Nothing syncs the directory again (`sync` does so once per file), so
  after later rounds were synced and acknowledged a power loss may bring the old file
  back: `SharedWal` with `Errors = {"undone"}` violates `AckedSurvives`.
* The comment at `raft.rs:7429` says that a leader fsyncs before `AppendEntries`; the
  drivers deliberately do not (`ships_before_durable`).  A leader counts itself towards a
  commit before its fsync (`raft.rs:7402`) and a follower applies at its commit index, so
  an entry can be applied by a follower and then replaced: under the constants of
  `Raft.cfg`, and without its view, TLC refutes `StateMachineSafety`.  No client was told, and a restarted
  engine is replayed, but the sentence is not what the code does.
* `ts_cache.rs:3` says that no write commits below a read that was served.  A write
  that is already in the log with a lower timestamp when the read is served, and not
  yet committed, is no longer pushed when it commits: the cache learns of the read
  only when the engine has been read.  Such a write is concurrent with the read;
  `NoWriteBelowRead` therefore speaks of the writes proposed after it.
* When the answer to the stage of the anchor is lost in a transaction of one group,
  the retry has a fresh id and may be blocked by the intents of its own first attempt
  (`txn_prepare_pushing`, `txn_coordinator.rs:497`).  It can end with a definite
  conflict while recovery commits the first attempt.  And where recovery commits and
  resolves the first attempt before the retry stages, or the first stage lands only after
  the retry committed, both commit, the later one over whatever was written in between:
  `Txn` with one client, one key and one fault has a state with both ids in `done`.  The
  comment at `txn_coordinator.rs:415` calls the retry
  safe because a failed attempt "never reached its own propose"; `txn_stage` also
  returns `None` when the entry was proposed and its outcome not seen, which
  `animusd/src/lib.rs:565` takes into account for the outer retry.  With a participant
  (`CrossTablet`) recovery aborts the first attempt, because that was never staged there.

## 7. Plan

Done: the durability core with its proofs, the shared WAL with its proofs,
transactions with their refinement of an atomic store and its proof, and commit timestamps
with theirs.  Next, in this order:

1. *Raft*: snapshots and compaction of the log, membership by one voter at a time
   with learners, leadership transfer, quiescence.
2. *Tablet host*: fork-first split and seals against crashes and late writes, with
   the epoch compare-and-set of `meta.rs`.
3. *Storage engine*: WAL, manifest and flush of `lsm.rs` across a crash.
4. *Delta ring, index drain, global-table saga, rolling upgrade*, and the pure
   functions of `animus-tablet` and `animus-placement` against reference
   definitions.

Components whose runs ask the same kind of question share a run (`MCSafety`,
`MCLive`), so that each run stays one question about the system.
