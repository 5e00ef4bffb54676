------------------------------- MODULE DataWal ------------------------------
(***************************************************************************)
(* The durability driver of one data-plane tablet group, per-group-file    *)
(* layout (animus-cp-data/src/lib.rs: drive, persist_wal, recover_kv_wal,  *)
(* the compaction half of apply_and_compact, rewrite_wal_staged), on top   *)
(* of persist_round.rs and fair_lock.rs of animus-control.                 *)
(*                                                                         *)
(* Three tasks write one WAL file under wal_lock:                          *)
(*   Loop     the consensus loop; its persist future is polled only inside *)
(*            the loop's select;                                           *)
(*   Compact  the apply task's compaction, which drains the core's pending *)
(*            records, appends them and hands the image to                 *)
(*   Rewrite  the background task that stages the image outside the lock   *)
(*            and swaps it in.                                             *)
(* The Raft core is abstracted to the number of durable mutations it has   *)
(* made (`ver'): every step of the core either makes one or makes none and *)
(* its held replies vouch for all mutations made so far.  Messages on the  *)
(* ships_before_durable allowlist vouch for nothing and are left out, as   *)
(* is the halted (teardown) path.  A disk call fails for lack of space or  *)
(* not at all, but for the one rename of RecoverPanic: any other error is  *)
(* a panic of the task that met it, and when that is the apply task or the *)
(* background rewrite the loop goes on, a case that is not modelled.       *)
(***************************************************************************)
EXTENDS PersistRound, WalFile

CONSTANTS
  Preemptive,     \* TRUE: several runtime threads (ProdEnv), so another task
                  \* may run between two statements with no await between;
                  \* FALSE: one cooperative executor (SimEnv)
  CatchUpPasses,  \* CATCH_UP_PASSES of rewrite_wal_staged
  MaxVer,         \* bound: durable mutations of the core
  MaxGated,       \* bound: batches in GatedOuts
  MaxFull,        \* bound: I/O calls that fail with ENOSPC
  MaxCrash        \* bound: process crashes

ASSUME DataWalAssumption ==
  /\ Preemptive \in BOOLEAN
  /\ CatchUpPasses \in Nat /\ MaxVer \in Nat /\ MaxGated \in Nat
  /\ MaxFull \in Nat /\ MaxCrash \in Nat

Tasks == {"Loop", "Compact", "Rewrite"}
Nobody == "Nobody"

VARIABLES
  ver,           \* RaftCore: durable mutations made (pending + log + hard state)
  drainedTo,     \* RaftCore: mutations already taken by drain_persist
  durableIndex,  \* RaftCore::durable_index, as a mutation number
  base,          \* RaftCore::snapshot_index, as a mutation number
  prog,          \* PersistProgress
  holder,        \* wal_lock: the task that holds it
  queue,         \* wal_lock: the tasks waiting for it, in arrival order
  tail,          \* wal_lock.tail(): [active, run]
  wal,           \* the live WAL file
  tmp,           \* what {wal}.tmp holds: "none", "staged" or "image"
  staged,        \* the run in the staging file
  pc,            \* the consensus loop: "top", "select", "ship", "settle"
  own,           \* the loop's persist future
  ownIO,         \* its drained batch: [run, through, round]
  gated,         \* GatedOuts
  comp,          \* the apply task's compaction
  compIO,        \* its drained batch and image
  rw,            \* the background rewrite
  rwDelta,       \* the tail bytes it has taken and not yet staged
  passes,        \* its catch-up passes
  vouched,       \* history: what every message ever shipped vouched for
  panicked,      \* a non-ENOSPC I/O error outside teardown
  fails, crashes \* how much of the bounds is used

core == <<ver, drainedTo, durableIndex, base>>
lock == <<holder, queue>>
disk == <<wal, tmp, staged>>
loopVars == <<pc, own, ownIO, gated>>
compVars == <<comp, compIO>>
rwVars == <<rw, rwDelta, passes>>
ghost == <<vouched, panicked>>
bounds == <<fails, crashes>>
vars == <<core, prog, lock, tail, disk, loopVars, compVars, rwVars, ghost,
          bounds>>

NoIO == [run |-> EmptyRun, through |-> 0, round |-> 0]

\* RaftCore::has_unflushed_wal
Dirty == drainedTo < ver

\* Bug: an empty drain yields a round nobody checks for.
DrainIOSentinel == [run |-> Run(drainedTo, ver), through |-> ver,
                    round |-> IF Dirty THEN prog.drained + 1 ELSE -1]

\* The batch drain_for_round takes, with the round that covers it (none when
\* nothing was pending).
DrainIO == [run |-> Run(drainedTo, ver), through |-> ver,
            round |-> IF Dirty THEN prog.drained + 1 ELSE 0]

\* drain_for_round: drain_persist and begin_drain in one core-lock hold.
DrainForRound ==
  /\ drainedTo' = ver
  /\ prog' = BeginDrain(prog, Dirty)

\* Bug: the log's end at completion instead of at the drain.
MarkDurableNow(through) == durableIndex' = ver

\* RaftCore::mark_durable_through
MarkDurable(through) ==
  durableIndex' = IF through > durableIndex THEN through ELSE durableIndex

\* FairMutex: a caller queues behind every earlier one, the head takes the
\* lock once it is free, and a release hands it to the next head.
Enqueue(t) == queue' = Append(queue, t) /\ UNCHANGED holder
Acquire(t) ==
  /\ holder = Nobody /\ queue # <<>> /\ Head(queue) = t
  /\ holder' = t /\ queue' = Tail(queue)
Unlock == holder' = Nobody /\ UNCHANGED queue
AcquireRelease(t) ==
  /\ holder = Nobody /\ queue # <<>> /\ Head(queue) = t
  /\ queue' = Tail(queue) /\ UNCHANGED holder

\* RewriteTail::push: a round joins the tail of a rewrite that is staging.
TailPush(run) ==
  IF tail.active THEN [tail EXCEPT !.run = Concat(@, run)] ELSE tail

\* Bug: the tail is read and stays where it is.
TailPeek == rwDelta' = tail.run /\ UNCHANGED tail

\* RewriteTail::take
TailTake == rwDelta' = tail.run /\ tail' = [tail EXCEPT !.run = EmptyRun]

\* Bug: a suspect file alone starts no round.
RoundWantedIfDirty == own = "none" /\ Dirty

\* The loop's one round-start condition.
RoundWanted == own = "none" /\ (Dirty \/ prog.suspect)

\* Bug: a rewrite that is being staged is not noticed.
NeverStaging == FALSE

\* RewriteTail::is_active
Staging == tail.active

\* An I/O call that fails with ENOSPC.
DiskFull == fails < MaxFull /\ fails' = fails + 1 /\ UNCHANGED crashes

\* Other tasks run between two statements of the compaction that no await
\* separates only when there are several threads.
Running == ~panicked /\ (Preemptive \/ comp # "mark")

-----------------------------------------------------------------------------
(* The Raft core, stepped by the loop or by a proposer.                    *)

\* A proposer appends an entry under the core lock, outside the loop.
Propose ==
  /\ Running /\ ver < MaxVer
  /\ ver' = ver + 1
  /\ UNCHANGED <<drainedTo, durableIndex, base, prog, lock, tail, disk,
                 loopVars, compVars, rwVars, ghost, bounds>>

\* The loop handles a message or a tick whose replies must be held: `d' tells
\* whether the step made a durable mutation.  The gate is read in the same
\* core-lock hold as the step.  A full node's accept, frozen at its durable
\* index (is_frozen_ack), does not wait.
StepCore(d) ==
  /\ Running /\ pc = "select" /\ ver + d <= MaxVer
  /\ ver' = ver + d
  /\ LET gate == Gate(prog, drainedTo < ver + d) IN
       \/ /\ gate = ShipNow
          /\ vouched' = vouched \cup {ver + d}
          /\ UNCHANGED gated
       \/ /\ gate # ShipNow /\ Len(gated) < MaxGated
          /\ gated' = Append(gated, [round |-> gate, need |-> ver + d])
          /\ UNCHANGED vouched
       \/ /\ gate # ShipNow /\ prog.suspect
          /\ vouched' = vouched \cup {durableIndex}
          /\ UNCHANGED gated
  /\ pc' = "ship"
  /\ UNCHANGED <<drainedTo, durableIndex, base, prog, lock, tail, disk, own,
                 ownIO, compVars, rwVars, panicked, bounds>>

-----------------------------------------------------------------------------
(* The consensus loop.                                                     *)

\* The top of the loop: start a round if one is wanted.
LoopTop ==
  /\ Running /\ pc = "top"
  /\ pc' = "select"
  /\ IF RoundWanted
       THEN own' = "wait" /\ Enqueue("Loop")
       ELSE UNCHANGED <<own, lock>>
  /\ UNCHANGED <<core, prog, tail, disk, ownIO, gated, compVars, rwVars, ghost,
                 bounds>>

\* The select resolves with nothing to step: a proposal, the timer or
\* PersistArm (a buffered round landed, or the WAL went suspect with no round
\* of the loop's own).
LoopWake ==
  /\ Running /\ pc = "select"
  /\ RoundLanded(gated, prog) \/ RoundWanted
  /\ pc' = "ship"
  /\ UNCHANGED <<core, prog, lock, tail, disk, own, ownIO, gated, compVars,
                 rwVars, ghost, bounds>>

\* gated.release(persist.durable()): the watermark is read without the lock.
LoopShip ==
  /\ Running /\ pc = "ship"
  /\ vouched' = vouched \cup Released(gated, prog.durable)
  /\ gated' = StillHeld(gated, prog.durable)
  /\ pc' = "settle"
  /\ UNCHANGED <<core, prog, lock, tail, disk, own, ownIO, compVars, rwVars,
                 panicked, bounds>>

\* The safety net: nothing owed, nothing in flight, so release everything.
LoopSettle ==
  /\ Running /\ pc = "settle"
  /\ IF FullyDurable(prog, Dirty) /\ own = "none"
       THEN /\ vouched' = vouched \cup AllNeeds(gated)
            /\ gated' = <<>>
       ELSE UNCHANGED <<vouched, gated>>
  /\ pc' = "top"
  /\ UNCHANGED <<core, prog, lock, tail, disk, own, ownIO, compVars, rwVars,
                 panicked, bounds>>

-----------------------------------------------------------------------------
(* The loop's persist future: persist_wal, then recover_suspect_wal after  *)
(* an ENOSPC.  It moves only when the select polls it, and PersistArm      *)
(* looks at the landed rounds first.                                       *)

Polled == Running /\ pc = "select" /\ ~RoundLanded(gated, prog)

\* The future is ready: the loop drops it and goes on to ship.
RoundDone == own' = "none" /\ ownIO' = NoIO /\ pc' = "ship"

PersistStart ==
  /\ Polled /\ own = "wait"
  /\ \/ /\ prog.suspect
        /\ AcquireRelease("Loop")
        /\ own' = "sleep"
        /\ UNCHANGED <<core, prog, ownIO, pc>>
     \/ /\ ~prog.suspect /\ ~Dirty
        /\ AcquireRelease("Loop")
        /\ RoundDone
        /\ UNCHANGED <<core, prog>>
     \/ /\ ~prog.suspect /\ Dirty
        /\ Acquire("Loop")
        /\ ownIO' = DrainIO
        /\ DrainForRound
        /\ own' = "io"
        /\ UNCHANGED <<ver, durableIndex, base, pc>>
  /\ UNCHANGED <<tail, disk, gated, compVars, rwVars, ghost, bounds>>

\* append + sync succeeded: the round joins a staging rewrite's tail, and both
\* watermarks move in one core-lock hold.
PersistOk ==
  /\ Polled /\ own = "io"
  /\ wal' = AppendSync(wal, ownIO.run)
  /\ tail' = TailPush(ownIO.run)
  /\ MarkDurable(ownIO.through)
  /\ prog' = CompleteDrain(prog, ownIO.round)
  /\ Unlock
  /\ RoundDone
  /\ UNCHANGED <<ver, drainedTo, base, tmp, staged, gated, compVars, rwVars,
                 ghost, bounds>>

\* ENOSPC: the file is suspect before the lock is released.
PersistFull ==
  /\ Polled /\ own = "io" /\ DiskFull
  /\ \E kept \in ownIO.run.from .. ownIO.run.to :
       wal' = AppendFull(wal, ownIO.run, kept)
  /\ prog' = MarkSuspect(prog)
  /\ Unlock
  /\ own' = "sleep" /\ ownIO' = NoIO
  /\ UNCHANGED <<core, tail, tmp, staged, pc, gated, compVars, rwVars, ghost>>

\* The backoff elapsed and the free-space probe passed.
RecoverProbe ==
  /\ Polled /\ own = "sleep"
  /\ own' = "rwait" /\ Enqueue("Loop")
  /\ UNCHANGED <<core, prog, tail, disk, pc, ownIO, gated, compVars, rwVars,
                 ghost, bounds>>

\* A staged rewrite in flight shares the .tmp sibling: try again later.
\* Otherwise drain, capture the image and start writing it.
RecoverCapture ==
  /\ Polled /\ own = "rwait"
  /\ \/ /\ Staging
        /\ AcquireRelease("Loop")
        /\ own' = "sleep"
        /\ UNCHANGED <<core, prog, tmp, ownIO>>
     \/ /\ ~Staging
        /\ Acquire("Loop")
        /\ DrainForRound
        /\ ownIO' = [run |-> Image(ver), through |-> ver, round |-> 0]
        /\ tmp' = "image"
        /\ own' = "rio"
        /\ UNCHANGED <<ver, durableIndex, base>>
  /\ UNCHANGED <<tail, wal, staged, pc, gated, compVars, rwVars, ghost, bounds>>

RecoverOk ==
  /\ Polled /\ own = "rio" /\ tmp = "image"
  /\ wal' = Intact(ownIO.run)
  /\ tmp' = "none"
  /\ MarkDurable(ownIO.through)
  /\ prog' = [CompleteAllDrained(prog) EXCEPT !.suspect = FALSE]
  /\ Unlock
  /\ RoundDone
  /\ UNCHANGED <<ver, drainedTo, base, tail, staged, gated, compVars, rwVars,
                 ghost, bounds>>

RecoverFull ==
  /\ Polled /\ own = "rio" /\ DiskFull
  /\ tmp' = "none"
  /\ Unlock
  /\ own' = "sleep" /\ ownIO' = NoIO
  /\ UNCHANGED <<core, prog, tail, wal, staged, pc, gated, compVars, rwVars,
                 ghost>>

\* The temporary file vanished under the rewrite: the rename fails with an
\* error that is not ENOSPC, and a live group treats it as a durability fault.
RecoverPanic ==
  /\ Polled /\ own = "rio" /\ tmp # "image"
  /\ panicked' = TRUE
  /\ UNCHANGED <<core, prog, lock, tail, disk, loopVars, compVars, rwVars,
                 vouched, bounds>>

-----------------------------------------------------------------------------
(* The apply task's compaction.                                            *)

\* A threshold, an on-demand image or an installed snapshot asks for a
\* rewrite, and no background rewrite is in flight.
CompactWait ==
  /\ Running /\ comp = "idle" /\ rw = "idle" /\ base < ver
  /\ comp' = "wait" /\ Enqueue("Compact")
  /\ UNCHANGED <<core, prog, tail, disk, loopVars, compIO, rwVars, ghost,
                 bounds>>

\* Never over a suspect WAL; otherwise move the base, capture the image and
\* drain what it supersedes, or leave again when the base does not move.
CompactCapture ==
  /\ Running /\ comp = "wait"
  /\ \/ /\ AcquireRelease("Compact")
        /\ comp' = "idle"
        /\ UNCHANGED <<core, prog, compIO>>
     \/ /\ ~prog.suspect /\ base < ver
        /\ Acquire("Compact")
        /\ base' = ver
        /\ compIO' = DrainIO
        /\ DrainForRound
        /\ comp' = "early"
        /\ UNCHANGED <<ver, durableIndex>>
  /\ UNCHANGED <<tail, disk, loopVars, rwVars, ghost, bounds>>

\* The drained records are made durable in the live file like any round (no
\* I/O when the drain was empty), the tail starts recording, the lock is
\* released.
EarlyOk ==
  /\ Running /\ comp = "early"
  /\ IF compIO.round # 0
       THEN /\ wal' = AppendSync(wal, compIO.run)
            /\ MarkDurable(compIO.through)
            /\ prog' = CompleteDrain(prog, compIO.round)
       ELSE UNCHANGED <<wal, durableIndex, prog>>
  /\ tail' = [active |-> TRUE, run |-> EmptyRun]
  /\ Unlock
  /\ comp' = "claim"
  /\ UNCHANGED <<ver, drainedTo, base, tmp, staged, loopVars, compIO, rwVars,
                 ghost, bounds>>

\* ENOSPC: the lock is released first and the file marked suspect after it.
EarlyFull ==
  /\ Running /\ comp = "early" /\ compIO.round # 0 /\ DiskFull
  /\ \E kept \in compIO.run.from .. compIO.run.to :
       wal' = AppendFull(wal, compIO.run, kept)
  /\ Unlock
  /\ compIO' = NoIO
  /\ comp' = "mark"
  /\ UNCHANGED <<core, prog, tail, tmp, staged, loopVars, rwVars, ghost>>

CompactMarkSuspect ==
  /\ ~panicked /\ comp = "mark"
  /\ prog' = MarkSuspect(prog)
  /\ comp' = "idle"
  /\ UNCHANGED <<core, lock, tail, disk, loopVars, compIO, rwVars, ghost,
                 bounds>>

\* The engine markers are durable: claim the rewrite slot, spawn the rewrite
\* and repeat the (idempotent) watermark updates.
CompactSpawn ==
  /\ Running /\ comp = "claim"
  /\ rw' = "stage"
  /\ MarkDurable(compIO.through)
  /\ prog' = CompleteDrain(prog, compIO.round)
  /\ comp' = "idle"
  /\ UNCHANGED <<ver, drainedTo, base, lock, tail, disk, loopVars, compIO,
                 rwDelta, passes, ghost, bounds>>

-----------------------------------------------------------------------------
(* The background rewrite: rewrite_wal_staged.                             *)

\* stage_replace wrote the image; queue for the first catch-up pass.
StageOk ==
  /\ Running /\ rw = "stage"
  /\ staged' = Image(compIO.through) /\ tmp' = "staged"
  /\ passes' = 0
  /\ rw' = "wait" /\ Enqueue("Rewrite")
  /\ UNCHANGED <<core, prog, tail, wal, loopVars, compVars, rwDelta, ghost,
                 bounds>>

\* A catch-up pass takes the tail under the lock and lets the lock go.  An
\* empty tail, or the last pass, leads to the final step.
CatchUpTake ==
  /\ Running /\ rw = "wait" /\ passes < CatchUpPasses
  /\ AcquireRelease("Rewrite")
  /\ TailTake
  /\ rw' = "extend"
  /\ UNCHANGED <<core, prog, disk, loopVars, compVars, passes, ghost, bounds>>

CatchUpExtend ==
  /\ Running /\ rw = "extend"
  /\ staged' = Concat(staged, rwDelta)
  /\ rwDelta' = EmptyRun
  /\ passes' = IF IsEmptyRun(rwDelta) THEN CatchUpPasses ELSE passes + 1
  /\ rw' = "wait" /\ Enqueue("Rewrite")
  /\ UNCHANGED <<core, prog, tail, wal, tmp, loopVars, compVars, ghost, bounds>>

\* The final pass keeps the lock until the swap.
FinalTake ==
  /\ Running /\ rw = "wait" /\ passes >= CatchUpPasses
  /\ Acquire("Rewrite")
  /\ TailTake
  /\ rw' = "swap"
  /\ UNCHANGED <<core, prog, disk, loopVars, compVars, passes, ghost, bounds>>

\* stage_extend + commit_staged, then the guard drops.
SwapOk ==
  /\ Running /\ rw = "swap"
  /\ wal' = Intact(Concat(staged, rwDelta))
  /\ tmp' = "none" /\ staged' = EmptyRun /\ rwDelta' = EmptyRun
  /\ Unlock
  /\ rw' = "end"
  /\ UNCHANGED <<core, prog, tail, loopVars, compVars, passes, ghost, bounds>>

\* ENOSPC anywhere in the rewrite abandons it: the live file is untouched.
RewriteFull ==
  /\ Running /\ rw \in {"stage", "extend", "swap"} /\ DiskFull
  /\ rw = "extend" => ~IsEmptyRun(rwDelta)
  /\ IF rw = "swap" THEN Unlock ELSE UNCHANGED lock
  /\ rwDelta' = EmptyRun
  /\ tmp' = "staged"
  /\ rw' = "abort"
  /\ UNCHANGED <<core, prog, tail, wal, staged, loopVars, compVars, passes,
                 ghost>>

\* tail().end() runs after the guard is gone; a failed rewrite then removes
\* the staging file.
TailEnd ==
  /\ Running /\ rw \in {"end", "abort"}
  /\ tail' = [active |-> FALSE, run |-> EmptyRun]
  /\ rw' = IF rw = "end" THEN "idle" ELSE "discard"
  /\ UNCHANGED <<core, prog, lock, disk, loopVars, compVars, rwDelta, passes,
                 ghost, bounds>>

DiscardStaged ==
  /\ Running /\ rw = "discard"
  /\ tmp' = "none" /\ staged' = EmptyRun
  /\ rw' = "idle"
  /\ UNCHANGED <<core, prog, lock, tail, wal, loopVars, compVars, rwDelta,
                 passes, ghost, bounds>>

-----------------------------------------------------------------------------
(* A process crash and the restart that replays the WAL.  An append in     *)
(* flight may have left any prefix of its records on the disk.             *)

InFlight ==
  IF own = "io" THEN ownIO.run
  ELSE IF comp = "early" /\ compIO.round # 0 THEN compIO.run
  ELSE EmptyRun

CrashFile(kept) ==
  IF wal.torn \/ IsEmptyRun(InFlight) \/ kept = InFlight.from THEN Repaired(wal)
  ELSE Intact(Concat(wal.run, Run(InFlight.from, kept)))

Crash ==
  /\ crashes < MaxCrash /\ crashes' = crashes + 1
  /\ \E kept \in InFlight.from .. InFlight.to :
       LET file == CrashFile(kept) IN
         /\ wal' = file
         /\ ver' = Recovered(file)
         /\ drainedTo' = Recovered(file)
         /\ durableIndex' = Recovered(file)
         /\ base' = IF base > Recovered(file) THEN Recovered(file) ELSE base
  /\ prog' = NewProgress
  /\ holder' = Nobody /\ queue' = <<>>
  /\ tail' = [active |-> FALSE, run |-> EmptyRun]
  /\ tmp' = "none" /\ staged' = EmptyRun
  /\ pc' = "top" /\ own' = "none" /\ ownIO' = NoIO /\ gated' = <<>>
  /\ comp' = "idle" /\ compIO' = NoIO
  /\ rw' = "idle" /\ rwDelta' = EmptyRun /\ passes' = 0
  /\ panicked' = FALSE
  /\ UNCHANGED <<vouched, fails>>

-----------------------------------------------------------------------------
Init ==
  /\ ver = 0 /\ drainedTo = 0 /\ durableIndex = 0 /\ base = 0
  /\ prog = NewProgress
  /\ holder = Nobody /\ queue = <<>>
  /\ tail = [active |-> FALSE, run |-> EmptyRun]
  /\ wal = Intact(EmptyRun) /\ tmp = "none" /\ staged = EmptyRun
  /\ pc = "top" /\ own = "none" /\ ownIO = NoIO /\ gated = <<>>
  /\ comp = "idle" /\ compIO = NoIO
  /\ rw = "idle" /\ rwDelta = EmptyRun /\ passes = 0
  /\ vouched = {} /\ panicked = FALSE
  /\ fails = 0 /\ crashes = 0

LoopNext == LoopTop \/ LoopWake \/ LoopShip \/ LoopSettle
PersistNext ==
  \/ PersistStart \/ PersistOk \/ PersistFull
  \/ RecoverProbe \/ RecoverCapture \/ RecoverOk \/ RecoverFull \/ RecoverPanic
CompactNext ==
  CompactWait \/ CompactCapture \/ EarlyOk \/ EarlyFull \/ CompactMarkSuspect
  \/ CompactSpawn
RewriteNext ==
  StageOk \/ CatchUpTake \/ CatchUpExtend \/ FinalTake \/ SwapOk \/ RewriteFull
  \/ TailEnd \/ DiscardStaged

Next ==
  \/ Propose
  \/ \E d \in {0, 1} : StepCore(d)
  \/ LoopNext \/ PersistNext \/ CompactNext \/ RewriteNext
  \/ Crash

Spec == Init /\ [][Next]_vars

\* What the persist future and the compaction do when no I/O finds the disk full.
PersistStep ==
  \/ PersistStart \/ PersistOk
  \/ RecoverProbe \/ RecoverCapture \/ RecoverOk \/ RecoverPanic
CompactStep ==
  CompactCapture \/ EarlyOk \/ CompactMarkSuspect \/ CompactSpawn

\* The loop goes round and polls its persist arm first in every select, so a
\* future that can move on infinitely many passes moves; the apply and rewrite
\* tasks are polled when they can move.  ENOSPC is bounded by MaxFull: space
\* eventually returns.  Nothing forces a compaction to start.
Fairness ==
  /\ WF_vars(LoopNext)
  /\ SF_vars(PersistStep)
  /\ WF_vars(CompactStep)
  /\ WF_vars(RewriteNext)

FairSpec == Spec /\ Fairness
-----------------------------------------------------------------------------
(* Properties.                                                             *)

OwnStates == {"none", "wait", "io", "sleep", "rwait", "rio"}
CompStates == {"idle", "wait", "early", "mark", "claim"}
RwStates == {"idle", "stage", "wait", "extend", "swap", "end", "abort",
             "discard"}
IOs == [run : Runs, through : Nat, round : Nat]

\* Every variable keeps the type of the field it models.
TypeOK ==
  /\ ver \in Nat /\ drainedTo \in Nat /\ durableIndex \in Nat /\ base \in Nat
  /\ prog \in Progresses
  /\ holder \in Tasks \cup {Nobody} /\ queue \in Seq(Tasks)
  /\ tail \in [active : BOOLEAN, run : Runs]
  /\ wal \in Files /\ tmp \in {"none", "staged", "image"} /\ staged \in Runs
  /\ pc \in {"top", "select", "ship", "settle"}
  /\ own \in OwnStates /\ ownIO \in IOs
  /\ gated \in Seq([round : Nat, need : Nat])
  /\ comp \in CompStates /\ compIO \in IOs
  /\ rw \in RwStates /\ rwDelta \in Runs /\ passes \in Nat
  /\ vouched \in SUBSET Nat /\ panicked \in BOOLEAN
  /\ fails \in Nat /\ crashes \in Nat

\* Whatever a shipped vote grant, append accept or snapshot ack vouched for is
\* read back by a restart, whichever task drained it and whatever failed in
\* between (ships_before_durable: "a restart must not lose entries the leader
\* counted toward a commit quorum").
VouchedSurvivesRestart == \A v \in vouched : v <= Recovered(wal)

\* The leader's client-visible frontier min(commit_index, durable_index) never
\* runs ahead of the file: mark_durable_through is never called for records a
\* restart would not replay.
DurableIndexOnDisk == durableIndex <= Recovered(wal)

\* However appends, early appends, staged images, tails and swaps interleave,
\* the live file replays positionally: check_log_contiguous never refuses it.
WalReplayable == Replayable(wal)

\* A batch is pushed with a round no smaller than the batches before it (the
\* debug_assert of GatedOuts::push), so a prefix drain releases all it can.
GatedInRoundOrder ==
  \A i, j \in 1 .. Len(gated) : i < j => gated[i].round <= gated[j].round

\* Between crashes a landed round never un-lands and is never a round nobody
\* drained: the watermarks only move forward and durable never passes drained.
RoundsMoveForward ==
  [][prog' = NewProgress \/
     /\ prog.drained <= prog'.drained /\ prog.durable <= prog'.durable
     /\ prog'.durable <= prog'.drained]_vars

\* The suspect-WAL rewrite has {wal}.tmp to itself ("deferred ... while a staged
\* compaction rewrite is in flight, since it shares the file's `.tmp` sibling"),
\* but for a failed rewrite that has ended its tail and has yet to discard its
\* staging file: then the discard may take the image away, and the node panics.
TmpNotShared ==
  own = "rio" => (rw = "idle" \/ (rw = "discard" /\ tmp = "image"))

\* No ack is stranded: what is held back is eventually shipped, whoever drained
\* the records it waits for (or the node dies).
HeldIsReleased == \A v \in 0 .. MaxVer :
  (v \in AllNeeds(gated)) ~> (v \notin AllNeeds(gated) \/ panicked)

\* A suspect WAL is rewritten without a restart once space returns.
SuspectIsRecovered == prog.suspect ~> (~prog.suspect \/ panicked)
=============================================================================
