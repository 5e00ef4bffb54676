----------------------------- MODULE ControlWal -----------------------------
(***************************************************************************)
(* The durability driver of a control-plane node (animus-control/src/      *)
(* node.rs: drive, persist_wal, recover_control_wal, RaftNode::flush, the  *)
(* install and compaction halves of meta_apply_and_compact).               *)
(*                                                                         *)
(* It shares persist_round.rs with the data plane (see DataWal) and        *)
(* differs in three ways: a compaction replaces the file under wal_lock; a *)
(* graceful shutdown may flush from a task of its own; and an installed    *)
(* snapshot is NOT logged.  It moves the base in memory, raises            *)
(* install_rewrite_owed, and reaches the WAL with the apply task's next    *)
(* whole-image rewrite, after the image is in the engine.  Errors other    *)
(* than a full disk, which stop only the task that met them, are left out. *)
(***************************************************************************)
EXTENDS PersistRound, WalFile

CONSTANTS
  Preemptive,   \* several runtime threads (ProdEnv) or one executor (SimEnv)
  MaxVer,       \* bound: durable mutations of the core
  MaxGated,     \* bound: batches in GatedOuts
  MaxFull,      \* bound: I/O calls that fail with ENOSPC
  MaxCrash,     \* bound: process crashes
  MaxInstall,   \* bound: completed InstallSnapshot transfers
  MaxFlush      \* bound: RaftNode::flush calls

ASSUME ControlWalAssumption ==
  /\ Preemptive \in BOOLEAN
  /\ MaxVer \in Nat /\ MaxGated \in Nat /\ MaxFull \in Nat
  /\ MaxCrash \in Nat /\ MaxInstall \in Nat /\ MaxFlush \in Nat

Persisters == {"Loop", "Flush"}      \* the tasks that run persist_wal
LockUsers == Persisters \cup {"Apply"}
NoHolder == "NoHolder"

VARIABLES
  ver,           \* RaftCore: durable mutations made, installs included
  lastRec,       \* RaftCore: the last of them that is a WAL record
  pending,       \* RaftCore::pending (and an uncaptured term/vote change)
  durableIndex,  \* RaftCore::durable_index, as a mutation number
  base,          \* RaftCore::snapshot_index, as a mutation number
  snapDirty,     \* RaftCore::snapshot_dirty
  owed,          \* RaftCore::install_rewrite_owed
  pendInstall,   \* RaftCore::pending_install: the installed base, 0 if none
  engineAt,      \* the engine's durable applied watermark
  prog,          \* PersistProgress
  holder, queue, \* wal_lock
  wal, walBase,  \* the WAL file and the snapshot base it replays to
  pc,            \* the consensus loop
  fut, futIO,    \* the persist_wal futures of the loop and of flush
  gated,         \* GatedOuts
  apply, applyIO,\* the apply task's compaction
  vouched,       \* history: what every message ever shipped vouched for
  halted,        \* the node refused to start
  fails, crashes, installs, flushes

core == <<ver, lastRec, pending, durableIndex, base, snapDirty, owed,
          pendInstall>>
lock == <<holder, queue>>
disk == <<wal, walBase, engineAt>>
futVars == <<fut, futIO>>
applyVars == <<apply, applyIO>>
ghost == <<vouched, halted>>
bounds == <<fails, crashes, installs, flushes>>
vars == <<core, prog, lock, disk, pc, futVars, gated, applyVars, ghost, bounds>>

NoIO == [run |-> EmptyRun, through |-> 0, round |-> 0, base |-> 0]

\* RaftCore::has_unflushed_wal: an owed rewrite is not part of it.
Dirty == ~IsEmptyRun(pending)

DrainForRound ==
  /\ pending' = EmptyRun
  /\ prog' = BeginDrain(prog, Dirty)

\* Bug: an empty drain yields a round nobody checks for.
DrainRoundSentinel == IF Dirty THEN prog.drained + 1 ELSE -1

DrainRound == IF Dirty THEN prog.drained + 1 ELSE 0

\* Bug: the log's end at completion instead of at the drain.
MarkDurableNow(through) == durableIndex' = ver

MarkDurable(through) ==
  durableIndex' = IF through > durableIndex THEN through ELSE durableIndex

Enqueue(t) == queue' = Append(queue, t) /\ UNCHANGED holder
Acquire(t) ==
  /\ holder = NoHolder /\ queue # <<>> /\ Head(queue) = t
  /\ holder' = t /\ queue' = Tail(queue)
AcquireRelease(t) ==
  /\ holder = NoHolder /\ queue # <<>> /\ Head(queue) = t
  /\ queue' = Tail(queue) /\ UNCHANGED holder
Unlock == holder' = NoHolder /\ UNCHANGED queue

\* Bug: appends go on while an installed snapshot is not in the file.
AppendsNeverHeld == FALSE

\* install_rewrite_owed holds appends to the old file back.
AppendsHeld == owed

\* The loop's one round-start condition.
RoundWanted == fut["Loop"] = "none" /\ (Dirty \/ prog.suspect) /\ ~AppendsHeld

\* Bug: the flag outlives the rewrite.
OwedStays == UNCHANGED owed

\* The rewrite that carries the installed base, or finds nothing to carry,
\* settles the debt.
OwedSettled == owed' = FALSE

DiskFull == fails < MaxFull /\ fails' = fails + 1
            /\ UNCHANGED <<crashes, installs, flushes>>

Running == ~halted

-----------------------------------------------------------------------------
(* Steps of the core.  persist_wal reads install_rewrite_owed in one        *)
(* core-lock hold and drains in the next, with no await between: on one     *)
(* executor no other task runs there, and the loop never steps the core     *)
(* while it polls its own future.                                           *)

CoreFree == Running /\ (Preemptive \/ \A f \in Persisters : fut[f] # "held")
LoopFree == CoreFree /\ pc = "select" /\ fut["Loop"] # "held"

\* The replies of the loop's step wait for the gate read with it, or ship; they
\* vouch for the records logged so far.
HoldOrShip(dirty, need) ==
  LET gate == Gate(prog, dirty) IN
    \/ /\ gate = ShipNow
       /\ vouched' = vouched \cup {need}
       /\ UNCHANGED gated
    \/ /\ gate # ShipNow /\ Len(gated) < MaxGated
       /\ gated' = Append(gated, [round |-> gate, need |-> need])
       /\ UNCHANGED vouched

\* A proposer, a message or a tick that logs a record.
Record ==
  /\ ver < MaxVer
  /\ ver' = ver + 1 /\ lastRec' = ver + 1
  /\ pending' = Concat(pending, Run(ver, ver + 1))
  /\ UNCHANGED <<durableIndex, base, snapDirty, owed, pendInstall>>

Propose ==
  /\ CoreFree /\ Record
  /\ UNCHANGED <<prog, lock, disk, pc, futVars, gated, applyVars, ghost,
                 bounds>>

StepRecord ==
  /\ LoopFree /\ Record
  /\ HoldOrShip(TRUE, lastRec')
  /\ pc' = "ship"
  /\ UNCHANGED <<prog, lock, disk, futVars, applyVars, halted, bounds>>

\* A step that changes nothing durable: its replies repeat earlier claims.
StepQuiet ==
  /\ LoopFree
  /\ HoldOrShip(Dirty, lastRec)
  /\ pc' = "ship"
  /\ UNCHANGED <<core, prog, lock, disk, futVars, applyVars, halted, bounds>>

\* The last chunk of an InstallSnapshot: the base, the cleared log and the
\* configuration change in memory only.  The ack goes through the gate, which
\* does not know of the owed rewrite: it vouches for the logged records only.
StepInstall ==
  /\ LoopFree /\ ver < MaxVer /\ installs < MaxInstall
  /\ ver' = ver + 1
  /\ base' = ver + 1 /\ snapDirty' = TRUE /\ owed' = TRUE
  /\ pendInstall' = ver + 1
  /\ installs' = installs + 1
  /\ HoldOrShip(Dirty, lastRec)
  /\ pc' = "ship"
  /\ UNCHANGED <<lastRec, pending, durableIndex, prog, lock, disk, futVars,
                 applyVars, halted, fails, crashes, flushes>>

-----------------------------------------------------------------------------
(* The consensus loop.                                                     *)

LoopTop ==
  /\ Running /\ pc = "top"
  /\ pc' = "select"
  /\ IF RoundWanted
       THEN fut' = [fut EXCEPT !["Loop"] = "wait"] /\ Enqueue("Loop")
       ELSE UNCHANGED <<fut, lock>>
  /\ UNCHANGED <<core, prog, disk, futIO, gated, applyVars, ghost, bounds>>

\* The timer arm is always armed on this plane, so the select resolves at
\* least once per heartbeat interval whatever else happens.
LoopWake ==
  /\ Running /\ pc = "select" /\ fut["Loop"] # "held"
  /\ pc' = "ship"
  /\ UNCHANGED <<core, prog, lock, disk, futVars, gated, applyVars, ghost,
                 bounds>>

LoopShip ==
  /\ Running /\ pc = "ship"
  /\ vouched' = vouched \cup Released(gated, prog.durable)
  /\ gated' = StillHeld(gated, prog.durable)
  /\ pc' = "settle"
  /\ UNCHANGED <<core, prog, lock, disk, futVars, applyVars, halted, bounds>>

LoopSettle ==
  /\ Running /\ pc = "settle"
  /\ IF FullyDurable(prog, Dirty) /\ fut["Loop"] = "none"
       THEN vouched' = vouched \cup AllNeeds(gated) /\ gated' = <<>>
       ELSE UNCHANGED <<vouched, gated>>
  /\ pc' = "top"
  /\ UNCHANGED <<core, prog, lock, disk, futVars, applyVars, halted, bounds>>

-----------------------------------------------------------------------------
(* persist_wal, run by the loop (polled in its select) or by flush.        *)

Polled(f) ==
  Running /\ (f = "Loop" => pc = "select" /\ ~RoundLanded(gated, prog))

Finish(f) ==
  /\ fut' = [fut EXCEPT ![f] = "none"]
  /\ futIO' = [futIO EXCEPT ![f] = NoIO]
  /\ pc' = IF f = "Loop" THEN "ship" ELSE pc

\* RaftNode::flush, called before a graceful shutdown stops the driver.
Flush ==
  /\ Running /\ flushes < MaxFlush /\ fut["Flush"] = "none"
  /\ flushes' = flushes + 1
  /\ fut' = [fut EXCEPT !["Flush"] = "wait"] /\ Enqueue("Flush")
  /\ UNCHANGED <<core, prog, disk, pc, futIO, gated, applyVars, ghost, fails,
                 crashes, installs>>

\* The lock is taken: nothing is appended while an install owes a rewrite,
\* and a suspect file goes to the recovery.
PersistCheck(f) ==
  /\ Polled(f) /\ fut[f] = "wait"
  /\ \/ /\ ~prog.suspect /\ AppendsHeld
        /\ AcquireRelease(f)
        /\ Finish(f)
     \/ /\ prog.suspect
        /\ AcquireRelease(f)
        /\ fut' = [fut EXCEPT ![f] = "sleep"]
        /\ UNCHANGED <<futIO, pc>>
     \/ /\ ~prog.suspect /\ ~AppendsHeld
        /\ Acquire(f)
        /\ fut' = [fut EXCEPT ![f] = "held"]
        /\ UNCHANGED <<futIO, pc>>
  /\ UNCHANGED <<core, prog, disk, gated, applyVars, ghost, bounds>>

PersistDrain(f) ==
  /\ Polled(f) /\ fut[f] = "held"
  /\ \/ /\ ~Dirty
        /\ Unlock /\ Finish(f)
        /\ UNCHANGED <<core, prog>>
     \/ /\ Dirty
        /\ futIO' = [futIO EXCEPT ![f] =
             [run |-> pending, through |-> ver, round |-> DrainRound,
              base |-> walBase]]
        /\ DrainForRound
        /\ fut' = [fut EXCEPT ![f] = "io"]
        /\ UNCHANGED <<lock, ver, lastRec, durableIndex, base, snapDirty, owed,
                       pendInstall, pc>>
  /\ UNCHANGED <<disk, gated, applyVars, ghost, bounds>>

PersistOk(f) ==
  /\ Polled(f) /\ fut[f] = "io"
  /\ wal' = AppendSync(wal, futIO[f].run)
  /\ MarkDurable(futIO[f].through)
  /\ prog' = CompleteDrain(prog, futIO[f].round)
  /\ Unlock /\ Finish(f)
  /\ UNCHANGED <<ver, lastRec, pending, base, snapDirty, owed, pendInstall,
                 walBase, engineAt, gated, applyVars, ghost, bounds>>

PersistFull(f) ==
  /\ Polled(f) /\ fut[f] = "io" /\ DiskFull
  /\ \E kept \in futIO[f].run.from .. futIO[f].run.to :
       wal' = AppendFull(wal, futIO[f].run, kept)
  /\ prog' = MarkSuspect(prog)
  /\ Unlock
  /\ fut' = [fut EXCEPT ![f] = "sleep"]
  /\ futIO' = [futIO EXCEPT ![f] = NoIO]
  /\ UNCHANGED <<core, walBase, engineAt, pc, gated, applyVars, ghost>>

RecoverProbe(f) ==
  /\ Polled(f) /\ fut[f] = "sleep"
  /\ fut' = [fut EXCEPT ![f] = "rwait"] /\ Enqueue(f)
  /\ UNCHANGED <<core, prog, disk, pc, futIO, gated, applyVars, ghost, bounds>>

RecoverCapture(f) ==
  /\ Polled(f) /\ fut[f] = "rwait"
  /\ Acquire(f)
  /\ DrainForRound
  /\ futIO' = [futIO EXCEPT ![f] =
       [run |-> Image(ver), through |-> ver, round |-> 0, base |-> base]]
  /\ fut' = [fut EXCEPT ![f] = "rio"]
  /\ UNCHANGED <<ver, lastRec, durableIndex, base, snapDirty, owed,
                 pendInstall, disk, pc, gated, applyVars, ghost, bounds>>

RecoverOk(f) ==
  /\ Polled(f) /\ fut[f] = "rio"
  /\ wal' = Intact(futIO[f].run) /\ walBase' = futIO[f].base
  /\ MarkDurable(futIO[f].through)
  /\ prog' = [CompleteAllDrained(prog) EXCEPT !.suspect = FALSE]
  /\ Unlock /\ Finish(f)
  /\ UNCHANGED <<ver, lastRec, pending, base, snapDirty, owed, pendInstall,
                 engineAt, gated, applyVars, ghost, bounds>>

RecoverFull(f) ==
  /\ Polled(f) /\ fut[f] = "rio" /\ DiskFull
  /\ Unlock
  /\ fut' = [fut EXCEPT ![f] = "sleep"]
  /\ futIO' = [futIO EXCEPT ![f] = NoIO]
  /\ UNCHANGED <<core, prog, disk, pc, gated, applyVars, ghost>>

-----------------------------------------------------------------------------
(* The apply task: engine install, engine apply, compaction, in sequence.  *)

\* A pass first writes a received image into the engine.
EngineInstall ==
  /\ Running /\ apply = "idle" /\ pendInstall > 0
  /\ engineAt' = IF pendInstall > engineAt THEN pendInstall ELSE engineAt
  /\ pendInstall' = 0
  /\ UNCHANGED <<ver, lastRec, pending, durableIndex, base, snapDirty, owed,
                 prog, lock, wal, walBase, pc, futVars, gated, applyVars, ghost,
                 bounds>>

\* Committed entries are merged (a follower's need not be durable here).
EngineApply ==
  /\ Running /\ apply = "idle" /\ pendInstall = 0 /\ engineAt < ver
  /\ engineAt' = ver
  /\ UNCHANGED <<core, prog, lock, wal, walBase, pc, futVars, gated, applyVars,
                 ghost, bounds>>

\* The threshold, a peer waiting for an image, or an owed rewrite whose image
\* is in the engine: decided before the wait for wal_lock.
CompactWait ==
  /\ Running /\ apply = "idle"
  /\ base < engineAt \/ (owed /\ pendInstall = 0)
  /\ apply' = "wait" /\ Enqueue("Apply")
  /\ UNCHANGED <<core, prog, disk, pc, futVars, gated, applyIO, ghost, bounds>>

\* snapshot_upto(engine_applied): bounded by what the core itself has applied (a
\* restart may leave it behind the engine), a no-op when the base is past it.
UptoBase ==
  LET upto == IF engineAt < ver THEN engineAt ELSE ver
  IN IF upto > base THEN upto ELSE base

CompactCapture ==
  /\ Running /\ apply = "wait"
  /\ \/ /\ prog.suspect
        /\ AcquireRelease("Apply")
        /\ apply' = "idle"
        /\ UNCHANGED <<core, prog, applyIO>>
     \/ /\ ~prog.suspect /\ UptoBase = base /\ ~snapDirty
        /\ AcquireRelease("Apply")
        /\ apply' = "idle"
        /\ OwedSettled
        /\ UNCHANGED <<ver, lastRec, pending, durableIndex, base, snapDirty,
                       pendInstall, prog, applyIO>>
     \/ /\ ~prog.suspect /\ (UptoBase # base \/ snapDirty)
        /\ Acquire("Apply")
        /\ base' = UptoBase /\ snapDirty' = FALSE /\ OwedSettled
        /\ applyIO' = [run |-> Image(ver), through |-> ver,
                       round |-> DrainRound, base |-> UptoBase]
        /\ DrainForRound
        /\ apply' = "replace"
        /\ UNCHANGED <<ver, lastRec, durableIndex, pendInstall>>
  /\ UNCHANGED <<disk, pc, futVars, gated, ghost, bounds>>

CompactOk ==
  /\ Running /\ apply = "replace"
  /\ wal' = Intact(applyIO.run) /\ walBase' = applyIO.base
  /\ MarkDurable(applyIO.through)
  /\ prog' = CompleteDrain(prog, applyIO.round)
  /\ Unlock
  /\ apply' = "idle" /\ applyIO' = NoIO
  /\ UNCHANGED <<ver, lastRec, pending, base, snapDirty, owed, pendInstall,
                 engineAt, pc, futVars, gated, ghost, bounds>>

\* ENOSPC: `replace' is atomic, but the drained round cannot complete here.
CompactFull ==
  /\ Running /\ apply = "replace" /\ DiskFull
  /\ prog' = MarkSuspect(prog)
  /\ Unlock
  /\ apply' = "idle" /\ applyIO' = NoIO
  /\ UNCHANGED <<core, disk, pc, futVars, gated, ghost>>

-----------------------------------------------------------------------------
\* The batch an append in flight was writing.
InFlight ==
  IF \E f \in Persisters : fut[f] = "io"
    THEN futIO[CHOOSE f \in Persisters : fut[f] = "io"].run
    ELSE EmptyRun

CrashFile(kept) ==
  IF wal.torn \/ IsEmptyRun(InFlight) \/ kept = InFlight.from THEN Repaired(wal)
  ELSE Intact(Concat(wal.run, Run(InFlight.from, kept)))

\* A crash and the restart: the WAL is replayed, the engine keeps its
\* watermark, and a node whose engine is behind the replayed base refuses to
\* start.
Crash ==
  /\ crashes < MaxCrash /\ crashes' = crashes + 1
  /\ \E kept \in InFlight.from .. InFlight.to :
       LET file == CrashFile(kept) IN
         /\ wal' = file
         /\ ver' = Recovered(file) /\ lastRec' = Recovered(file)
         /\ durableIndex' = Recovered(file)
  /\ base' = walBase /\ snapDirty' = FALSE /\ owed' = FALSE /\ pendInstall' = 0
  /\ pending' = EmptyRun
  /\ prog' = NewProgress
  /\ holder' = NoHolder /\ queue' = <<>>
  /\ pc' = "top" /\ gated' = <<>>
  /\ fut' = [f \in Persisters |-> "none"]
  /\ futIO' = [f \in Persisters |-> NoIO]
  /\ apply' = "idle" /\ applyIO' = NoIO
  /\ halted' = (engineAt < walBase)
  /\ UNCHANGED <<walBase, engineAt, vouched, fails, installs, flushes>>

-----------------------------------------------------------------------------
Init ==
  /\ ver = 0 /\ lastRec = 0 /\ pending = EmptyRun /\ durableIndex = 0
  /\ base = 0 /\ snapDirty = FALSE /\ owed = FALSE /\ pendInstall = 0
  /\ engineAt = 0 /\ prog = NewProgress
  /\ holder = NoHolder /\ queue = <<>>
  /\ wal = Intact(EmptyRun) /\ walBase = 0
  /\ pc = "top" /\ gated = <<>>
  /\ fut = [f \in Persisters |-> "none"]
  /\ futIO = [f \in Persisters |-> NoIO]
  /\ apply = "idle" /\ applyIO = NoIO
  /\ vouched = {} /\ halted = FALSE
  /\ fails = 0 /\ crashes = 0 /\ installs = 0 /\ flushes = 0

LoopNext == LoopTop \/ LoopWake \/ LoopShip \/ LoopSettle
PersistNext(f) ==
  \/ PersistCheck(f) \/ PersistDrain(f) \/ PersistOk(f) \/ PersistFull(f)
  \/ RecoverProbe(f) \/ RecoverCapture(f) \/ RecoverOk(f) \/ RecoverFull(f)
ApplyNext ==
  EngineInstall \/ EngineApply \/ CompactWait \/ CompactCapture \/ CompactOk
  \/ CompactFull

Next ==
  \/ Propose \/ StepRecord \/ StepQuiet \/ StepInstall
  \/ LoopNext
  \/ Flush \/ \E f \in Persisters : PersistNext(f)
  \/ ApplyNext
  \/ Crash

Spec == Init /\ [][Next]_vars

\* What a persist future does when its I/O does not fail.
PersistStep(f) ==
  \/ PersistCheck(f) \/ PersistDrain(f) \/ PersistOk(f)
  \/ RecoverProbe(f) \/ RecoverCapture(f) \/ RecoverOk(f)

\* The loop cycles at least once per heartbeat (its timer is always armed) and
\* polls its persist arm first in each select, so a future that can move on
\* infinitely many passes moves; the apply task is polled when it can move,
\* and re-reads install_rewrite_owed on every pass.  ENOSPC is bounded by
\* MaxFull.
Fairness ==
  /\ WF_vars(LoopNext)
  /\ \A f \in Persisters : SF_vars(PersistStep(f))
  /\ WF_vars(EngineInstall) /\ SF_vars(CompactWait)
  /\ WF_vars(CompactCapture) /\ WF_vars(CompactOk)

FairSpec == Spec /\ Fairness
-----------------------------------------------------------------------------
(* Properties.                                                             *)

FutStates == {"none", "wait", "held", "io", "sleep", "rwait", "rio"}
IOs == [run : Runs, through : Nat, round : Nat, base : Nat]

\* Every variable keeps the type of the field it models.
TypeOK ==
  /\ {ver, lastRec, durableIndex, base, pendInstall, engineAt, walBase}
       \subseteq Nat
  /\ {fails, crashes, installs, flushes} \subseteq Nat
  /\ {snapDirty, owed, halted} \subseteq BOOLEAN
  /\ pending \in Runs /\ prog \in Progresses /\ wal \in Files
  /\ holder \in LockUsers \cup {NoHolder} /\ queue \in Seq(LockUsers)
  /\ pc \in {"top", "select", "ship", "settle"}
  /\ gated \in Seq([round : Nat, need : Nat])
  /\ fut \in [Persisters -> FutStates] /\ futIO \in [Persisters -> IOs]
  /\ apply \in {"idle", "wait", "replace"} /\ applyIO \in IOs
  /\ vouched \in SUBSET Nat

\* Whatever a shipped vote grant or append accept vouched for (the records the
\* core had logged) is read back by a restart, although three tasks drain the
\* core, installs hold the file back and writes fail with ENOSPC.
RecordsVouchedSurvive == \A v \in vouched : v <= Recovered(wal)

\* mark_durable_through is only called for what a restart replays.
DurableIndexOnDisk == durableIndex <= Recovered(wal)

\* The file replays positionally: records logged after an install never land
\* behind the pre-install log (check_log_contiguous never refuses the file).
WalReplayable == Replayable(wal)

\* The debug_assert of GatedOuts::push.
GatedInRoundOrder ==
  \A i, j \in 1 .. Len(gated) : i < j => gated[i].round <= gated[j].round

\* "the control plane relies on the WAL never being ahead of its engine": a
\* restart that finds the engine behind the replayed base refuses to start.
WalNeverAheadOfEngine == walBase <= engineAt

\* The WAL is suspect and an installed snapshot owes it a rewrite: the loop
\* starts no round and no compaction touches the file.
Stuck == prog.suspect /\ owed

\* No ack is stranded, but for a node that has not started again or is stuck.
HeldIsReleased == \A v \in 0 .. MaxVer :
  (v \in AllNeeds(gated)) ~> (v \notin AllNeeds(gated) \/ halted \/ Stuck)

\* A suspect WAL is rewritten without a restart once space returns ("Recover a
\* suspect WAL without a restart").
SuspectIsRecovered == prog.suspect ~> ~prog.suspect
=============================================================================
