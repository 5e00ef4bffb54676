-------------------------------- MODULE MCLive --------------------------------
(***************************************************************************)
(* The components whose liveness is checked, in one run: the WAL lock      *)
(* (FairLock, three tasks: the loop, the apply task and the background     *)
(* rewrite), the shared WAL of a node (SharedWal), transaction recovery    *)
(* (Txn) and the control plane's durability driver (ControlWal).  They     *)
(* share no state: a behaviour is a fair behaviour of the one that `part'  *)
(* names while the others stay where they started, and the state graph is  *)
(* the union of the four.                                                  *)
(***************************************************************************)
EXTENDS MCFairLock

CONSTANTS NoTxn, NoVal, Plain

VARIABLES
  part,
  (* SharedWal *)
  onDisk, buf, torn, prior, tails, opQueue, batch, step, full, needs, round, acked,
  swSt, halting, stopped, diskFails, nodeCrashes,
  (* Txn *)
  row, mark, rec, co, wk, late, answer, done, gone, faults, writes, gate,
  (* ControlWal *)
  ver, lastRec, pending, durableIndex, base, snapDirty, owed, pendInstall,
  engineAt, prog, holder, cwQueue, wal, walBase, pc, fut, futIO, gated, cwApply,
  applyIO, vouched, cwHalted, cwFails, cwCrashes, installs, flushes

swVars == <<onDisk, buf, torn, prior, tails, opQueue, batch, step, full, needs, round,
            acked, swSt, halting, stopped, diskFails, nodeCrashes>>
txnVars == <<row, mark, rec, co, wk, late, answer, done, gone, faults, writes, gate>>
cwVars == <<ver, lastRec, pending, durableIndex, base, snapDirty, owed, pendInstall,
            engineAt, prog, holder, cwQueue, wal, walBase, pc, fut, futIO, gated,
            cwApply, applyIO, vouched, cwHalted, cwFails, cwCrashes, installs,
            flushes>>

-----------------------------------------------------------------------------
\* Two tablets, so that the failure of one meets the rounds of the other, and a
\* disk that may do anything when it fails.
SW == INSTANCE SharedWal WITH
  Tablets <- {"A", "B"}, Errors <- {"short", "undone", "compact"},
  MaxRound <- 1, MaxFail <- 1, MaxNodeCrash <- 0, st <- swSt

\* One client writes ka, on the anchor tablet, and kb, which it asks to be
\* absent and which an ordinary write may fill.
T == INSTANCE Txn WITH
  Clients <- {"c1"}, Keys <- {"ka", "kb"}, Tablets <- {"A", "B"},
  TabletOf <- [k \in {"ka", "kb"} |-> IF k = "ka" THEN "A" ELSE "B"],
  AnchorOf <- [c \in {"c1"} |-> "A"],
  Writes <- [c \in {"c1"} |-> {"ka", "kb"}],
  Absent <- [c \in {"c1"} |-> {"kb"}], Pre <- [c \in {"c1"} |-> {}],
  Workers <- {"w1"}, MaxAttempts <- 2,
  Start <- {[calls |-> {"c1"}, gate |-> TRUE, faults |-> 1, writes |-> 1]}

CW == INSTANCE ControlWal WITH
  Preemptive <- FALSE, MaxVer <- 2, MaxGated <- 1, MaxFull <- 1, MaxCrash <- 0,
  MaxInstall <- 1, MaxFlush <- 0,
  queue <- cwQueue, apply <- cwApply, halted <- cwHalted, fails <- cwFails,
  crashes <- cwCrashes

-----------------------------------------------------------------------------
LiveInit ==
  /\ part \in {"lock", "shared", "txn", "control"}
  /\ Init /\ SW!SharedInit /\ T!Init /\ CW!Init

LockStep == part = "lock" /\ Next /\ UNCHANGED <<part, swVars, txnVars, cwVars>>
SharedStep == part = "shared" /\ SW!SharedNext
              /\ UNCHANGED <<part, vars, txnVars, cwVars>>
TxnStep == part = "txn" /\ T!Next /\ UNCHANGED <<part, vars, swVars, cwVars>>
ControlStep == part = "control" /\ CW!Next /\ UNCHANGED <<part, vars, swVars, txnVars>>

LiveNext == LockStep \/ SharedStep \/ TxnStep \/ ControlStep

\* The consensus loop cycles from the start, so ControlWal's Fairness is asked of
\* its own behaviours only; nothing the other parts are fair to is enabled before
\* their first step.
ControlOn == part = "control"
ControlFairness ==
  /\ WF_cwVars(ControlOn /\ CW!LoopNext)
  /\ \A f \in {"Loop", "Flush"} : SF_cwVars(ControlOn /\ CW!PersistStep(f))
  /\ WF_cwVars(ControlOn /\ CW!EngineInstall) /\ SF_cwVars(ControlOn /\ CW!CompactWait)
  /\ WF_cwVars(ControlOn /\ CW!CompactCapture) /\ WF_cwVars(ControlOn /\ CW!CompactOk)

LiveSpec ==
  /\ LiveInit /\ [][LiveNext]_<<part, vars, swVars, txnVars, cwVars>>
  /\ Fairness /\ SW!SharedFairness /\ T!Fairness /\ ControlFairness

-----------------------------------------------------------------------------
(* Properties (the safety of FairLock under its own names).  Each speaks of *)
(* the behaviours of its own component.                                    *)

\* Every task that waits for the WAL lock gets it, although a waiter that was
\* handed the lock may be cancelled (FairMutex::release, LockFuture::drop).
LockServed == part = "lock" => WaiterServed

\* Every caller whose operation is in the queue of the shared WAL is answered,
\* whoever leads the queue and whatever fails (drive).
CallerAnswered == part = "shared" => SW!CallerAnswered

\* A tablet whose shared-WAL write failed for lack of space gets the file
\* rewritten (recover_kv_wal, compact_group).
SuspectIsRewritten == part = "shared" => SW!SuspectIsRewritten

\* A transaction in doubt is decided although its coordinator may have stopped
\* anywhere (txn_resolver_pending_pass).
InDoubtIsDecided == part = "txn" => T!InDoubtIsDecided

\* The intents of a committed transaction become values although its coordinator
\* may have stopped after the decision (txn_resolver_decided_pass).
CommittedIsResolved == part = "txn" => T!CommittedIsResolved

\* The control plane strands no ack: what the loop holds is shipped, unless the
\* node refused to start or its suspect WAL is stuck behind an owed rewrite.
HeldIsReleased == part = "control" => CW!HeldIsReleased
=============================================================================
