----------------------------- MODULE MCFairLock -----------------------------
(* Model-checking instance of FairLock: three tasks (the loop, the apply    *)
(* task and the background rewrite of a data-plane WAL).                    *)
EXTENDS FairLock

CONSTANTS loop, apply, rewrite

MCTasks == {loop, apply, rewrite}
=============================================================================
