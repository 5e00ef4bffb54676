------------------------------- MODULE MCSafety -------------------------------
(***************************************************************************)
(* The invariants of three components, model-checked in one run: the       *)
(* control plane's durability driver (ControlWal), the shared WAL of a     *)
(* node (SharedWal) and the commit timestamps of a data-plane group        *)
(* (ReadTs).  They share no state, so a behaviour is a behaviour of the    *)
(* one that `part' names while the others stay where they started, and the *)
(* state graph is the union of the three.                                  *)
(***************************************************************************)
EXTENDS ControlWal, SharedWal, ReadTs, TLC

CONSTANTS n1, n2, n3

VARIABLE part

\* One key, read and written through two of three voters.  The first leader's
\* wall clock is ahead of the other's.
Voters == {n1, n2, n3}
MayLead == {n1, n2}
WallOf == [n \in Voters |-> IF n = n1 THEN 2 ELSE 0]

SafetyInit ==
  part \in {"control", "shared", "ts"} /\ Init /\ SharedInit /\ TsInit

\* Two failures for lack of space, or one and a flush of the control plane.  With
\* both, and a third mutation, WalReplayable is false (README, observations).
ControlBudget == fails + flushes <= 2

ControlStep == /\ part = "control" /\ Next /\ ControlBudget'
               /\ UNCHANGED <<part, sharedVars, tsVars>>
SharedStep == part = "shared" /\ SharedNext /\ UNCHANGED <<part, vars, tsVars>>
TsStep == part = "ts" /\ TsNext /\ UNCHANGED <<part, vars, sharedVars>>

SafetyNext == ControlStep \/ SharedStep \/ TsStep

SafetySpec == SafetyInit /\ [][SafetyNext]_<<part, vars, sharedVars, tsVars>>

-----------------------------------------------------------------------------
(* States that go on alike and satisfy the same invariants need not be     *)
(* told apart.                                                             *)

\* Of what was vouched for only the latest matters.
ControlView == <<core, prog, lock, disk, pc, futVars, gated, applyVars, halted, bounds,
                 {v \in vouched : \A w \in vouched : w <= v}>>

\* Nobody reads the clock of a voter that never leads, and nobody mints once all
\* requests have been made and no read is under way.
Minting == ops < MaxOps \/ \E n \in Node : rd[n] # NoRead
TsView == <<term, leads, log, logBase, committed, committedIn, applied, image, cuts,
            processCrashes,
            IF Minting THEN <<mark, {<<n, hlc[n]>> : n \in Hosts}, lastTs, lastCeil,
                              absorbed, ceiling, cache, rd, served, ops>>
                       ELSE <<>> >>

\* The tablets of the shared WAL are interchangeable.
Symmetry == Permutations(Tablets)

View == <<part, CASE part = "control" -> ControlView
                  [] part = "shared"  -> sharedVars
                  [] part = "ts"      -> TsView>>
=============================================================================
