--------------------------- MODULE DataWalProofs ----------------------------
(***************************************************************************)
(* What the data-plane driver vouches for survives a restart, for every    *)
(* number of mutations, held batches, full disks and crashes, when its     *)
(* tasks share one executor (~Preemptive).                                 *)
(***************************************************************************)
EXTENDS DataWal, WalFacts

\* The lock is held exactly over the three critical sections; nobody takes it
\* between a failed early append and the mark.
LockHeld ==
  /\ holder = "Loop" <=> own \in {"io", "rio"}
  /\ holder = "Compact" <=> comp = "early"
  /\ holder = "Rewrite" <=> rw = "swap"
  /\ comp = "mark" => holder = Nobody

\* A rewrite whose image is captured and not yet swapped in or abandoned.
Rewriting == comp = "claim" \/ rw \in {"stage", "wait", "extend", "swap"}

\* The mutation the file would end at if the rewrite were swapped in with all
\* the tail has recorded so far.
StagedTo == IF comp = "claim" \/ rw = "stage" THEN compIO.through ELSE staged.to
TakenTo == IF IsEmptyRun(rwDelta) THEN StagedTo ELSE rwDelta.to
SwapTo == IF IsEmptyRun(tail.run) THEN TakenTo ELSE tail.run.to

\* The mutations up to here are read back by a restart, now and after the
\* pending swap.
SafeTo == IF Rewriting /\ SwapTo < Recovered(wal) THEN SwapTo ELSE Recovered(wal)

\* One compaction at a time, and none while the suspect file is rewritten.
OneRewrite ==
  /\ comp = "idle" \/ rw = "idle"
  /\ rw \notin {"extend", "swap"} => rwDelta = EmptyRun
  /\ rw = "swap" => tail.run = EmptyRun
  /\ own = "rio" => ~Rewriting

\* The live file is a contiguous log of drained mutations; unless it is suspect
\* it is whole, and ends where the last drain ended but for a batch in flight.
FileInv ==
  /\ wal.run.from = 0 /\ wal.run.ok
  /\ wal.run.to <= drainedTo /\ drainedTo <= ver
  /\ ~prog.suspect /\ comp # "mark" => ~wal.torn
  /\ ~prog.suspect /\ comp \notin {"early", "mark"} /\ own # "io"
       => wal.run.to = drainedTo

\* The batch or image in the loop's hands ends at the last drain.
OwnInv ==
  /\ own \in {"sleep", "rwait", "rio"} => prog.suspect
  /\ own = "io" =>
       /\ ~prog.suspect
       /\ ownIO.run.from = wal.run.to /\ ownIO.run.from < ownIO.run.to
       /\ ownIO.round = prog.drained
  /\ own = "rio" => ownIO.run.from = 0
  /\ own \in {"io", "rio"} =>
       ownIO.run.ok /\ ownIO.run.to = drainedTo /\ ownIO.through = drainedTo

\* So does the compaction's; once appended, it is covered.
CompInv ==
  /\ comp = "early" =>
       /\ ~prog.suspect
       /\ compIO.run.ok /\ compIO.run.from = wal.run.to
       /\ compIO.run.to = drainedTo /\ compIO.through = drainedTo
       /\ \/ compIO.round = 0 /\ compIO.run.from = compIO.run.to
          \/ /\ compIO.round = prog.drained /\ compIO.round # 0
             /\ compIO.run.from < compIO.run.to
  /\ comp = "claim" => compIO.round <= prog.durable /\ compIO.through <= SafeTo

\* Image, extension and tail meet, and unless the live file is suspect they end
\* where it ends.
TailFollows ==
  Rewriting =>
    /\ tail.active
    /\ rw \in {"wait", "extend", "swap"} => staged.from = 0 /\ staged.ok
    /\ rwDelta.ok /\ rwDelta.from <= rwDelta.to
    /\ tail.run.ok /\ tail.run.from <= tail.run.to
    /\ IsEmptyRun(rwDelta) \/ rwDelta.from = StagedTo
    /\ IsEmptyRun(tail.run) \/ tail.run.from = TakenTo
    /\ SwapTo <= drainedTo
    /\ ~prog.suspect => SwapTo = wal.run.to

\* What was claimed is safe, and so is what a landed round covers.
Claims ==
  /\ \A v \in vouched : v <= SafeTo
  /\ durableIndex <= SafeTo
  /\ prog.durable <= prog.drained
  /\ prog.durable = prog.drained => drainedTo <= SafeTo

\* A held batch waits for a round that covers all it needs.
HeldFor(g) ==
  /\ g.need <= ver
  /\ g.round <= prog.drained + 1
  /\ g.round > prog.drained => Dirty
  /\ g.round <= prog.drained => g.need <= drainedTo
  /\ g.round <= prog.durable => g.need <= SafeTo

HeldInv ==
  /\ \A i \in 1 .. Len(gated) : HeldFor(gated[i])
  /\ GatedInRoundOrder

IInv ==
  /\ TypeOK /\ LockHeld /\ OneRewrite /\ FileInv /\ OwnInv /\ CompInv
  /\ TailFollows /\ Claims /\ HeldInv
-----------------------------------------------------------------------------
(* What a drain and the lock's queue do.                                   *)

\* A drain takes all mutations, and is a round if there were any.
LEMMA DrainFacts ==
  ASSUME TypeOK, DrainForRound
  PROVE  /\ drainedTo' = ver /\ prog' \in Progresses
         /\ prog'.durable = prog.durable /\ prog'.suspect = prog.suspect
         /\ Dirty => prog'.drained = prog.drained + 1
         /\ ~Dirty => prog'.drained = prog.drained
<1>1. prog \in Progresses  BY DEF TypeOK
<1>2. CASE Dirty
  <2>1. prog' = [prog EXCEPT !.drained = @ + 1]
    BY <1>2 DEF DrainForRound, BeginDrain
  <2>2. /\ prog' \in Progresses /\ prog'.drained = prog.drained + 1
        /\ prog'.durable = prog.durable /\ prog'.suspect = prog.suspect
    BY <1>1, <2>1 DEF Progresses
  <2> QED  BY <1>2, <2>2 DEF DrainForRound
<1>3. CASE ~Dirty
  <2>1. prog' = prog  BY <1>3 DEF DrainForRound, BeginDrain
  <2> QED  BY <1>1, <1>3, <2>1 DEF DrainForRound
<1> QED  BY <1>2, <1>3

\* The lock's queue stays a sequence of tasks.
LEMMA QueueFacts ==
  ASSUME NEW q \in Seq(Tasks)
  PROVE  /\ \A t \in Tasks : Append(q, t) \in Seq(Tasks)
         /\ q # <<>> => Tail(q) \in Seq(Tasks)
OBVIOUS

-----------------------------------------------------------------------------
(* The held batches, for the steps that do not touch them.                 *)

\* Their fields are numbers.
LEMMA HeldTypes ==
  TypeOK => \A i \in 1 .. Len(gated) :
              gated[i].need \in Nat /\ gated[i].round \in Nat
<1> SUFFICES ASSUME TypeOK, NEW i \in 1 .. Len(gated)
             PROVE  gated[i].need \in Nat /\ gated[i].round \in Nat
  OBVIOUS
<1> DEFINE S == [round : Nat, need : Nat]
<1>1. gated \in Seq(S)  BY DEF TypeOK
<1> HIDE DEF S
<1>2. gated[i] \in S  BY <1>1
<1> QED  BY <1>2 DEF S

\* Rounds land and mutations are made, nothing is drained.
LEMMA HeldKept ==
  ASSUME TypeOK, TypeOK', HeldInv, gated' = gated, ver <= ver',
         drainedTo' = drainedTo, prog'.drained = prog.drained,
         SafeTo \in Nat, SafeTo' \in Nat, SafeTo <= SafeTo',
         \/ prog'.durable = prog.durable
         \/ prog'.durable <= prog.drained /\ drainedTo <= SafeTo'
  PROVE  HeldInv'
<1>1. GatedInRoundOrder'
  BY DEF HeldInv, GatedInRoundOrder
<1>2. /\ ver \in Nat /\ ver' \in Nat /\ drainedTo \in Nat
      /\ prog.drained \in Nat /\ prog.durable \in Nat /\ prog'.durable \in Nat
  BY DEF TypeOK, Progresses
<1>3. ASSUME NEW i \in 1 .. Len(gated')
      PROVE  HeldFor(gated[i])'
  <2>1. /\ gated[i].need \in Nat /\ gated[i].round \in Nat /\ HeldFor(gated[i])
    BY HeldTypes DEF HeldInv
  <2> QED  BY <1>2, <2>1 DEF HeldFor, Dirty
<1> QED  BY <1>1, <1>3 DEF HeldInv

\* A drain covers what the next round was to cover.
LEMMA HeldDrain ==
  ASSUME TypeOK, TypeOK', HeldInv, gated' = gated, ver' = ver, drainedTo <= ver,
         DrainForRound, SafeTo \in Nat, SafeTo' \in Nat, SafeTo <= SafeTo'
  PROVE  HeldInv'
<1>1. GatedInRoundOrder'
  BY DEF HeldInv, GatedInRoundOrder
<1>2. /\ ver \in Nat /\ drainedTo \in Nat
      /\ prog.drained \in Nat /\ prog.durable \in Nat
  BY DEF TypeOK, Progresses
<1>3. ASSUME NEW i \in 1 .. Len(gated')
      PROVE  HeldFor(gated[i])'
  <2>1. /\ gated[i].need \in Nat /\ gated[i].round \in Nat /\ HeldFor(gated[i])
    BY HeldTypes DEF HeldInv
  <2> QED  BY <1>2, <2>1, DrainFacts DEF HeldFor, Dirty
<1> QED  BY <1>1, <1>3 DEF HeldInv

\* Where the file and the pending swap end are numbers.
LEMMA SafeType == TypeOK => SafeTo \in Nat
BY DEF TypeOK, SafeTo, SwapTo, TakenTo, StagedTo, Recovered, Files, Runs, IOs

\* The same after a step.
LEMMA SafeTypeNext == TypeOK' => SafeTo' \in Nat
BY DEF TypeOK, SafeTo, SwapTo, TakenTo, StagedTo, Recovered, Files, Runs, IOs

\* The numbers in the records.
Numbers ==
  /\ ver \in Nat /\ drainedTo \in Nat /\ durableIndex \in Nat
  /\ prog.drained \in Nat /\ prog.durable \in Nat /\ prog.suspect \in BOOLEAN
  /\ wal.run.from \in Nat /\ wal.run.to \in Nat
  /\ ownIO.run.from \in Nat /\ ownIO.run.to \in Nat
  /\ ownIO.through \in Nat /\ ownIO.round \in Nat
  /\ compIO.run.from \in Nat /\ compIO.run.to \in Nat
  /\ compIO.through \in Nat /\ compIO.round \in Nat
  /\ staged.from \in Nat /\ staged.to \in Nat
  /\ rwDelta.from \in Nat /\ rwDelta.to \in Nat
  /\ tail.run.from \in Nat /\ tail.run.to \in Nat

\* They are numbers.
LEMMA NumbersType == TypeOK => Numbers
BY DEF TypeOK, Numbers, Progresses, Files, Runs, IOs

\* What was claimed stays safe while the safe prefix grows.
LEMMA ClaimsKept ==
  ASSUME TypeOK, TypeOK', Claims, vouched' = vouched, drainedTo' = drainedTo,
         prog'.drained = prog.drained,
         SafeTo \in Nat, SafeTo' \in Nat, SafeTo <= SafeTo',
         durableIndex' = durableIndex \/ durableIndex' <= SafeTo',
         \/ prog'.durable = prog.durable
         \/ prog'.durable <= prog.drained /\ drainedTo <= SafeTo'
  PROVE  Claims'
<1>1. /\ drainedTo \in Nat /\ durableIndex \in Nat /\ vouched \subseteq Nat
      /\ prog.drained \in Nat /\ prog.durable \in Nat
  BY DEF TypeOK, Progresses
<1> QED  BY <1>1 DEF Claims

\* The loop's batch meets the file it is appended to.
LEMMA BatchAppended ==
  ASSUME IInv, own = "io"
  PROVE  LET f == AppendSync(wal, ownIO.run) IN
         /\ f \in Files /\ ~f.torn /\ f.run.ok /\ f.run.from = 0
         /\ f.run.to = drainedTo
         /\ \A k \in ownIO.run.from .. ownIO.run.to :
              LET g == AppendFull(wal, ownIO.run, k) IN
              /\ g \in Files /\ g.run.ok /\ g.run.from = 0 /\ g.run.to = k
              /\ k \in Nat /\ wal.run.to <= k /\ k <= drainedTo
<1>1. holder = "Loop" /\ comp # "mark"
  BY DEF IInv, LockHeld, Nobody
<1>2. wal \in Files /\ ownIO.run \in Runs
  BY DEF IInv, TypeOK, IOs
<1>3. /\ ~wal.torn /\ wal.run.ok /\ wal.run.from = 0
      /\ ownIO.run.ok /\ ownIO.run.from = wal.run.to
      /\ ownIO.run.from < ownIO.run.to /\ ownIO.run.to = drainedTo
  BY <1>1 DEF IInv, FileInv, OwnInv
<1>4. wal.run.to \in Nat /\ ownIO.run.from \in Nat /\ ownIO.run.to \in Nat
  BY NumbersType DEF IInv, Numbers
<1> QED  BY <1>2, <1>3, <1>4, AppendFacts

\* So does the compaction's.
LEMMA EarlyAppended ==
  ASSUME IInv, comp = "early"
  PROVE  LET f == AppendSync(wal, compIO.run) IN
         /\ f \in Files /\ ~f.torn /\ f.run.ok /\ f.run.from = 0
         /\ f.run.to = drainedTo
         /\ \A k \in compIO.run.from .. compIO.run.to :
              LET g == AppendFull(wal, compIO.run, k) IN
              /\ g \in Files /\ g.run.ok /\ g.run.from = 0 /\ g.run.to = k
              /\ k \in Nat /\ wal.run.to <= k /\ k <= drainedTo
<1>1. /\ wal \in Files /\ ~wal.torn /\ wal.run.ok /\ wal.run.from = 0
      /\ compIO.run \in Runs /\ compIO.run.ok /\ compIO.run.from = wal.run.to
      /\ compIO.run.from <= compIO.run.to /\ compIO.run.to = drainedTo
      /\ compIO.run.from \in Nat /\ compIO.run.to \in Nat
      /\ wal.run.to \in Nat
  BY DEF IInv, TypeOK, IOs, Files, Runs, FileInv, CompInv
<1> QED  BY <1>1, AppendFacts

\* SafeTo is the smaller of the two ends.
LEMMA SafeBounds ==
  ASSUME IInv
  PROVE  /\ SafeTo \in Nat /\ SwapTo \in Nat /\ SafeTo <= wal.run.to
         /\ Rewriting => SafeTo <= SwapTo
<1>1. SafeTo \in Nat /\ SwapTo \in Nat /\ wal.run.to \in Nat
  BY NumbersType DEF IInv, Numbers, SafeTo, SwapTo, TakenTo, StagedTo, Recovered
<1> QED  BY <1>1 DEF SafeTo, Recovered

\* A drain claims nothing: what it takes was not durable before it.
LEMMA ClaimsDrain ==
  ASSUME TypeOK, TypeOK', Claims, DrainForRound, drainedTo <= ver,
         UNCHANGED <<vouched, durableIndex>>,
         SafeTo \in Nat, SafeTo' \in Nat, SafeTo <= SafeTo'
  PROVE  Claims'
<1>1. /\ ver \in Nat /\ drainedTo \in Nat /\ durableIndex \in Nat
      /\ vouched \subseteq Nat /\ prog.drained \in Nat /\ prog.durable \in Nat
  BY DEF TypeOK, Progresses
<1> QED  BY <1>1, DrainFacts DEF Claims, Dirty

\* A step that ships nothing, drains nothing and leaves the file and the pending
\* swap alone keeps every claim.
LEMMA QuietStep ==
  ASSUME IInv, TypeOK', SafeTo' = SafeTo, ver <= ver',
         UNCHANGED <<drainedTo, durableIndex, prog, wal, gated, compIO, vouched>>,
         comp' = comp \/ comp' \notin {"early", "claim"}
  PROVE  CompInv' /\ Claims' /\ HeldInv'
<1>1. SafeTo \in Nat /\ SafeTo' \in Nat /\ SafeTo <= SafeTo'
  BY SafeType DEF IInv
<1>2. CompInv'
  BY DEF IInv, CompInv
<1>3. Claims' /\ HeldInv'
  BY <1>1, ClaimsKept, HeldKept DEF IInv
<1> QED  BY <1>2, <1>3

-----------------------------------------------------------------------------
(* One lemma per action; first those that claim nothing.                   *)

\* A proposal adds a mutation.
LEMMA ProposeInv ==
  ASSUME IInv, ~Preemptive, Propose
  PROVE  IInv'
<1> USE DEF IInv
<1>1. TypeOK'
  BY DEF TypeOK, Propose, lock, disk, loopVars, compVars, rwVars, ghost, bounds
<1>2. LockHeld' /\ OneRewrite'
  BY DEF LockHeld, OneRewrite, Rewriting, Propose, lock, loopVars, compVars,
     rwVars
<1>3. FileInv' /\ OwnInv' /\ TailFollows'
  BY DEF FileInv, OwnInv, TailFollows, Rewriting, SwapTo, TakenTo, StagedTo,
     TypeOK, Propose, disk, loopVars, compVars, rwVars
<1>4. SafeTo' = SafeTo
  BY DEF SafeTo, SwapTo, TakenTo, StagedTo, Rewriting, Propose, disk, compVars,
     rwVars
<1>5. /\ UNCHANGED <<drainedTo, durableIndex, prog, wal, gated, compIO, vouched>>
      /\ ver <= ver' /\ (comp' = comp \/ comp' \notin {"early", "claim"})
  BY NumbersType DEF Numbers, Propose, disk, loopVars, compVars, ghost
<1> QED  BY <1>1, <1>2, <1>3, <1>4, <1>5, QuietStep

\* The loop queues for the lock.
LEMMA LoopTopInv ==
  ASSUME IInv, ~Preemptive, LoopTop
  PROVE  IInv'
<1> USE DEF IInv
<1>1. TypeOK'
  BY QueueFacts DEF TypeOK, OwnStates, Tasks, LoopTop, Enqueue, core, lock,
     disk, compVars, rwVars, ghost, bounds
<1>2. LockHeld' /\ OneRewrite'
  BY DEF LockHeld, OneRewrite, Rewriting, LoopTop, RoundWanted, Enqueue, lock,
     compVars, rwVars
<1>3. FileInv' /\ OwnInv' /\ TailFollows'
  BY DEF FileInv, OwnInv, TailFollows, Rewriting, SwapTo, TakenTo, StagedTo,
     LoopTop, RoundWanted, core, disk, compVars, rwVars
<1>4. SafeTo' = SafeTo
  BY DEF SafeTo, SwapTo, TakenTo, StagedTo, Rewriting, LoopTop, disk, compVars,
     rwVars
<1>5. /\ UNCHANGED <<drainedTo, durableIndex, prog, wal, gated, compIO, vouched>>
      /\ ver <= ver' /\ (comp' = comp \/ comp' \notin {"early", "claim"})
  BY NumbersType DEF Numbers, LoopTop, core, disk, compVars, ghost
<1> QED  BY <1>1, <1>2, <1>3, <1>4, <1>5, QuietStep

\* The loop goes on to ship.
LEMMA LoopWakeInv ==
  ASSUME IInv, ~Preemptive, LoopWake
  PROVE  IInv'
<1> USE DEF IInv
<1>1. TypeOK'
  BY DEF TypeOK, LoopWake, core, lock, disk, compVars, rwVars, ghost, bounds
<1>2. LockHeld' /\ OneRewrite'
  BY DEF LockHeld, OneRewrite, Rewriting, LoopWake, lock, compVars, rwVars
<1>3. FileInv' /\ OwnInv' /\ TailFollows'
  BY DEF FileInv, OwnInv, TailFollows, Rewriting, SwapTo, TakenTo, StagedTo,
     LoopWake, core, disk, compVars, rwVars
<1>4. SafeTo' = SafeTo
  BY DEF SafeTo, SwapTo, TakenTo, StagedTo, Rewriting, LoopWake, disk, compVars,
     rwVars
<1>5. /\ UNCHANGED <<drainedTo, durableIndex, prog, wal, gated, compIO, vouched>>
      /\ ver <= ver' /\ (comp' = comp \/ comp' \notin {"early", "claim"})
  BY NumbersType DEF Numbers, LoopWake, core, disk, compVars, ghost
<1> QED  BY <1>1, <1>2, <1>3, <1>4, <1>5, QuietStep

\* The recovery queues for the lock.
LEMMA RecoverProbeInv ==
  ASSUME IInv, ~Preemptive, RecoverProbe
  PROVE  IInv'
<1> USE DEF IInv
<1>1. TypeOK'
  BY QueueFacts DEF TypeOK, OwnStates, Tasks, RecoverProbe, Enqueue, core, disk,
     compVars, rwVars, ghost, bounds
<1>2. LockHeld' /\ OneRewrite'
  BY DEF LockHeld, OneRewrite, RecoverProbe, Enqueue, compVars, rwVars
<1>3. FileInv' /\ OwnInv' /\ TailFollows'
  BY DEF FileInv, OwnInv, TailFollows, Rewriting, SwapTo, TakenTo, StagedTo,
     RecoverProbe, core, disk, compVars, rwVars
<1>4. SafeTo' = SafeTo
  BY DEF SafeTo, SwapTo, TakenTo, StagedTo, Rewriting, RecoverProbe, disk,
     compVars, rwVars
<1>5. /\ UNCHANGED <<drainedTo, durableIndex, prog, wal, gated, compIO, vouched>>
      /\ ver <= ver' /\ (comp' = comp \/ comp' \notin {"early", "claim"})
  BY NumbersType DEF Numbers, RecoverProbe, core, disk, compVars, ghost
<1> QED  BY <1>1, <1>2, <1>3, <1>4, <1>5, QuietStep

\* A failed recovery leaves the live file alone.
LEMMA RecoverFullInv ==
  ASSUME IInv, ~Preemptive, RecoverFull
  PROVE  IInv'
<1> USE DEF IInv
<1>1. TypeOK'
  BY DEF TypeOK, OwnStates, IOs, EmptyRun, Run, Runs, RecoverFull, Unlock, NoIO,
     DiskFull, core, compVars, rwVars, ghost
<1>2. LockHeld' /\ OneRewrite'
  BY DEF LockHeld, OneRewrite, Nobody, RecoverFull, Unlock, compVars, rwVars
<1>3. FileInv' /\ OwnInv' /\ TailFollows'
  BY DEF FileInv, OwnInv, TailFollows, Rewriting, SwapTo, TakenTo, StagedTo,
     RecoverFull, core, compVars, rwVars
<1>4. SafeTo' = SafeTo
  BY DEF SafeTo, SwapTo, TakenTo, StagedTo, Rewriting, RecoverFull, compVars,
     rwVars
<1>5. /\ UNCHANGED <<drainedTo, durableIndex, prog, wal, gated, compIO, vouched>>
      /\ ver <= ver' /\ (comp' = comp \/ comp' \notin {"early", "claim"})
  BY NumbersType DEF Numbers, RecoverFull, core, compVars, ghost
<1> QED  BY <1>1, <1>2, <1>3, <1>4, <1>5, QuietStep

\* So does one that lost its temporary file.
LEMMA RecoverPanicInv ==
  ASSUME IInv, ~Preemptive, RecoverPanic
  PROVE  IInv'
<1> USE DEF IInv
<1>1. TypeOK'
  BY DEF TypeOK, RecoverPanic, core, lock, disk, loopVars, compVars, rwVars,
     bounds
<1>2. LockHeld' /\ OneRewrite'
  BY DEF LockHeld, OneRewrite, Rewriting, RecoverPanic, lock, loopVars,
     compVars, rwVars
<1>3. FileInv' /\ OwnInv' /\ TailFollows'
  BY DEF FileInv, OwnInv, TailFollows, Rewriting, SwapTo, TakenTo, StagedTo,
     RecoverPanic, core, disk, loopVars, compVars, rwVars
<1>4. SafeTo' = SafeTo
  BY DEF SafeTo, SwapTo, TakenTo, StagedTo, Rewriting, RecoverPanic, disk,
     compVars, rwVars
<1>5. /\ UNCHANGED <<drainedTo, durableIndex, prog, wal, gated, compIO, vouched>>
      /\ ver <= ver' /\ (comp' = comp \/ comp' \notin {"early", "claim"})
  BY NumbersType DEF Numbers, RecoverPanic, core, disk, loopVars, compVars
<1> QED  BY <1>1, <1>2, <1>3, <1>4, <1>5, QuietStep

\* The compaction queues for the lock.
LEMMA CompactWaitInv ==
  ASSUME IInv, ~Preemptive, CompactWait
  PROVE  IInv'
<1> USE DEF IInv
<1>1. TypeOK'
  BY QueueFacts DEF TypeOK, CompStates, Tasks, CompactWait, Enqueue, core, disk,
     loopVars, rwVars, ghost, bounds
<1>2. LockHeld' /\ OneRewrite'
  BY DEF LockHeld, OneRewrite, Rewriting, CompactWait, Enqueue, loopVars, rwVars
<1>3. FileInv' /\ OwnInv' /\ TailFollows'
  BY DEF FileInv, OwnInv, TailFollows, Rewriting, CompactWait, core, disk,
     loopVars, rwVars
<1>4. SafeTo' = SafeTo
  BY DEF SafeTo, Rewriting, CompactWait, disk, rwVars
<1>5. /\ UNCHANGED <<drainedTo, durableIndex, prog, wal, gated, compIO, vouched>>
      /\ ver <= ver' /\ (comp' = comp \/ comp' \notin {"early", "claim"})
  BY NumbersType DEF Numbers, CompactWait, core, disk, loopVars, ghost
<1> QED  BY <1>1, <1>2, <1>3, <1>4, <1>5, QuietStep

\* The tail of a rewrite that is over is dropped.
LEMMA TailEndInv ==
  ASSUME IInv, ~Preemptive, TailEnd
  PROVE  IInv'
<1> USE DEF IInv
<1>1. TypeOK'
  BY DEF TypeOK, RwStates, EmptyRun, Run, Runs, TailEnd, core, lock, disk,
     loopVars, compVars, ghost, bounds
<1>2. LockHeld' /\ OneRewrite'
  BY DEF LockHeld, OneRewrite, Rewriting, TailEnd, lock, loopVars, compVars
<1>3. FileInv' /\ OwnInv' /\ TailFollows'
  BY DEF OneRewrite, FileInv, OwnInv, TailFollows, Rewriting, TailEnd, core,
     disk, loopVars, compVars
<1>4. SafeTo' = SafeTo
  BY DEF OneRewrite, SafeTo, Rewriting, TailEnd, disk, compVars
<1>5. /\ UNCHANGED <<drainedTo, durableIndex, prog, wal, gated, compIO, vouched>>
      /\ ver <= ver' /\ (comp' = comp \/ comp' \notin {"early", "claim"})
  BY NumbersType DEF Numbers, TailEnd, core, disk, loopVars, compVars, ghost
<1> QED  BY <1>1, <1>2, <1>3, <1>4, <1>5, QuietStep

\* The staging file of a failed rewrite is dropped.
LEMMA DiscardStagedInv ==
  ASSUME IInv, ~Preemptive, DiscardStaged
  PROVE  IInv'
<1> USE DEF IInv
<1>1. TypeOK'
  BY DEF TypeOK, RwStates, EmptyRun, Run, Runs, DiscardStaged, core, lock,
     loopVars, compVars, ghost, bounds
<1>2. LockHeld' /\ OneRewrite'
  BY DEF LockHeld, OneRewrite, Rewriting, DiscardStaged, lock, loopVars,
     compVars
<1>3. FileInv' /\ OwnInv' /\ TailFollows'
  BY DEF FileInv, OwnInv, TailFollows, Rewriting, SwapTo, TakenTo, StagedTo,
     DiscardStaged, core, loopVars, compVars
<1>4. SafeTo' = SafeTo
  BY DEF SafeTo, SwapTo, TakenTo, StagedTo, Rewriting, DiscardStaged, compVars
<1>5. /\ UNCHANGED <<drainedTo, durableIndex, prog, wal, gated, compIO, vouched>>
      /\ ver <= ver' /\ (comp' = comp \/ comp' \notin {"early", "claim"})
  BY NumbersType DEF Numbers, DiscardStaged, core, loopVars, compVars, ghost
<1> QED  BY <1>1, <1>2, <1>3, <1>4, <1>5, QuietStep

\* The loop takes its turn at the lock, and drains if the file is in order.
LEMMA PersistStartInv ==
  ASSUME IInv, ~Preemptive, PersistStart
  PROVE  IInv'
<1> USE DEF IInv
<1>1. /\ own = "wait" /\ holder = Nobody /\ queue' \in Seq(Tasks)
      /\ comp \notin {"early", "mark"} /\ rw # "swap"
      /\ UNCHANGED <<ver, durableIndex, base, tail, wal, tmp, staged, rwDelta,
                     passes, comp, compIO, rw, gated, vouched, panicked, fails,
                     crashes>>
  BY QueueFacts DEF TypeOK, LockHeld, PersistStart, Polled, Running, Acquire,
     AcquireRelease, core, disk, compVars, rwVars, ghost, bounds, Nobody,
     RoundDone
<1>2. /\ Rewriting' <=> Rewriting
      /\ StagedTo' = StagedTo /\ TakenTo' = TakenTo /\ SwapTo' = SwapTo
      /\ SafeTo' = SafeTo /\ SafeTo \in Nat /\ SafeTo' \in Nat
      /\ SafeTo <= SafeTo'
  BY <1>1, SafeType DEF Rewriting, StagedTo, TakenTo, SwapTo, SafeTo
<1>3. CASE /\ prog' = prog /\ drainedTo' = drainedTo /\ holder' = Nobody
           /\ own' \in {"sleep", "none"} /\ (own' = "sleep" => prog.suspect)
           /\ ownIO' \in IOs /\ pc' \in {"select", "ship"}
  <2>1. TypeOK'
    BY <1>1, <1>3 DEF TypeOK, OwnStates
  <2>2. LockHeld' /\ OneRewrite'
    BY <1>1, <1>2, <1>3 DEF LockHeld, OneRewrite, Nobody
  <2>3. FileInv' /\ OwnInv' /\ TailFollows'
    BY <1>1, <1>2, <1>3 DEF FileInv, OwnInv, TailFollows
  <2>4. ver <= ver'
    BY <1>1, NumbersType DEF Numbers
  <2> QED  BY <1>1, <1>2, <1>3, <2>1, <2>2, <2>3, <2>4, QuietStep
<1>4. CASE /\ ~prog.suspect /\ Dirty /\ ownIO' = DrainIO /\ DrainForRound
           /\ own' = "io" /\ holder' = "Loop" /\ pc' = pc
  <2>1. /\ drainedTo' = ver /\ prog' \in Progresses /\ prog'.suspect = FALSE
        /\ prog'.durable = prog.durable /\ prog'.drained = prog.drained + 1
        /\ ~prog.suspect
    BY <1>4, DrainFacts DEF TypeOK, Progresses
  <2>2. /\ ownIO'.run = Run(drainedTo, ver) /\ ownIO'.through = ver
        /\ ownIO'.round = prog.drained + 1 /\ drainedTo < ver
        /\ ver \in Nat /\ drainedTo \in Nat /\ prog.drained \in Nat
        /\ ownIO' \in IOs
    BY <1>4, NumbersType DEF Numbers, DrainIO, Dirty, IOs, Runs, Run
  <2>3. TypeOK'
    BY <1>1, <1>4, <2>1, <2>2 DEF TypeOK, OwnStates, Tasks
  <2>4. LockHeld' /\ OneRewrite'
    BY <1>1, <1>2, <1>4 DEF LockHeld, OneRewrite, Nobody
  <2>5. FileInv' /\ OwnInv'
    <3>1. wal.run.to = drainedTo /\ wal.run.from = 0 /\ wal.run.ok /\ ~wal.torn
      BY <1>1, <1>4 DEF FileInv
    <3>2. /\ ownIO'.run.from = drainedTo /\ ownIO'.run.to = ver
          /\ ownIO'.run.ok
      BY <2>2 DEF Run
    <3>3. FileInv'
      BY <1>1, <1>4, <2>1, <2>2, <3>1 DEF FileInv
    <3>4. OwnInv'
      BY <1>1, <1>4, <2>1, <2>2, <3>1, <3>2 DEF OwnInv
    <3> QED  BY <3>3, <3>4
  <2>6. TailFollows'
    BY <1>1, <1>2, <2>1, <2>2, NumbersType, SafeBounds DEF Numbers, TailFollows
  <2>7. CompInv'
    BY <1>1, <1>2, <2>1 DEF CompInv
  <2>8. drainedTo <= ver
    BY <2>2
  <2>9. Claims' /\ HeldInv'
    BY <1>1, <1>2, <1>4, <2>3, <2>8, ClaimsDrain, HeldDrain
  <2> QED  BY <2>3, <2>4, <2>5, <2>6, <2>7, <2>9
<1>5. NoIO \in IOs /\ ownIO \in IOs /\ pc = "select"
  BY DEF PersistStart, Polled, NoIO, IOs, EmptyRun, Run, Runs, TypeOK
<1>6. CASE prog.suspect /\ AcquireRelease("Loop") /\ own' = "sleep"
             /\ UNCHANGED <<core, prog, ownIO, pc>>
  BY <1>1, <1>3, <1>5, <1>6 DEF AcquireRelease, core
<1>7. CASE AcquireRelease("Loop") /\ RoundDone /\ UNCHANGED <<core, prog>>
  BY <1>1, <1>3, <1>5, <1>7 DEF AcquireRelease, RoundDone, core
<1>8. CASE /\ ~prog.suspect /\ Dirty /\ Acquire("Loop") /\ ownIO' = DrainIO
           /\ DrainForRound /\ own' = "io" /\ pc' = pc
  BY <1>4, <1>8 DEF Acquire
<1> QED  BY <1>6, <1>7, <1>8 DEF PersistStart

\* The recovery drains and captures its image, unless a rewrite is staging.
LEMMA RecoverCaptureInv ==
  ASSUME IInv, ~Preemptive, RecoverCapture
  PROVE  IInv'
<1> USE DEF IInv
<1>1. /\ own = "rwait" /\ holder = Nobody /\ queue' \in Seq(Tasks)
      /\ comp \notin {"early", "mark"} /\ rw # "swap" /\ prog.suspect
      /\ UNCHANGED <<ver, durableIndex, base, tail, wal, staged, rwDelta, pc,
                     passes, comp, compIO, rw, gated, vouched, panicked, fails,
                     crashes>>
  BY QueueFacts DEF TypeOK, LockHeld, OwnInv, RecoverCapture, Polled, Running,
     Acquire, AcquireRelease, core, compVars, rwVars, ghost, bounds, Nobody
<1>2. /\ Rewriting' <=> Rewriting
      /\ StagedTo' = StagedTo /\ TakenTo' = TakenTo /\ SwapTo' = SwapTo
      /\ SafeTo' = SafeTo /\ SafeTo \in Nat /\ SafeTo' \in Nat
      /\ SafeTo <= SafeTo'
  BY <1>1, SafeType DEF Rewriting, StagedTo, TakenTo, SwapTo, SafeTo
<1>3. CASE /\ own' = "sleep" /\ holder' = Nobody
           /\ UNCHANGED <<core, prog, tmp, ownIO>>
  <2>1. TypeOK'
    BY <1>1, <1>3 DEF TypeOK, OwnStates, core
  <2>2. LockHeld' /\ OneRewrite'
    BY <1>1, <1>2, <1>3 DEF LockHeld, OneRewrite, Nobody
  <2>3. FileInv' /\ OwnInv' /\ TailFollows'
    BY <1>1, <1>2, <1>3 DEF FileInv, OwnInv, TailFollows, core
  <2>4. ver <= ver' /\ drainedTo' = drainedTo
    BY <1>1, <1>3, NumbersType DEF Numbers, core
  <2> QED  BY <1>1, <1>2, <1>3, <2>1, <2>2, <2>3, <2>4, QuietStep
<1>4. CASE /\ ~Staging /\ holder' = "Loop" /\ DrainForRound /\ tmp' = "image"
           /\ ownIO' = [run |-> Image(ver), through |-> ver, round |-> 0]
           /\ own' = "rio"
  <2>1. /\ drainedTo' = ver /\ prog' \in Progresses /\ prog'.suspect
        /\ drainedTo <= ver /\ ver \in Nat
    BY <1>1, <1>4, NumbersType, DrainFacts DEF Numbers, FileInv
  <2>2. /\ ownIO' \in IOs /\ ownIO'.run.from = 0 /\ ownIO'.run.ok
        /\ ownIO'.run.to = ver /\ ownIO'.through = ver
    BY <1>4, <2>1 DEF Image, Run, IOs, Runs
  <2>3. TypeOK'
    BY <1>1, <1>4, <2>1, <2>2 DEF TypeOK, OwnStates, Tasks
  <2>4. ~Rewriting
    BY <1>4 DEF Staging, TailFollows
  <2>5. LockHeld' /\ OneRewrite'
    BY <1>1, <1>2, <1>4, <2>4 DEF LockHeld, OneRewrite, Nobody
  <2>6. FileInv' /\ OwnInv'
    <3>1. /\ wal.run.to \in Nat /\ drainedTo \in Nat /\ wal.run.to <= drainedTo
          /\ wal.run.from = 0 /\ wal.run.ok
      BY NumbersType DEF Numbers, FileInv
    <3>2. FileInv'
      BY <1>1, <2>1, <3>1 DEF FileInv
    <3>3. OwnInv'
      BY <1>4, <2>1, <2>2 DEF OwnInv
    <3> QED  BY <3>2, <3>3
  <2>7. TailFollows' /\ CompInv'
    BY <1>1, <1>2, <2>4 DEF TailFollows, CompInv, Rewriting
  <2>8. Claims' /\ HeldInv'
    BY <1>1, <1>2, <1>4, <2>1, <2>3, ClaimsDrain, HeldDrain
  <2> QED  BY <2>3, <2>5, <2>6, <2>7, <2>8
<1> QED
  BY <1>3, <1>4 DEF RecoverCapture, Acquire, AcquireRelease

\* The compaction drains and captures its image, or leaves again.
LEMMA CompactCaptureInv ==
  ASSUME IInv, ~Preemptive, CompactCapture
  PROVE  IInv'
<1> USE DEF IInv
<1>1. /\ comp = "wait" /\ holder = Nobody /\ queue' \in Seq(Tasks)
      /\ own \notin {"io", "rio"} /\ rw = "idle"
      /\ UNCHANGED <<ver, durableIndex, tail, wal, tmp, staged, rwDelta, pc,
                     passes, own, ownIO, rw, gated, vouched, panicked, fails,
                     crashes>>
  BY QueueFacts DEF TypeOK, LockHeld, OneRewrite, CompactCapture, Acquire,
     AcquireRelease, core, disk, loopVars, rwVars, ghost, bounds, Nobody
<1>2. ~Rewriting /\ SafeTo \in Nat /\ SafeTo = wal.run.to
  BY <1>1, SafeType DEF Rewriting, SafeTo, Recovered
<1>3. CASE /\ comp' = "idle" /\ holder' = Nobody
           /\ UNCHANGED <<core, prog, compIO>>
  <2>1. TypeOK'
    BY <1>1, <1>3 DEF TypeOK, CompStates, core
  <2>2. ~Rewriting' /\ SafeTo' = SafeTo
    BY <1>1, <1>2, <1>3 DEF Rewriting, SafeTo, Recovered
  <2>3. LockHeld' /\ OneRewrite'
    BY <1>1, <1>3, <2>2 DEF LockHeld, OneRewrite, Nobody
  <2>4. FileInv' /\ OwnInv' /\ TailFollows'
    BY <1>1, <1>3, <2>2 DEF FileInv, OwnInv, TailFollows, core
  <2>5. ver <= ver' /\ drainedTo' = drainedTo
    BY <1>1, <1>3, NumbersType DEF Numbers, core
  <2> QED  BY <1>1, <1>3, <2>1, <2>2, <2>3, <2>4, <2>5, QuietStep
<1>4. CASE /\ ~prog.suspect /\ holder' = "Compact" /\ base' = ver
           /\ compIO' = DrainIO /\ DrainForRound /\ comp' = "early"
  <2>1. /\ drainedTo' = ver /\ prog' \in Progresses /\ prog'.suspect = FALSE
        /\ drainedTo <= ver /\ ver \in Nat /\ drainedTo \in Nat
        /\ prog.drained \in Nat
        /\ Dirty => prog'.drained = prog.drained + 1
        /\ wal.run.to = drainedTo
    BY <1>1, <1>4, NumbersType, DrainFacts
       DEF Numbers, FileInv, TypeOK, Progresses
  <2>2. /\ compIO' \in IOs /\ compIO'.run.from = drainedTo /\ compIO'.run.ok
        /\ compIO'.run.to = ver /\ compIO'.through = ver
        /\ \/ Dirty /\ compIO'.round = prog.drained + 1 /\ drainedTo < ver
           \/ ~Dirty /\ compIO'.round = 0 /\ drainedTo = ver
    BY <1>4, <2>1 DEF DrainIO, Dirty, Run, IOs, Runs
  <2>3. TypeOK'
    BY <1>1, <1>4, <2>1, <2>2 DEF TypeOK, CompStates, Tasks
  <2>4. ~Rewriting' /\ SafeTo' = SafeTo /\ SafeTo <= SafeTo' /\ SafeTo' \in Nat
    BY <1>1, <1>2, <1>4 DEF Rewriting, SafeTo, Recovered
  <2>5. LockHeld' /\ OneRewrite'
    BY <1>1, <1>4, <2>4 DEF LockHeld, OneRewrite, Nobody
  <2>6. FileInv' /\ OwnInv' /\ TailFollows'
    BY <1>1, <1>4, <2>1, <2>4 DEF FileInv, OwnInv, TailFollows
  <2>7. CompInv'
    BY <1>1, <1>4, <2>1, <2>2 DEF CompInv
  <2>8. Claims' /\ HeldInv'
    BY <1>1, <1>2, <1>4, <2>1, <2>3, <2>4, ClaimsDrain, HeldDrain
  <2> QED  BY <2>3, <2>5, <2>6, <2>7, <2>8
<1> QED
  BY <1>3, <1>4 DEF CompactCapture, Acquire, AcquireRelease

\* A step of the core ships at once what is durable, and holds the rest for the
\* round that will cover it.
LEMMA StepCoreInv ==
  ASSUME IInv, ~Preemptive, NEW d \in {0, 1}, StepCore(d)
  PROVE  IInv'
<1> USE DEF IInv
<1> DEFINE S == [round : Nat, need : Nat]
           gate == Gate(prog, drainedTo < ver + d)
           batch == [round |-> gate, need |-> ver + d]
<1>1. /\ ver' = ver + d /\ pc' = "ship"
      /\ UNCHANGED <<drainedTo, durableIndex, base, prog, holder, queue, tail, wal,
                     tmp, staged, own, ownIO, comp, compIO, rw, rwDelta, passes,
                     panicked, fails, crashes>>
  BY DEF StepCore, lock, disk, compVars, rwVars, bounds
<1>2. /\ ver \in Nat /\ ver' \in Nat /\ ver <= ver' /\ drainedTo \in Nat
      /\ prog.drained \in Nat /\ prog.durable \in Nat /\ durableIndex \in Nat
      /\ vouched \subseteq Nat /\ prog.durable <= prog.drained
  <2>1. ver \in Nat /\ drainedTo \in Nat /\ durableIndex \in Nat /\ vouched \subseteq Nat
    BY DEF TypeOK
  <2>2. prog.drained \in Nat /\ prog.durable \in Nat
    BY DEF TypeOK, Progresses
  <2>3. prog.durable <= prog.drained
    BY DEF Claims
  <2>4. ver' \in Nat /\ ver <= ver'
    BY <1>1, <2>1
  <2> QED  BY <2>1, <2>2, <2>3, <2>4
<1>3. /\ gate \in Nat
      /\ \/ gate = prog.drained + 1 /\ drainedTo < ver'
         \/ gate = prog.drained /\ ver' <= drainedTo /\ prog.durable < prog.drained
         \/ gate = ShipNow /\ ver' <= drainedTo /\ prog.durable = prog.drained
  BY <1>1, <1>2 DEF Gate, ShipNow
<1> HIDE DEF gate
<1>4. /\ SafeTo \in Nat /\ SafeTo' = SafeTo /\ durableIndex <= SafeTo
      /\ prog.durable = prog.drained => drainedTo <= SafeTo
      /\ \A v \in vouched : v <= SafeTo
  BY <1>1, SafeType
     DEF Claims, SafeTo, SwapTo, TakenTo, StagedTo, Rewriting
<1>5. \/ vouched' = vouched \cup {ver'} /\ gated' = gated /\ gate = ShipNow
      \/ /\ gated' = Append(gated, batch) /\ vouched' = vouched
         /\ gate # ShipNow
      \/ vouched' = vouched \cup {durableIndex} /\ gated' = gated
  BY <1>1 DEF StepCore, gate
<1>6. gate = ShipNow => ver' <= SafeTo
  BY <1>2, <1>3, <1>4 DEF ShipNow
<1>7. vouched' \subseteq Nat /\ \A v \in vouched' : v <= SafeTo
  BY <1>2, <1>4, <1>5, <1>6
<1>8. gated \in Seq(S) /\ batch \in S
  BY <1>1, <1>2, <1>3 DEF TypeOK
<1>9. gated' \in Seq(S)
  <2> HIDE DEF S, batch
  <2> QED  BY <1>5, <1>8
<1>10. TypeOK'
  BY <1>1, <1>2, <1>7, <1>9 DEF TypeOK
<1>11. LockHeld' /\ OneRewrite' /\ OwnInv' /\ TailFollows' /\ CompInv'
  BY <1>1, <1>4 DEF LockHeld, OneRewrite, OwnInv, TailFollows, CompInv, Rewriting,
     SwapTo, TakenTo, StagedTo
<1>12. FileInv'
  BY <1>1, <1>2 DEF FileInv
<1>13. Claims'
  BY <1>1, <1>4, <1>7 DEF Claims
<1>14. ASSUME NEW i \in 1 .. Len(gated), gated'[i] = gated[i]
       PROVE  HeldFor(gated[i])'
  <2>1. /\ gated[i].need \in Nat /\ gated[i].round \in Nat /\ HeldFor(gated[i])
    BY HeldTypes DEF HeldInv
  <2> QED  BY <1>1, <1>2, <1>4, <1>14, <2>1 DEF HeldFor, Dirty
<1>15. CASE gated' = gated
  <2>1. HeldInv'
    BY <1>14, <1>15 DEF HeldInv, GatedInRoundOrder
  <2> QED  BY <1>10, <1>11, <1>12, <1>13, <2>1
<1>16. CASE gated' = Append(gated, batch) /\ gate # ShipNow
  <2>1. /\ batch.need = ver' /\ batch.round = gate
    BY <1>1
  <2>3. \A i \in 1 .. Len(gated) : gated[i].round <= batch.round
    <3> SUFFICES ASSUME NEW i \in 1 .. Len(gated)
                 PROVE  gated[i].round <= batch.round
      OBVIOUS
    <3>1. gated[i].round \in Nat /\ HeldFor(gated[i])
      BY HeldTypes DEF HeldInv
    <3> QED  BY <1>1, <1>2, <1>3, <1>16, <2>1, <3>1 DEF HeldFor, Dirty
  <2> HIDE DEF batch, S
  <2>4. /\ Len(gated') = Len(gated) + 1 /\ Len(gated) \in Nat
        /\ gated'[Len(gated) + 1] = batch
        /\ \A i \in 1 .. Len(gated) : gated'[i] = gated[i]
    BY <1>8, <1>16
  <2>5. ASSUME NEW i \in 1 .. Len(gated')
        PROVE  HeldFor(gated[i])'
    <3>1. CASE i = Len(gated) + 1
      BY <1>1, <1>2, <1>3, <1>16, <2>1, <2>4, <3>1 DEF HeldFor, Dirty
    <3>2. CASE i \in 1 .. Len(gated)
      BY <1>14, <2>4, <3>2
    <3> QED  BY <2>4, <3>1, <3>2
  <2>6. GatedInRoundOrder'
    BY <2>3, <2>4 DEF HeldInv, GatedInRoundOrder
  <2>7. HeldInv'
    BY <2>5, <2>6 DEF HeldInv
  <2> QED  BY <1>10, <1>11, <1>12, <1>13, <2>7
<1> QED  BY <1>5, <1>15, <1>16

\* Shipping releases only batches whose round has landed.
LEMMA LoopShipInv ==
  ASSUME IInv, ~Preemptive, LoopShip
  PROVE  IInv'
<1> USE DEF IInv
<1>1. /\ vouched' = vouched \cup Released(gated, prog.durable)
      /\ gated' = StillHeld(gated, prog.durable) /\ pc' = "settle"
      /\ UNCHANGED <<ver, drainedTo, durableIndex, base, prog, holder, queue, tail,
                     wal, tmp, staged, own, ownIO, comp, compIO, rw, rwDelta,
                     passes, panicked, fails, crashes>>
  BY DEF LoopShip, core, lock, disk, compVars, rwVars, bounds
<1>2. prog.durable \in Nat
  BY NumbersType DEF Numbers
<1>3. gated' \in Seq([round : Nat, need : Nat]) /\ vouched' \subseteq Nat
  <2>1. vouched \subseteq Nat
    BY DEF TypeOK
  <2>2. gated \in Seq([round : Nat, need : Nat])
    BY DEF TypeOK
  <2> QED  BY <1>1, <1>2, <2>1, <2>2, ReleaseFacts
<1>4. TypeOK'
  BY <1>1, <1>3 DEF TypeOK
<1>5. SafeTo' = SafeTo
  BY <1>1 DEF SafeTo, SwapTo, TakenTo, StagedTo, Rewriting
<1>6. LockHeld' /\ OneRewrite' /\ FileInv' /\ OwnInv' /\ TailFollows' /\ CompInv'
  BY <1>1, <1>5 DEF LockHeld, OneRewrite, FileInv, OwnInv, TailFollows, CompInv,
     Rewriting, SwapTo, TakenTo, StagedTo
<1>7. \A v \in Released(gated, prog.durable) : v <= SafeTo
  <2> SUFFICES ASSUME NEW v \in Released(gated, prog.durable)
               PROVE  v <= SafeTo
    OBVIOUS
  <2>1. PICK i \in ReleasedPositions(gated, prog.durable) : v = gated[i].need
    BY DEF Released
  <2>2. i \in 1 .. Len(gated) /\ gated[i].round <= prog.durable
    BY DEF ReleasedPositions
  <2> QED  BY <2>1, <2>2 DEF HeldInv, HeldFor
<1>8. Claims'
  BY <1>1, <1>5, <1>7 DEF Claims
<1>9. HeldInv'
  <2>1. PICK k \in Nat :
          /\ Len(gated') <= Len(gated) - k
          /\ \A i \in 1 .. Len(gated') : gated'[i] = gated[k + i]
    <3>1. gated \in Seq([round : Nat, need : Nat])
      BY DEF TypeOK
    <3> QED  BY <1>1, <1>2, <3>1, ReleaseFacts
  <2>2. Len(gated) \in Nat /\ Len(gated') \in Nat
    BY <1>3 DEF TypeOK
  <2>3. \A i \in 1 .. Len(gated') : k + i \in 1 .. Len(gated)
    BY <2>1, <2>2
  <2>4. ASSUME NEW i \in 1 .. Len(gated')
        PROVE  HeldFor(gated[i])'
    <3>1. HeldFor(gated[k + i]) /\ gated'[i] = gated[k + i]
      BY <2>1, <2>3 DEF HeldInv
    <3> QED  BY <1>1, <1>5, <3>1 DEF HeldFor, Dirty
  <2>5. GatedInRoundOrder'
    <3> SUFFICES ASSUME NEW i \in 1 .. Len(gated'), NEW j \in 1 .. Len(gated'),
                        i < j
                 PROVE  gated'[i].round <= gated'[j].round
      BY DEF GatedInRoundOrder
    <3>1. k + i < k + j /\ k + i \in 1 .. Len(gated) /\ k + j \in 1 .. Len(gated)
      BY <2>2, <2>3
    <3>2. gated[k + i].round <= gated[k + j].round
      BY <3>1 DEF HeldInv, GatedInRoundOrder
    <3> QED  BY <2>1, <3>2
  <2> QED  BY <2>4, <2>5 DEF HeldInv
<1> QED  BY <1>4, <1>6, <1>8, <1>9

\* The safety net ships everything when nothing is owed.
LEMMA LoopSettleInv ==
  ASSUME IInv, ~Preemptive, LoopSettle
  PROVE  IInv'
<1> USE DEF IInv
<1>1. /\ pc' = "top"
      /\ UNCHANGED <<ver, drainedTo, durableIndex, base, prog, holder, queue, tail,
                     wal, tmp, staged, own, ownIO, comp, compIO, rw, rwDelta,
                     passes, panicked, fails, crashes>>
  BY DEF LoopSettle, core, lock, disk, compVars, rwVars, bounds
<1>2. \/ UNCHANGED <<vouched, gated>>
      \/ /\ FullyDurable(prog, Dirty) /\ gated' = <<>>
         /\ vouched' = vouched \cup AllNeeds(gated)
  BY DEF LoopSettle
<1>3. AllNeeds(gated) \subseteq Nat
  BY HeldTypes DEF AllNeeds
<1>4. SafeTo' = SafeTo /\ SafeTo \in Nat
  BY <1>1, SafeType DEF SafeTo, SwapTo, TakenTo, StagedTo, Rewriting
<1>5. LockHeld' /\ OneRewrite' /\ FileInv' /\ OwnInv' /\ TailFollows' /\ CompInv'
  BY <1>1, <1>4 DEF LockHeld, OneRewrite, FileInv, OwnInv, TailFollows, CompInv,
     Rewriting, SwapTo, TakenTo, StagedTo
<1>6. CASE UNCHANGED <<vouched, gated>>
  <2>1. TypeOK' /\ Claims' /\ HeldInv'
    BY <1>1, <1>4, <1>6 DEF TypeOK, Claims, HeldInv, HeldFor, Dirty,
       GatedInRoundOrder
  <2> QED  BY <1>5, <2>1
<1>7. CASE /\ FullyDurable(prog, Dirty) /\ gated' = <<>>
           /\ vouched' = vouched \cup AllNeeds(gated)
  <2>1. TypeOK'
    <3>1. vouched' \subseteq Nat
      BY <1>3, <1>7 DEF TypeOK
    <3> DEFINE S == [round : Nat, need : Nat]
    <3>2. gated' \in Seq(S)
      <4> HIDE DEF S
      <4> QED  BY <1>7
    <3> QED  BY <1>1, <3>1, <3>2 DEF TypeOK
  <2>2. ver <= SafeTo
    <3>1. /\ ~Dirty /\ prog.durable >= prog.drained
          /\ prog.durable <= prog.drained
          /\ prog.durable = prog.drained => drainedTo <= SafeTo
      BY <1>7 DEF FullyDurable, Claims
    <3>2. /\ ver \in Nat /\ drainedTo \in Nat
          /\ prog.durable \in Nat /\ prog.drained \in Nat
      BY NumbersType DEF Numbers
    <3> QED  BY <1>4, <3>1, <3>2 DEF Dirty
  <2>3. \A v \in AllNeeds(gated) : v <= SafeTo
    <3> SUFFICES ASSUME NEW i \in 1 .. Len(gated)
                 PROVE  gated[i].need <= SafeTo
      BY DEF AllNeeds
    <3>1. gated[i].need \in Nat /\ gated[i].need <= ver /\ ver \in Nat
      BY HeldTypes, NumbersType DEF HeldInv, HeldFor, Numbers
    <3> QED  BY <1>4, <2>2, <3>1
  <2>4. Claims'
    BY <1>1, <1>4, <1>7, <2>3 DEF Claims
  <2>5. HeldInv'
    BY <1>7 DEF HeldInv, GatedInRoundOrder
  <2> QED  BY <1>5, <2>1, <2>4, <2>5
<1> QED  BY <1>2, <1>6, <1>7

\* The loop's round lands: the file and the pending swap both grow to the last
\* drain.
LEMMA PersistOkInv ==
  ASSUME IInv, ~Preemptive, PersistOk
  PROVE  IInv'
<1> USE DEF IInv
<1>1. TypeOK'
  BY ConcatFacts, BatchAppended, ProgressFacts DEF TypeOK, PersistOk, Polled,
     Unlock, RoundDone, NoIO, MarkDurable, TailPush, compVars, rwVars, ghost,
     bounds, OwnStates, IOs, EmptyRun, Run, Runs, Nobody
<1>2. LockHeld' /\ OneRewrite'
  BY DEF TypeOK, LockHeld, OneRewrite, Rewriting, PersistOk, Polled, Unlock,
     RoundDone, TailPush, compVars, rwVars, Nobody
<1>3. /\ own = "io" /\ own' = "none" /\ comp # "early" /\ rw # "swap"
      /\ UNCHANGED <<ver, drainedTo, staged, rwDelta, comp, compIO, rw, gated,
                     vouched>>
  BY DEF LockHeld, PersistOk, RoundDone, compVars, rwVars, ghost
<1>4. /\ ~wal'.torn /\ wal'.run.ok /\ wal'.run.from = 0
      /\ wal'.run.to = drainedTo
  BY <1>3, BatchAppended DEF PersistOk
<1>5. /\ prog'.drained = prog.drained /\ prog'.suspect = prog.suspect
      /\ prog'.durable <= prog.drained /\ prog.durable <= prog'.durable
      /\ ~prog.suspect
      /\ durableIndex' = durableIndex \/ durableIndex' = drainedTo
  <2>1. /\ prog \in Progresses /\ ownIO.round \in Nat /\ prog.drained \in Nat
        /\ prog.durable \in Nat /\ prog.durable <= prog.drained
    BY NumbersType DEF Numbers, TypeOK, Claims
  <2>2. /\ ~prog.suspect /\ ownIO.round = prog.drained
        /\ ownIO.through = drainedTo
    BY <1>3 DEF OwnInv
  <2>3. /\ prog' = CompleteDrain(prog, ownIO.round)
        /\ durableIndex' = durableIndex \/ durableIndex' = ownIO.through
    BY DEF PersistOk, MarkDurable
  <2> QED  BY <2>1, <2>2, <2>3, ProgressFacts
<1>6. FileInv' /\ OwnInv'
  BY <1>3, <1>4, <1>5, NumbersType DEF Numbers, FileInv, OwnInv
<1>7. (Rewriting' <=> Rewriting) /\ TakenTo' = TakenTo /\ StagedTo' = StagedTo
  BY <1>3 DEF Rewriting, TakenTo, StagedTo
<1>8. ASSUME Rewriting
      PROVE  /\ tail'.active /\ tail'.run.ok /\ tail'.run.from < tail'.run.to
             /\ tail'.run.from <= tail'.run.to
             /\ tail'.run.to = drainedTo /\ tail'.run.from = TakenTo
  <2>1. tail' = [tail EXCEPT !.run = Concat(tail.run, ownIO.run)]
    BY <1>8 DEF TailFollows, PersistOk, TailPush
  <2>2. tail \in [active : BOOLEAN, run : Runs] /\ ownIO.run \in Runs
    BY DEF TypeOK, IOs
  <2>3. /\ ownIO.run.ok /\ ownIO.run.from = SwapTo /\ ownIO.run.to = drainedTo
        /\ ownIO.run.from < ownIO.run.to
        /\ ownIO.run.from \in Nat /\ ownIO.run.to \in Nat
        /\ tail.run.from \in Nat /\ tail.run.to \in Nat
    BY <1>3, <1>8, NumbersType DEF Numbers, OwnInv, TailFollows
  <2>4. /\ tail.active /\ tail.run.ok /\ tail.run.from <= tail.run.to
        /\ IsEmptyRun(tail.run) \/ tail.run.from = TakenTo
    BY <1>8 DEF TailFollows
  <2>5. /\ Concat(tail.run, ownIO.run).ok
        /\ Concat(tail.run, ownIO.run).to = drainedTo
        /\ Concat(tail.run, ownIO.run).from = TakenTo
        /\ TakenTo < drainedTo /\ TakenTo <= drainedTo
    BY <2>2, <2>3, <2>4, ConcatFacts DEF SwapTo, IsEmptyRun
  <2> QED  BY <2>1, <2>2, <2>4, <2>5
<1>9. Rewriting => SwapTo' = drainedTo
  BY <1>8, NumbersType DEF Numbers, SwapTo, IsEmptyRun
<1>10. TailFollows'
  <2> SUFFICES ASSUME Rewriting PROVE TailFollows'
    BY <1>7 DEF TailFollows
  <2>1. /\ rw \in {"wait", "extend", "swap"} => staged.from = 0 /\ staged.ok
        /\ rwDelta.ok /\ rwDelta.from <= rwDelta.to
        /\ IsEmptyRun(rwDelta) \/ rwDelta.from = StagedTo
    BY DEF TailFollows
  <2>2. /\ tail'.active /\ tail'.run.ok /\ tail'.run.from <= tail'.run.to
        /\ tail'.run.from = TakenTo
    BY <1>8
  <2>3. drainedTo \in Nat /\ SwapTo' = drainedTo
    BY <1>9, NumbersType DEF Numbers
  <2> QED  BY <1>3, <1>4, <1>7, <2>1, <2>2, <2>3 DEF TailFollows, IsEmptyRun
<1>11. SafeTo \in Nat /\ SafeTo' \in Nat /\ SafeTo' = drainedTo
  BY <1>1, <1>4, <1>7, <1>9, SafeType, SafeTypeNext DEF SafeTo, Recovered
<1>12. SafeTo <= SafeTo'
  BY <1>11, SafeBounds, NumbersType DEF Numbers, FileInv
<1>13. CompInv'
  <2>1. prog'.durable \in Nat /\ prog.durable \in Nat
    BY <1>1 DEF TypeOK, Progresses
  <2> QED  BY <1>3, <1>5, <1>11, <1>12, <2>1, NumbersType DEF Numbers, CompInv
<1>14. Claims' /\ HeldInv'
  BY <1>1, <1>3, <1>5, <1>11, <1>12, NumbersType, ClaimsKept, HeldKept DEF Numbers
<1> QED  BY <1>1, <1>2, <1>6, <1>10, <1>13, <1>14

\* A full disk leaves part of the batch behind a mark that stops every append.
LEMMA PersistFullInv ==
  ASSUME IInv, ~Preemptive, PersistFull
  PROVE  IInv'
<1> USE DEF IInv
<1>1. TypeOK'
  <2>1. wal' \in Files
    BY BatchAppended DEF PersistFull
  <2>2. prog' \in Progresses
    BY ProgressFacts DEF TypeOK, PersistFull
  <2>3. ownIO' \in IOs
    BY DEF PersistFull, NoIO, IOs, EmptyRun, Run, Runs
  <2>4. fails' \in Nat /\ crashes' \in Nat
    BY DEF TypeOK, PersistFull, DiskFull
  <2> QED
    BY <2>1, <2>2, <2>3, <2>4 DEF TypeOK, PersistFull, Unlock, core, compVars,
       rwVars, ghost, OwnStates, Nobody
<1>2. LockHeld' /\ OneRewrite'
  BY DEF TypeOK, LockHeld, OneRewrite, Rewriting, PersistFull, Polled, Unlock,
     compVars, rwVars, Nobody
<1>3. /\ own = "io" /\ own' = "sleep" /\ comp # "early" /\ rw # "swap"
      /\ UNCHANGED <<ver, drainedTo, durableIndex, tail, staged, rwDelta, comp,
                     compIO, rw, gated, vouched>>
  BY DEF LockHeld, PersistFull, core, compVars, rwVars, ghost
<1>4. /\ wal'.run.ok /\ wal'.run.from = 0
      /\ wal.run.to <= wal'.run.to /\ wal'.run.to <= drainedTo
  BY <1>3, BatchAppended DEF PersistFull
<1>5. /\ prog'.drained = prog.drained /\ prog'.durable = prog.durable
      /\ prog'.suspect
  BY ProgressFacts DEF TypeOK, PersistFull
<1>6. FileInv' /\ OwnInv'
  BY <1>3, <1>4, <1>5 DEF FileInv, OwnInv
<1>7. /\ Rewriting' <=> Rewriting
      /\ TakenTo' = TakenTo /\ StagedTo' = StagedTo /\ SwapTo' = SwapTo
  BY <1>3 DEF Rewriting, TakenTo, StagedTo, SwapTo
<1>8. TailFollows'
  BY <1>3, <1>5, <1>7 DEF TailFollows
<1>9. SafeTo \in Nat /\ SafeTo' \in Nat
  BY <1>1, SafeType, SafeTypeNext
<1>10. SafeTo <= SafeTo'
  BY <1>4, <1>7, <1>9, SafeBounds, NumbersType DEF Numbers, SafeTo, Recovered
<1>11. CompInv'
  BY <1>3, <1>5, <1>9, <1>10, NumbersType DEF Numbers, CompInv
<1>12. Claims' /\ HeldInv'
  BY <1>1, <1>3, <1>5, <1>9, <1>10, NumbersType, ClaimsKept, HeldKept DEF Numbers
<1> QED  BY <1>1, <1>2, <1>6, <1>8, <1>11, <1>12

\* The recovery's image holds everything drained.
LEMMA RecoverOkInv ==
  ASSUME IInv, ~Preemptive, RecoverOk
  PROVE  IInv'
<1> USE DEF IInv
<1>1. /\ own = "rio" /\ own' = "none" /\ comp \notin {"early", "mark", "claim"}
      /\ rw # "swap" /\ ~Rewriting /\ wal' = Intact(ownIO.run)
      /\ holder' = Nobody /\ tmp' = "none" /\ pc' = "ship"
      /\ ownIO' = NoIO
      /\ UNCHANGED <<ver, drainedTo, tail, staged, rwDelta, comp, compIO, rw,
                     gated, vouched>>
  BY DEF LockHeld, OneRewrite, Rewriting, RecoverOk, RoundDone, Unlock, compVars,
     rwVars, ghost, Nobody
<1>2. /\ prog' \in Progresses /\ prog'.drained = prog.drained
      /\ prog'.durable = prog.drained /\ prog'.suspect = FALSE
  <2>1. /\ prog \in Progresses /\ prog.drained \in Nat /\ prog.durable \in Nat
        /\ prog.durable <= prog.drained
    BY NumbersType DEF Numbers, TypeOK, Claims
  <2> DEFINE p == CompleteDrain(prog, prog.drained)
  <2>2. p \in Progresses /\ p.drained = prog.drained /\ p.durable = prog.drained
    BY <2>1, ProgressFacts
  <2>3. prog' = [p EXCEPT !.suspect = FALSE]
    BY DEF RecoverOk, CompleteAllDrained
  <2> HIDE DEF p
  <2> QED  BY <2>2, <2>3 DEF Progresses
<1>3. /\ ownIO.run \in Runs /\ ownIO.run.ok /\ ownIO.run.from = 0
      /\ ownIO.run.to = drainedTo /\ ownIO.through = drainedTo
  BY <1>1 DEF OwnInv, TypeOK, IOs
<1>4. durableIndex' = durableIndex \/ durableIndex' = drainedTo
  BY <1>3 DEF RecoverOk, MarkDurable
<1>5. TypeOK'
  <2>1. wal' \in Files /\ ownIO' \in IOs /\ durableIndex' \in Nat
    BY <1>1, <1>3, <1>4, NumbersType
       DEF Numbers, Intact, Files, NoIO, IOs, EmptyRun, Run, Runs
  <2> QED  BY <1>1, <1>2, <2>1 DEF TypeOK, RecoverOk, Unlock, rwVars, ghost, bounds,
              OwnStates
<1>6. LockHeld' /\ OneRewrite'
  BY <1>1 DEF LockHeld, OneRewrite, Rewriting, Nobody
<1>7. FileInv' /\ OwnInv'
  BY <1>1, <1>2, <1>3, NumbersType DEF Numbers, FileInv, OwnInv, Intact
<1>8. ~Rewriting' /\ TailFollows'
  BY <1>1 DEF Rewriting, TailFollows
<1>9. SafeTo \in Nat /\ SafeTo' \in Nat /\ SafeTo' = drainedTo
  BY <1>1, <1>3, <1>5, <1>8, SafeType, SafeTypeNext DEF SafeTo, Recovered, Intact
<1>10. SafeTo <= SafeTo'
  BY <1>9, SafeBounds, NumbersType DEF Numbers, FileInv
<1>11. CompInv'
  BY <1>1 DEF CompInv
<1>12. Claims' /\ HeldInv'
  BY <1>1, <1>2, <1>4, <1>5, <1>9, <1>10, NumbersType, ClaimsKept, HeldKept
     DEF Numbers
<1> QED  BY <1>5, <1>6, <1>7, <1>8, <1>11, <1>12

\* A failed early append tears the file; on one executor nobody takes the lock
\* before the mark.
LEMMA EarlyFullInv ==
  ASSUME IInv, ~Preemptive, EarlyFull
  PROVE  IInv'
<1> USE DEF IInv
<1>1. /\ comp = "early" /\ comp' = "mark" /\ own \notin {"io", "rio"}
      /\ rw = "idle" /\ holder' = Nobody /\ compIO' = NoIO
      /\ UNCHANGED <<ver, drainedTo, durableIndex, prog, tail, staged, rwDelta,
                     own, ownIO, rw, gated, vouched>>
  BY DEF LockHeld, OneRewrite, EarlyFull, Unlock, core, loopVars, rwVars, ghost
<1>2. /\ wal' \in Files /\ wal'.run.ok /\ wal'.run.from = 0
      /\ wal.run.to <= wal'.run.to /\ wal'.run.to <= drainedTo
  BY <1>1, EarlyAppended DEF EarlyFull
<1>3. TypeOK'
  BY <1>1, <1>2 DEF TypeOK, EarlyFull, Unlock, NoIO, DiskFull, core, loopVars,
     rwVars, ghost, CompStates, IOs, EmptyRun, Run, Runs
<1>4. LockHeld' /\ OneRewrite'
  BY <1>1 DEF LockHeld, OneRewrite, Rewriting, Nobody
<1>5. FileInv' /\ OwnInv'
  BY <1>1, <1>2 DEF FileInv, OwnInv
<1>6. ~Rewriting /\ ~Rewriting' /\ TailFollows' /\ CompInv'
  BY <1>1 DEF Rewriting, TailFollows, CompInv
<1>7. SafeTo \in Nat /\ SafeTo' \in Nat /\ SafeTo <= SafeTo'
  BY <1>2, <1>3, <1>6, SafeType, SafeTypeNext DEF SafeTo, Recovered
<1>8. Claims' /\ HeldInv'
  BY <1>1, <1>3, <1>7, NumbersType, ClaimsKept, HeldKept DEF Numbers
<1> QED  BY <1>3, <1>4, <1>5, <1>6, <1>8

\* The compaction's batch lands like a round, and its image ends where the file
\* ends.
LEMMA EarlyOkInv ==
  ASSUME IInv, ~Preemptive, EarlyOk
  PROVE  IInv'
<1> USE DEF IInv
<1>1. /\ comp = "early" /\ comp' = "claim" /\ own \notin {"io", "rio"}
      /\ rw = "idle" /\ rwDelta = EmptyRun /\ holder' = Nobody
      /\ tail' = [active |-> TRUE, run |-> EmptyRun]
      /\ UNCHANGED <<ver, drainedTo, staged, rwDelta, compIO, own, ownIO, rw,
                     gated, vouched>>
  BY DEF LockHeld, OneRewrite, EarlyOk, Unlock, loopVars, rwVars, ghost
<1>2. /\ ~prog.suspect /\ compIO.through = drainedTo /\ wal \in Files
      /\ prog \in Progresses /\ compIO.round \in Nat /\ ~wal.torn
      /\ prog.drained \in Nat /\ prog.durable \in Nat
      /\ prog.durable <= prog.drained
      /\ wal.run.ok /\ wal.run.from = 0
      /\ compIO.round = 0 \/ compIO.round = prog.drained
      /\ compIO.round = 0 => wal.run.to = drainedTo
  <2>1. /\ wal \in Files /\ prog \in Progresses /\ compIO.round \in Nat
        /\ prog.drained \in Nat /\ prog.durable \in Nat
        /\ prog.durable <= prog.drained
    BY NumbersType DEF Numbers, TypeOK, Claims
  <2>2. /\ ~prog.suspect /\ compIO.through = drainedTo
        /\ compIO.round = 0 \/ compIO.round = prog.drained
        /\ compIO.run.from = wal.run.to /\ compIO.run.to = drainedTo
    BY <1>1 DEF CompInv
  <2>3. compIO.round = 0 => wal.run.to = drainedTo
    BY <1>1, <2>2 DEF CompInv
  <2>4. ~wal.torn /\ wal.run.ok /\ wal.run.from = 0
    BY <1>1, <2>2 DEF FileInv
  <2> QED  BY <2>1, <2>2, <2>3, <2>4
<1>3. /\ wal' \in Files /\ ~wal'.torn /\ wal'.run.ok /\ wal'.run.from = 0
      /\ wal'.run.to = drainedTo
  BY <1>1, <1>2, EarlyAppended DEF EarlyOk
<1>4. /\ prog' \in Progresses /\ prog'.drained = prog.drained
      /\ prog'.suspect = prog.suspect /\ compIO.round <= prog'.durable
      /\ prog'.durable <= prog.drained /\ prog'.durable \in Nat
  BY <1>2, ProgressFacts DEF EarlyOk
<1>5. durableIndex' = durableIndex \/ durableIndex' = drainedTo
  BY <1>2 DEF EarlyOk, MarkDurable
<1>6. TypeOK'
  BY <1>1, <1>3, <1>4, <1>5 DEF TypeOK, EarlyOk, Unlock, loopVars, rwVars, ghost,
     bounds, CompStates, EmptyRun, Run, Runs
<1>7. LockHeld' /\ OneRewrite'
  BY <1>1 DEF LockHeld, OneRewrite, Rewriting, Nobody
<1>8. FileInv' /\ OwnInv'
  BY <1>1, <1>2, <1>3, <1>4, NumbersType DEF Numbers, FileInv, OwnInv
<1>9. Rewriting' /\ StagedTo' = drainedTo /\ TakenTo' = drainedTo
      /\ SwapTo' = drainedTo
  BY <1>1, <1>2 DEF Rewriting, StagedTo, TakenTo, SwapTo, IsEmptyRun, EmptyRun, Run
<1>10. TailFollows'
  BY <1>1, <1>3, <1>9, NumbersType
     DEF Numbers, TailFollows, IsEmptyRun, EmptyRun, Run
<1>11. SafeTo \in Nat /\ SafeTo' \in Nat /\ SafeTo' = drainedTo
  BY <1>3, <1>6, <1>9, SafeType, SafeTypeNext DEF SafeTo, Recovered
<1>12. SafeTo <= SafeTo'
  BY <1>11, SafeBounds, NumbersType DEF Numbers, FileInv
<1>13. CompInv'
  BY <1>1, <1>2, <1>4, <1>11 DEF CompInv
<1>14. Claims' /\ HeldInv'
  BY <1>1, <1>4, <1>5, <1>6, <1>11, <1>12, NumbersType, ClaimsKept, HeldKept
     DEF Numbers
<1> QED  BY <1>6, <1>7, <1>8, <1>10, <1>13, <1>14

\* The mark only takes promises away.
LEMMA CompactMarkSuspectInv ==
  ASSUME IInv, ~Preemptive, CompactMarkSuspect
  PROVE  IInv'
<1> USE DEF IInv
<1>1. /\ comp = "mark" /\ comp' = "idle" /\ own \notin {"io", "rio"}
      /\ rw = "idle" /\ ~Rewriting
      /\ UNCHANGED <<core, lock, tail, disk, loopVars, compIO, rwVars, ghost,
                     bounds>>
  BY DEF LockHeld, OneRewrite, Rewriting, CompactMarkSuspect, Nobody
<1>2. /\ prog' \in Progresses /\ prog'.drained = prog.drained
      /\ prog'.durable = prog.durable /\ prog'.suspect
  BY ProgressFacts DEF TypeOK, CompactMarkSuspect
<1>3. TypeOK'
  BY <1>1, <1>2 DEF TypeOK, core, lock, disk, loopVars, rwVars, ghost, bounds,
     CompStates
<1>4. LockHeld' /\ OneRewrite'
  BY <1>1 DEF LockHeld, OneRewrite, Rewriting, lock, loopVars, rwVars
<1>5. FileInv' /\ OwnInv'
  BY <1>1, <1>2 DEF FileInv, OwnInv, core, disk, loopVars
<1>6. ~Rewriting' /\ TailFollows' /\ CompInv'
  BY <1>1 DEF Rewriting, TailFollows, CompInv, rwVars
<1>7. SafeTo \in Nat /\ SafeTo' \in Nat /\ SafeTo <= SafeTo'
  BY <1>1, <1>3, <1>6, SafeType, SafeTypeNext DEF SafeTo, Recovered, disk
<1>8. Claims' /\ HeldInv'
  BY <1>1, <1>2, <1>3, <1>7, NumbersType, ClaimsKept, HeldKept
     DEF Numbers, core, loopVars, ghost
<1> QED  BY <1>3, <1>4, <1>5, <1>6, <1>8

\* The repeated watermark updates change nothing that was not so already.
LEMMA CompactSpawnInv ==
  ASSUME IInv, ~Preemptive, CompactSpawn
  PROVE  IInv'
<1> USE DEF IInv
<1>1. /\ comp = "claim" /\ comp' = "idle" /\ rw = "idle" /\ rw' = "stage"
      /\ own # "rio"
      /\ UNCHANGED <<ver, drainedTo, base, lock, tail, disk, loopVars, compIO,
                     rwDelta, passes, ghost, bounds>>
  BY DEF OneRewrite, Rewriting, CompactSpawn
<1>2. /\ prog \in Progresses /\ compIO.round \in Nat /\ prog.durable \in Nat
      /\ compIO.round <= prog.durable /\ compIO.through <= SafeTo
      /\ compIO.through \in Nat
  BY <1>1, NumbersType DEF Numbers, CompInv, TypeOK
<1>3. /\ prog' \in Progresses /\ prog'.drained = prog.drained
      /\ prog'.durable = prog.durable /\ prog'.suspect = prog.suspect
  BY <1>2, ProgressFacts DEF CompactSpawn
<1>4. durableIndex' = durableIndex \/ durableIndex' = compIO.through
  BY DEF CompactSpawn, MarkDurable
<1>5. TypeOK'
  BY <1>1, <1>2, <1>3, <1>4 DEF TypeOK, lock, disk, loopVars, ghost, bounds,
     CompStates, RwStates
<1>6. LockHeld' /\ OneRewrite'
  BY <1>1 DEF LockHeld, OneRewrite, Rewriting, lock, loopVars
<1>7. FileInv' /\ OwnInv'
  BY <1>1, <1>3 DEF FileInv, OwnInv, disk, loopVars
<1>8. /\ Rewriting /\ Rewriting' /\ StagedTo' = StagedTo /\ TakenTo' = TakenTo
      /\ SwapTo' = SwapTo
  BY <1>1 DEF Rewriting, StagedTo, TakenTo, SwapTo
<1>9. TailFollows'
  BY <1>1, <1>3, <1>8 DEF TailFollows, disk
<1>10. SafeTo \in Nat /\ SafeTo' = SafeTo
  BY <1>1, <1>8, SafeType DEF SafeTo, Recovered, disk
<1>11. CompInv'
  BY <1>1 DEF CompInv
<1>12. Claims' /\ HeldInv'
  BY <1>1, <1>2, <1>3, <1>4, <1>5, <1>10, NumbersType, ClaimsKept, HeldKept
     DEF Numbers, loopVars, ghost
<1> QED  BY <1>5, <1>6, <1>7, <1>9, <1>11, <1>12

\* The staged image is the one the compaction captured.
LEMMA StageOkInv ==
  ASSUME IInv, ~Preemptive, StageOk
  PROVE  IInv'
<1> USE DEF IInv
<1>1. /\ rw = "stage" /\ rw' = "wait" /\ comp = "idle"
      /\ staged' = Image(compIO.through) /\ rwDelta = EmptyRun
      /\ UNCHANGED <<core, prog, holder, tail, wal, loopVars, compVars, rwDelta,
                     ghost, bounds>>
  BY DEF OneRewrite, StageOk, Enqueue
<1>2. /\ staged' \in Runs /\ staged'.from = 0 /\ staged'.ok
      /\ staged'.to = compIO.through
  BY <1>1, NumbersType DEF Numbers, Image, Run, Runs
<1>3. TypeOK'
  BY <1>1, <1>2, QueueFacts DEF TypeOK, StageOk, Enqueue, core, loopVars,
     compVars, ghost, bounds, RwStates, Tasks
<1>4. LockHeld' /\ OneRewrite'
  BY <1>1 DEF LockHeld, OneRewrite, Rewriting, loopVars, compVars
<1>5. FileInv' /\ OwnInv' /\ CompInv'
  BY <1>1 DEF FileInv, OwnInv, CompInv, core, loopVars, compVars
<1>6. /\ Rewriting /\ Rewriting' /\ StagedTo' = StagedTo /\ TakenTo' = TakenTo
      /\ SwapTo' = SwapTo
  BY <1>1, <1>2 DEF Rewriting, StagedTo, TakenTo, SwapTo, compVars
<1>7. TailFollows'
  BY <1>1, <1>2, <1>6 DEF TailFollows, core
<1>8. SafeTo \in Nat /\ SafeTo' = SafeTo
  BY <1>1, <1>6, SafeType DEF SafeTo, Recovered
<1>9. Claims' /\ HeldInv'
  BY <1>1, <1>3, <1>8, NumbersType, ClaimsKept, HeldKept
     DEF Numbers, core, loopVars, ghost
<1> QED  BY <1>3, <1>4, <1>5, <1>7, <1>9

\* Taking the tail moves the meeting point, not the end.
LEMMA TakeFacts ==
  ASSUME IInv, rw = "wait", TailTake,
         UNCHANGED <<core, prog, disk, compVars>>, rw' \in {"extend", "swap"}
  PROVE  /\ comp = "idle" /\ Rewriting /\ Rewriting' /\ SwapTo' = SwapTo
         /\ rwDelta' \in Runs /\ tail' \in [active : BOOLEAN, run : Runs]
         /\ tail'.run = EmptyRun /\ TailFollows'
<1> USE DEF IInv
<1>1. /\ comp = "idle" /\ comp' = "idle" /\ Rewriting /\ Rewriting'
      /\ rwDelta = EmptyRun /\ staged' = staged
  BY DEF OneRewrite, Rewriting, compVars, disk
<1>2. /\ rwDelta' = tail.run
      /\ tail \in [active : BOOLEAN, run : Runs] /\ EmptyRun \in Runs
      /\ tail' = [tail EXCEPT !.run = EmptyRun]
  BY DEF TailTake, TypeOK, EmptyRun, Run, Runs
<1>3. /\ rwDelta' \in Runs /\ tail' \in [active : BOOLEAN, run : Runs]
      /\ tail'.run = EmptyRun /\ tail'.active = tail.active
  BY <1>2
<1>4. StagedTo = staged.to /\ StagedTo' = staged.to /\ TakenTo = staged.to
  BY <1>1 DEF StagedTo, TakenTo, IsEmptyRun, EmptyRun, Run
<1>5. TakenTo' = SwapTo /\ SwapTo' = SwapTo
  BY <1>2, <1>3, <1>4 DEF TakenTo, SwapTo, IsEmptyRun, EmptyRun, Run
<1>6. /\ tail.active /\ staged.from = 0 /\ staged.ok
      /\ tail.run.ok /\ tail.run.from <= tail.run.to
      /\ IsEmptyRun(tail.run) \/ tail.run.from = TakenTo
      /\ SwapTo <= drainedTo
      /\ ~prog.suspect => SwapTo = wal.run.to
  BY <1>1 DEF TailFollows
<1>7. TailFollows'
  BY <1>1, <1>2, <1>3, <1>4, <1>5, <1>6
     DEF TailFollows, IsEmptyRun, EmptyRun, Run, core, disk
<1> QED  BY <1>1, <1>3, <1>5, <1>7

\* A catch-up pass takes the tail.
LEMMA CatchUpTakeInv ==
  ASSUME IInv, ~Preemptive, CatchUpTake
  PROVE  IInv'
<1> USE DEF IInv
<1>1. /\ rw = "wait" /\ rw' = "extend" /\ TailTake /\ holder' = holder
      /\ UNCHANGED <<core, prog, disk, loopVars, compVars, passes, ghost, bounds>>
  BY DEF CatchUpTake, AcquireRelease
<1>2. /\ comp = "idle" /\ Rewriting /\ Rewriting' /\ SwapTo' = SwapTo
      /\ rwDelta' \in Runs /\ tail' \in [active : BOOLEAN, run : Runs]
      /\ TailFollows'
  BY <1>1, TakeFacts
<1>3. TypeOK'
  BY <1>1, <1>2, QueueFacts DEF TypeOK, CatchUpTake, AcquireRelease, core, disk,
     loopVars, compVars, ghost, bounds, RwStates
<1>4. LockHeld' /\ OneRewrite'
  BY <1>1, <1>2 DEF LockHeld, OneRewrite, Rewriting, loopVars, compVars
<1>5. FileInv' /\ OwnInv' /\ CompInv'
  BY <1>1, <1>2 DEF FileInv, OwnInv, CompInv, core, disk, loopVars, compVars
<1>6. SafeTo \in Nat /\ SafeTo' = SafeTo
  BY <1>1, <1>2, SafeType DEF SafeTo, Recovered, disk
<1>7. Claims' /\ HeldInv'
  BY <1>1, <1>3, <1>6, NumbersType, ClaimsKept, HeldKept
     DEF Numbers, core, loopVars, ghost
<1> QED  BY <1>2, <1>3, <1>4, <1>5, <1>7

\* So does the last one, which keeps the lock.
LEMMA FinalTakeInv ==
  ASSUME IInv, ~Preemptive, FinalTake
  PROVE  IInv'
<1> USE DEF IInv
<1>1. /\ rw = "wait" /\ rw' = "swap" /\ TailTake
      /\ holder = Nobody /\ holder' = "Rewrite"
      /\ UNCHANGED <<core, prog, disk, loopVars, compVars, passes, ghost, bounds>>
  BY DEF FinalTake, Acquire
<1>2. /\ comp = "idle" /\ Rewriting /\ Rewriting' /\ SwapTo' = SwapTo
      /\ rwDelta' \in Runs /\ tail' \in [active : BOOLEAN, run : Runs]
      /\ tail'.run = EmptyRun /\ TailFollows'
  BY <1>1, TakeFacts
<1>3. TypeOK'
  BY <1>1, <1>2, QueueFacts DEF TypeOK, FinalTake, Acquire, core, disk, loopVars,
     compVars, ghost, bounds, RwStates, Tasks
<1>4. LockHeld' /\ OneRewrite'
  BY <1>1, <1>2 DEF LockHeld, OneRewrite, Rewriting, loopVars, compVars, Nobody
<1>5. FileInv' /\ OwnInv' /\ CompInv'
  BY <1>1, <1>2 DEF FileInv, OwnInv, CompInv, core, disk, loopVars, compVars
<1>6. SafeTo \in Nat /\ SafeTo' = SafeTo
  BY <1>1, <1>2, SafeType DEF SafeTo, Recovered, disk
<1>7. Claims' /\ HeldInv'
  BY <1>1, <1>3, <1>6, NumbersType, ClaimsKept, HeldKept
     DEF Numbers, core, loopVars, ghost
<1> QED  BY <1>2, <1>3, <1>4, <1>5, <1>7

\* Image and extension make one contiguous run that ends where the tail begins.
LEMMA ExtendFacts ==
  ASSUME IInv, rw \in {"extend", "swap"}
  PROVE  /\ comp = "idle" /\ Rewriting
         /\ Concat(staged, rwDelta) \in Runs /\ Concat(staged, rwDelta).ok
         /\ Concat(staged, rwDelta).from = 0
         /\ Concat(staged, rwDelta).to = TakenTo
<1> USE DEF IInv
<1>1. comp = "idle" /\ Rewriting /\ StagedTo = staged.to
  BY DEF OneRewrite, Rewriting, StagedTo
<1>2. staged \in Runs /\ rwDelta \in Runs  BY DEF TypeOK
<1>3. /\ staged.from = 0 /\ staged.ok /\ rwDelta.ok
      /\ IsEmptyRun(rwDelta) \/ rwDelta.from = staged.to
  BY <1>1 DEF TailFollows
<1> QED  BY <1>1, <1>2, <1>3, ConcatFacts DEF TakenTo, IsEmptyRun

\* An extension moves what was taken into the staging file.
LEMMA CatchUpExtendInv ==
  ASSUME IInv, ~Preemptive, CatchUpExtend
  PROVE  IInv'
<1> USE DEF IInv
<1>1. /\ rw = "extend" /\ rw' = "wait" /\ rwDelta' = EmptyRun
      /\ staged' = Concat(staged, rwDelta)
      /\ UNCHANGED <<core, prog, holder, tail, wal, tmp, loopVars, compVars,
                     ghost, bounds>>
  BY DEF CatchUpExtend, Enqueue
<1>2. /\ comp = "idle" /\ Rewriting /\ staged' \in Runs /\ staged'.ok
      /\ staged'.from = 0 /\ staged'.to = TakenTo
  BY <1>1, ExtendFacts
<1>3. TypeOK'
  <2>1. passes' \in Nat /\ queue' \in Seq(Tasks)
    BY QueueFacts, DataWalAssumption DEF CatchUpExtend, Enqueue, TypeOK, Tasks
  <2> QED  BY <1>1, <1>2, <2>1 DEF TypeOK, core, loopVars, compVars, ghost, bounds,
              RwStates, EmptyRun, Run, Runs
<1>4. LockHeld' /\ OneRewrite'
  BY <1>1, <1>2 DEF LockHeld, OneRewrite, Rewriting, loopVars, compVars
<1>5. FileInv' /\ OwnInv' /\ CompInv'
  BY <1>1, <1>2 DEF FileInv, OwnInv, CompInv, core, loopVars, compVars
<1>6. /\ Rewriting' /\ StagedTo' = TakenTo /\ TakenTo' = TakenTo
      /\ SwapTo' = SwapTo
  BY <1>1, <1>2 DEF Rewriting, StagedTo, TakenTo, SwapTo, IsEmptyRun, EmptyRun,
     Run, compVars
<1>7. TailFollows'
  BY <1>1, <1>2, <1>6 DEF TailFollows, IsEmptyRun, EmptyRun, Run, core
<1>8. SafeTo \in Nat /\ SafeTo' = SafeTo
  BY <1>1, <1>2, <1>6, SafeType DEF SafeTo, Recovered
<1>9. Claims' /\ HeldInv'
  BY <1>1, <1>3, <1>8, NumbersType, ClaimsKept, HeldKept
     DEF Numbers, core, loopVars, ghost
<1> QED  BY <1>3, <1>4, <1>5, <1>7, <1>9

\* The swapped-in file ends where the pending swap was to end, so nothing claimed
\* is lost although the live file may have been longer.
LEMMA SwapOkInv ==
  ASSUME IInv, ~Preemptive, SwapOk
  PROVE  IInv'
<1> USE DEF IInv
<1>1. /\ rw = "swap" /\ rw' = "end" /\ rwDelta' = EmptyRun
      /\ holder = "Rewrite" /\ holder' = Nobody /\ queue' = queue
      /\ wal' = Intact(Concat(staged, rwDelta)) /\ tail.run = EmptyRun
      /\ UNCHANGED <<core, prog, tail, loopVars, compVars, passes, ghost, bounds>>
  BY DEF LockHeld, OneRewrite, SwapOk, Unlock
<1>2. /\ comp = "idle" /\ Rewriting /\ own \notin {"io", "rio"}
      /\ SwapTo = TakenTo
  BY <1>1, ExtendFacts DEF LockHeld, SwapTo, IsEmptyRun, EmptyRun, Run
<1>3. /\ wal' \in Files /\ ~wal'.torn /\ wal'.run.ok /\ wal'.run.from = 0
      /\ wal'.run.to = SwapTo
  BY <1>1, <1>2, ExtendFacts DEF Intact, Files
<1>4. TypeOK'
  BY <1>1, <1>3 DEF TypeOK, SwapOk, core, loopVars, compVars, ghost, bounds,
     RwStates, EmptyRun, Run, Runs
<1>5. LockHeld' /\ OneRewrite'
  BY <1>1, <1>2 DEF LockHeld, OneRewrite, Rewriting, loopVars, compVars, Nobody
<1>6. /\ SwapTo <= drainedTo
      /\ ~prog.suspect => SwapTo = wal.run.to /\ wal.run.to = drainedTo
  BY <1>2 DEF TailFollows, FileInv
<1>7. FileInv' /\ OwnInv'
  BY <1>1, <1>2, <1>3, <1>6 DEF FileInv, OwnInv, core, loopVars, compVars
<1>8. ~Rewriting' /\ TailFollows' /\ CompInv'
  BY <1>1, <1>2 DEF Rewriting, TailFollows, CompInv, compVars
<1>9. SafeTo \in Nat /\ SafeTo' \in Nat /\ SafeTo <= SafeTo'
  BY <1>2, <1>3, <1>4, <1>8, SafeBounds, SafeTypeNext DEF SafeTo, Recovered
<1>10. Claims' /\ HeldInv'
  BY <1>1, <1>4, <1>9, NumbersType, ClaimsKept, HeldKept
     DEF Numbers, core, loopVars, ghost
<1> QED  BY <1>4, <1>5, <1>7, <1>8, <1>10

\* An abandoned rewrite leaves the live file alone, and can only widen what is
\* safe.
LEMMA RewriteFullInv ==
  ASSUME IInv, ~Preemptive, RewriteFull
  PROVE  IInv'
<1> USE DEF IInv
<1>1. /\ rw \in {"stage", "extend", "swap"} /\ rw' = "abort" /\ comp = "idle"
      /\ rwDelta' = EmptyRun /\ queue' = queue
      /\ IF rw = "swap" THEN holder' = Nobody ELSE holder' = holder
      /\ UNCHANGED <<core, prog, tail, wal, staged, loopVars, compVars, passes,
                     ghost>>
  BY DEF OneRewrite, RewriteFull, Unlock, lock
<1>2. TypeOK'
  BY <1>1 DEF TypeOK, RewriteFull, DiskFull, core, loopVars, compVars, ghost,
     RwStates, EmptyRun, Run, Runs, Nobody
<1>3. LockHeld' /\ OneRewrite'
  BY <1>1 DEF LockHeld, OneRewrite, Rewriting, loopVars, compVars, Nobody
<1>4. FileInv' /\ OwnInv' /\ CompInv'
  BY <1>1 DEF FileInv, OwnInv, CompInv, core, loopVars, compVars
<1>5. ~Rewriting' /\ TailFollows'
  BY <1>1 DEF Rewriting, TailFollows, compVars
<1>6. SafeTo \in Nat /\ SafeTo' \in Nat /\ SafeTo <= SafeTo'
  BY <1>1, <1>2, <1>5, SafeBounds, SafeTypeNext DEF SafeTo, Recovered
<1>7. Claims' /\ HeldInv'
  BY <1>1, <1>2, <1>6, NumbersType, ClaimsKept, HeldKept
     DEF Numbers, core, loopVars, ghost
<1> QED  BY <1>2, <1>3, <1>4, <1>5, <1>7

\* Whatever prefix of the append in flight a crash leaves, the repaired file is
\* contiguous and no shorter than it was.
LEMMA CrashFacts ==
  ASSUME IInv, NEW kept \in InFlight.from .. InFlight.to
  PROVE  /\ CrashFile(kept) \in Files /\ ~CrashFile(kept).torn
         /\ CrashFile(kept).run.ok /\ CrashFile(kept).run.from = 0
         /\ wal.run.to <= CrashFile(kept).run.to
<1>1. /\ wal \in Files /\ wal.run \in Runs /\ wal.run.ok /\ wal.run.from = 0
      /\ wal.run.to \in Nat
  BY NumbersType DEF IInv, TypeOK, Numbers, Files, FileInv
<1>2. CASE wal.torn \/ IsEmptyRun(InFlight) \/ kept = InFlight.from
  <2>1. CrashFile(kept) = [run |-> wal.run, torn |-> FALSE]
    BY <1>2 DEF CrashFile, Repaired, Intact
  <2> QED  BY <1>1, <2>1 DEF Files
<1>3. CASE ~(wal.torn \/ IsEmptyRun(InFlight) \/ kept = InFlight.from)
  <2>1. InFlight \in Runs /\ InFlight.from = wal.run.to
    BY <1>3, NumbersType DEF IInv, TypeOK, IOs, OwnInv, CompInv, InFlight,
       IsEmptyRun, EmptyRun, Run
  <2> DEFINE s == Run(InFlight.from, kept)
  <2>2. /\ s \in Runs /\ s.ok /\ s.from = wal.run.to /\ s.to = kept
        /\ s.from # s.to /\ kept \in Nat /\ wal.run.to <= kept
    BY <1>1, <1>3, <2>1 DEF Run, Runs
  <2>3. CrashFile(kept) = [run |-> Concat(wal.run, s), torn |-> FALSE]
    BY <1>3 DEF CrashFile, Intact
  <2> HIDE DEF s
  <2>4. /\ Concat(wal.run, s) \in Runs /\ Concat(wal.run, s).ok
        /\ Concat(wal.run, s).from = 0 /\ Concat(wal.run, s).to = kept
    BY <1>1, <2>2, ConcatFacts
  <2> QED  BY <2>2, <2>3, <2>4 DEF Files
<1> QED  BY <1>2, <1>3

\* A restart finds all that was vouched for.
LEMMA CrashInv ==
  ASSUME IInv, Crash
  PROVE  IInv'
<1> USE DEF IInv
<1>1. PICK kept \in InFlight.from .. InFlight.to :
        LET file == CrashFile(kept) IN
         /\ wal' = file
         /\ ver' = Recovered(file)
         /\ drainedTo' = Recovered(file)
         /\ durableIndex' = Recovered(file)
         /\ base' = IF base > Recovered(file) THEN Recovered(file) ELSE base
  BY DEF Crash
<1>2. /\ wal' \in Files /\ ~wal'.torn /\ wal'.run.ok /\ wal'.run.from = 0
      /\ wal.run.to <= wal'.run.to /\ wal'.run.to \in Nat /\ wal.run.to \in Nat
      /\ ver' = wal'.run.to /\ drainedTo' = wal'.run.to
      /\ durableIndex' = wal'.run.to
  BY <1>1, CrashFacts, NumbersType DEF Numbers, Recovered, Files, Runs
<1>3. base' \in Nat
  BY <1>1, <1>2 DEF TypeOK, Recovered
<1>4. /\ prog' = NewProgress /\ holder' = Nobody /\ queue' = <<>> /\ gated' = <<>>
      /\ own' = "none" /\ comp' = "idle" /\ rw' = "idle" /\ rwDelta' = EmptyRun
      /\ vouched' = vouched
  BY DEF Crash
<1>5. TypeOK'
  <2> DEFINE S == [round : Nat, need : Nat]
  <2>1. gated' \in Seq(S) /\ queue' \in Seq(Tasks)
    <3> HIDE DEF S
    <3> QED  BY <1>4
  <2>2. /\ EmptyRun \in Runs /\ NoIO \in IOs /\ NewProgress \in Progresses
        /\ [active |-> FALSE, run |-> EmptyRun] \in [active : BOOLEAN, run : Runs]
    BY DEF EmptyRun, Run, Runs, NoIO, IOs, NewProgress, Progresses
  <2>3. fails' \in Nat /\ crashes' \in Nat
    BY DEF TypeOK, Crash
  <2> QED  BY <1>2, <1>3, <1>4, <2>1, <2>2, <2>3
           DEF TypeOK, Crash, OwnStates, CompStates, RwStates
<1>6. LockHeld' /\ OneRewrite' /\ OwnInv' /\ CompInv' /\ TailFollows' /\ FileInv'
  BY <1>2, <1>4 DEF LockHeld, OneRewrite, OwnInv, CompInv, TailFollows, FileInv,
     Rewriting, Nobody
<1>7. SafeTo' = wal'.run.to
  BY <1>4 DEF SafeTo, Rewriting, Recovered
<1>8. \A v \in vouched : v <= wal'.run.to
  <2>1. /\ vouched \subseteq Nat /\ SafeTo \in Nat /\ SafeTo <= wal.run.to
        /\ \A v \in vouched : v <= SafeTo
    BY SafeBounds DEF Claims, TypeOK
  <2> QED  BY <1>2, <2>1
<1>9. Claims'
  BY <1>2, <1>4, <1>7, <1>8 DEF Claims, NewProgress
<1>10. HeldInv'
  BY <1>4 DEF HeldInv, GatedInRoundOrder
<1> QED  BY <1>5, <1>6, <1>9, <1>10

-----------------------------------------------------------------------------
(* The theorems.                                                           *)

\* A fresh group vouches for nothing.
LEMMA InitIInv == Init => IInv
<1> SUFFICES ASSUME Init PROVE IInv
  OBVIOUS
<1>1. TypeOK
  <2> DEFINE S == [round : Nat, need : Nat]
  <2>1. gated \in Seq(S) /\ queue \in Seq(Tasks)
    <3> HIDE DEF S
    <3> QED  BY DEF Init
  <2>2. /\ EmptyRun \in Runs /\ NoIO \in IOs /\ NewProgress \in Progresses
        /\ [active |-> FALSE, run |-> EmptyRun] \in [active : BOOLEAN, run : Runs]
        /\ Intact(EmptyRun) \in Files
    BY DEF EmptyRun, Run, Runs, NoIO, IOs, NewProgress, Progresses, Intact, Files
  <2> QED  BY <2>1, <2>2 DEF Init, TypeOK, OwnStates, CompStates, RwStates
<1>2. LockHeld /\ OneRewrite /\ OwnInv /\ CompInv /\ TailFollows
  BY DEF Init, LockHeld, OneRewrite, OwnInv, CompInv, TailFollows, Rewriting,
     Nobody
<1>3. FileInv /\ Claims
  BY DEF Init, FileInv, Claims, SafeTo, Rewriting, Recovered, Intact, EmptyRun, Run,
     NewProgress
<1>4. HeldInv
  BY DEF Init, HeldInv, GatedInRoundOrder
<1> QED  BY <1>1, <1>2, <1>3, <1>4 DEF IInv

\* Every step keeps the inductive invariant.
LEMMA NextIInv ==
  ASSUME ~Preemptive, IInv, [Next]_vars
  PROVE  IInv'
<1>1. CASE Propose  BY <1>1, ProposeInv
<1>2. ASSUME NEW d \in {0, 1}, StepCore(d)
      PROVE  IInv'
  BY <1>2, StepCoreInv
<1>3. CASE LoopNext
  BY <1>3, LoopTopInv, LoopWakeInv, LoopShipInv, LoopSettleInv DEF LoopNext
<1>4. CASE PersistNext
  BY <1>4, PersistStartInv, PersistOkInv, PersistFullInv, RecoverProbeInv,
     RecoverCaptureInv, RecoverOkInv, RecoverFullInv, RecoverPanicInv
     DEF PersistNext
<1>5. CASE CompactNext
  BY <1>5, CompactWaitInv, CompactCaptureInv, EarlyOkInv, EarlyFullInv,
     CompactMarkSuspectInv, CompactSpawnInv DEF CompactNext
<1>6. CASE RewriteNext
  BY <1>6, StageOkInv, CatchUpTakeInv, CatchUpExtendInv, FinalTakeInv, SwapOkInv,
     RewriteFullInv, TailEndInv, DiscardStagedInv DEF RewriteNext
<1>7. CASE Crash  BY <1>7, CrashInv
<1>8. CASE UNCHANGED vars
  <2>1. UNCHANGED <<ver, drainedTo, durableIndex, base, prog, holder, queue, tail,
                    wal, tmp, staged, pc, own, ownIO, gated, comp, compIO, rw,
                    rwDelta, passes, vouched, panicked, fails, crashes>>
    BY <1>8 DEF vars, core, lock, disk, loopVars, compVars, rwVars, ghost, bounds
  <2>2. TypeOK' /\ LockHeld' /\ OneRewrite' /\ FileInv' /\ OwnInv'
    BY <2>1 DEF IInv, TypeOK, LockHeld, OneRewrite, FileInv, OwnInv, Rewriting
  <2>3. CompInv' /\ TailFollows' /\ Claims'
    BY <2>1 DEF IInv, CompInv, TailFollows, Claims, SafeTo, SwapTo, TakenTo,
       StagedTo, Rewriting
  <2>4. HeldInv'
    BY <2>1 DEF IInv, HeldInv, HeldFor, Dirty, GatedInRoundOrder, SafeTo, SwapTo,
       TakenTo, StagedTo, Rewriting
  <2> QED  BY <2>2, <2>3, <2>4 DEF IInv
<1> QED  BY <1>1, <1>2, <1>3, <1>4, <1>5, <1>6, <1>7, <1>8 DEF Next

\* On one executor the inductive invariant holds at every moment of every run of
\* drive, persist_wal, recover_kv_wal, apply_and_compact and rewrite_wal_staged.
THEOREM DataWalInvariant == ASSUME ~Preemptive PROVE Spec => []IInv
<1>1. Init => IInv
  BY InitIInv
<1>2. IInv /\ [Next]_vars => IInv'
  BY NextIInv
<1> QED  BY <1>1, <1>2, PTL DEF Spec

\* Every field keeps its type.
THEOREM DataWalTypes == ASSUME ~Preemptive PROVE Spec => []TypeOK
<1>1. IInv => TypeOK
  BY DEF IInv
<1> QED  BY <1>1, DataWalInvariant, PTL

\* Whatever a shipped vote grant, append accept or snapshot ack vouched for is
\* read back by a restart.
THEOREM AcksSurviveRestart ==
  ASSUME ~Preemptive PROVE Spec => []VouchedSurvivesRestart
<1>1. IInv => VouchedSurvivesRestart
  <2> SUFFICES ASSUME IInv, NEW v \in vouched PROVE v <= Recovered(wal)
    BY DEF VouchedSurvivesRestart
  <2>1. v \in Nat /\ v <= SafeTo /\ wal.run.to \in Nat
    BY NumbersType DEF IInv, TypeOK, Claims, Numbers
  <2> QED  BY <2>1, SafeBounds DEF Recovered
<1> QED  BY <1>1, DataWalInvariant, PTL

\* mark_durable_through is never called for records a restart would not replay.
THEOREM DurableIndexSafe == ASSUME ~Preemptive PROVE Spec => []DurableIndexOnDisk
<1>1. IInv => DurableIndexOnDisk
  <2> SUFFICES ASSUME IInv PROVE durableIndex <= Recovered(wal)
    BY DEF DurableIndexOnDisk
  <2>1. durableIndex \in Nat /\ durableIndex <= SafeTo /\ wal.run.to \in Nat
    BY NumbersType DEF IInv, Claims, Numbers
  <2> QED  BY <2>1, SafeBounds DEF Recovered
<1> QED  BY <1>1, DataWalInvariant, PTL

\* check_log_contiguous never refuses the live file, however appends, images,
\* tails and swaps interleave.
THEOREM LiveFileReplays == ASSUME ~Preemptive PROVE Spec => []WalReplayable
<1>1. IInv => WalReplayable
  BY DEF IInv, FileInv, WalReplayable, Replayable
<1> QED  BY <1>1, DataWalInvariant, PTL

\* The debug_assert of GatedOuts::push never fires.
THEOREM HeldInRoundOrder == ASSUME ~Preemptive PROVE Spec => []GatedInRoundOrder
<1>1. IInv => GatedInRoundOrder
  BY DEF IInv, HeldInv
<1> QED  BY <1>1, DataWalInvariant, PTL

\* A landed round never un-lands before a crash, and is a round somebody drained.
THEOREM RoundsOnlyLand == ASSUME ~Preemptive PROVE Spec => RoundsMoveForward
<1> DEFINE Forward == /\ prog.drained <= prog'.drained
                      /\ prog.durable <= prog'.durable
<1>1. ASSUME IInv, [Next]_vars
      PROVE  prog' = NewProgress \/ Forward
  <2>1. /\ TypeOK /\ prog \in Progresses /\ prog.drained \in Nat
        /\ prog.durable \in Nat /\ prog.durable <= prog.drained
        /\ ownIO.round \in Nat /\ compIO.round \in Nat
    BY <1>1, NumbersType DEF IInv, TypeOK, Numbers, Claims
  <2>2. CASE UNCHANGED prog
    BY <2>1, <2>2
  <2>3. CASE DrainForRound
    BY <2>1, <2>3, DrainFacts DEF Dirty
  <2>4. CASE prog' = MarkSuspect(prog)
    BY <2>1, <2>4, ProgressFacts
  <2>5. ASSUME NEW r \in Nat, prog' = CompleteDrain(prog, r)
        PROVE  Forward
    BY <2>1, <2>5, ProgressFacts
  <2>6. CASE RecoverOk
    <3> DEFINE p == CompleteDrain(prog, prog.drained)
    <3>1. p \in Progresses /\ p.drained = prog.drained /\ p.durable = prog.drained
      <4>1. /\ p \in Progresses /\ p.drained = prog.drained
            /\ p.durable = IF prog.drained > prog.durable THEN prog.drained
                           ELSE prog.durable
        BY <2>1, ProgressFacts
      <4> QED  BY <2>1, <4>1
    <3>2. prog' = [p EXCEPT !.suspect = FALSE]
      BY <2>6 DEF RecoverOk, CompleteAllDrained
    <3> HIDE DEF p
    <3> QED  BY <2>1, <3>1, <3>2 DEF Progresses
  <2>7. CASE Crash
    BY <2>7 DEF Crash
  <2>8. CASE PersistNext \/ CompactNext
    BY <2>1, <2>2, <2>3, <2>4, <2>5, <2>6, <2>8
       DEF PersistNext, PersistStart, PersistOk, PersistFull, RecoverProbe,
       RecoverCapture, RecoverFull, RecoverPanic, CompactNext, CompactWait,
       CompactCapture, EarlyOk, EarlyFull, CompactMarkSuspect, CompactSpawn
  <2>9. CASE \/ Propose \/ LoopNext \/ RewriteNext \/ UNCHANGED vars
             \/ \E d \in {0, 1} : StepCore(d)
    BY <2>2, <2>9
       DEF vars, Propose, StepCore, LoopNext, LoopTop, LoopWake, LoopShip,
       LoopSettle, RewriteNext, StageOk, CatchUpTake, CatchUpExtend, FinalTake,
       SwapOk, RewriteFull, TailEnd, DiscardStaged
  <2> QED  BY <1>1, <2>7, <2>8, <2>9 DEF Next
<1>2. IInv /\ IInv' /\ [Next]_vars =>
        [prog' = NewProgress \/
           /\ prog.drained <= prog'.drained /\ prog.durable <= prog'.durable
           /\ prog'.durable <= prog'.drained]_vars
  BY <1>1 DEF IInv, Claims
<1> QED  BY <1>2, DataWalInvariant, PTL DEF Spec, RoundsMoveForward

\* While a rewrite is staging, swapping or has yet to end its tail, the tail
\* says so; that keeps recover_kv_wal off the staging file.
TmpInv ==
  /\ Rewriting \/ rw \in {"end", "abort"} => tail.active
  /\ TmpNotShared

\* A step that moves neither the suspect-file rewrite, the staged one nor the
\* tail's flag keeps it.
LEMMA TmpKept ==
  ASSUME TmpInv, UNCHANGED <<rw, tmp>>, tail'.active = tail.active,
         comp' = "claim" => comp = "claim", own' = "rio" => own = "rio"
  PROVE  TmpInv'
BY DEF TmpInv, TmpNotShared, Rewriting

\* Every step of the driver keeps who may be writing the staged file.
LEMMA TmpStep ==
  ASSUME IInv, TmpInv, [Next]_vars
  PROVE  TmpInv'
<1> USE DEF Rewriting
<1>1. CASE LoopNext \/ Propose \/ \E d \in {0, 1} : StepCore(d)
  <2>1. UNCHANGED <<rw, tmp, tail, comp>>
    BY <1>1 DEF LoopNext, LoopTop, LoopWake, LoopShip, LoopSettle, Propose,
       StepCore, disk, rwVars, compVars
  <2>2. own' = "rio" => own = "rio"
    BY <1>1 DEF LoopNext, LoopTop, LoopWake, LoopShip, LoopSettle, Propose,
       StepCore, loopVars
  <2> QED  BY <2>1, <2>2, TmpKept
<1>2. CASE PersistNext
  <2>1. CASE PersistStart \/ PersistFull \/ RecoverProbe \/ RecoverPanic
    BY <2>1, TmpKept DEF PersistStart, RoundDone, PersistFull, RecoverProbe,
       RecoverPanic, disk, rwVars, compVars, loopVars
  <2>2. CASE PersistOk
    <3>1. tail'.active = tail.active
      BY <2>2 DEF PersistOk, TailPush, IInv, TypeOK
    <3> QED  BY <2>2, <3>1, TmpKept DEF PersistOk, RoundDone, rwVars, compVars
  <2>3. CASE RecoverCapture
    BY <2>3 DEF RecoverCapture, Staging, TmpInv, TmpNotShared, rwVars, compVars,
       IInv, TypeOK, RwStates
  <2>4. CASE RecoverOk \/ RecoverFull
    BY <2>4 DEF RecoverOk, RecoverFull, RoundDone, TmpInv, TmpNotShared, rwVars,
       compVars
  <2> QED  BY <1>2, <2>1, <2>2, <2>3, <2>4 DEF PersistNext
<1>3. CASE CompactNext
  <2>1. CASE CompactWait \/ CompactCapture \/ EarlyFull \/ CompactMarkSuspect
    BY <2>1, TmpKept DEF CompactWait, CompactCapture, EarlyFull,
       CompactMarkSuspect, disk, rwVars, loopVars
  <2>2. CASE EarlyOk
    BY <2>2 DEF EarlyOk, TmpInv, TmpNotShared, rwVars, loopVars
  <2>3. CASE CompactSpawn
    BY <2>3 DEF CompactSpawn, TmpInv, TmpNotShared, disk, loopVars, IInv, OneRewrite
  <2> QED  BY <1>3, <2>1, <2>2, <2>3 DEF CompactNext
<1>4. CASE RewriteNext
  <2>1. CASE StageOk \/ CatchUpTake \/ CatchUpExtend \/ FinalTake
    <3>1. own # "rio" /\ own' = own /\ comp' = comp /\ tail'.active = tail.active
      BY <2>1 DEF StageOk, CatchUpTake, CatchUpExtend, FinalTake, TailTake,
         loopVars, compVars, IInv, TypeOK, OneRewrite
    <3> QED
      BY <2>1, <3>1 DEF StageOk, CatchUpTake, CatchUpExtend, FinalTake, TmpInv,
         TmpNotShared
  <2>2. CASE SwapOk \/ RewriteFull
    <3>1. own # "rio" /\ own' = own /\ comp' = comp /\ tail' = tail
      BY <2>2 DEF SwapOk, RewriteFull, loopVars, compVars, IInv, OneRewrite
    <3> QED  BY <2>2, <3>1 DEF SwapOk, RewriteFull, TmpInv, TmpNotShared
  <2>3. CASE TailEnd
    BY <2>3 DEF TailEnd, TmpInv, TmpNotShared, loopVars, compVars, disk, IInv,
       OneRewrite
  <2>4. CASE DiscardStaged
    BY <2>4 DEF DiscardStaged, TmpInv, TmpNotShared, loopVars, compVars, IInv,
       OneRewrite
  <2> QED  BY <1>4, <2>1, <2>2, <2>3, <2>4 DEF RewriteNext
<1>5. CASE Crash  BY <1>5 DEF Crash, TmpInv, TmpNotShared
<1>6. CASE UNCHANGED vars
  BY <1>6, TmpKept DEF vars, disk, rwVars, compVars, loopVars
<1> QED  BY <1>1, <1>2, <1>3, <1>4, <1>5, <1>6 DEF Next

\* The suspect-WAL rewrite of recover_kv_wal never meets a staged rewrite that
\* still writes {wal}.tmp: at most a failed one that has yet to discard it.
THEOREM TmpFileNotShared == ASSUME ~Preemptive PROVE Spec => []TmpNotShared
<1>1. Init => TmpInv  BY DEF Init, TmpInv, TmpNotShared, Rewriting
<1>2. IInv /\ TmpInv /\ [Next]_vars => TmpInv'  BY TmpStep
<1>3. TmpInv => TmpNotShared  BY DEF TmpInv
<1> QED  BY <1>1, <1>2, <1>3, DataWalInvariant, PTL DEF Spec
=============================================================================
