-------------------------- MODULE ControlWalProofs --------------------------
(***************************************************************************)
(* What the control-plane driver vouches for survives a restart, for every *)
(* number of mutations, installs, held batches, full disks and crashes,    *)
(* when its tasks share one executor (~Preemptive) and the node is not     *)
(* flushed for a shutdown (MaxFlush = 0).                                  *)
(***************************************************************************)
EXTENDS ControlWal, WalFacts

\* The persist_wal future of the consensus loop, and its batch or image.
LoopFut == fut["Loop"]
LoopIO == futIO["Loop"]

\* No flush runs beside the loop.
OneCaller == fut["Flush"] = "none" /\ flushes = 0

\* wal_lock is held exactly over the loop's and the apply task's critical sections.
LockHeld ==
  /\ holder = "Loop" <=> LoopFut \in {"held", "io", "rio"}
  /\ holder = "Apply" <=> apply = "replace"

\* Undrained records meet and reach the last mutation, unless an install came
\* between them: then the snapshot is dirty and a rewrite is owed.
CoreInv ==
  /\ lastRec <= ver
  /\ pending.from <= pending.to /\ pending.to <= ver
  /\ owed => snapDirty
  /\ ~owed => pending.ok /\ (Dirty => pending.to = ver)

\* Who may meet a suspect file: an append or a compaction never does, the
\* recovery always does; the loop drains only what no install holds back.
Suspects ==
  /\ LoopFut = "held" => ~prog.suspect /\ ~owed
  /\ LoopFut \in {"sleep", "rwait", "rio"} => prog.suspect
  /\ LoopFut = "io" \/ apply = "replace" => ~prog.suspect

\* The file is a contiguous log of mutations made, whole unless it is suspect.
FileInv ==
  /\ wal.run.from = 0 /\ wal.run.ok /\ wal.run.to <= ver
  /\ ~prog.suspect => ~wal.torn

\* The batch in flight meets the file; an image covers it.
IOInv ==
  /\ LoopFut = "io" =>
       /\ LoopIO.run.from = wal.run.to /\ LoopIO.run.from < LoopIO.run.to
       /\ LoopIO.round = prog.drained
  /\ LoopFut = "rio" => LoopIO.run.from = 0 /\ wal.run.to <= LoopIO.run.to
  /\ LoopFut \in {"io", "rio"} =>
       LoopIO.run.ok /\ LoopIO.through = LoopIO.run.to /\ LoopIO.run.to <= ver
  /\ apply = "replace" =>
       /\ applyIO.run.from = 0 /\ applyIO.run.ok /\ applyIO.run.to <= ver
       /\ wal.run.to <= applyIO.run.to /\ applyIO.through = applyIO.run.to
       /\ applyIO.round \in {0, prog.drained}

\* What is drained is in the file or on its way there: the file is not suspect,
\* or the image that replaces it is being written.
Taking == ~prog.suspect \/ LoopFut = "rio"

\* Where the file ends once the write in flight has landed.
End == IF LoopFut \in {"io", "rio"} THEN LoopIO.run.to
       ELSE IF apply = "replace" THEN applyIO.run.to
       ELSE wal.run.to

\* The first mutation that is not drained yet follows this one.
Front == IF Dirty THEN pending.from ELSE ver

\* No drained mutation is missing from the file to come.
EndInv ==
  Taking => /\ ~owed => End = Front
            /\ ~Dirty => lastRec <= End

\* What was claimed is on disk, and so is what a landed round covers.
Claims ==
  /\ \A v \in vouched : v <= wal.run.to
  /\ durableIndex <= wal.run.to
  /\ prog.durable <= prog.drained
  /\ prog.durable = prog.drained /\ ~Dirty => lastRec <= wal.run.to

\* A held batch waits for a round that covers all it needs.
HeldFor(g) ==
  /\ g.need <= ver
  /\ g.round <= prog.drained + 1
  /\ g.round > prog.drained => Dirty
  /\ g.round <= prog.durable => g.need <= wal.run.to
  /\ Taking /\ g.round <= prog.drained => g.need <= End

HeldInv ==
  /\ \A i \in 1 .. Len(gated) : HeldFor(gated[i])
  /\ GatedInRoundOrder

IInv ==
  /\ TypeOK /\ OneCaller /\ LockHeld /\ CoreInv /\ Suspects /\ FileInv /\ IOInv
  /\ EndInv /\ Claims /\ HeldInv
-----------------------------------------------------------------------------
(* Types of the parts, and what a drain and the lock do.                   *)

\* The numbers in the records.
Numbers ==
  /\ ver \in Nat /\ lastRec \in Nat /\ durableIndex \in Nat /\ base \in Nat
  /\ pendInstall \in Nat /\ engineAt \in Nat /\ walBase \in Nat
  /\ pending.from \in Nat /\ pending.to \in Nat /\ pending.ok \in BOOLEAN
  /\ prog.drained \in Nat /\ prog.durable \in Nat /\ prog.suspect \in BOOLEAN
  /\ wal.run.from \in Nat /\ wal.run.to \in Nat /\ wal.run.ok \in BOOLEAN
  /\ LoopIO.run.from \in Nat /\ LoopIO.run.to \in Nat
  /\ LoopIO.through \in Nat /\ LoopIO.round \in Nat /\ LoopIO.base \in Nat
  /\ applyIO.run.from \in Nat /\ applyIO.run.to \in Nat
  /\ applyIO.through \in Nat /\ applyIO.round \in Nat /\ applyIO.base \in Nat
  /\ End \in Nat /\ Front \in Nat

\* They are numbers.
LEMMA NumbersType == TypeOK => Numbers
<1> SUFFICES ASSUME TypeOK PROVE Numbers
  OBVIOUS
<1>1. LoopIO \in IOs /\ applyIO \in IOs
  BY DEF TypeOK, LoopIO, Persisters
<1>2. wal \in Files /\ pending \in Runs /\ prog \in Progresses
  BY DEF TypeOK
<1>3. /\ ver \in Nat /\ lastRec \in Nat /\ durableIndex \in Nat /\ base \in Nat
      /\ pendInstall \in Nat /\ engineAt \in Nat /\ walBase \in Nat
  BY DEF TypeOK
<1>4. /\ pending.from \in Nat /\ pending.to \in Nat /\ pending.ok \in BOOLEAN
      /\ prog.drained \in Nat /\ prog.durable \in Nat
      /\ prog.suspect \in BOOLEAN
      /\ wal.run.from \in Nat /\ wal.run.to \in Nat /\ wal.run.ok \in BOOLEAN
  BY <1>2 DEF Files, Runs, Progresses
<1>5. /\ LoopIO.run.from \in Nat /\ LoopIO.run.to \in Nat
      /\ LoopIO.through \in Nat /\ LoopIO.round \in Nat /\ LoopIO.base \in Nat
      /\ applyIO.run.from \in Nat /\ applyIO.run.to \in Nat
      /\ applyIO.through \in Nat /\ applyIO.round \in Nat
      /\ applyIO.base \in Nat
  BY <1>1 DEF IOs, Runs
<1>6. End \in Nat /\ Front \in Nat
  BY <1>3, <1>4, <1>5 DEF End, Front
<1> QED  BY <1>3, <1>4, <1>5, <1>6 DEF Numbers

\* The same after a step.
LEMMA NumbersNext == TypeOK' => Numbers'
<1> SUFFICES ASSUME TypeOK' PROVE Numbers'
  OBVIOUS
<1>1. LoopIO' \in IOs /\ applyIO' \in IOs
  BY DEF TypeOK, LoopIO, Persisters
<1>2. wal' \in Files /\ pending' \in Runs /\ prog' \in Progresses
  BY DEF TypeOK
<1>3. /\ ver' \in Nat /\ lastRec' \in Nat /\ durableIndex' \in Nat
      /\ base' \in Nat /\ pendInstall' \in Nat /\ engineAt' \in Nat
      /\ walBase' \in Nat
  BY DEF TypeOK
<1>4. /\ pending'.from \in Nat /\ pending'.to \in Nat
      /\ pending'.ok \in BOOLEAN
      /\ prog'.drained \in Nat /\ prog'.durable \in Nat
      /\ prog'.suspect \in BOOLEAN
      /\ wal'.run.from \in Nat /\ wal'.run.to \in Nat
      /\ wal'.run.ok \in BOOLEAN
  BY <1>2 DEF Files, Runs, Progresses
<1>5. /\ LoopIO'.run.from \in Nat /\ LoopIO'.run.to \in Nat
      /\ LoopIO'.through \in Nat /\ LoopIO'.round \in Nat
      /\ LoopIO'.base \in Nat
      /\ applyIO'.run.from \in Nat /\ applyIO'.run.to \in Nat
      /\ applyIO'.through \in Nat /\ applyIO'.round \in Nat
      /\ applyIO'.base \in Nat
  BY <1>1 DEF IOs, Runs
<1>6. End' \in Nat /\ Front' \in Nat
  BY <1>3, <1>4, <1>5 DEF End, Front
<1> QED  BY <1>3, <1>4, <1>5, <1>6 DEF Numbers

\* The lock's queue stays a sequence of tasks.
LEMMA QueueFacts ==
  ASSUME NEW q \in Seq(LockUsers)
  PROVE  /\ \A t \in LockUsers : Append(q, t) \in Seq(LockUsers)
         /\ q # <<>> => Tail(q) \in Seq(LockUsers)
OBVIOUS

\* A step of the loop's future leaves the flush's alone.
LEMMA FutFacts ==
  ASSUME TypeOK, NEW s \in FutStates, NEW o \in IOs
  PROVE  /\ [fut EXCEPT !["Loop"] = s] \in [Persisters -> FutStates]
         /\ [fut EXCEPT !["Loop"] = s]["Loop"] = s
         /\ [fut EXCEPT !["Loop"] = s]["Flush"] = fut["Flush"]
         /\ [futIO EXCEPT !["Loop"] = o] \in [Persisters -> IOs]
         /\ [futIO EXCEPT !["Loop"] = o]["Loop"] = o
BY DEF TypeOK, Persisters

\* An empty batch is a batch.
LEMMA NoIOType == NoIO \in IOs
BY DEF NoIO, IOs, Runs, EmptyRun, Run

\* A drain takes all that is pending, and is a round if there was any.
LEMMA DrainFacts ==
  ASSUME TypeOK, DrainForRound
  PROVE  /\ pending' \in Runs /\ pending'.ok /\ pending'.from = 0
         /\ pending'.to = 0 /\ ~Dirty'
         /\ prog' \in Progresses
         /\ prog'.durable = prog.durable /\ prog'.suspect = prog.suspect
         /\ Dirty => prog'.drained = prog.drained + 1
         /\ ~Dirty => prog'.drained = prog.drained
<1>1. prog \in Progresses  BY DEF TypeOK
<1>2. pending' = EmptyRun  BY DEF DrainForRound
<1>3. /\ pending' \in Runs /\ pending'.ok /\ pending'.from = 0
      /\ pending'.to = 0 /\ ~Dirty'
  BY <1>2 DEF EmptyRun, Run, Runs, Dirty, IsEmptyRun
<1>4. CASE Dirty
  <2>1. prog' = [prog EXCEPT !.drained = @ + 1]
    BY <1>4 DEF DrainForRound, BeginDrain
  <2>2. /\ prog' \in Progresses /\ prog'.drained = prog.drained + 1
        /\ prog'.durable = prog.durable /\ prog'.suspect = prog.suspect
    BY <1>1, <2>1 DEF Progresses
  <2> QED  BY <1>3, <1>4, <2>2
<1>5. CASE ~Dirty
  <2>1. prog' = prog  BY <1>5 DEF DrainForRound, BeginDrain
  <2> QED  BY <1>1, <1>3, <1>5, <2>1
<1> QED  BY <1>4, <1>5

\* The fields of a held batch are numbers.
LEMMA HeldTypes ==
  TypeOK => \A i \in 1 .. Len(gated) :
              gated[i].need \in Nat /\ gated[i].round \in Nat
<1> SUFFICES ASSUME TypeOK, NEW i \in 1 .. Len(gated)
             PROVE  gated[i].need \in Nat /\ gated[i].round \in Nat
  OBVIOUS
<1> DEFINE S == [round : Nat, need : Nat]
<1>1. gated \in Seq(S)  BY DEF TypeOK
<1> HIDE DEF S
<1>2. gated[i] \in S  BY <1>1
<1> QED  BY <1>2 DEF S

-----------------------------------------------------------------------------
(* The claims and the held batches, for the steps that ship nothing.       *)

\* Mutations are made, rounds land, nothing is drained.
LEMMA HeldKept ==
  ASSUME TypeOK, TypeOK', HeldInv, gated' = gated, ver <= ver',
         prog'.drained = prog.drained, Dirty => Dirty',
         wal.run.to <= wal'.run.to, Taking' => Taking /\ End' = End,
         \/ prog'.durable = prog.durable
         \/ prog'.durable <= prog.drained /\ Taking /\ End <= wal'.run.to
  PROVE  HeldInv'
<1>1. GatedInRoundOrder'
  BY DEF HeldInv, GatedInRoundOrder
<1>2. /\ ver \in Nat /\ ver' \in Nat /\ End \in Nat /\ wal.run.to \in Nat
      /\ wal'.run.to \in Nat
      /\ prog.drained \in Nat /\ prog.durable \in Nat /\ prog'.durable \in Nat
  BY NumbersType, NumbersNext DEF Numbers
<1>3. ASSUME NEW i \in 1 .. Len(gated')
      PROVE  HeldFor(gated[i])'
  <2> DEFINE g == gated[i]
  <2>1. g' = g /\ g.need \in Nat /\ g.round \in Nat /\ HeldFor(g)
    BY HeldTypes DEF HeldInv
  <2> HIDE DEF g
  <2>2. g.round <= prog'.durable => g.need <= wal'.run.to
    <3>1. CASE prog'.durable = prog.durable  BY <1>2, <2>1, <3>1 DEF HeldFor
    <3>2. CASE prog'.durable <= prog.drained /\ Taking /\ End <= wal'.run.to
      <4>1. g.round <= prog.drained => g.need <= End  BY <2>1, <3>2 DEF HeldFor
      <4> QED  BY <1>2, <2>1, <3>2, <4>1
    <3> QED  BY <3>1, <3>2
  <2>3. /\ g.need <= ver' /\ g.round <= prog'.drained + 1
        /\ g.round > prog'.drained => Dirty'
        /\ Taking' /\ g.round <= prog'.drained => g.need <= End'
    BY <1>2, <2>1 DEF HeldFor
  <2>4. HeldFor(g)'  BY <2>1, <2>2, <2>3 DEF HeldFor
  <2> QED  BY <2>4 DEF g
<1> QED  BY <1>1, <1>3 DEF HeldInv

\* A drain covers what the next round was to cover.
LEMMA HeldDrain ==
  ASSUME TypeOK, TypeOK', HeldInv, gated' = gated, ver' = ver, DrainForRound,
         wal' = wal, Taking' => End' = ver
  PROVE  HeldInv'
<1>1. GatedInRoundOrder'
  BY DEF HeldInv, GatedInRoundOrder
<1>2. /\ ver \in Nat /\ wal.run.to \in Nat
      /\ prog.drained \in Nat /\ prog.durable \in Nat
  BY NumbersType DEF Numbers
<1>3. ASSUME NEW i \in 1 .. Len(gated')
      PROVE  HeldFor(gated[i])'
  <2>1. /\ gated[i].need \in Nat /\ gated[i].round \in Nat /\ HeldFor(gated[i])
    BY HeldTypes DEF HeldInv
  <2> QED  BY <1>2, <2>1, DrainFacts DEF HeldFor
<1> QED  BY <1>1, <1>3 DEF HeldInv

\* What was claimed stays on disk while the file grows.
LEMMA ClaimsKept ==
  ASSUME TypeOK, TypeOK', Claims, EndInv, vouched' = vouched,
         UNCHANGED <<pending, lastRec>>, prog'.drained = prog.drained,
         wal.run.to <= wal'.run.to,
         durableIndex' = durableIndex \/ durableIndex' <= wal'.run.to,
         \/ prog'.durable = prog.durable
         \/ prog'.durable <= prog.drained /\ Taking /\ End <= wal'.run.to
  PROVE  Claims'
<1>1. /\ wal.run.to \in Nat /\ wal'.run.to \in Nat /\ durableIndex \in Nat
      /\ lastRec \in Nat /\ End \in Nat /\ prog.drained \in Nat
      /\ prog.durable \in Nat
  BY NumbersType, NumbersNext DEF Numbers
<1>2. vouched \subseteq Nat  BY DEF TypeOK
<1>3. Dirty' <=> Dirty  BY DEF Dirty
<1> QED  BY <1>1, <1>2, <1>3 DEF Claims, EndInv

\* A drain claims nothing: what it takes was not durable before it.
LEMMA ClaimsDrain ==
  ASSUME TypeOK, Claims, DrainForRound,
         UNCHANGED <<vouched, durableIndex, wal, lastRec>>
  PROVE  Claims'
<1>1. prog.drained \in Nat /\ prog.durable \in Nat
  BY NumbersType DEF Numbers
<1> QED  BY <1>1, DrainFacts DEF Claims

\* A step that ships nothing, drains nothing and leaves the file and the write
\* in flight alone keeps every claim.
LEMMA QuietStep ==
  ASSUME IInv, TypeOK',
         UNCHANGED <<ver, lastRec, pending, durableIndex, snapDirty, owed, prog,
                     wal, gated, vouched>>,
         Taking' => Taking /\ End' = End
  PROVE  CoreInv' /\ FileInv' /\ EndInv' /\ Claims' /\ HeldInv'
<1>1. Dirty' <=> Dirty  BY DEF Dirty
<1>2. Front' = Front  BY DEF Front, Dirty
<1>3. CoreInv' /\ FileInv'
  BY <1>1 DEF IInv, CoreInv, FileInv
<1>4. EndInv'
  BY <1>1, <1>2 DEF IInv, EndInv
<1>5. ver <= ver' /\ wal.run.to <= wal'.run.to
  BY NumbersType DEF IInv, Numbers
<1>6. Claims' /\ HeldInv'
  BY <1>1, <1>5, ClaimsKept, HeldKept DEF IInv
<1> QED  BY <1>3, <1>4, <1>6

\* Such a step of the loop's future or of the apply task enters no write: it
\* leaves the writes in flight alone, or gives up the image of a suspect file.
LEMMA QuietInv ==
  ASSUME IInv, TypeOK', OneCaller', LockHeld', Suspects',
         UNCHANGED <<ver, lastRec, pending, durableIndex, snapDirty, owed, prog,
                     wal, gated, vouched>>,
         \/ LoopFut' = LoopFut /\ LoopIO' = LoopIO
         \/ /\ LoopFut' \notin {"io", "rio"}
            /\ LoopFut \notin {"io", "rio"} \/ prog.suspect,
         \/ apply' = apply /\ applyIO' = applyIO
         \/ apply # "replace" /\ apply' # "replace"
  PROVE  IInv'
<1>1. IOInv'
  BY DEF IInv, IOInv
<1>2. Taking' => Taking /\ End' = End
  BY DEF Taking, End
<1> QED  BY <1>1, <1>2, QuietStep DEF IInv

-----------------------------------------------------------------------------
(* One lemma per action; first those that claim nothing.                   *)

\* The loop queues for the lock.
LEMMA LoopTopInv ==
  ASSUME IInv, LoopTop
  PROVE  IInv'
<1>1. /\ UNCHANGED <<ver, lastRec, pending, durableIndex, base, snapDirty, owed,
                     pendInstall, prog, wal, walBase, engineAt, futIO, gated,
                     apply, applyIO, vouched, halted, fails, crashes, installs,
                     flushes, holder>>
      /\ pc' = "select" /\ queue' \in Seq(LockUsers)
  <2>1. "Loop" \in LockUsers  BY DEF LockUsers, Persisters
  <2>2. queue \in Seq(LockUsers)  BY DEF IInv, TypeOK
  <2>3. queue' = queue \/ queue' = Append(queue, "Loop")
    BY DEF LoopTop, Enqueue, lock
  <2>4. queue' \in Seq(LockUsers)  BY <2>1, <2>2, <2>3, QueueFacts
  <2> QED
    BY <2>4 DEF LoopTop, Enqueue, core, lock, disk, applyVars, ghost, bounds
<1>2. \/ fut' = fut
      \/ fut["Loop"] = "none" /\ fut' = [fut EXCEPT !["Loop"] = "wait"]
  BY DEF LoopTop, RoundWanted
<1>3. /\ fut' \in [Persisters -> FutStates] /\ fut'["Flush"] = fut["Flush"]
      /\ \/ LoopFut' = LoopFut
         \/ LoopFut = "none" /\ LoopFut' = "wait"
  <2>1. CASE fut' = fut
    BY <2>1 DEF IInv, TypeOK, LoopFut
  <2>2. CASE fut["Loop"] = "none" /\ fut' = [fut EXCEPT !["Loop"] = "wait"]
    BY <2>2, FutFacts, NoIOType DEF IInv, LoopFut, FutStates
  <2> QED  BY <1>2, <2>1, <2>2
<1>4. TypeOK'  BY <1>1, <1>3 DEF IInv, TypeOK
<1>5. OneCaller' /\ LockHeld' /\ Suspects'
  BY <1>1, <1>3 DEF IInv, OneCaller, LockHeld, Suspects
<1>6. LoopIO' = LoopIO  BY <1>1 DEF LoopIO
<1> QED  BY <1>1, <1>3, <1>4, <1>5, <1>6, QuietInv

\* The loop goes on to ship.
LEMMA LoopWakeInv ==
  ASSUME IInv, LoopWake
  PROVE  IInv'
<1>1. /\ UNCHANGED <<core, prog, lock, disk, futVars, gated, applyVars, ghost,
                     bounds>>
      /\ pc' = "ship"
  BY DEF LoopWake
<1>2. TypeOK'
  BY <1>1 DEF IInv, TypeOK, core, lock, disk, futVars, applyVars, ghost, bounds
<1>3. OneCaller' /\ LockHeld' /\ Suspects'
  BY <1>1 DEF IInv, OneCaller, LockHeld, Suspects, LoopFut, core, lock, futVars,
     applyVars, bounds
<1>4. LoopFut' = LoopFut /\ LoopIO' = LoopIO
  BY <1>1 DEF LoopFut, LoopIO, futVars
<1> QED
  BY <1>1, <1>2, <1>3, <1>4, QuietInv DEF core, disk, applyVars, ghost

\* The probe of the recovery queues for the lock.
LEMMA RecoverProbeInv ==
  ASSUME IInv, RecoverProbe("Loop")
  PROVE  IInv'
<1>1. /\ UNCHANGED <<core, prog, holder, disk, pc, futIO, gated, applyVars,
                     ghost, bounds>>
      /\ queue' \in Seq(LockUsers)
      /\ LoopFut = "sleep" /\ fut' = [fut EXCEPT !["Loop"] = "rwait"]
  BY QueueFacts DEF RecoverProbe, Enqueue, IInv, TypeOK, LockUsers, Persisters,
     LoopFut
<1>2. /\ fut' \in [Persisters -> FutStates] /\ fut'["Flush"] = fut["Flush"]
      /\ LoopFut' = "rwait" /\ LoopIO' = LoopIO
  BY <1>1, FutFacts, NoIOType DEF IInv, LoopFut, LoopIO, FutStates
<1>3. TypeOK'
  BY <1>1, <1>2 DEF IInv, TypeOK, core, disk, applyVars, ghost, bounds
<1>4. OneCaller' /\ LockHeld' /\ Suspects'
  BY <1>1, <1>2 DEF IInv, OneCaller, LockHeld, Suspects, core, applyVars, bounds
<1> QED
  BY <1>1, <1>2, <1>3, <1>4, QuietInv DEF core, disk, applyVars, ghost

\* An image that did not fit leaves the suspect file as it is.
LEMMA RecoverFullInv ==
  ASSUME IInv, RecoverFull("Loop")
  PROVE  IInv'
<1>1. /\ UNCHANGED <<core, prog, queue, disk, pc, gated, applyVars, ghost,
                     crashes, installs, flushes>>
      /\ holder' = NoHolder /\ fails' = fails + 1 /\ LoopFut = "rio"
      /\ fut' = [fut EXCEPT !["Loop"] = "sleep"]
      /\ futIO' = [futIO EXCEPT !["Loop"] = NoIO]
  BY DEF RecoverFull, DiskFull, Unlock, LoopFut
<1>2. /\ fut' \in [Persisters -> FutStates] /\ fut'["Flush"] = fut["Flush"]
      /\ futIO' \in [Persisters -> IOs] /\ LoopFut' = "sleep"
  BY <1>1, FutFacts, NoIOType DEF IInv, LoopFut, FutStates
<1>3. TypeOK'
  BY <1>1, <1>2 DEF IInv, TypeOK, core, disk, applyVars, ghost
<1>4. OneCaller' /\ LockHeld' /\ Suspects'
  BY <1>1, <1>2 DEF IInv, OneCaller, LockHeld, Suspects, core, applyVars,
     NoHolder
<1>5. prog.suspect  BY <1>1 DEF IInv, Suspects
<1> QED
  BY <1>1, <1>2, <1>3, <1>4, <1>5, QuietInv DEF core, disk, applyVars, ghost

\* The apply task queues for the lock.
LEMMA CompactWaitInv ==
  ASSUME IInv, CompactWait
  PROVE  IInv'
<1>1. /\ UNCHANGED <<core, prog, holder, disk, pc, futVars, gated, applyIO, ghost,
                     bounds>>
      /\ queue' \in Seq(LockUsers) /\ apply = "idle" /\ apply' = "wait"
  BY QueueFacts DEF CompactWait, Enqueue, IInv, TypeOK, LockUsers
<1>2. LoopFut' = LoopFut /\ LoopIO' = LoopIO
  BY <1>1 DEF LoopFut, LoopIO, futVars
<1>3. TypeOK'
  BY <1>1 DEF IInv, TypeOK, core, disk, futVars, ghost, bounds
<1>4. OneCaller' /\ LockHeld' /\ Suspects'
  BY <1>1, <1>2 DEF IInv, OneCaller, LockHeld, Suspects, core, futVars, bounds
<1> QED
  BY <1>1, <1>2, <1>3, <1>4, QuietInv DEF core, disk, ghost

\* The apply task writes to the engine, not to the WAL.
LEMMA EngineInv ==
  ASSUME IInv, EngineInstall \/ EngineApply
  PROVE  IInv'
<1>1. /\ UNCHANGED <<ver, lastRec, pending, durableIndex, base, snapDirty, owed,
                     prog, lock, wal, walBase, pc, futVars, gated, applyVars,
                     ghost, bounds>>
      /\ pendInstall' \in Nat /\ engineAt' \in Nat
  BY NumbersType DEF EngineInstall, EngineApply, core, IInv, Numbers
<1>2. LoopFut' = LoopFut /\ LoopIO' = LoopIO
  BY <1>1 DEF LoopFut, LoopIO, futVars
<1>3. TypeOK'
  BY <1>1 DEF IInv, TypeOK, lock, futVars, applyVars, ghost, bounds
<1>4. OneCaller' /\ LockHeld' /\ Suspects'
  BY <1>1, <1>2 DEF IInv, OneCaller, LockHeld, Suspects, lock, futVars,
     applyVars, bounds
<1> QED
  BY <1>1, <1>2, <1>3, <1>4, QuietInv DEF applyVars, ghost

\* The loop gets the lock: it gives the file up to the recovery or to the owed
\* rewrite, or goes on to drain.
LEMMA PersistCheckInv ==
  ASSUME IInv, PersistCheck("Loop")
  PROVE  IInv'
<1>1. /\ UNCHANGED <<core, prog, disk, gated, applyVars, ghost, bounds>>
      /\ LoopFut = "wait" /\ holder = NoHolder /\ queue' \in Seq(LockUsers)
      /\ pc' \in {"top", "select", "ship", "settle"}
  BY QueueFacts DEF PersistCheck, Acquire, AcquireRelease, Finish, IInv, TypeOK,
     LoopFut
<1>2. \/ /\ holder' = holder
         /\ fut' = [fut EXCEPT !["Loop"] = "none"]
         /\ futIO' = [futIO EXCEPT !["Loop"] = NoIO]
      \/ /\ holder' = holder /\ prog.suspect
         /\ fut' = [fut EXCEPT !["Loop"] = "sleep"] /\ futIO' = futIO
      \/ /\ holder' = "Loop" /\ ~prog.suspect /\ ~owed
         /\ fut' = [fut EXCEPT !["Loop"] = "held"] /\ futIO' = futIO
  BY DEF PersistCheck, Acquire, AcquireRelease, Finish, AppendsHeld
<1>3. /\ fut' \in [Persisters -> FutStates] /\ fut'["Flush"] = fut["Flush"]
      /\ futIO' \in [Persisters -> IOs]
      /\ \/ LoopFut' = "none" /\ holder' = holder
         \/ LoopFut' = "sleep" /\ holder' = holder /\ prog.suspect
         \/ LoopFut' = "held" /\ holder' = "Loop" /\ ~prog.suspect /\ ~owed
  <2>1. futIO \in [Persisters -> IOs]  BY DEF IInv, TypeOK
  <2>2. {"none", "sleep", "held"} \subseteq FutStates  BY DEF FutStates
  <2>3. TypeOK  BY DEF IInv
  <2>4. CASE fut' = [fut EXCEPT !["Loop"] = "none"]
    BY <1>2, <2>1, <2>2, <2>3, <2>4, FutFacts, NoIOType DEF LoopFut
  <2>5. CASE fut' = [fut EXCEPT !["Loop"] = "sleep"]
    BY <1>2, <2>1, <2>2, <2>3, <2>5, FutFacts, NoIOType DEF LoopFut
  <2>6. CASE fut' = [fut EXCEPT !["Loop"] = "held"]
    BY <1>2, <2>1, <2>2, <2>3, <2>6, FutFacts, NoIOType DEF LoopFut
  <2> QED  BY <1>2, <2>4, <2>5, <2>6
<1>4. TypeOK'
  BY <1>1, <1>3 DEF IInv, TypeOK, core, disk, applyVars, ghost, bounds,
     LockUsers, Persisters
<1>5. OneCaller' /\ LockHeld' /\ Suspects'
  BY <1>1, <1>3 DEF IInv, OneCaller, LockHeld, Suspects, core, applyVars, bounds,
     NoHolder
<1>6. LoopFut' \notin {"io", "rio"} /\ LoopFut \notin {"io", "rio"}
  BY <1>1, <1>3
<1> QED
  BY <1>1, <1>4, <1>5, <1>6, QuietInv DEF core, disk, applyVars, ghost

-----------------------------------------------------------------------------
(* The steps of the core.                                                  *)

\* A logged record meets the ones that are pending, unless an install came
\* between; it moves neither the file nor the first mutation not drained.
LEMMA RecordFacts ==
  ASSUME IInv, Record
  PROVE  /\ ver' = ver + 1 /\ lastRec' = ver + 1 /\ pending' \in Runs
         /\ UNCHANGED <<durableIndex, base, snapDirty, owed, pendInstall>>
         /\ Dirty' /\ CoreInv' /\ (~owed => Front' = Front)
<1>1. /\ ver' = ver + 1 /\ lastRec' = ver + 1
      /\ pending' = Concat(pending, Run(ver, ver + 1))
      /\ UNCHANGED <<durableIndex, base, snapDirty, owed, pendInstall>>
  BY DEF Record
<1>2. /\ ver \in Nat /\ pending \in Runs /\ pending.from \in Nat
      /\ pending.to \in Nat /\ pending.from <= pending.to /\ pending.to <= ver
  BY NumbersType DEF IInv, Numbers, TypeOK, CoreInv
<1>3. Run(ver, ver + 1) \in Runs
  BY <1>2 DEF Run, Runs
<1>4. pending' \in Runs
  BY <1>1, <1>2, <1>3, ConcatFacts
<1>5. /\ pending'.to = ver + 1
      /\ pending'.from = IF Dirty THEN pending.from ELSE ver
      /\ ~owed => pending'.ok
  BY <1>1, <1>2 DEF Concat, Run, IsEmptyRun, Dirty, Runs, IInv, CoreInv
<1>6. Dirty' /\ pending'.from <= pending'.to
  BY <1>2, <1>5 DEF Dirty, IsEmptyRun
<1>7. CoreInv'
  BY <1>1, <1>2, <1>5, <1>6 DEF IInv, CoreInv
<1>8. ~owed => Front' = Front
  BY <1>5, <1>6 DEF Front
<1> QED  BY <1>1, <1>4, <1>6, <1>7, <1>8

\* A step of the core that neither drains nor writes keeps the file, and what
\* is drained stays where it was.
LEMMA CoreStep ==
  ASSUME IInv, UNCHANGED <<prog, holder, wal, fut, futIO, apply, applyIO, flushes>>,
         ver' \in Nat, ver <= ver', LoopFut # "held",
         ~owed' => ~owed /\ Front' = Front,
         ~Dirty' => ~Dirty /\ lastRec' = lastRec
  PROVE  /\ LoopFut' = LoopFut /\ (Taking' <=> Taking) /\ End' = End
         /\ OneCaller' /\ LockHeld' /\ Suspects' /\ FileInv' /\ IOInv' /\ EndInv'
<1>1. /\ LoopFut' = LoopFut /\ LoopIO' = LoopIO
      /\ (Taking' <=> Taking) /\ End' = End
  BY DEF LoopFut, LoopIO, Taking, End
<1>2. OneCaller' /\ LockHeld' /\ Suspects'
  BY <1>1 DEF IInv, OneCaller, LockHeld, Suspects
<1>3. /\ ver \in Nat /\ wal.run.to \in Nat /\ LoopIO.run.to \in Nat
      /\ applyIO.run.to \in Nat
  BY NumbersType DEF IInv, Numbers
<1>4. FileInv' /\ IOInv'
  BY <1>1, <1>3 DEF IInv, FileInv, IOInv
<1>5. EndInv'
  BY <1>1 DEF IInv, EndInv
<1> QED  BY <1>1, <1>2, <1>4, <1>5

\* Its replies ship when all they vouch for is on disk, and are held for the
\* round that covers it otherwise.
LEMMA ReplyFacts ==
  ASSUME IInv, UNCHANGED <<prog, wal, durableIndex>>,
         Taking' <=> Taking, End' = End,
         ver' \in Nat, ver <= ver', lastRec' \in Nat, lastRec' <= ver',
         Dirty => Dirty', ~Dirty' => lastRec' = lastRec,
         HoldOrShip(Dirty', lastRec')
  PROVE  /\ gated' \in Seq([round : Nat, need : Nat]) /\ vouched' \in SUBSET Nat
         /\ Claims' /\ HeldInv'
<1> DEFINE S == [round : Nat, need : Nat]
           gate == Gate(prog, Dirty')
           batch == [round |-> gate, need |-> lastRec']
<1>1. /\ ver \in Nat /\ lastRec \in Nat /\ wal.run.to \in Nat /\ End \in Nat
      /\ prog.drained \in Nat /\ prog.durable \in Nat
  BY NumbersType DEF IInv, Numbers
<1>2. /\ prog.durable <= prog.drained /\ vouched \subseteq Nat
      /\ gated \in Seq(S)
  BY DEF IInv, TypeOK, Claims
<1>3. /\ gate \in Nat
      /\ \/ gate = prog.drained + 1 /\ Dirty'
         \/ gate = prog.drained /\ ~Dirty' /\ prog.durable < prog.drained
         \/ gate = ShipNow /\ ~Dirty' /\ prog.durable = prog.drained
  BY <1>1, <1>2 DEF Gate, ShipNow
<1>4. \/ gate = ShipNow /\ vouched' = vouched \cup {lastRec'} /\ gated' = gated
      \/ gate # ShipNow /\ gated' = Append(gated, batch) /\ vouched' = vouched
  BY DEF HoldOrShip
<1> HIDE DEF gate
<1>5. gate = ShipNow => lastRec' <= wal.run.to
  BY <1>1, <1>3 DEF ShipNow, IInv, Claims
<1>6. vouched' \in SUBSET Nat /\ \A v \in vouched' : v <= wal.run.to
  BY <1>2, <1>4, <1>5 DEF IInv, Claims
<1>7. Claims'
  BY <1>6 DEF IInv, Claims
<1>8. ~Dirty' /\ Taking => lastRec' <= End
  BY DEF IInv, EndInv
<1>9. ASSUME NEW i \in 1 .. Len(gated), gated'[i] = gated[i]
      PROVE  HeldFor(gated[i])'
  <2>1. /\ gated[i].need \in Nat /\ gated[i].round \in Nat /\ HeldFor(gated[i])
    BY HeldTypes DEF IInv, HeldInv
  <2> QED  BY <1>1, <1>9, <2>1 DEF HeldFor
<1>10. CASE gated' = gated
  <2>1. HeldInv'
    BY <1>9, <1>10 DEF IInv, HeldInv, GatedInRoundOrder
  <2> QED  BY <1>2, <1>6, <1>7, <1>10, <2>1
<1>11. CASE gated' = Append(gated, batch) /\ gate # ShipNow
  <2>1. batch \in S /\ batch.need = lastRec' /\ batch.round = gate
    BY <1>3
  <2>2. \A i \in 1 .. Len(gated) : gated[i].round <= batch.round
    <3> SUFFICES ASSUME NEW i \in 1 .. Len(gated)
                 PROVE  gated[i].round <= batch.round
      OBVIOUS
    <3>1. gated[i].round \in Nat /\ HeldFor(gated[i])
      BY HeldTypes DEF IInv, HeldInv
    <3> QED  BY <1>1, <1>3, <1>11, <2>1, <3>1 DEF HeldFor
  <2> HIDE DEF batch, S
  <2>3. /\ gated' \in Seq(S) /\ Len(gated') = Len(gated) + 1 /\ Len(gated) \in Nat
        /\ gated'[Len(gated) + 1] = batch
        /\ \A i \in 1 .. Len(gated) : gated'[i] = gated[i]
    BY <1>2, <1>11, <2>1
  <2>4. ASSUME NEW i \in 1 .. Len(gated')
        PROVE  HeldFor(gated[i])'
    <3>1. CASE i = Len(gated) + 1
      <4>1. gated'[i].need = lastRec' /\ gated'[i].round = gate
        BY <2>1, <2>3, <3>1
      <4> QED  BY <1>1, <1>2, <1>3, <1>8, <1>11, <4>1 DEF HeldFor
    <3>2. CASE i \in 1 .. Len(gated)
      BY <1>9, <2>3, <3>2
    <3> QED  BY <2>3, <3>1, <3>2
  <2>5. GatedInRoundOrder'
    BY <2>2, <2>3 DEF IInv, HeldInv, GatedInRoundOrder
  <2>6. HeldInv'
    BY <2>4, <2>5 DEF HeldInv
  <2> QED  BY <1>6, <1>7, <2>3, <2>6 DEF S
<1> QED  BY <1>4, <1>10, <1>11

\* A proposal logs a record and answers later.
LEMMA ProposeInv ==
  ASSUME IInv, ~Preemptive, Propose
  PROVE  IInv'
<1>1. /\ Record /\ LoopFut # "held"
      /\ UNCHANGED <<prog, lock, disk, pc, futVars, gated, applyVars, ghost,
                     bounds>>
  BY DEF Propose, CoreFree, LoopFut, Persisters
<1>2. /\ ver \in Nat /\ ver' \in Nat /\ ver <= ver' /\ lastRec' \in Nat
  BY <1>1, RecordFacts, NumbersType DEF IInv, Numbers
<1>3. /\ LoopFut' = LoopFut /\ (Taking' <=> Taking) /\ End' = End
      /\ OneCaller' /\ LockHeld' /\ Suspects' /\ FileInv' /\ IOInv' /\ EndInv'
  <2>1. /\ UNCHANGED <<prog, holder, wal, fut, futIO, apply, applyIO, flushes>>
        /\ ~owed' => ~owed /\ Front' = Front
        /\ ~Dirty' => ~Dirty /\ lastRec' = lastRec
    BY <1>1, RecordFacts DEF lock, disk, futVars, applyVars, bounds
  <2> QED  BY <1>1, <1>2, <2>1, CoreStep
<1>4. TypeOK'
  BY <1>1, <1>2, RecordFacts DEF IInv, TypeOK, lock, disk, futVars, applyVars,
     ghost, bounds
<1>5. Claims'
  BY <1>1, RecordFacts DEF IInv, Claims, disk, ghost
<1>6. HeldInv'
  <2>1. wal.run.to <= wal'.run.to
    BY <1>1, NumbersType DEF disk, IInv, Numbers
  <2> QED
    BY <1>1, <1>2, <1>3, <1>4, <2>1, HeldKept, RecordFacts DEF IInv
<1> QED  BY <1>1, <1>3, <1>4, <1>5, <1>6, RecordFacts DEF IInv

\* A message or a tick of the loop that logs a record.
LEMMA StepRecordInv ==
  ASSUME IInv, StepRecord
  PROVE  IInv'
<1>1. /\ Record /\ LoopFut # "held" /\ HoldOrShip(TRUE, lastRec') /\ pc' = "ship"
      /\ UNCHANGED <<prog, lock, disk, futVars, applyVars, halted, bounds>>
  BY DEF StepRecord, LoopFree, LoopFut
<1>2. /\ ver \in Nat /\ ver' \in Nat /\ ver <= ver' /\ lastRec' \in Nat
      /\ lastRec' <= ver' /\ Dirty' = TRUE
  BY <1>1, RecordFacts, NumbersType DEF IInv, Numbers, Dirty
<1>3. /\ LoopFut' = LoopFut /\ (Taking' <=> Taking) /\ End' = End
      /\ OneCaller' /\ LockHeld' /\ Suspects' /\ FileInv' /\ IOInv' /\ EndInv'
  <2>1. /\ UNCHANGED <<prog, holder, wal, fut, futIO, apply, applyIO, flushes>>
        /\ ~owed' => ~owed /\ Front' = Front
        /\ ~Dirty' => ~Dirty /\ lastRec' = lastRec
    BY <1>1, RecordFacts DEF lock, disk, futVars, applyVars, bounds
  <2> QED  BY <1>1, <1>2, <2>1, CoreStep
<1>4. /\ gated' \in Seq([round : Nat, need : Nat]) /\ vouched' \in SUBSET Nat
      /\ Claims' /\ HeldInv'
  <2>1. HoldOrShip(Dirty', lastRec')
    BY <1>1, <1>2
  <2>2. UNCHANGED <<prog, wal, durableIndex>>
    BY <1>1, RecordFacts DEF disk
  <2> QED  BY <1>2, <1>3, <2>1, <2>2, ReplyFacts
<1>5. TypeOK'
  BY <1>1, <1>2, <1>4, RecordFacts DEF IInv, TypeOK, lock, disk, futVars,
     applyVars, bounds
<1> QED  BY <1>1, <1>3, <1>4, <1>5, RecordFacts DEF IInv

\* A step that logs nothing, or that completes an install: the installed base
\* is not a record, and the ack vouches for the records only.
LEMMA StepInv ==
  ASSUME IInv, StepQuiet \/ StepInstall
  PROVE  IInv'
<1>1. /\ LoopFut # "held" /\ HoldOrShip(Dirty, lastRec) /\ pc' = "ship"
      /\ UNCHANGED <<lastRec, pending, durableIndex, prog, lock, disk, futVars,
                     applyVars, halted, fails, crashes, flushes>>
  BY DEF StepQuiet, StepInstall, LoopFree, LoopFut, core, bounds
<1>2. \/ UNCHANGED <<ver, base, snapDirty, owed, pendInstall, installs>>
      \/ /\ ver' = ver + 1 /\ base' = ver + 1 /\ snapDirty' = TRUE
         /\ owed' = TRUE /\ pendInstall' = ver + 1 /\ installs' = installs + 1
  BY DEF StepQuiet, StepInstall, core, bounds
<1>3. /\ ver \in Nat /\ ver' \in Nat /\ ver <= ver' /\ lastRec' \in Nat
      /\ lastRec' <= ver' /\ (Dirty' <=> Dirty)
      /\ base' \in Nat /\ pendInstall' \in Nat /\ installs' \in Nat
      /\ snapDirty' \in BOOLEAN /\ owed' \in BOOLEAN
  <2>1. /\ ver \in Nat /\ lastRec \in Nat /\ base \in Nat /\ pendInstall \in Nat
        /\ installs \in Nat /\ snapDirty \in BOOLEAN /\ owed \in BOOLEAN
        /\ lastRec <= ver
    BY DEF IInv, TypeOK, CoreInv
  <2>2. Dirty' <=> Dirty  BY <1>1 DEF Dirty
  <2>3. CASE UNCHANGED <<ver, base, snapDirty, owed, pendInstall, installs>>
    BY <1>1, <2>1, <2>2, <2>3
  <2>4. CASE /\ ver' = ver + 1 /\ base' = ver + 1 /\ snapDirty' = TRUE
             /\ owed' = TRUE /\ pendInstall' = ver + 1
             /\ installs' = installs + 1
    BY <1>1, <2>1, <2>2, <2>4
  <2> QED  BY <1>2, <2>3, <2>4
<1>4. CoreInv'
  <2>1. /\ pending.to \in Nat /\ pending.from \in Nat /\ pending.to <= ver
        /\ pending.from <= pending.to
    BY NumbersType DEF IInv, Numbers, CoreInv
  <2>2. CASE UNCHANGED <<ver, base, snapDirty, owed, pendInstall, installs>>
    BY <1>1, <1>3, <2>1, <2>2 DEF IInv, CoreInv
  <2>3. CASE ver' = ver + 1 /\ snapDirty' = TRUE /\ owed' = TRUE
    BY <1>1, <1>3, <2>1, <2>3 DEF CoreInv
  <2> QED  BY <1>2, <2>2, <2>3
<1>5. /\ LoopFut' = LoopFut /\ (Taking' <=> Taking) /\ End' = End
      /\ OneCaller' /\ LockHeld' /\ Suspects' /\ FileInv' /\ IOInv' /\ EndInv'
  <2>1. UNCHANGED <<prog, holder, wal, fut, futIO, apply, applyIO, flushes>>
    BY <1>1 DEF lock, disk, futVars, applyVars
  <2>2. ~owed' => ~owed /\ Front' = Front
    BY <1>1, <1>2, <1>3 DEF Front
  <2> QED  BY <1>1, <1>3, <2>1, <2>2, CoreStep
<1>6. /\ gated' \in Seq([round : Nat, need : Nat]) /\ vouched' \in SUBSET Nat
      /\ Claims' /\ HeldInv'
  <2>1. HoldOrShip(Dirty', lastRec')
    BY <1>1 DEF Dirty
  <2>2. UNCHANGED <<prog, wal, durableIndex>>
    BY <1>1 DEF disk
  <2> QED  BY <1>1, <1>3, <1>5, <2>1, <2>2, ReplyFacts
<1>7. TypeOK'
  BY <1>1, <1>3, <1>6 DEF IInv, TypeOK, lock, disk, futVars, applyVars
<1> QED  BY <1>4, <1>5, <1>6, <1>7 DEF IInv

-----------------------------------------------------------------------------
(* The loop ships what is durable.                                         *)

\* Shipping leaves the core, the file and the writes in flight alone.
LEMMA ShipStep ==
  ASSUME IInv, UNCHANGED <<core, prog, lock, disk, futVars, applyVars, halted,
                           bounds>>,
         pc' \in {"top", "select", "ship", "settle"},
         gated' \in Seq([round : Nat, need : Nat]),
         vouched' \subseteq Nat, \A v \in vouched' : v <= wal.run.to, HeldInv'
  PROVE  IInv'
<1>1. TypeOK'
  BY DEF IInv, TypeOK, core, lock, disk, futVars, applyVars, bounds
<1>2. /\ LoopFut' = LoopFut /\ LoopIO' = LoopIO /\ (Dirty' <=> Dirty)
      /\ (Taking' <=> Taking) /\ End' = End /\ Front' = Front
  BY DEF LoopFut, LoopIO, Dirty, Taking, End, Front, core, disk, futVars,
     applyVars
<1>3. /\ OneCaller' /\ LockHeld' /\ CoreInv' /\ Suspects' /\ FileInv' /\ IOInv'
      /\ EndInv'
  BY <1>2 DEF IInv, OneCaller, LockHeld, CoreInv, Suspects, FileInv, IOInv,
     EndInv, core, lock, disk, futVars, applyVars, bounds
<1>4. Claims'
  BY <1>2 DEF IInv, Claims, core, disk
<1> QED  BY <1>1, <1>3, <1>4 DEF IInv

\* Shipping releases only batches whose round has landed.
LEMMA LoopShipInv ==
  ASSUME IInv, LoopShip
  PROVE  IInv'
<1>1. /\ vouched' = vouched \cup Released(gated, prog.durable)
      /\ gated' = StillHeld(gated, prog.durable) /\ pc' = "settle"
      /\ UNCHANGED <<core, prog, lock, disk, futVars, applyVars, halted, bounds>>
  BY DEF LoopShip
<1>2. prog.durable \in Nat /\ gated \in Seq([round : Nat, need : Nat])
  BY NumbersType DEF IInv, Numbers, TypeOK
<1>3. gated' \in Seq([round : Nat, need : Nat]) /\ vouched' \subseteq Nat
  <2>1. vouched \subseteq Nat
    BY DEF IInv, TypeOK
  <2> QED  BY <1>1, <1>2, <2>1, ReleaseFacts
<1>4. \A v \in vouched' : v <= wal.run.to
  <2>1. \A v \in Released(gated, prog.durable) : v <= wal.run.to
    <3> SUFFICES ASSUME NEW v \in Released(gated, prog.durable)
                 PROVE  v <= wal.run.to
      OBVIOUS
    <3>1. PICK i \in 1 .. Len(gated) :
            v = gated[i].need /\ gated[i].round <= prog.durable
      BY <1>2, ReleaseFacts
    <3>2. HeldFor(gated[i])  BY DEF IInv, HeldInv
    <3> QED  BY <3>1, <3>2 DEF HeldFor
  <2> QED  BY <1>1, <2>1 DEF IInv, Claims
<1>5. HeldInv'
  <2>1. PICK k \in Nat :
          /\ Len(gated') <= Len(gated) - k
          /\ \A i \in 1 .. Len(gated') : gated'[i] = gated[k + i]
    BY <1>1, <1>2, ReleaseFacts
  <2>2. Len(gated) \in Nat /\ Len(gated') \in Nat
    BY <1>2, <1>3
  <2>3. \A i \in 1 .. Len(gated') : k + i \in 1 .. Len(gated)
    BY <2>1, <2>2
  <2>4. ASSUME NEW i \in 1 .. Len(gated')
        PROVE  HeldFor(gated[i])'
    <3>1. HeldFor(gated[k + i]) /\ gated'[i] = gated[k + i]
      BY <2>1, <2>3 DEF IInv, HeldInv
    <3> QED
      BY <1>1, <3>1 DEF HeldFor, Dirty, Taking, End, LoopFut, LoopIO, core, disk,
         futVars, applyVars
  <2>5. GatedInRoundOrder'
    <3> SUFFICES ASSUME NEW i \in 1 .. Len(gated'), NEW j \in 1 .. Len(gated'),
                        i < j
                 PROVE  gated'[i].round <= gated'[j].round
      BY DEF GatedInRoundOrder
    <3>1. k + i < k + j /\ k + i \in 1 .. Len(gated) /\ k + j \in 1 .. Len(gated)
      BY <2>2, <2>3
    <3>2. gated[k + i].round <= gated[k + j].round
      BY <3>1 DEF IInv, HeldInv, GatedInRoundOrder
    <3> QED  BY <2>1, <3>2
  <2> QED  BY <2>4, <2>5 DEF HeldInv
<1> QED  BY <1>1, <1>3, <1>4, <1>5, ShipStep

\* The safety net ships everything when nothing is owed.
LEMMA LoopSettleInv ==
  ASSUME IInv, LoopSettle
  PROVE  IInv'
<1>1. /\ pc' = "top"
      /\ UNCHANGED <<core, prog, lock, disk, futVars, applyVars, halted, bounds>>
  BY DEF LoopSettle
<1>2. gated \in Seq([round : Nat, need : Nat]) /\ vouched \subseteq Nat
  BY DEF IInv, TypeOK
<1>3. CASE UNCHANGED <<vouched, gated>>
  <2>1. HeldInv'
    BY <1>1, <1>3 DEF IInv, HeldInv, HeldFor, GatedInRoundOrder, Dirty, Taking,
       End, LoopFut, LoopIO, core, disk, futVars, applyVars
  <2> QED  BY <1>1, <1>2, <1>3, <2>1, ShipStep DEF IInv, Claims
<1>4. CASE /\ FullyDurable(prog, Dirty)
           /\ vouched' = vouched \cup AllNeeds(gated) /\ gated' = <<>>
  <2>1. /\ ~Dirty /\ prog.durable = prog.drained
        /\ prog.durable \in Nat /\ prog.drained \in Nat
    <3>1. ~Dirty /\ prog.durable >= prog.drained
      BY <1>4 DEF FullyDurable
    <3>2. prog.durable \in Nat /\ prog.drained \in Nat
      BY NumbersType DEF IInv, Numbers
    <3>3. prog.durable <= prog.drained
      BY DEF IInv, Claims
    <3> QED  BY <3>1, <3>2, <3>3
  <2>2. \A i \in 1 .. Len(gated) :
          gated[i].need \in Nat /\ gated[i].need <= wal.run.to
    <3> SUFFICES ASSUME NEW i \in 1 .. Len(gated)
                 PROVE  gated[i].need \in Nat /\ gated[i].need <= wal.run.to
      OBVIOUS
    <3>1. /\ gated[i].need \in Nat /\ gated[i].round \in Nat
          /\ HeldFor(gated[i])
      BY HeldTypes DEF IInv, HeldInv
    <3> QED  BY <2>1, <3>1 DEF HeldFor
  <2>3. vouched' \subseteq Nat /\ \A v \in vouched' : v <= wal.run.to
    BY <1>2, <1>4, <2>2 DEF IInv, Claims, AllNeeds
  <2>4. Len(gated') = 0  BY <1>4
  <2>5. HeldInv'
    BY <2>4 DEF HeldInv, GatedInRoundOrder
  <2>6. gated' \in Seq([round : Nat, need : Nat])
    BY <1>4
  <2> QED  BY <1>1, <2>3, <2>5, <2>6, ShipStep
<1> QED  BY <1>3, <1>4 DEF LoopSettle

-----------------------------------------------------------------------------
(* The loop's round.                                                       *)

\* The loop drains: its batch meets the file, because nothing is owed.
LEMMA PersistDrainInv ==
  ASSUME IInv, PersistDrain("Loop")
  PROVE  IInv'
<1>1. /\ UNCHANGED <<disk, gated, applyVars, ghost, bounds>> /\ LoopFut = "held"
      /\ ~prog.suspect /\ ~owed /\ apply # "replace"
      /\ fut["Flush"] = "none"
  BY DEF PersistDrain, LoopFut, IInv, Suspects, LockHeld, OneCaller
<1>2. CASE /\ ~Dirty /\ Unlock /\ Finish("Loop") /\ UNCHANGED <<core, prog>>
  <2>1. /\ holder' = NoHolder /\ queue' = queue /\ pc' = "ship"
        /\ fut' = [fut EXCEPT !["Loop"] = "none"]
        /\ futIO' = [futIO EXCEPT !["Loop"] = NoIO]
    BY <1>2 DEF Unlock, Finish
  <2>2. /\ fut' \in [Persisters -> FutStates] /\ fut'["Flush"] = fut["Flush"]
        /\ futIO' \in [Persisters -> IOs] /\ LoopFut' = "none"
    BY <2>1, FutFacts, NoIOType DEF IInv, LoopFut, FutStates
  <2>3. TypeOK'
    BY <1>1, <1>2, <2>1, <2>2 DEF IInv, TypeOK, core, disk, applyVars, ghost,
       bounds
  <2>4. OneCaller' /\ LockHeld' /\ Suspects'
    BY <1>1, <1>2, <2>1, <2>2 DEF IInv, OneCaller, LockHeld, Suspects, core,
       applyVars, bounds, NoHolder
  <2>5. LoopFut' \notin {"io", "rio"} /\ LoopFut \notin {"io", "rio"}
    BY <1>1, <2>2
  <2> QED
    BY <1>1, <1>2, <2>3, <2>4, <2>5, QuietInv DEF core, disk, applyVars, ghost
<1>3. CASE /\ Dirty /\ DrainForRound
           /\ futIO' = [futIO EXCEPT !["Loop"] =
                [run |-> pending, through |-> ver, round |-> DrainRound,
                 base |-> walBase]]
           /\ fut' = [fut EXCEPT !["Loop"] = "io"]
           /\ UNCHANGED <<lock, ver, lastRec, durableIndex, base, snapDirty, owed,
                          pendInstall, pc>>
  <2> DEFINE o == [run |-> pending, through |-> ver, round |-> DrainRound,
                   base |-> walBase]
  <2>1. /\ ver \in Nat /\ prog.drained \in Nat /\ prog.durable \in Nat
        /\ walBase \in Nat /\ wal.run.to \in Nat
        /\ pending \in Runs /\ pending.from \in Nat /\ pending.to \in Nat
    BY NumbersType DEF IInv, Numbers, TypeOK
  <2>2. /\ pending.ok /\ pending.to = ver /\ pending.from # pending.to
        /\ pending.from <= pending.to /\ lastRec <= ver
    BY <1>1, <1>3 DEF IInv, CoreInv, Dirty, IsEmptyRun
  <2>3. pending.from = wal.run.to
    BY <1>1, <1>3 DEF IInv, EndInv, Taking, End, Front
  <2>4. /\ o \in IOs /\ o.run = pending /\ o.through = ver
        /\ o.round = prog.drained + 1
    BY <1>3, <2>1 DEF IOs, DrainRound
  <2> HIDE DEF o
  <2>5. /\ fut' \in [Persisters -> FutStates] /\ fut'["Flush"] = "none"
        /\ futIO' \in [Persisters -> IOs] /\ LoopFut' = "io" /\ LoopIO' = o
    BY <1>1, <1>3, <2>4, FutFacts DEF IInv, LoopFut, LoopIO, FutStates, o
  <2>6. /\ prog' \in Progresses /\ prog'.drained = prog.drained + 1
        /\ prog'.durable = prog.durable /\ prog'.suspect = FALSE
        /\ pending' \in Runs /\ pending'.ok /\ pending'.from = 0
        /\ pending'.to = 0 /\ ~Dirty'
    BY <1>1, <1>3, <2>1, DrainFacts DEF IInv, TypeOK, Progresses
  <2>7. TypeOK'
    BY <1>1, <1>3, <2>5, <2>6 DEF IInv, TypeOK, lock, disk, applyVars, ghost,
       bounds
  <2>8. OneCaller' /\ LockHeld' /\ Suspects'
    BY <1>1, <1>3, <2>5, <2>6 DEF IInv, OneCaller, LockHeld, Suspects, lock,
       applyVars, bounds
  <2>9. CoreInv' /\ FileInv'
    BY <1>1, <1>3, <2>1, <2>6 DEF IInv, CoreInv, FileInv, disk
  <2>10. IOInv'
    BY <1>1, <1>3, <2>1, <2>2, <2>3, <2>4, <2>5, <2>6 DEF IOInv, disk, applyVars
  <2>11. End' = ver /\ Front' = ver
    BY <1>3, <2>2, <2>4, <2>5, <2>6 DEF End, Front
  <2>12. EndInv'
    BY <1>3, <2>2, <2>11 DEF EndInv
  <2>13. Claims' /\ HeldInv'
    BY <1>1, <1>3, <2>7, <2>11, ClaimsDrain, HeldDrain DEF IInv, disk, ghost
  <2> QED  BY <2>7, <2>8, <2>9, <2>10, <2>12, <2>13 DEF IInv
<1> QED  BY <1>2, <1>3 DEF PersistDrain

\* A write of the loop that lands makes End the end of the file, and its round
\* durable.
LEMMA LandedStep ==
  ASSUME IInv, TypeOK', OneCaller', LockHeld', Suspects', Taking,
         UNCHANGED <<ver, lastRec, pending, snapDirty, owed, gated, vouched>>,
         LoopFut' \notin {"io", "rio"}, apply' # "replace",
         prog'.drained = prog.drained, prog'.suspect = FALSE,
         prog'.durable = prog.durable \/ prog'.durable = prog.drained,
         wal' \in Files, ~wal'.torn, wal'.run.ok, wal'.run.from = 0,
         wal'.run.to = End, wal.run.to <= End, End <= ver,
         durableIndex' = durableIndex \/ durableIndex' <= wal'.run.to
  PROVE  IInv'
<1>1. /\ Dirty' <=> Dirty
      /\ Front' = Front /\ Taking' /\ End' = End
  BY DEF Dirty, Front, Taking, End
<1>2. CoreInv' /\ FileInv' /\ IOInv'
  BY <1>1 DEF IInv, CoreInv, FileInv, IOInv
<1>3. EndInv'
  BY <1>1 DEF IInv, EndInv
<1>4. /\ ver \in Nat /\ wal.run.to \in Nat /\ prog.drained \in Nat /\ End \in Nat
  BY NumbersType DEF IInv, Numbers
<1>5. Claims' /\ HeldInv'
  BY <1>1, <1>4, ClaimsKept, HeldKept DEF IInv
<1> QED  BY <1>2, <1>3, <1>5 DEF IInv

\* mark_durable_through never claims more than the write that landed.
LEMMA MarkFacts ==
  ASSUME TypeOK, NEW t \in Nat, MarkDurable(t)
  PROVE  /\ durableIndex' \in Nat
         /\ durableIndex' = durableIndex \/ durableIndex' = t
BY NumbersType DEF Numbers, MarkDurable

\* The round lands.
LEMMA PersistOkInv ==
  ASSUME IInv, PersistOk("Loop")
  PROVE  IInv'
<1>1. /\ wal' = AppendSync(wal, LoopIO.run) /\ MarkDurable(LoopIO.through)
      /\ prog' = CompleteDrain(prog, LoopIO.round) /\ LoopFut = "io"
      /\ holder' = NoHolder /\ queue' = queue /\ pc' = "ship"
      /\ fut' = [fut EXCEPT !["Loop"] = "none"]
      /\ futIO' = [futIO EXCEPT !["Loop"] = NoIO]
      /\ UNCHANGED <<ver, lastRec, pending, base, snapDirty, owed, pendInstall,
                     walBase, engineAt, gated, applyVars, ghost, bounds>>
  BY DEF PersistOk, Unlock, Finish, LoopFut, LoopIO
<1>2. /\ ver \in Nat /\ wal.run.to \in Nat /\ LoopIO.run.from \in Nat
      /\ LoopIO.run.to \in Nat /\ LoopIO.through \in Nat /\ LoopIO.round \in Nat
      /\ prog.drained \in Nat /\ prog.durable \in Nat
      /\ wal \in Files /\ LoopIO.run \in Runs /\ prog \in Progresses
  BY NumbersType DEF IInv, Numbers, TypeOK, LoopIO, IOs, Persisters
<1>3. /\ LoopIO.run.from = wal.run.to /\ LoopIO.run.from < LoopIO.run.to
      /\ LoopIO.run.ok /\ LoopIO.through = LoopIO.run.to /\ LoopIO.run.to <= ver
      /\ LoopIO.round = prog.drained /\ ~prog.suspect /\ apply # "replace"
      /\ ~wal.torn /\ wal.run.ok /\ wal.run.from = 0
      /\ prog.durable <= prog.drained
  BY <1>1 DEF IInv, IOInv, Suspects, LockHeld, FileInv, Claims
<1>4. /\ wal' \in Files /\ ~wal'.torn /\ wal'.run.ok /\ wal'.run.from = 0
      /\ wal'.run.to = LoopIO.run.to
  BY <1>1, <1>2, <1>3, AppendFacts
<1>5. /\ prog' \in Progresses /\ prog'.drained = prog.drained
      /\ prog'.suspect = FALSE
      /\ prog'.durable = prog.durable \/ prog'.durable = prog.drained
  <2>1. prog.suspect = FALSE  BY <1>2, <1>3 DEF Progresses
  <2> QED  BY <1>1, <1>2, <1>3, <2>1, ProgressFacts
<1>6. /\ fut' \in [Persisters -> FutStates] /\ fut'["Flush"] = fut["Flush"]
      /\ futIO' \in [Persisters -> IOs] /\ LoopFut' = "none"
  BY <1>1, FutFacts, NoIOType DEF IInv, LoopFut, FutStates
<1>7. /\ durableIndex' \in Nat
      /\ durableIndex' = durableIndex \/ durableIndex' <= wal'.run.to
  BY <1>1, <1>2, <1>3, <1>4, MarkFacts DEF IInv
<1>8. TypeOK'
  BY <1>1, <1>4, <1>5, <1>6, <1>7 DEF IInv, TypeOK, applyVars, ghost, bounds
<1>9. OneCaller' /\ LockHeld' /\ Suspects' /\ apply' # "replace"
  BY <1>1, <1>3, <1>5, <1>6 DEF IInv, OneCaller, LockHeld, Suspects, applyVars,
     bounds, NoHolder
<1>10. Taking /\ End = LoopIO.run.to
  BY <1>1, <1>3 DEF Taking, End
<1>11. UNCHANGED <<ver, lastRec, pending, snapDirty, owed, gated, vouched>>
  BY <1>1 DEF ghost
<1>12. /\ wal'.run.to = End /\ wal.run.to <= End /\ End <= ver
       /\ LoopFut' \notin {"io", "rio"}
  BY <1>2, <1>3, <1>4, <1>6, <1>10
<1> QED
  BY <1>4, <1>5, <1>7, <1>8, <1>9, <1>10, <1>11, <1>12, LandedStep

\* A write that meets a full disk makes the file suspect: it may hold a part of
\* the batch, and nothing more is claimed of it until it is replaced.
LEMMA FullStep ==
  ASSUME IInv, TypeOK', OneCaller', LockHeld', Suspects',
         UNCHANGED <<core, gated, vouched>>,
         LoopFut' \notin {"io", "rio"}, apply' # "replace",
         prog' = MarkSuspect(prog),
         wal' \in Files, wal'.run.ok, wal'.run.from = 0,
         wal.run.to <= wal'.run.to, wal'.run.to <= ver
  PROVE  IInv'
<1>1. /\ prog'.drained = prog.drained /\ prog'.durable = prog.durable
      /\ prog'.suspect
  BY ProgressFacts DEF IInv, TypeOK
<1>2. /\ Dirty' <=> Dirty
      /\ ~Taking'
  BY <1>1 DEF Dirty, Taking, core
<1>3. CoreInv' /\ FileInv' /\ IOInv' /\ EndInv'
  BY <1>1, <1>2 DEF IInv, CoreInv, FileInv, IOInv, EndInv, core
<1>4. UNCHANGED <<ver, pending, lastRec, durableIndex>> /\ ver <= ver'
  BY NumbersType DEF IInv, Numbers, core
<1>5. Claims' /\ HeldInv'
  BY <1>1, <1>2, <1>4, ClaimsKept, HeldKept DEF IInv
<1> QED  BY <1>3, <1>5 DEF IInv

\* The round fails.
LEMMA PersistFullInv ==
  ASSUME IInv, PersistFull("Loop")
  PROVE  IInv'
<1>1. /\ LoopFut = "io" /\ prog' = MarkSuspect(prog)
      /\ holder' = NoHolder /\ queue' = queue /\ fails' = fails + 1
      /\ fut' = [fut EXCEPT !["Loop"] = "sleep"]
      /\ futIO' = [futIO EXCEPT !["Loop"] = NoIO]
      /\ UNCHANGED <<core, walBase, engineAt, pc, gated, applyVars, ghost,
                     crashes, installs, flushes>>
      /\ \E kept \in LoopIO.run.from .. LoopIO.run.to :
           wal' = AppendFull(wal, LoopIO.run, kept)
  BY DEF PersistFull, DiskFull, Unlock, LoopFut, LoopIO
<1>2. /\ ver \in Nat /\ wal.run.to \in Nat /\ LoopIO.run.from \in Nat
      /\ LoopIO.run.to \in Nat
      /\ wal \in Files /\ LoopIO.run \in Runs /\ prog \in Progresses
  BY NumbersType DEF IInv, Numbers, TypeOK, LoopIO, IOs, Persisters
<1>3. /\ LoopIO.run.from = wal.run.to /\ LoopIO.run.from < LoopIO.run.to
      /\ LoopIO.run.ok /\ LoopIO.run.to <= ver
      /\ ~prog.suspect /\ apply # "replace"
      /\ ~wal.torn /\ wal.run.ok /\ wal.run.from = 0
  BY <1>1 DEF IInv, IOInv, Suspects, LockHeld, FileInv
<1>4. /\ wal' \in Files /\ wal'.run.ok /\ wal'.run.from = 0
      /\ wal.run.to <= wal'.run.to /\ wal'.run.to <= ver
  <2>1. PICK kept \in LoopIO.run.from .. LoopIO.run.to :
          wal' = AppendFull(wal, LoopIO.run, kept)
    BY <1>1
  <2>2. LoopIO.run.from <= LoopIO.run.to  BY <1>2, <1>3
  <2>3. /\ wal' \in Files /\ wal'.run.ok /\ wal'.run.from = 0
        /\ wal'.run.to = kept
    BY <1>2, <1>3, <2>1, <2>2, AppendFacts
  <2> QED  BY <1>2, <1>3, <2>3
<1>5. prog' \in Progresses /\ prog'.suspect
  BY <1>1, <1>2, ProgressFacts
<1>6. /\ fut' \in [Persisters -> FutStates] /\ fut'["Flush"] = fut["Flush"]
      /\ futIO' \in [Persisters -> IOs] /\ LoopFut' = "sleep"
  BY <1>1, FutFacts, NoIOType DEF IInv, LoopFut, FutStates
<1>7. TypeOK'
  BY <1>1, <1>4, <1>5, <1>6 DEF IInv, TypeOK, core, applyVars, ghost
<1>8. OneCaller' /\ LockHeld' /\ Suspects' /\ apply' # "replace"
  BY <1>1, <1>3, <1>5, <1>6 DEF IInv, OneCaller, LockHeld, Suspects, applyVars,
     NoHolder
<1> QED
  BY <1>1, <1>4, <1>6, <1>7, <1>8, FullStep DEF ghost

-----------------------------------------------------------------------------
(* The recovery of a suspect file, and the compaction.                     *)

\* The recovery captures an image of the core, owed install included.
LEMMA RecoverCaptureInv ==
  ASSUME IInv, RecoverCapture("Loop")
  PROVE  IInv'
<1> DEFINE o == [run |-> Image(ver), through |-> ver, round |-> 0, base |-> base]
<1>1. /\ LoopFut = "rwait" /\ holder = NoHolder /\ holder' = "Loop"
      /\ queue' \in Seq(LockUsers) /\ DrainForRound
      /\ futIO' = [futIO EXCEPT !["Loop"] = o]
      /\ fut' = [fut EXCEPT !["Loop"] = "rio"]
      /\ UNCHANGED <<ver, lastRec, durableIndex, base, snapDirty, owed,
                     pendInstall, disk, pc, gated, applyVars, ghost, bounds>>
  BY QueueFacts DEF RecoverCapture, Acquire, IInv, TypeOK, LoopFut
<1>2. /\ ver \in Nat /\ base \in Nat /\ wal.run.to \in Nat
      /\ prog.suspect \in BOOLEAN
  BY NumbersType DEF IInv, Numbers
<1>3. /\ prog.suspect /\ apply # "replace" /\ wal.run.to <= ver /\ lastRec <= ver
  BY <1>1 DEF IInv, Suspects, LockHeld, FileInv, CoreInv, NoHolder
<1>4. /\ o \in IOs /\ o.run.from = 0 /\ o.run.to = ver /\ o.run.ok
      /\ o.through = ver
  BY <1>2 DEF IOs, Image, Run, Runs
<1> HIDE DEF o
<1>5. /\ fut' \in [Persisters -> FutStates] /\ fut'["Flush"] = fut["Flush"]
      /\ futIO' \in [Persisters -> IOs] /\ LoopFut' = "rio" /\ LoopIO' = o
  BY <1>1, <1>4, FutFacts DEF IInv, LoopFut, LoopIO, FutStates
<1>6. /\ prog' \in Progresses /\ prog'.suspect
      /\ pending' \in Runs /\ pending'.ok /\ pending'.from = 0
      /\ pending'.to = 0 /\ ~Dirty'
  BY <1>1, <1>3, DrainFacts DEF IInv
<1>7. TypeOK'
  BY <1>1, <1>5, <1>6 DEF IInv, TypeOK, disk, applyVars, ghost, bounds,
     LockUsers, Persisters
<1>8. OneCaller' /\ LockHeld' /\ Suspects'
  BY <1>1, <1>3, <1>5, <1>6 DEF IInv, OneCaller, LockHeld, Suspects, applyVars,
     bounds, NoHolder
<1>9. CoreInv' /\ FileInv' /\ IOInv'
  BY <1>1, <1>2, <1>3, <1>4, <1>5, <1>6 DEF IInv, CoreInv, FileInv, IOInv, disk,
     applyVars
<1>10. End' = ver /\ Front' = ver
  BY <1>1, <1>4, <1>5, <1>6 DEF End, Front
<1>11. EndInv'
  BY <1>1, <1>3, <1>10 DEF EndInv
<1>12. Claims' /\ HeldInv'
  BY <1>1, <1>7, <1>10, ClaimsDrain, HeldDrain DEF IInv, disk, ghost
<1> QED  BY <1>7, <1>8, <1>9, <1>11, <1>12 DEF IInv

\* The image lands: every drained round is durable.
LEMMA RecoverOkInv ==
  ASSUME IInv, RecoverOk("Loop")
  PROVE  IInv'
<1>1. /\ wal' = Intact(LoopIO.run) /\ walBase' = LoopIO.base
      /\ MarkDurable(LoopIO.through) /\ LoopFut = "rio"
      /\ prog' = [CompleteDrain(prog, prog.drained) EXCEPT !.suspect = FALSE]
      /\ holder' = NoHolder /\ queue' = queue /\ pc' = "ship"
      /\ fut' = [fut EXCEPT !["Loop"] = "none"]
      /\ futIO' = [futIO EXCEPT !["Loop"] = NoIO]
      /\ UNCHANGED <<ver, lastRec, pending, base, snapDirty, owed, pendInstall,
                     engineAt, gated, applyVars, ghost, bounds>>
  BY DEF RecoverOk, Unlock, Finish, CompleteAllDrained, LoopFut, LoopIO
<1>2. /\ ver \in Nat /\ LoopIO.through \in Nat /\ LoopIO.base \in Nat
      /\ prog.drained \in Nat /\ prog.durable \in Nat
      /\ LoopIO.run \in Runs /\ prog \in Progresses
  BY NumbersType DEF IInv, Numbers, TypeOK, LoopIO, IOs, Persisters
<1>3. /\ LoopIO.run.from = 0 /\ wal.run.to <= LoopIO.run.to
      /\ LoopIO.run.ok /\ LoopIO.through = LoopIO.run.to /\ LoopIO.run.to <= ver
      /\ apply # "replace" /\ prog.durable <= prog.drained
  BY <1>1 DEF IInv, IOInv, LockHeld, Claims
<1>4. /\ wal' \in Files /\ ~wal'.torn /\ wal'.run.ok /\ wal'.run.from = 0
      /\ wal'.run.to = LoopIO.run.to
  BY <1>1, <1>2, <1>3 DEF Intact, Files
<1>5. /\ prog' \in Progresses /\ prog'.drained = prog.drained
      /\ prog'.suspect = FALSE
      /\ prog'.durable = prog.durable \/ prog'.durable = prog.drained
  <2> DEFINE p == CompleteDrain(prog, prog.drained)
  <2>1. /\ p \in Progresses /\ p.drained = prog.drained
        /\ p.durable = prog.durable \/ p.durable = prog.drained
    BY <1>2, ProgressFacts
  <2> HIDE DEF p
  <2>2. prog' = [p EXCEPT !.suspect = FALSE]  BY <1>1 DEF p
  <2> QED  BY <2>1, <2>2 DEF Progresses
<1>6. /\ fut' \in [Persisters -> FutStates] /\ fut'["Flush"] = fut["Flush"]
      /\ futIO' \in [Persisters -> IOs] /\ LoopFut' = "none"
  BY <1>1, FutFacts, NoIOType DEF IInv, LoopFut, FutStates
<1>7. /\ durableIndex' \in Nat
      /\ durableIndex' = durableIndex \/ durableIndex' <= wal'.run.to
  BY <1>1, <1>2, <1>3, <1>4, MarkFacts, NumbersType DEF IInv, Numbers
<1>8. TypeOK'
  BY <1>1, <1>2, <1>4, <1>5, <1>6, <1>7 DEF IInv, TypeOK, applyVars, ghost, bounds
<1>9. OneCaller' /\ LockHeld' /\ Suspects' /\ apply' # "replace"
  BY <1>1, <1>3, <1>5, <1>6 DEF IInv, OneCaller, LockHeld, Suspects, applyVars,
     bounds, NoHolder
<1>10. Taking /\ End = LoopIO.run.to
  BY <1>1 DEF Taking, End
<1>11. UNCHANGED <<ver, lastRec, pending, snapDirty, owed, gated, vouched>>
  BY <1>1 DEF ghost
<1>12. /\ wal'.run.to = End /\ wal.run.to <= End /\ End <= ver
       /\ LoopFut' \notin {"io", "rio"}
  BY <1>2, <1>3, <1>4, <1>6, <1>10
<1> QED
  BY <1>4, <1>5, <1>7, <1>8, <1>9, <1>10, <1>11, <1>12, LandedStep

\* The compaction captures an image of the core, which settles the owed rewrite,
\* or leaves again.
LEMMA CompactCaptureInv ==
  ASSUME IInv, CompactCapture
  PROVE  IInv'
<1>1. /\ apply = "wait" /\ holder = NoHolder /\ queue' \in Seq(LockUsers)
      /\ LoopFut \notin {"held", "io", "rio"}
      /\ UNCHANGED <<disk, pc, futVars, gated, ghost, bounds>>
  BY QueueFacts DEF CompactCapture, Acquire, AcquireRelease, IInv, TypeOK,
     LockHeld, NoHolder
<1>2. LoopFut' = LoopFut /\ LoopIO' = LoopIO
  BY <1>1 DEF LoopFut, LoopIO, futVars
<1>3. CASE /\ apply' = "idle" /\ holder' = holder
           /\ UNCHANGED <<core, prog, applyIO>>
  <2>1. TypeOK'
    BY <1>1, <1>3 DEF IInv, TypeOK, core, disk, futVars, ghost, bounds
  <2>2. OneCaller' /\ LockHeld' /\ Suspects'
    BY <1>1, <1>2, <1>3 DEF IInv, OneCaller, LockHeld, Suspects, core, futVars,
       bounds, NoHolder
  <2> QED
    BY <1>1, <1>2, <1>3, <2>1, <2>2, QuietInv DEF core, disk, ghost
<1>4. CASE /\ ~prog.suspect /\ holder' = "Apply"
           /\ base' = UptoBase /\ snapDirty' = FALSE /\ owed' = FALSE
           /\ applyIO' = [run |-> Image(ver), through |-> ver,
                          round |-> DrainRound, base |-> UptoBase]
           /\ DrainForRound /\ apply' = "replace"
           /\ UNCHANGED <<ver, lastRec, durableIndex, pendInstall>>
  <2>1. /\ ver \in Nat /\ base \in Nat /\ engineAt \in Nat /\ wal.run.to \in Nat
        /\ prog.drained \in Nat /\ prog.suspect = FALSE
        /\ wal.run.to <= ver /\ lastRec <= ver
    BY <1>4, NumbersType DEF IInv, Numbers, FileInv, CoreInv
  <2>2. UptoBase \in Nat
    BY <2>1 DEF UptoBase
  <2>3. /\ prog' \in Progresses /\ prog'.suspect = FALSE
        /\ Dirty => prog'.drained = prog.drained + 1
        /\ pending' \in Runs /\ pending'.ok /\ pending'.from = 0
        /\ pending'.to = 0 /\ ~Dirty'
    BY <1>4, <2>1, DrainFacts DEF IInv
  <2>4. /\ applyIO' \in IOs /\ applyIO'.run.from = 0 /\ applyIO'.run.to = ver
        /\ applyIO'.run.ok /\ applyIO'.through = ver
        /\ applyIO'.round \in {0, prog'.drained}
    <3> DEFINE img == Image(ver)
    <3>1. img \in Runs /\ img.from = 0 /\ img.to = ver /\ img.ok
      BY <2>1 DEF Image, Run, Runs
    <3>2. DrainRound \in Nat /\ DrainRound \in {0, prog'.drained}
      BY <2>1, <2>3 DEF DrainRound
    <3>3. applyIO' = [run |-> img, through |-> ver, round |-> DrainRound,
                      base |-> UptoBase]
      BY <1>4
    <3> HIDE DEF img
    <3> QED  BY <2>1, <2>2, <3>1, <3>2, <3>3 DEF IOs
  <2>5. TypeOK'
    <3>1. /\ UNCHANGED <<ver, lastRec, durableIndex, pendInstall, engineAt, walBase>>
          /\ UNCHANGED <<fails, crashes, installs, flushes, halted, wal, pc>>
          /\ UNCHANGED <<gated, fut, futIO, vouched>>
      BY <1>1, <1>4 DEF disk, futVars, ghost, bounds
    <3>2. base' \in Nat /\ snapDirty' \in BOOLEAN /\ owed' \in BOOLEAN
      BY <1>4, <2>2
    <3>3. holder' \in LockUsers /\ apply' = "replace"  BY <1>4 DEF LockUsers
    <3> QED  BY <1>1, <2>3, <2>4, <3>1, <3>2, <3>3 DEF IInv, TypeOK
  <2>6. OneCaller' /\ LockHeld' /\ Suspects'
    BY <1>1, <1>2, <1>4, <2>3 DEF IInv, OneCaller, LockHeld, Suspects, futVars,
       bounds, NoHolder
  <2>7. CoreInv' /\ FileInv' /\ IOInv'
    BY <1>1, <1>2, <1>4, <2>1, <2>3, <2>4 DEF IInv, CoreInv, FileInv, IOInv, disk
  <2>8. End' = ver /\ Front' = ver
    BY <1>1, <1>2, <1>4, <2>3, <2>4 DEF End, Front
  <2>9. EndInv'
    BY <1>4, <2>1, <2>8 DEF EndInv
  <2>10. Claims' /\ HeldInv'
    BY <1>1, <1>4, <2>5, <2>8, ClaimsDrain, HeldDrain DEF IInv, disk, ghost
  <2> QED  BY <2>5, <2>6, <2>7, <2>9, <2>10 DEF IInv
<1>5. CASE /\ ~snapDirty /\ OwedSettled /\ holder' = holder /\ apply' = "idle"
           /\ UNCHANGED <<ver, lastRec, pending, durableIndex, base, snapDirty,
                          pendInstall, prog, applyIO>>
  <2>1. owed' = owed
    BY <1>5 DEF OwedSettled, IInv, CoreInv, TypeOK
  <2> QED  BY <1>3, <1>5, <2>1 DEF core
<1> QED
  BY <1>3, <1>4, <1>5 DEF CompactCapture, Acquire, AcquireRelease, OwedSettled

\* The compacted file replaces the old one.
LEMMA CompactOkInv ==
  ASSUME IInv, CompactOk
  PROVE  IInv'
<1>1. /\ wal' = Intact(applyIO.run) /\ walBase' = applyIO.base
      /\ MarkDurable(applyIO.through) /\ apply = "replace"
      /\ prog' = CompleteDrain(prog, applyIO.round)
      /\ holder' = NoHolder /\ queue' = queue
      /\ apply' = "idle" /\ applyIO' = NoIO
      /\ UNCHANGED <<ver, lastRec, pending, base, snapDirty, owed, pendInstall,
                     engineAt, pc, futVars, gated, ghost, bounds>>
  BY DEF CompactOk, Unlock
<1>2. /\ ver \in Nat /\ applyIO.through \in Nat /\ applyIO.base \in Nat
      /\ applyIO.round \in Nat /\ prog.drained \in Nat /\ prog.durable \in Nat
      /\ applyIO.run \in Runs /\ prog \in Progresses
  BY NumbersType DEF IInv, Numbers, TypeOK, IOs
<1>3. /\ applyIO.run.from = 0 /\ wal.run.to <= applyIO.run.to
      /\ applyIO.run.ok /\ applyIO.through = applyIO.run.to
      /\ applyIO.run.to <= ver /\ applyIO.round \in {0, prog.drained}
      /\ ~prog.suspect /\ prog.durable <= prog.drained
      /\ LoopFut \notin {"held", "io", "rio"}
  BY <1>1 DEF IInv, IOInv, LockHeld, Suspects, Claims
<1>4. /\ wal' \in Files /\ ~wal'.torn /\ wal'.run.ok /\ wal'.run.from = 0
      /\ wal'.run.to = applyIO.run.to
  BY <1>1, <1>2, <1>3 DEF Intact, Files
<1>5. /\ prog' \in Progresses /\ prog'.drained = prog.drained
      /\ prog'.suspect = FALSE
      /\ prog'.durable = prog.durable \/ prog'.durable = prog.drained
  <2>1. prog.suspect = FALSE  BY <1>2, <1>3 DEF Progresses
  <2> QED  BY <1>1, <1>2, <1>3, <2>1, ProgressFacts
<1>6. /\ durableIndex' \in Nat
      /\ durableIndex' = durableIndex \/ durableIndex' <= wal'.run.to
  BY <1>1, <1>2, <1>3, <1>4, MarkFacts, NumbersType DEF IInv, Numbers
<1>7. TypeOK'
  BY <1>1, <1>2, <1>4, <1>5, <1>6, NoIOType DEF IInv, TypeOK, futVars, ghost,
     bounds
<1>8. LoopFut' = LoopFut  BY <1>1 DEF LoopFut, futVars
<1>9. OneCaller' /\ LockHeld' /\ Suspects' /\ apply' # "replace"
  BY <1>1, <1>3, <1>5, <1>8 DEF IInv, OneCaller, LockHeld, Suspects, futVars,
     bounds, NoHolder
<1>10. Taking /\ End = applyIO.run.to
  BY <1>1, <1>3 DEF Taking, End
<1>11. UNCHANGED <<ver, lastRec, pending, snapDirty, owed, gated, vouched>>
  BY <1>1 DEF ghost
<1>12. /\ wal'.run.to = End /\ wal.run.to <= End /\ End <= ver
       /\ LoopFut' \notin {"io", "rio"}
  BY <1>2, <1>3, <1>4, <1>8, <1>10
<1> QED
  BY <1>4, <1>5, <1>6, <1>7, <1>9, <1>10, <1>11, <1>12, LandedStep

\* The replace fails: the file is as it was, the drained round is not in it.
LEMMA CompactFullInv ==
  ASSUME IInv, CompactFull
  PROVE  IInv'
<1>1. /\ apply = "replace" /\ prog' = MarkSuspect(prog)
      /\ holder' = NoHolder /\ queue' = queue /\ fails' = fails + 1
      /\ apply' = "idle" /\ applyIO' = NoIO
      /\ UNCHANGED <<core, disk, pc, futVars, gated, ghost, crashes, installs,
                     flushes>>
  BY DEF CompactFull, DiskFull, Unlock
<1>2. prog \in Progresses /\ wal \in Files /\ wal.run.to \in Nat
  BY NumbersType DEF IInv, TypeOK, Numbers
<1>3. LoopFut \notin {"held", "io", "rio"} /\ LoopFut' = LoopFut
  BY <1>1 DEF IInv, LockHeld, LoopFut, futVars
<1>4. prog' \in Progresses /\ prog'.suspect
  BY <1>1, <1>2, ProgressFacts
<1>5. TypeOK'
  BY <1>1, <1>4, NoIOType DEF IInv, TypeOK, core, disk, futVars, ghost
<1>6. OneCaller' /\ LockHeld' /\ Suspects' /\ apply' # "replace"
  BY <1>1, <1>3, <1>4 DEF IInv, OneCaller, LockHeld, Suspects, futVars, NoHolder
<1>7. /\ wal' \in Files /\ wal'.run.ok /\ wal'.run.from = 0
      /\ wal.run.to <= wal'.run.to /\ wal'.run.to <= ver
  BY <1>1, <1>2 DEF IInv, FileInv, disk
<1> QED
  BY <1>1, <1>3, <1>5, <1>6, <1>7, FullStep DEF ghost

-----------------------------------------------------------------------------
(* Crash and restart.                                                      *)

\* The file a restart finds holds all the live file held, and perhaps a part of
\* the batch that was being appended.
LEMMA CrashFacts ==
  ASSUME IInv, NEW kept \in InFlight.from .. InFlight.to
  PROVE  /\ CrashFile(kept) \in Files /\ ~CrashFile(kept).torn
         /\ CrashFile(kept).run.ok /\ CrashFile(kept).run.from = 0
         /\ CrashFile(kept).run.to \in Nat
         /\ wal.run.to <= CrashFile(kept).run.to
<1>1. /\ wal \in Files /\ wal.run \in Runs /\ wal.run.ok /\ wal.run.from = 0
      /\ wal.run.to \in Nat
  BY NumbersType DEF IInv, TypeOK, FileInv, Files, Numbers
<1>2. CASE CrashFile(kept) = Repaired(wal)
  BY <1>1, <1>2 DEF Repaired, Intact, Files
<1>3. CASE CrashFile(kept) # Repaired(wal)
  <2> DEFINE r == Run(InFlight.from, kept)
  <2>1. /\ ~wal.torn /\ ~IsEmptyRun(InFlight) /\ kept # InFlight.from
        /\ CrashFile(kept) = Intact(Concat(wal.run, r))
    BY <1>3 DEF CrashFile
  <2>2. \E f \in Persisters : fut[f] = "io"
    BY <2>1 DEF InFlight, EmptyRun, Run, IsEmptyRun
  <2>3. LoopFut = "io" /\ InFlight = LoopIO.run
    BY <2>2 DEF InFlight, IInv, OneCaller, LoopFut, LoopIO, Persisters
  <2>4. /\ LoopIO.run.from = wal.run.to /\ LoopIO.run.to \in Nat
        /\ LoopIO.run.from \in Nat
    BY <2>3, NumbersType DEF IInv, IOInv, Numbers
  <2>5. /\ r \in Runs /\ r.ok /\ r.from = wal.run.to /\ r.to = kept
        /\ r.from # r.to /\ kept \in Nat /\ wal.run.to <= kept
    BY <2>1, <2>3, <2>4 DEF Run, Runs
  <2> HIDE DEF r
  <2>6. /\ Concat(wal.run, r) \in Runs /\ Concat(wal.run, r).ok
        /\ Concat(wal.run, r).from = 0 /\ Concat(wal.run, r).to = kept
    BY <1>1, <2>5, ConcatFacts DEF Runs
  <2> QED  BY <2>1, <2>5, <2>6 DEF Intact, Files
<1> QED  BY <1>2, <1>3

\* A restart replays the file and owes nothing.
LEMMA CrashInv ==
  ASSUME IInv, Crash
  PROVE  IInv'
<1>1. PICK kept \in InFlight.from .. InFlight.to :
        /\ wal' = CrashFile(kept)
        /\ ver' = CrashFile(kept).run.to /\ lastRec' = CrashFile(kept).run.to
        /\ durableIndex' = CrashFile(kept).run.to
  BY DEF Crash, Recovered
<1>2. /\ wal' \in Files /\ ~wal'.torn /\ wal'.run.ok /\ wal'.run.from = 0
      /\ wal'.run.to \in Nat /\ wal.run.to <= wal'.run.to
      /\ ver' = wal'.run.to /\ lastRec' = wal'.run.to
      /\ durableIndex' = wal'.run.to
  BY <1>1, CrashFacts
<1>3. /\ crashes' = crashes + 1 /\ base' = walBase /\ snapDirty' = FALSE
      /\ owed' = FALSE /\ pendInstall' = 0 /\ pending' = EmptyRun
      /\ prog' = NewProgress /\ holder' = NoHolder /\ queue' = <<>>
      /\ pc' = "top" /\ gated' = <<>>
      /\ fut' = [f \in Persisters |-> "none"]
      /\ futIO' = [f \in Persisters |-> NoIO]
      /\ apply' = "idle" /\ applyIO' = NoIO /\ halted' = (engineAt < walBase)
      /\ UNCHANGED <<walBase, engineAt, vouched, fails, installs, flushes>>
  BY DEF Crash
<1>4. /\ pending' \in Runs /\ pending'.from = 0 /\ pending'.to = 0
      /\ pending'.ok /\ ~Dirty' /\ prog' \in Progresses /\ prog'.drained = 0
      /\ prog'.durable = 0 /\ prog'.suspect = FALSE
  BY <1>3 DEF EmptyRun, Run, Runs, Dirty, IsEmptyRun, NewProgress, Progresses
<1>5. /\ fut' \in [Persisters -> FutStates] /\ fut'["Flush"] = "none"
      /\ LoopFut' = "none" /\ futIO' \in [Persisters -> IOs]
      /\ gated' \in Seq([round : Nat, need : Nat]) /\ Len(gated') = 0
      /\ queue' \in Seq(LockUsers)
  BY <1>3, NoIOType DEF Persisters, FutStates, LoopFut
<1>6. TypeOK'
  <2>1. /\ base' \in Nat /\ pendInstall' \in Nat /\ engineAt' \in Nat
        /\ walBase' \in Nat /\ fails' \in Nat /\ crashes' \in Nat
        /\ installs' \in Nat /\ flushes' \in Nat /\ vouched' \in SUBSET Nat
    <3>1. /\ crashes' = crashes + 1 /\ base' = walBase /\ pendInstall' = 0
          /\ UNCHANGED <<walBase, engineAt, vouched, fails, installs, flushes>>
      BY <1>3
    <3>2. /\ walBase \in Nat /\ engineAt \in Nat /\ fails \in Nat
          /\ crashes \in Nat /\ installs \in Nat /\ flushes \in Nat
          /\ vouched \in SUBSET Nat
      BY DEF IInv, TypeOK
    <3> QED  BY <3>1, <3>2
  <2>2. snapDirty' \in BOOLEAN /\ owed' \in BOOLEAN /\ halted' \in BOOLEAN
    <3>1. snapDirty' = FALSE /\ owed' = FALSE
      BY <1>3
    <3>2. halted' \in BOOLEAN
      <4> DEFINE behind == engineAt < walBase
      <4>1. halted' = behind  BY <1>3
      <4>2. behind \in BOOLEAN  OBVIOUS
      <4> HIDE DEF behind
      <4> QED  BY <4>1, <4>2
    <3> QED  BY <3>1, <3>2
  <2>3. /\ holder' \in LockUsers \cup {NoHolder}
        /\ pc' \in {"top", "select", "ship", "settle"}
        /\ apply' \in {"idle", "wait", "replace"} /\ applyIO' \in IOs
    BY <1>3, NoIOType
  <2> QED  BY <1>2, <1>4, <1>5, <2>1, <2>2, <2>3 DEF TypeOK
<1>7. OneCaller' /\ LockHeld' /\ Suspects'
  BY <1>3, <1>4, <1>5 DEF IInv, OneCaller, LockHeld, Suspects, NoHolder
<1>8. CoreInv' /\ FileInv' /\ IOInv'
  BY <1>2, <1>3, <1>4, <1>5 DEF CoreInv, FileInv, IOInv
<1>9. End' = wal'.run.to /\ Front' = wal'.run.to
  BY <1>2, <1>3, <1>4, <1>5 DEF End, Front
<1>10. EndInv'
  BY <1>2, <1>9 DEF EndInv
<1>11. Claims'
  <2>1. vouched \subseteq Nat /\ wal.run.to \in Nat /\ \A v \in vouched : v <= wal.run.to
    BY NumbersType DEF IInv, TypeOK, Claims, Numbers
  <2> QED  BY <1>2, <1>3, <1>4, <2>1 DEF Claims
<1>12. HeldInv'
  BY <1>5 DEF HeldInv, GatedInRoundOrder
<1> QED  BY <1>6, <1>7, <1>8, <1>10, <1>11, <1>12 DEF IInv

-----------------------------------------------------------------------------
(* The theorems.                                                           *)

\* A fresh node holds nothing and owes nothing.
LEMMA InitIInv == Init => IInv
<1> SUFFICES ASSUME Init PROVE IInv
  OBVIOUS
<1>1. /\ pending \in Runs /\ pending.from = 0 /\ pending.to = 0 /\ pending.ok
      /\ ~Dirty /\ prog \in Progresses /\ prog.drained = 0 /\ prog.durable = 0
      /\ prog.suspect = FALSE
      /\ wal \in Files /\ wal.run.from = 0 /\ wal.run.to = 0 /\ wal.run.ok
      /\ ~wal.torn
  BY DEF Init, EmptyRun, Run, Runs, Dirty, IsEmptyRun, NewProgress, Progresses,
     Files, Intact
<1>2. /\ fut \in [Persisters -> FutStates] /\ fut["Flush"] = "none"
      /\ LoopFut = "none" /\ futIO \in [Persisters -> IOs]
      /\ gated \in Seq([round : Nat, need : Nat]) /\ Len(gated) = 0
      /\ queue \in Seq(LockUsers)
  BY NoIOType DEF Init, Persisters, FutStates, LoopFut
<1>3. TypeOK
  <2>1. /\ {ver, lastRec, durableIndex, base, pendInstall, engineAt, walBase}
             \subseteq Nat
        /\ {fails, crashes, installs, flushes} \subseteq Nat
        /\ {snapDirty, owed, halted} \subseteq BOOLEAN /\ vouched \in SUBSET Nat
    <3>1. /\ ver = 0 /\ lastRec = 0 /\ durableIndex = 0 /\ base = 0
          /\ pendInstall = 0 /\ engineAt = 0 /\ walBase = 0
          /\ fails = 0 /\ crashes = 0 /\ installs = 0 /\ flushes = 0
      BY DEF Init
    <3>2. snapDirty = FALSE /\ owed = FALSE /\ halted = FALSE /\ vouched = {}
      BY DEF Init
    <3>3. 0 \in Nat /\ FALSE \in BOOLEAN /\ {} \in SUBSET Nat
      OBVIOUS
    <3> QED  BY <3>1, <3>2, <3>3, Zenon
  <2>2. /\ holder \in LockUsers \cup {NoHolder}
        /\ pc \in {"top", "select", "ship", "settle"}
        /\ apply \in {"idle", "wait", "replace"} /\ applyIO \in IOs
    BY NoIOType DEF Init
  <2> QED  BY <1>1, <1>2, <2>1, <2>2 DEF TypeOK
<1>4. OneCaller /\ LockHeld /\ Suspects /\ CoreInv /\ FileInv /\ IOInv
  BY <1>1, <1>2 DEF Init, OneCaller, LockHeld, Suspects, CoreInv, FileInv, IOInv,
     NoHolder
<1>5. EndInv
  BY <1>1, <1>2 DEF Init, EndInv, End, Front
<1>6. Claims /\ HeldInv
  BY <1>1, <1>2 DEF Init, Claims, HeldInv, GatedInRoundOrder
<1> QED  BY <1>3, <1>4, <1>5, <1>6 DEF IInv

\* Nothing changes.
LEMMA StutterInv == IInv /\ UNCHANGED vars => IInv'
<1> SUFFICES ASSUME IInv, UNCHANGED vars PROVE IInv'
  OBVIOUS
<1>1. UNCHANGED <<core, prog, lock, disk, pc, futVars, gated, applyVars, ghost,
                  bounds>>
  BY DEF vars
<1>2. TypeOK'
  BY <1>1 DEF IInv, TypeOK, core, lock, disk, futVars, applyVars, ghost, bounds
<1>3. OneCaller' /\ LockHeld' /\ Suspects'
  BY <1>1 DEF IInv, OneCaller, LockHeld, Suspects, LoopFut, core, lock, futVars,
     applyVars, bounds
<1>4. LoopFut' = LoopFut /\ LoopIO' = LoopIO
  BY <1>1 DEF LoopFut, LoopIO, futVars
<1> QED
  BY <1>1, <1>2, <1>3, <1>4, QuietInv DEF core, disk, applyVars, ghost

\* Without a flush, only the loop runs persist_wal.
LEMMA OnlyLoop ==
  ASSUME IInv, NEW f \in Persisters, PersistNext(f)
  PROVE  f = "Loop"
<1>1. fut[f] # "none"
  BY DEF PersistNext, PersistCheck, PersistDrain, PersistOk, PersistFull,
     RecoverProbe, RecoverCapture, RecoverOk, RecoverFull
<1> QED  BY <1>1 DEF IInv, OneCaller, Persisters

\* Every step keeps the invariant.
LEMMA NextIInv ==
  ASSUME ~Preemptive, MaxFlush = 0, IInv, [Next]_vars
  PROVE  IInv'
<1>1. CASE Propose \/ StepRecord \/ StepQuiet \/ StepInstall
  BY <1>1, ProposeInv, StepRecordInv, StepInv
<1>2. CASE LoopNext
  BY <1>2, LoopTopInv, LoopWakeInv, LoopShipInv, LoopSettleInv DEF LoopNext
<1>3. CASE Flush
  <2>1. flushes < 0 /\ flushes = 0
    BY <1>3 DEF Flush, IInv, OneCaller
  <2> QED  BY <2>1
<1>4. CASE \E f \in Persisters : PersistNext(f)
  <2>1. PersistNext("Loop")
    BY <1>4, OnlyLoop
  <2> QED
    BY <2>1, PersistCheckInv, PersistDrainInv, PersistOkInv, PersistFullInv,
       RecoverProbeInv, RecoverCaptureInv, RecoverOkInv, RecoverFullInv
       DEF PersistNext
<1>5. CASE ApplyNext
  BY <1>5, EngineInv, CompactWaitInv, CompactCaptureInv, CompactOkInv,
     CompactFullInv DEF ApplyNext
<1>6. CASE Crash
  BY <1>6, CrashInv
<1>7. CASE UNCHANGED vars
  BY <1>7, StutterInv
<1> QED  BY <1>1, <1>2, <1>3, <1>4, <1>5, <1>6, <1>7 DEF Next

\* The inductive invariant of the control-plane driver: what is drained is in the
\* file or in the write in flight, unless an install owes a rewrite or the file
\* is suspect.
THEOREM ControlWalInvariant ==
  ASSUME ~Preemptive, MaxFlush = 0 PROVE Spec => []IInv
<1>1. IInv /\ [Next]_vars => IInv'
  BY NextIInv
<1> QED  BY <1>1, InitIInv, PTL DEF Spec

\* Every variable of the driver keeps its type.
THEOREM ControlWalTypes ==
  ASSUME ~Preemptive, MaxFlush = 0 PROVE Spec => []TypeOK
<1>1. IInv => TypeOK  BY DEF IInv
<1> QED  BY <1>1, ControlWalInvariant, PTL

\* Whatever a shipped vote grant or append accept vouched for is read back by a
\* restart, although the apply task's rewrites, installed snapshots, full disks
\* and the recovery of a suspect file come in any order.
THEOREM VouchedRecordsSurvive ==
  ASSUME ~Preemptive, MaxFlush = 0 PROVE Spec => []RecordsVouchedSurvive
<1>1. IInv => RecordsVouchedSurvive
  BY DEF IInv, Claims, RecordsVouchedSurvive, Recovered
<1> QED  BY <1>1, ControlWalInvariant, PTL

\* mark_durable_through is only called for what a restart replays.
THEOREM ControlDurableIndexSafe ==
  ASSUME ~Preemptive, MaxFlush = 0 PROVE Spec => []DurableIndexOnDisk
<1>1. IInv => DurableIndexOnDisk
  BY DEF IInv, Claims, DurableIndexOnDisk, Recovered
<1> QED  BY <1>1, ControlWalInvariant, PTL

\* The records of the file meet: no record logged after an install lands behind
\* the log from before it.
THEOREM ControlFileReplays ==
  ASSUME ~Preemptive, MaxFlush = 0 PROVE Spec => []WalReplayable
<1>1. IInv => WalReplayable
  BY DEF IInv, FileInv, WalReplayable, Replayable
<1> QED  BY <1>1, ControlWalInvariant, PTL

\* The debug_assert of GatedOuts::push never fires on this plane.
THEOREM ControlHeldInRoundOrder ==
  ASSUME ~Preemptive, MaxFlush = 0 PROVE Spec => []GatedInRoundOrder
<1>1. IInv => GatedInRoundOrder
  BY DEF IInv, HeldInv
<1> QED  BY <1>1, ControlWalInvariant, PTL
=============================================================================
