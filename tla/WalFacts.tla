------------------------------ MODULE WalFacts ------------------------------
(***************************************************************************)
(* What the operators of WalFile and PersistRound return: the facts that   *)
(* the proofs about both planes' durability drivers rest on.               *)
(***************************************************************************)
EXTENDS PersistRound, WalFile, FiniteSetTheorems, TLAPS

\* Runs are closed under concatenation, and runs that meet give a whole run from
\* the start of the first to the end of the second.
LEMMA ConcatFacts ==
  ASSUME NEW a \in Runs, NEW b \in Runs
  PROVE  /\ Concat(a, b) \in Runs
         /\ a.from = a.to \/ b.from = b.to \/ a.to = b.from =>
              /\ a.ok /\ b.ok => Concat(a, b).ok
              /\ b.from = b.to => Concat(a, b) = a
              /\ b.from # b.to => Concat(a, b).to = b.to
              /\ b.from # b.to /\ a.from = a.to => Concat(a, b).from = b.from
              /\ b.from # b.to /\ a.from # a.to => Concat(a, b).from = a.from
BY DEF Runs, Concat, IsEmptyRun

\* An append to a whole file extends it to the end of the batch; one that fails
\* leaves a contiguous file that ends somewhere in the batch.
LEMMA AppendFacts ==
  ASSUME NEW f \in Files, NEW r \in Runs, ~f.torn, f.run.ok, f.run.from = 0,
         r.ok, r.from = f.run.to, r.from <= r.to
  PROVE  /\ AppendSync(f, r) \in Files /\ ~AppendSync(f, r).torn
         /\ AppendSync(f, r).run.ok /\ AppendSync(f, r).run.from = 0
         /\ AppendSync(f, r).run.to = r.to
         /\ \A k \in r.from .. r.to :
              /\ AppendFull(f, r, k) \in Files
              /\ AppendFull(f, r, k).run.ok /\ AppendFull(f, r, k).run.from = 0
              /\ AppendFull(f, r, k).run.to = k
<1>1. f.run \in Runs  BY DEF Files
<1>2. AppendSync(f, r) = [run |-> Concat(f.run, r), torn |-> FALSE]
  BY DEF AppendSync, Intact
<1>3. /\ Concat(f.run, r) \in Runs /\ Concat(f.run, r).ok
      /\ Concat(f.run, r).from = 0 /\ Concat(f.run, r).to = r.to
  BY <1>1, ConcatFacts DEF Runs
<1>4. ASSUME NEW k \in r.from .. r.to
      PROVE  /\ AppendFull(f, r, k) \in Files
             /\ AppendFull(f, r, k).run.ok /\ AppendFull(f, r, k).run.from = 0
             /\ AppendFull(f, r, k).run.to = k
  <2>1. CASE k = r.from
    <3>1. AppendFull(f, r, k) = [f EXCEPT !.torn = TRUE]
      BY <2>1 DEF AppendFull
    <3> QED  BY <3>1, <2>1, <1>1 DEF Files
  <2>2. CASE k # r.from
    <3> DEFINE s == Run(r.from, k)
    <3>1. s \in Runs /\ s.ok /\ s.from = f.run.to /\ s.to = k /\ s.from # s.to
      BY <2>2 DEF Run, Runs
    <3>2. AppendFull(f, r, k) = [run |-> Concat(f.run, s), torn |-> TRUE]
      BY <2>2 DEF AppendFull
    <3> HIDE DEF s
    <3>3. /\ Concat(f.run, s) \in Runs /\ Concat(f.run, s).ok
          /\ Concat(f.run, s).from = 0 /\ Concat(f.run, s).to = k
      BY <1>1, <3>1, ConcatFacts DEF Runs
    <3> QED  BY <3>2, <3>3 DEF Files
  <2> QED  BY <2>1, <2>2
<1> QED  BY <1>2, <1>3, <1>4 DEF Files

\* What each update of PersistProgress does to its three fields.
LEMMA ProgressFacts ==
  ASSUME NEW p \in Progresses, NEW r \in Nat
  PROVE  /\ CompleteDrain(p, r) \in Progresses
         /\ CompleteDrain(p, r).durable = IF r > p.durable THEN r ELSE p.durable
         /\ CompleteDrain(p, r).drained = p.drained
         /\ CompleteDrain(p, r).suspect = p.suspect
         /\ MarkSuspect(p) \in Progresses /\ MarkSuspect(p).suspect
         /\ MarkSuspect(p).drained = p.drained
         /\ MarkSuspect(p).durable = p.durable
BY DEF Progresses, CompleteDrain, MarkSuspect

\* What is left of a sequence without its first k elements.
LEMMA DropFacts ==
  ASSUME NEW S, NEW w \in Seq(S), NEW k \in Nat, k <= Len(w)
  PROVE  LET rest == SubSeq(w, k + 1, Len(w)) IN
         /\ rest \in Seq(S) /\ Len(rest) = Len(w) - k
         /\ \A i \in 1 .. Len(rest) : rest[i] = w[k + i]
OBVIOUS

\* What GatedOuts::release ships is a prefix whose rounds have landed, and what
\* stays held is the rest in order.
LEMMA ReleaseFacts ==
  ASSUME NEW w \in Seq([round : Nat, need : Nat]), NEW durable \in Nat
  PROVE  LET rest == StillHeld(w, durable) IN
         /\ rest \in Seq([round : Nat, need : Nat])
         /\ Released(w, durable) \subseteq Nat
         /\ \A v \in Released(w, durable) :
              \E i \in 1 .. Len(w) : v = w[i].need /\ w[i].round <= durable
         /\ \E k \in Nat :
              /\ Len(rest) <= Len(w) - k
              /\ \A i \in 1 .. Len(rest) : rest[i] = w[k + i]
<1> DEFINE S == [round : Nat, need : Nat]
           P == ReleasedPositions(w, durable)
           k == Cardinality(P)
           rest == StillHeld(w, durable)
<1>1. w \in Seq(S) /\ Len(w) \in Nat
  OBVIOUS
<1>2. P \subseteq 1 .. Len(w)
  BY DEF ReleasedPositions
<1>3. IsFiniteSet(1 .. Len(w)) /\ Cardinality(1 .. Len(w)) = Len(w)
  <2>1. 1 \in Int /\ Len(w) \in Int
    BY <1>1
  <2>2. /\ IsFiniteSet(1 .. Len(w))
        /\ Cardinality(1 .. Len(w)) =
             IF 1 > Len(w) THEN 0 ELSE Len(w) - 1 + 1
    BY <2>1, FS_Interval
  <2> QED  BY <1>1, <2>2
<1>4. k \in Nat /\ k <= Len(w)
  <2> HIDE DEF P
  <2>1. IsFiniteSet(P) /\ Cardinality(P) <= Cardinality(1 .. Len(w))
    BY <1>2, <1>3, FS_Subset
  <2>2. Cardinality(P) \in Nat
    BY <2>1, FS_CardinalityType
  <2> QED  BY <1>3, <2>1, <2>2
<1>5. rest = SubSeq(w, k + 1, Len(w))
  BY DEF StillHeld
<1>6. \A i \in 1 .. Len(w) : w[i].need \in Nat
  <2> HIDE DEF S
  <2>1. \A i \in 1 .. Len(w) : w[i] \in S  BY <1>1
  <2> QED  BY <2>1 DEF S
<1>7. Released(w, durable) \subseteq Nat
  BY <1>2, <1>6 DEF Released
<1>8. \A v \in Released(w, durable) :
        \E i \in 1 .. Len(w) : v = w[i].need /\ w[i].round <= durable
  BY DEF Released, ReleasedPositions
<1> HIDE DEF k, rest, S
<1>9. /\ rest \in Seq(S) /\ Len(rest) = Len(w) - k
      /\ \A i \in 1 .. Len(rest) : rest[i] = w[k + i]
  BY <1>1, <1>4, <1>5, DropFacts
<1>10. Len(rest) <= Len(w) - k
  BY <1>1, <1>4, <1>9
<1> QED  BY <1>4, <1>7, <1>8, <1>9, <1>10 DEF rest, S
=============================================================================
