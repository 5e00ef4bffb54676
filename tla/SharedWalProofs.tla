--------------------------- MODULE SharedWalProofs ---------------------------
(***************************************************************************)
(* What the shared WAL promises for every set of tablets and every number  *)
(* of rounds, failures and crashes, by what the disk may do (Errors):      *)
(*   - on any disk, the types;                                             *)
(*   - unless a failed append leaves half a line or a crash undoes a       *)
(*     rename ("short", "undone"), no acknowledged round is lost;          *)
(*   - unless the rewrite of a live apply task fails for another reason    *)
(*     than a full disk ("compact"), recovery finds no gap.                *)
(* In all three every append, sync, strip and recovery may fail for any    *)
(* reason, and the task that met the failure stops while all others go on. *)
(* No fault can be taken out of its hypothesis: TLC refutes the statement  *)
(* with it.                                                                *)
(***************************************************************************)
EXTENDS SharedWal, SequenceTheorems, TLAPS

-----------------------------------------------------------------------------
(* The operations under way: those being flushed, then those in the queue. *)

Count == Len(batch) + Len(opQueue)
Op(i) == IF i <= Len(batch) THEN batch[i] ELSE opQueue[i - Len(batch)]

\* A tablet has one operation under way exactly while its driver waits.  An
\* append carries the round just drained, the rewrite of a live tablet the last.
OneOp ==
    /\ \A i, j \in 1 .. Count : Op(i).t = Op(j).t => i = j
    /\ \A t \in Tablets :
         st[t] \in {"wait", "forget"} <=> \E i \in 1 .. Count : Op(i).t = t

OpsOk ==
    \A i \in 1 .. Count :
        LET o == Op(i)
        IN /\ IsAppend(o) => st[o.t] = "wait" /\ o.rec = RoundRecord(o.t, round[o.t])
           /\ ~IsAppend(o) /\ st[o.t] = "wait" => o.n = round[o.t]

Lined == SharedTypeOK /\ OneOp /\ OpsOk

\* A batch is a run of appends or one rewrite; only appends are synced.
Shape ==
    /\ \A i \in 1 .. Len(batch) : IsAppend(batch[i]) \/ Len(batch) = 1
    /\ step # "io" => \A i \in 1 .. Len(batch) : IsAppend(batch[i])

Live(t) == st[t] \notin {"forget", "gone"}
Steady(t) == st[t] = "idle" /\ t \notin halting /\ "loop" \notin stopped[t]
Appending(t) == \E i \in 1 .. Count : Op(i).t = t /\ IsAppend(Op(i))

\* The append of t has been written and is not synced yet.
Unsynced(t) == step # "io" /\ InBatch(t)

\* Record r may follow the records s.
Follows(s, r) == IF r.img THEN s = <<>> ELSE r.n = 1 + LastRound(s)

-----------------------------------------------------------------------------
(* Records and runs of records.                                            *)

\* The fields of a record.
LEMMA RecFacts ==
  ASSUME NEW r \in Recs
  PROVE  r.n \in 0 .. MaxRound /\ r.n \in Nat /\ r.img \in BOOLEAN /\ r.t \in Tablets
BY SharedWalAssumption DEF Recs

\* The last round of a run of records is a round.
LEMMA LastRoundFacts ==
  ASSUME NEW s \in Seq(Recs)
  PROVE  LastRound(s) \in 0 .. MaxRound /\ LastRound(s) \in Nat
<1>1. CASE s = <<>>  BY SharedWalAssumption, <1>1 DEF LastRound
<1>2. CASE s # <<>>
  <2>1. s[Len(s)] \in Recs  BY <1>2
  <2> QED  BY <1>2, <2>1, RecFacts DEF LastRound
<1> QED  BY <1>1, <1>2

\* An empty run has no gap.
LEMMA EmptyRun ==
  <<>> \in Seq(Recs) /\ Len(<<>>) = 0 /\ Unbroken(<<>>) /\ LastRound(<<>>) = 0
BY DEF Unbroken, LastRound

\* One record more.
LEMMA AppendRun ==
  ASSUME NEW s \in Seq(Recs), NEW r \in Recs, Unbroken(s), Follows(s, r)
  PROVE  LET x == Append(s, r) IN
         /\ x \in Seq(Recs) /\ Unbroken(x) /\ LastRound(x) = r.n
         /\ LastRound(s) <= r.n
<1> DEFINE x == Append(s, r)
<1>1. /\ x \in Seq(Recs) /\ Len(x) = Len(s) + 1 /\ Len(s) \in Nat
      /\ \A i \in 1 .. Len(s) : x[i] = s[i]
      /\ x[Len(s) + 1] = r
  BY AppendProperties
<1>2. r.n \in Nat /\ r.img \in BOOLEAN /\ LastRound(s) \in Nat
  BY RecFacts, LastRoundFacts
<1> HIDE DEF x
<1>3. x # <<>>  BY <1>1
<1>4. LastRound(x) = r.n  BY <1>1, <1>3 DEF LastRound
<1>5. LastRound(s) <= r.n
  BY <1>2, EmptyRun DEF Follows
<1>6. ASSUME NEW j \in 1 .. Len(x)
      PROVE  \/ x[j].img /\ j = 1
             \/ ~x[j].img /\ x[j].n = 1 + (IF j = 1 THEN 0 ELSE x[j - 1].n)
  <2>1. CASE j \in 1 .. Len(s)
    <3>1. x[j] = s[j] /\ (j # 1 => x[j - 1] = s[j - 1])  BY <1>1, <2>1
    <3> QED  BY <2>1, <3>1 DEF Unbroken
  <2>2. CASE j = Len(s) + 1
    <3>1. x[j] = r  BY <1>1, <2>2
    <3>2. CASE Len(s) = 0
      <4>1. s = <<>> /\ j = 1  BY <2>2, <3>2
      <4> QED  BY <3>1, <4>1, EmptyRun, <1>2 DEF Follows
    <3>3. CASE Len(s) # 0
      <4>1. s # <<>> /\ j # 1 /\ j - 1 = Len(s) /\ Len(s) \in 1 .. Len(s)
        BY <1>1, <2>2, <3>3
      <4>2. x[j - 1].n = LastRound(s)  BY <1>1, <4>1 DEF LastRound
      <4> QED  BY <1>2, <3>1, <4>1, <4>2 DEF Follows
    <3> QED  BY <3>2, <3>3
  <2> QED  BY <1>1, <2>1, <2>2
<1>7. Unbroken(x)  BY <1>6 DEF Unbroken
<1> QED  BY <1>1, <1>4, <1>5, <1>7 DEF x

\* What is durable followed by at most one record that is not.
LEMMA JoinRun ==
  ASSUME NEW s \in Seq(Recs), NEW b \in Seq(Recs), Unbroken(s),
         Len(b) <= 1, Len(b) = 1 => Follows(s, b[1])
  PROVE  LET x == s \o b IN
         /\ x \in Seq(Recs) /\ Unbroken(x) /\ LastRound(s) <= LastRound(x)
         /\ b = <<>> => x = s
         /\ Len(b) = 1 => LastRound(x) = b[1].n
<1>1. LastRound(s) \in Nat /\ Len(b) \in Nat  BY LastRoundFacts
<1>2. CASE Len(b) = 0
  <2>1. b = <<>>  BY <1>2
  <2>2. s \o b = s  BY <2>1, ConcatEmptySeq
  <2> QED  BY <1>1, <1>2, <2>2
<1>3. CASE Len(b) = 1
  <2> DEFINE r == b[1]
             y == <<r>>
  <2>1. r \in Recs /\ b # <<>>  BY <1>3
  <2>2. s \o b = Append(s, r)
    <3>1. y \in Seq(Recs) /\ Len(y) = 1 /\ y[1] = r  BY <2>1
    <3> HIDE DEF y
    <3>2. \A i \in 1 .. Len(b) : b[i] = y[i]  BY <1>3, <3>1
    <3>3. b = y  BY <1>3, <3>1, <3>2, SeqEqual
    <3> HIDE DEF r
    <3>4. Append(s, r) = s \o <<r>>  BY <2>1, AppendIsConcat
    <3> QED  BY <3>3, <3>4 DEF y
  <2>3. Follows(s, r)  BY <1>3
  <2> HIDE DEF r
  <2>4. /\ s \o b \in Seq(Recs) /\ Unbroken(s \o b) /\ LastRound(s \o b) = r.n
        /\ LastRound(s) <= r.n
    BY <2>1, <2>2, <2>3, AppendRun
  <2> QED  BY <2>1, <2>4 DEF r
<1>4. Len(b) = 0 \/ Len(b) = 1
  <2>1. \A n \in Nat : n <= 1 => n = 0 \/ n = 1  OBVIOUS
  <2> QED  BY <1>1, <2>1, Zenon
<1> QED  BY <1>2, <1>3, <1>4, Zenon

\* A prefix of at most one record.
LEMMA ShortPrefix ==
  ASSUME NEW b \in Seq(Recs), Len(b) <= 1, NEW i \in 0 .. Len(b)
  PROVE  /\ SubSeq(b, 1, i) \in Seq(Recs)
         /\ i = 0 => SubSeq(b, 1, i) = <<>>
         /\ i = Len(b) => SubSeq(b, 1, i) = b
         /\ SubSeq(b, 1, i) = <<>> \/ SubSeq(b, 1, i) = b
<1>1. i = 0 => SubSeq(b, 1, i) = <<>>  BY SubSeqEmpty
<1>2. i = Len(b) => SubSeq(b, 1, i) = b  BY SubSeqFull
<1>3. i = 0 \/ i = Len(b)  OBVIOUS
<1> QED  BY <1>1, <1>2, <1>3

\* An image stands alone.
LEMMA ImageRun ==
  ASSUME NEW t \in Tablets, NEW n \in 0 .. MaxRound
  PROVE  /\ <<RoundImage(t, n)>> \in Seq(Recs) /\ Unbroken(<<RoundImage(t, n)>>)
         /\ LastRound(<<RoundImage(t, n)>>) = n
<1>1. RoundImage(t, n) \in Recs /\ RoundImage(t, n).img = TRUE /\ RoundImage(t, n).n = n
  BY DEF RoundImage, Recs
<1> QED  BY <1>1 DEF Unbroken, LastRound

\* A record alone is a run of one.
LEMMA RecordRun ==
  ASSUME NEW t \in Tablets, NEW n \in 0 .. MaxRound
  PROVE  /\ RoundRecord(t, n) \in Recs /\ ~RoundRecord(t, n).img /\ RoundRecord(t, n).n = n
         /\ <<RoundRecord(t, n)>> \in Seq(Recs) /\ Len(<<RoundRecord(t, n)>>) = 1
         /\ <<RoundRecord(t, n)>>[1] = RoundRecord(t, n)
         /\ Append(<<>>, RoundRecord(t, n)) = <<RoundRecord(t, n)>>
<1>1. RoundRecord(t, n) \in Recs /\ ~RoundRecord(t, n).img /\ RoundRecord(t, n).n = n
  BY DEF RoundRecord, Recs
<1> QED  BY <1>1

\* The last round of an extended run is that of its last record.
LEMMA LastOfAppend ==
  ASSUME NEW s \in Seq(Recs), NEW r \in Recs
  PROVE  Append(s, r) \in Seq(Recs) /\ LastRound(Append(s, r)) = r.n
<1> DEFINE x == Append(s, r)
<1>1. x \in Seq(Recs) /\ Len(x) = Len(s) + 1 /\ Len(s) \in Nat /\ x[Len(s) + 1] = r
  BY AppendProperties
<1> HIDE DEF x
<1>2. x # <<>>  BY <1>1
<1> QED  BY <1>1, <1>2 DEF LastRound, x

\* A run that reaches round n still does when rounds from n on are put behind it.
LEMMA LastOfJoin ==
  ASSUME NEW s \in Seq(Recs), NEW b \in Seq(Recs), NEW n \in Nat, n <= LastRound(s),
         \A i \in 1 .. Len(b) : n <= b[i].n
  PROVE  /\ s \o b \in Seq(Recs) /\ n <= LastRound(s \o b)
         /\ b # <<>> => LastRound(s \o b) = b[Len(b)].n
<1> DEFINE x == s \o b
<1>1. /\ x \in Seq(Recs) /\ Len(x) = Len(s) + Len(b) /\ Len(s) \in Nat /\ Len(b) \in Nat
      /\ \A i \in 1 .. Len(s) + Len(b) : x[i] = IF i <= Len(s) THEN s[i] ELSE b[i - Len(s)]
  BY ConcatProperties
<1>2. CASE b = <<>>
  <2>1. s \o b = s  BY <1>2, ConcatEmptySeq
  <2> QED  BY <1>2, <2>1
<1>3. CASE b # <<>>
  <2>1. Len(b) \in 1 .. Len(b)  BY <1>1, <1>3
  <2>2. /\ Len(x) \in 1 .. Len(s) + Len(b) /\ ~(Len(x) <= Len(s))
        /\ Len(x) - Len(s) = Len(b)
    BY <1>1, <2>1
  <2>3. x[Len(x)] = b[Len(b)]  BY <1>1, <2>2
  <2> HIDE DEF x
  <2>4. x # <<>>  BY <1>1, <2>1
  <2>5. LastRound(x) = b[Len(b)].n  BY <2>3, <2>4 DEF LastRound
  <2> QED  BY <1>1, <2>1, <2>5 DEF x
<1> QED  BY <1>2, <1>3

\* The first records of a run are records of it.
LEMMA PrefixOf ==
  ASSUME NEW b \in Seq(Recs), NEW k \in Int, k <= Len(b)
  PROVE  /\ SubSeq(b, 1, k) \in Seq(Recs)
         /\ \A i \in 1 .. Len(SubSeq(b, 1, k)) :
               i \in 1 .. Len(b) /\ SubSeq(b, 1, k)[i] = b[i]
<1>1. Len(b) \in Nat  OBVIOUS
<1>2. \A i \in 1 .. k : b[i] \in Recs  BY <1>1
<1>3. /\ SubSeq(b, 1, k) \in Seq(Recs)
      /\ Len(SubSeq(b, 1, k)) = IF 1 <= k THEN k - 1 + 1 ELSE 0
      /\ \A i \in 1 .. k - 1 + 1 : SubSeq(b, 1, k)[i] = b[1 + i - 1]
  BY <1>2, SubSeqProperties
<1> QED  BY <1>1, <1>3

\* The empty buffer.
LEMMA NothingTyped ==
  Nothing \in [Tablets -> Seq(Recs)] /\ \A t \in Tablets : Nothing[t] = <<>>
BY EmptyRun DEF Nothing

-----------------------------------------------------------------------------
(* The operations under way.                                               *)

\* The fields of an operation.
LEMMA OpsFacts ==
  ASSUME NEW o \in Ops
  PROVE  /\ o.t \in Tablets /\ o.prev \in Seq(Recs)
         /\ IsAppend(o) => o.rec \in Recs
         /\ ~IsAppend(o) => o.image \in [Tablets -> Seq(Recs)] /\ o.n \in 0 .. MaxRound
         /\ RoundOf(o) \in 0 .. MaxRound
         /\ o.from \in {"idle", "suspect"}
<1>1. CASE o \in [t : Tablets, op : {"append"}, rec : Recs, prev : Seq(Recs),
                  from : {"idle"}]
  <2>1. /\ o.op = "append" /\ o.t \in Tablets /\ o.prev \in Seq(Recs) /\ o.rec \in Recs
        /\ o.from = "idle"
    BY <1>1
  <2> QED  BY <2>1, RecFacts DEF IsAppend, RoundOf
<1>2. CASE o \in [t : Tablets, op : {"rewrite"}, image : [Tablets -> Seq(Recs)],
                  prev : Seq(Recs), n : 0 .. MaxRound, from : {"idle", "suspect"}]
  <2>1. /\ o.op = "rewrite" /\ o.t \in Tablets /\ o.prev \in Seq(Recs)
        /\ o.image \in [Tablets -> Seq(Recs)] /\ o.n \in 0 .. MaxRound
        /\ o.from \in {"idle", "suspect"}
    BY <1>2
  <2> QED  BY <2>1 DEF IsAppend, RoundOf
<1> QED  BY <1>1, <1>2 DEF Ops

\* Batch and queue, numbered as one line of operations.
LEMMA OpFacts ==
  ASSUME SharedTypeOK
  PROVE  /\ Len(batch) \in Nat /\ Len(opQueue) \in Nat /\ Count \in Nat
         /\ \A i \in 1 .. Count : Op(i) \in Ops
         /\ \A i \in 1 .. Len(batch) : i \in 1 .. Count /\ Op(i) = batch[i]
         /\ \A i \in 1 .. Len(opQueue) : /\ i + Len(batch) \in 1 .. Count
                                         /\ Op(i + Len(batch)) = opQueue[i]
<1>1. batch \in Seq(Ops) /\ opQueue \in Seq(Ops)  BY DEF SharedTypeOK
<1>2. Len(batch) \in Nat /\ Len(opQueue) \in Nat /\ Count \in Nat  BY <1>1 DEF Count
<1>3. ASSUME NEW i \in 1 .. Count  PROVE Op(i) \in Ops
  <2>1. CASE i <= Len(batch)  BY <1>1, <1>2, <2>1 DEF Op
  <2>2. CASE ~(i <= Len(batch))
    <3>1. i - Len(batch) \in 1 .. Len(opQueue)  BY <1>2, <2>2 DEF Count
    <3> QED  BY <1>1, <2>2, <3>1 DEF Op
  <2> QED  BY <2>1, <2>2
<1>4. \A i \in 1 .. Len(batch) : i \in 1 .. Count /\ Op(i) = batch[i]
  BY <1>2 DEF Count, Op
<1>5. \A i \in 1 .. Len(opQueue) : /\ i + Len(batch) \in 1 .. Count
                                   /\ Op(i + Len(batch)) = opQueue[i]
  BY <1>2 DEF Count, Op
<1> QED  BY <1>2, <1>3, <1>4, <1>5

\* The operation of a tablet in the batch.
LEMMA OpOfFacts ==
  ASSUME SharedTypeOK, NEW t, InBatch(t)
  PROVE  \E j \in 1 .. Len(batch) :
            j \in 1 .. Count /\ Op(j) = batch[j] /\ OpOf(t) = Op(j) /\ Op(j).t = t
<1> DEFINE j == CHOOSE i \in 1 .. Len(batch) : batch[i].t = t
<1>1. j \in 1 .. Len(batch) /\ batch[j].t = t /\ OpOf(t) = batch[j]
  BY DEF InBatch, OpOf
<1> HIDE DEF j
<1> QED  BY <1>1, OpFacts

\* An operation enters the queue.
LEMMA EnqueueOps ==
  ASSUME SharedTypeOK, NEW o \in Ops, opQueue' = Append(opQueue, o), batch' = batch
  PROVE  /\ opQueue' \in Seq(Ops) /\ Count' = Count + 1
         /\ \A i \in 1 .. Count : Op(i)' = Op(i)
         /\ \A i : i = Count + 1 => Op(i)' = o
<1>1. batch \in Seq(Ops) /\ opQueue \in Seq(Ops)  BY DEF SharedTypeOK
<1>2. Len(batch) \in Nat /\ Len(opQueue) \in Nat  BY <1>1
<1>3. /\ opQueue' \in Seq(Ops) /\ Len(opQueue') = Len(opQueue) + 1
      /\ \A i \in 1 .. Len(opQueue) : opQueue'[i] = opQueue[i]
      /\ opQueue'[Len(opQueue) + 1] = o
  BY <1>1, AppendProperties
<1>4. Count' = Count + 1  BY <1>2, <1>3 DEF Count
<1>5. ASSUME NEW i \in 1 .. Count  PROVE Op(i)' = Op(i)
  <2>1. CASE i <= Len(batch)  BY <2>1 DEF Op
  <2>2. CASE ~(i <= Len(batch))
    <3>1. i - Len(batch) \in 1 .. Len(opQueue)  BY <1>2, <2>2 DEF Count
    <3> QED  BY <1>3, <2>2, <3>1 DEF Op
  <2> QED  BY <2>1, <2>2
<1>6. ASSUME NEW i, i = Count + 1  PROVE Op(i)' = o
  <2>1. ~(i <= Len(batch)) /\ i - Len(batch) = Len(opQueue) + 1  BY <1>2, <1>6 DEF Count
  <2> QED  BY <1>3, <2>1 DEF Op
<1> QED  BY <1>3, <1>4, <1>5, <1>6

\* The leader takes operations off the queue.
LEMMA TakeOps ==
  ASSUME SharedTypeOK, batch = <<>>, NEW k \in 1 .. Len(opQueue),
         batch' = SubSeq(opQueue, 1, k), opQueue' = SubSeq(opQueue, k + 1, Len(opQueue))
  PROVE  /\ opQueue' \in Seq(Ops) /\ batch' \in Seq(Ops) /\ Len(batch') = k
         /\ \A i \in 1 .. k : batch'[i] = opQueue[i]
         /\ Count' = Count
         /\ \A i \in 1 .. Count : Op(i)' = Op(i)
<1>1. opQueue \in Seq(Ops) /\ Len(opQueue) \in Nat /\ Len(batch) = 0  BY DEF SharedTypeOK
<1>2. /\ \A i \in 1 .. k : opQueue[i] \in Ops
      /\ \A i \in k + 1 .. Len(opQueue) : opQueue[i] \in Ops
  BY <1>1
<1>3. /\ SubSeq(opQueue, 1, k) \in Seq(Ops) /\ Len(SubSeq(opQueue, 1, k)) = k
      /\ \A i \in 1 .. k : SubSeq(opQueue, 1, k)[i] = opQueue[i]
  BY <1>1, <1>2, SubSeqProperties
<1>4. /\ SubSeq(opQueue, k + 1, Len(opQueue)) \in Seq(Ops)
      /\ Len(SubSeq(opQueue, k + 1, Len(opQueue))) = Len(opQueue) - k
      /\ \A i \in 1 .. Len(opQueue) - k :
            SubSeq(opQueue, k + 1, Len(opQueue))[i] = opQueue[k + i]
  BY <1>1, <1>2, SubSeqProperties
<1>5. Count = Len(opQueue) /\ Count' = Count  BY <1>1, <1>3, <1>4 DEF Count
<1>6. ASSUME NEW i \in 1 .. Count  PROVE Op(i)' = Op(i)
  <2>1. Op(i) = opQueue[i]  BY <1>1, <1>5 DEF Op
  <2>2. CASE i <= k  BY <1>3, <2>1, <2>2 DEF Op
  <2>3. CASE ~(i <= k)
    <3>1. i - k \in 1 .. Len(opQueue) - k /\ k + (i - k) = i  BY <1>1, <1>5, <2>3
    <3> QED  BY <1>3, <1>4, <2>1, <2>3, <3>1 DEF Op
  <2> QED  BY <2>2, <2>3
<1> QED  BY <1>3, <1>4, <1>5, <1>6

\* The batch is over.
LEMMA DropOps ==
  ASSUME SharedTypeOK, batch' = <<>>, opQueue' = opQueue
  PROVE  /\ Count' = Len(opQueue) /\ Len(opQueue) \in Nat /\ Len(batch) \in Nat
         /\ \A i \in 1 .. Count' : /\ i + Len(batch) \in 1 .. Count
                                   /\ Op(i)' = Op(i + Len(batch))
         /\ \A i \in 1 .. Count : ~(i <= Len(batch)) =>
               i - Len(batch) \in 1 .. Count' /\ (i - Len(batch)) + Len(batch) = i
<1>1. Len(batch) \in Nat /\ Len(opQueue) \in Nat /\ Len(batch') = 0  BY OpFacts
<1>2. Count' = Len(opQueue)  BY <1>1 DEF Count
<1>3. ASSUME NEW i \in 1 .. Count'
      PROVE  i + Len(batch) \in 1 .. Count /\ Op(i)' = Op(i + Len(batch))
  <2>1. Op(i)' = opQueue[i]  BY <1>1, <1>2 DEF Op
  <2> QED  BY <1>2, <2>1, OpFacts
<1>4. \A i \in 1 .. Count : ~(i <= Len(batch)) =>
         i - Len(batch) \in 1 .. Count' /\ (i - Len(batch)) + Len(batch) = i
  BY <1>1, <1>2 DEF Count
<1> QED  BY <1>1, <1>2, <1>3, <1>4

\* The batch is one run of appends, or one rewrite.
LEMMA HeadFacts ==
  ASSUME SharedTypeOK, Shape, batch # <<>>
  PROVE  /\ Len(batch) \in Nat /\ 1 \in 1 .. Len(batch) /\ 1 \in 1 .. Count
         /\ Head(batch) = batch[1] /\ Op(1) = batch[1] /\ batch[1] \in Ops
         /\ IsAppend(Head(batch)) => \A i \in 1 .. Len(batch) : IsAppend(batch[i])
         /\ ~IsAppend(Head(batch)) => Len(batch) = 1
<1>1. batch \in Seq(Ops)  BY DEF SharedTypeOK
<1>2. Len(batch) \in Nat /\ Len(batch) # 0 /\ Head(batch) = batch[1]  BY <1>1
<1>3. 1 \in 1 .. Len(batch)  BY <1>2
<1>4. 1 \in 1 .. Count /\ Op(1) = batch[1] /\ batch[1] \in Ops
  BY <1>3, OpFacts
<1>5. ~IsAppend(Head(batch)) => Len(batch) = 1  BY <1>2, <1>3 DEF Shape
<1>6. ASSUME IsAppend(Head(batch)), NEW i \in 1 .. Len(batch)  PROVE IsAppend(batch[i])
  <2>1. CASE Len(batch) = 1
    <3>1. i = 1  BY <2>1
    <3> QED  BY <1>2, <1>6, <3>1
  <2>2. CASE Len(batch) # 1  BY <2>2 DEF Shape
  <2> QED  BY <2>1, <2>2
<1> QED  BY <1>2, <1>3, <1>4, <1>5, <1>6

\* Operation o of tablet t enters the queue: the tablet has drained n rounds and
\* its tail becomes tl.
Enters(t, o, n, tl, q) ==
    /\ st[t] \in {"idle", "suspect"} /\ o \in Ops /\ o.t = t /\ o.prev = tails[t]
    /\ n \in 0 .. MaxRound /\ round[t] <= n /\ tl \in Seq(Recs)
    /\ q \in {"wait", "forget"} /\ (q = "wait" => LastRound(tl) = n)
    /\ opQueue' = Append(opQueue, o)
    /\ tails' = [tails EXCEPT ![t] = tl]
    /\ round' = [round EXCEPT ![t] = n]
    /\ st' = [st EXCEPT ![t] = q]
    /\ IsAppend(o) => /\ q = "wait" /\ Steady(t) /\ n = round[t] + 1
                      /\ o.rec = RoundRecord(t, n) /\ tl = Append(tails[t], o.rec)
    /\ ~IsAppend(o) => o.image = tails' /\ (q = "wait" => o.n = n) /\ Unbroken(tl)
    /\ onDisk' = onDisk /\ buf' = buf /\ torn' = torn /\ batch' = batch /\ step' = step
    /\ full' = full /\ needs' = needs /\ acked' = acked /\ halting' = halting
    /\ stopped' = stopped /\ prior' = prior
    /\ diskFails' = diskFails /\ nodeCrashes' = nodeCrashes

\* append_tagged enters the queue.
LEMMA AppendEnters ==
  ASSUME SharedTypeOK, NEW t \in Tablets, AppendTagged(t)
  PROVE  \E o, n, tl, q : Enters(t, o, n, tl, q)
<1> DEFINE n == round[t] + 1
           r == RoundRecord(t, n)
           o == [t |-> t, op |-> "append", rec |-> r, prev |-> tails[t], from |-> st[t]]
           tl == Append(tails[t], r)
<1>1. st[t] = "idle" /\ round[t] < MaxRound /\ Steady(t)
  BY DEF AppendTagged, Steady
<1>2. round[t] \in Nat /\ n \in 0 .. MaxRound /\ round[t] <= n
  BY SharedWalAssumption, <1>1 DEF SharedTypeOK
<1>3. tails[t] \in Seq(Recs)  BY DEF SharedTypeOK
<1>4. r \in Recs /\ r.n = n  BY <1>2, RecordRun
<1>5. tl \in Seq(Recs) /\ LastRound(tl) = n
  <2> HIDE DEF r
  <2> QED  BY <1>3, <1>4, LastOfAppend
<1>6. /\ o \in Ops /\ o.t = t /\ o.prev = tails[t] /\ o.rec = RoundRecord(t, n)
      /\ IsAppend(o) /\ tl = Append(tails[t], o.rec)
  <2> HIDE DEF r
  <2>1. o \in Ops /\ o.t = t /\ o.prev = tails[t] /\ o.rec = r /\ IsAppend(o)
    BY <1>1, <1>3, <1>4 DEF Ops, IsAppend
  <2> QED  BY <2>1 DEF r
<1>7. /\ opQueue' = Append(opQueue, o) /\ tails' = [tails EXCEPT ![t] = tl]
      /\ round' = [round EXCEPT ![t] = n] /\ st' = [st EXCEPT ![t] = "wait"]
      /\ onDisk' = onDisk /\ buf' = buf /\ torn' = torn /\ batch' = batch /\ step' = step
      /\ full' = full /\ needs' = needs /\ acked' = acked /\ halting' = halting
      /\ stopped' = stopped /\ prior' = prior
      /\ diskFails' = diskFails /\ nodeCrashes' = nodeCrashes
  BY DEF AppendTagged, io
<1> HIDE DEF o, tl
<1>8. Enters(t, o, n, tl, "wait")  BY <1>1, <1>2, <1>5, <1>6, <1>7 DEF Enters
<1> QED  BY <1>8

\* A rewrite, with an image of every tail, enters the queue.
LEMMA RewriteEnters ==
  ASSUME SharedTypeOK, NEW t \in Tablets, st[t] \in {"idle", "suspect"},
         NEW tl \in Seq(Recs), Unbroken(tl), NEW k \in 0 .. MaxRound, Rewrite(t, tl, k),
         NEW n \in 0 .. MaxRound, round[t] <= n, round' = [round EXCEPT ![t] = n],
         NEW q \in {"wait", "forget"}, q = "wait" => LastRound(tl) = n /\ k = n,
         st' = [st EXCEPT ![t] = q],
         UNCHANGED <<io, acked, halting, stopped, diskFails, nodeCrashes>>
  PROVE  \E o : Enters(t, o, n, tl, q)
<1> DEFINE i == [tails EXCEPT ![t] = tl]
           o == [t |-> t, op |-> "rewrite", n |-> k, prev |-> tails[t], from |-> st[t],
                 image |-> i]
<1>1. i \in [Tablets -> Seq(Recs)] /\ tails[t] \in Seq(Recs)  BY DEF SharedTypeOK
<1>2. opQueue' = Append(opQueue, o) /\ tails' = i  BY DEF Rewrite
<1>3. o \in Ops /\ o.t = t /\ o.prev = tails[t] /\ o.n = k /\ o.image = tails'
      /\ ~IsAppend(o)
  <2> HIDE DEF i
  <2> QED  BY <1>1, <1>2 DEF Ops, IsAppend
<1>4. tails' = [tails EXCEPT ![t] = tl]  BY <1>2
<1>5. /\ onDisk' = onDisk /\ buf' = buf /\ torn' = torn /\ batch' = batch /\ step' = step
      /\ full' = full /\ needs' = needs /\ acked' = acked /\ halting' = halting
      /\ stopped' = stopped /\ prior' = prior
      /\ diskFails' = diskFails /\ nodeCrashes' = nodeCrashes
  BY DEF io
<1> HIDE DEF o
<1>6. Enters(t, o, n, tl, q)  BY <1>2, <1>3, <1>4, <1>5 DEF Enters
<1> QED  BY <1>6

\* So do compact_group and forget.
LEMMA CallerEnters ==
  ASSUME SharedTypeOK, NEW t \in Tablets, AppendTagged(t) \/ CompactGroup(t) \/ Forget(t)
  PROVE  \E o, n, tl, q : Enters(t, o, n, tl, q)
<1>1. CASE AppendTagged(t)  BY <1>1, AppendEnters
<1>2. round[t] \in Nat /\ round[t] \in 0 .. MaxRound /\ round \in [Tablets -> 0 .. MaxRound]
  BY SharedWalAssumption DEF SharedTypeOK
<1>3. CASE CompactGroup(t)
  <2>1. PICK n \in {round[t], round[t] + 1} :
          /\ n \in 1 .. MaxRound
          /\ Rewrite(t, <<RoundImage(t, n)>>, n)
          /\ round' = [round EXCEPT ![t] = n]
    BY <1>3 DEF CompactGroup
  <2>2. /\ st[t] \in {"idle", "suspect"} /\ st' = [st EXCEPT ![t] = "wait"]
        /\ UNCHANGED <<io, acked, halting, stopped, diskFails, nodeCrashes>>
    BY <1>3 DEF CompactGroup
  <2>3. n \in 0 .. MaxRound /\ round[t] <= n  BY SharedWalAssumption, <1>2, <2>1
  <2>4. /\ <<RoundImage(t, n)>> \in Seq(Recs) /\ Unbroken(<<RoundImage(t, n)>>)
        /\ LastRound(<<RoundImage(t, n)>>) = n
    BY <2>3, ImageRun
  <2>5. \E o : Enters(t, o, n, <<RoundImage(t, n)>>, "wait")
    BY <2>1, <2>2, <2>3, <2>4, RewriteEnters
  <2> QED  BY <2>5
<1>4. CASE Forget(t)
  <2>1. /\ st[t] \in {"idle", "suspect"} /\ st' = [st EXCEPT ![t] = "forget"]
        /\ Rewrite(t, <<>>, 0) /\ round' = round
        /\ UNCHANGED <<io, acked, halting, stopped, diskFails, nodeCrashes>>
    BY <1>4 DEF Forget
  <2>2. round' = [round EXCEPT ![t] = round[t]] /\ round[t] <= round[t]
        /\ 0 \in 0 .. MaxRound
    BY SharedWalAssumption, <1>2, <2>1
  <2>3. <<>> \in Seq(Recs) /\ Unbroken(<<>>)  BY EmptyRun
  <2>4. \E o : Enters(t, o, round[t], <<>>, "forget")
    BY <1>2, <2>1, <2>2, <2>3, RewriteEnters
  <2> QED  BY <2>4
<1> QED  BY <1>1, <1>3, <1>4

\* The tablet that enters the queue, and the others.
LEMMA EntersFacts ==
  ASSUME Lined, NEW t \in Tablets, NEW o, NEW n, NEW tl, NEW q,
         Enters(t, o, n, tl, q)
  PROVE  /\ Count \in Nat /\ Count' = Count + 1 /\ opQueue' \in Seq(Ops)
         /\ \A i \in 1 .. Count : Op(i)' = Op(i) /\ Op(i).t # t
         /\ \A i : i = Count + 1 => Op(i)' = o
         /\ st'[t] = q /\ round'[t] = n /\ tails'[t] = tl
         /\ ~Steady(t)' /\ (Live(t)' => q = "wait") /\ ~InBatch(t) /\ ~InBatch(t)'
         /\ Appending(t)' => IsAppend(o)
         /\ Live(t) /\ acked[t] \in Nat /\ round[t] \in Nat
         /\ \A u \in Tablets : u # t =>
              /\ st'[u] = st[u] /\ round'[u] = round[u] /\ tails'[u] = tails[u]
              /\ Live(u)' = Live(u) /\ Steady(u)' = Steady(u)
              /\ InBatch(u)' = InBatch(u) /\ (Appending(u)' = Appending(u))
<1>1. SharedTypeOK /\ OneOp  BY DEF Lined
<1>2. /\ opQueue' \in Seq(Ops) /\ Count' = Count + 1 /\ Count \in Nat
      /\ \A i \in 1 .. Count : Op(i)' = Op(i)
      /\ \A i : i = Count + 1 => Op(i)' = o
  BY <1>1, EnqueueOps, OpFacts DEF Enters
<1>3. \A i \in 1 .. Count : Op(i).t # t  BY <1>1 DEF OneOp, Enters
<1>4. st'[t] = q /\ round'[t] = n /\ tails'[t] = tl  BY <1>1 DEF Enters, SharedTypeOK
<1>5. ~Steady(t)' /\ (Live(t)' => q = "wait") /\ Live(t)
  BY <1>4 DEF Enters, Steady, Live
<1>6. ~InBatch(t) /\ \A u \in Tablets : InBatch(u)' = InBatch(u)
  <2>1. ~InBatch(t)  BY <1>1, <1>3, OpFacts DEF InBatch
  <2> QED  BY <2>1 DEF Enters, InBatch
<1>7. ASSUME Appending(t)'  PROVE IsAppend(o)
  <2>1. PICK i \in 1 .. Count' : Op(i)'.t = t /\ IsAppend(Op(i)')
    BY <1>7 DEF Appending, IsAppend
  <2>2. i \in 1 .. Count \/ i = Count + 1  BY <1>2
  <2> QED  BY <1>2, <1>3, <2>1, <2>2
<1>8. acked[t] \in Nat /\ round[t] \in Nat  BY SharedWalAssumption, <1>1 DEF SharedTypeOK
<1>9. ASSUME NEW u \in Tablets, u # t
      PROVE  /\ st'[u] = st[u] /\ round'[u] = round[u] /\ tails'[u] = tails[u]
             /\ Live(u)' = Live(u) /\ Steady(u)' = Steady(u)
             /\ Appending(u)' = Appending(u)
  <2>1. st'[u] = st[u] /\ round'[u] = round[u] /\ tails'[u] = tails[u]
    BY <1>1, <1>9 DEF Enters, SharedTypeOK
  <2>2. Live(u)' = Live(u) /\ Steady(u)' = Steady(u)
    BY <2>1 DEF Enters, Live, Steady
  <2>3. \A i \in 1 .. Count' : i \in 1 .. Count \/ (i = Count + 1 /\ Op(i)'.t # u)
    BY <1>2, <1>9 DEF Enters
  <2>4. \A i \in 1 .. Count : i \in 1 .. Count'  BY <1>2
  <2>5. Appending(u)' <=> \E i \in 1 .. Count' : Op(i)'.t = u /\ IsAppend(Op(i)')
    BY DEF Appending, IsAppend
  <2>6. Appending(u)' <=> Appending(u)  BY <1>2, <2>3, <2>4, <2>5 DEF Appending
  <2> QED  BY <2>1, <2>2, <2>6 DEF Appending
<1> QED  BY <1>2, <1>3, <1>4, <1>5, <1>6, <1>7, <1>8, <1>9

\* An operation that enters the queue is the only one, and the next, of its tablet.
LEMMA EntersOps ==
  ASSUME Lined, NEW t \in Tablets, NEW o, NEW n, NEW tl, NEW q,
         Enters(t, o, n, tl, q)
  PROVE  OneOp' /\ OpsOk'
<1>1. SharedTypeOK /\ OneOp /\ OpsOk  BY DEF Lined
<1>2. /\ Count \in Nat /\ Count' = Count + 1
      /\ \A i \in 1 .. Count : Op(i)' = Op(i) /\ Op(i).t # t
      /\ \A i : i = Count + 1 => Op(i)' = o
      /\ st'[t] = q /\ round'[t] = n
      /\ \A u \in Tablets : u # t => st'[u] = st[u] /\ round'[u] = round[u]
      /\ Live(t)
  BY EntersFacts
<1>3. o.t = t  BY DEF Enters
<1>4. \A i \in 1 .. Count' : i \in 1 .. Count \/ i = Count + 1  BY <1>2
<1>5. \A i \in 1 .. Count : Op(i).t \in Tablets  BY <1>1, OpFacts, OpsFacts
<1>6. ASSUME NEW i \in 1 .. Count', NEW j \in 1 .. Count', Op(i)'.t = Op(j)'.t
      PROVE  i = j
  BY <1>1, <1>2, <1>3, <1>4, <1>6 DEF OneOp
<1>7. ASSUME NEW u \in Tablets
      PROVE  st'[u] \in {"wait", "forget"} <=> \E i \in 1 .. Count' : Op(i)'.t = u
  <2>1. CASE u = t
    <3>1. Count + 1 \in 1 .. Count' /\ q \in {"wait", "forget"}  BY <1>2 DEF Enters
    <3> QED  BY <1>2, <1>3, <2>1, <3>1
  <2>2. CASE u # t
    <3>1. \A i \in 1 .. Count : i \in 1 .. Count'  BY <1>2
    <3>2. st[u] \in {"wait", "forget"} <=> \E i \in 1 .. Count : Op(i).t = u
      BY <1>1 DEF OneOp
    <3> QED  BY <1>2, <1>3, <1>4, <2>2, <3>1, <3>2
  <2> QED  BY <2>1, <2>2
<1>8. OneOp'  BY <1>6, <1>7 DEF OneOp
<1>9. ASSUME NEW i \in 1 .. Count'
      PROVE  LET p == Op(i)'
             IN /\ IsAppend(p) => /\ st'[p.t] = "wait"
                                  /\ p.rec = RoundRecord(p.t, round'[p.t])
                /\ ~IsAppend(p) /\ st'[p.t] = "wait" => p.n = round'[p.t]
  <2>1. CASE i \in 1 .. Count
    <3> DEFINE p == Op(i)
    <3>1. /\ IsAppend(p) => st[p.t] = "wait" /\ p.rec = RoundRecord(p.t, round[p.t])
          /\ ~IsAppend(p) /\ st[p.t] = "wait" => p.n = round[p.t]
      BY <1>1, <2>1 DEF OpsOk
    <3>2. Op(i)' = p /\ st'[p.t] = st[p.t] /\ round'[p.t] = round[p.t]
      BY <1>2, <1>5, <2>1
    <3> HIDE DEF p
    <3> QED  BY <1>3, <3>1, <3>2
  <2>2. CASE i = Count + 1
    <3>1. Op(i)' = o  BY <1>2, <2>2
    <3>2. /\ IsAppend(o) => q = "wait" /\ o.rec = RoundRecord(t, n)
          /\ ~IsAppend(o) => (q = "wait" => o.n = n)
      BY DEF Enters
    <3> QED  BY <1>2, <1>3, <3>1, <3>2
  <2> QED  BY <1>4, <2>1, <2>2
<1>10. OpsOk'  BY <1>9 DEF OpsOk, IsAppend, RoundRecord
<1> QED  BY <1>8, <1>10

-----------------------------------------------------------------------------
(* Types, on any disk.                                                     *)

TInv == SharedTypeOK /\ Shape

\* What a finished flush leaves to the callers has its type.
DoneTyped ==
    /\ batch' = <<>> /\ opQueue' = opQueue /\ round' = round /\ halting' = halting
    /\ nodeCrashes' = nodeCrashes
    /\ tails' \in [Tablets -> Seq(Recs)]
    /\ st' \in [Tablets -> {"idle", "wait", "suspect", "forget", "gone"}]
    /\ acked' \in [Tablets -> 0 .. MaxRound]
    /\ stopped' \in [Tablets -> SUBSET {"loop", "apply"}]

\* The operation of a tablet in the batch has its type.
LEMMA OpOfTyped ==
  ASSUME SharedTypeOK, NEW t, InBatch(t)
  PROVE  OpOf(t) \in Ops
BY OpOfFacts, OpFacts

\* DoneOk leaves every caller's state with its type.
LEMMA OkTyped ==
  ASSUME SharedTypeOK, DoneOk
  PROVE  DoneTyped
<1>1. ASSUME NEW t \in Tablets, InBatch(t)  PROVE RoundOf(OpOf(t)) \in 0 .. MaxRound
  BY <1>1, OpOfTyped, OpsFacts
<1>2. acked' \in [Tablets -> 0 .. MaxRound]
  <2>1. \A t \in Tablets : acked[t] \in 0 .. MaxRound  BY DEF SharedTypeOK
  <2> QED  BY <1>1, <2>1 DEF DoneOk
<1>3. st' \in [Tablets -> {"idle", "wait", "suspect", "forget", "gone"}]
  <2>1. \A t \in Tablets : st[t] \in {"idle", "wait", "suspect", "forget", "gone"}
    BY DEF SharedTypeOK
  <2> QED  BY <2>1 DEF DoneOk
<1> QED  BY <1>2, <1>3 DEF DoneOk, DoneTyped, SharedTypeOK

\* DoneErr leaves every caller's state with its type.
LEMMA ErrTyped ==
  ASSUME SharedTypeOK, NEW isFull \in BOOLEAN, DoneErr(isFull)
  PROVE  DoneTyped
<1>1. ASSUME NEW t \in Tablets, InBatch(t)
      PROVE  OpOf(t).prev \in Seq(Recs) /\ OpOf(t).from \in {"idle", "suspect"}
  BY <1>1, OpOfTyped, OpsFacts
<1>2. ASSUME NEW t \in Tablets
      PROVE  /\ tails[t] \in Seq(Recs) /\ stopped[t] \in SUBSET {"loop", "apply"}
             /\ st[t] \in {"idle", "wait", "suspect", "forget", "gone"}
             /\ TaskOf(OpOf(t)) \in {"loop", "apply"}
  BY DEF SharedTypeOK, TaskOf, Rewriter
<1>3. tails' \in [Tablets -> Seq(Recs)]  BY <1>1, <1>2 DEF DoneErr
<1>4. st' \in [Tablets -> {"idle", "wait", "suspect", "forget", "gone"}]
  BY <1>1, <1>2 DEF DoneErr, AfterErr
<1>5. stopped' \in [Tablets -> SUBSET {"loop", "apply"}]  BY <1>2 DEF DoneErr
<1> QED  BY <1>3, <1>4, <1>5 DEF DoneErr, DoneTyped, SharedTypeOK

\* The flush that finishes leaves no batch to be in shape.
LEMMA DoneKeepsTypes ==
  ASSUME SharedTypeOK, DoneTyped, step' = step, full' = full,
         onDisk' \in [Tablets -> Seq(Recs)], buf' \in [Tablets -> Seq(Recs)],
         torn' \in BOOLEAN, needs' \in BOOLEAN,
         prior' \in SUBSET [Tablets -> Seq(Recs)], diskFails' \in 0 .. MaxFail
  PROVE  TInv'
<1>1. batch' = <<>> /\ 1 .. Len(batch') = {} /\ batch' \in Seq(Ops)  BY DEF DoneTyped
<1>2. Shape'  BY <1>1 DEF Shape
<1>3. SharedTypeOK'  BY <1>1 DEF DoneTyped, SharedTypeOK
<1> QED  BY <1>2, <1>3 DEF TInv

\* Whatever a restart may find are records.
LEMMA SurvivorsTyped ==
  ASSUME SharedTypeOK
  PROVE  Survivors \in SUBSET [Tablets -> Seq(Recs)]
<1> SUFFICES ASSUME NEW d \in Survivors, d \notin prior
             PROVE  d \in [Tablets -> Seq(Recs)]
  BY DEF SharedTypeOK
<1>1. PICK cut \in [Tablets -> 0 .. MaxRound] :
        /\ \A t \in Tablets : cut[t] <= Len(buf[t])
        /\ d = [t \in Tablets |-> Found(t, cut[t])]
  BY DEF Survivors
<1>2. ASSUME NEW t \in Tablets  PROVE Found(t, cut[t]) \in Seq(Recs)
  <2>1. /\ buf[t] \in Seq(Recs) /\ onDisk[t] \in Seq(Recs) /\ Len(buf[t]) \in Nat
        /\ cut[t] \in Int /\ cut[t] <= Len(buf[t])
    BY SharedWalAssumption, <1>1 DEF SharedTypeOK
  <2>2. \A i \in 1 .. cut[t] : buf[t][i] \in Recs  BY <2>1
  <2>3. SubSeq(buf[t], 1, cut[t]) \in Seq(Recs)  BY <2>1, <2>2, SubSeqProperties
  <2> QED  BY <2>1, <2>3, ConcatProperties DEF Found
<1> QED  BY <1>1, <1>2

\* A replace leaves typed files.
LEMMA RenameTyped ==
  ASSUME SharedTypeOK, NEW d \in [Tablets -> Seq(Recs)], NEW synced, RenameOver(d, synced)
  PROVE  /\ onDisk' \in [Tablets -> Seq(Recs)] /\ buf' \in [Tablets -> Seq(Recs)]
         /\ prior' \in SUBSET [Tablets -> Seq(Recs)]
BY SurvivorsTyped, NothingTyped DEF RenameOver

\* The records an append writes have their type.
LEMMA WrittenTyped ==
  ASSUME TInv, IsAppend(Head(batch)), batch # <<>>, NEW i \in 0 .. Len(batch)
  PROVE  Written(i) \in [Tablets -> Seq(Recs)]
<1>1. SharedTypeOK /\ Shape  BY DEF TInv
<1>2. \A j \in 1 .. Len(batch) : IsAppend(batch[j])  BY <1>1, HeadFacts
<1>3. Len(batch) \in Nat  BY <1>1, OpFacts
<1>4. ASSUME NEW t \in Tablets, \E j \in 1 .. i : batch[j].t = t
      PROVE  OpOf(t).rec \in Recs
  <2>1. InBatch(t)  BY <1>3, <1>4 DEF InBatch
  <2>2. OpOf(t) \in Ops /\ IsAppend(OpOf(t))  BY <1>1, <1>2, <2>1, OpOfTyped, OpOfFacts
  <2> QED  BY <2>2, OpsFacts
<1>5. ASSUME NEW t \in Tablets, NEW r \in Recs
      PROVE  buf[t] \in Seq(Recs) /\ Append(buf[t], r) \in Seq(Recs)
  BY <1>1, AppendProperties DEF SharedTypeOK
<1>6. ASSUME NEW t \in Tablets
      PROVE  (IF ~torn /\ \E j \in 1 .. i : batch[j].t = t
              THEN Append(buf[t], OpOf(t).rec) ELSE buf[t]) \in Seq(Recs)
  <2>1. buf[t] \in Seq(Recs)  BY <1>1 DEF SharedTypeOK
  <2>2. CASE \E j \in 1 .. i : batch[j].t = t
    <3>1. Append(buf[t], OpOf(t).rec) \in Seq(Recs)  BY <1>4, <1>5, <2>2
    <3> QED  BY <2>1, <3>1
  <2>3. CASE ~\E j \in 1 .. i : batch[j].t = t  BY <2>1, <2>3
  <2> QED  BY <2>2, <2>3
<1> QED  BY <1>6 DEF Written

\* What the leader does to the file keeps the types.
LEMMA FlushTyped ==
  ASSUME TInv,
         \/ FlushRewrite \/ FlushRefused \/ FlushAppend \/ FlushSync \/ Strip \/ StripFails
         \/ \E isFull \in BOOLEAN :
              FlushRewriteFails(isFull) \/ FlushAppendFails(isFull) \/ FlushSyncFails(isFull)
  PROVE  TInv'
<1>1. SharedTypeOK /\ Shape  BY DEF TInv
<1>2. /\ full \in BOOLEAN /\ TRUE \in BOOLEAN /\ torn \in BOOLEAN /\ needs \in BOOLEAN
      /\ prior \in SUBSET [Tablets -> Seq(Recs)] /\ diskFails \in 0 .. MaxFail
      /\ onDisk \in [Tablets -> Seq(Recs)] /\ buf \in [Tablets -> Seq(Recs)]
  BY <1>1 DEF SharedTypeOK
<1>3. Fail => diskFails' \in 0 .. MaxFail
  BY SharedWalAssumption, <1>2 DEF Fail
<1>4. batch # <<>> /\ ~IsAppend(Head(batch)) => Head(batch).image \in [Tablets -> Seq(Recs)]
  BY <1>1, HeadFacts, OpsFacts
<1>5. CASE FlushRewrite
  BY <1>1, <1>2, <1>4, <1>5, OkTyped, RenameTyped, DoneKeepsTypes DEF FlushRewrite
<1>6. CASE FlushRefused
  BY <1>1, <1>2, <1>6, ErrTyped, DoneKeepsTypes DEF FlushRefused
<1>7. CASE FlushAppend
  <2>1. /\ batch # <<>> /\ IsAppend(Head(batch)) /\ buf' = Written(Len(batch))
        /\ step' = "sync" /\ onDisk' = onDisk /\ torn' = torn /\ prior' = prior
        /\ batch' = batch /\ full' = full /\ needs' = needs /\ diskFails' = diskFails
        /\ nodeCrashes' = nodeCrashes /\ UNCHANGED caller
    BY <1>7 DEF FlushAppend
  <2>2. /\ Len(batch) \in 0 .. Len(batch)
        /\ \A i \in 1 .. Len(batch) : IsAppend(batch[i])
    BY <1>1, <2>1, HeadFacts
  <2>3. buf' \in [Tablets -> Seq(Recs)]  BY <2>1, <2>2, WrittenTyped
  <2>4. SharedTypeOK'  BY <1>1, <2>1, <2>3 DEF SharedTypeOK, caller
  <2>5. Shape'  BY <2>1, <2>2 DEF Shape, IsAppend
  <2> QED  BY <2>4, <2>5 DEF TInv
<1>8. CASE FlushSync
  <2>1. \A t \in Tablets : onDisk[t] \o buf[t] \in Seq(Recs)  BY <1>2, ConcatProperties
  <2>2. onDisk' \in [Tablets -> Seq(Recs)] /\ buf' \in [Tablets -> Seq(Recs)]
    BY <1>8, <2>1, NothingTyped DEF FlushSync
  <2> QED  BY <1>1, <1>2, <1>8, <2>2, OkTyped, DoneKeepsTypes DEF FlushSync
<1>9. CASE Strip
  <2> DEFINE own(t) == IF InBatch(t) /\ ~torn THEN 1 ELSE 0
             kept(t) == SubSeq(buf[t], 1, Len(buf[t]) - own(t))
             d == [t \in Tablets |-> onDisk[t] \o kept(t)]
  <2>1. ASSUME NEW t \in Tablets  PROVE onDisk[t] \o kept(t) \in Seq(Recs)
    <3>1. buf[t] \in Seq(Recs) /\ onDisk[t] \in Seq(Recs) /\ Len(buf[t]) \in Nat  BY <1>2
    <3>2. own(t) \in {0, 1}  OBVIOUS
    <3> HIDE DEF own
    <3>3. Len(buf[t]) - own(t) \in Int /\ Len(buf[t]) - own(t) <= Len(buf[t])
      BY <3>1, <3>2
    <3>4. \A i \in 1 .. Len(buf[t]) - own(t) : buf[t][i] \in Recs  BY <3>1, <3>3
    <3>5. kept(t) \in Seq(Recs)  BY <3>3, <3>4, SubSeqProperties
    <3> QED  BY <3>1, <3>5, ConcatProperties
  <2>2. d \in [Tablets -> Seq(Recs)]  BY <2>1
  <2>3. /\ \E synced \in BOOLEAN : RenameOver(d, synced)
        /\ DoneErr(full) /\ UNCHANGED <<torn, step, full, needs, diskFails>>
    BY <1>9 DEF Strip
  <2> HIDE DEF d
  <2> QED  BY <1>1, <1>2, <2>2, <2>3, ErrTyped, RenameTyped, DoneKeepsTypes
<1>10. CASE StripFails
  BY <1>1, <1>2, <1>10, ErrTyped, DoneKeepsTypes DEF StripFails
<1>11. ASSUME NEW isFull \in BOOLEAN, FlushRewriteFails(isFull)  PROVE TInv'
  <2>1. /\ batch # <<>> /\ ~IsAppend(Head(batch)) /\ Fail /\ DoneErr(isFull)
        /\ UNCHANGED <<step, full, needs>>
    BY <1>11 DEF FlushRewriteFails
  <2>2. /\ onDisk' \in [Tablets -> Seq(Recs)] /\ buf' \in [Tablets -> Seq(Recs)]
        /\ prior' \in SUBSET [Tablets -> Seq(Recs)] /\ torn' \in BOOLEAN
    <3>1. CASE UNCHANGED <<onDisk, buf, torn, prior>>  BY <1>2, <3>1
    <3>2. CASE RenameOver(Head(batch).image, FALSE) /\ torn' = FALSE
      BY <1>1, <1>4, <2>1, <3>2, RenameTyped
    <3> QED  BY <1>11, <3>1, <3>2 DEF FlushRewriteFails
  <2> QED  BY <1>1, <1>2, <1>3, <2>1, <2>2, ErrTyped, DoneKeepsTypes
<1>12. ASSUME NEW isFull \in BOOLEAN, FlushAppendFails(isFull)  PROVE TInv'
  <2>1. /\ batch # <<>> /\ IsAppend(Head(batch)) /\ Fail /\ DoneErr(isFull)
        /\ needs' = (needs \/ isFull) /\ UNCHANGED <<onDisk, prior, step, full>>
    BY <1>12 DEF FlushAppendFails
  <2>2. PICK i \in 0 .. Len(batch) - 1, half \in BOOLEAN :
          buf' = Written(i) /\ torn' = (torn \/ half)
    BY <1>12 DEF FlushAppendFails, Partly
  <2>3. i \in 0 .. Len(batch)  BY <1>1, OpFacts
  <2>4. buf' \in [Tablets -> Seq(Recs)] /\ torn' \in BOOLEAN /\ needs' \in BOOLEAN
    BY <1>2, <2>1, <2>2, <2>3, WrittenTyped
  <2> QED  BY <1>1, <1>2, <1>3, <2>1, <2>4, ErrTyped, DoneKeepsTypes
<1>13. ASSUME NEW isFull \in BOOLEAN, FlushSyncFails(isFull)  PROVE TInv'
  <2>1. /\ step = "sync" /\ step' = "strip" /\ full' = isFull /\ Fail
        /\ needs' = (needs \/ isFull) /\ batch' = batch
        /\ UNCHANGED <<onDisk, buf, torn, prior, nodeCrashes>> /\ UNCHANGED caller
    BY <1>13 DEF FlushSyncFails
  <2>2. SharedTypeOK'  BY <1>1, <1>3, <2>1 DEF SharedTypeOK, caller
  <2>3. Shape'  BY <1>1, <2>1 DEF Shape, IsAppend
  <2> QED  BY <2>2, <2>3 DEF TInv
<1> QED
  BY <1>5, <1>6, <1>7, <1>8, <1>9, <1>10, <1>11, <1>12, <1>13

\* What the callers do keeps the types.
LEMMA CallerTyped ==
  ASSUME TInv, NEW t \in Tablets, AppendTagged(t) \/ CompactGroup(t) \/ Halt(t) \/ Forget(t)
  PROVE  TInv'
<1>1. SharedTypeOK /\ Shape  BY DEF TInv
<1>2. CASE Halt(t)
  <2>1. SharedTypeOK'  BY <1>1, <1>2 DEF Halt, SharedTypeOK, io
  <2>2. Shape'  BY <1>1, <1>2 DEF Halt, Shape, IsAppend, io
  <2> QED  BY <2>1, <2>2 DEF TInv
<1>3. CASE AppendTagged(t) \/ CompactGroup(t) \/ Forget(t)
  <2>1. PICK o, n, tl, q : Enters(t, o, n, tl, q)  BY <1>1, <1>3, CallerEnters
  <2>2. opQueue' \in Seq(Ops)  BY <1>1, <2>1, EnqueueOps DEF Enters
  <2>3. SharedTypeOK'  BY <1>1, <2>1, <2>2 DEF Enters, SharedTypeOK
  <2>4. Shape'  BY <1>1, <2>1 DEF Enters, Shape, IsAppend
  <2> QED  BY <2>3, <2>4 DEF TInv
<1> QED  BY <1>2, <1>3

\* Taking a batch, and a restart, keep the types.
LEMMA TakeAndCrashTyped ==
  ASSUME TInv, Take \/ NodeCrash
  PROVE  TInv'
<1>1. SharedTypeOK /\ Shape  BY DEF TInv
<1>2. CASE Take
  <2>1. /\ batch = <<>> /\ step' = "io" /\ full' = FALSE
        /\ UNCHANGED <<onDisk, buf, torn, prior, needs, tails, round, acked, st, halting,
                       stopped, diskFails, nodeCrashes>>
    BY <1>2 DEF Take
  <2>2. PICK k \in Prefixes : /\ batch' = SubSeq(opQueue, 1, k)
                              /\ opQueue' = SubSeq(opQueue, k + 1, Len(opQueue))
    BY <1>2 DEF Take
  <2>3. /\ k \in 1 .. Len(opQueue)
        /\ IF IsAppend(Head(opQueue)) THEN \A j \in 1 .. k : IsAppend(opQueue[j]) ELSE k = 1
    BY <2>2 DEF Prefixes
  <2>4. /\ opQueue' \in Seq(Ops) /\ batch' \in Seq(Ops) /\ Len(batch') = k
        /\ \A i \in 1 .. k : batch'[i] = opQueue[i]
    BY <1>1, <2>1, <2>2, <2>3, TakeOps
  <2>5. SharedTypeOK'  BY <1>1, <2>1, <2>4 DEF SharedTypeOK
  <2>6. \A i \in 1 .. Len(batch') : IsAppend(batch'[i]) \/ Len(batch') = 1  BY <2>3, <2>4
  <2>7. Shape'  BY <2>1, <2>6 DEF Shape, IsAppend
  <2> QED  BY <2>5, <2>7 DEF TInv
<1>3. CASE NodeCrash
  <2>1. PICK d \in Survivors : Reopen(d)  BY <1>3 DEF NodeCrash
  <2>2. d \in [Tablets -> Seq(Recs)]  BY <1>1, SurvivorsTyped
  <2>3. /\ onDisk' = d /\ buf' = Nothing /\ torn' = FALSE /\ tails' = d /\ prior' = {}
        /\ opQueue' = <<>> /\ batch' = <<>> /\ step' = "io" /\ full' = FALSE
        /\ needs' = FALSE /\ acked' = acked
        /\ round' = [t \in Tablets |-> LastRound(d[t])]
        /\ st' = [t \in Tablets |-> IF st[t] \in {"gone", "forget"} THEN "gone" ELSE "idle"]
        /\ halting' \subseteq halting
        /\ stopped' = [t \in Tablets |-> {}]
    BY <2>1 DEF Reopen, LastRound
  <2>4. nodeCrashes' \in 0 .. MaxNodeCrash /\ diskFails' = diskFails
    BY SharedWalAssumption, <1>1, <1>3 DEF NodeCrash, SharedTypeOK
  <2>5. round' \in [Tablets -> 0 .. MaxRound]  BY <2>2, <2>3, LastRoundFacts
  <2>6. <<>> \in Seq(Ops) /\ 1 .. Len(<<>>) = {}  BY EmptyRun
  <2>7. SharedTypeOK'
    BY <1>1, <2>2, <2>3, <2>4, <2>5, <2>6, NothingTyped DEF SharedTypeOK
  <2>8. Shape'  BY <2>3, <2>6 DEF Shape
  <2> QED  BY <2>7, <2>8 DEF TInv
<1> QED  BY <1>2, <1>3

\* A new file.
LEMMA InitTyped ==
  ASSUME SharedInit
  PROVE  TInv
<1>1. <<>> \in Seq(Ops) /\ 1 .. Len(<<>>) = {}  BY EmptyRun
<1>2. 0 \in 0 .. MaxRound /\ 0 \in 0 .. MaxFail /\ 0 \in 0 .. MaxNodeCrash
  BY SharedWalAssumption
<1>3. /\ round \in [Tablets -> 0 .. MaxRound] /\ acked \in [Tablets -> 0 .. MaxRound]
      /\ st \in [Tablets -> {"idle", "wait", "suspect", "forget", "gone"}]
  BY <1>2 DEF SharedInit
<1>4. /\ onDisk = Nothing /\ buf = Nothing /\ tails = Nothing /\ torn = FALSE
      /\ opQueue = <<>> /\ batch = <<>> /\ step = "io" /\ full = FALSE
      /\ needs = FALSE /\ halting = {} /\ diskFails = 0 /\ nodeCrashes = 0
      /\ prior = {} /\ stopped = [t \in Tablets |-> {}]
  BY DEF SharedInit
<1>5. SharedTypeOK  BY <1>1, <1>2, <1>3, <1>4, NothingTyped DEF SharedTypeOK
<1>6. Shape  BY <1>1, <1>4 DEF Shape
<1> QED  BY <1>5, <1>6 DEF TInv

\* Every step keeps the types.
LEMMA StepTyped ==
  ASSUME TInv, [SharedNext]_sharedVars
  PROVE  TInv'
<1>1. CASE UNCHANGED sharedVars
  <2>1. SharedTypeOK'  BY <1>1 DEF TInv, SharedTypeOK, sharedVars, io, caller
  <2>2. Shape'  BY <1>1 DEF TInv, Shape, IsAppend, sharedVars, io
  <2> QED  BY <2>1, <2>2 DEF TInv
<1>2. CASE SharedNext
  BY <1>2, CallerTyped, FlushTyped, TakeAndCrashTyped DEF SharedNext, Drive
<1> QED  BY <1>1, <1>2

\* On any disk, with every fault of SharedWal, each variable keeps its type; a
\* restart never counts a round that was not written.
THEOREM SharedTyped == SharedSpec => []SharedTypeOK
<1>1. SharedInit => TInv  BY InitTyped
<1>2. TInv /\ [SharedNext]_sharedVars => TInv'  BY StepTyped
<1>3. TInv => SharedTypeOK  BY DEF TInv
<1> QED  BY <1>1, <1>2, <1>3, PTL DEF SharedSpec

-----------------------------------------------------------------------------
(* The end of a flush.                                                     *)

\* What every caller of a flush finds, whether it succeeded or failed.
Over ==
    /\ DoneTyped
    /\ \A t \in Tablets :
         /\ ~InBatch(t) => /\ st'[t] = st[t] /\ acked'[t] = acked[t]
                           /\ tails'[t] = tails[t] /\ stopped'[t] = stopped[t]
         /\ InBatch(t) =>
              /\ st'[t] \in {"idle", "suspect", "gone"}
              /\ st[t] = "forget" => st'[t] = "gone"
              /\ \/ tails'[t] = tails[t] /\ (st[t] = "wait" => acked'[t] = round[t])
                 \/ tails'[t] = OpOf(t).prev /\ acked'[t] = acked[t]

\* A tablet whose operation failed does not go on appending.
Told == \A t \in Tablets : InBatch(t) => tails'[t] = tails[t] \/ ~Steady(t)'

\* A tablet whose operation is under way waits for it.
LEMMA Waits ==
  ASSUME Lined, NEW t \in Tablets, InBatch(t)
  PROVE  /\ st[t] \in {"wait", "forget"}
         /\ st[t] = "wait" => RoundOf(OpOf(t)) = round[t]
         /\ IsAppend(OpOf(t)) => st[t] = "wait" /\ OpOf(t).rec = RoundRecord(t, round[t])
         /\ OpOf(t) \in Ops
<1>1. SharedTypeOK /\ OneOp /\ OpsOk  BY DEF Lined
<1>2. PICK j \in 1 .. Len(batch) :
        j \in 1 .. Count /\ Op(j) = batch[j] /\ OpOf(t) = Op(j) /\ Op(j).t = t
  BY <1>1, OpOfFacts
<1> DEFINE o == OpOf(t)
<1>3. o = Op(j) /\ o.t = t /\ o \in Ops  BY <1>1, <1>2, OpFacts
<1>4. st[t] \in {"wait", "forget"}  BY <1>1, <1>2 DEF OneOp
<1>5. /\ IsAppend(o) => st[t] = "wait" /\ o.rec = RoundRecord(t, round[t])
      /\ ~IsAppend(o) /\ st[t] = "wait" => o.n = round[t]
  BY <1>1, <1>2, <1>3 DEF OpsOk
<1>6. RoundRecord(t, round[t]).n = round[t]  BY DEF RoundRecord
<1>7. st[t] = "wait" => RoundOf(o) = round[t]  BY <1>5, <1>6 DEF RoundOf
<1> QED  BY <1>3, <1>4, <1>5, <1>7

\* A flush that succeeded finishes its batch and acknowledges it.
LEMMA OkFinishes ==
  ASSUME Lined, DoneOk
  PROVE  Over /\ Told
<1>1. SharedTypeOK /\ DoneTyped  BY OkTyped DEF Lined
<1>2. tails' = tails /\ stopped' = stopped  BY DEF DoneOk
<1>3. ASSUME NEW t \in Tablets
      PROVE  /\ ~InBatch(t) => st'[t] = st[t] /\ acked'[t] = acked[t]
             /\ InBatch(t) => /\ st'[t] \in {"idle", "suspect", "gone"}
                              /\ st[t] = "forget" => st'[t] = "gone"
                              /\ st[t] = "wait" => acked'[t] = round[t]
  <2>1. CASE InBatch(t)
    <3>1. acked'[t] = RoundOf(OpOf(t))
      BY <2>1 DEF DoneOk
    <3>2. st'[t] = IF st[t] = "forget" THEN "gone" ELSE "idle"  BY <2>1 DEF DoneOk
    <3> QED  BY <2>1, <3>1, <3>2, Waits
  <2>2. CASE ~InBatch(t)
    <3>1. st'[t] = st[t] /\ acked'[t] = acked[t]  BY <2>2 DEF DoneOk, InBatch
    <3> QED  BY <2>2, <3>1
  <2> QED  BY <2>1, <2>2
<1>4. Told  BY <1>2, <1>3 DEF Told
<1> QED  BY <1>1, <1>2, <1>3, <1>4 DEF Over

\* A flush that failed finishes its batch and puts the tails back.
LEMMA ErrOver ==
  ASSUME Lined, NEW isFull \in BOOLEAN, DoneErr(isFull)
  PROVE  Over /\ acked' = acked
<1>1. SharedTypeOK /\ DoneTyped /\ acked' = acked  BY ErrTyped DEF Lined, DoneErr
<1>2. ASSUME NEW t \in Tablets
      PROVE  /\ ~InBatch(t) => /\ st'[t] = st[t] /\ tails'[t] = tails[t]
                               /\ stopped'[t] = stopped[t]
             /\ InBatch(t) => /\ st'[t] \in {"idle", "suspect", "gone"}
                              /\ st[t] = "forget" => st'[t] = "gone"
                              /\ tails'[t] = OpOf(t).prev
  <2>1. CASE InBatch(t)
    <3>1. tails'[t] = OpOf(t).prev  BY <2>1 DEF DoneErr
    <3>2. st'[t] = IF st[t] = "forget" THEN "gone"
                   ELSE IF isFull /\ t \notin halting THEN "suspect" ELSE OpOf(t).from
      BY <2>1 DEF DoneErr, AfterErr, InBatch
    <3>3. OpOf(t).from \in {"idle", "suspect"}  BY <1>1, <2>1, OpOfTyped, OpsFacts
    <3> QED  BY <2>1, <3>1, <3>2, <3>3
  <2>2. CASE ~InBatch(t)
    <3>1. st'[t] = st[t] /\ tails'[t] = tails[t] /\ stopped'[t] = stopped[t]
      BY <2>2 DEF DoneErr, InBatch
    <3> QED  BY <2>2, <3>1
  <2> QED  BY <2>1, <2>2
<1> QED  BY <1>1, <1>2 DEF Over

\* Appends are operations of the loop.
LEMMA AppendsAreTheLoops ==
  ASSUME SharedTypeOK, \A i \in 1 .. Len(batch) : IsAppend(batch[i])
  PROVE  ~Compacting
<1> SUFFICES ASSUME NEW t \in Tablets, InBatch(t)
             PROVE  TaskOf(OpOf(t)) # "apply"
  BY DEF Compacting
<1>1. IsAppend(OpOf(t))  BY OpOfFacts
<1> QED  BY <1>1 DEF TaskOf

\* If only a full disk fails the rewrite of a live apply task, none of the tablets
\* of a flush that failed goes on as if nothing had happened.
LEMMA ErrFinishes ==
  ASSUME Lined, NEW isFull \in BOOLEAN, DoneErr(isFull), Compacting => isFull
  PROVE  /\ Over /\ Told /\ acked' = acked /\ nodeCrashes' = nodeCrashes
         /\ \A t \in Tablets : InBatch(t) => ~Steady(t)'
<1>1. Over /\ acked' = acked /\ halting' = halting /\ nodeCrashes' = nodeCrashes
  BY ErrOver DEF DoneErr
<1>2. ASSUME NEW t \in Tablets, InBatch(t), st'[t] = "idle", t \notin halting
      PROVE  "loop" \in stopped'[t]
  <2>1. st[t] \in {"wait", "forget"}  BY <1>2, Waits
  <2>2. st'[t] = IF st[t] = "forget" THEN "gone"
                 ELSE IF isFull /\ t \notin halting THEN "suspect" ELSE OpOf(t).from
    BY <1>2 DEF DoneErr, AfterErr, InBatch
  <2>3. ~isFull /\ st[t] = "wait"  BY <1>2, <2>1, <2>2
  <2>4. stopped'[t] = stopped[t] \cup {TaskOf(OpOf(t))}  BY <1>2, <2>3 DEF DoneErr
  <2>5. TaskOf(OpOf(t)) # "apply"  BY <1>2, <2>3 DEF Compacting
  <2>6. TaskOf(OpOf(t)) = "loop"  BY <2>5 DEF TaskOf, Rewriter
  <2> QED  BY <2>4, <2>6
<1>3. \A t \in Tablets : InBatch(t) => ~Steady(t)'  BY <1>1, <1>2 DEF Steady
<1> QED  BY <1>1, <1>3 DEF Told

\* The flush has dealt with the operations of its batch, and with no others.
LEMMA FinishedOps ==
  ASSUME Lined, Over
  PROVE  /\ Len(batch) \in Nat /\ Count' \in Nat
         /\ \A i \in 1 .. Count' :
              /\ i + Len(batch) \in 1 .. Count /\ Op(i)' = Op(i + Len(batch))
              /\ Op(i + Len(batch)).t \in Tablets
              /\ ~InBatch(Op(i + Len(batch)).t)
         /\ \A t \in Tablets : ~InBatch(t)'
         /\ \A t \in Tablets : Appending(t)' => Appending(t) /\ ~InBatch(t)
<1>1. SharedTypeOK /\ OneOp  BY DEF Lined
<1>2. batch' = <<>> /\ opQueue' = opQueue  BY DEF Over, DoneTyped
<1>3. /\ Count' = Len(opQueue) /\ Len(opQueue) \in Nat /\ Len(batch) \in Nat
      /\ \A i \in 1 .. Count' : /\ i + Len(batch) \in 1 .. Count
                                /\ Op(i)' = Op(i + Len(batch))
  BY <1>1, <1>2, DropOps
<1>4. ASSUME NEW i \in 1 .. Count'
      PROVE  /\ Op(i + Len(batch)).t \in Tablets
             /\ ~InBatch(Op(i + Len(batch)).t)
  <2> DEFINE k == i + Len(batch)
             u == Op(k).t
  <2>1. k \in 1 .. Count /\ ~(k <= Len(batch))  BY <1>3
  <2> HIDE DEF k
  <2>2. u \in Tablets  BY <1>1, <2>1, OpFacts, OpsFacts
  <2>3. ASSUME InBatch(u)  PROVE FALSE
    <3>1. PICK j \in 1 .. Len(batch) : j \in 1 .. Count /\ Op(j).t = u
      BY <1>1, <2>3, OpOfFacts
    <3>2. j = k  BY <1>1, <2>1, <3>1 DEF OneOp
    <3> QED  BY <1>3, <2>1, <3>1, <3>2
  <2> QED  BY <2>2, <2>3 DEF k
<1>5. \A t \in Tablets : ~InBatch(t)'  BY <1>2 DEF InBatch
<1>6. ASSUME NEW t \in Tablets, Appending(t)'  PROVE Appending(t) /\ ~InBatch(t)
  <2>1. PICK i \in 1 .. Count' : Op(i)'.t = t /\ IsAppend(Op(i)')
    BY <1>6 DEF Appending, IsAppend
  <2> QED  BY <1>3, <1>4, <2>1 DEF Appending
<1> QED  BY <1>3, <1>4, <1>5, <1>6

\* After a batch each tablet still has one operation outstanding at most.
LEMMA FinishedOneOp ==
  ASSUME Lined, Over
  PROVE  OneOp'
<1>1. SharedTypeOK /\ OneOp  BY DEF Lined
<1>2. /\ Len(batch) \in Nat /\ Count' \in Nat
      /\ \A i \in 1 .. Count' :
           /\ i + Len(batch) \in 1 .. Count /\ Op(i)' = Op(i + Len(batch))
           /\ Op(i + Len(batch)).t \in Tablets
           /\ ~InBatch(Op(i + Len(batch)).t)
  BY FinishedOps
<1>3. \A t \in Tablets : IF InBatch(t) THEN st'[t] \notin {"wait", "forget"}
                                       ELSE st'[t] = st[t]
  BY DEF Over, DoneTyped
<1>4. ASSUME NEW i \in 1 .. Count', NEW j \in 1 .. Count', Op(i)'.t = Op(j)'.t
      PROVE  i = j
  <2>1. i + Len(batch) = j + Len(batch)  BY <1>1, <1>2, <1>4 DEF OneOp
  <2> QED  BY <1>2, <2>1
<1>5. ASSUME NEW t \in Tablets, NEW i \in 1 .. Count', Op(i)'.t = t
      PROVE  st'[t] \in {"wait", "forget"}
  <2>1. st'[t] = st[t]  BY <1>2, <1>3, <1>5
  <2>2. st[t] \in {"wait", "forget"}  BY <1>1, <1>2, <1>5 DEF OneOp
  <2> QED  BY <2>1, <2>2
<1>6. ASSUME NEW t \in Tablets, st'[t] \in {"wait", "forget"}
      PROVE  \E i \in 1 .. Count' : Op(i)'.t = t
  <2>1. ~InBatch(t) /\ st'[t] = st[t]  BY <1>3, <1>6
  <2>2. PICK k \in 1 .. Count : Op(k).t = t  BY <1>1, <1>6, <2>1 DEF OneOp
  <2>3. ~(k <= Len(batch))
    <3> SUFFICES ASSUME k <= Len(batch) PROVE FALSE  OBVIOUS
    <3>1. Len(batch) \in Nat /\ Count \in Nat  BY <1>1, OpFacts
    <3>2. k \in 1 .. Len(batch)  BY <3>1
    <3>3. batch[k].t = t  BY <2>2 DEF Op
    <3> QED  BY <2>1, <3>2, <3>3 DEF InBatch
  <2>4. k - Len(batch) \in 1 .. Count' /\ (k - Len(batch)) + Len(batch) = k
    BY <1>1, <2>3, DropOps DEF Over, DoneTyped
  <2> QED  BY <1>2, <2>2, <2>4
<1> QED  BY <1>4, <1>5, <1>6 DEF OneOp

\* After a batch the operations left are still the next of their tablets.
LEMMA FinishedOpsOk ==
  ASSUME Lined, Over
  PROVE  OpsOk'
<1>1. OpsOk  BY DEF Lined
<1>2. SUFFICES ASSUME NEW i \in 1 .. Count'
               PROVE  LET o == Op(i)'
                      IN /\ IsAppend(o) => /\ st'[o.t] = "wait"
                                           /\ o.rec = RoundRecord(o.t, round'[o.t])
                         /\ ~IsAppend(o) /\ st'[o.t] = "wait" => o.n = round'[o.t]
  BY DEF OpsOk, IsAppend, RoundRecord
<1> DEFINE k == i + Len(batch)
           o == Op(k)
<1>3. k \in 1 .. Count /\ Op(i)' = o /\ o.t \in Tablets /\ ~InBatch(o.t)
  BY FinishedOps
<1>4. st'[o.t] = st[o.t] /\ round' = round
  BY <1>3 DEF Over, DoneTyped
<1>5. /\ IsAppend(o) => st[o.t] = "wait" /\ o.rec = RoundRecord(o.t, round[o.t])
      /\ ~IsAppend(o) /\ st[o.t] = "wait" => o.n = round[o.t]
  BY <1>1, <1>3 DEF OpsOk
<1> HIDE DEF o
<1> QED  BY <1>3, <1>4, <1>5

-----------------------------------------------------------------------------
(* No acknowledged round is lost, unless half a line is left or a rename is *)
(* undone.                                                                 *)

\* The file has the rounds acknowledged, and so does all that may be behind them.
AckedFile(t, d, b) ==
    /\ Live(t) => /\ acked[t] <= LastRound(d) /\ acked[t] <= round[t]
                  /\ \A i \in 1 .. Len(b) : acked[t] <= b[i].n
    /\ Unsynced(t) => b # <<>> /\ b[Len(b)].n = round[t]

AckedFiles == \A t \in Tablets : AckedFile(t, onDisk[t], buf[t])

\* So have the cached tails, from which the images are built ...
AckedTails ==
    \A t \in Tablets :
        /\ Live(t) => acked[t] <= LastRound(tails[t])
        /\ st[t] = "wait" => LastRound(tails[t]) = round[t]

\* ... and the images themselves: that of the i-th operation under way has the
\* round of every operation up to it.
AckedImage(i, s, t) ==
    /\ Live(t) => acked[t] <= LastRound(s)
    /\ \A k \in 1 .. Count : Op(k).t = t /\ st[t] = "wait" /\ k <= i =>
         LastRound(s) = round[t]

AckedImages ==
    \A i \in 1 .. Count : ~IsAppend(Op(i)) =>
        \A t \in Tablets : AckedImage(i, Op(i).image[t], t)

\* The tail that a failure would put back has what was acknowledged.
AckedPrevs ==
    \A i \in 1 .. Count :
        LET o == Op(i) IN st[o.t] = "wait" => acked[o.t] <= LastRound(o.prev)

\* Half a line at the end of the file is remembered, and nothing is behind it.
BatchOk ==
    /\ Shape
    /\ step # "io" => ~torn
    /\ torn => needs

AInv ==
    Lined /\ BatchOk /\ prior = {} /\ AckedPrevs /\ AckedFiles /\ AckedTails /\ AckedImages

\* The parts of the next state, tablet by tablet.
LEMMA AckedNext ==
  /\ (\A t \in Tablets : \A d, b : d = onDisk'[t] /\ b = buf'[t] => AckedFile(t, d, b)')
       => AckedFiles'
  /\ (\A i \in 1 .. Count' : ~IsAppend(Op(i)') =>
         \A t \in Tablets : \A s : s = Op(i)'.image[t] => AckedImage(i, s, t)')
       => AckedImages'
BY DEF AckedFiles, AckedFile, AckedImages, AckedImage, IsAppend, LastRound

\* What the answer says of a tablet of the batch.
LEMMA AckedAnswer ==
  ASSUME AInv, Over, NEW t \in Tablets, InBatch(t), Live(t)'
  PROVE  /\ st[t] = "wait" /\ Live(t)
         /\ acked[t] \in Nat /\ acked'[t] \in Nat /\ round[t] \in Nat
         /\ acked'[t] <= round[t]
         /\ LastRound(tails[t]) = round[t] /\ acked[t] <= LastRound(OpOf(t).prev)
         /\ \/ tails'[t] = tails[t]
            \/ tails'[t] = OpOf(t).prev /\ acked'[t] = acked[t]
<1>1. Lined /\ SharedTypeOK  BY DEF AInv, Lined
<1>2. st[t] = "wait" /\ Live(t)  BY <1>1, Waits DEF Over, Live
<1>3. acked[t] \in Nat /\ acked'[t] \in Nat /\ round[t] \in Nat
  BY SharedWalAssumption, <1>1 DEF SharedTypeOK, Over, DoneTyped
<1>4. acked[t] <= round[t]  BY <1>2 DEF AInv, AckedFiles, AckedFile
<1>5. LastRound(tails[t]) = round[t]  BY <1>2 DEF AInv, AckedTails
<1>6. acked[t] <= LastRound(OpOf(t).prev)
  <2>1. PICK j \in 1 .. Count : OpOf(t) = Op(j) /\ Op(j).t = t  BY <1>1, OpOfFacts
  <2> QED  BY <1>2, <2>1 DEF AInv, AckedPrevs
<1>7. \/ tails'[t] = tails[t] /\ acked'[t] = round[t]
      \/ tails'[t] = OpOf(t).prev /\ acked'[t] = acked[t]
  BY <1>2 DEF Over
<1> QED  BY <1>2, <1>3, <1>4, <1>5, <1>6, <1>7

\* After a batch the tails and the images left still have what was acknowledged.
LEMMA AckedAfter ==
  ASSUME AInv, Over
  PROVE  AckedPrevs' /\ AckedTails' /\ AckedImages'
<1>1. Lined /\ SharedTypeOK /\ AckedTails /\ AckedImages  BY DEF AInv, Lined
<1>2. round' = round /\ \A t \in Tablets : InBatch(t) => st'[t] # "wait"
  BY DEF Over, DoneTyped
<1>3. ASSUME NEW t \in Tablets
      PROVE  /\ Live(t)' => acked'[t] <= LastRound(tails'[t])
             /\ st'[t] = "wait" => LastRound(tails'[t]) = round'[t]
  <2>1. CASE InBatch(t)  BY <1>2, <2>1, AckedAnswer
  <2>2. CASE ~InBatch(t)  BY <1>1, <1>2, <2>2 DEF Over, AckedTails, Live
  <2> QED  BY <2>1, <2>2
<1>4. AckedTails'  BY <1>3 DEF AckedTails, LastRound
<1>5. ASSUME NEW i \in 1 .. Count', ~IsAppend(Op(i)'), NEW t \in Tablets,
             NEW s, s = Op(i)'.image[t]
      PROVE  AckedImage(i, s, t)'
  <2> DEFINE L == Len(batch)
  <2>1. /\ L \in Nat /\ Count' \in Nat
        /\ \A k \in 1 .. Count' : k + L \in 1 .. Count /\ Op(k)' = Op(k + L)
    BY <1>1, FinishedOps
  <2>2. AckedImage(i + L, s, t)  BY <1>1, <1>5, <2>1 DEF AckedImages
  <2> HIDE DEF L
  <2>3. CASE ~InBatch(t)
    <3>1. /\ st'[t] = st[t] /\ acked'[t] = acked[t] /\ Live(t)' = Live(t)
      BY <2>3 DEF Over, Live
    <3>2. ASSUME NEW k \in 1 .. Count', Op(k)'.t = t, st'[t] = "wait", k <= i
          PROVE  LastRound(s) = round[t]
      <4>1. k + L \in 1 .. Count /\ Op(k)' = Op(k + L) /\ k + L <= i + L  BY <2>1, <3>2
      <4> QED  BY <2>2, <3>1, <3>2, <4>1 DEF AckedImage
    <3>3. Live(t)' => acked'[t] <= LastRound(s)  BY <2>2, <3>1 DEF AckedImage
    <3> QED  BY <1>2, <3>2, <3>3 DEF AckedImage, LastRound
  <2>4. CASE InBatch(t)
    <3>1. PICK j \in 1 .. L : j \in 1 .. Count /\ Op(j).t = t
      BY <1>1, <2>4, OpOfFacts DEF L
    <3>2. j <= i + L  BY <2>1, <3>1
    <3>3. st[t] = "wait" => LastRound(s) = round[t]
      BY <2>2, <3>1, <3>2 DEF AckedImage
    <3>4. Live(t)' => acked'[t] <= LastRound(s)  BY <2>4, <3>3, AckedAnswer
    <3> QED  BY <1>2, <2>4, <3>4 DEF AckedImage, LastRound
  <2> QED  BY <2>3, <2>4
<1>6. AckedImages'  BY <1>5, AckedNext
<1>7. ASSUME NEW i \in 1 .. Count', st'[Op(i)'.t] = "wait"
      PROVE  acked'[Op(i)'.t] <= LastRound(Op(i)'.prev)
  <2>1. /\ i + Len(batch) \in 1 .. Count /\ Op(i)' = Op(i + Len(batch))
        /\ Op(i)'.t \in Tablets /\ ~InBatch(Op(i)'.t)
    BY <1>1, FinishedOps
  <2>2. st[Op(i)'.t] = "wait" /\ acked'[Op(i)'.t] = acked[Op(i)'.t]
    BY <1>7, <2>1 DEF Over
  <2> QED  BY <2>1, <2>2 DEF AInv, AckedPrevs
<1>8. AckedPrevs'  BY <1>7 DEF AckedPrevs, LastRound
<1> QED  BY <1>4, <1>6, <1>8

\* What a flush must leave of a tablet's part of the file.
LEMMA AckedLeft ==
  ASSUME AInv, Over, NEW t \in Tablets, NEW d, NEW b,
         ~InBatch(t) /\ Live(t) => /\ acked[t] <= LastRound(d)
                                   /\ \A i \in 1 .. Len(b) : acked[t] <= b[i].n,
         InBatch(t) /\ Live(t)' => /\ acked'[t] <= LastRound(d)
                                   /\ \A i \in 1 .. Len(b) : acked'[t] <= b[i].n
  PROVE  AckedFile(t, d, b)'
<1>1. round' = round /\ ~Unsynced(t)'
  BY FinishedOps DEF AInv, Over, DoneTyped, Unsynced
<1>2. CASE InBatch(t)
  <2>1. Live(t)' => acked'[t] <= round'[t]  BY <1>1, <1>2, AckedAnswer
  <2> QED  BY <1>1, <1>2, <2>1 DEF AckedFile, LastRound
<1>3. CASE ~InBatch(t)
  <2>1. acked'[t] = acked[t] /\ Live(t)' = Live(t)  BY <1>3 DEF Over, Live
  <2>2. Live(t) => acked[t] <= round[t]  BY DEF AInv, AckedFiles, AckedFile
  <2> QED  BY <1>1, <1>3, <2>1, <2>2 DEF AckedFile, LastRound
<1> QED  BY <1>2, <1>3

\* A step that finishes the batch and leaves the file in order.
LEMMA AckedOver ==
  ASSUME AInv, Over, TInv', prior' = {}, step # "io" => ~torn', torn' => needs',
         step' = step,
         \A t \in Tablets : \A d, b : d = onDisk'[t] /\ b = buf'[t] => AckedFile(t, d, b)'
  PROVE  AInv'
<1>1. Lined  BY DEF AInv
<1>2. OneOp' /\ OpsOk'  BY <1>1, FinishedOneOp, FinishedOpsOk
<1>3. Lined' /\ BatchOk'  BY <1>2 DEF TInv, Lined, BatchOk
<1>4. AckedFiles'  BY AckedNext
<1> QED  BY <1>3, <1>4, AckedAfter DEF AInv

\* The flush failed and left the file as it was.
LEMMA AckedSame ==
  ASSUME AInv, Over, acked' = acked, NEW t \in Tablets, NEW d, NEW b,
         d = onDisk[t], b = buf[t]
  PROVE  AckedFile(t, d, b)'
<1>1. AckedFile(t, d, b)  BY DEF AInv, AckedFiles
<1>2. InBatch(t) /\ Live(t)' => Live(t)  BY AckedAnswer
<1> QED  BY <1>1, <1>2, AckedLeft DEF AckedFile

\* The image of a rewrite has taken the place of the file.
LEMMA AckedRename ==
  ASSUME AInv, Over, batch # <<>>, ~IsAppend(Head(batch)), NEW t \in Tablets,
         NEW d, NEW b, d = Head(batch).image[t], b = <<>>
  PROVE  AckedFile(t, d, b)'
<1>1. SharedTypeOK /\ Shape /\ AckedImages  BY DEF AInv, Lined, BatchOk
<1>2. Head(batch) = Op(1) /\ 1 \in 1 .. Count /\ Len(batch) = 1 /\ Op(1) = batch[1]
  BY <1>1, HeadFacts
<1>3. AckedImage(1, d, t)  BY <1>1, <1>2 DEF AckedImages
<1>4. ASSUME InBatch(t), Live(t)'  PROVE acked'[t] <= LastRound(d)
  <2>1. Op(1).t = t  BY <1>2, <1>4 DEF InBatch
  <2>2. st[t] = "wait" /\ acked'[t] <= round[t]  BY <1>4, AckedAnswer
  <2> QED  BY <1>2, <1>3, <2>1, <2>2 DEF AckedImage
<1>5. 1 .. Len(b) = {}  BY EmptyRun
<1>6. Live(t) => acked[t] <= LastRound(d)  BY <1>3 DEF AckedImage
<1> QED  BY <1>4, <1>5, <1>6, AckedLeft

\* A rewrite, done or failed, keeps the acknowledged rounds.
LEMMA AckedRewrite ==
  ASSUME "undone" \notin Errors, AInv, TInv',
         FlushRewrite \/ \E isFull \in BOOLEAN : FlushRewriteFails(isFull)
  PROVE  AInv'
<1>1. Lined /\ prior = {} /\ BatchOk  BY DEF AInv
<1>2. batch # <<>> /\ ~IsAppend(Head(batch)) /\ step = "io" /\ step' = step
  BY DEF FlushRewrite, FlushRewriteFails
<1>3. Over /\ (FlushRewrite \/ acked' = acked)
  BY <1>1, OkFinishes, ErrOver DEF FlushRewrite, FlushRewriteFails
<1>4. CASE onDisk' = Head(batch).image /\ buf' = Nothing /\ torn' = FALSE /\ prior' = {}
  <2>1. ASSUME NEW t \in Tablets, NEW d, NEW b, d = onDisk'[t], b = buf'[t]
        PROVE  AckedFile(t, d, b)'
    BY <1>2, <1>3, <1>4, <2>1, AckedRename, NothingTyped
  <2> QED  BY <1>2, <1>3, <1>4, <2>1, AckedOver
<1>5. CASE UNCHANGED <<onDisk, buf, torn, prior, needs>> /\ acked' = acked
  <2>1. ASSUME NEW t \in Tablets, NEW d, NEW b, d = onDisk'[t], b = buf'[t]
        PROVE  AckedFile(t, d, b)'
    BY <1>3, <1>5, <2>1, AckedSame
  <2> QED  BY <1>1, <1>2, <1>3, <1>5, <2>1, AckedOver DEF BatchOk
<1>6. \/ onDisk' = Head(batch).image /\ buf' = Nothing /\ torn' = FALSE /\ prior' = {}
      \/ UNCHANGED <<onDisk, buf, torn, prior, needs>> /\ acked' = acked
  BY DEF FlushRewrite, FlushRewriteFails, RenameOver, DoneErr
<1> QED  BY <1>4, <1>5, <1>6

\* So does an append that is refused, and a strip that fails.
LEMMA AckedRefused ==
  ASSUME AInv, TInv', FlushRefused \/ StripFails
  PROVE  AInv'
<1>1. Lined /\ prior = {} /\ BatchOk /\ full \in BOOLEAN
  BY DEF AInv, Lined, SharedTypeOK
<1>2. Over /\ acked' = acked  BY <1>1, ErrOver DEF FlushRefused, StripFails
<1>3. UNCHANGED <<onDisk, buf, torn, prior, step, needs>>  BY DEF FlushRefused, StripFails
<1>4. ASSUME NEW t \in Tablets, NEW d, NEW b, d = onDisk'[t], b = buf'[t]
      PROVE  AckedFile(t, d, b)'
  BY <1>2, <1>3, <1>4, AckedSame
<1> QED  BY <1>1, <1>2, <1>3, <1>4, AckedOver DEF BatchOk

\* The lines of a batch are behind the rounds acknowledged.
LEMMA AckedWritten ==
  ASSUME AInv, batch # <<>>, IsAppend(Head(batch)), NEW i \in 0 .. Len(batch),
         NEW t \in Tablets, NEW b, b = Written(i)[t]
  PROVE  /\ Live(t) => \A j \in 1 .. Len(b) : acked[t] <= b[j].n
         /\ InBatch(t) /\ i = Len(batch) /\ ~torn => b # <<>> /\ b[Len(b)].n = round[t]
         /\ ~InBatch(t) => b = buf[t]
<1>1. Lined /\ SharedTypeOK /\ Shape /\ AckedFile(t, onDisk[t], buf[t])
  BY DEF AInv, Lined, BatchOk, AckedFiles
<1>2. Len(batch) \in Nat /\ \A j \in 1 .. Len(batch) : IsAppend(batch[j])
  BY <1>1, HeadFacts
<1>3. b = IF ~torn /\ \E j \in 1 .. i : batch[j].t = t
          THEN Append(buf[t], OpOf(t).rec) ELSE buf[t]
  BY DEF Written
<1>4. (\E j \in 1 .. i : batch[j].t = t) => InBatch(t)  BY <1>2 DEF InBatch
<1>5. InBatch(t) /\ i = Len(batch) => \E j \in 1 .. i : batch[j].t = t  BY DEF InBatch
<1>6. ASSUME InBatch(t), b = Append(buf[t], OpOf(t).rec)
      PROVE  /\ Live(t) => \A j \in 1 .. Len(b) : acked[t] <= b[j].n
             /\ b # <<>> /\ b[Len(b)].n = round[t]
  <2>1. IsAppend(OpOf(t)) /\ OpOf(t) \in Ops
    BY <1>1, <1>2, <1>6, OpOfFacts, OpOfTyped
  <2>2. OpOf(t).rec = RoundRecord(t, round[t])  BY <1>1, <1>6, <2>1, Waits
  <2> DEFINE r == OpOf(t).rec
  <2>3. r \in Recs /\ r.n = round[t]
    BY <1>1, <2>2, RecordRun DEF SharedTypeOK
  <2>4. buf[t] \in Seq(Recs)  BY <1>1 DEF SharedTypeOK
  <2> HIDE DEF r
  <2>5. /\ b \in Seq(Recs) /\ Len(b) = Len(buf[t]) + 1 /\ Len(buf[t]) \in Nat
        /\ \A j \in 1 .. Len(buf[t]) : b[j] = buf[t][j]
        /\ b[Len(buf[t]) + 1] = r
    BY <1>6, <2>3, <2>4, AppendProperties DEF r
  <2>6. ASSUME Live(t), NEW j \in 1 .. Len(b)  PROVE acked[t] <= b[j].n
    <3>1. j \in 1 .. Len(buf[t]) \/ j = Len(buf[t]) + 1  BY <2>5
    <3> QED  BY <1>1, <2>3, <2>5, <2>6, <3>1 DEF AckedFile
  <2>7. b # <<>> /\ b[Len(b)].n = round[t]  BY <2>3, <2>5
  <2> QED  BY <2>6, <2>7
<1>7. CASE b = buf[t]
  <2>1. Live(t) => \A j \in 1 .. Len(b) : acked[t] <= b[j].n  BY <1>1, <1>7 DEF AckedFile
  <2>2. ASSUME InBatch(t), i = Len(batch), ~torn
        PROVE  b # <<>> /\ b[Len(b)].n = round[t]
    BY <1>3, <1>5, <1>6, <2>2
  <2> QED  BY <1>7, <2>1, <2>2
<1>8. CASE InBatch(t) /\ b = Append(buf[t], OpOf(t).rec)  BY <1>6, <1>8
<1> QED  BY <1>3, <1>4, <1>7, <1>8

\* The step changes nothing that the callers see.
LEMMA AckedCallers ==
  ASSUME AInv, TInv', batch' = batch, UNCHANGED caller, prior' = {},
         step' # "io" => ~torn', torn' => needs',
         \A t \in Tablets : \A d, b : d = onDisk'[t] /\ b = buf'[t] => AckedFile(t, d, b)'
  PROVE  AInv'
<1>1. /\ opQueue' = opQueue /\ tails' = tails /\ st' = st /\ acked' = acked
      /\ round' = round /\ halting' = halting /\ stopped' = stopped
  BY DEF caller
<1>2. Count' = Count /\ \A i : Op(i)' = Op(i)  BY <1>1 DEF Count, Op
<1>3. OneOp' /\ OpsOk' /\ AckedTails' /\ AckedPrevs'
  <2>1. OneOp'  BY <1>1, <1>2 DEF AInv, Lined, OneOp
  <2>2. OpsOk'  BY <1>1, <1>2 DEF AInv, Lined, OpsOk, IsAppend, RoundRecord
  <2>3. AckedTails'  BY <1>1 DEF AInv, AckedTails, LastRound, Live
  <2>4. AckedPrevs'  BY <1>1, <1>2 DEF AInv, AckedPrevs, LastRound
  <2> QED  BY <2>1, <2>2, <2>3, <2>4
<1>4. ASSUME NEW i \in 1 .. Count', ~IsAppend(Op(i)'), NEW t \in Tablets,
             NEW s, s = Op(i)'.image[t]
      PROVE  AckedImage(i, s, t)'
  <2>1. AckedImage(i, s, t)  BY <1>2, <1>4 DEF AInv, AckedImages
  <2> QED  BY <1>1, <1>2, <2>1 DEF AckedImage, LastRound, Live
<1>5. AckedFiles' /\ AckedImages'  BY <1>4, AckedNext
<1> QED  BY <1>3, <1>5 DEF AInv, Lined, TInv, BatchOk

\* An append that goes through, and a sync that fails, keep the acknowledged
\* rounds.
LEMMA AckedAppend ==
  ASSUME AInv, TInv', FlushAppend \/ \E isFull \in BOOLEAN : FlushSyncFails(isFull)
  PROVE  AInv'
<1>1. Lined /\ prior = {} /\ BatchOk /\ AckedFiles  BY DEF AInv
<1>2. /\ batch' = batch /\ UNCHANGED caller /\ UNCHANGED <<onDisk, torn, prior>>
  BY DEF FlushAppend, FlushSyncFails
<1>3. \A t \in Tablets : /\ Live(t)' = Live(t) /\ InBatch(t)' = InBatch(t)
                         /\ acked'[t] = acked[t] /\ round'[t] = round[t]
  BY <1>2 DEF Live, InBatch, caller
<1>4. CASE FlushAppend
  <2>1. /\ batch # <<>> /\ IsAppend(Head(batch)) /\ ~needs /\ step' = "sync"
        /\ buf' = Written(Len(batch)) /\ needs' = needs
    BY <1>4 DEF FlushAppend
  <2>2. ~torn  BY <1>1, <2>1 DEF BatchOk
  <2>3. Len(batch) \in 0 .. Len(batch)  BY <1>1, OpFacts DEF Lined
  <2>4. ASSUME NEW t \in Tablets, NEW d, NEW b, d = onDisk'[t], b = buf'[t]
        PROVE  AckedFile(t, d, b)'
    <3>1. /\ Live(t) => \A j \in 1 .. Len(b) : acked[t] <= b[j].n
          /\ InBatch(t) => b # <<>> /\ b[Len(b)].n = round[t]
      BY <2>1, <2>2, <2>3, <2>4, AckedWritten
    <3>2. Live(t) => acked[t] <= LastRound(d) /\ acked[t] <= round[t]
      BY <1>1, <1>2, <2>4 DEF AckedFiles, AckedFile
    <3>3. Unsynced(t)' => InBatch(t)  BY <1>3 DEF Unsynced
    <3> QED  BY <1>3, <3>1, <3>2, <3>3 DEF AckedFile, LastRound
  <2> QED  BY <1>1, <1>2, <2>1, <2>2, <2>4, AckedCallers
<1>5. CASE \E isFull \in BOOLEAN : FlushSyncFails(isFull)
  <2>1. step = "sync" /\ buf' = buf  BY <1>5 DEF FlushSyncFails
  <2>2. ~torn  BY <1>1, <2>1 DEF BatchOk
  <2>3. ASSUME NEW t \in Tablets, NEW d, NEW b, d = onDisk'[t], b = buf'[t]
        PROVE  AckedFile(t, d, b)'
    <3>1. AckedFile(t, d, b)  BY <1>1, <1>2, <2>1, <2>3 DEF AckedFiles
    <3>2. Unsynced(t)' => Unsynced(t)  BY <1>3, <2>1 DEF Unsynced
    <3> QED  BY <1>3, <3>1, <3>2 DEF AckedFile, LastRound
  <2> QED  BY <1>1, <1>2, <2>2, <2>3, AckedCallers
<1> QED  BY <1>4, <1>5

\* An append that fails after any number of lines, for any reason, keeps them, if
\* half a line is a sign of a full disk.
LEMMA AckedAppendFails ==
  ASSUME "short" \notin Errors, AInv, TInv', NEW isFull \in BOOLEAN, FlushAppendFails(isFull)
  PROVE  AInv'
<1>1. Lined /\ prior = {} /\ BatchOk /\ AckedFiles  BY DEF AInv
<1>2. /\ batch # <<>> /\ step = "io" /\ IsAppend(Head(batch)) /\ ~needs
      /\ Partly(isFull) /\ DoneErr(isFull) /\ needs' = (needs \/ isFull)
      /\ UNCHANGED <<onDisk, prior, step>>
  BY DEF FlushAppendFails
<1>3. PICK i \in 0 .. Len(batch) - 1, half \in BOOLEAN :
        (half => isFull) /\ buf' = Written(i) /\ torn' = (torn \/ half)
  BY <1>2 DEF Partly
<1>4. i \in 0 .. Len(batch) /\ ~torn  BY <1>1, <1>2, OpFacts DEF Lined, BatchOk
<1>5. Over /\ acked' = acked  BY <1>1, <1>2, ErrOver
<1>6. ASSUME NEW t \in Tablets, NEW d, NEW b, d = onDisk'[t], b = buf'[t]
      PROVE  AckedFile(t, d, b)'
  <2>1. Live(t) => \A j \in 1 .. Len(b) : acked[t] <= b[j].n
    BY <1>2, <1>3, <1>4, <1>6, AckedWritten
  <2>2. Live(t) => acked[t] <= LastRound(d)
    BY <1>1, <1>2, <1>6 DEF AckedFiles, AckedFile
  <2>3. InBatch(t) /\ Live(t)' => Live(t)  BY <1>5, AckedAnswer
  <2> QED  BY <1>5, <2>1, <2>2, <2>3, AckedLeft
<1> QED  BY <1>1, <1>2, <1>3, <1>4, <1>5, <1>6, AckedOver

\* A sync, and the replace that takes a failed batch off the file, keep them.
LEMMA AckedSync ==
  ASSUME "undone" \notin Errors, AInv, TInv', FlushSync \/ Strip
  PROVE  AInv'
<1>1. Lined /\ SharedTypeOK /\ prior = {} /\ BatchOk /\ AckedFiles
  BY DEF AInv, Lined
<1>2. step # "io" /\ ~torn  BY <1>1 DEF FlushSync, Strip, BatchOk
<1>3. full \in BOOLEAN  BY <1>1 DEF SharedTypeOK
<1>4. ASSUME NEW t \in Tablets
      PROVE  /\ onDisk[t] \in Seq(Recs) /\ buf[t] \in Seq(Recs) /\ acked[t] \in Nat
             /\ Live(t) => /\ acked[t] <= LastRound(onDisk[t])
                           /\ \A j \in 1 .. Len(buf[t]) : acked[t] <= buf[t][j].n
             /\ InBatch(t) => buf[t] # <<>> /\ buf[t][Len(buf[t])].n = round[t]
  BY SharedWalAssumption, <1>1, <1>2 DEF SharedTypeOK, AckedFiles, AckedFile, Unsynced
<1>5. \A b : b = <<>> => 1 .. Len(b) = {}  BY EmptyRun
<1>6. CASE FlushSync
  <2>1. /\ DoneOk /\ onDisk' = [t \in Tablets |-> onDisk[t] \o buf[t]] /\ buf' = Nothing
        /\ UNCHANGED <<torn, prior, step, needs>>
    BY <1>6 DEF FlushSync
  <2>2. Over  BY <1>1, <2>1, OkFinishes
  <2>3. ASSUME NEW t \in Tablets, NEW d, NEW b, d = onDisk'[t], b = buf'[t]
        PROVE  AckedFile(t, d, b)'
    <3>1. d = onDisk[t] \o buf[t] /\ b = <<>>  BY <2>1, <2>3, NothingTyped
    <3>2. Live(t) => /\ acked[t] <= LastRound(d)
                     /\ buf[t] # <<>> => LastRound(d) = buf[t][Len(buf[t])].n
      BY <1>4, <3>1, LastOfJoin
    <3>3. InBatch(t) /\ Live(t)' => acked'[t] <= LastRound(d)
      BY <1>4, <2>2, <3>2, AckedAnswer
    <3> QED  BY <1>5, <2>2, <3>1, <3>2, <3>3, AckedLeft
  <2> QED  BY <1>1, <1>2, <2>1, <2>2, <2>3, AckedOver
<1>7. CASE Strip
  <2> DEFINE own(t) == IF InBatch(t) /\ ~torn THEN 1 ELSE 0
             kept(t) == SubSeq(buf[t], 1, Len(buf[t]) - own(t))
  <2>1. /\ DoneErr(full) /\ onDisk' = [t \in Tablets |-> onDisk[t] \o kept(t)]
        /\ buf' = Nothing /\ prior' = {} /\ UNCHANGED <<torn, step, needs>>
    BY <1>7 DEF Strip, RenameOver
  <2>2. Over /\ acked' = acked  BY <1>1, <1>3, <2>1, ErrOver
  <2>3. ASSUME NEW t \in Tablets, NEW d, NEW b, d = onDisk'[t], b = buf'[t]
        PROVE  AckedFile(t, d, b)'
    <3>1. d = onDisk[t] \o kept(t) /\ b = <<>>  BY <2>1, <2>3, NothingTyped
    <3>2. own(t) \in {0, 1}  OBVIOUS
    <3> HIDE DEF own
    <3>3. Len(buf[t]) - own(t) \in Int /\ Len(buf[t]) - own(t) <= Len(buf[t])
      BY <1>4, <3>2
    <3>4. /\ kept(t) \in Seq(Recs)
          /\ \A i \in 1 .. Len(kept(t)) : i \in 1 .. Len(buf[t]) /\ kept(t)[i] = buf[t][i]
      BY <1>4, <3>3, PrefixOf
    <3> HIDE DEF kept
    <3>5. Live(t) => acked[t] <= LastRound(d)  BY <1>4, <3>1, <3>4, LastOfJoin
    <3>6. InBatch(t) /\ Live(t)' => Live(t)  BY <2>2, AckedAnswer
    <3> QED  BY <1>5, <2>2, <3>1, <3>5, <3>6, AckedLeft
  <2> QED  BY <1>1, <1>2, <2>1, <2>2, <2>3, AckedOver
<1> QED  BY <1>6, <1>7

\* A caller that enters the queue keeps them.
LEMMA AckedEnters ==
  ASSUME AInv, TInv', NEW t \in Tablets, NEW o, NEW n, NEW tl, NEW q,
         Enters(t, o, n, tl, q)
  PROVE  AInv'
<1>1. /\ Lined /\ BatchOk /\ prior = {} /\ AckedPrevs /\ AckedFiles /\ AckedTails
      /\ AckedImages
  BY DEF AInv
<1>2. /\ Count \in Nat /\ Count' = Count + 1
      /\ \A i \in 1 .. Count : Op(i)' = Op(i) /\ Op(i).t # t
      /\ \A i : i = Count + 1 => Op(i)' = o
      /\ st'[t] = q /\ round'[t] = n /\ tails'[t] = tl
      /\ (Live(t)' => q = "wait") /\ ~InBatch(t)'
      /\ Live(t) /\ acked[t] \in Nat /\ round[t] \in Nat
      /\ \A u \in Tablets : u # t =>
           /\ st'[u] = st[u] /\ round'[u] = round[u] /\ tails'[u] = tails[u]
           /\ Live(u)' = Live(u) /\ InBatch(u)' = InBatch(u)
  BY <1>1, EntersFacts
<1>3. /\ onDisk' = onDisk /\ buf' = buf /\ torn' = torn /\ batch' = batch /\ step' = step
      /\ needs' = needs /\ acked' = acked /\ prior' = prior /\ o.t = t
      /\ o.prev = tails[t]
      /\ n \in Nat /\ round[t] <= n /\ (q = "wait" => LastRound(tl) = n)
      /\ ~IsAppend(o) => o.image = tails'
  BY SharedWalAssumption DEF Enters
<1>4. acked[t] <= LastRound(tails[t])  BY <1>1, <1>2 DEF AckedTails
<1>5. OneOp' /\ OpsOk'  BY <1>1, EntersOps
<1>6. acked[t] <= n  BY <1>1, <1>2, <1>3 DEF AckedFiles, AckedFile
<1>7. ASSUME NEW u \in Tablets, NEW d, NEW b, d = onDisk'[u], b = buf'[u]
      PROVE  AckedFile(u, d, b)'
  <2>1. AckedFile(u, d, b)  BY <1>1, <1>3, <1>7 DEF AckedFiles
  <2>2. CASE u # t
    <3>1. Unsynced(u)' => Unsynced(u)  BY <1>2, <1>3, <2>2 DEF Unsynced
    <3> QED  BY <1>2, <1>3, <2>1, <2>2, <3>1 DEF AckedFile, LastRound
  <2>3. CASE u = t
    <3>1. ~Unsynced(t)'  BY <1>2 DEF Unsynced
    <3> QED  BY <1>2, <1>3, <1>6, <2>1, <2>3, <3>1 DEF AckedFile, LastRound
  <2> QED  BY <2>2, <2>3
<1>8. ASSUME NEW u \in Tablets
      PROVE  /\ Live(u)' => acked'[u] <= LastRound(tails'[u])
             /\ st'[u] = "wait" => LastRound(tails'[u]) = round'[u]
  <2>1. CASE u # t  BY <1>1, <1>2, <1>3, <2>1 DEF AckedTails
  <2>2. CASE u = t  BY <1>2, <1>3, <1>6, <2>2
  <2> QED  BY <2>1, <2>2
<1>9. AckedTails'  BY <1>8 DEF AckedTails, LastRound
<1>10. \A i \in 1 .. Count' : i \in 1 .. Count \/ i = Count + 1  BY <1>2
<1>11. ASSUME NEW i \in 1 .. Count', ~IsAppend(Op(i)'), NEW u \in Tablets,
              NEW s, s = Op(i)'.image[u]
       PROVE  AckedImage(i, s, u)'
  <2>1. CASE i \in 1 .. Count
    <3>1. AckedImage(i, s, u)  BY <1>1, <1>2, <1>11, <2>1 DEF AckedImages
    <3>2. ASSUME NEW k \in 1 .. Count', Op(k)'.t = u, k <= i
          PROVE  k \in 1 .. Count /\ Op(k)' = Op(k) /\ u # t
      BY <1>2, <1>10, <2>1, <3>2
    <3>3. ASSUME NEW k \in 1 .. Count', Op(k)'.t = u, st'[u] = "wait", k <= i
          PROVE  LastRound(s) = round'[u]
      BY <1>2, <3>1, <3>2, <3>3 DEF AckedImage
    <3>4. Live(u)' => acked'[u] <= LastRound(s)
      BY <1>2, <1>3, <3>1 DEF AckedImage
    <3> QED  BY <3>3, <3>4 DEF AckedImage, LastRound
  <2>2. CASE i = Count + 1
    <3>1. s = tails'[u]  BY <1>2, <1>3, <1>11, <2>2
    <3> QED  BY <1>8, <3>1 DEF AckedImage, LastRound
  <2> QED  BY <1>10, <2>1, <2>2
<1>12. AckedFiles' /\ AckedImages'  BY <1>7, <1>11, AckedNext
<1>13. ASSUME NEW i \in 1 .. Count', st'[Op(i)'.t] = "wait"
       PROVE  acked[Op(i)'.t] <= LastRound(Op(i)'.prev)
  <2>1. CASE i \in 1 .. Count
    <3>1. Op(i)' = Op(i) /\ Op(i).t # t /\ Op(i).t \in Tablets
      BY <1>1, <1>2, <2>1, OpFacts, OpsFacts DEF Lined
    <3>2. st[Op(i).t] = "wait"  BY <1>2, <1>13, <3>1
    <3> QED  BY <1>1, <2>1, <3>1, <3>2 DEF AckedPrevs
  <2>2. CASE i = Count + 1  BY <1>2, <1>3, <1>4, <2>2
  <2> QED  BY <1>10, <2>1, <2>2
<1>14. AckedPrevs'  BY <1>3, <1>13 DEF AckedPrevs, LastRound
<1> QED  BY <1>1, <1>3, <1>5, <1>9, <1>12, <1>14 DEF AInv, Lined, TInv, BatchOk

\* Every file that a restart may find has the rounds acknowledged.
LEMMA AckedFound ==
  ASSUME AInv, NEW d \in Survivors, NEW t \in Tablets, Live(t)
  PROVE  acked[t] <= LastRound(d[t])
<1>1. SharedTypeOK /\ prior = {} /\ AckedFile(t, onDisk[t], buf[t])
  BY DEF AInv, Lined, AckedFiles
<1>2. PICK cut \in [Tablets -> 0 .. MaxRound] :
        /\ cut[t] <= Len(buf[t]) /\ d[t] = Found(t, cut[t])
  BY <1>1 DEF Survivors
<1>3. /\ onDisk[t] \in Seq(Recs) /\ buf[t] \in Seq(Recs) /\ cut[t] \in Int
      /\ acked[t] \in Nat
  BY SharedWalAssumption, <1>1 DEF SharedTypeOK
<1> DEFINE p == SubSeq(buf[t], 1, cut[t])
<1>4. /\ p \in Seq(Recs)
      /\ \A i \in 1 .. Len(p) : i \in 1 .. Len(buf[t]) /\ p[i] = buf[t][i]
  BY <1>2, <1>3, PrefixOf
<1>5. d[t] = onDisk[t] \o p  BY <1>2 DEF Found
<1> HIDE DEF p
<1> QED  BY <1>1, <1>3, <1>4, <1>5, LastOfJoin DEF AckedFile

\* Nothing is under way and every tail is what the file has.
LEMMA AckedQuiet ==
  ASSUME TInv', opQueue' = <<>>, batch' = <<>>, ~torn', step' = "io", prior' = {},
         \A t \in Tablets :
            /\ buf'[t] = <<>> /\ tails'[t] = onDisk'[t] /\ st'[t] \in {"idle", "gone"}
            /\ round'[t] = LastRound(onDisk'[t])
            /\ st'[t] = "idle" => acked'[t] <= LastRound(onDisk'[t])
  PROVE  AInv'
<1>1. \A b : b = <<>> => 1 .. Len(b) = {}  BY EmptyRun
<1>2. Len(<<>>) = 0 /\ 1 .. 0 = {}  BY EmptyRun
<1>3. Count' = 0 /\ 1 .. Count' = {} /\ 1 .. Len(batch') = {}  BY <1>2 DEF Count
<1>4. OneOp' /\ OpsOk' /\ AckedPrevs' /\ AckedImages'
  BY <1>3 DEF OneOp, OpsOk, AckedPrevs, AckedImages
<1>5. AckedTails'  BY DEF AckedTails, Live, LastRound
<1>6. ASSUME NEW t \in Tablets, NEW d, NEW b, d = onDisk'[t], b = buf'[t]
      PROVE  AckedFile(t, d, b)'
  BY <1>1, <1>6 DEF AckedFile, Live, Unsynced, LastRound
<1>7. AckedFiles'  BY <1>6, AckedNext
<1> QED  BY <1>4, <1>5, <1>7 DEF AInv, Lined, TInv, BatchOk

\* A crash and the reopening keep them.
LEMMA AckedCrash ==
  ASSUME AInv, TInv', NodeCrash
  PROVE  AInv'
<1>1. SharedTypeOK  BY DEF AInv, Lined
<1>2. PICK d \in Survivors : Reopen(d)  BY DEF NodeCrash
<1>3. /\ onDisk' = d /\ buf' = Nothing /\ torn' = FALSE /\ tails' = d /\ prior' = {}
      /\ opQueue' = <<>> /\ batch' = <<>> /\ step' = "io" /\ acked' = acked
      /\ round' = [t \in Tablets |-> LastRound(d[t])]
      /\ st' = [t \in Tablets |-> IF st[t] \in {"gone", "forget"} THEN "gone" ELSE "idle"]
  BY <1>2 DEF Reopen, LastRound
<1>4. ASSUME NEW t \in Tablets
      PROVE  /\ buf'[t] = <<>> /\ tails'[t] = onDisk'[t] /\ st'[t] \in {"idle", "gone"}
             /\ round'[t] = LastRound(onDisk'[t])
             /\ st'[t] = "idle" => acked'[t] <= LastRound(onDisk'[t])
  <2>1. st'[t] = "idle" => Live(t)  BY <1>3 DEF Live
  <2>2. Live(t) => acked[t] <= LastRound(d[t])  BY AckedFound
  <2> QED  BY <1>3, <2>1, <2>2, NothingTyped
<1> QED  BY <1>3, <1>4, AckedQuiet

\* A tablet that halts, and the leader that takes a batch, keep them.
LEMMA AckedTake ==
  ASSUME AInv, TInv', Take \/ \E t \in Tablets : Halt(t)
  PROVE  AInv'
<1>1. /\ SharedTypeOK /\ OneOp /\ OpsOk /\ BatchOk /\ prior = {} /\ AckedPrevs
      /\ AckedFiles /\ AckedTails /\ AckedImages
  BY DEF AInv, Lined
<1>2. /\ onDisk' = onDisk /\ buf' = buf /\ torn' = torn /\ needs' = needs /\ prior' = prior
      /\ tails' = tails /\ round' = round /\ acked' = acked /\ st' = st
  BY DEF Take, Halt, io
<1>3. /\ Count' = Count /\ (\A i \in 1 .. Count : Op(i)' = Op(i))
      /\ step' # "io" => step # "io"
      /\ \A t \in Tablets : Unsynced(t)' => Unsynced(t)
  <2>1. CASE Take
    <3>1. batch = <<>> /\ step' = "io"  BY <2>1 DEF Take
    <3>2. PICK k \in Prefixes : /\ batch' = SubSeq(opQueue, 1, k)
                                /\ opQueue' = SubSeq(opQueue, k + 1, Len(opQueue))
      BY <2>1 DEF Take
    <3>3. k \in 1 .. Len(opQueue)  BY <3>2 DEF Prefixes
    <3>4. Count' = Count /\ \A i \in 1 .. Count : Op(i)' = Op(i)
      BY <1>1, <3>1, <3>2, <3>3, TakeOps
    <3> QED  BY <3>1, <3>4 DEF Unsynced
  <2>2. CASE \E t \in Tablets : Halt(t)
    <3>1. batch' = batch /\ opQueue' = opQueue /\ step' = step  BY <2>2 DEF Halt, io
    <3> QED  BY <3>1 DEF Count, Op, Unsynced, InBatch
  <2> QED  BY <2>1, <2>2
<1>4. \A t \in Tablets : Live(t)' = Live(t)  BY <1>2 DEF Live
<1>5. OneOp'  BY <1>1, <1>2, <1>3 DEF OneOp
<1>6. ASSUME NEW i \in 1 .. Count'
      PROVE  LET p == Op(i)'
             IN /\ st[p.t] = "wait" => acked[p.t] <= LastRound(p.prev)
                /\ IsAppend(p) => st[p.t] = "wait" /\ p.rec = RoundRecord(p.t, round[p.t])
                /\ ~IsAppend(p) /\ st[p.t] = "wait" => p.n = round[p.t]
  BY <1>1, <1>3 DEF OpsOk, AckedPrevs
<1>7. OpsOk' /\ AckedPrevs'
  BY <1>2, <1>6 DEF OpsOk, AckedPrevs, LastRound, IsAppend, RoundRecord
<1>8. ASSUME NEW t \in Tablets, NEW d, NEW b, d = onDisk'[t], b = buf'[t]
      PROVE  AckedFile(t, d, b)'
  <2>1. AckedFile(t, d, b)  BY <1>1, <1>2, <1>8 DEF AckedFiles
  <2> QED  BY <1>2, <1>3, <1>4, <2>1 DEF AckedFile, LastRound
<1>9. AckedTails'  BY <1>1, <1>2, <1>4 DEF AckedTails, LastRound
<1>10. ASSUME NEW i \in 1 .. Count', ~IsAppend(Op(i)'), NEW t \in Tablets,
              NEW s, s = Op(i)'.image[t]
       PROVE  AckedImage(i, s, t)'
  <2>1. AckedImage(i, s, t)  BY <1>1, <1>3, <1>10 DEF AckedImages
  <2>2. ASSUME NEW k \in 1 .. Count', Op(k)'.t = t, st'[t] = "wait", k <= i
        PROVE  LastRound(s) = round'[t]
    BY <1>2, <1>3, <2>1, <2>2 DEF AckedImage
  <2> QED  BY <1>2, <1>4, <2>1, <2>2 DEF AckedImage, LastRound
<1>11. AckedFiles' /\ AckedImages'  BY <1>8, <1>10, AckedNext
<1>12. (step' # "io" => ~torn') /\ (torn' => needs')  BY <1>1, <1>2, <1>3 DEF BatchOk
<1> QED  BY <1>1, <1>2, <1>5, <1>7, <1>9, <1>11, <1>12 DEF AInv, Lined, TInv, BatchOk

\* Every step keeps the rounds acknowledged.
LEMMA StepAcked ==
  ASSUME "short" \notin Errors, "undone" \notin Errors, AInv, [SharedNext]_sharedVars
  PROVE  AInv'
<1>1. TInv  BY DEF AInv, Lined, BatchOk, TInv
<1>2. TInv'  BY <1>1, StepTyped
<1>3. CASE UNCHANGED sharedVars
  <2>1. /\ UNCHANGED <<onDisk, buf, torn, prior, batch, step, needs>> /\ UNCHANGED caller
    BY <1>3 DEF sharedVars, io
  <2>2. ASSUME NEW t \in Tablets, NEW d, NEW b, d = onDisk'[t], b = buf'[t]
        PROVE  AckedFile(t, d, b)'
    <3>1. AckedFile(t, d, b)  BY <2>1, <2>2 DEF AInv, AckedFiles
    <3>2. /\ Live(t)' = Live(t) /\ Unsynced(t)' = Unsynced(t)
          /\ acked'[t] = acked[t] /\ round'[t] = round[t]
      BY <2>1 DEF Live, Unsynced, InBatch, caller
    <3> QED  BY <3>1, <3>2 DEF AckedFile, LastRound
  <2>3. prior' = {} /\ (step' # "io" => ~torn') /\ (torn' => needs')
    BY <2>1 DEF AInv, BatchOk
  <2> QED  BY <1>2, <2>1, <2>2, <2>3, AckedCallers
<1>4. ASSUME NEW t \in Tablets, AppendTagged(t) \/ CompactGroup(t) \/ Forget(t)
      PROVE  AInv'
  <2>1. PICK o, n, tl, q : Enters(t, o, n, tl, q)
    BY <1>1, <1>4, CallerEnters DEF TInv
  <2> QED  BY <1>2, <2>1, AckedEnters
<1>5. CASE SharedNext
  BY <1>2, <1>4, <1>5, AckedTake, AckedRewrite, AckedRefused, AckedAppend, AckedAppendFails,
     AckedSync, AckedCrash
  DEF SharedNext, Drive
<1> QED  BY <1>3, <1>5

\* A new file has what was acknowledged: nothing.
LEMMA InitAcked ==
  ASSUME SharedInit
  PROVE  AInv
<1>1. TInv  BY InitTyped
<1>2. Len(<<>>) = 0 /\ 1 .. 0 = {} /\ LastRound(<<>>) = 0  BY EmptyRun
<1>3. Count = 0 /\ 1 .. Count = {} /\ batch = <<>>  BY <1>2 DEF SharedInit, Count
<1>4. \A t \in Tablets : /\ onDisk[t] = <<>> /\ buf[t] = <<>> /\ tails[t] = <<>>
                         /\ acked[t] = 0 /\ round[t] = 0 /\ st[t] = "idle"
  BY NothingTyped DEF SharedInit
<1>5. OneOp /\ OpsOk /\ AckedPrevs /\ AckedImages
  BY <1>3, <1>4 DEF OneOp, OpsOk, AckedPrevs, AckedImages
<1>6. \A s : s = <<>> => LastRound(s) = 0 /\ 1 .. Len(s) = {}  BY <1>2
<1>7. AckedTails
  <2>1. ASSUME NEW t \in Tablets
        PROVE  acked[t] <= LastRound(tails[t]) /\ st[t] # "wait"
    BY <1>4, <1>6
  <2> QED  BY <2>1 DEF AckedTails
<1>8. ASSUME NEW t \in Tablets, NEW d, NEW b, d = onDisk[t], b = buf[t]
      PROVE  AckedFile(t, d, b)
  <2>1. acked[t] <= LastRound(d) /\ acked[t] <= round[t] /\ 1 .. Len(b) = {}
    BY <1>4, <1>6, <1>8
  <2>2. ~Unsynced(t)  BY DEF Unsynced, SharedInit
  <2> QED  BY <2>1, <2>2 DEF AckedFile
<1>9. AckedFiles  BY <1>8 DEF AckedFiles
<1> QED  BY <1>1, <1>5, <1>7, <1>9 DEF AInv, Lined, TInv, BatchOk, SharedInit

\* If a failed append leaves half a line only on a full disk and no crash undoes
\* a rename, a round that flush has acknowledged to a tablet (DoneOk) is found by
\* every restart from then on, through failed appends, syncs, compactions and
\* recoveries of any tablet, for any reason, and the tasks they stop, through
\* crashes, until the tablet itself is erased.
THEOREM AckedRoundsSurvive ==
  ASSUME "short" \notin Errors, "undone" \notin Errors
  PROVE  SharedSpec => []AckedSurvives
<1>1. SharedInit => AInv  BY InitAcked
<1>2. AInv /\ [SharedNext]_sharedVars => AInv'  BY StepAcked
<1>3. ASSUME AInv, NEW t \in Tablets, st[t] \notin {"forget", "gone"}, NEW d \in Survivors
      PROVE  LastRound(d[t]) >= acked[t]
  <2>1. acked[t] <= LastRound(d[t])  BY <1>3, AckedFound DEF Live
  <2>2. d[t] \in Seq(Recs) /\ acked[t] \in Nat
    BY SharedWalAssumption, <1>3, SurvivorsTyped DEF AInv, Lined, SharedTypeOK
  <2>3. LastRound(d[t]) \in Nat  BY <2>2, LastRoundFacts
  <2> QED  BY <2>1, <2>2, <2>3
<1>4. AInv => AckedSurvives  BY <1>3 DEF AckedSurvives
<1> QED  BY <1>1, <1>2, <1>4, PTL DEF SharedSpec

-----------------------------------------------------------------------------
(* No gaps, if only a full disk fails the rewrite of a live apply task.    *)

\* While the end of the file is whole, that of a tablet which may append has
\* exactly the rounds before the next.  Behind half a line nothing is read.
FileOf(t, d, b) ==
    /\ Unbroken(d) /\ Len(b) <= 1
    /\ Len(b) = 1 => Follows(d, b[1])
    /\ ~torn => /\ Steady(t) => LastRound(d) = round[t]
                /\ Appending(t) => LastRound(d) + 1 = round[t]
                /\ Unsynced(t) => b = <<RoundRecord(t, round[t])>>
                /\ ~Unsynced(t) /\ (Steady(t) \/ Appending(t)) => b = <<>>

FileOk == \A t \in Tablets : FileOf(t, onDisk[t], buf[t])

\* The files that an undone rename would bring back.
PriorOk == \A d \in prior : \A t \in Tablets : Unbroken(d[t])

\* The cached tails, from which the images are built.
TailsOk ==
    \A t \in Tablets :
        /\ Unbroken(tails[t])
        /\ Steady(t) \/ st[t] = "wait" => LastRound(tails[t]) = round[t]

\* The tails that failures would put back.
PrevsOk == \A i \in 1 .. Count : Unbroken(Op(i).prev)

\* What an image has of tablet t, if it is the i-th operation under way: t's
\* last round if t's own operation is not behind it, and the round before if
\* that is an append behind it.
ImageOf(i, s, t) ==
    /\ Unbroken(s)
    /\ Steady(t) => LastRound(s) = round[t]
    /\ \A k \in 1 .. Count : Op(k).t = t /\ st[t] = "wait" =>
         /\ k <= i => LastRound(s) = round[t]
         /\ i < k /\ IsAppend(Op(k)) => LastRound(s) + 1 = round[t]

ImagesOk ==
    \A i \in 1 .. Count : ~IsAppend(Op(i)) =>
        \A t \in Tablets : ImageOf(i, Op(i).image[t], t)

IInv == Lined /\ Shape /\ FileOk /\ PriorOk /\ TailsOk /\ PrevsOk /\ ImagesOk

\* The parts of the next state, tablet by tablet.
LEMMA GapNext ==
  /\ (\A t \in Tablets : \A d, b : d = onDisk'[t] /\ b = buf'[t] => FileOf(t, d, b)')
       => FileOk'
  /\ (\A i \in 1 .. Count' : ~IsAppend(Op(i)') =>
         \A t \in Tablets : \A s : s = Op(i)'.image[t] => ImageOf(i, s, t)')
       => ImagesOk'
<1>1. ASSUME \A t \in Tablets : \A d, b : d = onDisk'[t] /\ b = buf'[t] => FileOf(t, d, b)'
      PROVE  FileOk'
  BY <1>1 DEF FileOk, FileOf, LastRound, Unbroken, Follows, RoundRecord
<1>2. ASSUME \A i \in 1 .. Count' : ~IsAppend(Op(i)') =>
                \A t \in Tablets : \A s : s = Op(i)'.image[t] => ImageOf(i, s, t)'
      PROVE  ImagesOk'
  BY <1>2 DEF ImagesOk, ImageOf, IsAppend, LastRound, Unbroken
<1> QED  BY <1>1, <1>2

\* A tablet of the batch that goes on appending was answered with success.
LEMMA GapAnswer ==
  ASSUME IInv, Over, Told, NEW t \in Tablets, InBatch(t), Steady(t)'
  PROVE  st[t] = "wait" /\ tails'[t] = tails[t]
<1>1. st[t] = "wait"  BY Waits DEF IInv, Over, Steady
<1> QED  BY <1>1 DEF Told

\* After a batch the tails and the images left still have no gap.
LEMMA GapAfter ==
  ASSUME IInv, Over, Told
  PROVE  TailsOk' /\ PrevsOk' /\ ImagesOk'
<1>1. Lined /\ SharedTypeOK /\ TailsOk /\ PrevsOk /\ ImagesOk  BY DEF IInv, Lined
<1>2. /\ round' = round /\ halting' = halting
      /\ \A t \in Tablets : InBatch(t) => st'[t] # "wait"
  BY DEF Over, DoneTyped
<1>3. ASSUME NEW t \in Tablets
      PROVE  /\ Unbroken(tails'[t])
             /\ Steady(t)' \/ st'[t] = "wait" => LastRound(tails'[t]) = round'[t]
  <2>1. /\ Unbroken(tails[t])
        /\ Steady(t) \/ st[t] = "wait" => LastRound(tails[t]) = round[t]
    BY <1>1 DEF TailsOk
  <2>2. CASE ~InBatch(t)  BY <1>2, <2>1, <2>2 DEF Over, Steady
  <2>3. CASE InBatch(t)
    <3>1. PICK j \in 1 .. Count : OpOf(t) = Op(j)  BY <1>1, <2>3, OpOfFacts
    <3>2. Unbroken(OpOf(t).prev)  BY <1>1, <3>1 DEF PrevsOk
    <3>3. Unbroken(tails'[t])  BY <2>1, <2>3, <3>2 DEF Over
    <3> QED  BY <1>2, <2>1, <2>3, <3>3, GapAnswer
  <2> QED  BY <2>2, <2>3
<1>4. TailsOk'  BY <1>3 DEF TailsOk, Unbroken, LastRound
<1> DEFINE L == Len(batch)
<1>5. /\ L \in Nat /\ Count' \in Nat
      /\ \A k \in 1 .. Count' : k + L \in 1 .. Count /\ Op(k)' = Op(k + L)
  BY <1>1, FinishedOps
<1>6. PrevsOk'
  <2>1. ASSUME NEW i \in 1 .. Count'  PROVE Unbroken(Op(i)'.prev)
    BY <1>1, <1>5 DEF PrevsOk
  <2> QED  BY <2>1 DEF PrevsOk, Unbroken
<1>7. ASSUME NEW i \in 1 .. Count', ~IsAppend(Op(i)'), NEW t \in Tablets,
             NEW s, s = Op(i)'.image[t]
      PROVE  ImageOf(i, s, t)'
  <2>1. ImageOf(i + L, s, t)  BY <1>1, <1>5, <1>7 DEF ImagesOk
  <2> HIDE DEF L
  <2>2. CASE ~InBatch(t)
    <3>1. st'[t] = st[t] /\ Steady(t)' = Steady(t)  BY <1>2, <2>2 DEF Over, Steady
    <3>2. ASSUME NEW k \in 1 .. Count', Op(k)'.t = t, st'[t] = "wait"
          PROVE  /\ k <= i => LastRound(s) = round[t]
                 /\ i < k /\ IsAppend(Op(k)') => LastRound(s) + 1 = round[t]
      <4>1. k + L \in 1 .. Count /\ Op(k)' = Op(k + L)  BY <1>5
      <4>2. /\ k + L <= i + L => LastRound(s) = round[t]
            /\ i + L < k + L /\ IsAppend(Op(k + L)) => LastRound(s) + 1 = round[t]
        BY <2>1, <3>1, <3>2, <4>1 DEF ImageOf
      <4> QED  BY <1>5, <4>1, <4>2
    <3>3. Unbroken(s) /\ (Steady(t)' => LastRound(s) = round'[t])
      BY <1>2, <2>1, <3>1 DEF ImageOf
    <3> QED  BY <1>2, <3>2, <3>3 DEF ImageOf, IsAppend, LastRound, Unbroken
  <2>3. CASE InBatch(t)
    <3>1. PICK j \in 1 .. L : j \in 1 .. Count /\ Op(j).t = t
      BY <1>1, <2>3, OpOfFacts DEF L
    <3>2. j <= i + L  BY <1>5, <3>1
    <3>3. st[t] = "wait" => LastRound(s) = round[t]
      BY <2>1, <3>1, <3>2 DEF ImageOf
    <3>4. Steady(t)' => LastRound(s) = round'[t]  BY <1>2, <2>3, <3>3, GapAnswer
    <3>5. Unbroken(s)  BY <2>1 DEF ImageOf
    <3> QED  BY <1>2, <2>3, <3>4, <3>5 DEF ImageOf, IsAppend, LastRound, Unbroken
  <2> QED  BY <2>2, <2>3
<1>8. ImagesOk'  BY <1>7, GapNext
<1> QED  BY <1>4, <1>6, <1>8

\* What a flush must leave of a tablet's part of the file.
LEMMA GapLeft ==
  ASSUME IInv, Over, Told, NEW t \in Tablets, NEW d \in Seq(Recs), NEW b,
         Unbroken(d), Len(b) <= 1, Len(b) = 1 => Follows(d, b[1]),
         ~InBatch(t) /\ ~torn' =>
             /\ Steady(t) => LastRound(d) = round[t] /\ b = <<>>
             /\ Appending(t) => LastRound(d) + 1 = round[t] /\ b = <<>>,
         InBatch(t) /\ ~torn' /\ Steady(t)' => LastRound(d) = round[t] /\ b = <<>>
  PROVE  FileOf(t, d, b)'
<1>1. round' = round /\ ~Unsynced(t)' /\ (Appending(t)' => Appending(t) /\ ~InBatch(t))
  BY FinishedOps DEF IInv, Over, DoneTyped, Unsynced
<1>2. ~InBatch(t) => Steady(t)' = Steady(t)  BY DEF Over, DoneTyped, Steady
<1>3. CASE InBatch(t)
  BY <1>1, <1>3 DEF FileOf, LastRound, Unbroken, Follows, RoundRecord
<1>4. CASE ~InBatch(t)
  BY <1>1, <1>2, <1>4 DEF FileOf, LastRound, Unbroken, Follows, RoundRecord
<1> QED  BY <1>3, <1>4

\* A step that finishes the batch and leaves no gap in the file.
LEMMA GapOver ==
  ASSUME IInv, Over, Told, TInv', PriorOk',
         \A t \in Tablets : \A d, b : d = onDisk'[t] /\ b = buf'[t] => FileOf(t, d, b)'
  PROVE  IInv'
<1>1. OneOp' /\ OpsOk'  BY FinishedOneOp, FinishedOpsOk DEF IInv
<1>2. Lined' /\ Shape'  BY <1>1 DEF TInv, Lined
<1>3. FileOk'  BY GapNext
<1> QED  BY <1>2, <1>3, GapAfter DEF IInv

\* The flush failed and left the file as it was.
LEMMA GapSame ==
  ASSUME IInv, Over, Told, NEW t \in Tablets, NEW d, NEW b, d = onDisk[t], b = buf[t],
         torn' = torn, InBatch(t) => ~Steady(t)'
  PROVE  FileOf(t, d, b)'
<1>1. d \in Seq(Recs) /\ FileOf(t, d, b)  BY DEF IInv, Lined, SharedTypeOK, FileOk
<1>2. ~InBatch(t) => ~Unsynced(t)  BY DEF Unsynced
<1> QED  BY <1>1, <1>2, GapLeft DEF FileOf

\* What is not synced may be joined to what is.
LEMMA GapJoin ==
  ASSUME IInv, NEW t \in Tablets
  PROVE  /\ onDisk[t] \in Seq(Recs) /\ buf[t] \in Seq(Recs) /\ round[t] \in 0 .. MaxRound
         /\ FileOf(t, onDisk[t], buf[t])
         /\ onDisk[t] \o buf[t] \in Seq(Recs) /\ Unbroken(onDisk[t] \o buf[t])
         /\ buf[t] = <<>> => onDisk[t] \o buf[t] = onDisk[t]
         /\ Len(buf[t]) = 1 => LastRound(onDisk[t] \o buf[t]) = buf[t][1].n
<1>1. /\ onDisk[t] \in Seq(Recs) /\ buf[t] \in Seq(Recs) /\ round[t] \in 0 .. MaxRound
      /\ FileOf(t, onDisk[t], buf[t])
  BY DEF IInv, Lined, SharedTypeOK, FileOk
<1> QED  BY <1>1, JoinRun DEF FileOf

\* Every file that a restart may find is without a gap.
LEMMA GapFound ==
  ASSUME IInv, NEW d \in Survivors, NEW t \in Tablets
  PROVE  Unbroken(d[t])
<1>1. SharedTypeOK /\ PriorOk  BY DEF IInv, Lined
<1>2. CASE d \in prior  BY <1>1, <1>2 DEF PriorOk
<1>3. ASSUME NEW cut \in [Tablets -> 0 .. MaxRound], cut[t] <= Len(buf[t]),
             d[t] = Found(t, cut[t])
      PROVE  Unbroken(d[t])
  <2>1. /\ onDisk[t] \in Seq(Recs) /\ buf[t] \in Seq(Recs)
        /\ FileOf(t, onDisk[t], buf[t])
    BY GapJoin
  <2>2. cut[t] \in 0 .. Len(buf[t])  BY SharedWalAssumption, <1>3, <2>1
  <2> DEFINE p == SubSeq(buf[t], 1, cut[t])
  <2>3. p \in Seq(Recs) /\ (p = <<>> \/ p = buf[t])
    BY <2>1, <2>2, ShortPrefix DEF FileOf
  <2> HIDE DEF p
  <2>4. Len(p) <= 1 /\ (Len(p) = 1 => Follows(onDisk[t], p[1]))
    <3>1. CASE p = buf[t]  BY <2>1, <3>1 DEF FileOf
    <3>2. CASE p = <<>>
      <4>1. Len(p) = 0  BY <3>2, EmptyRun
      <4> QED  BY <4>1
    <3> QED  BY <2>3, <3>1, <3>2
  <2>5. Unbroken(onDisk[t])  BY <2>1 DEF FileOf
  <2> QED  BY <1>3, <2>1, <2>3, <2>4, <2>5, JoinRun DEF Found, p
<1> QED  BY <1>2, <1>3 DEF Survivors

\* So is every file that an unsynced rename leaves for a crash to bring back.
LEMMA GapRename ==
  ASSUME IInv, NEW d, NEW synced, RenameOver(d, synced)
  PROVE  PriorOk'
<1>1. ASSUME NEW e \in prior', NEW t \in Tablets  PROVE Unbroken(e[t])
  BY <1>1, GapFound DEF RenameOver
<1> QED  BY <1>1 DEF PriorOk, Unbroken

\* The image of a rewrite has taken the place of the file.
LEMMA GapImage ==
  ASSUME IInv, Over, Told, batch # <<>>, ~IsAppend(Head(batch)),
         NEW t \in Tablets, NEW d, d = Head(batch).image[t], NEW b, b = <<>>
  PROVE  FileOf(t, d, b)'
<1>1. SharedTypeOK /\ OneOp /\ OpsOk /\ Shape /\ ImagesOk  BY DEF IInv, Lined
<1>2. Head(batch) = Op(1) /\ 1 \in 1 .. Count /\ Op(1) \in Ops /\ Len(batch) = 1
      /\ Op(1) = batch[1]
  BY <1>1, HeadFacts
<1>3. d \in Seq(Recs)  BY <1>2, OpsFacts
<1>4. ImageOf(1, d, t)  BY <1>1, <1>2 DEF ImagesOk
<1>5. ASSUME InBatch(t), Steady(t)'  PROVE LastRound(d) = round[t]
  <2>1. Op(1).t = t  BY <1>2, <1>5 DEF InBatch
  <2>2. st[t] = "wait"  BY <1>5, GapAnswer
  <2> QED  BY <1>2, <1>4, <2>1, <2>2 DEF ImageOf
<1>6. ASSUME ~InBatch(t), Appending(t)  PROVE LastRound(d) + 1 = round[t]
  <2>1. PICK k \in 1 .. Count : Op(k).t = t /\ IsAppend(Op(k))  BY <1>6 DEF Appending
  <2>2. k # 1  BY <1>2, <1>6, <2>1 DEF InBatch
  <2>3. st[t] = "wait"  BY <1>1, <2>1 DEF OpsOk
  <2>4. 1 < k  BY <1>1, <2>2, OpFacts
  <2> QED  BY <1>4, <2>1, <2>3, <2>4 DEF ImageOf
<1>7. Unbroken(d) /\ (Steady(t) => LastRound(d) = round[t])  BY <1>4 DEF ImageOf
<1>8. Len(b) = 0  BY EmptyRun
<1>9. Len(b) <= 1 /\ Len(b) # 1  BY <1>8
<1> QED  BY <1>3, <1>5, <1>6, <1>7, <1>9, GapLeft

\* A rewrite, done or failed, leaves no gap.
LEMMA GapRewrite ==
  ASSUME "compact" \notin Errors, IInv, TInv',
         FlushRewrite \/ \E isFull \in BOOLEAN : FlushRewriteFails(isFull)
  PROVE  IInv'
<1>1. Lined /\ PriorOk  BY DEF IInv
<1>2. batch # <<>> /\ ~IsAppend(Head(batch))  BY DEF FlushRewrite, FlushRewriteFails
<1>3. Over /\ Told
  BY <1>1, OkFinishes, ErrFinishes DEF FlushRewrite, FlushRewriteFails
<1>4. CASE /\ onDisk' = Head(batch).image /\ buf' = Nothing
           /\ \E synced \in BOOLEAN : RenameOver(Head(batch).image, synced)
  <2>1. PriorOk'  BY <1>4, GapRename
  <2>2. ASSUME NEW t \in Tablets, NEW d, NEW b, d = onDisk'[t], b = buf'[t]
        PROVE  FileOf(t, d, b)'
    BY <1>2, <1>3, <1>4, <2>2, GapImage, NothingTyped
  <2> QED  BY <1>3, <2>1, <2>2, GapOver
<1>5. CASE /\ UNCHANGED <<onDisk, buf, torn, prior>>
           /\ \A t \in Tablets : InBatch(t) => ~Steady(t)'
  <2>1. PriorOk'  BY <1>1, <1>5 DEF PriorOk, Unbroken
  <2>2. ASSUME NEW t \in Tablets, NEW d, NEW b, d = onDisk'[t], b = buf'[t]
        PROVE  FileOf(t, d, b)'
    BY <1>3, <1>5, <2>2, GapSame
  <2> QED  BY <1>3, <2>1, <2>2, GapOver
<1>6. CASE FlushRewrite  BY <1>4, <1>6 DEF FlushRewrite, RenameOver
<1>7. ASSUME NEW isFull \in BOOLEAN, FlushRewriteFails(isFull)  PROVE IInv'
  <2>1. \A t \in Tablets : InBatch(t) => ~Steady(t)'
    BY <1>1, <1>7, ErrFinishes DEF FlushRewriteFails
  <2> QED  BY <1>4, <1>5, <1>7, <2>1 DEF FlushRewriteFails, RenameOver
<1> QED  BY <1>6, <1>7

\* So does an append that is refused, and a strip that fails.
LEMMA GapRefused ==
  ASSUME IInv, TInv', FlushRefused \/ StripFails
  PROVE  IInv'
<1>1. Lined /\ SharedTypeOK /\ Shape /\ PriorOk /\ full \in BOOLEAN
  BY DEF IInv, Lined, SharedTypeOK
<1>2. batch # <<>> /\ \A i \in 1 .. Len(batch) : IsAppend(batch[i])
  BY <1>1, HeadFacts DEF FlushRefused, StripFails, Shape
<1>3. ~Compacting  BY <1>1, <1>2, AppendsAreTheLoops
<1>4. Over /\ Told /\ \A t \in Tablets : InBatch(t) => ~Steady(t)'
  BY <1>1, <1>3, ErrFinishes DEF FlushRefused, StripFails
<1>5. UNCHANGED <<onDisk, buf, torn, prior>>  BY DEF FlushRefused, StripFails
<1>6. PriorOk'  BY <1>1, <1>5 DEF PriorOk, Unbroken
<1>7. ASSUME NEW t \in Tablets, NEW d, NEW b, d = onDisk'[t], b = buf'[t]
      PROVE  FileOf(t, d, b)'
  BY <1>4, <1>5, <1>7, GapSame
<1> QED  BY <1>4, <1>6, <1>7, GapOver

\* The lines of a batch follow what a tablet has in the file.
LEMMA GapWritten ==
  ASSUME IInv, batch # <<>>, IsAppend(Head(batch)), step = "io",
         NEW i \in 0 .. Len(batch), NEW t \in Tablets, NEW d, d = onDisk[t],
         NEW b, b = Written(i)[t]
  PROVE  /\ Unbroken(d) /\ Len(b) <= 1 /\ (Len(b) = 1 => Follows(d, b[1]))
         /\ ~InBatch(t) => b = buf[t]
         /\ InBatch(t) /\ ~torn =>
              /\ LastRound(d) + 1 = round[t]
              /\ i = Len(batch) => b = <<RoundRecord(t, round[t])>>
<1>1. Lined /\ SharedTypeOK /\ Shape  BY DEF IInv, Lined
<1>2. /\ d \in Seq(Recs) /\ FileOf(t, d, buf[t]) /\ round[t] \in 0 .. MaxRound
  BY GapJoin
<1>3. Len(batch) \in Nat /\ \A j \in 1 .. Len(batch) : IsAppend(batch[j])
  BY <1>1, HeadFacts
<1>4. b = IF ~torn /\ \E j \in 1 .. i : batch[j].t = t
          THEN Append(buf[t], OpOf(t).rec) ELSE buf[t]
  BY DEF Written
<1>5. (\E j \in 1 .. i : batch[j].t = t) => InBatch(t)  BY <1>3 DEF InBatch
<1>6. CASE torn \/ ~InBatch(t)
  <2>1. b = buf[t]  BY <1>4, <1>5, <1>6
  <2> QED  BY <1>2, <1>6, <2>1 DEF FileOf
<1>7. CASE ~torn /\ InBatch(t)
  <2>1. PICK j \in 1 .. Len(batch) :
          j \in 1 .. Count /\ Op(j) = batch[j] /\ OpOf(t) = Op(j) /\ Op(j).t = t
    BY <1>1, <1>7, OpOfFacts
  <2>2. IsAppend(Op(j)) /\ IsAppend(OpOf(t))  BY <1>3, <2>1
  <2>3. Appending(t)  BY <2>1, <2>2 DEF Appending
  <2>4. buf[t] = <<>> /\ LastRound(d) + 1 = round[t] /\ Unbroken(d)
    BY <1>2, <1>7, <2>3 DEF FileOf, Unsynced
  <2>5. OpOf(t).rec = RoundRecord(t, round[t])  BY <1>1, <1>7, <2>2, Waits
  <2>6. Append(buf[t], OpOf(t).rec) = <<RoundRecord(t, round[t])>>
    BY <1>2, <2>4, <2>5, RecordRun
  <2>7. b \in {<<>>, <<RoundRecord(t, round[t])>>}  BY <1>4, <2>4, <2>6
  <2>8. i = Len(batch) => b = <<RoundRecord(t, round[t])>>  BY <1>4, <1>7, <2>1, <2>6
  <2>9. LastRound(d) \in Nat  BY <1>2, LastRoundFacts
  <2>10. Len(b) <= 1 /\ (Len(b) = 1 => Follows(d, b[1]))
    <3>1. CASE b = <<>>
      <4>1. Len(b) = 0  BY <3>1, EmptyRun
      <4> QED  BY <4>1
    <3>2. CASE b = <<RoundRecord(t, round[t])>>
      <4>1. Len(b) = 1 /\ ~b[1].img /\ b[1].n = round[t]  BY <1>2, <3>2, RecordRun
      <4> QED  BY <1>2, <2>4, <2>9, <4>1 DEF Follows
    <3> QED  BY <2>7, <3>1, <3>2
  <2> QED  BY <1>7, <2>4, <2>8, <2>10
<1> QED  BY <1>6, <1>7

\* The step changes nothing that the callers see.
LEMMA GapCallers ==
  ASSUME IInv, TInv', batch' = batch, UNCHANGED caller, prior' = prior,
         \A t \in Tablets : \A d, b : d = onDisk'[t] /\ b = buf'[t] => FileOf(t, d, b)'
  PROVE  IInv'
<1>1. /\ opQueue' = opQueue /\ tails' = tails /\ st' = st /\ round' = round
      /\ halting' = halting /\ stopped' = stopped
  BY DEF caller
<1>2. Count' = Count /\ \A i : Op(i)' = Op(i)  BY <1>1 DEF Count, Op
<1>3. \A t \in Tablets : Steady(t)' = Steady(t)  BY <1>1 DEF Steady
<1>4. OneOp' /\ OpsOk' /\ PrevsOk' /\ TailsOk' /\ PriorOk'
  <2>1. OneOp'  BY <1>1, <1>2 DEF IInv, Lined, OneOp
  <2>2. OpsOk'  BY <1>1, <1>2 DEF IInv, Lined, OpsOk, IsAppend, RoundRecord
  <2>3. PrevsOk'  BY <1>2 DEF IInv, PrevsOk, Unbroken
  <2>4. TailsOk'  BY <1>1, <1>3 DEF IInv, TailsOk, Unbroken, LastRound
  <2>5. PriorOk'  BY DEF IInv, PriorOk, Unbroken
  <2> QED  BY <2>1, <2>2, <2>3, <2>4, <2>5
<1>5. ASSUME NEW i \in 1 .. Count', ~IsAppend(Op(i)'), NEW t \in Tablets,
             NEW s, s = Op(i)'.image[t]
      PROVE  ImageOf(i, s, t)'
  <2>1. ImageOf(i, s, t)  BY <1>2, <1>5 DEF IInv, ImagesOk
  <2> QED  BY <1>1, <1>2, <1>3, <2>1 DEF ImageOf, IsAppend, LastRound, Unbroken
<1>6. FileOk' /\ ImagesOk'  BY <1>5, GapNext
<1> QED  BY <1>4, <1>6 DEF IInv, Lined, TInv

\* An append that goes through, and a sync that fails, leave no gap.
LEMMA GapAppend ==
  ASSUME IInv, TInv', FlushAppend \/ \E isFull \in BOOLEAN : FlushSyncFails(isFull)
  PROVE  IInv'
<1>1. Lined /\ SharedTypeOK /\ FileOk  BY DEF IInv, Lined
<1>2. /\ batch' = batch /\ UNCHANGED caller /\ UNCHANGED <<onDisk, torn, prior>>
  BY DEF FlushAppend, FlushSyncFails
<1>3. \A t \in Tablets : /\ Steady(t)' = Steady(t) /\ InBatch(t)' = InBatch(t)
                         /\ (Appending(t)' = Appending(t)) /\ round'[t] = round[t]
  BY <1>2 DEF Steady, InBatch, Appending, Count, Op, IsAppend, caller
<1>4. CASE FlushAppend
  <2>1. /\ batch # <<>> /\ IsAppend(Head(batch)) /\ step = "io" /\ step' = "sync"
        /\ buf' = Written(Len(batch))
    BY <1>4 DEF FlushAppend
  <2>2. Len(batch) \in 0 .. Len(batch)  BY <1>1, OpFacts
  <2>3. ASSUME NEW t \in Tablets, NEW d, NEW b, d = onDisk'[t], b = buf'[t]
        PROVE  FileOf(t, d, b)'
    <3>1. /\ Unbroken(d) /\ Len(b) <= 1 /\ (Len(b) = 1 => Follows(d, b[1]))
          /\ ~InBatch(t) => b = buf[t]
          /\ InBatch(t) /\ ~torn => b = <<RoundRecord(t, round[t])>>
      BY <1>2, <2>1, <2>2, <2>3, GapWritten
    <3>2. Unsynced(t)' <=> InBatch(t)  BY <1>3, <2>1 DEF Unsynced
    <3>3. ~torn => /\ Steady(t) => LastRound(d) = round[t]
                   /\ Appending(t) => LastRound(d) + 1 = round[t]
                   /\ ~InBatch(t) /\ (Steady(t) \/ Appending(t)) => buf[t] = <<>>
      BY <1>1, <1>2, <2>1, <2>3 DEF FileOk, FileOf, Unsynced
    <3> QED
      BY <1>2, <1>3, <3>1, <3>2, <3>3 DEF FileOf, LastRound, Unbroken, Follows, RoundRecord
  <2> QED  BY <1>2, <2>3, GapCallers
<1>5. CASE \E isFull \in BOOLEAN : FlushSyncFails(isFull)
  <2>1. step = "sync" /\ step' = "strip" /\ buf' = buf  BY <1>5 DEF FlushSyncFails
  <2>2. ASSUME NEW t \in Tablets, NEW d, NEW b, d = onDisk'[t], b = buf'[t]
        PROVE  FileOf(t, d, b)'
    <3>1. FileOf(t, d, b)  BY <1>1, <1>2, <2>1, <2>2 DEF FileOk
    <3>2. Unsynced(t)' <=> Unsynced(t)  BY <1>3, <2>1 DEF Unsynced
    <3> QED
      BY <1>2, <1>3, <3>1, <3>2 DEF FileOf, LastRound, Unbroken, Follows, RoundRecord
  <2> QED  BY <1>2, <2>2, GapCallers
<1> QED  BY <1>4, <1>5

\* An append that stops anywhere in the batch, whatever it leaves, makes no gap.
LEMMA GapAppendFails ==
  ASSUME IInv, TInv', NEW isFull \in BOOLEAN, FlushAppendFails(isFull)
  PROVE  IInv'
<1>1. /\ batch # <<>> /\ step = "io" /\ IsAppend(Head(batch))
      /\ Partly(isFull) /\ DoneErr(isFull) /\ onDisk' = onDisk /\ prior' = prior
  BY DEF FlushAppendFails
<1>2. Lined /\ SharedTypeOK /\ Shape /\ PriorOk  BY DEF IInv, Lined
<1>3. PICK i \in 0 .. Len(batch) - 1, half \in BOOLEAN :
        buf' = Written(i) /\ torn' = (torn \/ half)
  BY <1>1 DEF Partly
<1>4. i \in 0 .. Len(batch)  BY <1>2, OpFacts
<1>5. ~Compacting  BY <1>1, <1>2, HeadFacts, AppendsAreTheLoops
<1>6. Over /\ Told /\ \A t \in Tablets : InBatch(t) => ~Steady(t)'
  BY <1>1, <1>2, <1>5, ErrFinishes
<1>7. PriorOk'  BY <1>1, <1>2 DEF PriorOk, Unbroken
<1>8. ASSUME NEW t \in Tablets, NEW d, NEW b, d = onDisk'[t], b = buf'[t]
      PROVE  FileOf(t, d, b)'
  <2>1. /\ Unbroken(d) /\ Len(b) <= 1 /\ (Len(b) = 1 => Follows(d, b[1]))
        /\ ~InBatch(t) => b = buf[t]
    BY <1>1, <1>3, <1>4, <1>8, GapWritten
  <2>2. d \in Seq(Recs) /\ FileOf(t, d, buf[t])  BY <1>1, <1>8, GapJoin
  <2>3. ~torn' => ~torn  BY <1>2, <1>3 DEF SharedTypeOK
  <2>4. ~InBatch(t) /\ ~torn' =>
             /\ Steady(t) => LastRound(d) = round[t] /\ b = <<>>
             /\ Appending(t) => LastRound(d) + 1 = round[t] /\ b = <<>>
    BY <1>1, <2>1, <2>2, <2>3 DEF FileOf, Unsynced
  <2> QED  BY <1>6, <2>1, <2>2, <2>4, GapLeft
<1> QED  BY <1>6, <1>7, <1>8, GapOver

\* A sync, and the replace that takes a failed batch off the file, make no gap.
LEMMA GapSync ==
  ASSUME IInv, TInv', FlushSync \/ Strip
  PROVE  IInv'
<1>1. Lined /\ SharedTypeOK /\ Shape /\ PriorOk /\ full \in BOOLEAN
  BY DEF IInv, Lined, SharedTypeOK
<1>2. step # "io" /\ torn' = torn /\ buf' = Nothing
  BY DEF FlushSync, Strip, RenameOver
<1>3. \A b : b = <<>> => Len(b) <= 1 /\ Len(b) # 1
  <2>1. \A b : b = <<>> => Len(b) = 0  BY EmptyRun
  <2> QED  BY <2>1
<1>4. CASE FlushSync
  <2>1. DoneOk /\ onDisk' = [t \in Tablets |-> onDisk[t] \o buf[t]] /\ prior' = prior
    BY <1>4 DEF FlushSync
  <2>2. Over /\ Told  BY <1>1, <2>1, OkFinishes
  <2>3. PriorOk'  BY <1>1, <2>1 DEF PriorOk, Unbroken
  <2>4. ASSUME NEW t \in Tablets, NEW d, NEW b, d = onDisk'[t], b = buf'[t]
        PROVE  FileOf(t, d, b)'
    <3>1. /\ d = onDisk[t] \o buf[t] /\ b = <<>> /\ d \in Seq(Recs) /\ Unbroken(d)
          /\ FileOf(t, onDisk[t], buf[t]) /\ round[t] \in 0 .. MaxRound
          /\ buf[t] = <<>> => d = onDisk[t]
          /\ Len(buf[t]) = 1 => LastRound(d) = buf[t][1].n
      BY <1>2, <2>1, <2>4, GapJoin, NothingTyped
    <3>2. ASSUME InBatch(t), ~torn  PROVE LastRound(d) = round[t]
      <4>1. buf[t] = <<RoundRecord(t, round[t])>>
        BY <1>2, <3>1, <3>2 DEF FileOf, Unsynced
      <4>2. Len(buf[t]) = 1 /\ buf[t][1].n = round[t]  BY <3>1, <4>1, RecordRun
      <4> QED  BY <3>1, <4>2
    <3>3. ASSUME ~InBatch(t), ~torn
          PROVE  /\ Steady(t) => LastRound(d) = round[t]
                 /\ Appending(t) => LastRound(d) + 1 = round[t]
      BY <3>1, <3>3 DEF FileOf, Unsynced
    <3> QED  BY <1>2, <1>3, <2>2, <3>1, <3>2, <3>3, GapLeft
  <2> QED  BY <2>2, <2>3, <2>4, GapOver
<1>5. CASE Strip
  <2> DEFINE own(t) == IF InBatch(t) /\ ~torn THEN 1 ELSE 0
             kept(t) == SubSeq(buf[t], 1, Len(buf[t]) - own(t))
             file == [t \in Tablets |-> onDisk[t] \o kept(t)]
  <2>1. /\ DoneErr(full) /\ step = "strip" /\ batch # <<>>
        /\ onDisk' = file /\ \E synced \in BOOLEAN : RenameOver(file, synced)
    BY <1>5 DEF Strip, RenameOver
  <2>2. PriorOk'  BY <2>1, GapRename
  <2>3. ~Compacting  BY <1>1, <2>1, AppendsAreTheLoops DEF Shape
  <2>4. Over /\ Told /\ \A t \in Tablets : InBatch(t) => ~Steady(t)'
    BY <1>1, <2>1, <2>3, ErrFinishes
  <2>5. ASSUME NEW t \in Tablets, NEW d, NEW b, d = onDisk'[t], b = buf'[t]
        PROVE  FileOf(t, d, b)'
    <3>1. /\ d = onDisk[t] \o kept(t) /\ b = <<>>
      BY <1>2, <2>1, <2>5, NothingTyped
    <3>2. /\ onDisk[t] \in Seq(Recs) /\ buf[t] \in Seq(Recs) /\ round[t] \in 0 .. MaxRound
          /\ FileOf(t, onDisk[t], buf[t])
          /\ onDisk[t] \o buf[t] \in Seq(Recs) /\ Unbroken(onDisk[t] \o buf[t])
          /\ buf[t] = <<>> => onDisk[t] \o buf[t] = onDisk[t]
      BY GapJoin
    <3>3. CASE InBatch(t) /\ ~torn
      <4>1. buf[t] = <<RoundRecord(t, round[t])>>
        BY <1>2, <3>2, <3>3 DEF FileOf, Unsynced
      <4>2. Len(buf[t]) = 1  BY <3>2, <4>1, RecordRun
      <4>3. kept(t) = SubSeq(buf[t], 1, 0)  BY <3>3, <4>2
      <4> HIDE DEF kept
      <4>4. kept(t) = <<>>  BY <3>2, <4>3, SubSeqEmpty
      <4>5. d = onDisk[t]  BY <3>1, <3>2, <4>4, ConcatEmptySeq
      <4>6. Unbroken(d) /\ d \in Seq(Recs)  BY <3>2, <4>5 DEF FileOf
      <4> QED  BY <1>3, <2>4, <3>1, <3>3, <4>6, GapLeft
    <3>4. CASE ~(InBatch(t) /\ ~torn)
      <4>1. Len(buf[t]) \in Nat  BY <3>2
      <4>2. own(t) = 0  BY <3>4
      <4> HIDE DEF own
      <4>3. Len(buf[t]) - own(t) = Len(buf[t])  BY <4>1, <4>2
      <4>4. kept(t) = buf[t]  BY <3>2, <4>3, SubSeqFull
      <4> HIDE DEF kept
      <4>5. d = onDisk[t] \o buf[t]  BY <3>1, <4>4
      <4>6. ASSUME ~InBatch(t), ~torn
            PROVE  /\ Steady(t) => LastRound(d) = round[t]
                   /\ Appending(t) => LastRound(d) + 1 = round[t]
        BY <3>2, <4>5, <4>6 DEF FileOf, Unsynced
      <4>7. Unbroken(d) /\ d \in Seq(Recs)  BY <3>2, <4>5
      <4> QED  BY <1>2, <1>3, <2>4, <3>1, <3>4, <4>6, <4>7, GapLeft
    <3> QED  BY <3>3, <3>4
  <2> QED  BY <2>2, <2>4, <2>5, GapOver
<1> QED  BY <1>4, <1>5

\* A caller that enters the queue makes no gap.
LEMMA GapEnters ==
  ASSUME IInv, TInv', NEW t \in Tablets, NEW o, NEW n, NEW tl, NEW q,
         Enters(t, o, n, tl, q)
  PROVE  IInv'
<1>1. /\ Lined /\ SharedTypeOK /\ FileOk /\ PriorOk /\ TailsOk /\ PrevsOk /\ ImagesOk
  BY DEF IInv, Lined
<1>2. /\ Count \in Nat /\ Count' = Count + 1
      /\ \A i \in 1 .. Count : Op(i)' = Op(i) /\ Op(i).t # t
      /\ \A i : i = Count + 1 => Op(i)' = o
      /\ st'[t] = q /\ round'[t] = n /\ tails'[t] = tl
      /\ ~Steady(t)' /\ ~InBatch(t) /\ ~InBatch(t)' /\ round[t] \in Nat
      /\ Appending(t)' => IsAppend(o)
      /\ \A u \in Tablets : u # t =>
           /\ st'[u] = st[u] /\ round'[u] = round[u] /\ tails'[u] = tails[u]
           /\ Steady(u)' = Steady(u)
           /\ InBatch(u)' = InBatch(u) /\ Appending(u)' = Appending(u)
  BY <1>1, EntersFacts
<1>3. /\ onDisk' = onDisk /\ buf' = buf /\ torn' = torn /\ step' = step /\ prior' = prior
      /\ (q = "wait" => LastRound(tl) = n)
      /\ o.t = t /\ o.prev = tails[t]
      /\ IsAppend(o) => q = "wait" /\ Steady(t) /\ n = round[t] + 1
      /\ ~IsAppend(o) => o.image = tails'
  BY DEF Enters
<1>4. Unbroken(tl)
  <2>1. CASE ~IsAppend(o)  BY <2>1 DEF Enters
  <2>2. CASE IsAppend(o)
    <3> DEFINE r == RoundRecord(t, n)
    <3>1. /\ tl = Append(tails[t], r) /\ n = round[t] + 1 /\ Steady(t)
          /\ n \in 0 .. MaxRound
      BY <2>2 DEF Enters
    <3>2. r \in Recs /\ r.n = n /\ ~r.img  BY <3>1, RecordRun
    <3> HIDE DEF r
    <3>3. LastRound(tails[t]) = round[t] /\ tails[t] \in Seq(Recs) /\ Unbroken(tails[t])
      BY <1>1, <3>1 DEF TailsOk, SharedTypeOK
    <3>4. Follows(tails[t], r)  BY <1>2, <3>1, <3>2, <3>3 DEF Follows
    <3> QED  BY <3>1, <3>2, <3>3, <3>4, AppendRun
  <2> QED  BY <2>1, <2>2
<1>5. OneOp' /\ OpsOk'  BY <1>1, EntersOps
<1>6. \A i \in 1 .. Count' : i \in 1 .. Count \/ i = Count + 1  BY <1>2
<1>7. PrevsOk' /\ PriorOk'
  <2>1. Unbroken(tails[t])  BY <1>1 DEF TailsOk
  <2>2. ASSUME NEW i \in 1 .. Count'  PROVE Unbroken(Op(i)'.prev)
    BY <1>1, <1>2, <1>3, <1>6, <2>1 DEF PrevsOk
  <2> QED  BY <1>1, <1>3, <2>2 DEF PrevsOk, PriorOk, Unbroken
<1>8. ASSUME NEW u \in Tablets, NEW d, NEW b, d = onDisk'[u], b = buf'[u]
      PROVE  FileOf(u, d, b)'
  <2>1. FileOf(u, d, b)  BY <1>1, <1>3, <1>8 DEF FileOk
  <2>2. CASE u # t
    <3>1. Unsynced(u)' <=> Unsynced(u)  BY <1>2, <1>3, <2>2 DEF Unsynced
    <3> QED
      BY <1>2, <1>3, <2>1, <2>2, <3>1 DEF FileOf, LastRound, Unbroken, Follows, RoundRecord
  <2>3. CASE u = t
    <3>1. ~Unsynced(t)' /\ ~Unsynced(t)  BY <1>2 DEF Unsynced
    <3>2. Appending(t)' /\ ~torn => LastRound(d) + 1 = n /\ b = <<>>
      BY <1>2, <1>3, <2>1, <2>3, <3>1 DEF FileOf
    <3>3. Unbroken(d) /\ Len(b) <= 1 /\ (Len(b) = 1 => Follows(d, b[1]))
      BY <2>1 DEF FileOf
    <3> QED
      BY <1>2, <1>3, <2>3, <3>1, <3>2, <3>3
      DEF FileOf, LastRound, Unbroken, Follows, RoundRecord
  <2> QED  BY <2>2, <2>3
<1>9. ASSUME NEW u \in Tablets
      PROVE  /\ Unbroken(tails'[u])
             /\ Steady(u)' \/ st'[u] = "wait" => LastRound(tails'[u]) = round'[u]
  <2>1. CASE u # t  BY <1>1, <1>2, <2>1 DEF TailsOk
  <2>2. CASE u = t  BY <1>2, <1>3, <1>4, <2>2
  <2> QED  BY <2>1, <2>2
<1>10. TailsOk'  BY <1>9 DEF TailsOk, Unbroken, LastRound
<1>11. ASSUME NEW i \in 1 .. Count', ~IsAppend(Op(i)'), NEW u \in Tablets,
              NEW s, s = Op(i)'.image[u]
       PROVE  ImageOf(i, s, u)'
  <2>1. CASE i \in 1 .. Count
    <3>1. ImageOf(i, s, u)  BY <1>1, <1>2, <1>11, <2>1 DEF ImagesOk
    <3>2. CASE u # t
      <4>1. ASSUME NEW k \in 1 .. Count', Op(k)'.t = u
            PROVE  k \in 1 .. Count /\ Op(k)' = Op(k)
        BY <1>2, <1>3, <1>6, <3>2, <4>1
      <4>2. ASSUME NEW k \in 1 .. Count', Op(k)'.t = u, st'[u] = "wait"
            PROVE  /\ k <= i => LastRound(s) = round'[u]
                   /\ i < k /\ IsAppend(Op(k)') => LastRound(s) + 1 = round'[u]
        BY <1>2, <3>1, <3>2, <4>1, <4>2 DEF ImageOf
      <4>3. Unbroken(s) /\ (Steady(u)' => LastRound(s) = round'[u])
        BY <1>2, <3>1, <3>2 DEF ImageOf
      <4> QED  BY <4>2, <4>3 DEF ImageOf, IsAppend, LastRound, Unbroken
    <3>3. CASE u = t
      <4>1. ASSUME NEW k \in 1 .. Count', Op(k)'.t = u
            PROVE  k = Count + 1 /\ Op(k)' = o /\ ~(k <= i)
        BY <1>2, <1>6, <2>1, <3>3, <4>1
      <4>2. IsAppend(o) => LastRound(s) + 1 = n  BY <1>3, <3>1, <3>3 DEF ImageOf
      <4>3. Unbroken(s)  BY <3>1 DEF ImageOf
      <4>4. ASSUME NEW k \in 1 .. Count', Op(k)'.t = u, st'[u] = "wait"
            PROVE  /\ k <= i => LastRound(s) = round'[u]
                   /\ i < k /\ IsAppend(Op(k)') => LastRound(s) + 1 = round'[u]
        BY <1>2, <3>3, <4>1, <4>2, <4>4
      <4> QED
        BY <1>2, <3>3, <4>3, <4>4 DEF ImageOf, IsAppend, LastRound, Unbroken
    <3> QED  BY <3>2, <3>3
  <2>2. CASE i = Count + 1
    <3>1. s = tails'[u]  BY <1>2, <1>3, <1>11, <2>2
    <3>2. ASSUME NEW k \in 1 .. Count', Op(k)'.t = u, st'[u] = "wait"
          PROVE  /\ k <= i => LastRound(s) = round'[u]
                 /\ i < k /\ IsAppend(Op(k)') => LastRound(s) + 1 = round'[u]
      <4>1. ~(i < k)  BY <1>2, <2>2
      <4> QED  BY <1>9, <3>1, <3>2, <4>1
    <3> QED  BY <1>9, <3>1, <3>2 DEF ImageOf, IsAppend, LastRound, Unbroken
  <2> QED  BY <1>6, <2>1, <2>2
<1>12. FileOk' /\ ImagesOk'  BY <1>8, <1>11, GapNext
<1> QED  BY <1>5, <1>7, <1>10, <1>12 DEF IInv, Lined, TInv

\* A crash and the reopening make no gap.
LEMMA GapCrash ==
  ASSUME IInv, TInv', NodeCrash
  PROVE  IInv'
<1>1. PICK d \in Survivors : Reopen(d)  BY DEF NodeCrash
<1>2. /\ onDisk' = d /\ buf' = Nothing /\ torn' = FALSE /\ tails' = d /\ prior' = {}
      /\ opQueue' = <<>> /\ batch' = <<>> /\ step' = "io"
      /\ round' = [t \in Tablets |-> LastRound(d[t])]
      /\ st' = [t \in Tablets |-> IF st[t] \in {"gone", "forget"} THEN "gone" ELSE "idle"]
  BY <1>1 DEF Reopen, LastRound
<1>3. Len(<<>>) = 0 /\ 1 .. 0 = {}  BY EmptyRun
<1>4. Count' = 0 /\ 1 .. Count' = {}  BY <1>2, <1>3 DEF Count
<1>5. \A t \in Tablets : st'[t] \in {"idle", "gone"} /\ Unbroken(d[t])
                         /\ round'[t] = LastRound(d[t])
  BY <1>2, GapFound
<1>6. OneOp' /\ OpsOk' /\ PrevsOk' /\ ImagesOk' /\ PriorOk'
  BY <1>2, <1>4, <1>5 DEF OneOp, OpsOk, PrevsOk, ImagesOk, PriorOk
<1>7. TailsOk'  BY <1>2, <1>5 DEF TailsOk, Unbroken, LastRound
<1>8. ASSUME NEW t \in Tablets, NEW e, NEW b, e = onDisk'[t], b = buf'[t]
      PROVE  FileOf(t, e, b)'
  <2>1. ~Appending(t)' /\ ~Unsynced(t)'  BY <1>2, <1>4 DEF Appending, Unsynced
  <2>2. b = <<>> /\ Unbroken(e) /\ LastRound(e) = round'[t]
    BY <1>2, <1>5, <1>8, NothingTyped
  <2>3. Len(b) = 0  BY <1>3, <2>2
  <2>4. Len(b) <= 1 /\ Len(b) # 1  BY <2>3
  <2> QED  BY <2>1, <2>2, <2>4 DEF FileOf, LastRound, Unbroken, Follows, RoundRecord
<1>9. FileOk'  BY <1>8, GapNext
<1> QED  BY <1>6, <1>7, <1>9 DEF IInv, Lined, TInv

\* A tablet that halts, and the leader that takes a batch, make no gap.
LEMMA GapTake ==
  ASSUME IInv, TInv', Take \/ \E t \in Tablets : Halt(t)
  PROVE  IInv'
<1>1. /\ SharedTypeOK /\ OneOp /\ OpsOk /\ FileOk /\ PriorOk /\ TailsOk /\ PrevsOk
      /\ ImagesOk
  BY DEF IInv, Lined
<1>2. /\ onDisk' = onDisk /\ buf' = buf /\ torn' = torn /\ prior' = prior
      /\ tails' = tails /\ round' = round /\ st' = st /\ stopped' = stopped
      /\ halting \subseteq halting'
  BY DEF Take, Halt, io
<1>3. /\ Count' = Count /\ (\A i \in 1 .. Count : Op(i)' = Op(i))
      /\ \A t \in Tablets : Unsynced(t)' <=> Unsynced(t)
  <2>1. CASE Take
    <3>1. batch = <<>> /\ step' = "io"  BY <2>1 DEF Take
    <3>2. PICK k \in Prefixes : /\ batch' = SubSeq(opQueue, 1, k)
                                /\ opQueue' = SubSeq(opQueue, k + 1, Len(opQueue))
      BY <2>1 DEF Take
    <3>3. k \in 1 .. Len(opQueue)  BY <3>2 DEF Prefixes
    <3>4. Count' = Count /\ \A i \in 1 .. Count : Op(i)' = Op(i)
      BY <1>1, <3>1, <3>2, <3>3, TakeOps
    <3>5. \A t \in Tablets : ~Unsynced(t)' /\ ~Unsynced(t)
      BY <3>1, EmptyRun DEF Unsynced, InBatch
    <3> QED  BY <3>4, <3>5
  <2>2. CASE \E t \in Tablets : Halt(t)
    <3>1. batch' = batch /\ opQueue' = opQueue /\ step' = step  BY <2>2 DEF Halt, io
    <3>2. Count' = Count /\ \A i : Op(i)' = Op(i)  BY <3>1 DEF Count, Op
    <3>3. \A t \in Tablets : Unsynced(t)' <=> Unsynced(t)  BY <3>1 DEF Unsynced, InBatch
    <3> QED  BY <3>2, <3>3
  <2> QED  BY <2>1, <2>2
<1>4. ASSUME NEW t \in Tablets
      PROVE  (Steady(t)' => Steady(t)) /\ (Appending(t)' => Appending(t))
  <2>1. Steady(t)' => Steady(t)  BY <1>2 DEF Steady
  <2>2. Appending(t)' => \E i \in 1 .. Count' : Op(i)'.t = t /\ IsAppend(Op(i)')
    BY DEF Appending, IsAppend
  <2> QED  BY <1>3, <2>1, <2>2 DEF Appending
<1>5. OneOp'  BY <1>1, <1>2, <1>3 DEF OneOp
<1>6. ASSUME NEW i \in 1 .. Count'
      PROVE  LET p == Op(i)'
             IN /\ Unbroken(p.prev)
                /\ IsAppend(p) => st[p.t] = "wait" /\ p.rec = RoundRecord(p.t, round[p.t])
                /\ ~IsAppend(p) /\ st[p.t] = "wait" => p.n = round[p.t]
  BY <1>1, <1>3 DEF OpsOk, PrevsOk
<1>7. OpsOk' /\ PrevsOk'
  BY <1>2, <1>6 DEF OpsOk, PrevsOk, Unbroken, IsAppend, RoundRecord
<1>8. PriorOk'  BY <1>1, <1>2 DEF PriorOk, Unbroken
<1>9. ASSUME NEW t \in Tablets, NEW d, NEW b, d = onDisk'[t], b = buf'[t]
      PROVE  FileOf(t, d, b)'
  <2>1. FileOf(t, d, b)  BY <1>1, <1>2, <1>9 DEF FileOk
  <2> QED  BY <1>2, <1>3, <1>4, <2>1 DEF FileOf, LastRound, Unbroken, Follows, RoundRecord
<1>10. TailsOk'  BY <1>1, <1>2, <1>4 DEF TailsOk, Unbroken, LastRound
<1>11. ASSUME NEW i \in 1 .. Count', ~IsAppend(Op(i)'), NEW t \in Tablets,
              NEW s, s = Op(i)'.image[t]
       PROVE  ImageOf(i, s, t)'
  <2>1. ImageOf(i, s, t)  BY <1>1, <1>3, <1>11 DEF ImagesOk
  <2>2. ASSUME NEW k \in 1 .. Count', Op(k)'.t = t, st'[t] = "wait"
        PROVE  /\ k <= i => LastRound(s) = round'[t]
               /\ i < k /\ IsAppend(Op(k)') => LastRound(s) + 1 = round'[t]
    BY <1>2, <1>3, <2>1, <2>2 DEF ImageOf
  <2> QED  BY <1>2, <1>4, <2>1, <2>2 DEF ImageOf, IsAppend, LastRound, Unbroken
<1>12. FileOk' /\ ImagesOk'  BY <1>9, <1>11, GapNext
<1> QED  BY <1>5, <1>7, <1>8, <1>10, <1>12 DEF IInv, Lined, TInv

\* A new file has no gap.
LEMMA InitGap ==
  ASSUME SharedInit
  PROVE  IInv
<1>1. Lined /\ Shape  BY InitAcked DEF AInv, BatchOk
<1>2. Len(<<>>) = 0 /\ 1 .. 0 = {} /\ LastRound(<<>>) = 0 /\ Unbroken(<<>>)  BY EmptyRun
<1>3. Count = 0 /\ 1 .. Count = {}  BY <1>2 DEF SharedInit, Count
<1>4. \A t \in Tablets : /\ onDisk[t] = <<>> /\ buf[t] = <<>> /\ tails[t] = <<>>
                         /\ round[t] = 0
  BY NothingTyped DEF SharedInit
<1>5. \A s : s = <<>> => LastRound(s) = 0 /\ Len(s) = 0 /\ Unbroken(s)  BY <1>2
<1>6. PrevsOk /\ ImagesOk /\ PriorOk  BY <1>3 DEF PrevsOk, ImagesOk, PriorOk, SharedInit
<1>7. TailsOk
  <2>1. ASSUME NEW t \in Tablets
        PROVE  Unbroken(tails[t]) /\ LastRound(tails[t]) = round[t]
    BY <1>4, <1>5
  <2> QED  BY <2>1 DEF TailsOk
<1>8. ASSUME NEW t \in Tablets, NEW d, NEW b, d = onDisk[t], b = buf[t]
      PROVE  FileOf(t, d, b)
  <2>1. Unbroken(d) /\ Len(b) = 0 /\ b = <<>> /\ LastRound(d) = round[t]
    BY <1>4, <1>5, <1>8
  <2>2. ~Unsynced(t) /\ ~Appending(t)  BY <1>3 DEF Unsynced, Appending, SharedInit
  <2>3. Len(b) <= 1 /\ Len(b) # 1  BY <2>1
  <2> QED  BY <2>1, <2>2, <2>3 DEF FileOf
<1>9. FileOk  BY <1>8 DEF FileOk
<1> QED  BY <1>1, <1>6, <1>7, <1>9 DEF IInv

\* No step makes a gap.
LEMMA StepGap ==
  ASSUME "compact" \notin Errors, IInv, [SharedNext]_sharedVars
  PROVE  IInv'
<1>1. TInv  BY DEF IInv, Lined, TInv
<1>2. TInv'  BY <1>1, StepTyped
<1>3. CASE UNCHANGED sharedVars
  <2>1. /\ UNCHANGED <<onDisk, buf, torn, prior, batch, step>> /\ UNCHANGED caller
    BY <1>3 DEF sharedVars, io
  <2>2. ASSUME NEW t \in Tablets, NEW d, NEW b, d = onDisk'[t], b = buf'[t]
        PROVE  FileOf(t, d, b)'
    <3>1. FileOf(t, d, b)  BY <2>1, <2>2 DEF IInv, FileOk
    <3>2. /\ Steady(t)' = Steady(t) /\ Unsynced(t)' = Unsynced(t)
          /\ Appending(t)' = Appending(t) /\ round'[t] = round[t]
      BY <2>1 DEF Steady, Unsynced, InBatch, Appending, Count, Op, IsAppend, caller
    <3> QED  BY <2>1, <3>1, <3>2 DEF FileOf, LastRound, Unbroken, Follows, RoundRecord
  <2> QED  BY <1>2, <2>1, <2>2, GapCallers
<1>4. ASSUME NEW t \in Tablets, AppendTagged(t) \/ CompactGroup(t) \/ Forget(t)
      PROVE  IInv'
  <2>1. PICK o, n, tl, q : Enters(t, o, n, tl, q)
    BY <1>1, <1>4, CallerEnters DEF TInv
  <2> QED  BY <1>2, <2>1, GapEnters
<1>5. CASE SharedNext
  BY <1>2, <1>4, <1>5, GapTake, GapRewrite, GapRefused, GapAppend, GapAppendFails,
     GapSync, GapCrash
  DEF SharedNext, Drive
<1> QED  BY <1>3, <1>5

\* If only a full disk fails the rewrite of a live apply task, the shared log
\* (shared_wal.rs: submit, drive, flush, open) keeps the invariant for every
\* number of tablets: whatever half a line is left, whichever rename a crash
\* undoes and whichever tasks have panicked, a tablet that may append has a
\* cached tail that reaches its last round, and an image in the queue has of
\* every tablet just what is not appended behind it.
THEOREM SharedInvariant ==
  ASSUME "compact" \notin Errors
  PROVE  SharedSpec => []IInv
<1>1. SharedInit => IInv  BY InitGap
<1>2. IInv /\ [SharedNext]_sharedVars => IInv'  BY StepGap
<1> QED  BY <1>1, <1>2, PTL DEF SharedSpec

\* Whatever a crash cuts off the file, what open finds of each tablet is a run
\* of rounds without a gap, an image at most in front: also when the tablets go
\* on appending behind half a line that another one's failed append has left.
THEOREM RecoveryFindsNoGap ==
  ASSUME "compact" \notin Errors
  PROVE  SharedSpec => []NoGap
<1>1. IInv => NoGap  BY GapFound DEF NoGap
<1>2. SharedSpec => []IInv  BY SharedInvariant
<1> QED  BY <1>1, <1>2, PTL
=============================================================================
