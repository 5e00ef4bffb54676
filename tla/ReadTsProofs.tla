---------------------------- MODULE ReadTsProofs ----------------------------
(***************************************************************************)
(* Proofs about ReadTs: along the committed log timestamps increase, and   *)
(* no committed write is at or below a timestamp its key was served at,    *)
(* for any set of voters, any keys, any wall clocks and any bounds.        *)
(*                                                                         *)
(* The invariant has three layers: what replication guarantees (one leader *)
(* per term, logs that agree where they share a term, a committed entry is *)
(* in the log of every later leader), the clock (above every entry of the  *)
(* log, or the engine's mark or a pending image is), and the reads (none   *)
(* is served above what is committed).                                     *)
(***************************************************************************)
EXTENDS ReadTs, FiniteSetTheorems, WellFoundedInduction, TLAPS

Kinds == {"NoOp", "Write", "Miss", "Ceiling"}
Entries == [term : Nat, kind : Kinds, key : Keys \cup {NoKey}, ts : Nat, floor : Nat]
Caches == [current : [Keys -> Nat], previous : [Keys -> Nat], low : Nat]
Reads == [at : {"idle"}] \cup [at : {"mint"}, key : Keys]
         \cup [at : {"wait", "serve"}, key : Keys, ts : Nat]

RaftTypes ==
  /\ term \in [Node -> Nat] /\ leads \in [Node -> BOOLEAN]
  /\ log \in [Node -> Seq(Entries)] /\ logBase \in [Node -> Nat]
  /\ committed \in Seq(Entries) /\ committedIn \in Seq(Nat)
  /\ Len(committedIn) = Len(committed)
  /\ applied \in [Node -> Nat]
  /\ image \in [Node -> Nat \cup {NoImage}] /\ mark \in [Node -> Nat]

ClockTypes ==
  /\ hlc \in [Node -> Nat] /\ lastTs \in [Node -> Nat] /\ lastCeil \in [Node -> Nat]
  /\ absorbed \in [Node -> Nat \cup {NoTerm}]
  /\ ceiling \in [Node -> Nat] /\ cache \in [Node -> Caches]
  /\ rd \in [Node -> Reads] /\ served \in [Keys -> Nat]
  /\ ops \in Nat /\ cuts \in Nat /\ processCrashes \in Nat

-----------------------------------------------------------------------------
(* Replication.                                                            *)

\* The first i entries of l are those of m.
Upto(l, m, i) == i <= Len(l) /\ i <= Len(m) /\ \A j \in 1 .. i : l[j] = m[j]

\* A majority has reached the term of any node.
TermsHeld == \A p \in Node : Majority({q \in Node : term[q] >= term[p]})

OneLeader ==
  \A n, m \in Node : leads[n] /\ leads[m] /\ term[n] = term[m] => n = m

\* Terms do not fall along a log, nor exceed the node's own.
EntryTerms == \A n \in Node : \A j \in 1 .. Len(log[n]) :
  /\ log[n][j].term <= term[n]
  /\ \A i \in 1 .. j : log[n][i].term <= log[n][j].term

\* A leader has every entry of its term that anyone has, and what precedes it.
LeaderHas == \A n, m \in Node : leads[n] =>
  \A i \in 1 .. Len(log[m]) : log[m][i].term = term[n] => Upto(log[m], log[n], i)

\* Two logs that both have entries of a term agree up to the earlier of them.
Matching == \A n, m \in Node : \A i \in 1 .. Len(log[m]), j \in 1 .. Len(log[n]) :
  i <= j /\ log[m][i].term = log[n][j].term => Upto(log[m], log[n], i)

\* The term in which an entry was committed is that of a committed entry at or
\* after it.
CommitTerms == \A i \in 1 .. Len(committed) :
  /\ committed[i].term <= committedIn[i]
  /\ \E j \in i .. Len(committed) : committed[j].term = committedIn[i]

CommitQuorum(i) ==
  {q \in Node : term[q] >= committedIn[i] /\ Upto(committed, log[q], i)}

CommittedHeld == \A i \in 1 .. Len(committed) : Majority(CommitQuorum(i))

\* A leader of the committing term, or of a later one, has the entry.
Complete == \A n \in Node : leads[n] =>
  \A i \in 1 .. Len(committed) :
    committedIn[i] <= term[n] => Upto(committed, log[n], i)

\* So does any log with an entry of a later term.
Carried == \A n \in Node : \A j \in 1 .. Len(log[n]) :
  \A i \in 1 .. Len(committed) :
    committedIn[i] < log[n][j].term => Upto(committed, log[n], i)

\* The first i entries of n's log are committed, and n's term is late enough to
\* know.
Sure(n, i) ==
  i = 0 \/ (i \in 1 .. Len(committed) /\ committedIn[i] <= term[n]
              /\ Upto(committed, log[n], i))

\* Only such entries are applied or compacted away.
SureOnly == \A n \in Node : Sure(n, applied[n]) /\ Sure(n, logBase[n])

\* A leader's engine is not behind its log.
LeaderFed == \A n \in Node : leads[n] => ~Behind(n)

Replicated ==
  /\ TermsHeld /\ OneLeader /\ EntryTerms /\ LeaderHas /\ Matching
  /\ CommitTerms /\ CommittedHeld /\ Complete /\ Carried /\ SureOnly /\ LeaderFed

-----------------------------------------------------------------------------
(* Timestamps.                                                             *)

Rising(l) == \A j \in 1 .. Len(l) : l[j].ts > 0 =>
  \A i \in 1 .. j - 1 : l[i].ts < l[j].ts

LogsRise == \A n \in Node : Rising(log[n])

\* The clock, or the last timestamp proposed, is at or above every entry that is
\* in the log; for the compacted ones only once the engine holds them.
ClockAbove == \A n \in Node : \A i \in 1 .. Len(log[n]) :
  i > logBase[n] \/ ~Behind(n) => log[n][i].ts <= hlc[n] \/ log[n][i].ts <= lastTs[n]

\* The engine's mark speaks for the compacted entries.
MarkAbove == \A n \in Node : ~Behind(n) =>
  \A i \in 1 .. logBase[n] : log[n][i].ts <= mark[n]

\* An image that waits to be merged does, where the engine cannot yet.
ImageAbove == \A n \in Node : image[n] # NoImage =>
  /\ Behind(n)
  /\ \A i \in 1 .. logBase[n] : log[n][i].ts <= image[n]

Timed == LogsRise /\ ClockAbove /\ MarkAbove /\ ImageAbove

-----------------------------------------------------------------------------
(* Reads.                                                                  *)

\* Some committed entry has a timestamp of ts or more.
Reached(ts) == ts = 0 \/ \E i \in 1 .. Len(committed) : ts <= committed[i].ts

ReadsReached ==
  /\ \A n \in Node :
       /\ Reached(mark[n]) /\ Reached(ceiling[n])
       /\ image[n] # NoImage => Reached(image[n])
       /\ rd[n].at = "serve" => Reached(rd[n].ts)
  /\ \A k \in Keys : Reached(served[k])

\* A write that is not above a read its key was served at ...
Low(e) == e.kind = "Write" /\ e.ts <= e.floor

\* ... is in a log that has left the committed one at or before it.
LowIsLost == \A n \in Node : \A j \in 1 .. Len(log[n]) : Low(log[n][j]) =>
  \E i \in 1 .. j : i <= Len(committed) /\ committed[i].term # log[n][i].term

TsInv ==
  RaftTypes /\ ClockTypes /\ Replicated /\ Timed /\ ReadsReached /\ LowIsLost
-----------------------------------------------------------------------------
(* Numbers, majorities and logs.                                           *)

\* A set of natural numbers that is not empty has a least element.
LEMMA LeastNumber ==
  ASSUME NEW T, T \subseteq Nat, T # {}
  PROVE  \E x \in T : \A y \in T : x <= y
<1> DEFINE R == OpToRel(<, Nat)
<1>1. IsWellFoundedOn(R, Nat)  BY NatLessThanWellFounded
<1>2. \A x, y \in Nat : y < x => <<y, x>> \in R  BY DEF OpToRel
<1> HIDE DEF R
<1>3. PICK x \in T : \A y \in T : ~(<<y, x>> \in R)  BY <1>1, WFMin
<1>4. \A y \in T : ~(y < x)  BY <1>2, <1>3
<1> QED  BY <1>3, <1>4

\* Numbers given to the elements of a finite set have an upper bound.
LEMMA FiniteBound ==
  ASSUME NEW D, IsFiniteSet(D), NEW f \in [D -> Nat]
  PROVE  \E b \in Nat : \A x \in D : f[x] <= b
<1> DEFINE N == Cardinality(D)
<1>1. N \in Nat /\ ExistsBijection(1 .. N, D)  BY FS_CardinalityType
<1> HIDE DEF N
<1>2. PICK g \in Bijection(1 .. N, D) : TRUE  BY <1>1 DEF ExistsBijection
<1>3. g \in [1 .. N -> D] /\ \A x \in D : \E i \in 1 .. N : g[i] = x
  BY <1>2 DEF Bijection, Injection, Surjection
<1> DEFINE Bounds(j, b) == \A i \in 1 .. j : f[g[i]] <= b
           T == {j \in 0 .. N : \A b \in Nat : ~Bounds(j, b)}
<1>4. T = {}
  <2>1. SUFFICES ASSUME T # {} PROVE FALSE  OBVIOUS
  <2>2. PICK j \in T : \A i \in T : j <= i
    <3>1. T \subseteq Nat  BY <1>1
    <3> HIDE DEF T
    <3> QED  BY <3>1, <2>1, LeastNumber
  <2>3. j \in 0 .. N /\ \A b \in Nat : ~Bounds(j, b)  BY <2>2
  <2>4. j # 0
    <3>1. 0 \in Nat /\ Bounds(0, 0)  OBVIOUS
    <3> QED  BY <3>1, <2>3
  <2>5. j - 1 \in 0 .. N /\ j - 1 \notin T
    <3>1. j - 1 \in 0 .. N /\ ~(j <= j - 1)  BY <2>3, <2>4, <1>1
    <3> HIDE DEF T
    <3> QED  BY <3>1, <2>2
  <2>6. PICK b \in Nat : Bounds(j - 1, b)  BY <2>5
  <2>7. f[g[j]] \in Nat
    <3>1. j \in 1 .. N  BY <2>3, <2>4, <1>1
    <3> QED  BY <3>1, <1>3
  <2>8. PICK c \in Nat : c >= b /\ c >= f[g[j]]
    <3> HIDE DEF T
    <3>1. CASE f[g[j]] >= b
      <4>1. f[g[j]] >= f[g[j]]  BY <2>7
      <4> QED  BY <4>1, <3>1, <2>7
    <3>2. CASE b >= f[g[j]]
      <4>1. b >= b  OBVIOUS
      <4> QED  BY <4>1, <3>2
    <3> QED  BY <3>1, <3>2, <2>7
  <2>9. ASSUME NEW i \in 1 .. j PROVE f[g[i]] <= c
    <3>1. i \in 1 .. N  BY <2>3, <1>1
    <3>4. f[g[i]] \in Nat  BY <3>1, <1>3
    <3>2. CASE i = j  BY <3>2, <2>8
    <3>3. CASE i # j
      <4>1. i \in 1 .. j - 1  BY <3>3, <2>3, <1>1
      <4>2. f[g[i]] <= b  BY <4>1, <2>6
      <4> HIDE DEF T
      <4> QED  BY <4>2, <3>4, <2>8
    <3> QED  BY <3>2, <3>3
  <2> QED  BY <2>3, <2>8, <2>9
<1>5. PICK b \in Nat : Bounds(N, b)
  <2>1. N \in 0 .. N  BY <1>1
  <2> QED  BY <1>4, <2>1
<1> QED  BY <1>3, <1>5

\* Highest is the greatest element, or 0, where there is a bound.
LEMMA HighestFacts ==
  ASSUME NEW S \in SUBSET Nat, NEW b \in Nat, \A y \in S : y <= b
  PROVE  /\ Highest(S) \in Nat
         /\ Highest(S) \in S \/ Highest(S) = 0
         /\ \A y \in S : y <= Highest(S)
<1> DEFINE Z == S \cup {0}
           U == {u \in Nat : \A y \in Z : y <= u}
<1>1. Z \subseteq Nat /\ 0 \in Z  OBVIOUS
<1>2. b \in U  OBVIOUS
<1>3. PICK u \in U : \A v \in U : u <= v
  <2>1. U \subseteq Nat /\ U # {}  BY <1>2
  <2> HIDE DEF U
  <2> QED  BY <2>1, LeastNumber
<1>4. u \in Nat /\ \A y \in Z : y <= u  BY <1>3
<1>5. u \in Z
  <2>1. SUFFICES ASSUME u \notin Z PROVE FALSE  OBVIOUS
  <2>2. u # 0  BY <2>1, <1>1
  <2>3. u - 1 \in Nat  BY <2>2, <1>4
  <2>4. \A y \in Z : y <= u - 1
    <3> SUFFICES ASSUME NEW y \in Z PROVE y <= u - 1  OBVIOUS
    <3>1. y \in Nat /\ y <= u /\ y # u  BY <1>1, <1>4, <2>1
    <3> QED  BY <3>1, <1>4
  <2>5. u - 1 \in U  BY <2>3, <2>4
  <2>6. u <= u - 1  BY <1>3, <2>5
  <2> QED  BY <2>6, <1>4
<1>6. \E x \in Z : \A y \in Z : x >= y
  <2> HIDE DEF Z
  <2> QED  BY <1>1, <1>4, <1>5
<1>7. Highest(S) \in Z /\ \A y \in Z : Highest(S) >= y
  BY <1>6 DEF Highest
<1> HIDE DEF Z
<1>8. Highest(S) \in Nat  BY <1>7, <1>1
<1>9. \A y \in Z : y <= Highest(S)  BY <1>1, <1>7, <1>8
<1> QED  BY <1>7, <1>8, <1>9 DEF Z

\* A larger set of voters is a majority too.
LEMMA MajorityGrows ==
  ASSUME NEW Q \in SUBSET Node, NEW R \in SUBSET Node, Q \subseteq R, Majority(Q)
  PROVE  Majority(R)
<1>1. IsFiniteSet(Node)  BY ReadTsAssumption
<1>2. IsFiniteSet(R)  BY <1>1, FS_Subset
<1>3. Q \in SUBSET R  OBVIOUS
<1>4. Cardinality(Q) <= Cardinality(R) /\ IsFiniteSet(Q)  BY <1>2, <1>3, FS_Subset
<1>5. /\ Cardinality(Q) \in Nat /\ Cardinality(R) \in Nat
      /\ Cardinality(Node) \in Nat
  BY <1>1, <1>2, <1>4, FS_CardinalityType
<1> QED  BY <1>4, <1>5 DEF Majority

\* Two majorities have a voter in common.
LEMMA MajoritiesShare ==
  ASSUME NEW Q \in SUBSET Node, NEW R \in SUBSET Node, Majority(Q), Majority(R)
  PROVE  \E q \in Node : q \in Q /\ q \in R
<1>1. IsFiniteSet(Node)  BY ReadTsAssumption
<1>2. /\ Cardinality(Q) \in Nat /\ Cardinality(R) \in Nat
      /\ Cardinality(Node) \in Nat
  BY <1>1, FS_Subset, FS_CardinalityType
<1>3. Cardinality(Q) + Cardinality(R) > Cardinality(Node)
  BY <1>2 DEF Majority
<1>4. Q \cap R # {}  BY <1>1, <1>3, FS_MajoritiesIntersect
<1> QED  BY <1>4

\* All voters together are a majority.
LEMMA AllAreMajority == Majority(Node)
<1>1. IsFiniteSet(Node) /\ Node # {}  BY ReadTsAssumption
<1>2. Cardinality(Node) \in Nat /\ Cardinality(Node) # 0
  BY <1>1, FS_CardinalityType, FS_EmptySet
<1> QED  BY <1>2 DEF Majority

\* Two logs agree up to an index exactly if it is at most Agreed.
LEMMA AgreedFacts ==
  ASSUME NEW S, NEW l \in Seq(S), NEW m \in Seq(S)
  PROVE  /\ Agreed(l, m) \in Nat
         /\ \A i \in Nat : i <= Agreed(l, m) <=> Upto(l, m, i)
<1> DEFINE A == {i \in 1 .. Len(l) : i <= Len(m) /\ SubSeq(l, 1, i) = SubSeq(m, 1, i)}
           k == Highest(A)
<1>1. Len(l) \in Nat /\ Len(m) \in Nat  OBVIOUS
<1>2. ASSUME NEW i \in 1 .. Len(l), i <= Len(m)
      PROVE  SubSeq(l, 1, i) = SubSeq(m, 1, i) <=> \A j \in 1 .. i : l[j] = m[j]
  <2>1. /\ Len(SubSeq(l, 1, i)) = i /\ Len(SubSeq(m, 1, i)) = i
        /\ SubSeq(l, 1, i) \in Seq(S) /\ SubSeq(m, 1, i) \in Seq(S)
    BY <1>1, <1>2
  <2>2. \A j \in 1 .. i : SubSeq(l, 1, i)[j] = l[j] /\ SubSeq(m, 1, i)[j] = m[j]
    BY <1>1, <1>2
  <2> QED  BY <2>1, <2>2
<1>3. \A i \in Nat : i \in A <=> i # 0 /\ Upto(l, m, i)
  BY <1>1, <1>2 DEF Upto
<1>4. A \in SUBSET Nat /\ \A y \in A : y <= Len(l)  BY <1>1
<1> HIDE DEF A
<1>5. k \in Nat /\ (k \in A \/ k = 0) /\ \A y \in A : y <= k
  BY <1>1, <1>4, HighestFacts
<1> HIDE DEF k
<1>6. \A i \in Nat : i <= k <=> Upto(l, m, i)
  <2> SUFFICES ASSUME NEW i \in Nat PROVE i <= k <=> Upto(l, m, i)  OBVIOUS
  <2>1. ASSUME i <= k PROVE Upto(l, m, i)
    <3>1. Upto(l, m, k)  BY <1>1, <1>3, <1>5 DEF Upto
    <3> QED  BY <3>1, <2>1, <1>1, <1>5 DEF Upto
  <2>2. ASSUME Upto(l, m, i) PROVE i <= k
    <3>1. i = 0 \/ i \in A  BY <2>2, <1>3
    <3> QED  BY <3>1, <1>5
  <2> QED  BY <2>1, <2>2
<1>7. A = 1 .. k
  <2>1. \A i \in Nat : i \in A <=> i # 0 /\ i <= k  BY <1>3, <1>6
  <2>2. \A i \in Nat : i \in 1 .. k <=> i # 0 /\ i <= k  BY <1>5
  <2>3. \A i : i \in A => i \in Nat  BY <1>4
  <2>4. \A i : i \in 1 .. k => i \in Nat  OBVIOUS
  <2>5. \A i : i \in A <=> i \in 1 .. k  BY <2>1, <2>2, <2>3, <2>4
  <2> QED  BY <2>5
<1>8. Cardinality(1 .. k) = k
  <2>1. Cardinality(1 .. k) = IF 1 > k THEN 0 ELSE k - 1 + 1
    BY <1>5, FS_Interval
  <2> QED  BY <2>1, <1>5
<1>9. Agreed(l, m) = k  BY <1>7, <1>8 DEF Agreed, A
<1> QED  BY <1>5, <1>6, <1>9

\* The fields of the entries of a log.
LEMMA EntryTypes ==
  ASSUME NEW l \in Seq(Entries)
  PROVE  /\ Len(l) \in Nat
         /\ \A i \in 1 .. Len(l) :
              /\ l[i] \in Entries /\ l[i].term \in Nat /\ l[i].ts \in Nat
              /\ l[i].floor \in Nat
<1>1. Len(l) \in Nat /\ \A i \in 1 .. Len(l) : l[i] \in Entries  OBVIOUS
<1>2. \A x \in Entries : x.term \in Nat /\ x.ts \in Nat /\ x.floor \in Nat
  BY DEF Entries
<1> QED  BY <1>1, <1>2

\* The timestamps of a log have an upper bound.
LEMMA LogBounded ==
  ASSUME NEW l \in Seq(Entries)
  PROVE  \E b \in Nat : \A i \in 1 .. Len(l) : l[i].ts <= b
<1> DEFINE f == [i \in 1 .. Len(l) |-> l[i].ts]
<1>1. Len(l) \in Nat /\ \A i \in 1 .. Len(l) : l[i].ts \in Nat  BY EntryTypes
<1>2. f \in [1 .. Len(l) -> Nat]  BY <1>1
<1>3. IsFiniteSet(1 .. Len(l))  BY <1>1, FS_Interval
<1> HIDE DEF f
<1>4. PICK b \in Nat : \A i \in 1 .. Len(l) : f[i] <= b  BY <1>2, <1>3, FiniteBound
<1> QED  BY <1>4 DEF f
-----------------------------------------------------------------------------
(* Replication is preserved.                                               *)

\* Agreement on a prefix is an equivalence, and holds of every shorter one.
LEMMA UptoFacts ==
  ASSUME NEW l \in Seq(Entries), NEW m \in Seq(Entries), NEW i \in Nat, Upto(l, m, i)
  PROVE  /\ Upto(m, l, i)
         /\ \A j \in 0 .. i : Upto(l, m, j)
         /\ \A o \in Seq(Entries) : Upto(m, o, i) => Upto(l, o, i)
         /\ \A j \in 1 .. i : j \in 1 .. Len(l) /\ j \in 1 .. Len(m) /\ l[j] = m[j]
<1>1. Len(l) \in Nat /\ Len(m) \in Nat  OBVIOUS
<1>2. i <= Len(l) /\ i <= Len(m) /\ \A j \in 1 .. i : l[j] = m[j]  BY DEF Upto
<1>3. Upto(m, l, i)  BY <1>2 DEF Upto
<1>4. \A j \in 0 .. i : Upto(l, m, j)  BY <1>1, <1>2 DEF Upto
<1>5. \A o \in Seq(Entries) : Upto(m, o, i) => Upto(l, o, i)  BY <1>2 DEF Upto
<1>6. \A j \in 1 .. i : j \in 1 .. Len(l) /\ j \in 1 .. Len(m) /\ l[j] = m[j]
  BY <1>1, <1>2
<1> QED  BY <1>3, <1>4, <1>5, <1>6

\* The log of n gets one entry.
Extends(n, e) == log' = [log EXCEPT ![n] = Append(@, e)]

\* What was in a log stays, and agreement stays.
LEMMA ExtendsFacts ==
  ASSUME RaftTypes, NEW n \in Node, NEW e \in Entries, Extends(n, e)
  PROVE  /\ log' \in [Node -> Seq(Entries)]
         /\ Len(log'[n]) = Len(log[n]) + 1 /\ log'[n][Len(log[n]) + 1] = e
         /\ \A q \in Node :
              /\ q # n => log'[q] = log[q]
              /\ Len(log[q]) \in Nat /\ Len(log[q]) <= Len(log'[q])
              /\ Len(log'[q]) \in Nat
              /\ \A i \in 1 .. Len(log[q]) : log'[q][i] = log[q][i]
              /\ \A i \in 1 .. Len(log'[q]) :
                   i \in 1 .. Len(log[q]) \/ (q = n /\ i = Len(log[n]) + 1)
         /\ \A q \in Node, i \in Nat, l \in Seq(Entries) :
              Upto(l, log[q], i) => Upto(l, log'[q], i)
<1>1. log \in [Node -> Seq(Entries)] /\ log[n] \in Seq(Entries)  BY DEF RaftTypes
<1>2. /\ Append(log[n], e) \in Seq(Entries)
      /\ Len(Append(log[n], e)) = Len(log[n]) + 1
      /\ Append(log[n], e)[Len(log[n]) + 1] = e
      /\ \A i \in 1 .. Len(log[n]) : Append(log[n], e)[i] = log[n][i]
  BY <1>1
<1>3. log'[n] = Append(log[n], e) /\ \A q \in Node : q # n => log'[q] = log[q]
  BY <1>1 DEF Extends
<1>4. log' \in [Node -> Seq(Entries)]  BY <1>1, <1>2 DEF Extends
<1>5. ASSUME NEW q \in Node
      PROVE  /\ Len(log[q]) \in Nat /\ Len(log[q]) <= Len(log'[q])
             /\ Len(log'[q]) \in Nat
             /\ \A i \in 1 .. Len(log[q]) : log'[q][i] = log[q][i]
             /\ \A i \in 1 .. Len(log'[q]) :
                  i \in 1 .. Len(log[q]) \/ (q = n /\ i = Len(log[n]) + 1)
  <2>1. Len(log[q]) \in Nat /\ Len(log'[q]) \in Nat  BY <1>1, <1>4
  <2>2. CASE q = n  BY <2>1, <2>2, <1>2, <1>3
  <2>3. CASE q # n  BY <2>1, <2>3, <1>3
  <2> QED  BY <2>2, <2>3
<1>6. ASSUME NEW q \in Node, NEW i \in Nat, NEW l \in Seq(Entries), Upto(l, log[q], i)
      PROVE  Upto(l, log'[q], i)
  <2>1. /\ Len(log[q]) \in Nat /\ Len(log'[q]) \in Nat /\ Len(log[q]) <= Len(log'[q])
        /\ \A j \in 1 .. Len(log[q]) : log'[q][j] = log[q][j]
    BY <1>5
  <2> QED  BY <2>1, <1>6 DEF Upto
<1> QED  BY <1>2, <1>3, <1>4, <1>5, <1>6

\* A leader appends an entry of its term.
LEMMA AppendReplicated ==
  ASSUME RaftTypes, Replicated, NEW n \in Node, NEW e \in Entries, Extends(n, e),
         leads[n], e.term = term[n],
         UNCHANGED <<term, leads, logBase, committed, committedIn, applied>>
  PROVE  Replicated'
<1> USE DEF Replicated
<1>1. /\ term \in [Node -> Nat] /\ log \in [Node -> Seq(Entries)]
      /\ committed \in Seq(Entries) /\ Len(committed) \in Nat
      /\ committedIn \in Seq(Nat) /\ Len(committedIn) = Len(committed)
  BY DEF RaftTypes
<1>2. /\ log' \in [Node -> Seq(Entries)]
      /\ Len(log'[n]) = Len(log[n]) + 1 /\ log'[n][Len(log[n]) + 1] = e
      /\ \A q \in Node :
           /\ q # n => log'[q] = log[q]
           /\ Len(log[q]) \in Nat /\ Len(log[q]) <= Len(log'[q])
           /\ Len(log'[q]) \in Nat
           /\ \A i \in 1 .. Len(log[q]) : log'[q][i] = log[q][i]
           /\ \A i \in 1 .. Len(log'[q]) :
                i \in 1 .. Len(log[q]) \/ (q = n /\ i = Len(log[n]) + 1)
  BY ExtendsFacts
<1>3. \A q \in Node, i \in Nat, l \in Seq(Entries) :
        Upto(l, log[q], i) => Upto(l, log'[q], i)
  BY ExtendsFacts
<1>4. \A p, q \in Node, i \in Nat :
        Upto(log[p], log[q], i) => Upto(log'[p], log'[q], i)
  <2> SUFFICES ASSUME NEW p \in Node, NEW q \in Node, NEW i \in Nat,
                      Upto(log[p], log[q], i)
               PROVE  Upto(log'[p], log'[q], i)
    OBVIOUS
  <2>1. log[p] \in Seq(Entries) /\ log[q] \in Seq(Entries)
        /\ log'[p] \in Seq(Entries) /\ log'[q] \in Seq(Entries)  BY <1>1, <1>2
  <2>2. Upto(log[p], log'[q], i)  BY <2>1, <1>3
  <2>3. Upto(log'[q], log[p], i)  BY <2>1, <2>2, UptoFacts
  <2>4. Upto(log'[q], log'[p], i)  BY <2>1, <2>3, <1>3
  <2> QED  BY <2>1, <2>4, UptoFacts
<1>5. \A q \in Node, i \in 1 .. Len(committed) :
        Upto(committed, log[q], i) => Upto(committed, log'[q], i)
  <2>1. \A i \in 1 .. Len(committed) : i \in Nat  BY <1>1
  <2> QED  BY <2>1, <1>1, <1>3
<1>6. TermsHeld' /\ OneLeader' /\ CommitTerms' /\ LeaderFed'
  BY DEF TermsHeld, OneLeader, CommitTerms, LeaderFed, Behind, Majority
<1>7. EntryTerms'
  <2> SUFFICES ASSUME NEW q \in Node, NEW j \in 1 .. Len(log'[q])
               PROVE  /\ log'[q][j].term <= term[q]
                      /\ \A i \in 1 .. j : log'[q][i].term <= log'[q][j].term
    BY DEF EntryTerms
  <2>1. CASE j \in 1 .. Len(log[q])
    <3>1. /\ log[q][j].term <= term[q]
          /\ \A i \in 1 .. j : log[q][i].term <= log[q][j].term
      BY <2>1 DEF EntryTerms
    <3>2. \A i \in 1 .. j : i \in 1 .. Len(log[q])  BY <2>1, <1>2
    <3>3. log'[q][j] = log[q][j] /\ \A i \in 1 .. j : log'[q][i] = log[q][i]
      BY <2>1, <3>2, <1>2
    <3> QED  BY <3>1, <3>3
  <2>2. CASE q = n /\ j = Len(log[n]) + 1
    <3>1. log'[q][j].term = term[n] /\ term[n] \in Nat  BY <2>2, <1>1, <1>2
    <3>2. \A i \in 1 .. Len(log[n]) : log'[n][i].term <= term[n]
      BY <1>2 DEF EntryTerms
    <3>3. \A i \in 1 .. j : i \in 1 .. Len(log[n]) \/ i = j  BY <2>2, <1>2
    <3> QED  BY <3>1, <3>2, <3>3, <2>2
  <2> QED  BY <2>1, <2>2, <1>2
<1>8. LeaderHas'
  <2> SUFFICES ASSUME NEW p \in Node, NEW q \in Node, leads[p],
                      NEW i \in 1 .. Len(log'[q]), log'[q][i].term = term[p]
               PROVE  Upto(log'[q], log'[p], i)
    BY DEF LeaderHas
  <2>1. CASE i \in 1 .. Len(log[q])
    <3>1. log[q][i].term = term[p]  BY <2>1, <1>2
    <3>2. Upto(log[q], log[p], i)  BY <3>1, <2>1 DEF LeaderHas
    <3>3. i \in Nat  BY <2>1
    <3> QED  BY <3>2, <3>3, <1>4
  <2>2. CASE q = n /\ i = Len(log[n]) + 1
    <3>1. p = n  BY <2>2, <1>2 DEF OneLeader
    <3> QED  BY <3>1, <2>2, <1>2 DEF Upto
  <2> QED  BY <2>1, <2>2, <1>2
<1>9. Matching'
  <2> SUFFICES ASSUME NEW p \in Node, NEW q \in Node, NEW i \in 1 .. Len(log'[q]),
                      NEW j \in 1 .. Len(log'[p]), i <= j,
                      log'[q][i].term = log'[p][j].term
               PROVE  Upto(log'[q], log'[p], i)
    BY DEF Matching
  <2>1. CASE i \in 1 .. Len(log[q]) /\ j \in 1 .. Len(log[p])
    <3>1. log[q][i].term = log[p][j].term  BY <2>1, <1>2
    <3>2. Upto(log[q], log[p], i)  BY <3>1, <2>1 DEF Matching
    <3>3. i \in Nat  BY <2>1
    <3> QED  BY <3>2, <3>3, <1>4
  <2>2. CASE p = n /\ j = Len(log[n]) + 1 /\ i \in 1 .. Len(log[q])
    <3>1. log[q][i].term = term[n]  BY <2>2, <1>2
    <3>2. Upto(log[q], log[n], i)  BY <3>1, <2>2 DEF LeaderHas
    <3> QED  BY <3>2, <2>2, <1>4
  <2>3. CASE q = n /\ i = Len(log[n]) + 1
    <3>1. CASE p = n  BY <3>1, <2>3, <1>2 DEF Upto
    <3>2. CASE p # n
      <4>1. j \in 1 .. Len(log[p]) /\ log[p][j].term = term[n]
        BY <3>2, <2>3, <1>2
      <4>2. Upto(log[p], log[n], j)  BY <4>1 DEF LeaderHas
      <4>3. j <= Len(log[n])  BY <4>2 DEF Upto
      <4> QED  BY <4>3, <2>3, <1>2
    <3> QED  BY <3>1, <3>2
  <2> QED  BY <2>1, <2>2, <2>3, <1>2
<1>10. CommittedHeld'
  <2> SUFFICES ASSUME NEW i \in 1 .. Len(committed)
               PROVE  Majority(CommitQuorum(i)')
    BY DEF CommittedHeld, Majority
  <2>1. Majority(CommitQuorum(i))  BY DEF CommittedHeld
  <2>2. CommitQuorum(i) \subseteq CommitQuorum(i)'  BY <1>5 DEF CommitQuorum
  <2>3. CommitQuorum(i) \in SUBSET Node /\ CommitQuorum(i)' \in SUBSET Node
    BY DEF CommitQuorum
  <2> QED  BY <2>1, <2>2, <2>3, MajorityGrows
<1>11. Complete'  BY <1>5 DEF Complete
<1>12. Carried'
  <2> SUFFICES ASSUME NEW q \in Node, NEW j \in 1 .. Len(log'[q]),
                      NEW i \in 1 .. Len(committed), committedIn[i] < log'[q][j].term
               PROVE  Upto(committed, log'[q], i)
    BY DEF Carried
  <2>1. CASE j \in 1 .. Len(log[q])  BY <2>1, <1>2, <1>5 DEF Carried
  <2>2. CASE q = n /\ j = Len(log[n]) + 1
    <3>1. committedIn[i] \in Nat /\ term[n] \in Nat  BY <1>1
    <3>2. committedIn[i] <= term[n]  BY <2>2, <1>2, <3>1
    <3> QED  BY <3>2, <2>2, <1>5 DEF Complete
  <2> QED  BY <2>1, <2>2, <1>2
<1>13. SureOnly'  BY <1>5 DEF SureOnly, Sure
<1> QED  BY <1>6, <1>7, <1>8, <1>9, <1>10, <1>11, <1>12, <1>13

\* The log of a candidate that a majority finds complete enough has everything
\* that is committed.
LEMMA ElectedComplete ==
  ASSUME RaftTypes, Replicated, NEW n \in Node, NEW Q \in SUBSET Node, Majority(Q),
         \A q \in Q : UpToDate(log[n], log[q]),
         NEW i \in 1 .. Len(committed)
  PROVE  Upto(committed, log[n], i)
<1> USE DEF Replicated
<1>1. /\ log \in [Node -> Seq(Entries)] /\ committed \in Seq(Entries)
      /\ Len(committed) \in Nat /\ i \in Nat
      /\ committedIn \in Seq(Nat) /\ Len(committedIn) = Len(committed)
  BY DEF RaftTypes
<1>2. PICK j \in i .. Len(committed) : committed[j].term = committedIn[i]
  BY DEF CommitTerms
<1>3. j \in 1 .. Len(committed) /\ j \in Nat /\ i <= j  BY <1>1
<1>4. PICK q \in Node : q \in Q /\ q \in CommitQuorum(j)
  <2>1. Majority(CommitQuorum(j))  BY <1>3 DEF CommittedHeld
  <2>2. CommitQuorum(j) \in SUBSET Node  BY DEF CommitQuorum
  <2> QED  BY <2>1, <2>2, MajoritiesShare
<1> DEFINE l == log[n]
           m == log[q]
<1>5. /\ l \in Seq(Entries) /\ m \in Seq(Entries)
      /\ Len(l) \in Nat /\ Len(m) \in Nat
  BY <1>1
<1>6. Upto(committed, m, j) /\ UpToDate(l, m)  BY <1>4 DEF CommitQuorum
<1>7. j \in 1 .. Len(m) /\ m[j] = committed[j] /\ Len(m) \in 1 .. Len(m)
  BY <1>1, <1>3, <1>5, <1>6 DEF Upto
<1>8. /\ committedIn[i] \in Nat
      /\ \A x \in 1 .. Len(l) : l[x].term \in Nat
      /\ \A x \in 1 .. Len(m) : m[x].term \in Nat
  <2>1. committedIn[i] \in Nat  BY <1>1
  <2> QED  BY <2>1, <1>5, EntryTypes
<1>9. LastTerm(m) = m[Len(m)].term /\ LastTerm(m) \in Nat /\ committedIn[i] <= LastTerm(m)
  <2>1. m # <<>>  BY <1>5, <1>7
  <2>2. m[j].term <= m[Len(m)].term  BY <1>7 DEF EntryTerms
  <2> QED  BY <2>1, <2>2, <1>2, <1>7, <1>8 DEF LastTerm
<1>10. LastTerm(l) \in Nat /\ (LastTerm(l) > 0 => Len(l) \in 1 .. Len(l)
                                                   /\ LastTerm(l) = l[Len(l)].term)
  <2>1. CASE l = <<>>  BY <2>1 DEF LastTerm
  <2>2. CASE l # <<>>
    <3>1. Len(l) \in 1 .. Len(l)  BY <2>2, <1>5
    <3> QED  BY <3>1, <2>2, <1>8 DEF LastTerm
  <2> QED  BY <2>1, <2>2
<1>11. CASE LastTerm(l) > LastTerm(m)
  <2>1. Len(l) \in 1 .. Len(l) /\ committedIn[i] < l[Len(l)].term
    BY <1>11, <1>8, <1>9, <1>10
  <2> QED  BY <2>1 DEF Carried
<1>12. CASE LastTerm(l) = LastTerm(m) /\ Len(l) >= Len(m)
  <2>1. Len(l) \in 1 .. Len(l) /\ l[Len(l)].term = m[Len(m)].term
    <3>1. l # <<>>  BY <1>12, <1>5, <1>7
    <3>2. Len(l) \in 1 .. Len(l)  BY <3>1, <1>5
    <3> QED  BY <3>1, <3>2, <1>12, <1>9 DEF LastTerm
  <2>2. Upto(m, l, Len(m))  BY <2>1, <1>5, <1>7, <1>12 DEF Matching
  <2>3. i \in 0 .. Len(m) /\ i \in 0 .. j  BY <1>1, <1>3, <1>7
  <2>4. Upto(m, l, i)  BY <2>2, <2>3, <1>5, UptoFacts
  <2>5. Upto(committed, m, i)  BY <2>3, <1>1, <1>3, <1>5, <1>6, UptoFacts
  <2> HIDE DEF l, m
  <2>6. Upto(committed, l, i)  BY <2>4, <2>5, <1>1, <1>5, UptoFacts
  <2> QED  BY <2>6 DEF l
<1> QED  BY <1>6, <1>11, <1>12 DEF UpToDate

\* No node is in a term above those of every majority.
LEMMA TermIsNew ==
  ASSUME RaftTypes, TermsHeld, NEW Q \in SUBSET Node, Majority(Q), NEW t \in Nat,
         \A q \in Q : term[q] < t
  PROVE  \A p \in Node : term[p] < t
<1> SUFFICES ASSUME NEW p \in Node PROVE term[p] < t  OBVIOUS
<1> DEFINE R == {q \in Node : term[q] >= term[p]}
<1>1. Majority(R) /\ R \in SUBSET Node  BY DEF TermsHeld
<1>2. PICK q \in Node : q \in Q /\ q \in R
  <2> HIDE DEF R
  <2> QED  BY <1>1, MajoritiesShare
<1>3. term[q] \in Nat /\ term[p] \in Nat  BY DEF RaftTypes
<1> QED  BY <1>2, <1>3

\* An election: n leads a term that is new, and appends its first entry.
LEMMA ElectReplicated ==
  ASSUME RaftTypes, Replicated, NEW n \in Node, NEW Q \in SUBSET Node, NEW t \in Nat,
         n \in Q, Majority(Q), ~Behind(n),
         \A q \in Q : UpToDate(log[n], log[q]) /\ term[q] < t,
         term' = [m \in Node |-> IF m \in Q THEN t ELSE term[m]],
         leads' = [m \in Node |-> IF m \in Q THEN m = n ELSE leads[m]],
         Extends(n, NoOp(t)),
         UNCHANGED <<logBase, committed, committedIn, applied>>
  PROVE  Replicated' /\ \A p \in Node : term[p] <= term'[p]
<1> USE DEF Replicated
<1> DEFINE e == NoOp(t)
<1>1. /\ term \in [Node -> Nat] /\ log \in [Node -> Seq(Entries)]
      /\ committed \in Seq(Entries) /\ Len(committed) \in Nat
      /\ committedIn \in Seq(Nat) /\ Len(committedIn) = Len(committed)
  BY DEF RaftTypes
<1>0. e \in Entries /\ e.term = t  BY DEF NoOp, Entries, Kinds
<1> HIDE DEF e
<1>2. /\ log' \in [Node -> Seq(Entries)]
      /\ Len(log'[n]) = Len(log[n]) + 1 /\ log'[n][Len(log[n]) + 1] = e
      /\ \A q \in Node :
           /\ q # n => log'[q] = log[q]
           /\ Len(log[q]) \in Nat /\ Len(log[q]) <= Len(log'[q])
           /\ Len(log'[q]) \in Nat
           /\ \A i \in 1 .. Len(log[q]) : log'[q][i] = log[q][i]
           /\ \A i \in 1 .. Len(log'[q]) :
                i \in 1 .. Len(log[q]) \/ (q = n /\ i = Len(log[n]) + 1)
  BY <1>0, ExtendsFacts DEF e
<1>3. \A q \in Node, i \in Nat, l \in Seq(Entries) :
        Upto(l, log[q], i) => Upto(l, log'[q], i)
  BY <1>0, ExtendsFacts DEF e
<1>4. \A p, q \in Node, i \in Nat :
        Upto(log[p], log[q], i) => Upto(log'[p], log'[q], i)
  <2> SUFFICES ASSUME NEW p \in Node, NEW q \in Node, NEW i \in Nat,
                      Upto(log[p], log[q], i)
               PROVE  Upto(log'[p], log'[q], i)
    OBVIOUS
  <2>1. log[p] \in Seq(Entries) /\ log[q] \in Seq(Entries)
        /\ log'[p] \in Seq(Entries) /\ log'[q] \in Seq(Entries)  BY <1>1, <1>2
  <2>2. Upto(log[p], log'[q], i)  BY <2>1, <1>3
  <2>3. Upto(log'[q], log[p], i)  BY <2>1, <2>2, UptoFacts
  <2>4. Upto(log'[q], log'[p], i)  BY <2>1, <2>3, <1>3
  <2> QED  BY <2>1, <2>4, UptoFacts
<1>5. \A q \in Node, i \in 1 .. Len(committed) :
        Upto(committed, log[q], i) => Upto(committed, log'[q], i)
  <2>1. \A i \in 1 .. Len(committed) : i \in Nat  BY <1>1
  <2> QED  BY <2>1, <1>1, <1>3
<1>6. \A p \in Node : term[p] < t  BY TermIsNew
<1>7. \A p \in Node : /\ term'[p] = IF p \in Q THEN t ELSE term[p]
                      /\ leads'[p] <=> IF p \in Q THEN p = n ELSE leads[p]
                      /\ term[p] \in Nat /\ term'[p] \in Nat
                      /\ term[p] <= term'[p] /\ term'[p] <= t
  <2> SUFFICES ASSUME NEW p \in Node
               PROVE  /\ term'[p] = IF p \in Q THEN t ELSE term[p]
                      /\ leads'[p] <=> IF p \in Q THEN p = n ELSE leads[p]
                      /\ term[p] \in Nat /\ term'[p] \in Nat
                      /\ term[p] <= term'[p] /\ term'[p] <= t
    OBVIOUS
  <2>1. term'[p] = IF p \in Q THEN t ELSE term[p]  OBVIOUS
  <2>2. leads'[p] = IF p \in Q THEN p = n ELSE leads[p]  OBVIOUS
  <2>3. term[p] \in Nat /\ term[p] < t  BY <1>1, <1>6
  <2>4. /\ term'[p] \in Nat /\ term[p] <= term'[p] /\ term'[p] <= t
    BY <2>1, <2>3
  <2> QED  BY <2>1, <2>2, <2>3, <2>4
<1>8. \A q \in Node : \A i \in 1 .. Len(log[q]) :
        log[q][i].term \in Nat /\ log[q][i].term < t
  <2>1. \A q \in Node : \A i \in 1 .. Len(log[q]) : log[q][i].term \in Nat
    BY <1>1, EntryTypes
  <2> QED  BY <2>1, <1>6, <1>7 DEF EntryTerms
<1>9. \A i \in 1 .. Len(committed) : Upto(committed, log[n], i)
  BY ElectedComplete
<1>10. TermsHeld'
  <2> SUFFICES ASSUME NEW p \in Node
               PROVE  Majority({q \in Node : term'[q] >= term'[p]})
    BY DEF TermsHeld, Majority
  <2>1. CASE p \in Q
    <3>1. Q \subseteq {q \in Node : term'[q] >= term'[p]}  BY <2>1, <1>7
    <3> QED  BY <3>1, MajorityGrows
  <2>2. CASE p \notin Q
    <3>1. {q \in Node : term[q] >= term[p]} \subseteq {q \in Node : term'[q] >= term'[p]}
      <4> SUFFICES ASSUME NEW q \in Node, term[q] >= term[p]
                   PROVE  term'[q] >= term'[p]
        OBVIOUS
      <4>1. term'[p] = term[p]  BY <2>2, <1>7
      <4> QED  BY <4>1, <1>7
    <3>2. Majority({q \in Node : term[q] >= term[p]})  BY DEF TermsHeld
    <3> QED  BY <3>1, <3>2, MajorityGrows
  <2> QED  BY <2>1, <2>2
<1>11. OneLeader'
  <2> SUFFICES ASSUME NEW p \in Node, NEW q \in Node, leads'[p], leads'[q],
                      term'[p] = term'[q]
               PROVE  p = q
    BY DEF OneLeader
  <2>1. CASE p \in Q /\ q \in Q  BY <2>1, <1>7
  <2>2. CASE p \notin Q /\ q \notin Q  BY <2>2, <1>7 DEF OneLeader
  <2>3. CASE p \in Q /\ q \notin Q
    <3>1. term'[p] = t /\ term'[q] = term[q] /\ term[q] < t  BY <2>3, <1>6, <1>7
    <3> QED  BY <3>1, <1>7
  <2>4. CASE p \notin Q /\ q \in Q
    <3>1. term'[q] = t /\ term'[p] = term[p] /\ term[p] < t  BY <2>4, <1>6, <1>7
    <3> QED  BY <3>1, <1>7
  <2> QED  BY <2>1, <2>2, <2>3, <2>4
<1>12. EntryTerms'
  <2> SUFFICES ASSUME NEW q \in Node, NEW j \in 1 .. Len(log'[q])
               PROVE  /\ log'[q][j].term <= term'[q]
                      /\ \A i \in 1 .. j : log'[q][i].term <= log'[q][j].term
    BY DEF EntryTerms
  <2>1. CASE j \in 1 .. Len(log[q])
    <3>1. log'[q][j] = log[q][j] /\ \A i \in 1 .. j : log'[q][i] = log[q][i]
      BY <2>1, <1>2
    <3>2. log[q][j].term <= term[q]  BY <2>1 DEF EntryTerms
    <3>3. log[q][j].term <= term'[q]  BY <2>1, <3>2, <1>7, <1>8
    <3> QED  BY <3>1, <3>3, <2>1 DEF EntryTerms
  <2>2. CASE q = n /\ j = Len(log[n]) + 1
    <3>1. log'[q][j].term = t /\ term'[q] = t  BY <2>2, <1>0, <1>2, <1>7
    <3>2. \A i \in 1 .. Len(log[n]) : log'[n][i].term <= t
      <4>1. \A i \in 1 .. Len(log[n]) : log'[n][i] = log[n][i]  BY <1>2
      <4>2. \A i \in 1 .. Len(log[n]) : log[n][i].term <= t  BY <1>8
      <4> QED  BY <4>1, <4>2
    <3>3. \A i \in 1 .. j : i \in 1 .. Len(log[n]) \/ i = j  BY <2>2, <1>2
    <3> QED  BY <3>1, <3>2, <3>3, <2>2
  <2> QED  BY <2>1, <2>2, <1>2
<1>13. LeaderHas'
  <2> SUFFICES ASSUME NEW p \in Node, NEW q \in Node, leads'[p],
                      NEW i \in 1 .. Len(log'[q]), log'[q][i].term = term'[p]
               PROVE  Upto(log'[q], log'[p], i)
    BY DEF LeaderHas
  <2>1. CASE i \in 1 .. Len(log[q])
    <3>1. log[q][i].term = term'[p] /\ log[q][i].term < t  BY <2>1, <1>2, <1>8
    <3>2. p \notin Q  BY <3>1, <2>1, <1>7, <1>8
    <3>3. leads[p] /\ term[p] = term'[p]  BY <3>2, <1>7
    <3>4. Upto(log[q], log[p], i)  BY <3>1, <3>3, <2>1 DEF LeaderHas
    <3>5. i \in Nat  BY <2>1
    <3> QED  BY <3>4, <3>5, <1>4
  <2>2. CASE q = n /\ i = Len(log[n]) + 1
    <3>1. term'[p] = t  BY <2>2, <1>0, <1>2
    <3>2. p \in Q  BY <3>1, <1>6, <1>7
    <3>3. p = n  BY <3>2, <1>7
    <3> QED  BY <3>3, <2>2, <1>2 DEF Upto
  <2> QED  BY <2>1, <2>2, <1>2
<1>14. Matching'
  <2> SUFFICES ASSUME NEW p \in Node, NEW q \in Node, NEW i \in 1 .. Len(log'[q]),
                      NEW j \in 1 .. Len(log'[p]), i <= j,
                      log'[q][i].term = log'[p][j].term
               PROVE  Upto(log'[q], log'[p], i)
    BY DEF Matching
  <2>1. CASE i \in 1 .. Len(log[q]) /\ j \in 1 .. Len(log[p])
    <3>1. log[q][i].term = log[p][j].term  BY <2>1, <1>2
    <3>2. Upto(log[q], log[p], i)  BY <3>1, <2>1 DEF Matching
    <3>3. i \in Nat  BY <2>1
    <3> QED  BY <3>2, <3>3, <1>4
  <2>2. CASE p = n /\ j = Len(log[n]) + 1 /\ i \in 1 .. Len(log[q])
    <3>1. log[q][i].term = t  BY <2>2, <1>0, <1>2
    <3> QED  BY <3>1, <2>2, <1>8
  <2>3. CASE q = n /\ i = Len(log[n]) + 1 /\ j \in 1 .. Len(log[p])
    <3>1. log[p][j].term = t  BY <2>3, <1>0, <1>2
    <3> QED  BY <3>1, <2>3, <1>8
  <2>4. CASE q = n /\ i = Len(log[n]) + 1 /\ p = n /\ j = Len(log[n]) + 1
    BY <2>4, <1>2 DEF Upto
  <2> QED  BY <2>1, <2>2, <2>3, <2>4, <1>2
<1>15. CommittedHeld'
  <2> SUFFICES ASSUME NEW i \in 1 .. Len(committed)
               PROVE  Majority(CommitQuorum(i)')
    BY DEF CommittedHeld, Majority
  <2>1. Majority(CommitQuorum(i))  BY DEF CommittedHeld
  <2>2. CommitQuorum(i) \subseteq CommitQuorum(i)'
    <3> SUFFICES ASSUME NEW q \in Node, term[q] >= committedIn[i],
                        Upto(committed, log[q], i)
                 PROVE  term'[q] >= committedIn[i] /\ Upto(committed, log'[q], i)
      BY DEF CommitQuorum
    <3>1. committedIn[i] \in Nat  BY <1>1
    <3> QED  BY <3>1, <1>5, <1>7
  <2>3. CommitQuorum(i) \in SUBSET Node /\ CommitQuorum(i)' \in SUBSET Node
    BY DEF CommitQuorum
  <2> QED  BY <2>1, <2>2, <2>3, MajorityGrows
<1>16. Complete'
  <2> SUFFICES ASSUME NEW p \in Node, leads'[p], NEW i \in 1 .. Len(committed),
                      committedIn[i] <= term'[p]
               PROVE  Upto(committed, log'[p], i)
    BY DEF Complete
  <2>1. CASE p \in Q  BY <2>1, <1>5, <1>7, <1>9
  <2>2. CASE p \notin Q  BY <2>2, <1>5, <1>7 DEF Complete
  <2> QED  BY <2>1, <2>2
<1>17. Carried'
  <2> SUFFICES ASSUME NEW q \in Node, NEW j \in 1 .. Len(log'[q]),
                      NEW i \in 1 .. Len(committed), committedIn[i] < log'[q][j].term
               PROVE  Upto(committed, log'[q], i)
    BY DEF Carried
  <2>1. CASE j \in 1 .. Len(log[q])  BY <2>1, <1>2, <1>5 DEF Carried
  <2>2. CASE q = n  BY <2>2, <1>5, <1>9
  <2> QED  BY <2>1, <2>2, <1>2
<1>18. SureOnly'
  <2>1. ASSUME NEW q \in Node, NEW i \in Nat, Sure(q, i)
        PROVE  i = 0 \/ (i \in 1 .. Len(committed) /\ committedIn[i] <= term'[q]
                           /\ Upto(committed, log'[q], i))
    <3>1. CASE i = 0  BY <3>1
    <3>2. CASE i \in 1 .. Len(committed)
      <4>1. committedIn[i] \in Nat  BY <3>2, <1>1
      <4>2. i # 0  BY <3>2
      <4>3. committedIn[i] <= term[q] /\ Upto(committed, log[q], i)
        BY <4>2, <2>1 DEF Sure
      <4> QED  BY <4>1, <4>3, <3>2, <1>5, <1>7
    <3> QED  BY <3>1, <3>2, <2>1 DEF Sure
  <2>2. \A q \in Node : applied[q] \in Nat /\ logBase[q] \in Nat  BY DEF RaftTypes
  <2> QED  BY <2>1, <2>2 DEF SureOnly, Sure
<1>19. LeaderFed' /\ CommitTerms'  BY <1>7 DEF LeaderFed, CommitTerms, Behind
<1> QED
  BY <1>7, <1>10, <1>11, <1>12, <1>13, <1>14, <1>15, <1>16, <1>17, <1>18, <1>19

\* What a step of the leader n may add to the committed entries: entries of its
\* log, up to one of its term, that a majority in that term has.
Commits(n) ==
  /\ committed' \in Seq(Entries) /\ committedIn' \in Seq(Nat)
  /\ Len(committedIn') = Len(committed') /\ Len(committed) <= Len(committed')
  /\ \A i \in 1 .. Len(committed) :
       committed'[i] = committed[i] /\ committedIn'[i] = committedIn[i]
  /\ \A i \in Len(committed) + 1 .. Len(committed') :
       /\ committedIn'[i] = term[n] /\ Upto(committed', log[n], i)
       /\ Majority({q \in Node : term'[q] = term[n] /\ Upto(committed', log'[q], i)})
  /\ Len(committed) < Len(committed') =>
       committed'[Len(committed')].term = term[n]

\* The log of m becomes `new', a prefix of n's that has all they shared.
Takes(n, m, new) ==
  /\ log' = [log EXCEPT ![m] = new]
  /\ Upto(log[n], new, Len(new))
  /\ \A i \in Nat : Upto(log[n], log[m], i) => i <= Len(new)

\* An append, a snapshot or a repeated snapshot from the leader n to m.
LEMMA CopyReplicated ==
  ASSUME RaftTypes, Replicated, NEW n \in Node, NEW m \in Node,
         NEW new \in Seq(Entries), Follow(n, m), Takes(n, m, new), Commits(n),
         \/ logBase' = logBase
         \/ logBase' = [logBase EXCEPT ![m] = logBase[n]] /\ logBase[n] <= Len(new),
         applied' = applied
  PROVE  Replicated' /\ \A p \in Node : term[p] <= term'[p]
<1> USE DEF Replicated
<1> DEFINE src(q) == IF q = m THEN n ELSE q
<1>1. /\ term \in [Node -> Nat] /\ log \in [Node -> Seq(Entries)]
      /\ leads \in [Node -> BOOLEAN]
      /\ committed \in Seq(Entries) /\ Len(committed) \in Nat
      /\ committedIn \in Seq(Nat) /\ Len(committedIn) = Len(committed)
      /\ applied \in [Node -> Nat] /\ logBase \in [Node -> Nat]
  BY DEF RaftTypes
<1>0. \A i \in 1 .. Len(committed) : committedIn[i] \in Nat  BY <1>1
<1>2. leads[n] /\ m # n /\ term[m] <= term[n]  BY DEF Follow
<1>3. \A q \in Node : /\ term'[q] = term[src(q)] /\ term[q] <= term'[q]
                      /\ term[q] \in Nat /\ term'[q] \in Nat
  BY <1>1, <1>2 DEF Follow
<1>4. \A q \in Node : leads'[q] => q # m /\ leads[q]
  BY <1>1 DEF Follow
<1>5. /\ log' \in [Node -> Seq(Entries)] /\ log'[m] = new
      /\ \A q \in Node : q # m => log'[q] = log[q]
  BY <1>1 DEF Takes
<1>6. \A q \in Node : /\ Len(log'[q]) \in Nat /\ Len(log[src(q)]) \in Nat
                      /\ src(q) \in Node
                      /\ Upto(log[src(q)], log'[q], Len(log'[q]))
  <2> SUFFICES ASSUME NEW q \in Node
               PROVE  /\ Len(log'[q]) \in Nat /\ Len(log[src(q)]) \in Nat
                      /\ src(q) \in Node
                      /\ Upto(log[src(q)], log'[q], Len(log'[q]))
    OBVIOUS
  <2>1. Len(log'[q]) \in Nat /\ Len(log[src(q)]) \in Nat  BY <1>1, <1>5
  <2>2. CASE q = m  BY <2>1, <2>2, <1>5 DEF Takes
  <2>3. CASE q # m  BY <2>1, <2>3, <1>5 DEF Upto
  <2> QED  BY <2>2, <2>3
<1> HIDE DEF src
<1>7. \A q \in Node : \A i \in 1 .. Len(log'[q]) :
        i \in 1 .. Len(log[src(q)]) /\ log'[q][i] = log[src(q)][i]
  BY <1>6 DEF Upto
<1>8. \A q \in Node, i \in 1 .. Len(committed) :
        committedIn[i] <= term[q] /\ Upto(committed, log[q], i)
          => Upto(committed, log'[q], i)
  <2> SUFFICES ASSUME NEW q \in Node, NEW i \in 1 .. Len(committed),
                      committedIn[i] <= term[q], Upto(committed, log[q], i)
               PROVE  Upto(committed, log'[q], i)
    OBVIOUS
  <2>1. CASE q # m
    <3>1. log'[q] = log[q]  BY <2>1, <1>5
    <3> QED  BY <3>1
  <2>2. CASE q = m
    <3>1. i \in Nat /\ committedIn[i] \in Nat
      <4>1. i \in Nat  BY <1>1
      <4> QED  BY <4>1, <1>0
    <3>2. committedIn[i] <= term[n]
      <4>1. term[m] \in Nat /\ term[n] \in Nat /\ term[m] <= term[n]  BY <1>2, <1>3
      <4>2. committedIn[i] <= term[m]  BY <2>2
      <4> QED  BY <4>1, <4>2, <3>1
    <3>3. Upto(committed, log[n], i)  BY <3>2, <1>2 DEF Complete
    <3>4. Upto(log[n], log[m], i)
      <4>1. log[n] \in Seq(Entries) /\ log[m] \in Seq(Entries)  BY <1>1
      <4>2. Upto(log[n], committed, i)  BY <4>1, <3>1, <3>3, <1>1, UptoFacts
      <4> QED  BY <4>1, <4>2, <3>1, <2>2, <1>1, UptoFacts
    <3>5. i <= Len(new)  BY <3>1, <3>4 DEF Takes
    <3>6. Upto(log[n], new, i)  BY <3>1, <3>5 DEF Takes, Upto
    <3>7. log[n] \in Seq(Entries)  BY <1>1
    <3>8. Upto(committed, new, i)  BY <3>1, <3>3, <3>6, <3>7, <1>1, UptoFacts
    <3> QED  BY <3>8, <2>2, <1>5
  <2> QED  BY <2>1, <2>2
<1>9. /\ committed' \in Seq(Entries) /\ committedIn' \in Seq(Nat)
      /\ Len(committedIn') = Len(committed') /\ Len(committed) <= Len(committed')
      /\ Len(committed') \in Nat
      /\ \A i \in 1 .. Len(committed) :
           committed'[i] = committed[i] /\ committedIn'[i] = committedIn[i]
  BY DEF Commits
<1>10. ASSUME NEW i \in 1 .. Len(committed'), i \notin 1 .. Len(committed)
       PROVE  /\ committedIn'[i] = term[n] /\ Upto(committed', log[n], i)
              /\ Majority({q \in Node : term'[q] = term[n] /\ Upto(committed', log'[q], i)})
              /\ committed'[Len(committed')].term = term[n]
  <2>1. i \in Len(committed) + 1 .. Len(committed') /\ Len(committed) < Len(committed')
    BY <1>1, <1>9, <1>10
  <2> QED  BY <2>1 DEF Commits
<1>11. \A q \in Node, i \in 1 .. Len(committed) :
         Upto(committed, log'[q], i) => Upto(committed', log'[q], i)
  <2> SUFFICES ASSUME NEW q \in Node, NEW i \in 1 .. Len(committed),
                      Upto(committed, log'[q], i)
               PROVE  Upto(committed', log'[q], i)
    OBVIOUS
  <2>1. i \in Nat /\ i <= Len(committed')  BY <1>1, <1>9
  <2>2. \A j \in 1 .. i : committed'[j] = committed[j]  BY <2>1, <1>1, <1>9
  <2> QED  BY <2>1, <2>2 DEF Upto
<1>12. TermsHeld'
  <2> SUFFICES ASSUME NEW p \in Node
               PROVE  Majority({q \in Node : term'[q] >= term'[p]})
    BY DEF TermsHeld, Majority
  <2>1. {q \in Node : term[q] >= term[src(p)]} \subseteq {q \in Node : term'[q] >= term'[p]}
    <3> SUFFICES ASSUME NEW q \in Node, term[q] >= term[src(p)]
                 PROVE  term'[q] >= term'[p]
      OBVIOUS
    <3> QED  BY <1>3, <1>6
  <2>2. Majority({q \in Node : term[q] >= term[src(p)]})  BY <1>6 DEF TermsHeld
  <2> QED  BY <2>1, <2>2, MajorityGrows
<1>13. ASSUME NEW i \in 1 .. Len(committed'), i \notin 1 .. Len(committed),
              NEW p \in Node
       PROVE  term'[p] <= term[n]
  <2> DEFINE Q == {q \in Node : term'[q] = term[n] /\ Upto(committed', log'[q], i)}
             R == {q \in Node : term'[q] >= term'[p]}
  <2>1. Majority(Q) /\ Q \in SUBSET Node  BY <1>10, <1>13
  <2>2. Majority(R) /\ R \in SUBSET Node  BY <1>12 DEF TermsHeld, Majority
  <2>3. PICK q \in Node : q \in Q /\ q \in R
    <3> HIDE DEF Q, R
    <3> QED  BY <2>1, <2>2, MajoritiesShare
  <2>4. term'[q] = term[n] /\ term'[q] >= term'[p]  BY <2>3
  <2> HIDE DEF Q, R
  <2> QED  BY <2>4, <1>3
<1>14. OneLeader'
  <2> SUFFICES ASSUME NEW p \in Node, NEW q \in Node, leads'[p], leads'[q],
                      term'[p] = term'[q]
               PROVE  p = q
    BY DEF OneLeader
  <2> QED  BY <1>3, <1>4 DEF OneLeader, src
<1>15. EntryTerms'
  <2> SUFFICES ASSUME NEW q \in Node, NEW j \in 1 .. Len(log'[q])
               PROVE  /\ log'[q][j].term <= term'[q]
                      /\ \A i \in 1 .. j : log'[q][i].term <= log'[q][j].term
    BY DEF EntryTerms
  <2>1. j \in 1 .. Len(log[src(q)]) /\ src(q) \in Node  BY <1>6, <1>7
  <2>2. /\ log[src(q)][j].term <= term[src(q)]
        /\ \A i \in 1 .. j : log[src(q)][i].term <= log[src(q)][j].term
    BY <2>1 DEF EntryTerms
  <2>3. log'[q][j] = log[src(q)][j] /\ \A i \in 1 .. j : log'[q][i] = log[src(q)][i]
    <3>1. \A i \in 1 .. j : i \in 1 .. Len(log'[q])  BY <1>6
    <3> QED  BY <3>1, <1>7
  <2> QED  BY <2>2, <2>3, <1>3
<1>16. \A p, q \in Node : \A i \in 1 .. Len(log'[q]) :
         Upto(log[src(q)], log[src(p)], i) /\ i <= Len(log'[p])
           => Upto(log'[q], log'[p], i)
  <2> SUFFICES ASSUME NEW p \in Node, NEW q \in Node, NEW i \in 1 .. Len(log'[q]),
                      Upto(log[src(q)], log[src(p)], i), i <= Len(log'[p])
               PROVE  Upto(log'[q], log'[p], i)
    OBVIOUS
  <2>1. i \in Nat /\ i <= Len(log'[q]) /\ Len(log'[q]) \in Nat /\ Len(log'[p]) \in Nat
    BY <1>6
  <2>2. \A j \in 1 .. i : log'[q][j] = log[src(q)][j] /\ log'[p][j] = log[src(p)][j]
    <3>1. \A j \in 1 .. i : j \in 1 .. Len(log'[q]) /\ j \in 1 .. Len(log'[p])  BY <2>1
    <3> QED  BY <3>1, <1>7
  <2> QED  BY <2>1, <2>2 DEF Upto
<1>17. LeaderHas'
  <2> SUFFICES ASSUME NEW p \in Node, NEW q \in Node, leads'[p],
                      NEW i \in 1 .. Len(log'[q]), log'[q][i].term = term'[p]
               PROVE  Upto(log'[q], log'[p], i)
    BY DEF LeaderHas
  <2>1. p # m /\ leads[p] /\ src(p) = p  BY <1>4 DEF src
  <2>2. i \in 1 .. Len(log[src(q)]) /\ log[src(q)][i].term = term[p]
    BY <2>1, <1>3, <1>7
  <2>3. Upto(log[src(q)], log[src(p)], i)  BY <2>1, <2>2, <1>6 DEF LeaderHas
  <2>4. i <= Len(log'[p])  BY <2>1, <2>3, <1>5 DEF Upto
  <2> QED  BY <2>3, <2>4, <1>16
<1>18. Matching'
  <2> SUFFICES ASSUME NEW p \in Node, NEW q \in Node, NEW i \in 1 .. Len(log'[q]),
                      NEW j \in 1 .. Len(log'[p]), i <= j,
                      log'[q][i].term = log'[p][j].term
               PROVE  Upto(log'[q], log'[p], i)
    BY DEF Matching
  <2>1. /\ i \in 1 .. Len(log[src(q)]) /\ j \in 1 .. Len(log[src(p)])
        /\ log[src(q)][i].term = log[src(p)][j].term
    BY <1>7
  <2>2. Upto(log[src(q)], log[src(p)], i)  BY <2>1, <1>6 DEF Matching
  <2>3. i <= Len(log'[p])  BY <1>6
  <2> QED  BY <2>2, <2>3, <1>16
<1>19. CommitTerms'
  <2> SUFFICES ASSUME NEW i \in 1 .. Len(committed')
               PROVE  /\ committed'[i].term <= committedIn'[i]
                      /\ \E j \in i .. Len(committed') :
                           committed'[j].term = committedIn'[i]
    BY DEF CommitTerms
  <2>1. CASE i \in 1 .. Len(committed)
    <3>1. PICK j \in i .. Len(committed) : committed[j].term = committedIn[i]
      BY <2>1 DEF CommitTerms
    <3>2. j \in i .. Len(committed') /\ j \in 1 .. Len(committed)
      BY <2>1, <1>1, <1>9
    <3>3. committed'[j].term = committedIn'[i]  BY <2>1, <3>1, <3>2, <1>9
    <3>4. committed'[i].term <= committedIn'[i]  BY <2>1, <1>9 DEF CommitTerms
    <3> QED  BY <3>2, <3>3, <3>4
  <2>2. CASE i \notin 1 .. Len(committed)
    <3>1. Len(committed') \in i .. Len(committed')  BY <1>9
    <3>2. committedIn'[i] = term[n] /\ committed'[Len(committed')].term = term[n]
      BY <2>2, <1>10
    <3>3. Upto(committed', log[n], i)  BY <2>2, <1>10
    <3>4. i \in 1 .. Len(log[n]) /\ committed'[i] = log[n][i]
      <4>1. Len(log[n]) \in Nat  BY <1>1
      <4> QED  BY <4>1, <3>3 DEF Upto
    <3>5. log[n][i].term <= term[n]  BY <3>4 DEF EntryTerms
    <3> QED  BY <3>1, <3>2, <3>4, <3>5
  <2> QED  BY <2>1, <2>2
<1>20. CommittedHeld'
  <2> SUFFICES ASSUME NEW i \in 1 .. Len(committed')
               PROVE  Majority(CommitQuorum(i)')
    BY DEF CommittedHeld, Majority
  <2>1. CommitQuorum(i)' \in SUBSET Node  BY DEF CommitQuorum
  <2>2. CASE i \in 1 .. Len(committed)
    <3>1. Majority(CommitQuorum(i))  BY <2>2 DEF CommittedHeld
    <3>2. CommitQuorum(i) \subseteq CommitQuorum(i)'
      <4> SUFFICES ASSUME NEW q \in Node, term[q] >= committedIn[i],
                          Upto(committed, log[q], i)
                   PROVE  term'[q] >= committedIn'[i] /\ Upto(committed', log'[q], i)
        BY DEF CommitQuorum
      <4>1. committedIn[i] \in Nat /\ committedIn'[i] = committedIn[i]
        BY <2>2, <1>0, <1>9
      <4>2. committedIn[i] <= term[q] /\ term'[q] >= committedIn[i]  BY <4>1, <1>3
      <4>3. Upto(committed, log'[q], i)  BY <4>2, <2>2, <1>8
      <4> QED  BY <4>1, <4>2, <4>3, <2>2, <1>11
    <3>3. CommitQuorum(i) \in SUBSET Node  BY DEF CommitQuorum
    <3> QED  BY <3>1, <3>2, <3>3, <2>1, MajorityGrows
  <2>3. CASE i \notin 1 .. Len(committed)
    <3> DEFINE Q == {q \in Node : term'[q] = term[n] /\ Upto(committed', log'[q], i)}
    <3>1. Majority(Q) /\ Q \in SUBSET Node /\ committedIn'[i] = term[n]
      BY <2>3, <1>10
    <3>2. Q \subseteq CommitQuorum(i)'  BY <3>1, <1>3 DEF CommitQuorum
    <3> HIDE DEF Q
    <3> QED  BY <3>1, <3>2, <2>1, MajorityGrows
  <2> QED  BY <2>2, <2>3
<1>21. Complete'
  <2> SUFFICES ASSUME NEW p \in Node, leads'[p], NEW i \in 1 .. Len(committed'),
                      committedIn'[i] <= term'[p]
               PROVE  Upto(committed', log'[p], i)
    BY DEF Complete
  <2>1. p # m /\ leads[p] /\ term'[p] = term[p] /\ log'[p] = log[p]
    BY <1>3, <1>4, <1>5 DEF src
  <2>2. CASE i \in 1 .. Len(committed)
    <3>1. Upto(committed, log[p], i)  BY <2>1, <2>2, <1>9 DEF Complete
    <3> QED  BY <3>1, <2>1, <2>2, <1>11
  <2>3. CASE i \notin 1 .. Len(committed)
    <3>1. committedIn'[i] = term[n] /\ Upto(committed', log[n], i)  BY <2>3, <1>10
    <3>2. term'[p] <= term[n]  BY <2>3, <1>13
    <3>3. term[p] = term[n]  BY <3>1, <3>2, <2>1, <1>3
    <3>4. p = n  BY <3>3, <2>1, <1>2 DEF OneLeader
    <3> QED  BY <3>1, <3>4, <2>1
  <2> QED  BY <2>2, <2>3
<1>22. Carried'
  <2> SUFFICES ASSUME NEW q \in Node, NEW j \in 1 .. Len(log'[q]),
                      NEW i \in 1 .. Len(committed'), committedIn'[i] < log'[q][j].term
               PROVE  Upto(committed', log'[q], i)
    BY DEF Carried
  <2>1. /\ j \in 1 .. Len(log[src(q)]) /\ log'[q][j] = log[src(q)][j]
        /\ log[src(q)][j].term \in Nat /\ src(q) \in Node
    BY <1>1, <1>6, <1>7, EntryTypes
  <2>2. CASE i \in 1 .. Len(committed)
    <3>1. Upto(committed, log[src(q)], i)  BY <2>1, <2>2, <1>9 DEF Carried
    <3>2. committedIn[i] \in Nat /\ committedIn[i] < log[src(q)][j].term
      BY <2>1, <2>2, <1>0, <1>9
    <3>3. /\ i \in Nat /\ i \in 1 .. Len(log[src(q)])
          /\ log[src(q)][i] = committed[i]
      BY <3>1, <1>6, <2>2 DEF Upto
    <3>4. committed[i].term \in Nat /\ committed[i].term <= committedIn[i]
      BY <2>2, <1>1, EntryTypes DEF CommitTerms
    <3>5. i < j
      <4>1. SUFFICES ASSUME j <= i PROVE FALSE  BY <3>3, <1>6
      <4>2. j \in 1 .. i  BY <4>1, <3>3, <1>6
      <4>3. log[src(q)][j].term <= log[src(q)][i].term
        BY <4>2, <3>3, <2>1 DEF EntryTerms
      <4> QED  BY <4>3, <3>2, <3>3, <3>4, <2>1
    <3>6. i <= Len(log'[q])  BY <3>3, <3>5, <1>6
    <3>7. Upto(committed, log'[q], i)
      <4>1. \A x \in 1 .. i : x \in 1 .. Len(log'[q])  BY <3>3, <3>6, <1>6
      <4>2. \A x \in 1 .. i : log'[q][x] = log[src(q)][x]  BY <4>1, <1>7
      <4> QED  BY <4>2, <3>1, <3>6 DEF Upto
    <3> QED  BY <3>7, <2>2, <1>11
  <2>3. CASE i \notin 1 .. Len(committed)
    <3>1. committedIn'[i] = term[n] /\ term'[q] <= term[n]  BY <2>3, <1>10, <1>13
    <3>2. log'[q][j].term <= term'[q]  BY <1>15 DEF EntryTerms
    <3> QED  BY <3>1, <3>2, <2>1, <1>2, <1>3
  <2> QED  BY <2>2, <2>3
<1>23. ASSUME NEW q \in Node, NEW i \in Nat, Sure(q, i)
       PROVE  i = 0 \/ (i \in 1 .. Len(committed') /\ committedIn'[i] <= term'[q]
                          /\ Upto(committed', log'[q], i))
  <2>1. CASE i = 0  BY <2>1
  <2>2. CASE i \in 1 .. Len(committed)
    <3>1. i # 0  BY <2>2
    <3>2. committedIn[i] <= term[q] /\ Upto(committed, log[q], i)
      BY <3>1, <1>23 DEF Sure
    <3>3. Upto(committed', log'[q], i)  BY <2>2, <3>2, <1>8, <1>11
    <3>4. committedIn[i] \in Nat /\ committedIn'[i] = committedIn[i]
      BY <2>2, <1>0, <1>9
    <3>5. i \in 1 .. Len(committed')  BY <2>2, <1>1, <1>9
    <3> QED  BY <3>2, <3>3, <3>4, <3>5, <1>3
  <2> QED  BY <2>1, <2>2, <1>23 DEF Sure
<1>24. SureOnly'
  <2> SUFFICES ASSUME NEW q \in Node
               PROVE  Sure(q, applied[q])' /\ Sure(q, logBase[q])'
    BY DEF SureOnly
  <2>1. Sure(q, applied[q])'
    <3>1. Sure(q, applied[q]) /\ applied[q] \in Nat  BY <1>1 DEF SureOnly
    <3> QED  BY <3>1, <1>23 DEF Sure
  <2>2. CASE logBase'[q] = logBase[q]
    <3>1. Sure(q, logBase[q]) /\ logBase[q] \in Nat  BY <1>1 DEF SureOnly
    <3> QED  BY <3>1, <2>1, <2>2, <1>23 DEF Sure
  <2>3. CASE q = m /\ logBase'[q] = logBase[n] /\ logBase[n] <= Len(new)
    <3> DEFINE b == logBase[n]
    <3>1. Sure(n, b) /\ b \in Nat  BY <1>1 DEF SureOnly
    <3> HIDE DEF b
    <3>2. b = 0 \/ (b \in 1 .. Len(committed') /\ committedIn'[b] <= term'[n]
                      /\ Upto(committed', log'[n], b))
      BY <3>1, <1>23
    <3>3. CASE b = 0  BY <3>3, <2>1, <2>3 DEF Sure, b
    <3>4. CASE b # 0
      <4>1. /\ b \in 1 .. Len(committed') /\ committedIn'[b] <= term[n]
            /\ Upto(committed', log[n], b)
        BY <3>2, <3>4, <1>2, <1>3, <1>5 DEF src
      <4>2. term'[m] = term[n] /\ log'[m] = new  BY <1>3, <1>5 DEF src
      <4>3. Len(new) \in Nat /\ b <= Len(new)  BY <2>3 DEF b
      <4>4. Upto(log[n], new, b)  BY <4>3, <3>1 DEF Takes, Upto
      <4>5. log[n] \in Seq(Entries)  BY <1>1
      <4>6. Upto(committed', new, b)  BY <4>1, <4>4, <4>5, <3>1, <1>9, UptoFacts
      <4> QED  BY <4>1, <4>2, <4>6, <2>1, <2>3 DEF Sure, b
    <3> QED  BY <3>3, <3>4
  <2>4. logBase'[q] = logBase[q] \/ (q = m /\ logBase'[q] = logBase[n]
                                           /\ logBase[n] <= Len(new))
    BY <1>1
  <2> QED  BY <2>2, <2>3, <2>4
<1>25. LeaderFed'
  <2> SUFFICES ASSUME NEW p \in Node, leads'[p] PROVE ~Behind(p)'
    BY DEF LeaderFed
  <2>1. p # m /\ leads[p]  BY <1>4
  <2>2. logBase'[p] = logBase[p] /\ applied'[p] = applied[p]  BY <2>1, <1>1
  <2> QED  BY <2>1, <2>2 DEF LeaderFed, Behind
<1> QED
  BY <1>3, <1>12, <1>14, <1>15, <1>17, <1>18, <1>19, <1>20, <1>21, <1>22, <1>24, <1>25

\* The engine and the base of the log move over committed entries; a node may
\* stop leading.
LEMMA ProgressReplicated ==
  ASSUME RaftTypes, Replicated, UNCHANGED <<term, log, committed, committedIn>>,
         \A q \in Node : Sure(q, applied'[q]) /\ Sure(q, logBase'[q]),
         \A q \in Node : leads'[q] => leads[q] /\ ~Behind(q)'
  PROVE  Replicated'
<1> USE DEF Replicated
<1>1. TermsHeld' /\ CommitTerms' /\ EntryTerms' /\ Matching' /\ Carried'
  BY DEF TermsHeld, CommitTerms, EntryTerms, Matching, Carried, Majority
<1>2. OneLeader'  BY DEF OneLeader
<1>3. LeaderHas'  BY DEF LeaderHas
<1>4. Complete'  BY DEF Complete
<1>5. CommittedHeld'  BY DEF CommittedHeld, CommitQuorum, Majority
<1>6. SureOnly'  BY DEF SureOnly, Sure
<1>7. LeaderFed'  BY DEF LeaderFed
<1> QED  BY <1>1, <1>2, <1>3, <1>4, <1>5, <1>6, <1>7

\* What a node knows to be committed is.
LEMMA KnownFacts ==
  ASSUME RaftTypes, NEW n \in Node
  PROVE  Known(n) \in Nat /\ Sure(n, Known(n))
<1> DEFINE S == {j \in 1 .. Agreed(log[n], committed) : committedIn[j] <= term[n]}
<1>1. log[n] \in Seq(Entries) /\ committed \in Seq(Entries)  BY DEF RaftTypes
<1>2. /\ Agreed(log[n], committed) \in Nat
      /\ \A i \in Nat : i <= Agreed(log[n], committed) <=> Upto(log[n], committed, i)
  BY <1>1, AgreedFacts
<1>3. S \in SUBSET Nat /\ \A y \in S : y <= Agreed(log[n], committed)  BY <1>2
<1>4. Known(n) \in Nat /\ (Known(n) \in S \/ Known(n) = 0)
  <2> HIDE DEF S
  <2>1. Highest(S) \in Nat /\ (Highest(S) \in S \/ Highest(S) = 0)
    BY <1>2, <1>3, HighestFacts
  <2>2. Known(n) = Highest(S)  BY DEF Known, S
  <2> QED  BY <2>1, <2>2
<1>5. CASE Known(n) = 0  BY <1>4, <1>5 DEF Sure
<1>6. CASE Known(n) \in S
  <2> DEFINE k == Known(n)
  <2>1. k \in Nat /\ k >= 1 /\ k <= Agreed(log[n], committed) /\ committedIn[k] <= term[n]
    BY <1>2, <1>4, <1>6
  <2> HIDE DEF k
  <2>2. Upto(log[n], committed, k)  BY <2>1, <1>2
  <2>3. Upto(committed, log[n], k)  BY <2>1, <2>2, <1>1, UptoFacts
  <2>4. k \in 1 .. Len(committed)
    <3>1. Len(committed) \in Nat  BY <1>1
    <3> QED  BY <3>1, <2>1, <2>3 DEF Upto
  <2>5. Sure(n, k)  BY <2>1, <2>3, <2>4 DEF Sure
  <2> QED  BY <2>1, <2>5 DEF k
<1> QED  BY <1>4, <1>5, <1>6

\* What maybe_advance_commit finds: an entry of the leader's term that a majority
\* in that term has, with all before it.
LEMMA ChosenFacts ==
  ASSUME RaftTypes, NEW n \in Node, log' \in [Node -> Seq(Entries)]
  PROVE  /\ Chosen(n) \in Nat
         /\ Chosen(n) = 0 \/
              /\ Chosen(n) \in 1 .. Len(log[n]) /\ log[n][Chosen(n)].term = term[n]
              /\ Majority({q \in Node : term'[q] = term[n]
                                          /\ Upto(log[n], log'[q], Chosen(n))})
<1> DEFINE has == [q \in Node |-> IF term'[q] = term[n] THEN Agreed(log[n], log'[q])
                                                        ELSE 0]
           S == {j \in 1 .. Len(log[n]) :
                   log[n][j].term = term[n] /\ Majority({q \in Node : has[q] >= j})}
<1>1. log[n] \in Seq(Entries) /\ Len(log[n]) \in Nat  BY DEF RaftTypes
<1>2. S \in SUBSET Nat /\ \A y \in S : y <= Len(log[n])  BY <1>1
<1>3. Chosen(n) = Highest(S)  BY DEF Chosen
<1>4. Chosen(n) \in Nat /\ (Chosen(n) \in S \/ Chosen(n) = 0)
  <2> HIDE DEF S
  <2> QED  BY <1>1, <1>2, <1>3, HighestFacts
<1>5. CASE Chosen(n) \in S
  <2> DEFINE k == Chosen(n)
  <2>1. /\ k \in 1 .. Len(log[n]) /\ log[n][k].term = term[n]
        /\ Majority({q \in Node : has[q] >= k}) /\ k \in Nat /\ k # 0
    BY <1>5, <1>1
  <2> HIDE DEF k
  <2>2. ASSUME NEW q \in Node, has[q] >= k
        PROVE  term'[q] = term[n] /\ Upto(log[n], log'[q], k)
    <3>1. log'[q] \in Seq(Entries)  OBVIOUS
    <3>2. /\ Agreed(log[n], log'[q]) \in Nat
          /\ \A i \in Nat : i <= Agreed(log[n], log'[q]) <=> Upto(log[n], log'[q], i)
      BY <3>1, <1>1, AgreedFacts
    <3>3. CASE term'[q] = term[n]
      <4>1. has[q] = Agreed(log[n], log'[q])  BY <3>3
      <4> HIDE DEF has
      <4> QED  BY <4>1, <3>2, <3>3, <2>1, <2>2
    <3>4. CASE term'[q] # term[n]
      <4>1. has[q] = 0  BY <3>4
      <4> HIDE DEF has
      <4> QED  BY <4>1, <2>1, <2>2
    <3> QED  BY <3>3, <3>4
  <2> HIDE DEF has
  <2>3. {q \in Node : has[q] >= k} \subseteq
          {q \in Node : term'[q] = term[n] /\ Upto(log[n], log'[q], k)}
    BY <2>2
  <2>4. Majority({q \in Node : term'[q] = term[n] /\ Upto(log[n], log'[q], k)})
    BY <2>1, <2>3, MajorityGrows
  <2> QED  BY <2>1, <2>4 DEF k
<1> QED  BY <1>4, <1>5

\* The first k entries of a log.
LEMMA PrefixFacts ==
  ASSUME NEW l \in Seq(Entries), NEW k \in Nat, k <= Len(l)
  PROVE  /\ SubSeq(l, 1, k) \in Seq(Entries) /\ Len(SubSeq(l, 1, k)) = k
         /\ \A i \in 1 .. k : SubSeq(l, 1, k)[i] = l[i]
         /\ Upto(l, SubSeq(l, 1, k), k)
<1>1. /\ SubSeq(l, 1, k) \in Seq(Entries) /\ Len(SubSeq(l, 1, k)) = k
      /\ \A i \in 1 .. k : SubSeq(l, 1, k)[i] = l[i]
  OBVIOUS
<1> QED  BY <1>1 DEF Upto

\* Replicate commits what Chosen finds, which extends what was committed.
LEMMA ReplicateCommits ==
  ASSUME RaftTypes, Replicated, NEW n \in Node, NEW m \in Node, Follow(n, m),
         log' = [log EXCEPT ![m] = log[n]],
         committed' = IF Chosen(n) > Len(committed) THEN SubSeq(log[n], 1, Chosen(n))
                                                    ELSE committed,
         committedIn' = [j \in 1 .. Len(committed') |->
                           IF j <= Len(committed) THEN committedIn[j] ELSE term[n]]
  PROVE  Commits(n) /\ Takes(n, m, log[n])
<1> DEFINE c == Chosen(n)
           L == Len(committed)
<1>1. /\ term \in [Node -> Nat] /\ log \in [Node -> Seq(Entries)]
      /\ log[n] \in Seq(Entries) /\ log[m] \in Seq(Entries)
      /\ committed \in Seq(Entries) /\ L \in Nat
      /\ committedIn \in Seq(Nat) /\ Len(committedIn) = L
  BY DEF RaftTypes
<1>2. log' \in [Node -> Seq(Entries)]  BY <1>1
<1>3. Len(log[n]) \in Nat /\ Len(log[m]) \in Nat  BY <1>1
<1>4. Takes(n, m, log[n])  BY <1>1, <1>3 DEF Takes, Upto
<1>5. \A i \in 1 .. L : committedIn[i] \in Nat  BY <1>1
<1>6. \A q \in Node : term'[q] = term[n] => term[q] <= term[n]
  BY <1>1 DEF Follow
<1>7. CASE ~(c > L)
  <2>1. committed' = committed  BY <1>7
  <2>2. committedIn' = committedIn
    <3>1. committedIn' = [j \in 1 .. L |-> IF j <= L THEN committedIn[j] ELSE term[n]]
      BY <2>1
    <3>2. committedIn = [j \in 1 .. L |-> committedIn[j]]  BY <1>1
    <3>3. \A j \in 1 .. L : j <= L  BY <1>1
    <3> QED  BY <3>1, <3>2, <3>3
  <2>3. \A i : i \notin L + 1 .. L  BY <1>1
  <2>4. ~(L < L) /\ L <= L  BY <1>1
  <2>5. Len(committed') = L  BY <2>1
  <2> HIDE DEF L
  <2>6. /\ committed' \in Seq(Entries) /\ committedIn' \in Seq(Nat)
        /\ Len(committedIn') = Len(committed')
        /\ \A i \in 1 .. L : committed'[i] = committed[i] /\ committedIn'[i] = committedIn[i]
    BY <2>1, <2>2, <2>5, <1>1
  <2> QED  BY <2>3, <2>4, <2>5, <2>6, <1>4 DEF Commits, L
<1>8. CASE c > L
  <2> DEFINE Q == {q \in Node : term'[q] = term[n] /\ Upto(log[n], log'[q], c)}
  <2>1. /\ c \in Nat /\ c \in 1 .. Len(log[n]) /\ log[n][c].term = term[n]
        /\ Majority(Q)
    <3>1. /\ c \in Nat
          /\ c = 0 \/ (c \in 1 .. Len(log[n]) /\ log[n][c].term = term[n] /\ Majority(Q))
      BY <1>2, ChosenFacts
    <3> HIDE DEF c, Q
    <3>2. c # 0  BY <1>1, <1>8 DEF c
    <3> QED  BY <3>1, <3>2
  <2> HIDE DEF c
  <2>2. committed' = SubSeq(log[n], 1, c)  BY <1>8 DEF c
  <2>3. /\ committed' \in Seq(Entries) /\ Len(committed') = c
        /\ \A i \in 1 .. c : committed'[i] = log[n][i]
    <3>1. c \in Nat /\ c <= Len(log[n])  BY <2>1
    <3>2. /\ SubSeq(log[n], 1, c) \in Seq(Entries) /\ Len(SubSeq(log[n], 1, c)) = c
          /\ \A i \in 1 .. c : SubSeq(log[n], 1, c)[i] = log[n][i]
      <4>1. log[n] \in Seq(Entries)  BY <1>1
      <4> HIDE DEF Q
      <4> QED  BY <4>1, <3>1, PrefixFacts
    <3> QED  BY <3>2, <2>2
  <2>4. \A i \in 1 .. c : Upto(committed', log[n], i)
    BY <2>1, <2>3, <1>3 DEF Upto
  <2>5. ASSUME L # 0 PROVE Upto(committed, log[n], L)
    <3>1. L \in 1 .. L  BY <2>5, <1>1
    <3>2. Majority(CommitQuorum(L))  BY <3>1 DEF Replicated, CommittedHeld
    <3>3. CommitQuorum(L) \in SUBSET Node /\ Q \in SUBSET Node  BY DEF CommitQuorum
    <3>4. PICK q \in Node : q \in CommitQuorum(L) /\ q \in Q
      <4> HIDE DEF Q
      <4> QED  BY <2>1, <3>2, <3>3, MajoritiesShare
    <3>5. term[q] >= committedIn[L] /\ term'[q] = term[n]
      BY <3>4 DEF CommitQuorum
    <3>6. term[q] <= term[n] /\ term[q] \in Nat /\ term[n] \in Nat /\ committedIn[L] \in Nat
      BY <3>1, <3>5, <1>1, <1>5, <1>6
    <3>7. committedIn[L] <= term[n]  BY <3>5, <3>6
    <3>8. leads[n]  BY DEF Follow
    <3> QED  BY <3>1, <3>7, <3>8 DEF Replicated, Complete
  <2>6. \A i \in 1 .. L : committed'[i] = committed[i]
    <3> SUFFICES ASSUME NEW i \in 1 .. L PROVE committed'[i] = committed[i]  OBVIOUS
    <3>1. Upto(committed, log[n], L)  BY <2>5, <1>1
    <3>2. i \in 1 .. c  BY <2>1, <1>1, <1>8 DEF c
    <3> QED  BY <3>1, <3>2, <2>3 DEF Upto
  <2>7. /\ committedIn' \in Seq(Nat) /\ Len(committedIn') = c
        /\ \A i \in 1 .. L : committedIn'[i] = committedIn[i]
        /\ \A i \in L + 1 .. c : committedIn'[i] = term[n]
    <3> DEFINE f == [j \in 1 .. c |-> IF j <= L THEN committedIn[j] ELSE term[n]]
    <3>1. committedIn' = f  BY <2>3
    <3>2. term[n] \in Nat /\ \A j \in 1 .. c : j <= L => j \in 1 .. L  BY <1>1, <2>1
    <3>3. f \in [1 .. c -> Nat]  BY <3>2, <1>5
    <3>4. f \in Seq(Nat) /\ Len(f) = c  BY <3>3, <2>1
    <3>5. \A i \in 1 .. L : i \in 1 .. c /\ i <= L  BY <1>1, <1>8, <2>1 DEF c
    <3>6. \A i \in L + 1 .. c : i \in 1 .. c /\ ~(i <= L)  BY <1>1, <2>1
    <3> QED  BY <3>1, <3>4, <3>5, <3>6
  <2>8. ASSUME NEW i \in L + 1 .. c
        PROVE  Majority({q \in Node : term'[q] = term[n] /\ Upto(committed', log'[q], i)})
    <3> DEFINE R == {q \in Node : term'[q] = term[n] /\ Upto(committed', log'[q], i)}
    <3>1. i \in 1 .. c /\ i \in Nat /\ i \in 0 .. c  BY <1>1, <2>1
    <3>2. ASSUME NEW q \in Node, Upto(log[n], log'[q], c)
          PROVE  Upto(committed', log'[q], i)
      <4>1. log'[q] \in Seq(Entries)  BY <1>2
      <4>2. Upto(log[n], log'[q], i)  BY <3>1, <3>2, <4>1, <1>1, <2>1, UptoFacts
      <4>3. Upto(committed', log[n], i)  BY <3>1, <2>4
      <4> QED  BY <4>1, <4>2, <4>3, <3>1, <2>3, <1>1, UptoFacts
    <3>3. Q \subseteq R  BY <3>2
    <3>4. Q \in SUBSET Node /\ R \in SUBSET Node  OBVIOUS
    <3> HIDE DEF Q, R
    <3>5. Majority(R)  BY <3>3, <3>4, <2>1, MajorityGrows
    <3> QED  BY <3>5 DEF R
  <2>9. \A i \in L + 1 .. c : Upto(committed', log[n], i)
    <3>1. \A i \in L + 1 .. c : i \in 1 .. c  BY <1>1, <2>1
    <3> QED  BY <3>1, <2>4
  <2>10. L <= c  BY <1>1, <1>8, <2>1 DEF c
  <2>11. committed'[c].term = term[n]
    <3>1. c \in 1 .. c  BY <2>1
    <3> QED  BY <3>1, <2>1, <2>3
  <2> HIDE DEF Q
  <2> QED  BY <2>3, <2>6, <2>7, <2>8, <2>9, <2>10, <2>11, <1>4 DEF Commits
<1> QED  BY <1>7, <1>8

-----------------------------------------------------------------------------
(* Clocks and caches.                                                      *)

\* The highest of two numbers and of timestamps of a log.
LEMMA HighestOverLog ==
  ASSUME NEW l \in Seq(Entries), NEW x \in Nat, NEW y \in Nat, NEW X,
         \A v \in X : v = x \/ v = y \/ \E i \in 1 .. Len(l) : v = l[i].ts
  PROVE  /\ Highest(X) \in Nat
         /\ Highest(X) \in X \/ Highest(X) = 0
         /\ \A v \in X : v <= Highest(X)
<1>1. /\ Len(l) \in Nat /\ \A i \in 1 .. Len(l) : l[i].ts \in Nat  BY EntryTypes
<1>2. PICK b \in Nat : \A i \in 1 .. Len(l) : l[i].ts <= b  BY LogBounded
<1>3. X \in SUBSET Nat  BY <1>1
<1>4. b + x + y \in Nat  OBVIOUS
<1>5. \A v \in X : v <= b + x + y
  <2> SUFFICES ASSUME NEW v \in X PROVE v <= b + x + y  OBVIOUS
  <2>1. CASE v = x  BY <2>1
  <2>2. CASE v = y  BY <2>2
  <2>3. CASE \E i \in 1 .. Len(l) : v = l[i].ts
    <3>1. PICK i \in 1 .. Len(l) : v = l[i].ts  BY <2>3
    <3>2. v \in Nat /\ v <= b  BY <3>1, <1>1, <1>2
    <3> QED  BY <3>2
  <2> QED  BY <2>1, <2>2, <2>3
<1> QED  BY <1>3, <1>4, <1>5, HighestFacts

\* A mint is above the clock, and a bumped timestamp above its floor.
LEMMA MintFacts ==
  ASSUME NEW n \in Node, hlc \in [Node -> Nat]
  PROVE  /\ Minted(n) \in Nat /\ Minted(n) > hlc[n]
         /\ \A t, floor \in Nat : /\ Above(t, floor) \in Nat /\ Above(t, floor) > floor
                                  /\ Above(t, floor) >= t
         /\ \A a, b \in Nat : Higher(a, b) \in Nat /\ Higher(a, b) >= a /\ Higher(a, b) >= b
                                /\ (Higher(a, b) = a \/ Higher(a, b) = b)
<1>1. Wall[n] \in Nat /\ hlc[n] \in Nat  BY ReadTsAssumption
<1>2. Minted(n) \in Nat /\ Minted(n) > hlc[n]  BY <1>1 DEF Minted, Higher
<1>3. \A t, floor \in Nat : /\ Above(t, floor) \in Nat /\ Above(t, floor) > floor
                            /\ Above(t, floor) >= t
  BY DEF Above
<1>4. \A a, b \in Nat : Higher(a, b) \in Nat /\ Higher(a, b) >= a /\ Higher(a, b) >= b
                          /\ (Higher(a, b) = a \/ Higher(a, b) = b)
  BY DEF Higher
<1> QED  BY <1>2, <1>3, <1>4

\* The highest of three numbers is one.
LEMMA HighestOfThree ==
  ASSUME NEW x \in Nat, NEW y \in Nat, NEW z \in Nat
  PROVE  Highest({x, y, z}) \in Nat
<1>1. {x, y, z} \in SUBSET Nat /\ x + y + z \in Nat  OBVIOUS
<1>2. \A v \in {x, y, z} : v <= x + y + z  OBVIOUS
<1> QED  BY <1>1, <1>2, HighestFacts

\* The cache stays a cache.
LEMMA CacheTypes ==
  ASSUME NEW c \in Caches, NEW k \in Keys, NEW ts \in Nat
  PROVE  /\ Bump(c, k, ts) \in Caches /\ MaxOverlapping(c, k) \in Nat
         /\ [c EXCEPT !.low = Higher(@, ts)] \in Caches
<1>1. /\ c.current \in [Keys -> Nat] /\ c.previous \in [Keys -> Nat] /\ c.low \in Nat
  BY DEF Caches
<1>2. \A a, b \in Nat : Higher(a, b) \in Nat  BY DEF Higher
<1>3. c.current[k] \in Nat /\ c.previous[k] \in Nat  BY <1>1
<1>4. MaxOverlapping(c, k) \in Nat  BY <1>1, <1>3, HighestOfThree DEF MaxOverlapping
<1>5. [c EXCEPT !.low = Higher(@, ts)] \in Caches  BY <1>1, <1>2 DEF Caches
<1> DEFINE b == [c EXCEPT !.current[k] = Higher(@, ts)]
<1>6. b \in Caches
  <2>1. [c.current EXCEPT ![k] = Higher(@, ts)] \in [Keys -> Nat]  BY <1>1, <1>2, <1>3
  <2>2. b = [c EXCEPT !.current = [c.current EXCEPT ![k] = Higher(@, ts)]]
    BY <1>1 DEF Caches
  <2> QED  BY <2>1, <2>2 DEF Caches
<1> HIDE DEF b
<1>7. Rotate(b) \in Caches
  <2>1. b.current \in [Keys -> Nat] /\ b.previous \in [Keys -> Nat] /\ b.low \in Nat
    BY <1>6 DEF Caches
  <2>2. IsFiniteSet(Keys)  BY ReadTsAssumption
  <2>3. PICK h \in Nat : \A x \in Keys : b.previous[x] <= h
    BY <2>1, <2>2, FiniteBound
  <2> DEFINE S == {b.low} \cup {b.previous[x] : x \in Keys}
  <2>4. S \in SUBSET Nat /\ h + b.low \in Nat  BY <2>1
  <2>5. \A v \in S : v <= h + b.low
    <3> SUFFICES ASSUME NEW v \in S PROVE v <= h + b.low  OBVIOUS
    <3>1. CASE v = b.low  BY <3>1, <2>1
    <3>2. CASE \E x \in Keys : v = b.previous[x]
      <4>1. PICK x \in Keys : v = b.previous[x]  BY <3>2
      <4>2. v \in Nat /\ v <= h  BY <4>1, <2>1, <2>3
      <4> QED  BY <4>2, <2>1
    <3> QED  BY <3>1, <3>2
  <2> HIDE DEF S
  <2>6. Highest(S) \in Nat  BY <2>4, <2>5, HighestFacts
  <2>7. NoSpans \in [Keys -> Nat]  BY DEF NoSpans
  <2> QED  BY <2>1, <2>6, <2>7 DEF Rotate, Caches, S
<1>8. Bump(c, k, ts) \in Caches  BY <1>6, <1>7 DEF Bump, b
<1> QED  BY <1>4, <1>5, <1>8

\* A cache with nothing in it is one.
LEMMA NoCacheType == NoCache \in Caches
BY DEF NoCache, NoSpans, Caches

\* What mint_pushed must exceed is at least the last timestamp proposed.
LEMMA PushFacts ==
  ASSUME ClockTypes, NEW n \in Node, NEW k \in Keys
  PROVE  /\ PushFloor(n, k) \in Nat /\ PushFloor(n, k) >= lastTs[n]
         /\ Absorbed(n) \in Caches
<1>1. cache[n] \in Caches /\ ceiling[n] \in Nat /\ lastTs[n] \in Nat  BY DEF ClockTypes
<1>2. Absorbed(n) \in Caches  BY <1>1, CacheTypes DEF Absorbed
<1>3. MaxOverlapping(Absorbed(n), k) \in Nat
  <2>1. 0 \in Nat  OBVIOUS
  <2> QED  BY <2>1, <1>2, CacheTypes
<1> QED  BY <1>1, <1>2, <1>3 DEF PushFloor, Higher

\* A read that is under way has a key and, once minted, a timestamp.
LEMMA ReadFields ==
  ASSUME NEW r \in Reads
  PROVE  /\ r.at \in {"idle", "mint", "wait", "serve"}
         /\ r.at = "mint" => r.key \in Keys
         /\ r.at \in {"wait", "serve"} => r.key \in Keys /\ r.ts \in Nat
<1>1. CASE r \in [at : {"idle"}]  BY <1>1
<1>2. CASE r \in [at : {"mint"}, key : Keys]  BY <1>2
<1>3. CASE r \in [at : {"wait", "serve"}, key : Keys, ts : Nat]  BY <1>3
<1> QED  BY <1>1, <1>2, <1>3 DEF Reads

\* The engine's highest version is at least its mark, and is the mark, the
\* ceiling or the timestamp of an applied entry.
LEMMA LatestFacts ==
  ASSUME RaftTypes, ClockTypes, SureOnly, NEW n \in Node
  PROVE  /\ LatestVersion(n) \in Nat /\ LatestVersion(n) >= mark[n]
         /\ \/ LatestVersion(n) \in {0, mark[n], ceiling[n]}
            \/ \E i \in 1 .. applied[n] : LatestVersion(n) = log[n][i].ts
<1> DEFINE A == {j \in 1 .. applied[n] : log[n][j].kind = "Write"}
           X == {mark[n], ceiling[n]} \cup {log[n][i].ts : i \in A}
<1>1. /\ mark[n] \in Nat /\ ceiling[n] \in Nat /\ applied[n] \in Nat
      /\ log[n] \in Seq(Entries) /\ Len(log[n]) \in Nat
  BY DEF RaftTypes, ClockTypes
<1>2. applied[n] <= Len(log[n])  BY <1>1 DEF SureOnly, Sure, Upto
<1>3. \A v \in X : v = mark[n] \/ v = ceiling[n] \/ \E i \in 1 .. applied[n] : v = log[n][i].ts
  OBVIOUS
<1>4. \A i \in 1 .. applied[n] : i \in 1 .. Len(log[n])  BY <1>1, <1>2
<1>5. mark[n] \in X  OBVIOUS
<1>6. LatestVersion(n) = Highest(X)  BY DEF LatestVersion
<1> HIDE DEF X
<1>7. /\ Highest(X) \in Nat
      /\ Highest(X) \in X \/ Highest(X) = 0
      /\ \A v \in X : v <= Highest(X)
  BY <1>1, <1>3, <1>4, HighestOverLog
<1>8. mark[n] <= Highest(X)  BY <1>5, <1>7
<1> QED  BY <1>1, <1>3, <1>6, <1>7, <1>8

-----------------------------------------------------------------------------
(* Reads keep the invariant.                                               *)

\* The stages of a read are reads.
LEMMA StageTypes ==
  ASSUME NEW k \in Keys, NEW ts \in Nat
  PROVE  /\ NoRead \in Reads /\ [at |-> "mint", key |-> k] \in Reads
         /\ [at |-> "wait", key |-> k, ts |-> ts] \in Reads
         /\ [at |-> "serve", key |-> k, ts |-> ts] \in Reads
BY DEF NoRead, Reads

\* What is below a timestamp that is reached is reached.
LEMMA ReachedBelow ==
  ASSUME RaftTypes, NEW c \in Nat, NEW ts \in Nat, Reached(c), ts <= c
  PROVE  Reached(ts)
<1>1. committed \in Seq(Entries)  BY DEF RaftTypes
<1>2. \A i \in 1 .. Len(committed) : committed[i].ts \in Nat  BY <1>1, EntryTypes
<1>3. CASE c = 0  BY <1>3 DEF Reached
<1>4. CASE c # 0
  <2>1. PICK i \in 1 .. Len(committed) : c <= committed[i].ts  BY <1>4 DEF Reached
  <2>2. ts <= committed[i].ts  BY <2>1, <1>2
  <2> QED  BY <2>2 DEF Reached
<1> QED  BY <1>3, <1>4

\* The engine's highest version is reached.
LEMMA LatestReached ==
  ASSUME RaftTypes, ClockTypes, SureOnly, ReadsReached, NEW n \in Node
  PROVE  Reached(LatestVersion(n))
<1>1. /\ LatestVersion(n) \in {0, mark[n], ceiling[n]}
         \/ \E i \in 1 .. applied[n] : LatestVersion(n) = log[n][i].ts
  BY LatestFacts
<1>2. CASE LatestVersion(n) \in {0, mark[n], ceiling[n]}
  BY <1>2 DEF ReadsReached, Reached
<1>3. CASE \E i \in 1 .. applied[n] : LatestVersion(n) = log[n][i].ts
  <2>1. PICK i \in 1 .. applied[n] : LatestVersion(n) = log[n][i].ts  BY <1>3
  <2>2. /\ applied[n] \in Nat /\ committed \in Seq(Entries) /\ Len(committed) \in Nat
        /\ log[n] \in Seq(Entries)
    BY DEF RaftTypes
  <2>3. applied[n] # 0  BY <2>2
  <2>4. applied[n] <= Len(committed) /\ Upto(committed, log[n], applied[n])
    BY <2>3 DEF SureOnly, Sure
  <2>5. i \in 1 .. Len(committed) /\ committed[i] = log[n][i]
    BY <2>2, <2>4 DEF Upto
  <2>6. committed[i].ts \in Nat  BY <2>2, <2>5, EntryTypes
  <2>7. LatestVersion(n) <= committed[i].ts  BY <2>1, <2>5, <2>6
  <2> QED  BY <2>5, <2>7 DEF Reached
<1> QED  BY <1>1, <1>2, <1>3

\* A step that leaves the log and the engine alone and moves no clock back.
LEMMA QuietStep ==
  ASSUME TsInv, UNCHANGED raft, ceiling' = ceiling, ClockTypes',
         \A q \in Node : hlc[q] <= hlc'[q] /\ lastTs'[q] = lastTs[q],
         \A q \in Node : rd'[q].at = "serve" => Reached(rd'[q].ts),
         \A k \in Keys : Reached(served'[k])
  PROVE  TsInv'
<1>1. RaftTypes /\ ClockTypes /\ Replicated /\ Timed /\ ReadsReached /\ LowIsLost
  BY DEF TsInv
<1>2. UNCHANGED <<term, leads, log, logBase, committed, committedIn, applied, image, mark>>
  BY DEF raft
<1>3. RaftTypes'  BY <1>1, <1>2 DEF RaftTypes
<1>4. Replicated'
  <2>1. \A q \in Node : Sure(q, applied'[q]) /\ Sure(q, logBase'[q])
    BY <1>1, <1>2 DEF Replicated, SureOnly
  <2>2. \A q \in Node : leads'[q] => leads[q] /\ ~Behind(q)'
    BY <1>1, <1>2 DEF Replicated, LeaderFed, Behind
  <2> QED  BY <1>1, <1>2, <2>1, <2>2, ProgressReplicated
<1>5. Timed'
  <2>1. LogsRise' /\ MarkAbove' /\ ImageAbove'
    BY <1>1, <1>2 DEF Timed, LogsRise, Rising, MarkAbove, ImageAbove, Behind
  <2>2. ClockAbove'
    <3> SUFFICES ASSUME NEW q \in Node, NEW i \in 1 .. Len(log[q]),
                        i > logBase[q] \/ ~Behind(q)
                 PROVE  log[q][i].ts <= hlc'[q] \/ log[q][i].ts <= lastTs[q]
      BY <1>2 DEF ClockAbove, Behind
    <3>1. log[q][i].ts <= hlc[q] \/ log[q][i].ts <= lastTs[q]
      BY <1>1 DEF Timed, ClockAbove
    <3>2. log[q] \in Seq(Entries)  BY <1>1 DEF RaftTypes
    <3>3. log[q][i].ts \in Nat  BY <3>2, EntryTypes
    <3>4. hlc[q] \in Nat /\ hlc'[q] \in Nat  BY <1>1 DEF ClockTypes
    <3> QED  BY <3>1, <3>3, <3>4
  <2> QED  BY <2>1, <2>2 DEF Timed
<1>6. ReadsReached'  BY <1>1, <1>2 DEF ReadsReached, Reached
<1>7. LowIsLost'  BY <1>1, <1>2 DEF LowIsLost
<1> QED  BY <1>3, <1>4, <1>5, <1>6, <1>7 DEF TsInv

\* A read is served at a timestamp that is reached.
LEMMA ServeStep ==
  ASSUME TsInv, NEW n \in Node, rd[n].at \in {"mint", "wait"}, NEW ts \in Nat,
         Reached(ts), ServeAt(n, ts)
  PROVE  /\ rd' \in [Node -> Reads]
         /\ \A q \in Node : rd'[q].at = "serve" => Reached(rd'[q].ts)
<1>1. rd \in [Node -> Reads]  BY DEF TsInv, ClockTypes
<1>2. rd[n].key \in Keys  BY <1>1, ReadFields
<1> DEFINE s == [at |-> "serve", key |-> rd[n].key, ts |-> ts]
<1>3. s \in Reads /\ s.ts = ts  BY <1>2, StageTypes
<1>4. rd' = [rd EXCEPT ![n] = s]  BY DEF ServeAt
<1> HIDE DEF s
<1>5. rd' \in [Node -> Reads]  BY <1>1, <1>3, <1>4
<1>6. \A q \in Node : rd[q].at = "serve" => Reached(rd[q].ts)
  BY DEF TsInv, ReadsReached
<1>7. \A q \in Node : rd'[q].at = "serve" => Reached(rd'[q].ts)
  BY <1>1, <1>3, <1>4, <1>6
<1> QED  BY <1>5, <1>7

\* A read that ends, or begins, serves nothing.
LEMMA StageStep ==
  ASSUME TsInv, NEW n \in Node, NEW r \in Reads, r.at # "serve",
         rd' = [rd EXCEPT ![n] = r]
  PROVE  /\ rd' \in [Node -> Reads]
         /\ \A q \in Node : rd'[q].at = "serve" => Reached(rd'[q].ts)
<1>1. rd \in [Node -> Reads]  BY DEF TsInv, ClockTypes
<1>2. \A q \in Node : rd[q].at = "serve" => Reached(rd[q].ts)
  BY DEF TsInv, ReadsReached
<1> QED  BY <1>1, <1>2

\* read_barrier.
LEMMA ReadBarrierStep ==
  ASSUME TsInv, NEW n \in Node, NEW k \in Keys, ReadBarrier(n, k)  PROVE  TsInv'
<1> DEFINE r == [at |-> "mint", key |-> k]
<1>1. r \in Reads /\ r.at # "serve"
  <2>1. 0 \in Nat  OBVIOUS
  <2> QED  BY <2>1, StageTypes
<1>2. /\ rd' = [rd EXCEPT ![n] = r] /\ ops' = ops + 1
      /\ UNCHANGED raft /\ UNCHANGED <<clock, served, cuts, processCrashes>>
  BY DEF ReadBarrier, Begin
<1> HIDE DEF r
<1>3. /\ rd' \in [Node -> Reads]
      /\ \A q \in Node : rd'[q].at = "serve" => Reached(rd'[q].ts)
  BY <1>1, <1>2, StageStep
<1>4. ClockTypes /\ ReadsReached  BY DEF TsInv
<1>5. ClockTypes'  BY <1>2, <1>3, <1>4 DEF ClockTypes, clock
<1>6. \A q \in Node : hlc[q] <= hlc'[q] /\ lastTs'[q] = lastTs[q]
  BY <1>2, <1>4 DEF ClockTypes, clock
<1>7. \A x \in Keys : Reached(served'[x])  BY <1>2, <1>4 DEF ReadsReached
<1>8. ceiling' = ceiling  BY <1>2 DEF clock
<1> QED  BY <1>2, <1>3, <1>5, <1>6, <1>7, <1>8, QuietStep

\* read_serve_ts mints, and serves at the timestamp it chose.
LEMMA MintServeStep ==
  ASSUME TsInv, NEW n \in Node, rd[n].at = "mint", NEW ts \in Nat, Reached(ts),
         Mint(n), ServeAt(n, ts),
         UNCHANGED <<raft, lastTs, lastCeil, absorbed, ceiling, cache, served, ops,
                     cuts, processCrashes>>
  PROVE  TsInv'
<1>1. ClockTypes /\ ReadsReached  BY DEF TsInv
<1>2. Minted(n) \in Nat /\ Minted(n) > hlc[n]  BY <1>1, MintFacts DEF ClockTypes
<1>3. hlc' \in [Node -> Nat] /\ \A q \in Node : hlc[q] <= hlc'[q]
  BY <1>1, <1>2 DEF ClockTypes, Mint
<1>4. /\ rd' \in [Node -> Reads]
      /\ \A q \in Node : rd'[q].at = "serve" => Reached(rd'[q].ts)
  BY ServeStep
<1>5. ClockTypes'  BY <1>1, <1>3, <1>4 DEF ClockTypes
<1>6. \A x \in Keys : Reached(served'[x])  BY <1>1 DEF ReadsReached
<1> QED  BY <1>3, <1>4, <1>5, <1>6, QuietStep

\* read_serve_ts, below the ceiling.
LEMMA ReadMintStep ==
  ASSUME TsInv, NEW n \in Node, ReadMint(n)  PROVE  TsInv'
<1>1. RaftTypes /\ ClockTypes /\ ReadsReached  BY DEF TsInv
<1>2. Minted(n) \in Nat  BY <1>1, MintFacts DEF ClockTypes
<1>3. ceiling[n] \in Nat /\ Reached(ceiling[n])  BY <1>1 DEF ClockTypes, ReadsReached
<1>4. Minted(n) <= ceiling[n]  BY <1>2, <1>3 DEF ReadMint
<1>5. Reached(Minted(n))  BY <1>1, <1>2, <1>3, <1>4, ReachedBelow
<1> QED  BY <1>2, <1>5, MintServeStep DEF ReadMint

\* read_serve_ts of a leader out of disk.
LEMMA ReadFloorStep ==
  ASSUME TsInv, NEW n \in Node, ReadFloor(n)  PROVE  TsInv'
<1>1. RaftTypes /\ ClockTypes /\ ReadsReached /\ SureOnly  BY DEF TsInv, Replicated
<1>2. LatestVersion(n) \in Nat /\ Reached(LatestVersion(n))
  BY <1>1, LatestFacts, LatestReached
<1> QED  BY <1>2, MintServeStep DEF ReadFloor

\* A read whose timestamp is below the ceiling is served at it.
LEMMA CoveredStep ==
  ASSUME TsInv, NEW n \in Node, rd[n].at \in {"mint", "wait"}, NEW ts \in Nat,
         ts < ceiling[n], ServeAt(n, ts),
         UNCHANGED <<raft, clock, served, ops, cuts, processCrashes>>
  PROVE  TsInv'
<1>1. RaftTypes /\ ClockTypes /\ ReadsReached  BY DEF TsInv
<1>2. ceiling[n] \in Nat /\ Reached(ceiling[n])  BY <1>1 DEF ClockTypes, ReadsReached
<1>3. Reached(ts)  BY <1>1, <1>2, ReachedBelow
<1>4. /\ rd' \in [Node -> Reads]
      /\ \A q \in Node : rd'[q].at = "serve" => Reached(rd'[q].ts)
  BY <1>3, ServeStep
<1>5. ClockTypes'  BY <1>1, <1>4 DEF ClockTypes, clock
<1>6. \A q \in Node : hlc[q] <= hlc'[q] /\ lastTs'[q] = lastTs[q]
  BY <1>1 DEF ClockTypes, clock
<1>7. \A x \in Keys : Reached(served'[x])  BY <1>1 DEF ReadsReached
<1>8. ceiling' = ceiling  BY DEF clock
<1> QED  BY <1>4, <1>5, <1>6, <1>7, <1>8, QuietStep

\* The ceiling a read waited for is committed and applied.
LEMMA ReadCoveredStep ==
  ASSUME TsInv, NEW n \in Node, ReadCovered(n)  PROVE  TsInv'
<1>1. rd[n] \in Reads /\ rd[n].at = "wait" /\ ceiling[n] \in Nat
  BY DEF TsInv, ClockTypes, ReadCovered
<1>2. rd[n].ts \in Nat  BY <1>1, ReadFields
<1>3. rd[n].ts < ceiling[n]  BY <1>1, <1>2 DEF ReadCovered
<1> QED  BY <1>1, <1>2, <1>3, CoveredStep DEF ReadCovered

\* read_at, at a timestamp of the caller's.
LEMMA ReadAtStep ==
  ASSUME TsInv, NEW n \in Node, ReadAt(n)  PROVE  TsInv'
<1>1. PICK ts \in 1 .. MaxAsk :
        /\ rd[n].at = "mint" /\ BelowCeiling(n, ts) /\ ServeAt(n, ts)
        /\ UNCHANGED <<raft, clock, served, ops, cuts, processCrashes>>
  BY DEF ReadAt
<1>2. ceiling[n] \in Nat  BY DEF TsInv, ClockTypes
<1>3. MaxAsk \in Nat  BY ReadTsAssumption
<1>4. ts \in Nat /\ ts < ceiling[n]  BY <1>1, <1>2, <1>3 DEF BelowCeiling
<1> QED  BY <1>1, <1>4, CoveredStep

\* A read that gives up.
LEMMA ReadFailsStep ==
  ASSUME TsInv, NEW n \in Node, ReadFails(n)  PROVE  TsInv'
<1>1. ClockTypes /\ ReadsReached  BY DEF TsInv
<1>2. NoRead \in Reads /\ NoRead.at # "serve"  BY DEF NoRead, Reads
<1>3. /\ rd' = [rd EXCEPT ![n] = NoRead]
      /\ UNCHANGED raft /\ UNCHANGED <<clock, served, ops, cuts, processCrashes>>
  BY DEF ReadFails
<1>4. /\ rd' \in [Node -> Reads]
      /\ \A q \in Node : rd'[q].at = "serve" => Reached(rd'[q].ts)
  BY <1>2, <1>3, StageStep
<1>5. ClockTypes'  BY <1>1, <1>3, <1>4 DEF ClockTypes, clock
<1>6. \A q \in Node : hlc[q] <= hlc'[q] /\ lastTs'[q] = lastTs[q]
  BY <1>1, <1>3 DEF ClockTypes, clock
<1>7. \A x \in Keys : Reached(served'[x])  BY <1>1, <1>3 DEF ReadsReached
<1>8. ceiling' = ceiling  BY <1>3 DEF clock
<1> QED  BY <1>3, <1>4, <1>5, <1>6, <1>7, <1>8, QuietStep

\* A value is returned and the cache is told.
LEMMA ReadServeStep ==
  ASSUME TsInv, NEW n \in Node, ReadServe(n)  PROVE  TsInv'
<1>1. RaftTypes /\ ClockTypes /\ ReadsReached  BY DEF TsInv
<1>2. rd[n] \in Reads /\ rd[n].at = "serve"  BY <1>1 DEF ClockTypes, ReadServe
<1>3. rd[n].key \in Keys /\ rd[n].ts \in Nat  BY <1>2, ReadFields
<1>4. Reached(rd[n].ts)  BY <1>1, <1>2 DEF ReadsReached
<1> DEFINE k == rd[n].key
           ts == rd[n].ts
<1>5. /\ cache' = [cache EXCEPT ![n] = Bump(@, k, ts)]
      /\ served' = [served EXCEPT ![k] = Higher(@, ts)]
      /\ rd' = [rd EXCEPT ![n] = NoRead]
      /\ UNCHANGED raft
      /\ UNCHANGED <<hlc, lastTs, lastCeil, absorbed, ceiling, ops, cuts, processCrashes>>
  BY DEF ReadServe
<1> HIDE DEF k, ts
<1>6. k \in Keys /\ ts \in Nat /\ Reached(ts)  BY <1>3, <1>4 DEF k, ts
<1>7. NoRead \in Reads /\ NoRead.at # "serve"  BY DEF NoRead, Reads
<1>8. /\ rd' \in [Node -> Reads]
      /\ \A q \in Node : rd'[q].at = "serve" => Reached(rd'[q].ts)
  BY <1>5, <1>7, StageStep
<1>9. cache' \in [Node -> Caches]
  <2>1. cache \in [Node -> Caches] /\ cache[n] \in Caches  BY <1>1 DEF ClockTypes
  <2>2. Bump(cache[n], k, ts) \in Caches  BY <2>1, <1>6, CacheTypes
  <2> QED  BY <2>1, <2>2, <1>5
<1>10. /\ served' \in [Keys -> Nat]
       /\ \A x \in Keys : served'[x] = served[x] \/ served'[x] = ts
  <2>1. served \in [Keys -> Nat]  BY <1>1 DEF ClockTypes
  <2> QED  BY <2>1, <1>5, <1>6 DEF Higher
<1>11. ClockTypes'  BY <1>1, <1>5, <1>8, <1>9, <1>10 DEF ClockTypes
<1>12. \A q \in Node : hlc[q] <= hlc'[q] /\ lastTs'[q] = lastTs[q]
  BY <1>1, <1>5 DEF ClockTypes
<1>13. \A x \in Keys : Reached(served'[x])
  BY <1>1, <1>6, <1>10 DEF ReadsReached
<1> QED  BY <1>5, <1>8, <1>11, <1>12, <1>13, QuietStep

-----------------------------------------------------------------------------
(* A leader's proposals keep the invariant.                                *)

\* Every entry of a leader's log is at or below its clock or its last proposal.
LEMMA LeaderClock ==
  ASSUME TsInv, NEW n \in Node, leads[n], NEW t \in Nat, t > hlc[n], t > lastTs[n]
  PROVE  \A i \in 1 .. Len(log[n]) : log[n][i].ts < t
<1> SUFFICES ASSUME NEW i \in 1 .. Len(log[n]) PROVE log[n][i].ts < t  OBVIOUS
<1>1. ~Behind(n)  BY DEF TsInv, Replicated, LeaderFed
<1>2. log[n][i].ts <= hlc[n] \/ log[n][i].ts <= lastTs[n]
  BY <1>1 DEF TsInv, Timed, ClockAbove
<1>3. log[n] \in Seq(Entries) /\ hlc[n] \in Nat /\ lastTs[n] \in Nat
  BY DEF TsInv, RaftTypes, ClockTypes
<1>4. log[n][i].ts \in Nat  BY <1>3, EntryTypes
<1> QED  BY <1>2, <1>3, <1>4

\* An entry that a leader appends above its whole log, and that is still at or
\* below a timestamp that is reached, is in a log that the group has left.
LEMMA LowAppend ==
  ASSUME TsInv, NEW n \in Node, leads[n], NEW t \in Nat, NEW floor \in Nat,
         \A i \in 1 .. Len(log[n]) : log[n][i].ts < t,
         t > 0, t <= floor, Reached(floor)
  PROVE  \E i \in 1 .. Len(committed) :
           \/ i <= Len(log[n]) /\ committed[i].term # log[n][i].term
           \/ i = Len(log[n]) + 1 /\ committed[i].term # term[n]
<1>1. RaftTypes /\ Replicated  BY DEF TsInv
<1> DEFINE L == Len(log[n])
<1>2. /\ log \in [Node -> Seq(Entries)] /\ log[n] \in Seq(Entries)
      /\ committed \in Seq(Entries) /\ Len(committed) \in Nat /\ L \in Nat
      /\ committedIn \in Seq(Nat) /\ Len(committedIn) = Len(committed)
      /\ term[n] \in Nat
  BY <1>1 DEF RaftTypes
<1>3. PICK c \in 1 .. Len(committed) : floor <= committed[c].ts
  BY DEF Reached
<1>4. committed[c].ts \in Nat  BY <1>2, EntryTypes
<1>5. ~Upto(committed, log[n], c)
  <2>1. SUFFICES ASSUME Upto(committed, log[n], c) PROVE FALSE  OBVIOUS
  <2>2. c \in 1 .. L /\ committed[c] = log[n][c]  BY <2>1, <1>2 DEF Upto
  <2>3. committed[c].ts < t  BY <2>2
  <2> QED  BY <2>3, <1>3, <1>4
<1>6. ~(committedIn[c] <= term[n])  BY <1>1, <1>5 DEF Replicated, Complete
<1>7. PICK j \in c .. Len(committed) : committed[j].term = committedIn[c]
  BY <1>1 DEF Replicated, CommitTerms
<1>8. /\ j \in 1 .. Len(committed) /\ j \in Nat /\ committedIn[c] \in Nat
      /\ committed[j].term > term[n]
  BY <1>2, <1>6, <1>7
<1>9. CASE j <= L
  <2>1. log[n][j].term <= term[n] /\ log[n][j].term \in Nat
    <3>1. j \in 1 .. L  BY <1>9, <1>8, <1>2
    <3> QED  BY <3>1, <1>1, <1>2, EntryTypes DEF Replicated, EntryTerms
  <2>2. committed[j].term # log[n][j].term  BY <2>1, <1>8, <1>2
  <2> QED  BY <2>2, <1>9, <1>8
<1>10. CASE ~(j <= L)
  <2>1. L + 1 \in 1 .. Len(committed)  BY <1>10, <1>8, <1>2
  <2>2. Majority(CommitQuorum(L + 1))  BY <2>1, <1>1 DEF Replicated, CommittedHeld
  <2>3. Node \in SUBSET Node /\ CommitQuorum(L + 1) \in SUBSET Node
    BY DEF CommitQuorum
  <2> HIDE DEF L
  <2>4. PICK q \in Node : q \in CommitQuorum(L + 1)
    BY <2>2, <2>3, AllAreMajority, MajoritiesShare
  <2>5. Upto(committed, log[q], L + 1)  BY <2>4 DEF CommitQuorum
  <2>6. L + 1 \in 1 .. Len(log[q]) /\ log[q][L + 1] = committed[L + 1]
    BY <2>5, <1>2 DEF Upto
  <2>7. committed[L + 1].term # term[n]
    <3>1. SUFFICES ASSUME log[q][L + 1].term = term[n] PROVE FALSE  BY <2>6
    <3>2. Upto(log[q], log[n], L + 1)  BY <3>1, <2>6, <1>1 DEF Replicated, LeaderHas
    <3>3. L + 1 <= L  BY <3>2 DEF Upto, L
    <3> QED  BY <3>3, <1>2
  <2> QED  BY <2>1, <2>7 DEF L
<1> QED  BY <1>9, <1>10

\* propose_ordered with a timestamp above the clock and the last proposal.
LEMMA LoggedStep ==
  ASSUME TsInv, NEW n \in Node, NEW e \in Entries, Log(n, e), e.term = term[n],
         e.ts > hlc[n], e.ts > lastTs[n],
         e.kind = "Write" => \E k \in Keys : e.floor = served[k],
         \A q \in Node : hlc[q] <= hlc'[q],
         ClockTypes', ceiling' = ceiling, served' = served,
         \A q \in Node : rd'[q].at = "serve" => Reached(rd'[q].ts)
  PROVE  TsInv'
<1> DEFINE L == Len(log[n])
<1>1. RaftTypes /\ ClockTypes /\ Replicated /\ Timed /\ ReadsReached /\ LowIsLost
  BY DEF TsInv
<1>2. /\ leads[n] /\ Extends(n, e) /\ lastTs' = [lastTs EXCEPT ![n] = e.ts]
      /\ UNCHANGED <<term, leads, logBase, committed, committedIn, applied, image, mark>>
  BY DEF Log, Extends
<1>3. /\ log' \in [Node -> Seq(Entries)]
      /\ Len(log'[n]) = L + 1 /\ log'[n][L + 1] = e
      /\ \A q \in Node :
           /\ q # n => log'[q] = log[q]
           /\ Len(log[q]) \in Nat /\ Len(log[q]) <= Len(log'[q])
           /\ Len(log'[q]) \in Nat
           /\ \A i \in 1 .. Len(log[q]) : log'[q][i] = log[q][i]
           /\ \A i \in 1 .. Len(log'[q]) :
                i \in 1 .. Len(log[q]) \/ (q = n /\ i = L + 1)
  BY <1>1, <1>2, ExtendsFacts
<1> HIDE DEF L
<1>4. /\ e.ts \in Nat /\ e.floor \in Nat /\ hlc[n] \in Nat /\ lastTs[n] \in Nat
      /\ L \in Nat /\ lastTs \in [Node -> Nat]
  <2>1. e.ts \in Nat /\ e.floor \in Nat  BY DEF Entries
  <2>2. hlc[n] \in Nat /\ lastTs[n] \in Nat /\ lastTs \in [Node -> Nat]
    BY <1>1 DEF ClockTypes
  <2>3. L \in Nat  BY <1>1 DEF RaftTypes, L
  <2> QED  BY <2>1, <2>2, <2>3
<1>5. \A i \in 1 .. L : log[n][i].ts < e.ts  BY <1>2, <1>4, LeaderClock DEF L
<1>6. RaftTypes'  BY <1>1, <1>2, <1>3 DEF RaftTypes
<1>7. Replicated'  BY <1>1, <1>2, AppendReplicated
<1>8. LogsRise'
  <2> SUFFICES ASSUME NEW q \in Node, NEW j \in 1 .. Len(log'[q]), log'[q][j].ts > 0,
                      NEW i \in 1 .. j - 1
               PROVE  log'[q][i].ts < log'[q][j].ts
    BY DEF LogsRise, Rising
  <2>1. CASE j \in 1 .. Len(log[q])
    <3>1. i \in 1 .. Len(log[q])  BY <2>1, <1>3
    <3>2. log[q][i].ts < log[q][j].ts
      BY <2>1, <1>1, <1>3 DEF Timed, LogsRise, Rising
    <3> QED  BY <3>1, <3>2, <2>1, <1>3
  <2>2. CASE q = n /\ j = L + 1
    <3>1. i \in 1 .. L  BY <2>2, <1>4
    <3> QED  BY <3>1, <2>2, <1>3, <1>5 DEF L
  <2> QED  BY <2>1, <2>2, <1>3
<1>9. ClockAbove'
  <2> SUFFICES ASSUME NEW q \in Node, NEW i \in 1 .. Len(log'[q]),
                      i > logBase[q] \/ ~Behind(q)
               PROVE  log'[q][i].ts <= hlc'[q] \/ log'[q][i].ts <= lastTs'[q]
    BY <1>2 DEF ClockAbove, Behind
  <2>1. CASE q = n
    <3>1. lastTs'[q] = e.ts  BY <2>1, <1>2, <1>4
    <3>2. CASE i \in 1 .. L
      <4>1. log'[q][i].ts < e.ts  BY <3>2, <2>1, <1>3, <1>5 DEF L
      <4>2. log'[q][i].ts \in Nat  BY <1>3, EntryTypes
      <4> QED  BY <3>1, <4>1, <4>2, <1>4
    <3>3. CASE i = L + 1
      <4>1. log'[q][i].ts = e.ts  BY <3>3, <2>1, <1>3
      <4> QED  BY <3>1, <4>1, <1>4
    <3> QED  BY <3>2, <3>3, <2>1, <1>3 DEF L
  <2>2. CASE q # n
    <3>1. log'[q] = log[q] /\ lastTs'[q] = lastTs[q]  BY <2>2, <1>2, <1>3, <1>4
    <3>2. log[q][i].ts <= hlc[q] \/ log[q][i].ts <= lastTs[q]
      BY <3>1, <1>1 DEF Timed, ClockAbove
    <3>3. log'[q][i].ts \in Nat  BY <1>3, EntryTypes
    <3>4. hlc[q] \in Nat /\ hlc'[q] \in Nat /\ hlc[q] <= hlc'[q]  BY <1>1 DEF ClockTypes
    <3> QED  BY <3>1, <3>2, <3>3, <3>4
  <2> QED  BY <2>1, <2>2
<1>10. \A q \in Node : \A i \in 1 .. logBase[q] : log'[q][i] = log[q][i]
  <2> SUFFICES ASSUME NEW q \in Node, NEW i \in 1 .. logBase[q]
               PROVE  log'[q][i] = log[q][i]
    OBVIOUS
  <2>1. logBase[q] \in Nat  BY <1>1 DEF RaftTypes
  <2>2. logBase[q] <= Len(log[q])
    BY <2>1, <1>1, <1>3 DEF Replicated, SureOnly, Sure, Upto
  <2>3. i \in 1 .. Len(log[q])  BY <2>1, <2>2, <1>3
  <2> QED  BY <2>3, <1>3
<1>11. MarkAbove' /\ ImageAbove'
  BY <1>1, <1>2, <1>10 DEF Timed, MarkAbove, ImageAbove, Behind
<1>12. ReadsReached'  BY <1>1, <1>2 DEF ReadsReached, Reached
<1>13. LowIsLost'
  <2> SUFFICES ASSUME NEW q \in Node, NEW j \in 1 .. Len(log'[q]), Low(log'[q][j])
               PROVE  \E i \in 1 .. j : i <= Len(committed)
                                          /\ committed[i].term # log'[q][i].term
    BY <1>2 DEF LowIsLost
  <2>1. CASE j \in 1 .. Len(log[q])
    <3>1. Low(log[q][j])  BY <2>1, <1>3
    <3>2. PICK i \in 1 .. j : i <= Len(committed) /\ committed[i].term # log[q][i].term
      BY <2>1, <3>1, <1>1 DEF LowIsLost
    <3>3. i \in 1 .. Len(log[q])  BY <2>1, <1>3
    <3>4. log'[q][i] = log[q][i]  BY <3>3, <1>3
    <3> QED  BY <3>2, <3>4
  <2>2. CASE q = n /\ j = L + 1
    <3>1. e.kind = "Write" /\ e.ts <= e.floor  BY <2>2, <1>3 DEF Low
    <3>2. PICK k \in Keys : e.floor = served[k]  BY <3>1
    <3>3. Reached(e.floor)  BY <3>2, <1>1 DEF ReadsReached
    <3>4. e.ts > 0  BY <1>4
    <3>5. PICK i \in 1 .. Len(committed) :
            \/ i <= L /\ committed[i].term # log[n][i].term
            \/ i = L + 1 /\ committed[i].term # term[n]
      BY <1>2, <1>4, <1>5, <3>1, <3>3, <3>4, LowAppend DEF L
    <3>6. Len(committed) \in Nat  BY <1>1 DEF RaftTypes
    <3>7. CASE i <= L /\ committed[i].term # log[n][i].term
      <4>1. i \in 1 .. L /\ i \in 1 .. j /\ i <= Len(committed)
        BY <3>6, <3>7, <2>2, <1>4
      <4>2. log'[q][i] = log[n][i]  BY <4>1, <2>2, <1>3 DEF L
      <4> QED  BY <4>1, <4>2, <3>7
    <3>8. CASE i = L + 1 /\ committed[i].term # term[n]
      <4>1. i \in 1 .. j /\ i <= Len(committed)  BY <3>6, <3>8, <2>2, <1>4
      <4>2. log'[q][i].term = term[n]  BY <3>8, <2>2, <1>3
      <4> QED  BY <4>1, <4>2, <3>8
    <3> QED  BY <3>5, <3>7, <3>8
  <2> QED  BY <2>1, <2>2, <1>3
<1> QED  BY <1>6, <1>7, <1>8, <1>9, <1>11, <1>12, <1>13 DEF TsInv, Timed

\* put, cas and the like.
LEMMA ProposeStep ==
  ASSUME TsInv, NEW n \in Node, NEW k \in Keys, ProposeCommand(n, k)  PROVE  TsInv'
<1>1. PICK kind \in {"Write", "Miss"} :
        /\ Begin /\ Mint(n) /\ Absorb(n)
        /\ Log(n, [term |-> term[n], kind |-> kind, key |-> k,
                   ts |-> Above(Minted(n), PushFloor(n, k)), floor |-> served[k]])
        /\ UNCHANGED <<lastCeil, ceiling, rd, served, cuts, processCrashes>>
  BY DEF ProposeCommand
<1> DEFINE t == Above(Minted(n), PushFloor(n, k))
           e == [term |-> term[n], kind |-> kind, key |-> k, ts |-> t, floor |-> served[k]]
<1>2. RaftTypes /\ ClockTypes /\ ReadsReached  BY DEF TsInv
<1>3. /\ hlc[n] \in Nat /\ lastTs[n] \in Nat /\ served[k] \in Nat /\ term[n] \in Nat
      /\ hlc \in [Node -> Nat]
  BY <1>2 DEF ClockTypes, RaftTypes
<1>4. Minted(n) \in Nat /\ Minted(n) > hlc[n]  BY <1>3, MintFacts
<1>5. /\ PushFloor(n, k) \in Nat /\ PushFloor(n, k) >= lastTs[n]
      /\ Absorbed(n) \in Caches
  BY <1>2, PushFacts
<1>6. t \in Nat /\ t > PushFloor(n, k) /\ t >= Minted(n)
  BY <1>3, <1>4, <1>5, MintFacts
<1> HIDE DEF t
<1>7. t > hlc[n] /\ t > lastTs[n]  BY <1>3, <1>4, <1>5, <1>6
<1>8. e \in Entries /\ e.ts = t /\ e.term = term[n] /\ e.floor = served[k]
  BY <1>1, <1>3, <1>6 DEF Entries, Kinds
<1>9. Log(n, e)  BY <1>1 DEF t
<1> HIDE DEF e
<1>10. hlc' \in [Node -> Nat] /\ \A q \in Node : hlc[q] <= hlc'[q]
  BY <1>1, <1>3, <1>4 DEF Mint
<1>11. lastTs' \in [Node -> Nat]
  BY <1>2, <1>6, <1>8, <1>9 DEF Log, ClockTypes
<1>12. cache' \in [Node -> Caches] /\ absorbed' \in [Node -> Nat \cup {NoTerm}]
  BY <1>1, <1>2, <1>3, <1>5 DEF Absorb, ClockTypes
<1>13. ops' \in Nat  BY <1>1, <1>2 DEF Begin, ClockTypes
<1>14. ClockTypes'  BY <1>1, <1>2, <1>10, <1>11, <1>12, <1>13 DEF ClockTypes
<1>15. \A q \in Node : rd'[q].at = "serve" => Reached(rd'[q].ts)
  BY <1>1, <1>2 DEF ReadsReached
<1> QED  BY <1>1, <1>7, <1>8, <1>9, <1>10, <1>14, <1>15, LoggedStep

\* ensure_ceiling_above.
LEMMA ReadCeilingStep ==
  ASSUME TsInv, NEW n \in Node, ReadCeiling(n)  PROVE  TsInv'
<1> DEFINE c == Candidate(n, Minted(n))
           e == [term |-> term[n], kind |-> "Ceiling", key |-> NoKey, ts |-> c,
                 floor |-> 0]
           r == [at |-> "wait", key |-> rd[n].key, ts |-> Minted(n)]
<1>1. /\ rd[n].at = "mint" /\ Mint(n)
      /\ lastCeil' = [lastCeil EXCEPT ![n] = c] /\ Log(n, e)
      /\ rd' = [rd EXCEPT ![n] = r]
      /\ UNCHANGED <<absorbed, ceiling, cache, served, ops, cuts, processCrashes>>
  BY DEF ReadCeiling
<1>2. RaftTypes /\ ClockTypes  BY DEF TsInv
<1>3. /\ hlc[n] \in Nat /\ lastTs[n] \in Nat /\ lastCeil[n] \in Nat /\ term[n] \in Nat
      /\ hlc \in [Node -> Nat] /\ rd[n] \in Reads
  BY <1>2 DEF ClockTypes, RaftTypes
<1>4. Minted(n) \in Nat /\ Minted(n) > hlc[n]  BY <1>3, MintFacts
<1>5. c \in Nat /\ c > lastTs[n] /\ c > hlc[n]
  <2> DEFINE h == Higher(lastCeil[n], lastTs[n])
  <2>1. h \in Nat /\ h >= lastTs[n]  BY <1>3, MintFacts
  <2>2. Offset \in Nat  BY ReadTsAssumption
  <2>3. Minted(n) + Offset \in Nat /\ Minted(n) + Offset > hlc[n]  BY <1>3, <1>4, <2>2
  <2>4. c = Above(Minted(n) + Offset, h)  BY DEF Candidate
  <2> HIDE DEF c, h
  <2>5. c \in Nat /\ c > h /\ c >= Minted(n) + Offset
    BY <2>1, <2>3, <2>4, <1>3, MintFacts
  <2> QED  BY <2>1, <2>3, <2>5, <1>3
<1>6. r \in Reads /\ r.at # "serve"
  <2>1. rd[n].key \in Keys  BY <1>1, <1>3, ReadFields
  <2> QED  BY <2>1, <1>4, StageTypes
<1> HIDE DEF c
<1>7. e \in Entries /\ e.ts = c /\ e.term = term[n] /\ e.kind # "Write"
  BY <1>3, <1>5 DEF Entries, Kinds
<1> HIDE DEF e, r
<1>8. hlc' \in [Node -> Nat] /\ \A q \in Node : hlc[q] <= hlc'[q]
  BY <1>1, <1>3, <1>4 DEF Mint
<1>9. lastTs' \in [Node -> Nat] /\ lastCeil' \in [Node -> Nat]
  BY <1>1, <1>2, <1>5, <1>7 DEF Log, ClockTypes
<1>10. /\ rd' \in [Node -> Reads]
       /\ \A q \in Node : rd'[q].at = "serve" => Reached(rd'[q].ts)
  BY <1>1, <1>6, StageStep
<1>11. ClockTypes'  BY <1>1, <1>2, <1>8, <1>9, <1>10 DEF ClockTypes
<1> QED  BY <1>1, <1>5, <1>7, <1>8, <1>10, <1>11, LoggedStep

\* Raft elects n.
LEMMA ElectStep ==
  ASSUME TsInv, NEW n \in Node, Elect(n)  PROVE  TsInv'
<1>1. RaftTypes /\ ClockTypes /\ Replicated /\ Timed /\ ReadsReached /\ LowIsLost
  BY DEF TsInv
<1>2. PICK Q \in SUBSET {q \in Node : UpToDate(log[n], log[q])} :
        LET t == 1 + Highest({term[q] : q \in Q}) IN
        /\ n \in Q /\ Majority(Q) /\ t <= MaxTerm
        /\ term' = [m \in Node |-> IF m \in Q THEN t ELSE term[m]]
        /\ leads' = [m \in Node |-> IF m \in Q THEN m = n ELSE leads[m]]
        /\ log' = [log EXCEPT ![n] = Append(@, NoOp(t))]
  BY DEF Elect
<1> DEFINE t == 1 + Highest({term[q] : q \in Q})
           e == NoOp(t)
           L == Len(log[n])
<1>3. /\ ~Behind(n) /\ n \in Q /\ Majority(Q) /\ Q \in SUBSET Node
      /\ term' = [m \in Node |-> IF m \in Q THEN t ELSE term[m]]
      /\ leads' = [m \in Node |-> IF m \in Q THEN m = n ELSE leads[m]]
      /\ Extends(n, e)
      /\ \A q \in Q : UpToDate(log[n], log[q])
      /\ UNCHANGED <<logBase, committed, committedIn, applied, image, mark>>
      /\ UNCHANGED <<clock, rd, served, ops, cuts, processCrashes>>
  BY <1>2 DEF Elect, Extends
<1>4. t \in Nat /\ \A q \in Q : term[q] < t
  <2> DEFINE S == {term[q] : q \in Q}
             f == [q \in Q |-> term[q]]
  <2>1. term \in [Node -> Nat]  BY <1>1 DEF RaftTypes
  <2>2. f \in [Q -> Nat]  BY <1>3, <2>1
  <2>3. IsFiniteSet(Q)  BY <1>3, ReadTsAssumption, FS_Subset
  <2> HIDE DEF f
  <2>4. PICK b \in Nat : \A q \in Q : f[q] <= b  BY <2>2, <2>3, FiniteBound
  <2>5. S \in SUBSET Nat  BY <1>3, <2>1
  <2>6. \A y \in S : y <= b  BY <2>4 DEF f
  <2>7. \A q \in Q : term[q] \in S  OBVIOUS
  <2> HIDE DEF S
  <2>8. Highest(S) \in Nat /\ \A y \in S : y <= Highest(S)
    BY <2>5, <2>6, HighestFacts
  <2>9. t = 1 + Highest(S)  BY DEF S
  <2> HIDE DEF t
  <2>10. t \in Nat  BY <2>8, <2>9
  <2>11. \A q \in Q : term[q] < t
    <3> SUFFICES ASSUME NEW q \in Q PROVE term[q] < t  OBVIOUS
    <3>1. term[q] \in Nat /\ term[q] <= Highest(S)  BY <2>1, <2>7, <2>8, <1>3
    <3> QED  BY <3>1, <2>8, <2>9
  <2> QED  BY <2>10, <2>11
<1> HIDE DEF t
<1>5. e \in Entries /\ e.ts = 0 /\ e.kind = "NoOp"  BY <1>4 DEF NoOp, Entries, Kinds
<1>6. Replicated'  BY <1>1, <1>3, <1>4, ElectReplicated
<1> HIDE DEF e
<1>7. /\ log' \in [Node -> Seq(Entries)]
      /\ Len(log'[n]) = L + 1 /\ log'[n][L + 1] = e
      /\ \A q \in Node :
           /\ q # n => log'[q] = log[q]
           /\ Len(log[q]) \in Nat /\ Len(log[q]) <= Len(log'[q])
           /\ Len(log'[q]) \in Nat
           /\ \A i \in 1 .. Len(log[q]) : log'[q][i] = log[q][i]
           /\ \A i \in 1 .. Len(log'[q]) :
                i \in 1 .. Len(log[q]) \/ (q = n /\ i = L + 1)
  BY <1>1, <1>3, <1>5, ExtendsFacts
<1> HIDE DEF L
<1>8. RaftTypes'
  <2>1. term' \in [Node -> Nat] /\ leads' \in [Node -> BOOLEAN]
    BY <1>1, <1>3, <1>4 DEF RaftTypes
  <2> QED  BY <2>1, <1>1, <1>3, <1>7 DEF RaftTypes
<1>9. ClockTypes'  BY <1>1, <1>3 DEF ClockTypes, clock
<1>10. LogsRise'
  <2> SUFFICES ASSUME NEW q \in Node, NEW j \in 1 .. Len(log'[q]), log'[q][j].ts > 0,
                      NEW i \in 1 .. j - 1
               PROVE  log'[q][i].ts < log'[q][j].ts
    BY DEF LogsRise, Rising
  <2>1. CASE j \in 1 .. Len(log[q])
    <3>1. i \in 1 .. Len(log[q])  BY <2>1, <1>7
    <3>2. log[q][i].ts < log[q][j].ts
      BY <2>1, <1>1, <1>7 DEF Timed, LogsRise, Rising
    <3> QED  BY <3>1, <3>2, <2>1, <1>7
  <2>2. CASE q = n /\ j = L + 1
    <3>1. log'[q][j].ts = 0  BY <2>2, <1>5, <1>7
    <3> QED  BY <3>1
  <2> QED  BY <2>1, <2>2, <1>7
<1>11. ClockAbove'
  <2>1. UNCHANGED <<hlc, lastTs>>  BY <1>3 DEF clock
  <2> SUFFICES ASSUME NEW q \in Node, NEW i \in 1 .. Len(log'[q]),
                      i > logBase[q] \/ ~Behind(q)
               PROVE  log'[q][i].ts <= hlc[q] \/ log'[q][i].ts <= lastTs[q]
    BY <1>3, <2>1 DEF ClockAbove, Behind
  <2>2. CASE i \in 1 .. Len(log[q])
    BY <2>2, <1>1, <1>7 DEF Timed, ClockAbove
  <2>3. CASE q = n /\ i = L + 1
    <3>1. log'[q][i].ts = 0 /\ hlc[q] \in Nat
      BY <2>3, <1>1, <1>5, <1>7 DEF ClockTypes
    <3> QED  BY <3>1
  <2> QED  BY <2>2, <2>3, <1>7
<1>12. \A q \in Node : \A i \in 1 .. logBase[q] : log'[q][i] = log[q][i]
  <2> SUFFICES ASSUME NEW q \in Node, NEW i \in 1 .. logBase[q]
               PROVE  log'[q][i] = log[q][i]
    OBVIOUS
  <2>1. logBase[q] \in Nat  BY <1>1 DEF RaftTypes
  <2>2. logBase[q] <= Len(log[q])
    BY <2>1, <1>1, <1>7 DEF Replicated, SureOnly, Sure, Upto
  <2>3. i \in 1 .. Len(log[q])  BY <2>1, <2>2, <1>7
  <2> QED  BY <2>3, <1>7
<1>13. MarkAbove' /\ ImageAbove'
  BY <1>1, <1>3, <1>12 DEF Timed, MarkAbove, ImageAbove, Behind
<1>14. ReadsReached'  BY <1>1, <1>3 DEF ReadsReached, Reached, clock
<1>15. LowIsLost'
  <2> SUFFICES ASSUME NEW q \in Node, NEW j \in 1 .. Len(log'[q]), Low(log'[q][j])
               PROVE  \E i \in 1 .. j : i <= Len(committed)
                                          /\ committed[i].term # log'[q][i].term
    BY <1>3 DEF LowIsLost
  <2>1. CASE j \in 1 .. Len(log[q])
    <3>1. Low(log[q][j])  BY <2>1, <1>7
    <3>2. PICK i \in 1 .. j : i <= Len(committed) /\ committed[i].term # log[q][i].term
      BY <2>1, <3>1, <1>1 DEF LowIsLost
    <3>3. i \in 1 .. Len(log[q])  BY <2>1, <1>7
    <3>4. log'[q][i] = log[q][i]  BY <3>3, <1>7
    <3> QED  BY <3>2, <3>4
  <2>2. CASE q = n /\ j = L + 1
    <3>1. log'[q][j].kind = "NoOp"  BY <2>2, <1>5, <1>7
    <3> QED  BY <3>1 DEF Low
  <2> QED  BY <2>1, <2>2, <1>7
<1> QED  BY <1>6, <1>8, <1>9, <1>10, <1>11, <1>13, <1>14, <1>15 DEF TsInv, Timed
-----------------------------------------------------------------------------
(* The engine's steps keep the invariant.                                  *)

\* An entry that a node is sure of is in its log, and its timestamp is reached.
LEMMA SureReached ==
  ASSUME RaftTypes, NEW n \in Node, NEW i \in Nat, Sure(n, i), NEW j \in 1 .. i
  PROVE  j \in 1 .. Len(log[n]) /\ log[n][j].ts \in Nat /\ Reached(log[n][j].ts)
<1>1. /\ committed \in Seq(Entries) /\ Len(committed) \in Nat
      /\ log[n] \in Seq(Entries) /\ Len(log[n]) \in Nat
  BY DEF RaftTypes
<1>2. i <= Len(committed) /\ Upto(committed, log[n], i)  BY DEF Sure
<1>3. j \in 1 .. Len(committed) /\ j \in 1 .. Len(log[n]) /\ committed[j] = log[n][j]
  BY <1>1, <1>2 DEF Upto
<1>4. log[n][j].ts \in Nat  BY <1>1, <1>3, EntryTypes
<1>5. log[n][j].ts <= committed[j].ts  BY <1>3, <1>4
<1> QED  BY <1>3, <1>4, <1>5 DEF Reached

\* A step of one node that leaves all logs alone.
LEMMA LocalStep ==
  ASSUME TsInv, NEW n \in Node, RaftTypes', ClockTypes',
         UNCHANGED <<term, log, committed, committedIn, served>>,
         \A q \in Node : q # n =>
           /\ leads'[q] = leads[q] /\ logBase'[q] = logBase[q]
           /\ applied'[q] = applied[q] /\ image'[q] = image[q] /\ mark'[q] = mark[q]
           /\ hlc'[q] = hlc[q] /\ lastTs'[q] = lastTs[q] /\ ceiling'[q] = ceiling[q]
           /\ rd'[q] = rd[q],
         leads'[n] => leads[n] /\ ~Behind(n)',
         Sure(n, applied'[n]), Sure(n, logBase'[n]),
         \A i \in 1 .. Len(log[n]) : i > logBase'[n] \/ ~Behind(n)' =>
           log[n][i].ts <= hlc'[n] \/ log[n][i].ts <= lastTs'[n],
         ~Behind(n)' => \A i \in 1 .. logBase'[n] : log[n][i].ts <= mark'[n],
         image'[n] # NoImage => /\ Behind(n)' /\ Reached(image'[n])
                                /\ \A i \in 1 .. logBase'[n] : log[n][i].ts <= image'[n],
         Reached(mark'[n]), Reached(ceiling'[n]),
         rd'[n].at = "serve" => Reached(rd'[n].ts)
  PROVE  TsInv'
<1>1. RaftTypes /\ ClockTypes /\ Replicated /\ Timed /\ ReadsReached /\ LowIsLost
  BY DEF TsInv
<1>2. \A q \in Node : q # n => (Behind(q)' <=> Behind(q))  BY DEF Behind
<1>3. Replicated'
  <2>1. \A q \in Node : Sure(q, applied'[q]) /\ Sure(q, logBase'[q])
    BY <1>1 DEF Replicated, SureOnly
  <2>2. \A q \in Node : leads'[q] => leads[q] /\ ~Behind(q)'
    BY <1>1, <1>2 DEF Replicated, LeaderFed
  <2> QED  BY <1>1, <2>1, <2>2, ProgressReplicated
<1>4. LogsRise'  BY <1>1 DEF Timed, LogsRise, Rising
<1>5. ClockAbove'  BY <1>1, <1>2 DEF Timed, ClockAbove
<1>6. MarkAbove'  BY <1>1, <1>2 DEF Timed, MarkAbove
<1>7. ImageAbove'  BY <1>1, <1>2 DEF Timed, ImageAbove
<1>8. ReadsReached'  BY <1>1 DEF ReadsReached, Reached
<1>9. LowIsLost'  BY <1>1 DEF LowIsLost
<1> QED  BY <1>3, <1>4, <1>5, <1>6, <1>7, <1>8, <1>9 DEF TsInv, Timed

\* A pass of the apply task.
LEMMA ApplyStep ==
  ASSUME TsInv, NEW n \in Node, Apply(n)  PROVE  TsInv'
<1> DEFINE k == Known(n)
           T == {log[n][j].ts : j \in {m \in applied[n] + 1 .. k : log[n][m].kind = "Ceiling"}}
           X == {ceiling[n]} \cup T
<1>1. RaftTypes /\ ClockTypes /\ Replicated /\ Timed /\ ReadsReached  BY DEF TsInv
<1>2. /\ ~Behind(n) /\ applied[n] < k
      /\ applied' = [applied EXCEPT ![n] = k]
      /\ ceiling' = [ceiling EXCEPT ![n] = Highest(X)]
      /\ UNCHANGED <<term, leads, log, logBase, committed, committedIn, image, mark>>
      /\ UNCHANGED <<hlc, lastTs, lastCeil, absorbed, cache, rd, served, ops, cuts,
                     processCrashes>>
  BY DEF Apply
<1>3. k \in Nat /\ Sure(n, k)  BY <1>1, KnownFacts
<1> HIDE DEF k
<1>4. /\ applied[n] \in Nat /\ logBase[n] \in Nat /\ ceiling[n] \in Nat
      /\ applied \in [Node -> Nat] /\ ceiling \in [Node -> Nat]
      /\ log[n] \in Seq(Entries)
  BY <1>1 DEF RaftTypes, ClockTypes
<1>5. \A v \in T : \E j \in 1 .. k : v = log[n][j].ts
  <2> SUFFICES ASSUME NEW v \in T PROVE \E j \in 1 .. k : v = log[n][j].ts  OBVIOUS
  <2>1. PICK j \in applied[n] + 1 .. k : v = log[n][j].ts  OBVIOUS
  <2>2. j \in 1 .. k  BY <1>3, <1>4
  <2> QED  BY <2>1, <2>2
<1> HIDE DEF T
<1>6. \A v \in X : v = ceiling[n] \/ v = ceiling[n] \/ \E j \in 1 .. Len(log[n]) : v = log[n][j].ts
  <2> SUFFICES ASSUME NEW v \in T PROVE \E j \in 1 .. Len(log[n]) : v = log[n][j].ts
    OBVIOUS
  <2>1. PICK j \in 1 .. k : v = log[n][j].ts  BY <1>5
  <2>2. j \in 1 .. Len(log[n])  BY <1>1, <1>3, SureReached
  <2> QED  BY <2>1, <2>2
<1>7. \A v \in X : Reached(v)
  <2>1. Reached(ceiling[n])  BY <1>1 DEF ReadsReached
  <2>2. ASSUME NEW v \in T PROVE Reached(v)
    <3>1. PICK j \in 1 .. k : v = log[n][j].ts  BY <1>5
    <3>2. Reached(log[n][j].ts)  BY <1>1, <1>3, SureReached
    <3> QED  BY <3>1, <3>2
  <2> QED  BY <2>1, <2>2
<1> HIDE DEF X
<1>8. Highest(X) \in Nat /\ (Highest(X) \in X \/ Highest(X) = 0)
  BY <1>4, <1>6, HighestOverLog
<1>9. Reached(Highest(X))  BY <1>7, <1>8 DEF Reached
<1>10. applied'[n] = k /\ ceiling'[n] = Highest(X)  BY <1>2, <1>4
<1>11. ~Behind(n)'  BY <1>2, <1>3, <1>4, <1>10 DEF Behind
<1>12. RaftTypes' /\ ClockTypes'
  BY <1>1, <1>2, <1>3, <1>4, <1>8 DEF RaftTypes, ClockTypes
<1>13. image[n] = NoImage  BY <1>1, <1>2 DEF Timed, ImageAbove
<1>14. /\ \A q \in Node : q # n => applied'[q] = applied[q] /\ ceiling'[q] = ceiling[q]
  BY <1>2, <1>4
<1>15. Sure(n, logBase[n])  BY <1>1 DEF Replicated, SureOnly
<1>16. \A i \in 1 .. Len(log[n]) : log[n][i].ts <= hlc[n] \/ log[n][i].ts <= lastTs[n]
  BY <1>1, <1>2 DEF Timed, ClockAbove
<1>17. \A i \in 1 .. logBase[n] : log[n][i].ts <= mark[n]
  BY <1>1, <1>2 DEF Timed, MarkAbove
<1>18. Reached(mark[n]) /\ (rd[n].at = "serve" => Reached(rd[n].ts))
  BY <1>1 DEF ReadsReached
<1> QED  BY <1>2, <1>3, <1>9, <1>10, <1>11, <1>12, <1>13, <1>14, <1>15, <1>16, <1>17,
            <1>18, LocalStep

\* A compaction writes the mark and cuts the log.
LEMMA CompactStep ==
  ASSUME TsInv, NEW n \in Node, Compact(n)  PROVE  TsInv'
<1> DEFINE T == TsBetween(log[n], logBase[n], applied[n])
           X == {mark[n]} \cup T
<1>1. RaftTypes /\ ClockTypes /\ Replicated /\ Timed /\ ReadsReached  BY DEF TsInv
<1>2. /\ logBase[n] < applied[n] /\ cuts' = cuts + 1
      /\ logBase' = [logBase EXCEPT ![n] = applied[n]]
      /\ mark' = [mark EXCEPT ![n] = Highest(X)]
      /\ UNCHANGED <<term, leads, log, committed, committedIn, applied, image>>
      /\ UNCHANGED <<hlc, lastTs, lastCeil, absorbed, ceiling, cache, rd, served, ops,
                     processCrashes>>
  BY DEF Compact, HighWaterMark, clock
<1>3. /\ applied[n] \in Nat /\ logBase[n] \in Nat /\ mark[n] \in Nat
      /\ logBase \in [Node -> Nat] /\ mark \in [Node -> Nat]
      /\ log[n] \in Seq(Entries)
  BY <1>1 DEF RaftTypes
<1>4. Sure(n, applied[n])  BY <1>1 DEF Replicated, SureOnly
<1>5. \A v \in T : \E j \in 1 .. applied[n] : v = log[n][j].ts
  <2> SUFFICES ASSUME NEW v \in T PROVE \E j \in 1 .. applied[n] : v = log[n][j].ts
    OBVIOUS
  <2>1. PICK j \in logBase[n] + 1 .. applied[n] : v = log[n][j].ts  BY DEF TsBetween
  <2>2. j \in 1 .. applied[n]  BY <1>3
  <2> QED  BY <2>1, <2>2
<1>6. \A j \in logBase[n] + 1 .. applied[n] : log[n][j].ts \in T  BY DEF TsBetween
<1> HIDE DEF T
<1>7. \A v \in X : v = mark[n] \/ v = mark[n] \/ \E j \in 1 .. Len(log[n]) : v = log[n][j].ts
  <2> SUFFICES ASSUME NEW v \in T PROVE \E j \in 1 .. Len(log[n]) : v = log[n][j].ts
    OBVIOUS
  <2>1. PICK j \in 1 .. applied[n] : v = log[n][j].ts  BY <1>5
  <2>2. j \in 1 .. Len(log[n])  BY <1>1, <1>3, <1>4, SureReached
  <2> QED  BY <2>1, <2>2
<1>8. \A v \in X : Reached(v)
  <2>1. Reached(mark[n])  BY <1>1 DEF ReadsReached
  <2>2. ASSUME NEW v \in T PROVE Reached(v)
    <3>1. PICK j \in 1 .. applied[n] : v = log[n][j].ts  BY <1>5
    <3>2. Reached(log[n][j].ts)  BY <1>1, <1>3, <1>4, SureReached
    <3> QED  BY <3>1, <3>2
  <2> QED  BY <2>1, <2>2
<1>9. mark[n] \in X /\ \A v \in T : v \in X  OBVIOUS
<1> HIDE DEF X
<1>10. /\ Highest(X) \in Nat /\ (Highest(X) \in X \/ Highest(X) = 0)
       /\ \A v \in X : v <= Highest(X)
  BY <1>3, <1>7, HighestOverLog
<1>11. Reached(Highest(X))  BY <1>8, <1>10 DEF Reached
<1>12. ~Behind(n)  BY <1>2, <1>3 DEF Behind
<1>13. logBase'[n] = applied[n] /\ mark'[n] = Highest(X)  BY <1>2, <1>3
<1>14. ~Behind(n)'  BY <1>2, <1>3, <1>13 DEF Behind
<1>15. ASSUME NEW i \in 1 .. applied[n] PROVE log[n][i].ts <= Highest(X)
  <2>1. log[n][i].ts \in Nat  BY <1>1, <1>3, <1>4, SureReached
  <2>2. CASE i <= logBase[n]
    <3>1. i \in 1 .. logBase[n]  BY <2>2, <1>3
    <3>2. log[n][i].ts <= mark[n]  BY <3>1, <1>1, <1>12 DEF Timed, MarkAbove
    <3>3. mark[n] <= Highest(X)  BY <1>9, <1>10
    <3> QED  BY <3>2, <3>3, <2>1, <1>3, <1>10
  <2>3. CASE ~(i <= logBase[n])
    <3>1. i \in logBase[n] + 1 .. applied[n]  BY <2>3, <1>3
    <3>2. log[n][i].ts \in X  BY <3>1, <1>6, <1>9
    <3> QED  BY <3>2, <1>10
  <2> QED  BY <2>2, <2>3
<1>16. image[n] = NoImage  BY <1>1, <1>12 DEF Timed, ImageAbove
<1>17. RaftTypes' /\ ClockTypes'
  <2>1. logBase' \in [Node -> Nat] /\ mark' \in [Node -> Nat]  BY <1>2, <1>3, <1>10
  <2>2. RaftTypes'  BY <2>1, <1>1, <1>2 DEF RaftTypes
  <2>3. ClockTypes'  BY <1>1, <1>2 DEF ClockTypes
  <2> QED  BY <2>2, <2>3
<1>18. \A q \in Node : q # n => logBase'[q] = logBase[q] /\ mark'[q] = mark[q]
  BY <1>2, <1>3
<1>19. \A i \in 1 .. Len(log[n]) : log[n][i].ts <= hlc[n] \/ log[n][i].ts <= lastTs[n]
  BY <1>1, <1>12 DEF Timed, ClockAbove
<1>20. Reached(ceiling[n]) /\ (rd[n].at = "serve" => Reached(rd[n].ts))
  BY <1>1 DEF ReadsReached
<1> QED  BY <1>2, <1>4, <1>11, <1>13, <1>14, <1>15, <1>16, <1>17, <1>18, <1>19, <1>20,
            LocalStep

\* install_engine_image.
LEMMA InstallEngineStep ==
  ASSUME TsInv, NEW n \in Node, InstallEngine(n)  PROVE  TsInv'
<1> DEFINE h == Highest({image[n]} \cup {hlc[n]})
<1>1. RaftTypes /\ ClockTypes /\ Replicated /\ Timed /\ ReadsReached  BY DEF TsInv
<1>2. /\ image[n] # NoImage
      /\ applied' = [applied EXCEPT ![n] = Higher(@, logBase[n])]
      /\ mark' = [mark EXCEPT ![n] = Higher(@, image[n])]
      /\ image' = [image EXCEPT ![n] = NoImage]
      /\ hlc' = [hlc EXCEPT ![n] = h]
      /\ UNCHANGED <<term, leads, log, logBase, committed, committedIn>>
      /\ UNCHANGED <<lastTs, lastCeil, absorbed, ceiling, cache, rd, served, ops, cuts,
                     processCrashes>>
  BY DEF InstallEngine, Witness
<1>3. /\ applied[n] \in Nat /\ logBase[n] \in Nat /\ mark[n] \in Nat /\ hlc[n] \in Nat
      /\ image[n] \in Nat /\ log[n] \in Seq(Entries) /\ lastTs[n] \in Nat
      /\ applied \in [Node -> Nat] /\ mark \in [Node -> Nat] /\ hlc \in [Node -> Nat]
      /\ image \in [Node -> Nat \cup {NoImage}]
  BY <1>1, <1>2 DEF RaftTypes, ClockTypes
<1>4. Behind(n) /\ \A i \in 1 .. logBase[n] : log[n][i].ts <= image[n]
  BY <1>1, <1>2 DEF Timed, ImageAbove
<1>5. h \in Nat /\ h >= hlc[n] /\ h >= image[n]
  <2> DEFINE S == {image[n]} \cup {hlc[n]}
  <2>1. S \in SUBSET Nat /\ image[n] + hlc[n] \in Nat  BY <1>3
  <2>2. \A y \in S : y <= image[n] + hlc[n]  BY <1>3
  <2>3. image[n] \in S /\ hlc[n] \in S  OBVIOUS
  <2> HIDE DEF S
  <2>4. Highest(S) \in Nat /\ \A y \in S : y <= Highest(S)
    BY <2>1, <2>2, HighestFacts
  <2>5. h = Highest(S)  BY DEF S
  <2> HIDE DEF h
  <2> QED  BY <2>3, <2>4, <2>5, <1>3
<1> HIDE DEF h
<1>6. applied'[n] = logBase[n]  BY <1>2, <1>3, <1>4 DEF Behind, Higher
<1>7. /\ mark'[n] \in Nat /\ mark'[n] >= image[n]
      /\ mark'[n] = mark[n] \/ mark'[n] = image[n]
  BY <1>2, <1>3 DEF Higher
<1>8. hlc'[n] = h /\ image'[n] = NoImage  BY <1>2, <1>3
<1>9. ~Behind(n)'  BY <1>2, <1>3, <1>6 DEF Behind
<1>10. Sure(n, logBase[n])  BY <1>1 DEF Replicated, SureOnly
<1>11. Reached(mark'[n])  BY <1>1, <1>2, <1>7 DEF ReadsReached
<1>12. ASSUME NEW i \in 1 .. Len(log[n])
       PROVE  log[n][i].ts <= h \/ log[n][i].ts <= lastTs[n]
  <2>1. log[n][i].ts \in Nat  BY <1>3, EntryTypes
  <2>2. CASE i > logBase[n]
    <3>1. log[n][i].ts <= hlc[n] \/ log[n][i].ts <= lastTs[n]
      BY <2>2, <1>1 DEF Timed, ClockAbove
    <3> QED  BY <3>1, <2>1, <1>3, <1>5
  <2>3. CASE ~(i > logBase[n])
    <3>1. i \in 1 .. logBase[n]  BY <2>3, <1>3
    <3>2. log[n][i].ts <= image[n]  BY <3>1, <1>4
    <3> QED  BY <3>2, <2>1, <1>3, <1>5
  <2> QED  BY <2>2, <2>3
<1>13. ASSUME NEW i \in 1 .. logBase[n] PROVE log[n][i].ts <= mark'[n]
  <2>1. log[n][i].ts \in Nat  BY <1>1, <1>3, <1>10, SureReached
  <2>2. log[n][i].ts <= image[n]  BY <1>4
  <2> QED  BY <2>1, <2>2, <1>3, <1>7
<1>14. RaftTypes' /\ ClockTypes'
  <2>1. applied' \in [Node -> Nat] /\ mark' \in [Node -> Nat]
    BY <1>2, <1>3 DEF Higher
  <2>2. image' \in [Node -> Nat \cup {NoImage}] /\ hlc' \in [Node -> Nat]
    BY <1>2, <1>3, <1>5
  <2> QED  BY <2>1, <2>2, <1>1, <1>2 DEF RaftTypes, ClockTypes
<1>15. \A q \in Node : q # n =>
         /\ applied'[q] = applied[q] /\ image'[q] = image[q] /\ mark'[q] = mark[q]
         /\ hlc'[q] = hlc[q]
  BY <1>2, <1>3
<1>16. Reached(ceiling[n]) /\ (rd[n].at = "serve" => Reached(rd[n].ts))
  BY <1>1 DEF ReadsReached
<1> QED  BY <1>2, <1>6, <1>8, <1>9, <1>10, <1>11, <1>12, <1>13, <1>14, <1>15, <1>16,
            LocalStep

\* A crash and a start.
LEMMA ProcessCrashStep ==
  ASSUME TsInv, NEW n \in Node, ProcessCrash(n)  PROVE  TsInv'
<1> DEFINE T == TsBetween(log[n], logBase[n], Len(log[n]))
           X == {LatestVersion(n)} \cup T
<1>1. RaftTypes /\ ClockTypes /\ Replicated /\ Timed /\ ReadsReached /\ SureOnly
  BY DEF TsInv, Replicated
<1>2. /\ processCrashes' = processCrashes + 1
      /\ leads' = [leads EXCEPT ![n] = FALSE]
      /\ hlc' = [hlc EXCEPT ![n] = Highest(X)]
      /\ lastTs' = [lastTs EXCEPT ![n] = 0] /\ lastCeil' = [lastCeil EXCEPT ![n] = 0]
      /\ absorbed' = [absorbed EXCEPT ![n] = NoTerm]
      /\ cache' = [cache EXCEPT ![n] = NoCache]
      /\ applied' = [applied EXCEPT ![n] = IF Behind(n) THEN applied[n] ELSE logBase[n]]
      /\ image' = [image EXCEPT ![n] = NoImage]
      /\ rd' = [rd EXCEPT ![n] = NoRead]
      /\ UNCHANGED <<term, log, logBase, committed, committedIn, mark>>
      /\ UNCHANGED <<ceiling, served, ops, cuts>>
  BY DEF ProcessCrash
<1>3. /\ applied[n] \in Nat /\ logBase[n] \in Nat /\ mark[n] \in Nat
      /\ log[n] \in Seq(Entries) /\ Len(log[n]) \in Nat
      /\ applied \in [Node -> Nat] /\ hlc \in [Node -> Nat]
      /\ leads \in [Node -> BOOLEAN]
      /\ lastTs \in [Node -> Nat] /\ lastCeil \in [Node -> Nat]
      /\ absorbed \in [Node -> Nat \cup {NoTerm}] /\ cache \in [Node -> Caches]
      /\ image \in [Node -> Nat \cup {NoImage}] /\ rd \in [Node -> Reads]
      /\ processCrashes \in Nat
  BY <1>1 DEF RaftTypes, ClockTypes
<1>4. LatestVersion(n) \in Nat /\ LatestVersion(n) >= mark[n]
  BY <1>1, LatestFacts
<1>5. \A v \in X : v = LatestVersion(n) \/ v = LatestVersion(n)
                     \/ \E j \in 1 .. Len(log[n]) : v = log[n][j].ts
  <2> SUFFICES ASSUME NEW v \in T PROVE \E j \in 1 .. Len(log[n]) : v = log[n][j].ts
    OBVIOUS
  <2>1. PICK j \in logBase[n] + 1 .. Len(log[n]) : v = log[n][j].ts  BY DEF TsBetween
  <2>2. j \in 1 .. Len(log[n])  BY <1>3
  <2> QED  BY <2>1, <2>2
<1>6. /\ LatestVersion(n) \in X
      /\ \A j \in logBase[n] + 1 .. Len(log[n]) : log[n][j].ts \in X
  BY DEF TsBetween
<1> HIDE DEF X
<1>7. Highest(X) \in Nat /\ \A v \in X : v <= Highest(X)
  BY <1>3, <1>4, <1>5, HighestOverLog
<1>8. /\ applied'[n] = IF Behind(n) THEN applied[n] ELSE logBase[n]
      /\ hlc'[n] = Highest(X) /\ image'[n] = NoImage /\ leads'[n] = FALSE
      /\ rd'[n] = NoRead
  BY <1>2, <1>3
<1>9. Behind(n)' <=> Behind(n)  BY <1>2, <1>3, <1>8 DEF Behind
<1>10. Sure(n, applied'[n]) /\ Sure(n, logBase[n])  BY <1>1, <1>8 DEF SureOnly
<1>11. ASSUME NEW i \in 1 .. Len(log[n]), i > logBase[n] \/ ~Behind(n)
       PROVE  log[n][i].ts <= Highest(X)
  <2>1. log[n][i].ts \in Nat  BY <1>3, EntryTypes
  <2>2. CASE i > logBase[n]
    <3>1. i \in logBase[n] + 1 .. Len(log[n])  BY <2>2, <1>3
    <3> QED  BY <3>1, <1>6, <1>7
  <2>3. CASE ~(i > logBase[n])
    <3>1. i \in 1 .. logBase[n]  BY <2>3, <1>3
    <3>2. log[n][i].ts <= mark[n]  BY <3>1, <2>3, <1>1, <1>11 DEF Timed, MarkAbove
    <3>3. LatestVersion(n) <= Highest(X)  BY <1>6, <1>7
    <3> QED  BY <3>2, <3>3, <2>1, <1>3, <1>4, <1>7
  <2> QED  BY <2>2, <2>3
<1>12. ~Behind(n)' => \A i \in 1 .. logBase[n] : log[n][i].ts <= mark[n]
  BY <1>1, <1>9 DEF Timed, MarkAbove
<1>13. RaftTypes' /\ ClockTypes'
  <2>1. applied' \in [Node -> Nat] /\ leads' \in [Node -> BOOLEAN]
        /\ image' \in [Node -> Nat \cup {NoImage}]
    BY <1>2, <1>3
  <2>2. /\ hlc' \in [Node -> Nat] /\ lastTs' \in [Node -> Nat]
        /\ lastCeil' \in [Node -> Nat]
    BY <1>2, <1>3, <1>7
  <2>3. absorbed' \in [Node -> Nat \cup {NoTerm}] /\ processCrashes' \in Nat
    BY <1>2, <1>3
  <2>4. cache' \in [Node -> Caches]  BY <1>2, <1>3, NoCacheType
  <2>5. rd' \in [Node -> Reads]
    <3>1. NoRead \in Reads  BY DEF NoRead, Reads
    <3> QED  BY <3>1, <1>2, <1>3
  <2> QED  BY <2>1, <2>2, <2>3, <2>4, <2>5, <1>1, <1>2 DEF RaftTypes, ClockTypes
<1>14. \A q \in Node : q # n =>
         /\ leads'[q] = leads[q] /\ applied'[q] = applied[q] /\ image'[q] = image[q]
         /\ hlc'[q] = hlc[q] /\ lastTs'[q] = lastTs[q] /\ rd'[q] = rd[q]
  BY <1>2, <1>3
<1>15. Reached(mark[n]) /\ Reached(ceiling[n])  BY <1>1 DEF ReadsReached
<1>16. rd'[n].at # "serve"  BY <1>8 DEF NoRead
<1>17. logBase'[n] = logBase[n] /\ mark'[n] = mark[n] /\ ceiling'[n] = ceiling[n]
  BY <1>2
<1>18. \A i \in 1 .. Len(log[n]) : i > logBase'[n] \/ ~Behind(n)' =>
         log[n][i].ts <= hlc'[n] \/ log[n][i].ts <= lastTs'[n]
  BY <1>8, <1>9, <1>11, <1>17
<1>19. \A q \in Node : q # n => /\ logBase'[q] = logBase[q] /\ mark'[q] = mark[q]
                               /\ ceiling'[q] = ceiling[q]
  BY <1>2
<1>20. UNCHANGED <<term, log, committed, committedIn, served>>  BY <1>2
<1>21. ~leads'[n] /\ image'[n] = NoImage  BY <1>8
<1>22. Sure(n, logBase'[n]) /\ Sure(n, applied'[n])  BY <1>10, <1>17
<1>23. /\ ~Behind(n)' => \A i \in 1 .. logBase'[n] : log[n][i].ts <= mark'[n]
       /\ Reached(mark'[n]) /\ Reached(ceiling'[n])
  BY <1>12, <1>15, <1>17
<1> QED  BY <1>13, <1>14, <1>16, <1>18, <1>19, <1>20, <1>21, <1>22, <1>23, LocalStep

-----------------------------------------------------------------------------
(* Replication keeps the invariant.                                        *)

\* What is reached stays so when more is committed.
LEMMA ReachedStays ==
  ASSUME RaftTypes, NEW n \in Node, Commits(n), NEW ts, Reached(ts)
  PROVE  ts = 0 \/ \E i \in 1 .. Len(committed') : ts <= committed'[i].ts
<1>1. Len(committed) \in Nat  BY DEF RaftTypes
<1>2. /\ Len(committed') \in Nat /\ Len(committed) <= Len(committed')
      /\ \A i \in 1 .. Len(committed) : committed'[i] = committed[i]
  BY DEF Commits
<1>3. CASE ts # 0
  <2>1. PICK i \in 1 .. Len(committed) : ts <= committed[i].ts  BY <1>3 DEF Reached
  <2>2. i \in 1 .. Len(committed') /\ committed'[i] = committed[i]  BY <1>1, <1>2
  <2> QED  BY <2>1, <2>2
<1> QED  BY <1>3

\* m takes `new' from the leader n.  What its clock, its mark and its image must
\* cover is left to the caller.
LEMMA CopyStep ==
  ASSUME TsInv, NEW n \in Node, NEW m \in Node, NEW new \in Seq(Entries),
         Follow(n, m), Takes(n, m, new), Commits(n), Replicated', ClockTypes',
         logBase' \in [Node -> Nat], image' \in [Node -> Nat \cup {NoImage}],
         UNCHANGED <<applied, mark, lastTs, ceiling, rd, served>>,
         \A q \in Node : q # m => /\ logBase'[q] = logBase[q] /\ image'[q] = image[q]
                                  /\ hlc'[q] = hlc[q],
         \A i \in 1 .. Len(new) : i > logBase'[m] \/ ~Behind(m)' =>
           new[i].ts <= hlc'[m] \/ new[i].ts <= lastTs[m],
         ~Behind(m)' => \A i \in 1 .. logBase'[m] : new[i].ts <= mark[m],
         image'[m] # NoImage => /\ Behind(m)' /\ Reached(image'[m])
                                /\ \A i \in 1 .. logBase'[m] : new[i].ts <= image'[m]
  PROVE  TsInv'
<1>1. RaftTypes /\ ClockTypes /\ Timed /\ ReadsReached /\ LowIsLost  BY DEF TsInv
<1>2. /\ log \in [Node -> Seq(Entries)] /\ log[n] \in Seq(Entries) /\ term \in [Node -> Nat]
      /\ leads \in [Node -> BOOLEAN] /\ Len(committed) \in Nat
  BY <1>1 DEF RaftTypes
<1>3. /\ log'[m] = new /\ \A q \in Node : q # m => log'[q] = log[q]
      /\ log' \in [Node -> Seq(Entries)]
  BY <1>2 DEF Takes
<1>4. /\ Len(new) \in Nat /\ Len(new) <= Len(log[n])
      /\ \A i \in 1 .. Len(new) : i \in 1 .. Len(log[n]) /\ new[i] = log[n][i]
  <2>1. Upto(log[n], new, Len(new)) /\ Len(new) \in Nat /\ Len(log[n]) \in Nat
    BY <1>2 DEF Takes
  <2> QED  BY <2>1 DEF Upto
<1>5. /\ committed' \in Seq(Entries) /\ committedIn' \in Seq(Nat)
      /\ Len(committedIn') = Len(committed') /\ Len(committed) <= Len(committed')
      /\ Len(committed') \in Nat
      /\ \A i \in 1 .. Len(committed) : committed'[i] = committed[i]
  BY DEF Commits
<1>6. RaftTypes'
  <2>1. term' \in [Node -> Nat] /\ leads' \in [Node -> BOOLEAN]  BY <1>2 DEF Follow
  <2>2. applied' \in [Node -> Nat] /\ mark' \in [Node -> Nat]  BY <1>1 DEF RaftTypes
  <2> QED  BY <2>1, <2>2, <1>3, <1>5 DEF RaftTypes
<1>7. LogsRise'
  <2> SUFFICES ASSUME NEW q \in Node PROVE Rising(log'[q])  BY DEF LogsRise
  <2>1. CASE q # m  BY <2>1, <1>1, <1>3 DEF Timed, LogsRise
  <2>2. CASE q = m
    <3> SUFFICES ASSUME NEW j \in 1 .. Len(new), new[j].ts > 0, NEW i \in 1 .. j - 1
                 PROVE  new[i].ts < new[j].ts
      BY <2>2, <1>3 DEF Rising
    <3>1. i \in 1 .. Len(new)  BY <1>4
    <3>2. log[n][i].ts < log[n][j].ts
      BY <1>1, <1>4 DEF Timed, LogsRise, Rising
    <3> QED  BY <3>1, <3>2, <1>4
  <2> QED  BY <2>1, <2>2
<1>8. \A q \in Node : q # m => (Behind(q)' <=> Behind(q))  BY DEF Behind
<1>9. ClockAbove' /\ MarkAbove' /\ ImageAbove'
  BY <1>1, <1>3, <1>8 DEF Timed, ClockAbove, MarkAbove, ImageAbove
<1>10. ReadsReached'
  <2>1. \A ts : Reached(ts) => ts = 0 \/ \E i \in 1 .. Len(committed') : ts <= committed'[i].ts
    BY <1>1, ReachedStays
  <2>2. \A q \in Node :
          /\ Reached(mark[q]) /\ Reached(ceiling[q])
          /\ image'[q] # NoImage => Reached(image'[q])
          /\ rd[q].at = "serve" => Reached(rd[q].ts)
    BY <1>1 DEF ReadsReached
  <2>3. \A k \in Keys : Reached(served[k])  BY <1>1 DEF ReadsReached
  <2> QED  BY <2>1, <2>2, <2>3 DEF ReadsReached, Reached
<1>11. LowIsLost'
  <2> SUFFICES ASSUME NEW q \in Node, NEW j \in 1 .. Len(log'[q]), Low(log'[q][j])
               PROVE  \E i \in 1 .. j : i <= Len(committed')
                                          /\ committed'[i].term # log'[q][i].term
    BY DEF LowIsLost
  <2>1. PICK p \in Node : /\ j \in 1 .. Len(log[p])
                          /\ \A i \in 1 .. j : log'[q][i] = log[p][i]
    <3>1. CASE q # m
      <4>1. log'[q] = log[q]  BY <3>1, <1>3
      <4> QED  BY <4>1
    <3>2. CASE q = m
      <4>1. j \in 1 .. Len(new)  BY <3>2, <1>3
      <4>2. \A i \in 1 .. j : i \in 1 .. Len(new)  BY <4>1, <1>4
      <4> QED  BY <4>1, <4>2, <3>2, <1>3, <1>4
    <3> QED  BY <3>1, <3>2
  <2>2. j \in 1 .. j
    <3>1. Len(log[p]) \in Nat  BY <1>2
    <3> QED  BY <3>1, <2>1
  <2>3. Low(log[p][j])  BY <2>1, <2>2
  <2>4. PICK i \in 1 .. j : i <= Len(committed) /\ committed[i].term # log[p][i].term
    BY <2>1, <2>3, <1>1 DEF LowIsLost
  <2>5. i \in 1 .. Len(committed) /\ i <= Len(committed')  BY <2>4, <1>2, <1>5
  <2> QED  BY <2>1, <2>4, <2>5, <1>5
<1> QED  BY <1>6, <1>7, <1>9, <1>10, <1>11 DEF TsInv, Timed

\* AppendEntries.
LEMMA ReplicateStep ==
  ASSUME TsInv, NEW n \in Node, NEW m \in Node, Replicate(n, m)  PROVE  TsInv'
<1> DEFINE same == Agreed(log[n], log[m])
           T == TsBetween(log[n], same, Len(log[n]))
           X == T \cup {hlc[m]}
<1>1. RaftTypes /\ ClockTypes /\ Replicated /\ Timed /\ ReadsReached  BY DEF TsInv
<1>2. /\ Follow(n, m)
      /\ log' = [log EXCEPT ![m] = log[n]]
      /\ committed' = IF Chosen(n) > Len(committed) THEN SubSeq(log[n], 1, Chosen(n))
                                                    ELSE committed
      /\ committedIn' = [j \in 1 .. Len(committed') |->
                           IF j <= Len(committed) THEN committedIn[j] ELSE term[n]]
      /\ hlc' = [hlc EXCEPT ![m] = Highest(X)]
      /\ UNCHANGED <<logBase, applied, image, mark>>
      /\ UNCHANGED <<lastTs, lastCeil, absorbed, ceiling, cache, rd, served, ops, cuts,
                     processCrashes>>
  BY DEF Replicate, Witness
<1>3. Commits(n) /\ Takes(n, m, log[n])  BY <1>1, <1>2, ReplicateCommits
<1>4. /\ log[n] \in Seq(Entries) /\ log[m] \in Seq(Entries)
      /\ log \in [Node -> Seq(Entries)] /\ Len(committed) \in Nat
      /\ Len(log[n]) \in Nat /\ hlc[m] \in Nat /\ hlc \in [Node -> Nat]
      /\ logBase[m] \in Nat /\ lastTs[m] \in Nat
      /\ logBase \in [Node -> Nat] /\ image \in [Node -> Nat \cup {NoImage}]
  <2>1. hlc \in [Node -> Nat] /\ lastTs \in [Node -> Nat]  BY <1>1 DEF ClockTypes
  <2>2. /\ log \in [Node -> Seq(Entries)] /\ Len(committed) \in Nat
        /\ logBase \in [Node -> Nat] /\ image \in [Node -> Nat \cup {NoImage}]
    BY <1>1 DEF RaftTypes
  <2> QED  BY <2>1, <2>2
<1>5. Replicated'
  <2>1. Follow(n, m) /\ logBase' = logBase /\ applied' = applied  BY <1>2
  <2>2. log[n] \in Seq(Entries)  BY <1>4
  <2> QED  BY <2>1, <2>2, <1>1, <1>3, CopyReplicated
<1>6. same \in Nat /\ \A i \in Nat : i <= same <=> Upto(log[n], log[m], i)
  BY <1>4, AgreedFacts
<1> HIDE DEF same
<1>7. \A v \in X : v = hlc[m] \/ v = hlc[m] \/ \E j \in 1 .. Len(log[n]) : v = log[n][j].ts
  <2> SUFFICES ASSUME NEW v \in T PROVE \E j \in 1 .. Len(log[n]) : v = log[n][j].ts
    OBVIOUS
  <2>1. PICK j \in same + 1 .. Len(log[n]) : v = log[n][j].ts  BY DEF TsBetween
  <2>2. j \in 1 .. Len(log[n])  BY <1>4, <1>6
  <2> QED  BY <2>1, <2>2
<1>8. hlc[m] \in X /\ \A j \in same + 1 .. Len(log[n]) : log[n][j].ts \in X
  BY DEF TsBetween
<1> HIDE DEF X
<1>9. Highest(X) \in Nat /\ \A v \in X : v <= Highest(X)
  <2>1. log[n] \in Seq(Entries) /\ hlc[m] \in Nat  BY <1>4
  <2> QED  BY <2>1, <1>7, HighestOverLog
<1>10. hlc'[m] = Highest(X) /\ \A q \in Node : q # m => hlc'[q] = hlc[q]
  BY <1>2, <1>4
<1>11. ClockTypes'  BY <1>1, <1>2, <1>4, <1>9 DEF ClockTypes
<1>12. Behind(m)' <=> Behind(m)  BY <1>2 DEF Behind
<1>13. ASSUME NEW i \in 1 .. Len(log[n]), i > logBase[m] \/ ~Behind(m)
       PROVE  log[n][i].ts <= Highest(X) \/ log[n][i].ts <= lastTs[m]
  <2>1. log[n][i].ts \in Nat  BY <1>4, EntryTypes
  <2>2. CASE i <= same
    <3>1. Upto(log[n], log[m], i)  BY <2>2, <1>4, <1>6
    <3>2. i \in 1 .. Len(log[m]) /\ log[m][i] = log[n][i]  BY <3>1, <1>4 DEF Upto
    <3>3. log[m][i].ts <= hlc[m] \/ log[m][i].ts <= lastTs[m]
      BY <3>2, <1>1, <1>13 DEF Timed, ClockAbove
    <3>4. hlc[m] <= Highest(X)  BY <1>8, <1>9
    <3> QED  BY <3>2, <3>3, <3>4, <2>1, <1>4, <1>9
  <2>3. CASE ~(i <= same)
    <3>1. i \in same + 1 .. Len(log[n])  BY <2>3, <1>4, <1>6
    <3> QED  BY <3>1, <1>8, <1>9
  <2> QED  BY <2>2, <2>3
<1>14. ASSUME NEW i \in 1 .. logBase[m] PROVE log[n][i] = log[m][i]
  <2>1. logBase[m] # 0  BY <1>4
  <2>2. Upto(committed, log[m], logBase[m])
    BY <2>1, <1>1 DEF Replicated, SureOnly, Sure
  <2>3. Upto(committed', log'[m], logBase[m])
    BY <2>1, <1>2, <1>5 DEF Replicated, SureOnly, Sure
  <2>4. log'[m] = log[n]  BY <1>2, <1>4
  <2>5. i \in 1 .. Len(committed)  BY <2>2, <1>4 DEF Upto
  <2>6. committed'[i] = committed[i]  BY <2>5, <1>3 DEF Commits
  <2> QED  BY <2>2, <2>3, <2>4, <2>6 DEF Upto
<1>15. ~Behind(m) => \A i \in 1 .. logBase[m] : log[n][i].ts <= mark[m]
  BY <1>1, <1>14 DEF Timed, MarkAbove
<1>16. image[m] # NoImage => /\ Behind(m) /\ Reached(image[m])
                             /\ \A i \in 1 .. logBase[m] : log[n][i].ts <= image[m]
  BY <1>1, <1>14 DEF Timed, ImageAbove, ReadsReached
<1> QED  BY <1>2, <1>3, <1>4, <1>5, <1>10, <1>11, <1>12, <1>13, <1>15, <1>16, CopyStep

\* Nothing new is committed.
LEMMA CommitsNothing ==
  ASSUME RaftTypes, UNCHANGED <<committed, committedIn>>, NEW n \in Node
  PROVE  Commits(n)
<1>1. /\ committed \in Seq(Entries) /\ committedIn \in Seq(Nat)
      /\ Len(committedIn) = Len(committed) /\ Len(committed) \in Nat
  BY DEF RaftTypes
<1>2. \A i : i \notin Len(committed) + 1 .. Len(committed)  BY <1>1
<1>3. Len(committed) <= Len(committed) /\ ~(Len(committed) < Len(committed))  BY <1>1
<1> QED  BY <1>1, <1>2, <1>3 DEF Commits

\* The header of a leader's snapshot is reached, and above what the leader has
\* compacted away.
LEMMA HeaderFacts ==
  ASSUME TsInv, NEW n \in Node, leads[n]
  PROVE  /\ Higher(mark[n], LatestVersion(n)) \in Nat
         /\ Reached(Higher(mark[n], LatestVersion(n)))
         /\ \A i \in 1 .. logBase[n] : log[n][i].ts <= Higher(mark[n], LatestVersion(n))
<1>1. /\ RaftTypes /\ ClockTypes /\ SureOnly /\ ReadsReached
      /\ MarkAbove /\ LeaderFed
  BY DEF TsInv, Replicated, Timed
<1>2. LatestVersion(n) \in Nat /\ LatestVersion(n) >= mark[n]  BY <1>1, LatestFacts
<1>3. Reached(LatestVersion(n)) /\ Reached(mark[n])
  BY <1>1, LatestReached DEF ReadsReached
<1>4. mark[n] \in Nat /\ logBase[n] \in Nat  BY <1>1 DEF RaftTypes
<1> DEFINE h == Higher(mark[n], LatestVersion(n))
<1>5. h \in Nat /\ h >= mark[n] /\ (h = mark[n] \/ h = LatestVersion(n))
  BY <1>2, <1>4 DEF Higher
<1> HIDE DEF h
<1>6. Reached(h)  BY <1>3, <1>5
<1>7. ASSUME NEW i \in 1 .. logBase[n] PROVE log[n][i].ts <= h
  <2>1. log[n][i].ts <= mark[n]  BY <1>1 DEF MarkAbove, LeaderFed
  <2>2. log[n][i].ts \in Nat
    <3>1. Sure(n, logBase[n])  BY <1>1 DEF SureOnly
    <3> QED  BY <3>1, <1>1, <1>4, SureReached
  <2> QED  BY <2>1, <2>2, <1>4, <1>5
<1> QED  BY <1>5, <1>6, <1>7 DEF h

\* A snapshot, or one asked for again, leaves m's engine behind its log.
LEMMA SnapshotStep ==
  ASSUME TsInv, NEW n \in Node, NEW m \in Node, Follow(n, m), NEW k \in Nat,
         logBase[n] <= k, k <= Len(log[n]),
         \A i \in Nat : Upto(log[n], log[m], i) => i <= k,
         k > logBase[n] => Upto(log[n], log[m], k) /\ logBase[n] >= logBase[m],
         applied[m] < logBase[n],
         log' = [log EXCEPT ![m] = SubSeq(log[n], 1, k)],
         logBase' = [logBase EXCEPT ![m] = logBase[n]],
         image' = [image EXCEPT ![m] = Higher(mark[n], LatestVersion(n))],
         UNCHANGED <<committed, committedIn, applied, mark>>,
         UNCHANGED <<clock, rd, served, ops, cuts, processCrashes>>
  PROVE  TsInv'
<1> DEFINE new == SubSeq(log[n], 1, k)
           h == Higher(mark[n], LatestVersion(n))
<1>1. RaftTypes /\ ClockTypes /\ Replicated /\ Timed  BY DEF TsInv
<1>2. /\ log[n] \in Seq(Entries) /\ log[m] \in Seq(Entries)
      /\ log \in [Node -> Seq(Entries)]
      /\ logBase \in [Node -> Nat] /\ logBase[n] \in Nat /\ logBase[m] \in Nat
      /\ image \in [Node -> Nat \cup {NoImage}] /\ applied[m] \in Nat
      /\ Len(log[n]) \in Nat
  BY <1>1 DEF RaftTypes
<1>3. /\ new \in Seq(Entries) /\ Len(new) = k
      /\ \A i \in 1 .. k : new[i] = log[n][i]
      /\ Upto(log[n], new, k)
  BY <1>2, PrefixFacts
<1>4. leads[n]  BY DEF Follow
<1>5. h \in Nat /\ Reached(h) /\ \A i \in 1 .. logBase[n] : log[n][i].ts <= h
  BY <1>4, HeaderFacts
<1>6. log' = [log EXCEPT ![m] = new] /\ image' = [image EXCEPT ![m] = h]  OBVIOUS
<1> HIDE DEF new, h
<1>7. Takes(n, m, new)  BY <1>3, <1>6 DEF Takes
<1>8. Commits(n)  BY <1>1, CommitsNothing
<1>9. Replicated'  BY <1>1, <1>3, <1>7, <1>8, CopyReplicated
<1>10. ClockTypes'  BY <1>1 DEF ClockTypes, clock
<1>11. logBase' \in [Node -> Nat] /\ image' \in [Node -> Nat \cup {NoImage}]
  BY <1>2, <1>5, <1>6
<1>12. /\ logBase'[m] = logBase[n] /\ image'[m] = h
       /\ \A q \in Node : q # m => logBase'[q] = logBase[q] /\ image'[q] = image[q]
  BY <1>2, <1>6
<1>13. Behind(m)'  BY <1>2, <1>12 DEF Behind
<1>14. UNCHANGED <<hlc, lastTs, ceiling, rd, served>>  BY DEF clock
<1>15. ASSUME NEW i \in 1 .. Len(new), i > logBase[n]
       PROVE  new[i].ts <= hlc[m] \/ new[i].ts <= lastTs[m]
  <2>1. i \in 1 .. k /\ k > logBase[n]  BY <1>2, <1>3, <1>15
  <2>2. i \in 1 .. Len(log[m]) /\ log[m][i] = new[i] /\ i > logBase[m]
    BY <2>1, <1>2, <1>3, <1>15 DEF Upto
  <2> QED  BY <2>2, <1>1 DEF Timed, ClockAbove
<1>16. \A i \in 1 .. logBase[n] : new[i].ts <= h
  <2>1. \A i \in 1 .. logBase[n] : i \in 1 .. k  BY <1>2
  <2> QED  BY <2>1, <1>3, <1>5
<1> QED  BY <1>3, <1>5, <1>7, <1>8, <1>9, <1>10, <1>11, <1>12, <1>13, <1>14, <1>15, <1>16,
            CopyStep

\* The last chunk of a snapshot.
LEMMA InstallStep ==
  ASSUME TsInv, NEW n \in Node, NEW m \in Node, Install(n, m)  PROVE  TsInv'
<1> DEFINE same == Agreed(log[n], log[m])
           k == logBase[n]
<1>1. RaftTypes /\ Replicated  BY DEF TsInv
<1>2. /\ log[n] \in Seq(Entries) /\ log[m] \in Seq(Entries) /\ k \in Nat
      /\ applied[m] \in Nat /\ committed \in Seq(Entries) /\ Len(log[n]) \in Nat
      /\ Len(committed) \in Nat
  BY <1>1 DEF RaftTypes
<1>3. same \in Nat /\ \A i \in Nat : i <= same <=> Upto(log[n], log[m], i)
  BY <1>2, AgreedFacts
<1>4. k > same  BY DEF Install
<1> HIDE DEF same
<1>5. k # 0 /\ \A i \in Nat : Upto(log[n], log[m], i) => i <= k
  BY <1>2, <1>3, <1>4
<1>6. Upto(committed, log[n], k)
  BY <1>1, <1>5 DEF Replicated, SureOnly, Sure
<1>7. k <= Len(log[n]) /\ k <= k /\ ~(k > k)  BY <1>2, <1>6 DEF Upto
<1>8. applied[m] < k
  <2>1. SUFFICES ASSUME applied[m] >= k PROVE FALSE  BY <1>2
  <2>2. applied[m] # 0  BY <2>1, <1>2, <1>5
  <2>3. Upto(committed, log[m], applied[m])
    BY <2>2, <1>1 DEF Replicated, SureOnly, Sure
  <2>4. Upto(log[n], log[m], k)  BY <2>1, <2>3, <1>2, <1>6 DEF Upto
  <2> QED  BY <2>4, <1>2, <1>3, <1>4
<1> QED  BY <1>2, <1>5, <1>7, <1>8, SnapshotStep DEF Install

\* A snapshot that is asked for again.
LEMMA ResendStep ==
  ASSUME TsInv, NEW n \in Node, NEW m \in Node, Resend(n, m)  PROVE  TsInv'
<1> DEFINE same == Agreed(log[n], log[m])
           k == Higher(logBase[n], same)
<1>1. RaftTypes /\ Replicated  BY DEF TsInv
<1>2. /\ log[n] \in Seq(Entries) /\ log[m] \in Seq(Entries)
      /\ log \in [Node -> Seq(Entries)]
      /\ logBase[n] \in Nat /\ logBase[m] \in Nat /\ applied[m] \in Nat
      /\ Len(log[n]) \in Nat /\ Len(committed) \in Nat
  BY <1>1 DEF RaftTypes
<1>3. same \in Nat /\ \A i \in Nat : i <= same <=> Upto(log[n], log[m], i)
  BY <1>2, AgreedFacts
<1>4. /\ Follow(n, m) /\ Behind(m) /\ logBase[n] >= logBase[m]
      /\ log' = [log EXCEPT ![m] = SubSeq(log[n], 1, k)]
      /\ logBase' = [logBase EXCEPT ![m] = logBase[n]]
      /\ image' = [image EXCEPT ![m] = Higher(mark[n], LatestVersion(n))]
      /\ UNCHANGED <<committed, committedIn, applied, mark>>
      /\ UNCHANGED <<clock, rd, served, ops, cuts, processCrashes>>
  BY <1>2 DEF Resend
<1> HIDE DEF same
<1>5. k \in Nat /\ k >= logBase[n] /\ k >= same /\ (k = logBase[n] \/ k = same)
  BY <1>2, <1>3 DEF Higher
<1> HIDE DEF k
<1>6. Upto(log[n], log[m], same)  BY <1>3
<1>7. k <= Len(log[n])
  <2>1. same <= Len(log[n])  BY <1>6 DEF Upto
  <2>2. logBase[n] <= Len(log[n])
    BY <1>1, <1>2 DEF Replicated, SureOnly, Sure, Upto
  <2> QED  BY <2>1, <2>2, <1>5
<1>8. \A i \in Nat : Upto(log[n], log[m], i) => i <= k  BY <1>3, <1>5
<1>9. k > logBase[n] => Upto(log[n], log[m], k) /\ logBase[n] >= logBase[m]
  BY <1>2, <1>4, <1>5, <1>6
<1>10. applied[m] < logBase[n]  BY <1>2, <1>4 DEF Behind
<1>11. logBase[n] <= k  BY <1>2, <1>5
<1> QED  BY <1>4, <1>5, <1>7, <1>8, <1>9, <1>10, <1>11, SnapshotStep

-----------------------------------------------------------------------------
(* The theorems.                                                           *)

\* A group that has just elected its first leader satisfies the invariant.
LEMMA TsInitInv == ASSUME TsInit  PROVE  TsInv
<1> DEFINE e == NoOp(1)
<1>1. /\ e \in Entries /\ e.term = 1 /\ e.ts = 0 /\ e.kind = "NoOp"
  BY DEF NoOp, Entries, Kinds
<1> HIDE DEF e
<1>2. /\ term = [n \in Node |-> 1] /\ leads = [n \in Node |-> n = First]
      /\ log = [n \in Node |-> <<e>>] /\ logBase = [n \in Node |-> 0]
      /\ committed = <<e>> /\ committedIn = <<1>> /\ applied = [n \in Node |-> 1]
      /\ image = [n \in Node |-> NoImage] /\ mark = [n \in Node |-> 0]
  BY DEF TsInit, e
<1>3. /\ hlc = [n \in Node |-> 0] /\ lastTs = [n \in Node |-> 0]
      /\ lastCeil = [n \in Node |-> 0] /\ absorbed = [n \in Node |-> NoTerm]
      /\ ceiling = [n \in Node |-> 0] /\ cache = [n \in Node |-> NoCache]
      /\ rd = [n \in Node |-> NoRead] /\ served = [k \in Keys |-> 0]
      /\ ops = 0 /\ cuts = 0 /\ processCrashes = 0
  BY DEF TsInit
<1>4. /\ <<e>> \in Seq(Entries) /\ Len(<<e>>) = 1 /\ <<e>>[1] = e
      /\ <<1>> \in Seq(Nat) /\ Len(<<1>>) = 1 /\ <<1>>[1] = 1
      /\ \A i : i \in 1 .. 1 <=> i = 1
  BY <1>1
<1>5. RaftTypes
  <2>1. NoImage \in Nat \cup {NoImage}  OBVIOUS
  <2> QED  BY <2>1, <1>2, <1>4 DEF RaftTypes
<1>6. ClockTypes
  <2>1. NoRead \in Reads  BY DEF NoRead, Reads
  <2>2. NoTerm \in Nat \cup {NoTerm}  OBVIOUS
  <2> QED  BY <2>1, <2>2, <1>3, NoCacheType DEF ClockTypes
<1>7. \A n \in Node : /\ term[n] = 1 /\ log[n] = <<e>> /\ logBase[n] = 0
                      /\ applied[n] = 1 /\ image[n] = NoImage /\ mark[n] = 0
                      /\ hlc[n] = 0 /\ ceiling[n] = 0 /\ rd[n].at # "serve"
                      /\ ~Behind(n)
  BY <1>2, <1>3 DEF NoRead, Behind
<1>8. \A i \in 0 .. 1 : Upto(<<e>>, <<e>>, i)  BY <1>4 DEF Upto
<1>9. Upto(<<e>>, <<e>>, 1)  BY <1>8
<1>10. TermsHeld
  <2>1. \A p \in Node : {q \in Node : term[q] >= term[p]} = Node  BY <1>7
  <2> QED  BY <2>1, AllAreMajority DEF TermsHeld
<1>11. OneLeader  BY <1>2 DEF OneLeader
<1>12. EntryTerms  BY <1>1, <1>4, <1>7 DEF EntryTerms
<1>13. LeaderHas /\ Matching  BY <1>4, <1>7, <1>9 DEF LeaderHas, Matching
<1>14. CommitTerms  BY <1>1, <1>2, <1>4 DEF CommitTerms
<1>15. CommittedHeld
  <2>1. CommitQuorum(1) = Node  BY <1>2, <1>4, <1>7, <1>9 DEF CommitQuorum
  <2> QED  BY <2>1, <1>2, <1>4, AllAreMajority DEF CommittedHeld
<1>16. Complete /\ Carried  BY <1>2, <1>4, <1>7, <1>9 DEF Complete, Carried
<1>17. SureOnly /\ LeaderFed
  BY <1>2, <1>4, <1>7, <1>9 DEF SureOnly, Sure, LeaderFed
<1>18. LogsRise  BY <1>1, <1>4, <1>7 DEF LogsRise, Rising
<1>19. ClockAbove /\ MarkAbove /\ ImageAbove
  BY <1>1, <1>4, <1>7 DEF ClockAbove, MarkAbove, ImageAbove
<1>20. ReadsReached  BY <1>3, <1>7 DEF ReadsReached, Reached
<1>21. LowIsLost  BY <1>1, <1>4, <1>7 DEF LowIsLost, Low
<1>22. Replicated
  BY <1>10, <1>11, <1>12, <1>13, <1>14, <1>15, <1>16, <1>17 DEF Replicated
<1> QED  BY <1>5, <1>6, <1>18, <1>19, <1>20, <1>21, <1>22 DEF TsInv, Timed

\* A stuttering step.
LEMMA StutterStep == ASSUME TsInv, UNCHANGED tsVars  PROVE  TsInv'
<1>1. ClockTypes /\ ReadsReached  BY DEF TsInv
<1>2. /\ UNCHANGED raft
      /\ UNCHANGED <<hlc, lastTs, lastCeil, absorbed, ceiling, cache>>
      /\ UNCHANGED <<rd, served, ops, cuts, processCrashes>>
  BY DEF tsVars, clock
<1>3. ClockTypes'  BY <1>1, <1>2 DEF ClockTypes
<1>4. \A q \in Node : hlc[q] <= hlc'[q] /\ lastTs'[q] = lastTs[q]
  BY <1>1, <1>2 DEF ClockTypes
<1>5. \A q \in Node : rd'[q].at = "serve" => Reached(rd'[q].ts)
  BY <1>1, <1>2 DEF ReadsReached
<1>6. \A k \in Keys : Reached(served'[k])  BY <1>1, <1>2 DEF ReadsReached
<1> QED  BY <1>2, <1>3, <1>4, <1>5, <1>6, QuietStep

\* A step of any node.
LEMMA TsNextInv == ASSUME TsInv, TsNext  PROVE  TsInv'
<1>1. PICK n \in Hosts :
        \/ \E k \in Keys : ProposeCommand(n, k)
        \/ Read(n)
        \/ Elect(n) \/ Apply(n) \/ Compact(n) \/ InstallEngine(n) \/ ProcessCrash(n)
        \/ \E m \in Node : Replicate(n, m) \/ Install(n, m) \/ Resend(n, m)
  BY DEF TsNext
<1>2. n \in Node  BY ReadTsAssumption
<1>3. CASE \E k \in Keys : ProposeCommand(n, k)  BY <1>2, <1>3, ProposeStep
<1>4. CASE Read(n)
  <2>1. CASE \E k \in Keys : ReadBarrier(n, k)  BY <1>2, <2>1, ReadBarrierStep
  <2>2. CASE ReadMint(n)  BY <1>2, <2>2, ReadMintStep
  <2>3. CASE ReadFloor(n)  BY <1>2, <2>3, ReadFloorStep
  <2>4. CASE ReadCeiling(n)  BY <1>2, <2>4, ReadCeilingStep
  <2>5. CASE ReadCovered(n)  BY <1>2, <2>5, ReadCoveredStep
  <2>6. CASE ReadFails(n)  BY <1>2, <2>6, ReadFailsStep
  <2>7. CASE ReadAt(n)  BY <1>2, <2>7, ReadAtStep
  <2>8. CASE ReadServe(n)  BY <1>2, <2>8, ReadServeStep
  <2> QED  BY <1>4, <2>1, <2>2, <2>3, <2>4, <2>5, <2>6, <2>7, <2>8 DEF Read
<1>5. CASE Elect(n)  BY <1>2, <1>5, ElectStep
<1>6. CASE Apply(n)  BY <1>2, <1>6, ApplyStep
<1>7. CASE Compact(n)  BY <1>2, <1>7, CompactStep
<1>8. CASE InstallEngine(n)  BY <1>2, <1>8, InstallEngineStep
<1>9. CASE ProcessCrash(n)  BY <1>2, <1>9, ProcessCrashStep
<1>10. CASE \E m \in Node : Replicate(n, m) \/ Install(n, m) \/ Resend(n, m)
  BY <1>2, <1>10, ReplicateStep, InstallStep, ResendStep
<1> QED  BY <1>1, <1>3, <1>4, <1>5, <1>6, <1>7, <1>8, <1>9, <1>10

\* A committed entry is in the log of some node, with all that precede it.
LEMMA CommittedInLog ==
  ASSUME RaftTypes, Replicated, NEW i \in 1 .. Len(committed)
  PROVE  \E q \in Node : Upto(committed, log[q], i)
<1>1. Majority(CommitQuorum(i))  BY DEF Replicated, CommittedHeld
<1>2. Node \in SUBSET Node /\ CommitQuorum(i) \in SUBSET Node  BY DEF CommitQuorum
<1>3. PICK q \in Node : q \in CommitQuorum(i)
  BY <1>1, <1>2, AllAreMajority, MajoritiesShare
<1> QED  BY <1>3 DEF CommitQuorum

\* The invariant: replication, clocks and reads, for any number of voters.
THEOREM TsInvariant == TsSpec => []TsInv
<1>1. TsInit => TsInv  BY TsInitInv
<1>2. TsInv /\ [TsNext]_tsVars => TsInv'
  BY TsNextInv, StutterStep
<1> QED  BY <1>1, <1>2, PTL DEF TsSpec

\* assert_ts_monotonic never fires: along the committed log timestamps increase,
\* across leaders, restarts, compactions and snapshots.
THEOREM TimestampsIncrease == TsSpec => []TsIncreasing
<1>1. ASSUME TsInv PROVE TsIncreasing
  <2>1. RaftTypes /\ Replicated /\ LogsRise  BY <1>1 DEF TsInv, Timed
  <2>2. /\ committed \in Seq(Entries) /\ Len(committed) \in Nat
        /\ log \in [Node -> Seq(Entries)]
    BY <2>1 DEF RaftTypes
  <2> SUFFICES ASSUME NEW i \in 1 .. Len(committed), NEW j \in 1 .. Len(committed),
                      i < j, committed[i].ts > 0, committed[j].ts > 0
               PROVE  committed[i].ts < committed[j].ts
    BY DEF TsIncreasing
  <2>3. PICK q \in Node : Upto(committed, log[q], j)  BY <2>1, CommittedInLog
  <2>4. /\ j \in 1 .. Len(log[q]) /\ i \in 1 .. j - 1
        /\ committed[i] = log[q][i] /\ committed[j] = log[q][j]
    BY <2>2, <2>3 DEF Upto
  <2> QED  BY <2>1, <2>4 DEF LogsRise, Rising
<1> QED  BY <1>1, TsInvariant, PTL

\* No committed write is at or below a timestamp at which its key had been served
\* when it was proposed, whichever leader served and whichever proposed.
THEOREM ReadsAreRespected == TsSpec => []NoWriteBelowRead
<1>1. ASSUME TsInv PROVE NoWriteBelowRead
  <2>1. RaftTypes /\ Replicated /\ LowIsLost  BY <1>1 DEF TsInv
  <2>2. /\ committed \in Seq(Entries) /\ Len(committed) \in Nat
        /\ log \in [Node -> Seq(Entries)]
    BY <2>1 DEF RaftTypes
  <2> SUFFICES ASSUME NEW j \in 1 .. Len(committed), committed[j].kind = "Write",
                      ~(committed[j].ts > committed[j].floor)
               PROVE  FALSE
    BY DEF NoWriteBelowRead
  <2>3. committed[j].ts \in Nat /\ committed[j].floor \in Nat  BY <2>2, EntryTypes
  <2>4. Low(committed[j])  BY <2>3 DEF Low
  <2>5. PICK q \in Node : Upto(committed, log[q], j)  BY <2>1, CommittedInLog
  <2>6. /\ j \in 1 .. Len(log[q]) /\ j \in 1 .. j
        /\ \A i \in 1 .. j : committed[i] = log[q][i]
    BY <2>2, <2>5 DEF Upto
  <2>7. Low(log[q][j])  BY <2>4, <2>6
  <2>8. PICK i \in 1 .. j : committed[i].term # log[q][i].term
    BY <2>1, <2>6, <2>7 DEF LowIsLost
  <2> QED  BY <2>6, <2>8
<1> QED  BY <1>1, TsInvariant, PTL
=============================================================================
