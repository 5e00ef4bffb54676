----------------------------- MODULE RaftProofs -----------------------------
(***************************************************************************)
(* One leader per term and logs that match, for every set of voters, every *)
(* number of terms, entries, rounds and crashes, and every loss, repeat    *)
(* and reordering of messages.                                             *)
(***************************************************************************)
EXTENDS Raft, FiniteSetTheorems, SequenceTheorems, WellFoundedInduction, TLAPS

-----------------------------------------------------------------------------
(* Least and greatest elements of sets of numbers.                         *)

\* A set of natural numbers that is not empty has a least element.
LEMMA LeastExists ==
  ASSUME NEW T, T \subseteq Nat, T # {}
  PROVE  \E x \in T : \A y \in T : x <= y
<1> DEFINE R == OpToRel(<, Nat)
<1>1. IsWellFoundedOn(R, Nat)  BY NatLessThanWellFounded
<1>2. \A x, y \in Nat : y < x => <<y, x>> \in R  BY DEF OpToRel
<1> HIDE DEF R
<1>3. PICK x \in T : \A y \in T : ~(<<y, x>> \in R)  BY <1>1, WFMin
<1>4. \A y \in T : ~(y < x)  BY <1>2, <1>3
<1> QED  BY <1>3, <1>4

\* One that is bounded has a greatest element.
LEMMA GreatestExists ==
  ASSUME NEW S, NEW b \in Nat, S \subseteq 0 .. b, S # {}
  PROVE  \E x \in S : \A y \in S : y <= x
<1> DEFINE T == {k \in Nat : b - k \in S}
<1>1. T # {}
  <2>1. PICK s \in S : TRUE  OBVIOUS
  <2>2. s \in 0 .. b  BY <2>1
  <2>3. b - s \in Nat /\ b - (b - s) = s  BY <2>2
  <2> QED  BY <2>1, <2>3
<1>2. PICK k \in T : \A j \in T : k <= j  BY <1>1, LeastExists
<1>3. ASSUME NEW y \in S PROVE y <= b - k
  <2>1. y \in 0 .. b  OBVIOUS
  <2>2. b - y \in Nat /\ b - (b - y) = y  BY <2>1
  <2>3. b - y \in T  BY <2>2
  <2>4. k \in Nat /\ k <= b - y  BY <1>2, <2>3
  <2> HIDE DEF T
  <2> QED  BY <2>1, <2>4
<1> QED  BY <1>2, <1>3

-----------------------------------------------------------------------------
(* Types.                                                                  *)

Roles == {"Follower", "PreCandidate", "Candidate", "Leader"}

Cores ==
  [term : Nat, vote : Node \cup {Nil}, log : Seq(Nat), role : Roles,
   commit : Nat, durable : Nat, lastApplied : Nat, votes : SUBSET Node,
   next : [Node -> Nat \ {0}], match : [Node -> Nat]]

Messages ==
  [type : {"AppendEntries"}, term : Nat, from : Node, to : Node, prev : Nat,
   prevTerm : Nat, entries : Seq(Nat), commit : Nat]
  \cup [type : {"RequestVote"}, term : Nat, from : Node, lastIndex : Nat,
        lastTerm : Nat]
  \cup [type : {"RequestVoteResp"}, term : Nat, from : Node, to : Node]
  \cup [type : {"AppendEntriesResp"}, term : Nat, from : Node, to : Node,
        success : BOOLEAN, match : Nat]

IsAppend(m) == m.type = "AppendEntries"
IsAnswer(m) == m.type = "AppendEntriesResp"
IsRequest(m) == m.type = "RequestVote"
IsGrant(m) == m.type = "RequestVoteResp"

Flights == [on : BOOLEAN, hs : HardStates, msgs : SUBSET Messages]

\* What waits for a round of n was sent by n and is no AppendEntries.
Types ==
  /\ core \in [Node -> Cores] /\ disk \in [Node -> HardStates]
  /\ flight \in [Node -> Flights] /\ held \in [Node -> SUBSET Messages]
  /\ msgs \in SUBSET Messages
  /\ \A n \in Node : ~flight[n].on => flight[n] = NoFlight
  /\ \A n \in Node : \A m \in flight[n].msgs \cup held[n] :
       m.from = n /\ ~IsAppend(m)
  /\ elected \in SUBSET (Nat \X Node)
  /\ rounds \in Nat /\ crashes \in Nat
-----------------------------------------------------------------------------
(* Votes.                                                                  *)

\* A request is its sender's vote for itself, a grant one for its receiver.
IsBallot(m) == IsRequest(m) \/ IsGrant(m)
Choice(m) == IF IsRequest(m) THEN m.from ELSE m.to

\* A hard state that a vote is safe with: its node will not vote otherwise.
Covers(h, m) == m.term < h.term \/ (m.term = h.term /\ h.vote = Choice(m))

\* A vote on its way is on disk, one that waits for a round is in the round.
VotesCovered ==
  /\ \A m \in msgs : IsBallot(m) =>
       /\ Covers(disk[m.from], m) /\ Covers(core[m.from], m)
       /\ flight[m.from].on => Covers(flight[m.from].hs, m)
  /\ \A n \in Node : \A m \in flight[n].msgs : IsBallot(m) =>
       Covers(flight[n].hs, m) /\ Covers(core[n], m)
  /\ \A n \in Node : \A m \in held[n] : IsBallot(m) => Covers(core[n], m)

\* What node n has sent and what it has ready to be sent.
Mail(n) == {m \in msgs : m.from = n} \cup flight[n].msgs \cup held[n]

\* One vote per node and term.
VotesAgree ==
  \A n \in Node : \A a, b \in Mail(n) :
    IsBallot(a) /\ IsBallot(b) /\ a.term = b.term => Choice(a) = Choice(b)

\* A node that voted for another was asked to.
Asked(t, x) == \E m \in msgs : IsRequest(m) /\ m.from = x /\ m.term = t
GrantsAsked ==
  \A n \in Node : \A m \in Mail(n) : IsGrant(m) => Asked(m.term, m.to)

\* Node q's vote in term t is on its way to x.
Voted(q, t, x) ==
  \E m \in msgs : IsBallot(m) /\ m.from = q /\ m.term = t /\ Choice(m) = x

CandidateVotes ==
  \A n \in Node : core[n].role = "Candidate" =>
    /\ <<core[n].term, n>> \notin elected
    /\ \A q \in core[n].votes : q = n \/ Voted(q, core[n].term, n)

\* A leader was elected by a majority.
Elected ==
  /\ \A e \in elected :
       /\ Asked(e[1], e[2])
       /\ \E Q \in SUBSET Node : Majority(Q) /\ \A q \in Q : Voted(q, e[1], e[2])
  /\ \A n \in Node : core[n].role = "Leader" => <<core[n].term, n>> \in elected

Votes == VotesCovered /\ VotesAgree /\ GrantsAsked /\ CandidateVotes /\ Elected
-----------------------------------------------------------------------------
(* Logs.  A window is a stretch of a log: the entries behind position prev *)
(* and the term at prev.  A log is a window, and so is an AppendEntries.   *)

LogWindow(log) == [prev |-> 0, prevTerm |-> 0, entries |-> log]
MsgWindow(m) == [prev |-> m.prev, prevTerm |-> m.prevTerm, entries |-> m.entries]

IsWindow(w) == w.prev \in Nat /\ w.prevTerm \in Nat /\ w.entries \in Seq(Nat)
End(w) == w.prev + Len(w.entries)
At(w, i) == IF i = w.prev THEN w.prevTerm ELSE w.entries[i - w.prev]

\* Two windows that agree on an entry agree on all before it that both show.
Agree(a, b) ==
  \A i \in a.prev + 1 .. End(a) :
    b.prev < i /\ i <= End(b) /\ At(a, i) = At(b, i) =>
      \A j \in a.prev .. i : b.prev <= j => At(a, j) = At(b, j)

\* Window b shows a part of what window a shows.
Part(b, a) ==
  /\ a.prev <= b.prev /\ End(b) <= End(a)
  /\ \A i \in b.prev .. End(b) : At(b, i) = At(a, i)

Windows ==
  {LogWindow(core[n].log) : n \in Node} \cup {LogWindow(disk[n].log) : n \in Node}
  \cup {LogWindow(flight[n].hs.log) : n \in Node}
  \cup {MsgWindow(m) : m \in {o \in msgs : IsAppend(o) /\ o.entries # <<>>}}

\* Nobody can be elected in term t any more.
Sealed(t) ==
  \A n \in Node :
    /\ t <= core[n].term /\ t <= disk[n].term
    /\ flight[n].on => t <= flight[n].hs.term
    /\ core[n].role = "Candidate" => core[n].term # t
    /\ \A m \in Mail(n) : IsBallot(m) => m.term # t

Known(t) == (\E x \in Node : <<t, x>> \in elected) \/ Sealed(t)

\* Entries carry the terms of leaders, past or old.
TermsKnown ==
  \A w \in Windows : \A i \in w.prev + 1 .. End(w) : Known(At(w, i))

\* A leader has every entry of its term.
LeaderHas ==
  \A n \in Node : core[n].role = "Leader" =>
    \A w \in Windows : \A i \in w.prev + 1 .. End(w) :
      At(w, i) = core[n].term =>
        i <= Len(core[n].log) /\ core[n].log[i] = core[n].term

WindowsAgree == \A a, b \in Windows : Agree(a, b)

Logs == TermsKnown /\ LeaderHas /\ WindowsAgree

IInv == Types /\ Votes /\ Logs
-----------------------------------------------------------------------------
(* What the operators of RaftCore return.                                  *)

\* The fields of a message.
LEMMA MessageFacts ==
  ASSUME NEW m \in Messages
  PROVE  /\ m.term \in Nat /\ m.from \in Node
         /\ IsAppend(m) \/ IsAnswer(m) \/ IsRequest(m) \/ IsGrant(m)
         /\ IsGrant(m) => m.to \in Node
         /\ IsAnswer(m) => m.match \in Nat
         /\ IsRequest(m) => m.lastTerm \in Nat /\ m.lastIndex \in Nat
         /\ IsAppend(m) => /\ m.prev \in Nat /\ m.prevTerm \in Nat
                           /\ m.entries \in Seq(Nat) /\ m.commit \in Nat
                           /\ m.to \in Node
BY DEF Messages, IsAppend, IsAnswer, IsRequest, IsGrant

\* The fields of a node.
LEMMA CoreFacts ==
  ASSUME NEW c \in Cores
  PROVE  /\ c.term \in Nat /\ c.vote \in Node \cup {Nil} /\ c.log \in Seq(Nat)
         /\ c.role \in Roles /\ c.commit \in Nat /\ c.durable \in Nat
         /\ c.lastApplied \in Nat /\ c.votes \in SUBSET Node
         /\ c.next \in [Node -> Nat \ {0}] /\ c.match \in [Node -> Nat]
         /\ HardState(c) \in HardStates
         /\ HardState(c).term = c.term /\ HardState(c).vote = c.vote
         /\ HardState(c).log = c.log
BY DEF Cores, HardState, HardStates

\* A node that only learnt about commits and what is durable.
Same(d, c) ==
  /\ d \in Cores /\ d.term = c.term /\ d.vote = c.vote /\ d.log = c.log
  /\ d.role = c.role /\ d.votes = c.votes /\ d.next = c.next

\* A node's vote is kept for the rest of its term.
VoteKept(c, d) ==
  \/ c.term < d.term
  \/ c.term = d.term /\ (c.vote = d.vote \/ c.vote = Nil)

\* maybe_step_down adopts a higher term without a vote, and leaves the log alone.
LEMMA StepDownFacts ==
  ASSUME NEW c \in Cores, NEW t \in Nat
  PROVE  LET d == StepDown(c, t) IN
         /\ d \in Cores /\ d.log = c.log /\ VoteKept(c, d) /\ d.term >= c.term
         /\ d.term = Larger(t, c.term)
         /\ t > c.term => d.vote = Nil /\ d.role = "Follower"
         /\ ~(t > c.term) => d = c
<1>1. CASE t > c.term
  <2> DEFINE d == [c EXCEPT !.term = t, !.vote = Nil, !.role = "Follower"]
  <2>1. StepDown(c, t) = d  BY <1>1 DEF StepDown
  <2>2. d \in Cores  BY DEF Cores, Roles
  <2>3. /\ d.log = c.log /\ d.term = t /\ d.vote = Nil /\ d.role = "Follower"
        /\ c.term \in Nat
    BY DEF Cores
  <2> HIDE DEF d
  <2> QED  BY <1>1, <2>1, <2>2, <2>3 DEF VoteKept, Larger
<1>2. CASE ~(t > c.term)
  BY <1>2 DEF StepDown, Cores, VoteKept, Larger
<1> QED  BY <1>1, <1>2

\* Applying committed entries changes neither term, vote, role nor log.
LEMMA ApplyFacts ==
  ASSUME NEW c \in Cores
  PROVE  Same(Apply(c), c)
<1> DEFINE f == IF c.role = "Leader" THEN Smaller(c.commit, c.durable)
                                     ELSE c.commit
<1>1. f \in Nat  BY DEF Cores, Smaller
<1>2. Apply(c) = [c EXCEPT !.lastApplied = Larger(@, f)]  BY DEF Apply
<1> HIDE DEF f
<1>3. Larger(c.lastApplied, f) \in Nat  BY <1>1 DEF Larger, Cores
<1> QED  BY <1>2, <1>3 DEF Same, Cores

\* Nor does advancing the commit index.
LEMMA AdvanceFacts ==
  ASSUME NEW c \in Cores, NEW n \in Node
  PROVE  Same(MaybeAdvanceCommit(n, c), c)
<1> DEFINE ok == {i \in c.commit + 1 .. Len(c.log) :
                    /\ c.log[i] = c.term
                    /\ Majority({n} \cup {p \in Node \ {n} : c.match[p] >= i})}
           k == CHOOSE i \in ok : \A j \in ok : j <= i
<1>1. CASE ok = {}
  <2>1. MaybeAdvanceCommit(n, c) = c  BY <1>1 DEF MaybeAdvanceCommit
  <2> QED  BY <2>1 DEF Same
<1>2. CASE ok # {}
  <2>1. MaybeAdvanceCommit(n, c) = [c EXCEPT !.commit = k]
    BY <1>2 DEF MaybeAdvanceCommit
  <2>2. c.commit \in Nat /\ c.log \in Seq(Nat)  BY DEF Cores
  <2>3. ok \subseteq 0 .. Len(c.log) /\ Len(c.log) \in Nat  BY <2>2
  <2> HIDE DEF ok
  <2>4. \E i \in ok : \A j \in ok : j <= i  BY <1>2, <2>3, GreatestExists
  <2>5. k \in ok  BY <2>4
  <2> HIDE DEF k
  <2>6. k \in Nat  BY <2>3, <2>5
  <2> QED  BY <2>1, <2>6 DEF Same, Cores
<1> QED  BY <1>1, <1>2

\* Two steps that leave these fields alone leave them alone together.
LEMMA SameTrans ==
  ASSUME NEW c, NEW d, NEW e, Same(d, c), Same(e, d)
  PROVE  Same(e, c)
BY DEF Same

\* An AppendEntries shows a part of its leader's log.
LEMMA ReplicateFacts ==
  ASSUME NEW c \in Cores, NEW n \in Node, NEW p \in Node
  PROVE  LET m == ReplicateTo(n, c, p) IN
         /\ m \in Messages /\ IsAppend(m) /\ m.from = n
         /\ m.entries # <<>> => Part(MsgWindow(m), LogWindow(c.log))
<1> DEFINE next == c.next[p]
           last == Smaller(next + MaxBatch - 1, Len(c.log))
           e == SubSeq(c.log, next, last)
           m == ReplicateTo(n, c, p)
<1>1. /\ c.log \in Seq(Nat) /\ Len(c.log) \in Nat /\ next \in Nat /\ next >= 1
      /\ c.term \in Nat /\ c.commit \in Nat
  BY DEF Cores
<1>2. MaxBatch \in Nat \ {0}  BY RaftAssumption
<1>3. last \in Int /\ last <= Len(c.log) /\ last >= 0  BY <1>1, <1>2 DEF Smaller
<1>4. TermAt(c.log, next - 1) \in Nat  BY <1>1 DEF TermAt
<1>5. e \in Seq(Nat)
  <2>1. last \in Nat  BY <1>3
  <2> HIDE DEF next, last
  <2> QED  BY <1>1, <1>3, <2>1
<1>6. m = [type |-> "AppendEntries", term |-> c.term, from |-> n, to |-> p,
           prev |-> next - 1, prevTerm |-> TermAt(c.log, next - 1),
           entries |-> e, commit |-> c.commit]
  BY DEF ReplicateTo
<1> HIDE DEF m, e
<1>7. m \in Messages /\ IsAppend(m) /\ m.from = n
  BY <1>1, <1>4, <1>5, <1>6 DEF Messages, IsAppend
<1>8. ASSUME e # <<>> PROVE Part(MsgWindow(m), LogWindow(c.log))
  <2> USE DEF e
  <2>1. next <= last  BY <1>1, <1>3, <1>8
  <2> HIDE DEF last, next
  <2>2. /\ Len(e) = last - next + 1
        /\ \A k \in 1 .. Len(e) : e[k] = c.log[next + k - 1]
    <3>1. next \in 1 .. Len(c.log) + 1 /\ last \in next - 1 .. Len(c.log)
      BY <1>1, <1>3, <2>1
    <3> QED  BY <1>1, <3>1, SubSeqProperties
  <2>3. \A k \in 1 .. Len(e) : e[k] = c.log[next + k - 1]  BY <2>2
  <2> HIDE DEF e
  <2> DEFINE w == MsgWindow(m)
             v == LogWindow(c.log)
  <2>4. /\ w.prev = next - 1 /\ w.prevTerm = TermAt(c.log, next - 1)
        /\ w.entries = e /\ v.prev = 0 /\ v.prevTerm = 0 /\ v.entries = c.log
    BY <1>6 DEF MsgWindow, LogWindow
  <2> HIDE DEF w, v
  <2>5. End(w) = last /\ End(v) = Len(c.log)
    <3>1. Len(w.entries) = last - next + 1 /\ w.prev = next - 1
      BY <2>2, <2>4
    <3>2. End(w) = (next - 1) + (last - next + 1)  BY <3>1 DEF End
    <3>3. End(v) = 0 + Len(c.log)  BY <2>4 DEF End
    <3> QED  BY <1>1, <1>3, <3>2, <3>3
  <2>6. ASSUME NEW i \in w.prev .. End(w) PROVE At(w, i) = At(v, i)
    <3>1. i \in next - 1 .. last  BY <2>4, <2>5
    <3>2. CASE i = next - 1
      <4>1. At(w, i) = TermAt(c.log, i)  BY <2>4, <3>2 DEF At
      <4>2. i \in 0 .. Len(c.log)  BY <1>1, <1>3, <2>1, <3>2
      <4> QED  BY <1>1, <2>4, <4>1, <4>2 DEF At, TermAt
    <3>3. CASE i # next - 1
      <4>1. i - (next - 1) \in 1 .. Len(e)  BY <1>1, <1>3, <2>2, <3>1, <3>3
      <4>2. At(w, i) = e[i - (next - 1)]  BY <2>4, <3>3 DEF At
      <4>3. e[i - (next - 1)] = c.log[next + (i - (next - 1)) - 1]
        BY <2>3, <4>1
      <4>4. next + (i - (next - 1)) - 1 = i  BY <1>1, <1>3, <3>1
      <4>5. i # 0 /\ i - 0 = i  BY <1>1, <1>3, <3>1, <3>3
      <4> QED  BY <2>4, <4>2, <4>3, <4>4, <4>5 DEF At
    <3> QED  BY <3>2, <3>3
  <2>7. v.prev <= w.prev /\ End(w) <= End(v)  BY <1>1, <1>3, <2>4, <2>5
  <2>8. Part(w, v)  BY <2>6, <2>7 DEF Part
  <2> QED  BY <2>8 DEF w, v
<1>9. m.entries = e  BY <1>6
<1> QED  BY <1>7, <1>8, <1>9 DEF m

\* A majority of a finite group is met by every other.
LEMMA MajoritiesMeet ==
  ASSUME NEW Q \in SUBSET Node, NEW R \in SUBSET Node, Majority(Q), Majority(R)
  PROVE  \E q \in Node : q \in Q /\ q \in R
<1>1. IsFiniteSet(Node)  BY RaftAssumption
<1>2. /\ Cardinality(Q) \in Nat /\ Cardinality(R) \in Nat
      /\ Cardinality(Node) \in Nat
  BY <1>1, FS_Subset, FS_CardinalityType
<1>3. Cardinality(Q) + Cardinality(R) > Cardinality(Node)
  BY <1>2 DEF Majority
<1>4. Q \cap R # {}  BY <1>1, <1>3, FS_MajoritiesIntersect
<1> QED  BY <1>4
-----------------------------------------------------------------------------
(* The round gate.                                                         *)

\* Messages a step of node n, now c, may put out: its own, and no vote but the
\* one of its term, which it was asked for.
Proper(n, c, out) ==
  /\ out \in SUBSET Messages
  /\ \A m \in out :
       /\ m.from = n
       /\ IsBallot(m) => m.term = c.term /\ Choice(m) = c.vote
       /\ IsGrant(m) => Asked(m.term, m.to)

\* Those that wait for a round.
Claims(out) == {m \in out : ~IsAppend(m)}

\* Where the gate puts them.
Gated(n, c, out) ==
  /\ msgs' \in SUBSET Messages /\ msgs' \subseteq msgs \cup out
  /\ \A m \in msgs : IsBallot(m) => m \in msgs'
  /\ flight' \in [Node -> Flights] /\ held' \in [Node -> SUBSET Messages]
  /\ \A q \in Node \ {n} : flight'[q] = flight[q] /\ held'[q] = held[q]
  /\ \/ /\ flight'[n] = flight[n] /\ held'[n] \subseteq held[n] \cup Claims(out)
        /\ flight[n].on
        /\ \A m \in msgs' : IsBallot(m) => m \in msgs
     \/ /\ flight'[n].on /\ flight'[n].hs = HardState(c)
        /\ flight'[n].msgs \subseteq flight[n].msgs \cup Claims(out)
        /\ held'[n] = held[n]
        /\ \A m \in msgs' : IsBallot(m) => m \in msgs
     \/ /\ HardState(c) = disk[n] /\ ~flight[n].on
        /\ flight'[n] = flight[n] /\ held'[n] = held[n]

\* The gate sends only what needs no fsync, and holds the rest for a round that
\* covers it.
LEMMA GateFacts ==
  ASSUME Types, NEW n \in Node, NEW c \in Cores, NEW out \in SUBSET Messages,
         Gate(n, c, out)
  PROVE  Gated(n, c, out)
<1> DEFINE free == {m \in out : m.type \in ShipsBeforeDurable}
           claims == out \ free
           owed == HardState(c) # Drained(n)
<1>1. free \in SUBSET Messages /\ claims \in SUBSET Messages
      /\ (\A m \in free : IsAppend(m)) /\ claims = Claims(out)
  BY DEF ShipsBeforeDurable, IsAppend, Claims
<1>2. ASSUME NEW o, o \in SUBSET Messages, o \subseteq out, msgs' = Sent(o)
      PROVE  /\ msgs' \in SUBSET Messages /\ msgs' \subseteq msgs \cup out
             /\ \A m \in msgs : IsBallot(m) => m \in msgs'
             /\ \A m \in msgs' : m \in msgs \/ m \in o
  <2>1. msgs \in SUBSET Messages  BY DEF Types
  <2>2. \A m \in msgs : IsBallot(m) => \A x \in o : ~Displaces(x, m)
    BY DEF IsBallot, IsRequest, IsGrant, Displaces
  <2> QED  BY <1>2, <2>1, <2>2 DEF Sent
<1>3. HardState(c) \in HardStates  BY CoreFacts
<1>4. /\ flight \in [Node -> Flights] /\ held \in [Node -> SUBSET Messages]
      /\ flight[n] \in Flights
  BY DEF Types
<1>5. \A m \in free : ~IsBallot(m)
  BY <1>1 DEF IsBallot, IsAppend, IsRequest, IsGrant
<1>6. CASE /\ owed /\ flight[n].on /\ msgs' = Sent(free)
           /\ held' = [held EXCEPT ![n] = @ \cup claims] /\ UNCHANGED flight
  <2>1. /\ held' \in [Node -> SUBSET Messages] /\ held'[n] = held[n] \cup claims
        /\ \A q \in Node \ {n} : held'[q] = held[q]
    BY <1>1, <1>4, <1>6
  <2>2. /\ msgs' \in SUBSET Messages /\ msgs' \subseteq msgs \cup out
        /\ \A m \in msgs : IsBallot(m) => m \in msgs'
        /\ \A m \in msgs' : m \in msgs \/ m \in free
    BY <1>1, <1>2, <1>6
  <2> QED  BY <1>1, <1>4, <1>5, <1>6, <2>1, <2>2 DEF Gated
<1>7. CASE /\ owed /\ ~flight[n].on /\ msgs' = Sent(free)
           /\ flight' = [flight EXCEPT ![n] =
                [on |-> TRUE, hs |-> HardState(c), msgs |-> claims]]
           /\ UNCHANGED held
  <2>1. /\ flight' \in [Node -> Flights]
        /\ flight'[n] = [on |-> TRUE, hs |-> HardState(c), msgs |-> claims]
        /\ \A q \in Node \ {n} : flight'[q] = flight[q]
    BY <1>1, <1>3, <1>4, <1>7 DEF Flights
  <2>2. /\ msgs' \in SUBSET Messages /\ msgs' \subseteq msgs \cup out
        /\ \A m \in msgs : IsBallot(m) => m \in msgs'
        /\ \A m \in msgs' : m \in msgs \/ m \in free
    BY <1>1, <1>2, <1>7
  <2> QED  BY <1>1, <1>4, <1>5, <1>7, <2>1, <2>2 DEF Gated
<1>8. CASE /\ ~owed /\ flight[n].on /\ msgs' = Sent(free)
           /\ flight' = [flight EXCEPT ![n].msgs = @ \cup claims]
           /\ UNCHANGED held
  <2>1. HardState(c) = flight[n].hs  BY <1>8 DEF Drained
  <2>2. /\ flight' \in [Node -> Flights]
        /\ flight'[n] = [flight[n] EXCEPT !.msgs = @ \cup claims]
        /\ \A q \in Node \ {n} : flight'[q] = flight[q]
    BY <1>1, <1>4, <1>8 DEF Flights
  <2>3. /\ flight'[n].on /\ flight'[n].hs = HardState(c)
        /\ flight'[n].msgs = flight[n].msgs \cup claims
    BY <1>4, <1>8, <2>1, <2>2 DEF Flights
  <2>4. /\ msgs' \in SUBSET Messages /\ msgs' \subseteq msgs \cup out
        /\ \A m \in msgs : IsBallot(m) => m \in msgs'
        /\ \A m \in msgs' : m \in msgs \/ m \in free
    BY <1>1, <1>2, <1>8
  <2> QED  BY <1>1, <1>4, <1>5, <1>8, <2>2, <2>3, <2>4 DEF Gated
<1>9. CASE /\ ~owed /\ ~flight[n].on /\ msgs' = Sent(out)
           /\ UNCHANGED <<held, flight>>
  <2>1. HardState(c) = disk[n]  BY <1>9 DEF Drained
  <2>2. /\ msgs' \in SUBSET Messages /\ msgs' \subseteq msgs \cup out
        /\ \A m \in msgs : IsBallot(m) => m \in msgs'
    BY <1>2, <1>9
  <2> QED  BY <1>4, <1>9, <2>1, <2>2 DEF Gated
<1> QED  BY <1>6, <1>7, <1>8, <1>9 DEF Gate

\* What a step of the core does to the types.
LEMMA StepTypes ==
  ASSUME Types, NEW n \in Node, NEW c \in Cores, NEW out, Proper(n, c, out),
         Record(n, c), Gate(n, c, out), UNCHANGED disk,
         rounds' \in Nat, crashes' \in Nat
  PROVE  Types'
<1>1. Gated(n, c, out)  BY GateFacts DEF Proper
<1>2. core' \in [Node -> Cores]  BY DEF Record, Types
<1>3. elected' \in SUBSET (Nat \X Node)
  BY CoreFacts DEF Record, Types
<1>4. \A q \in Node : ~flight'[q].on => flight'[q] = NoFlight
  BY <1>1 DEF Gated, Types
<1>5. \A q \in Node : \A m \in flight'[q].msgs \cup held'[q] :
        m.from = q /\ ~IsAppend(m)
  BY <1>1 DEF Gated, Types, Proper, Claims
<1> QED  BY <1>1, <1>2, <1>3, <1>4, <1>5 DEF Types, Gated

\* A vote that was covered stays so when the node keeps its vote.
LEMMA CoversKept ==
  ASSUME NEW m \in Messages, IsBallot(m), NEW c, NEW d, VoteKept(c, d),
         c.term \in Nat, d.term \in Nat, Covers(c, m)
  PROVE  Covers(d, m)
<1>1. m.term \in Nat /\ Choice(m) \in Node
  BY MessageFacts DEF IsBallot, Choice
<1>2. Choice(m) # Nil  BY <1>1, RaftAssumption
<1> QED  BY <1>1, <1>2 DEF Covers, VoteKept

\* Shipped votes stay shipped.
LEMMA VotedStays ==
  ASSUME \A m \in msgs : IsBallot(m) => m \in msgs'
  PROVE  /\ \A t, x : Asked(t, x) => Asked(t, x)'
         /\ \A q, t, x : Voted(q, t, x) => Voted(q, t, x)'
BY DEF Asked, Voted, IsBallot

\* What a node may be after a step: a candidate that nobody elected yet with the
\* votes it was sent, or a leader elected before or just now.
Rightful(n, c) ==
  /\ c.role = "Candidate" =>
       /\ <<c.term, n>> \notin elected
       /\ \A q \in c.votes : q = n \/ Voted(q, c.term, n)
  /\ c.role = "Leader" =>
       \/ <<c.term, n>> \in elected
       \/ /\ Asked(c.term, n)
          /\ \E Q \in SUBSET Node : Majority(Q) /\ \A q \in Q : Voted(q, c.term, n)

\* A step that changes its vote only within a new term, and campaigns only by
\* rights, keeps Votes.
LEMMA StepVotes ==
  ASSUME Types, Types', Votes, NEW n \in Node, NEW c \in Cores, NEW out,
         Proper(n, c, out), Record(n, c), Gated(n, c, out), UNCHANGED disk,
         VoteKept(core[n], c), Rightful(n, c)
  PROVE  Votes'
<1>1. /\ core'[n] = c /\ \A q \in Node \ {n} : core'[q] = core[q]
      /\ core \in [Node -> Cores] /\ msgs \in SUBSET Messages
      /\ msgs' \in SUBSET Messages
      /\ \A q \in Node : core[q].term \in Nat /\ core[q] \in Cores
      /\ c.term \in Nat
  BY CoreFacts DEF Record, Types
<1>2. \A m \in out : m \in Messages /\ m.from = n  BY DEF Proper
<1>3. ASSUME NEW m \in Messages, IsBallot(m), NEW q \in Node, Covers(core[q], m)
      PROVE  Covers(core'[q], m)
  BY <1>1, <1>3, CoversKept
<1>4. ASSUME NEW m \in out, IsBallot(m)
      PROVE  Covers(c, m) /\ Covers(HardState(c), m)
  BY <1>4, CoreFacts DEF Proper, Covers
<1>5. ASSUME NEW m \in Messages, IsBallot(m), Covers(c, m)
      PROVE  Covers(HardState(c), m)
  BY <1>5, CoreFacts DEF Covers
<1>6. \A q \in Node : flight[q].msgs \subseteq Messages /\ held[q] \subseteq Messages
  BY DEF Types, Flights
<1>7. \A m \in msgs' : m.from \in Node  BY <1>1, MessageFacts
<1>8. VotesCovered'
  <2>1. ASSUME NEW m \in msgs', IsBallot(m)
        PROVE  /\ Covers(disk[m.from], m) /\ Covers(core'[m.from], m)
               /\ flight'[m.from].on => Covers(flight'[m.from].hs, m)
    <3>1. CASE m \in msgs
      <4>1. /\ Covers(disk[m.from], m) /\ Covers(core[m.from], m)
            /\ flight[m.from].on => Covers(flight[m.from].hs, m)
        BY <2>1, <3>1 DEF Votes, VotesCovered
      <4>2. Covers(core'[m.from], m)  BY <1>1, <1>3, <1>7, <2>1, <3>1, <4>1
      <4>3. flight'[m.from].on => Covers(flight'[m.from].hs, m)
        <5>1. CASE m.from # n  BY <1>7, <4>1, <5>1 DEF Gated
        <5>2. CASE m.from = n
          <6>1. Covers(HardState(c), m)
            BY <1>1, <1>5, <2>1, <4>2, <5>2
          <6> QED  BY <4>1, <5>2, <6>1 DEF Gated
        <5> QED  BY <5>1, <5>2
      <4> QED  BY <4>1, <4>2, <4>3
    <3>2. CASE m \notin msgs
      <4>1. m \in out /\ m.from = n  BY <1>2, <3>2 DEF Gated
      <4>2. /\ HardState(c) = disk[n] /\ ~flight[n].on /\ flight'[n] = flight[n]
        BY <2>1, <3>2 DEF Gated
      <4> QED  BY <1>1, <1>4, <2>1, <4>1, <4>2
    <3> QED  BY <3>1, <3>2
  <2>2. ASSUME NEW q \in Node, NEW m \in flight'[q].msgs, IsBallot(m)
        PROVE  Covers(flight'[q].hs, m) /\ Covers(core'[q], m)
    <3>1. CASE q # n
      BY <1>1, <2>2, <3>1 DEF Gated, Votes, VotesCovered
    <3>2. CASE q = n /\ m \in flight[n].msgs
      <4>1. Covers(flight[n].hs, m) /\ Covers(core[n], m) /\ m \in Messages
        BY <1>6, <2>2, <3>2 DEF Votes, VotesCovered
      <4>2. Covers(c, m)  BY <1>1, <1>3, <2>2, <4>1
      <4>3. Covers(HardState(c), m)  BY <1>5, <2>2, <4>1, <4>2
      <4> QED  BY <1>1, <3>2, <4>1, <4>2, <4>3 DEF Gated
    <3>3. CASE q = n /\ m \notin flight[n].msgs
      <4>1. m \in out /\ flight'[n].hs = HardState(c)
        BY <2>2, <3>3 DEF Gated, Claims
      <4> QED  BY <1>1, <1>4, <2>2, <3>3, <4>1
    <3> QED  BY <3>1, <3>2, <3>3
  <2>3. ASSUME NEW q \in Node, NEW m \in held'[q], IsBallot(m)
        PROVE  Covers(core'[q], m)
    <3>1. CASE m \in held[q]
      <4>1. Covers(core[q], m) /\ m \in Messages
        BY <1>6, <2>3, <3>1 DEF Votes, VotesCovered
      <4> QED  BY <1>3, <2>3, <4>1
    <3>2. CASE m \notin held[q]
      <4>1. q = n /\ m \in out  BY <2>3, <3>2 DEF Gated, Claims
      <4> QED  BY <1>1, <1>4, <2>3, <4>1
    <3> QED  BY <3>1, <3>2
  <2> QED  BY <2>1, <2>2, <2>3 DEF VotesCovered
<1>9. \A q \in Node : \A m \in Mail(q)' : m \in Mail(q) \/ (q = n /\ m \in out)
  BY <1>2 DEF Mail, Gated, Claims
<1>10. \A q \in Node : \A m \in Mail(q) :
         /\ m \in Messages
         /\ IsBallot(m) => Covers(core[q], m)
  BY <1>1, <1>6 DEF Mail, Votes, VotesCovered
<1>11. VotesAgree'
  <2> SUFFICES ASSUME NEW q \in Node, NEW a \in Mail(q)', NEW b \in Mail(q)',
                      IsBallot(a), IsBallot(b), a.term = b.term
               PROVE  Choice(a) = Choice(b)
    BY DEF VotesAgree
  <2>1. CASE a \in Mail(q) /\ b \in Mail(q)
    BY <2>1 DEF Votes, VotesAgree
  <2>2. ASSUME NEW m \in Mail(q), IsBallot(m), q = n, NEW o \in out, IsBallot(o),
               m.term = o.term
        PROVE  Choice(m) = Choice(o)
    <3>1. Covers(c, m)  BY <1>1, <1>3, <1>10, <2>2
    <3>2. o.term = c.term /\ Choice(o) = c.vote  BY <2>2 DEF Proper
    <3> QED  BY <1>1, <2>2, <3>1, <3>2 DEF Covers
  <2>3. CASE a \in out /\ b \in out  BY <2>3 DEF Proper
  <2> QED  BY <1>9, <2>1, <2>2, <2>3
<1>12. /\ \A t, x : Asked(t, x) => Asked(t, x)'
       /\ \A q, t, x : Voted(q, t, x) => Voted(q, t, x)'
  BY VotedStays DEF Gated
<1>13. GrantsAsked'
  <2> SUFFICES ASSUME NEW q \in Node, NEW m \in Mail(q)', IsGrant(m)
               PROVE  Asked(m.term, m.to)'
    BY DEF GrantsAsked
  <2>1. Asked(m.term, m.to)  BY <1>9 DEF Votes, GrantsAsked, Proper
  <2> QED  BY <1>12, <2>1
<1>14. /\ elected \subseteq elected'
       /\ \A e \in elected' : e \in elected \/ (e = <<c.term, n>> /\ c.role = "Leader")
       /\ c.role = "Leader" => <<c.term, n>> \in elected'
  BY DEF Record
<1>15. CandidateVotes'
  <2>1. ASSUME NEW q \in Node, core'[q].role = "Candidate"
        PROVE  <<core'[q].term, q>> \notin elected'
    <3>1. CASE q = n  BY <1>1, <1>14, <2>1, <3>1 DEF Rightful
    <3>2. CASE q # n
      <4>1. core'[q] = core[q]  BY <1>1, <3>2
      <4>2. <<core[q].term, q>> # <<c.term, n>>  BY <3>2
      <4> QED  BY <1>14, <2>1, <4>1, <4>2 DEF Votes, CandidateVotes
    <3> QED  BY <3>1, <3>2
  <2>2. ASSUME NEW q \in Node, core'[q].role = "Candidate",
               NEW v \in core'[q].votes, v # q
        PROVE  \E m \in msgs' : /\ IsBallot(m) /\ m.from = v
                                /\ m.term = core'[q].term /\ Choice(m) = q
    <3>1. Voted(v, core'[q].term, q)
      BY <1>1, <2>2 DEF Rightful, Votes, CandidateVotes
    <3>2. PICK m \in msgs : /\ IsBallot(m) /\ m.from = v
                            /\ m.term = core'[q].term /\ Choice(m) = q
      BY <3>1 DEF Voted
    <3> QED  BY <3>2 DEF Gated
  <2> QED  BY <2>1, <2>2 DEF CandidateVotes, Voted
<1>16. Elected'
  <2>1. ASSUME NEW e \in elected'
        PROVE  /\ Asked(e[1], e[2])'
               /\ \E Q \in SUBSET Node :
                    Majority(Q) /\ \A q \in Q : Voted(q, e[1], e[2])'
    <3>1. CASE e \in elected
      BY <1>12, <3>1 DEF Votes, Elected
    <3>2. CASE e \notin elected
      <4>1. e = <<c.term, n>> /\ c.role = "Leader" /\ <<c.term, n>> \notin elected
        BY <1>14, <2>1, <3>2
      <4>2. e[1] = c.term /\ e[2] = n  BY <4>1
      <4>3. /\ Asked(c.term, n)
            /\ \E Q \in SUBSET Node : Majority(Q) /\ \A q \in Q : Voted(q, c.term, n)
        BY <4>1 DEF Rightful
      <4> QED  BY <1>12, <4>2, <4>3
    <3> QED  BY <3>1, <3>2
  <2>2. ASSUME NEW q \in Node, core'[q].role = "Leader"
        PROVE  <<core'[q].term, q>> \in elected'
    BY <1>1, <1>14, <2>2 DEF Votes, Elected
  <2> QED  BY <2>1, <2>2 DEF Elected
<1> QED  BY <1>8, <1>11, <1>13, <1>15, <1>16 DEF Votes

\* Two majorities of votes for one term share a voter, who votes once.
LEMMA OneLeader == Types /\ Votes => ElectionSafety
<1> SUFFICES ASSUME Types, Votes, NEW e \in elected, NEW f \in elected, e[1] = f[1]
             PROVE  e[2] = f[2]
  BY DEF ElectionSafety
<1>1. PICK Q \in SUBSET Node : Majority(Q) /\ \A q \in Q : Voted(q, e[1], e[2])
  BY DEF Votes, Elected
<1>2. PICK R \in SUBSET Node : Majority(R) /\ \A q \in R : Voted(q, f[1], f[2])
  BY DEF Votes, Elected
<1>3. PICK q \in Node : q \in Q /\ q \in R  BY <1>1, <1>2, MajoritiesMeet
<1>4. PICK a \in msgs : /\ IsBallot(a) /\ a.from = q /\ a.term = e[1]
                        /\ Choice(a) = e[2]
  BY <1>1, <1>3 DEF Voted
<1>5. PICK b \in msgs : /\ IsBallot(b) /\ b.from = q /\ b.term = f[1]
                        /\ Choice(b) = f[2]
  BY <1>2, <1>3 DEF Voted
<1>6. a \in Mail(q) /\ b \in Mail(q)  BY <1>4, <1>5 DEF Mail
<1> QED  BY <1>4, <1>5, <1>6 DEF Votes, VotesAgree
-----------------------------------------------------------------------------
(* How windows agree.                                                      *)

\* The first i entries of a log.
LEMMA PrefixFacts ==
  ASSUME NEW s \in Seq(Nat), NEW i \in 0 .. Len(s)
  PROVE  /\ SubSeq(s, 1, i) \in Seq(Nat) /\ Len(SubSeq(s, 1, i)) = i
         /\ \A j \in 1 .. i : SubSeq(s, 1, i)[j] = s[j]
<1> DEFINE t == SubSeq(s, 1, i)
<1>1. Len(s) \in Nat /\ i \in Nat /\ i - 1 + 1 = i  OBVIOUS
<1>2. 1 \in 1 .. Len(s) + 1 /\ i \in 1 - 1 .. Len(s)  BY <1>1
<1>3. /\ t \in Seq(Nat) /\ Len(t) = i - 1 + 1
      /\ \A j \in 1 .. i - 1 + 1 : t[j] = s[1 + j - 1]
  BY <1>2, SubSeqProperties
<1> HIDE DEF t
<1>4. ASSUME NEW j \in 1 .. i PROVE t[j] = s[j]
  <2>1. j \in 1 .. i - 1 + 1 /\ 1 + j - 1 = j  BY <1>1
  <2> QED  BY <1>3, <2>1
<1> QED  BY <1>1, <1>3, <1>4 DEF t

\* The ends of a window.
LEMMA EndFacts ==
  ASSUME NEW w, IsWindow(w)
  PROVE  w.prev \in Nat /\ End(w) \in Nat /\ w.prev <= End(w)
<1>1. w.prev \in Nat /\ Len(w.entries) \in Nat  BY DEF IsWindow
<1> QED  BY <1>1 DEF End

\* A position in a part of a window is one in the window.
LEMMA PartFacts ==
  ASSUME NEW w, NEW v, IsWindow(w), IsWindow(v), Part(w, v),
         NEW i \in w.prev + 1 .. End(w)
  PROVE  /\ i \in v.prev + 1 .. End(v) /\ i \in w.prev .. End(w)
         /\ At(w, i) = At(v, i)
<1>1. /\ w.prev \in Nat /\ End(w) \in Nat /\ v.prev \in Nat /\ End(v) \in Nat
  BY EndFacts, Zenon
<1>2. v.prev <= w.prev /\ End(w) <= End(v)  BY DEF Part
<1>3. i \in v.prev + 1 .. End(v) /\ i \in w.prev .. End(w)  BY <1>1, <1>2
<1>4. At(w, i) = At(v, i)  BY <1>3 DEF Part
<1> QED  BY <1>3, <1>4

\* Two logs agree whichever of them is looked at first.
LEMMA AgreeSymmetric ==
  ASSUME NEW a, NEW b, IsWindow(a), IsWindow(b), Agree(a, b)
  PROVE  Agree(b, a)
<1>1. End(a) \in Nat /\ End(b) \in Nat /\ a.prev \in Nat /\ b.prev \in Nat
  BY EndFacts, Zenon
<1> SUFFICES ASSUME NEW i \in b.prev + 1 .. End(b), a.prev < i, i <= End(a),
                    At(b, i) = At(a, i), NEW j \in b.prev .. i, a.prev <= j
             PROVE  At(b, j) = At(a, j)
  BY DEF Agree
<1>2. i \in a.prev + 1 .. End(a) /\ b.prev < i /\ i <= End(b)  BY <1>1
<1>3. j \in a.prev .. i /\ b.prev <= j  BY <1>1
<1> QED  BY <1>2, <1>3 DEF Agree

\* A part of a window agrees with whatever the window agrees with.
LEMMA PartAgrees ==
  ASSUME NEW a, NEW b, NEW p, IsWindow(a), IsWindow(b), IsWindow(p),
         Part(p, a), Agree(a, b)
  PROVE  Agree(p, b)
<1>1. /\ End(a) \in Nat /\ End(b) \in Nat /\ End(p) \in Nat
      /\ a.prev \in Nat /\ b.prev \in Nat /\ p.prev \in Nat
  BY EndFacts, Zenon
<1> SUFFICES ASSUME NEW i \in p.prev + 1 .. End(p), b.prev < i, i <= End(b),
                    At(p, i) = At(b, i), NEW j \in p.prev .. i, b.prev <= j
             PROVE  At(p, j) = At(b, j)
  BY DEF Agree
<1>2. i \in a.prev + 1 .. End(a) /\ j \in a.prev .. i
  BY <1>1 DEF Part
<1>3. At(p, i) = At(a, i) /\ At(p, j) = At(a, j)
  <2>1. i \in p.prev .. End(p) /\ j \in p.prev .. End(p)  BY <1>1
  <2> QED  BY <2>1 DEF Part
<1> QED  BY <1>2, <1>3 DEF Agree

\* A log cut at prev and continued with what an AppendEntries carries.
LEMMA SpliceAgrees ==
  ASSUME NEW w, NEW u, NEW a, NEW v, IsWindow(w), IsWindow(u), IsWindow(a),
         IsWindow(v), u.prev = 0, w.prev = 0, a.prev <= End(u),
         End(w) = End(a), At(u, a.prev) = At(a, a.prev),
         \A i \in 0 .. a.prev : At(w, i) = At(u, i),
         \A i \in a.prev .. End(a) : At(w, i) = At(a, i),
         Agree(u, v), Agree(a, v)
  PROVE  Agree(w, v)
<1>1. /\ End(a) \in Nat /\ End(v) \in Nat /\ End(u) \in Nat /\ End(w) \in Nat
      /\ a.prev \in Nat /\ v.prev \in Nat /\ a.prev <= End(a)
  BY EndFacts, Zenon
<1> SUFFICES ASSUME NEW i \in w.prev + 1 .. End(w), v.prev < i, i <= End(v),
                    At(w, i) = At(v, i), NEW j \in w.prev .. i, v.prev <= j
             PROVE  At(w, j) = At(v, j)
  BY DEF Agree
<1>2. /\ i \in Nat /\ i >= 1 /\ i <= End(a) /\ j \in Nat /\ j <= i
  BY <1>1
<1>3. ASSUME NEW k \in Nat, 1 <= k, k <= a.prev, v.prev < k, k <= End(v),
             At(u, k) = At(v, k), NEW l \in Nat, l <= k, v.prev <= l
      PROVE  At(w, l) = At(v, l)
  <2>1. k \in u.prev + 1 .. End(u) /\ l \in u.prev .. k /\ l \in 0 .. a.prev
    BY <1>1, <1>3
  <2> QED  BY <1>3, <2>1 DEF Agree
<1>4. CASE i <= a.prev
  <2>1. At(u, i) = At(v, i)  BY <1>1, <1>2, <1>4
  <2> QED  BY <1>2, <1>3, <1>4, <2>1
<1>5. CASE i > a.prev
  <2>1. i \in a.prev + 1 .. End(a) /\ i \in a.prev .. End(a)  BY <1>1, <1>2, <1>5
  <2>2. At(a, i) = At(v, i)  BY <2>1
  <2>3. \A k \in a.prev .. i : v.prev <= k => At(a, k) = At(v, k)
    BY <2>1, <2>2 DEF Agree
  <2>4. CASE j >= a.prev
    <3>1. j \in a.prev .. i /\ j \in a.prev .. End(a)  BY <1>1, <1>2, <2>4
    <3> QED  BY <2>3, <3>1
  <2>5. CASE j < a.prev
    <3>1. /\ a.prev \in a.prev .. i /\ v.prev <= a.prev /\ v.prev < a.prev
          /\ a.prev >= 1 /\ a.prev <= End(v) /\ j <= a.prev
      BY <1>1, <1>2, <1>5, <2>5
    <3>2. At(u, a.prev) = At(v, a.prev)  BY <2>3, <3>1
    <3> QED  BY <1>1, <1>2, <1>3, <3>1, <3>2
  <2> QED  BY <1>1, <1>2, <2>4, <2>5
<1> QED  BY <1>1, <1>2, <1>4, <1>5

\* A log with one entry more that no window shows.
LEMMA AppendAgrees ==
  ASSUME NEW w, NEW u, NEW v, IsWindow(w), IsWindow(u), IsWindow(v),
         u.prev = 0, w.prev = 0, End(w) = End(u) + 1,
         \A i \in 0 .. End(u) : At(w, i) = At(u, i),
         ~(v.prev < End(w) /\ End(w) <= End(v) /\ At(v, End(w)) = At(w, End(w))),
         Agree(u, v)
  PROVE  Agree(w, v)
<1>1. /\ End(v) \in Nat /\ End(u) \in Nat /\ End(w) \in Nat /\ v.prev \in Nat
  BY EndFacts, Zenon
<1> SUFFICES ASSUME NEW i \in w.prev + 1 .. End(w), v.prev < i, i <= End(v),
                    At(w, i) = At(v, i), NEW j \in w.prev .. i, v.prev <= j
             PROVE  At(w, j) = At(v, j)
  BY DEF Agree
<1>2. i # End(w)  OBVIOUS
<1>3. i \in u.prev + 1 .. End(u) /\ j \in u.prev .. i  BY <1>1, <1>2
<1>4. i \in 0 .. End(u) /\ j \in 0 .. End(u)  BY <1>1, <1>3
<1> QED  BY <1>3, <1>4 DEF Agree

\* The windows of a well typed state.
LEMMA WindowFacts ==
  ASSUME Types
  PROVE  /\ \A w \in Windows : IsWindow(w)
         /\ \A n \in Node : /\ LogWindow(core[n].log) \in Windows
                            /\ LogWindow(disk[n].log) \in Windows
                            /\ LogWindow(flight[n].hs.log) \in Windows
         /\ \A m \in msgs : IsAppend(m) /\ m.entries # <<>> =>
              MsgWindow(m) \in Windows
<1>1. \A n \in Node : /\ core[n].log \in Seq(Nat) /\ disk[n].log \in Seq(Nat)
                      /\ flight[n].hs.log \in Seq(Nat)
  BY DEF Types, Cores, HardStates, Flights
<1>2. \A log \in Seq(Nat) : IsWindow(LogWindow(log))
  BY DEF IsWindow, LogWindow
<1>3. \A m \in msgs : IsAppend(m) => IsWindow(MsgWindow(m))
  BY MessageFacts DEF Types, IsWindow, MsgWindow
<1>4. \A w \in Windows : IsWindow(w)  BY <1>1, <1>2, <1>3 DEF Windows
<1> QED  BY <1>4 DEF Windows

WindowsTyped == \A w \in Windows : IsWindow(w)

\* Every log in the system, in memory, on disk, in flight or sent, is typed.
LEMMA WindowsTypedNow == Types => WindowsTyped
BY WindowFacts DEF WindowsTyped

\* The same in the next state.
LEMMA WindowsTypedNext == Types' => WindowsTyped'
BY WindowsTypedNow, PTL

\* Votes that are covered by the disk leave room for one leader of a term.
LEMMA OneLeaderNext == Types' /\ Votes' => ElectionSafety'
BY OneLeader, PTL

\* A log as a window.
LEMMA LogWindowFacts ==
  ASSUME NEW log \in Seq(Nat)
  PROVE  /\ IsWindow(LogWindow(log)) /\ LogWindow(log).prev = 0
         /\ End(LogWindow(log)) = Len(log) /\ At(LogWindow(log), 0) = 0
         /\ \A i \in 1 .. Len(log) : At(LogWindow(log), i) = log[i]
<1>1. Len(log) \in Nat  OBVIOUS
<1> QED  BY <1>1 DEF IsWindow, LogWindow, End, At

\* A log is part of itself.
LEMMA PartReflexive == ASSUME NEW w, IsWindow(w) PROVE Part(w, w)
BY DEF Part, IsWindow, End

\* The empty log is part of every log.
LEMMA EmptyIsPart ==
  ASSUME NEW c \in Cores
  PROVE  Part(LogWindow(<<>>), LogWindow(c.log))
<1>1. c.log \in Seq(Nat) /\ <<>> \in Seq(Nat) /\ Len(<<>>) = 0
  BY CoreFacts
<1>2. /\ LogWindow(<<>>).prev = 0 /\ End(LogWindow(<<>>)) = 0
      /\ At(LogWindow(<<>>), 0) = 0
  BY <1>1, LogWindowFacts
<1>3. /\ LogWindow(c.log).prev = 0 /\ End(LogWindow(c.log)) \in Nat
      /\ At(LogWindow(c.log), 0) = 0
  BY <1>1, LogWindowFacts
<1> QED  BY <1>2, <1>3 DEF Part
-----------------------------------------------------------------------------
(* Steps and logs.                                                         *)

\* Some window shows an entry of term t at position i.
Shown(i, t) == \E w \in Windows : i \in w.prev + 1 .. End(w) /\ At(w, i) = t

\* The log of node n, now c, agrees with every window; what is new in it is an
\* entry of the term c leads.  A leader keeps what it has.
NewLog(n, c) ==
  /\ \A v \in Windows : Agree(LogWindow(c.log), v)
  /\ \A i \in 1 .. Len(c.log) :
       Shown(i, c.log[i]) \/ (c.role = "Leader" /\ c.log[i] = c.term)
  /\ c.role = "Leader" =>
       /\ c.term = core[n].term /\ core[n].role \in {"Candidate", "Leader"}
       /\ core[n].role = "Leader" =>
            /\ Len(core[n].log) <= Len(c.log)
            /\ \A i \in 1 .. Len(core[n].log) : c.log[i] = core[n].log[i]

\* Every window after a step shows a part of one before it or of the log of c.
Fed(c) ==
  \A w \in Windows' : \E v \in Windows \cup {LogWindow(c.log)} : Part(w, v)

SealsKept == \A t \in Nat : Sealed(t) => Sealed(t)'

\* No entry carries the term a candidate is campaigning in.
LEMMA CandidateTermUnseen ==
  ASSUME Types, Votes, Logs, ElectionSafety', NEW n \in Node,
         core[n].role = "Candidate", elected \subseteq elected',
         <<core[n].term, n>> \in elected', NEW i
  PROVE  ~Shown(i, core[n].term)
<1> SUFFICES ASSUME Shown(i, core[n].term) PROVE FALSE
  OBVIOUS
<1>1. Known(core[n].term)  BY DEF Logs, TermsKnown, Shown
<1>2. ~Sealed(core[n].term)  BY DEF Sealed
<1>3. PICK x \in Node : <<core[n].term, x>> \in elected  BY <1>1, <1>2 DEF Known
<1>4. x = n  BY <1>3 DEF ElectionSafety
<1> QED  BY <1>3, <1>4 DEF Votes, CandidateVotes

\* A step that changes one log as a leader or as a follower may, and sends and
\* stores only parts of logs, keeps Logs.
LEMMA StepLogs ==
  ASSUME Types, Types', Votes, Votes', Logs, NEW n \in Node, NEW c \in Cores,
         core' = [core EXCEPT ![n] = c], elected \subseteq elected',
         NewLog(n, c), Fed(c), SealsKept
  PROVE  Logs'
<1> DEFINE new == LogWindow(c.log)
<1>1. /\ core'[n] = c /\ \A q \in Node \ {n} : core'[q] = core[q]
      /\ core \in [Node -> Cores] /\ c.log \in Seq(Nat) /\ c.term \in Nat
      /\ Len(c.log) \in Nat
  BY CoreFacts DEF Types
<1>2. /\ IsWindow(new) /\ new.prev = 0 /\ End(new) = Len(c.log)
      /\ \A i \in 1 .. Len(c.log) : At(new, i) = c.log[i]
  BY <1>1, LogWindowFacts
<1>3. (\A w \in Windows : IsWindow(w)) /\ (\A w \in Windows' : IsWindow(w))
  BY WindowFacts, WindowsTypedNext DEF WindowsTyped
<1>4. ElectionSafety'  BY OneLeaderNext
<1>5. \A q \in Node : core'[q].role = "Leader" => <<core'[q].term, q>> \in elected'
  BY DEF Votes, Elected
<1> HIDE DEF new
<1>6. ASSUME NEW w \in Windows', NEW i \in w.prev + 1 .. End(w)
      PROVE  Shown(i, At(w, i)) \/ (c.role = "Leader" /\ At(w, i) = c.term)
  <2>1. PICK v \in Windows \cup {new} : Part(w, v)  BY DEF Fed, new
  <2>2. IsWindow(v) /\ IsWindow(w)  BY <1>2, <1>3
  <2>3. i \in v.prev + 1 .. End(v)  BY <2>1, <2>2, PartFacts
  <2>4. At(w, i) = At(v, i)  BY <2>1, <2>2, PartFacts
  <2>5. CASE v \in Windows  BY <2>3, <2>4, <2>5 DEF Shown
  <2>6. CASE v = new
    <3>1. i \in 1 .. Len(c.log) /\ At(w, i) = c.log[i]  BY <1>2, <2>3, <2>4, <2>6
    <3> QED  BY <3>1 DEF NewLog
  <2> QED  BY <2>5, <2>6
<1>7. TermsKnown'
  <2> SUFFICES ASSUME NEW w \in Windows', NEW i \in w.prev + 1 .. End(w)
               PROVE  Known(At(w, i))'
    BY DEF TermsKnown, End, At
  <2>1. CASE Shown(i, At(w, i))
    <3>1. Known(At(w, i))  BY <2>1 DEF Logs, TermsKnown, Shown
    <3>2. At(w, i) \in Nat
      <4>1. IsWindow(w)  BY <1>3
      <4> QED  BY <4>1 DEF IsWindow, At, End
    <3>3. CASE Sealed(At(w, i))
      <4>1. Sealed(At(w, i))'  BY <3>2, <3>3 DEF SealsKept
      <4> QED  BY <4>1 DEF Known
    <3>4. CASE \E x \in Node : <<At(w, i), x>> \in elected
      BY <3>4 DEF Known
    <3> QED  BY <3>1, <3>3, <3>4 DEF Known
  <2>2. CASE c.role = "Leader" /\ At(w, i) = c.term
    <3>1. <<At(w, i), n>> \in elected'  BY <1>1, <1>5, <2>2
    <3> QED  BY <3>1 DEF Known
  <2> QED  BY <1>6, <2>1, <2>2
<1>8. ASSUME NEW q \in Node, core'[q].role = "Leader", NEW w \in Windows',
             NEW i \in w.prev + 1 .. End(w), At(w, i) = core'[q].term
      PROVE  i <= Len(core'[q].log) /\ core'[q].log[i] = core'[q].term
  <2>1. CASE q # n
    <3>1. core'[q] = core[q]  BY <1>1, <2>1
    <3>2. ~(c.role = "Leader" /\ At(w, i) = c.term)
      <4> SUFFICES ASSUME c.role = "Leader", At(w, i) = c.term PROVE FALSE
        OBVIOUS
      <4>1. <<c.term, n>> \in elected' /\ <<c.term, q>> \in elected'
        BY <1>1, <1>5, <1>8
      <4> QED  BY <1>4, <2>1, <4>1 DEF ElectionSafety
    <3>3. Shown(i, core[q].term)  BY <1>6, <1>8, <3>1, <3>2
    <3> QED  BY <1>8, <3>1, <3>3 DEF Shown, Logs, LeaderHas
  <2>2. CASE q = n
    <3>1. c.role = "Leader" /\ At(w, i) = c.term /\ c.term = core[n].term
      BY <1>1, <1>8, <2>2 DEF NewLog
    <3>2. CASE Shown(i, c.term)
      <4>1. core[n].role = "Leader"
        <5>1. <<core[n].term, n>> \in elected'  BY <1>1, <1>5, <3>1
        <5>2. core[n].role # "Candidate"
          BY <1>4, <3>1, <3>2, <5>1, CandidateTermUnseen
        <5> QED  BY <3>1, <5>2 DEF NewLog
      <4>2. i <= Len(core[n].log) /\ core[n].log[i] = core[n].term
        BY <3>1, <3>2, <4>1 DEF Shown, Logs, LeaderHas
      <4>3. i \in Nat /\ i >= 1
        BY <1>3, <1>8 DEF IsWindow, End
      <4>4. /\ Len(core[n].log) <= Len(c.log) /\ Len(core[n].log) \in Nat
            /\ \A k \in 1 .. Len(core[n].log) : c.log[k] = core[n].log[k]
        BY <1>1, <3>1, <4>1, CoreFacts DEF NewLog
      <4> QED  BY <1>1, <2>2, <3>1, <4>2, <4>3, <4>4
    <3>3. CASE ~Shown(i, c.term)
      <4>1. PICK v \in Windows \cup {new} : Part(w, v)  BY DEF Fed, new
      <4>2. IsWindow(v) /\ IsWindow(w)  BY <1>2, <1>3
      <4>3. i \in v.prev + 1 .. End(v)  BY <4>1, <4>2, PartFacts
      <4>4. At(w, i) = At(v, i)  BY <4>1, <4>2, PartFacts
      <4>5. v = new  BY <3>1, <3>3, <4>3, <4>4 DEF Shown
      <4> QED  BY <1>1, <1>2, <2>2, <3>1, <4>3, <4>4, <4>5
    <3> QED  BY <3>2, <3>3
  <2> QED  BY <2>1, <2>2
<1>9. LeaderHas'
  BY <1>8 DEF LeaderHas, At, End
<1>10. ASSUME NEW a \in Windows \cup {new}, NEW b \in Windows \cup {new}
       PROVE  Agree(a, b) /\ IsWindow(a) /\ IsWindow(b)
  <2>1. IsWindow(a) /\ IsWindow(b)  BY <1>2, <1>3
  <2>2. CASE a \in Windows /\ b \in Windows  BY <2>1, <2>2 DEF Logs, WindowsAgree
  <2>3. CASE a = new /\ b \in Windows  BY <2>1, <2>3 DEF NewLog, new
  <2>4. CASE a \in Windows /\ b = new
    <3>1. Agree(b, a)  BY <2>4 DEF NewLog, new
    <3> QED  BY <2>1, <3>1, AgreeSymmetric
  <2>5. CASE a = new /\ b = new  BY <2>1, <2>5 DEF Agree
  <2> QED  BY <2>2, <2>3, <2>4, <2>5
<1>11. ASSUME NEW a \in Windows', NEW b \in Windows' PROVE Agree(a, b)
  <2>1. IsWindow(a) /\ IsWindow(b)  BY <1>3
  <2>2. PICK v \in Windows \cup {new} : Part(a, v)  BY DEF Fed, new
  <2>3. PICK u \in Windows \cup {new} : Part(b, u)  BY DEF Fed, new
  <2>4. Agree(u, v) /\ IsWindow(u) /\ IsWindow(v)  BY <1>10
  <2>5. Agree(b, v)  BY <2>1, <2>3, <2>4, PartAgrees
  <2>6. Agree(v, b)  BY <2>1, <2>4, <2>5, AgreeSymmetric
  <2> QED  BY <2>1, <2>2, <2>4, <2>6, PartAgrees
<1>12. WindowsAgree'  BY <1>11 DEF WindowsAgree, Agree, At, End
<1> QED  BY <1>7, <1>9, <1>12 DEF Logs

\* A candidacy and a request for votes begin a new term; an AppendEntries shows
\* a part of its sender's log.
Orderly(n, c, out) ==
  /\ c.role = "Candidate" =>
       \/ c.term > core[n].term
       \/ core[n].role = "Candidate" /\ c.term = core[n].term
  /\ \A m \in out :
       /\ IsRequest(m) => m.term > core[n].term
       /\ IsAppend(m) /\ m.entries # <<>> =>
            Part(MsgWindow(m), LogWindow(c.log))

\* A step that campaigns only in a new term, and asks only for votes in one, leaves
\* a term in which nobody can be elected as it is.
LEMMA StepSeals ==
  ASSUME Types, Types', NEW n \in Node, NEW c \in Cores, NEW out,
         core' = [core EXCEPT ![n] = c], UNCHANGED disk,
         Proper(n, c, out), Gated(n, c, out), VoteKept(core[n], c),
         Orderly(n, c, out)
  PROVE  SealsKept
<1> SUFFICES ASSUME NEW t \in Nat, Sealed(t) PROVE Sealed(t)'
  BY DEF SealsKept
<1>1. /\ core'[n] = c /\ \A q \in Node \ {n} : core'[q] = core[q]
      /\ core[n].term \in Nat /\ c.term \in Nat /\ HardState(c).term = c.term
  BY CoreFacts DEF Types
<1>2. t <= core[n].term /\ core[n].term <= c.term
  BY <1>1 DEF Sealed, VoteKept
<1>3. \A q \in Node : t <= core'[q].term  BY <1>1, <1>2 DEF Sealed
<1>4. \A q \in Node : t <= disk'[q].term  BY DEF Sealed
<1>5. \A q \in Node : flight'[q].on => t <= flight'[q].hs.term
  <2>1. \A q \in Node \ {n} : flight'[q].on => t <= flight'[q].hs.term
    BY DEF Gated, Sealed
  <2>2. flight'[n].on => t <= flight'[n].hs.term
    BY <1>1, <1>2 DEF Gated, Sealed
  <2> QED  BY <2>1, <2>2
<1>6. \A q \in Node : core'[q].role = "Candidate" => core'[q].term # t
  <2>1. c.role = "Candidate" => c.term # t
    BY <1>1, <1>2 DEF Orderly, Sealed
  <2> QED  BY <1>1, <2>1 DEF Sealed
<1>7. ASSUME NEW q \in Node, NEW m \in Mail(q)', IsBallot(m) PROVE m.term # t
  <2>1. CASE m \in Mail(q)  BY <1>7, <2>1 DEF Sealed
  <2>2. CASE m \notin Mail(q)
    <3>1. m \in out  BY <1>7, <2>2 DEF Mail, Gated, Claims, Proper
    <3>2. CASE IsRequest(m)
      <4>1. m.term > core[n].term /\ m.term \in Nat
        BY <3>1, <3>2, MessageFacts DEF Orderly, Proper
      <4> QED  BY <1>1, <1>2, <4>1
    <3>3. CASE IsGrant(m)
      <4>1. PICK o \in msgs : IsRequest(o) /\ o.term = m.term
        BY <3>1, <3>3 DEF Proper, Asked
      <4>2. o.from \in Node  BY MessageFacts DEF Types
      <4>3. o \in Mail(o.from) /\ IsBallot(o)  BY <4>1 DEF Mail, IsBallot
      <4> QED  BY <4>1, <4>2, <4>3 DEF Sealed
    <3> QED  BY <1>7, <3>2, <3>3 DEF IsBallot
  <2> QED  BY <2>1, <2>2
<1> QED  BY <1>3, <1>4, <1>5, <1>6, <1>7 DEF Sealed

\* A step that sends parts of its own log, and puts no other in flight, adds no
\* other windows.
LEMMA StepFeeds ==
  ASSUME Types, Types', NEW n \in Node, NEW c \in Cores, NEW out,
         core' = [core EXCEPT ![n] = c], UNCHANGED disk,
         Gated(n, c, out), Orderly(n, c, out)
  PROVE  Fed(c)
<1> SUFFICES ASSUME NEW w \in Windows'
             PROVE  \E v \in Windows \cup {LogWindow(c.log)} : Part(w, v)
  BY DEF Fed
<1>1. /\ core'[n] = c /\ \A q \in Node \ {n} : core'[q] = core[q]
      /\ HardState(c).log = c.log
  BY CoreFacts DEF Types
<1>2. IsWindow(w)  BY WindowsTypedNext DEF WindowsTyped
<1>3. Part(w, w)  BY <1>2, PartReflexive
<1>4. ASSUME NEW q \in Node, w = LogWindow(core'[q].log)
      PROVE  w \in Windows \cup {LogWindow(c.log)}
  BY <1>1, <1>4, WindowFacts
<1>5. ASSUME NEW q \in Node, w = LogWindow(disk'[q].log)
      PROVE  w \in Windows \cup {LogWindow(c.log)}
  BY <1>5, WindowFacts
<1>6. ASSUME NEW q \in Node, w = LogWindow(flight'[q].hs.log)
      PROVE  w \in Windows \cup {LogWindow(c.log)}
  <2>1. \A p \in Node : LogWindow(flight[p].hs.log) \in Windows  BY WindowFacts
  <2>2. \/ flight'[q] = flight[q]
        \/ flight'[q].hs.log = c.log
    BY <1>1 DEF Gated
  <2> QED  BY <1>6, <2>1, <2>2
<1>7. ASSUME NEW m \in msgs', IsAppend(m), m.entries # <<>>, w = MsgWindow(m)
      PROVE  w \in Windows \/ Part(w, LogWindow(c.log))
  <2>1. m \in msgs \/ m \in out  BY DEF Gated
  <2>2. CASE m \in msgs  BY <1>7, <2>2, WindowFacts
  <2>3. CASE m \in out  BY <1>7, <2>3 DEF Orderly
  <2> QED  BY <2>1, <2>2, <2>3
<1>8. \/ \E q \in Node : w = LogWindow(core'[q].log)
      \/ \E q \in Node : w = LogWindow(disk'[q].log)
      \/ \E q \in Node : w = LogWindow(flight'[q].hs.log)
      \/ \E m \in msgs' : IsAppend(m) /\ m.entries # <<>> /\ w = MsgWindow(m)
  BY DEF Windows
<1> QED  BY <1>3, <1>4, <1>5, <1>6, <1>7, <1>8

\* A step of the core that keeps to all of this keeps the invariant.
LEMMA StepKeeps ==
  ASSUME IInv, NEW n \in Node, NEW c \in Cores, NEW out,
         Record(n, c), Gate(n, c, out), UNCHANGED disk,
         rounds' \in Nat, crashes' \in Nat,
         Proper(n, c, out), VoteKept(core[n], c), Rightful(n, c),
         Orderly(n, c, out), NewLog(n, c)
  PROVE  IInv'
<1>1. Types /\ Votes /\ Logs  BY DEF IInv
<1>2. Types'  BY <1>1, StepTypes
<1>3. Gated(n, c, out)  BY <1>1, GateFacts DEF Proper
<1>4. Votes'  BY <1>1, <1>2, <1>3, StepVotes
<1>5. core' = [core EXCEPT ![n] = c] /\ elected \subseteq elected'
  BY DEF Record
<1>6. SealsKept  BY <1>1, <1>2, <1>3, <1>5, StepSeals
<1>7. Fed(c)  BY <1>1, <1>2, <1>3, <1>5, StepFeeds
<1>8. Logs'  BY <1>1, <1>2, <1>4, <1>5, <1>6, <1>7, StepLogs
<1> QED  BY <1>2, <1>4, <1>8 DEF IInv

\* A node whose log did not change.
LEMMA KeepsLog ==
  ASSUME Types, Logs, NEW n \in Node, NEW c \in Cores, c.log = core[n].log,
         c.role = "Leader" => core[n].role = "Leader" /\ c.term = core[n].term
  PROVE  NewLog(n, c)
<1>1. core[n].log \in Seq(Nat) /\ Len(core[n].log) \in Nat
  BY CoreFacts DEF Types
<1>2. LogWindow(c.log) \in Windows  BY WindowFacts
<1>3. \A v \in Windows : Agree(LogWindow(c.log), v)
  BY <1>2 DEF Logs, WindowsAgree
<1>4. ASSUME NEW i \in 1 .. Len(c.log) PROVE Shown(i, c.log[i])
  <2> DEFINE w == LogWindow(c.log)
  <2>1. w.prev = 0 /\ End(w) = Len(c.log) /\ At(w, i) = c.log[i] /\ w \in Windows
    BY <1>1, <1>2, LogWindowFacts
  <2> HIDE DEF w
  <2> QED  BY <1>1, <2>1 DEF Shown
<1> QED  BY <1>1, <1>3, <1>4 DEF NewLog
-----------------------------------------------------------------------------
(* The actions of one node.                                                *)

\* A step that puts out no message.
LEMMA Silent ==
  ASSUME NEW n, NEW c
  PROVE  /\ Proper(n, c, {})
         /\ (c.role # "Candidate" => Orderly(n, c, {}))
BY DEF Proper, Orderly

\* start_pre_vote keeps the invariant.
LEMMA StartPreVoteKeeps ==
  ASSUME IInv, NEW n \in Node, StartPreVote(n)
  PROVE  IInv'
<1> DEFINE c == [core[n] EXCEPT !.role = "PreCandidate"]
<1>1. Types /\ Votes /\ Logs /\ core[n] \in Cores  BY DEF IInv, Types
<1>2. Record(n, c) /\ Gate(n, c, {}) /\ UNCHANGED disk /\ rounds' = rounds + 1
      /\ UNCHANGED crashes
  BY DEF StartPreVote
<1>3. c \in Cores  BY <1>1 DEF Cores, Roles
<1>4. c.log = core[n].log /\ c.term = core[n].term /\ c.vote = core[n].vote
      /\ c.role = "PreCandidate"
  BY <1>1 DEF Cores
<1> HIDE DEF c
<1>5. rounds' \in Nat /\ crashes' \in Nat  BY <1>1, <1>2 DEF Types
<1>6. VoteKept(core[n], c)  BY <1>4 DEF VoteKept
<1>7. Rightful(n, c)  BY <1>4 DEF Rightful
<1>8. Proper(n, c, {}) /\ Orderly(n, c, {})  BY <1>4, Silent
<1>9. NewLog(n, c)  BY <1>1, <1>3, <1>4, KeepsLog
<1> QED  BY <1>2, <1>3, <1>5, <1>6, <1>7, <1>8, <1>9, StepKeeps

\* The same for an action that is a step.
LEMMA PlainStepKeeps ==
  ASSUME IInv, NEW n \in Node, NEW c \in Cores, NEW out, Step(n, c, out),
         Proper(n, c, out), VoteKept(core[n], c), Rightful(n, c),
         Orderly(n, c, out), NewLog(n, c)
  PROVE  IInv'
<1>1. rounds' \in Nat /\ crashes' \in Nat /\ UNCHANGED disk
      /\ Record(n, c) /\ Gate(n, c, out)
  BY DEF Step, IInv, Types
<1> QED  BY <1>1, StepKeeps

\* A pre-vote majority, and the campaign it starts, keeps the invariant.
LEMMA WinPreVoteKeeps ==
  ASSUME IInv, NEW n \in Node, WinPreVote(n)
  PROVE  IInv'
<1> DEFINE c == Campaign(n, core[n])
           m == [type |-> "RequestVote", term |-> c.term, from |-> n,
                 lastIndex |-> LastIndex(c.log), lastTerm |-> LastTerm(c.log)]
<1>1. Types /\ Votes /\ Logs /\ core[n] \in Cores  BY DEF IInv, Types
<1>2. Step(n, c, {m})  BY DEF WinPreVote
<1>3. c \in Cores
  <2>1. core[n].term + 1 \in Nat /\ {n} \in SUBSET Node  BY <1>1, CoreFacts
  <2> QED  BY <1>1, <2>1 DEF Campaign, Cores, Roles
<1>4. /\ c.log = core[n].log /\ c.term = core[n].term + 1 /\ c.vote = n
      /\ c.role = "Candidate" /\ c.votes = {n} /\ core[n].term \in Nat
      /\ c.log \in Seq(Nat)
  BY <1>1 DEF Campaign, Cores
<1>5. LastIndex(c.log) \in Nat /\ LastTerm(c.log) \in Nat
  <2>1. Len(c.log) \in Nat /\ (c.log # <<>> => Len(c.log) \in 1 .. Len(c.log))
    BY <1>4
  <2> QED  BY <1>4, <2>1 DEF LastIndex, LastTerm
<1> HIDE DEF c
<1>6. m \in Messages /\ m.from = n /\ IsRequest(m) /\ ~IsGrant(m) /\ ~IsAppend(m)
      /\ m.term = c.term
  BY <1>4, <1>5 DEF Messages, IsRequest, IsGrant, IsAppend
<1> HIDE DEF m
<1>7. VoteKept(core[n], c)  BY <1>4 DEF VoteKept
<1>8. Proper(n, c, {m})  BY <1>4, <1>6 DEF Proper, Choice
<1>9. Orderly(n, c, {m})  BY <1>4, <1>6 DEF Orderly
<1>10. <<c.term, n>> \notin elected
  <2> SUFFICES ASSUME <<c.term, n>> \in elected PROVE FALSE  OBVIOUS
  <2>1. <<c.term, n>>[1] = c.term /\ <<c.term, n>>[2] = n  OBVIOUS
  <2>2. Asked(c.term, n)  BY <1>1, <2>1 DEF Votes, Elected
  <2>3. PICK o \in msgs : IsRequest(o) /\ o.from = n /\ o.term = c.term
    BY <2>2 DEF Asked
  <2>4. Covers(core[n], o)  BY <1>1, <2>3 DEF Votes, VotesCovered, IsBallot
  <2> QED  BY <1>4, <2>3, <2>4 DEF Covers
<1>11. Rightful(n, c)  BY <1>4, <1>10 DEF Rightful
<1>12. NewLog(n, c)  BY <1>1, <1>3, <1>4, KeepsLog
<1> QED  BY <1>2, <1>3, <1>7, <1>8, <1>9, <1>11, <1>12, PlainStepKeeps

\* Stepping down at the sight of a higher term keeps the invariant.
LEMMA LearnTermKeeps ==
  ASSUME IInv, NEW n \in Node, LearnTerm(n)
  PROVE  IInv'
<1>1. Types /\ Votes /\ Logs /\ core[n] \in Cores  BY DEF IInv, Types
<1>2. \A p \in Node : core[p].term \in Nat /\ disk[p].term \in Nat
  BY <1>1, CoreFacts DEF Types, HardStates
<1>3. PICK t \in Nat : t > core[n].term /\ Step(n, StepDown(core[n], t), {})
  <2>1. PICK p \in Node :
          LET t == IF core[n].role = "PreCandidate" THEN core[p].term
                                                    ELSE disk[p].term
          IN t > core[n].term /\ Step(n, StepDown(core[n], t), {})
    BY DEF LearnTerm
  <2> DEFINE t == IF core[n].role = "PreCandidate" THEN core[p].term
                                                   ELSE disk[p].term
  <2>2. t \in Nat  BY <1>2
  <2>3. t > core[n].term /\ Step(n, StepDown(core[n], t), {})  BY <2>1
  <2> HIDE DEF t
  <2> QED  BY <2>2, <2>3
<1> DEFINE c == StepDown(core[n], t)
<1>4. /\ c \in Cores /\ c.log = core[n].log /\ VoteKept(core[n], c)
      /\ c.role = "Follower"
  BY <1>1, <1>3, StepDownFacts
<1> HIDE DEF c
<1>5. Rightful(n, c)  BY <1>4 DEF Rightful
<1>6. Proper(n, c, {}) /\ Orderly(n, c, {})  BY <1>4, Silent
<1>7. NewLog(n, c)  BY <1>1, <1>4, KeepsLog
<1>8. Step(n, c, {})  BY <1>3 DEF c
<1> QED  BY <1>4, <1>5, <1>6, <1>7, <1>8, PlainStepKeeps

\* A candidate that concedes, with its term and its vote, keeps the invariant.
LEMMA ConcedeKeeps ==
  ASSUME IInv, NEW n \in Node, Concede(n)
  PROVE  IInv'
<1> DEFINE c == [core[n] EXCEPT !.role = "Follower", !.votes = {}]
<1>1. Types /\ Votes /\ Logs /\ core[n] \in Cores  BY DEF IInv, Types
<1>2. Step(n, c, {})  BY DEF Concede
<1>3. c \in Cores  BY <1>1 DEF Cores, Roles
<1>4. c.log = core[n].log /\ c.term = core[n].term /\ c.vote = core[n].vote
      /\ c.role = "Follower"
  BY <1>1 DEF Cores
<1> HIDE DEF c
<1>5. VoteKept(core[n], c)  BY <1>4 DEF VoteKept
<1>6. Rightful(n, c)  BY <1>4 DEF Rightful
<1>7. Proper(n, c, {}) /\ Orderly(n, c, {})  BY <1>4, Silent
<1>8. NewLog(n, c)  BY <1>1, <1>3, <1>4, KeepsLog
<1> QED  BY <1>2, <1>3, <1>5, <1>6, <1>7, <1>8, PlainStepKeeps

\* What a leader sends.
LEMMA LeaderSends ==
  ASSUME NEW n \in Node, NEW c \in Cores, c.role = "Leader", NEW P \in SUBSET Node
  PROVE  LET out == {ReplicateTo(n, c, p) : p \in P} IN
         Proper(n, c, out) /\ Orderly(n, c, out)
<1> DEFINE out == {ReplicateTo(n, c, p) : p \in P}
<1>1. ASSUME NEW m \in out
      PROVE  /\ m \in Messages /\ IsAppend(m) /\ m.from = n
             /\ m.entries # <<>> => Part(MsgWindow(m), LogWindow(c.log))
  <2>1. PICK p \in Node : m = ReplicateTo(n, c, p)  OBVIOUS
  <2> QED  BY <2>1, ReplicateFacts
<1> HIDE DEF out
<1>2. Proper(n, c, out)
  BY <1>1 DEF Proper, IsBallot, IsAppend, IsRequest, IsGrant
<1>3. Orderly(n, c, out)
  BY <1>1 DEF Orderly, IsAppend, IsRequest
<1> QED  BY <1>2, <1>3 DEF out

\* A leader that stays one in its term.
LEMMA LeaderStays ==
  ASSUME Votes, NEW n \in Node, NEW c, core[n].role = "Leader", c.role = "Leader",
         c.term = core[n].term, c.vote = core[n].vote
  PROVE  VoteKept(core[n], c) /\ Rightful(n, c)
BY DEF VoteKept, Rightful, Votes, Elected

\* A broadcast of AppendEntries keeps the invariant.
LEMMA HeartbeatKeeps ==
  ASSUME IInv, NEW n \in Node, Heartbeat(n)
  PROVE  IInv'
<1>1. Types /\ Votes /\ Logs /\ core[n] \in Cores  BY DEF IInv, Types
<1>2. Step(n, core[n], Broadcast(n, core[n])) /\ core[n].role = "Leader"
  BY DEF Heartbeat
<1>3. /\ Proper(n, core[n], Broadcast(n, core[n]))
      /\ Orderly(n, core[n], Broadcast(n, core[n]))
  BY <1>1, <1>2, LeaderSends DEF Broadcast
<1>4. VoteKept(core[n], core[n]) /\ Rightful(n, core[n])
  BY <1>1, <1>2, LeaderStays
<1>5. NewLog(n, core[n])  BY <1>1, KeepsLog
<1> QED  BY <1>1, <1>2, <1>3, <1>4, <1>5, PlainStepKeeps

\* A leader's log with one more entry of its term, at a position where nobody
\* has one of that term.
LEMMA AppendsLog ==
  ASSUME Types, Logs, NEW n \in Node, NEW c \in Cores, c.role = "Leader",
         c.term = core[n].term, core[n].role \in {"Candidate", "Leader"},
         c.log = Append(core[n].log, c.term),
         ~Shown(Len(core[n].log) + 1, c.term)
  PROVE  NewLog(n, c)
<1> DEFINE log == core[n].log
           w == LogWindow(c.log)
           u == LogWindow(log)
<1>1. log \in Seq(Nat) /\ Len(log) \in Nat /\ c.log \in Seq(Nat) /\ c.term \in Nat
  BY CoreFacts DEF Types
<1>2. /\ Len(c.log) = Len(log) + 1
      /\ \A i \in 1 .. Len(log) : c.log[i] = log[i]
      /\ c.log[Len(log) + 1] = c.term
  BY <1>1, AppendProperties
<1>3. /\ IsWindow(w) /\ w.prev = 0 /\ End(w) = Len(c.log) /\ At(w, 0) = 0
      /\ \A i \in 1 .. Len(c.log) : At(w, i) = c.log[i]
  BY <1>1, LogWindowFacts
<1>4. /\ IsWindow(u) /\ u.prev = 0 /\ End(u) = Len(log) /\ At(u, 0) = 0
      /\ \A i \in 1 .. Len(log) : At(u, i) = log[i]
  BY <1>1, LogWindowFacts
<1>5. u \in Windows /\ \A v \in Windows : IsWindow(v)  BY WindowFacts
<1> HIDE DEF w, u, log
<1>6. ASSUME NEW i \in 0 .. End(u) PROVE At(w, i) = At(u, i)
  <2>1. CASE i = 0  BY <1>3, <1>4, <2>1
  <2>2. CASE i # 0
    <3>1. i \in 1 .. Len(log) /\ i \in 1 .. Len(c.log)  BY <1>1, <1>2, <1>4, <2>2
    <3> QED  BY <1>2, <1>3, <1>4, <3>1
  <2> QED  BY <2>1, <2>2
<1>7. End(w) = End(u) + 1 /\ At(w, End(w)) = c.term
  <2>1. Len(log) + 1 \in 1 .. Len(c.log)  BY <1>1, <1>2
  <2> QED  BY <1>2, <1>3, <1>4, <2>1
<1>8. ASSUME NEW v \in Windows PROVE Agree(w, v)
  <2>1. IsWindow(v) /\ Agree(u, v)  BY <1>5 DEF Logs, WindowsAgree
  <2>2. ~(v.prev < End(w) /\ End(w) <= End(v) /\ At(v, End(w)) = At(w, End(w)))
    <3> SUFFICES ASSUME v.prev < End(w), End(w) <= End(v),
                        At(v, End(w)) = At(w, End(w))
                 PROVE  FALSE
      OBVIOUS
    <3>1. End(w) \in v.prev + 1 .. End(v) /\ End(w) = Len(log) + 1
      BY <1>1, <1>2, <1>3, <2>1 DEF IsWindow, End
    <3> QED  BY <1>7, <3>1 DEF Shown, log
  <2> QED  BY <1>3, <1>4, <1>6, <1>7, <2>1, <2>2, AppendAgrees
<1>9. ASSUME NEW i \in 1 .. Len(c.log)
      PROVE  Shown(i, c.log[i]) \/ c.log[i] = c.term
  <2>1. CASE i = Len(log) + 1  BY <1>2, <2>1
  <2>2. CASE i # Len(log) + 1
    <3>1. i \in 1 .. Len(log)  BY <1>1, <1>2, <2>2
    <3>2. i \in u.prev + 1 .. End(u)  BY <1>4, <3>1
    <3>3. At(u, i) = log[i] /\ c.log[i] = log[i]  BY <1>2, <1>4, <3>1
    <3> QED  BY <1>5, <3>2, <3>3 DEF Shown
  <2> QED  BY <2>1, <2>2
<1>10. \A v \in Windows : Agree(LogWindow(c.log), v)  BY <1>8 DEF w
<1>11. /\ Len(core[n].log) <= Len(c.log)
       /\ \A i \in 1 .. Len(core[n].log) : c.log[i] = core[n].log[i]
  BY <1>1, <1>2 DEF log
<1> QED  BY <1>9, <1>10, <1>11 DEF NewLog

\* An entry appended by a leader keeps the invariant.
LEMMA ProposeKeeps ==
  ASSUME IInv, NEW n \in Node, Propose(n)
  PROVE  IInv'
<1> DEFINE d == [core[n] EXCEPT !.log = Append(@, core[n].term)]
           c == Apply(MaybeAdvanceCommit(n, d))
<1>1. Types /\ Votes /\ Logs /\ core[n] \in Cores  BY DEF IInv, Types
<1>2. core[n].role = "Leader" /\ Step(n, c, {})  BY DEF Propose
<1>3. core[n].log \in Seq(Nat) /\ core[n].term \in Nat  BY <1>1, CoreFacts
<1>4. Append(core[n].log, core[n].term) \in Seq(Nat)  BY <1>3, AppendProperties
<1>5. d \in Cores /\ d.log = Append(core[n].log, core[n].term)
      /\ d.term = core[n].term /\ d.vote = core[n].vote /\ d.role = core[n].role
  BY <1>1, <1>4 DEF Cores
<1> HIDE DEF d
<1>6. Same(c, d)
  <2>1. Same(MaybeAdvanceCommit(n, d), d)  BY <1>5, AdvanceFacts
  <2>2. MaybeAdvanceCommit(n, d) \in Cores  BY <2>1 DEF Same
  <2>3. Same(c, MaybeAdvanceCommit(n, d))  BY <2>2, ApplyFacts
  <2> QED  BY <2>1, <2>3, SameTrans
<1> HIDE DEF c
<1>7. /\ c \in Cores /\ c.log = Append(core[n].log, c.term) /\ c.role = "Leader"
      /\ c.term = core[n].term /\ c.vote = core[n].vote
  BY <1>2, <1>5, <1>6 DEF Same
<1>8. VoteKept(core[n], c) /\ Rightful(n, c)  BY <1>1, <1>2, <1>7, LeaderStays
<1>9. Proper(n, c, {}) /\ Orderly(n, c, {})  BY <1>7, Silent
<1>10. ~Shown(Len(core[n].log) + 1, c.term)
  <2> SUFFICES ASSUME Shown(Len(core[n].log) + 1, c.term) PROVE FALSE  OBVIOUS
  <2>1. Len(core[n].log) + 1 <= Len(core[n].log)
    BY <1>1, <1>2, <1>7 DEF Shown, Logs, LeaderHas
  <2> QED  BY <1>3, <2>1
<1>11. NewLog(n, c)  BY <1>1, <1>2, <1>7, <1>10, AppendsLog
<1> QED  BY <1>2, <1>7, <1>8, <1>9, <1>11, PlainStepKeeps

\* handle_request_vote, whether it grants or refuses, keeps the invariant.
LEMMA HandleRequestVoteKeeps ==
  ASSUME IInv, NEW n \in Node, NEW m \in msgs, HandleRequestVote(n, m)
  PROVE  IInv'
<1> DEFINE c == StepDown(core[n], m.term)
           d == [c EXCEPT !.vote = m.from]
           o == [type |-> "RequestVoteResp", term |-> c.term, from |-> n,
                 to |-> m.from]
<1>1. Types /\ Votes /\ Logs /\ core[n] \in Cores  BY DEF IInv, Types
<1>2. m \in Messages /\ m.term \in Nat /\ m.from \in Node
  BY <1>1, MessageFacts DEF Types
<1>3. /\ IsRequest(m) /\ m.term >= core[n].term
      /\ \/ c.vote \in {Nil, m.from} /\ Step(n, d, {o})
         \/ m.term > core[n].term /\ Step(n, c, {})
  BY DEF HandleRequestVote, IsRequest
<1>4. /\ c \in Cores /\ c.log = core[n].log /\ VoteKept(core[n], c)
      /\ c.term = m.term /\ core[n].term \in Nat
      /\ (m.term > core[n].term => c.vote = Nil /\ c.role = "Follower")
      /\ (~(m.term > core[n].term) => c = core[n])
  BY <1>1, <1>2, <1>3, StepDownFacts, CoreFacts DEF Larger
<1> HIDE DEF c
<1>5. d \in Cores /\ d.log = core[n].log /\ d.vote = m.from /\ d.term = m.term
      /\ d.role = c.role /\ d.votes = c.votes
  BY <1>2, <1>4 DEF Cores
<1>6. o \in Messages /\ IsGrant(o) /\ ~IsRequest(o) /\ ~IsAppend(o)
      /\ o.from = n /\ o.to = m.from /\ o.term = m.term
  BY <1>2, <1>4 DEF Messages, IsGrant, IsRequest, IsAppend
<1> HIDE DEF d, o
<1>7. CASE c.vote \in {Nil, m.from} /\ Step(n, d, {o})
  <2>1. VoteKept(core[n], d)  BY <1>2, <1>3, <1>4, <1>5, <1>7 DEF VoteKept
  <2>2. Asked(o.term, o.to)  BY <1>3, <1>6 DEF Asked
  <2>3. Proper(n, d, {o})
    BY <1>5, <1>6, <2>2 DEF Proper, Choice
  <2>4. CASE m.term > core[n].term
    <3>1. d.role = "Follower"  BY <1>4, <1>5, <2>4
    <3>2. Rightful(n, d) /\ Orderly(n, d, {o})
      BY <1>6, <3>1 DEF Rightful, Orderly
    <3>3. NewLog(n, d)  BY <1>1, <1>5, <3>1, KeepsLog
    <3> QED  BY <1>5, <1>7, <2>1, <2>3, <3>2, <3>3, PlainStepKeeps
  <2>5. CASE ~(m.term > core[n].term)
    <3>1. d.role = core[n].role /\ d.term = core[n].term /\ d.votes = core[n].votes
      BY <1>4, <1>5, <2>5
    <3>2. Rightful(n, d)
      BY <1>1, <3>1 DEF Rightful, Votes, CandidateVotes, Elected
    <3>3. Orderly(n, d, {o})  BY <1>6, <3>1 DEF Orderly
    <3>4. NewLog(n, d)  BY <1>1, <1>5, <3>1, KeepsLog
    <3> QED  BY <1>5, <1>7, <2>1, <2>3, <3>2, <3>3, <3>4, PlainStepKeeps
  <2> QED  BY <2>4, <2>5
<1>8. CASE m.term > core[n].term /\ Step(n, c, {})
  <2>1. c.role = "Follower"  BY <1>4, <1>8
  <2>2. Rightful(n, c)  BY <2>1 DEF Rightful
  <2>3. Proper(n, c, {}) /\ Orderly(n, c, {})  BY <2>1, Silent
  <2>4. NewLog(n, c)  BY <1>1, <1>4, <2>1, KeepsLog
  <2> QED  BY <1>4, <1>8, <2>2, <2>3, <2>4, PlainStepKeeps
<1> QED  BY <1>3, <1>7, <1>8

\* become_leader on a candidate.
LEMMA BecomeLeaderFacts ==
  ASSUME NEW n \in Node, NEW c \in Cores
  PROVE  LET w == BecomeLeader(n, c) IN
         /\ w \in Cores /\ w.role = "Leader" /\ w.log = Append(c.log, c.term)
         /\ w.term = c.term /\ w.vote = c.vote
<1> DEFINE next == [p \in Node |-> Len(c.log) + 1]
           match == [p \in Node |-> 0]
           log == Append(c.log, c.term)
           d == [c EXCEPT !.role = "Leader", !.log = log, !.next = next,
                          !.match = match]
           w == BecomeLeader(n, c)
<1>1. c.log \in Seq(Nat) /\ c.term \in Nat /\ Len(c.log) \in Nat  BY CoreFacts
<1>2. log \in Seq(Nat)  BY <1>1, AppendProperties
<1>3. next \in [Node -> Nat \ {0}] /\ match \in [Node -> Nat]  BY <1>1
<1>4. w = Apply(MaybeAdvanceCommit(n, d))  BY DEF BecomeLeader
<1> HIDE DEF next, match, log, w
<1>5. /\ d \in Cores /\ d.log = log /\ d.term = c.term /\ d.vote = c.vote
      /\ d.role = "Leader"
  BY <1>2, <1>3 DEF Cores, Roles
<1> HIDE DEF d
<1>6. Same(MaybeAdvanceCommit(n, d), d)  BY <1>5, AdvanceFacts
<1>7. MaybeAdvanceCommit(n, d) \in Cores  BY <1>6 DEF Same
<1>8. Same(w, MaybeAdvanceCommit(n, d))  BY <1>4, <1>7, ApplyFacts
<1>9. Same(w, d)  BY <1>6, <1>8, SameTrans
<1> QED  BY <1>5, <1>9 DEF Same, w, log

\* handle_vote_response, with the election it may win, keeps the invariant.
LEMMA HandleVoteRespKeeps ==
  ASSUME IInv, NEW n \in Node, NEW m \in msgs, HandleVoteResp(n, m)
  PROVE  IInv'
<1> DEFINE c == [core[n] EXCEPT !.votes = @ \cup {m.from}]
           won == BecomeLeader(n, c)
<1>1. Types /\ Votes /\ Logs /\ core[n] \in Cores  BY DEF IInv, Types
<1>2. m \in Messages /\ m.term \in Nat /\ m.from \in Node
  BY <1>1, MessageFacts DEF Types
<1>3. /\ IsGrant(m) /\ m.to = n /\ c.role = "Candidate" /\ m.term = c.term
      /\ IF Majority(c.votes) THEN Step(n, won, Broadcast(n, won))
                              ELSE Step(n, c, {})
  BY DEF HandleVoteResp, IsGrant
<1>4. core[n].votes \cup {m.from} \in SUBSET Node  BY <1>1, <1>2, CoreFacts
<1>5. /\ c \in Cores /\ c.log = core[n].log /\ c.term = core[n].term
      /\ c.vote = core[n].vote /\ c.votes = core[n].votes \cup {m.from}
      /\ core[n].role = c.role
  BY <1>1, <1>4 DEF Cores
<1> HIDE DEF c
<1>6. Voted(m.from, c.term, n)
  BY <1>3 DEF Voted, IsBallot, Choice, IsGrant, IsRequest
<1>7. \A q \in c.votes : q = n \/ Voted(q, c.term, n)
  BY <1>1, <1>3, <1>5, <1>6 DEF Votes, CandidateVotes
<1>8. <<c.term, n>> \notin elected
  BY <1>1, <1>3, <1>5 DEF Votes, CandidateVotes
<1>9. CASE ~Majority(c.votes)
  <2>1. Step(n, c, {})  BY <1>3, <1>9
  <2>2. VoteKept(core[n], c)  BY <1>5 DEF VoteKept
  <2>3. Rightful(n, c)  BY <1>3, <1>7, <1>8 DEF Rightful
  <2>4. Proper(n, c, {}) /\ Orderly(n, c, {})
    BY <1>3, <1>5, Silent DEF Orderly
  <2>5. NewLog(n, c)  BY <1>1, <1>3, <1>5, KeepsLog
  <2> QED  BY <1>5, <2>1, <2>2, <2>3, <2>4, <2>5, PlainStepKeeps
<1>10. CASE Majority(c.votes)
  <2>1. Step(n, won, Broadcast(n, won))  BY <1>3, <1>10
  <2>2. /\ won \in Cores /\ won.role = "Leader"
        /\ won.log = Append(core[n].log, core[n].term)
        /\ won.term = core[n].term /\ won.vote = core[n].vote
    BY <1>5, BecomeLeaderFacts
  <2> HIDE DEF won
  <2>3. Asked(c.term, n)
    <3>1. m \in Mail(m.from)  BY DEF Mail
    <3> QED  BY <1>1, <1>2, <1>3, <3>1 DEF Votes, GrantsAsked
  <2>4. Voted(n, c.term, n)
    BY <2>3 DEF Asked, Voted, IsBallot, Choice
  <2>5. \A q \in c.votes : Voted(q, c.term, n)  BY <1>7, <2>4
  <2>6. Rightful(n, won)
    <3>1. c.votes \in SUBSET Node  BY <1>4, <1>5
    <3> QED  BY <1>5, <1>10, <2>2, <2>3, <2>5, <3>1 DEF Rightful
  <2>7. VoteKept(core[n], won)  BY <2>2 DEF VoteKept
  <2>8. Proper(n, won, Broadcast(n, won)) /\ Orderly(n, won, Broadcast(n, won))
    BY <2>2, LeaderSends DEF Broadcast
  <2>9. /\ Record(n, won) /\ Gate(n, won, Broadcast(n, won)) /\ UNCHANGED disk
        /\ rounds' \in Nat /\ crashes' \in Nat
    BY <1>1, <2>1 DEF Step, Types
  <2>10. Types'  BY <1>1, <2>2, <2>8, <2>9, StepTypes
  <2>11. Gated(n, won, Broadcast(n, won))
    BY <1>1, <2>2, <2>8, <2>9, GateFacts DEF Proper
  <2>12. Votes'
    BY <1>1, <2>2, <2>6, <2>7, <2>8, <2>9, <2>10, <2>11, StepVotes
  <2>13. ElectionSafety'  BY <2>10, <2>12, OneLeaderNext
  <2>14. elected \subseteq elected' /\ <<core[n].term, n>> \in elected'
    BY <2>2, <2>9 DEF Record
  <2>15. ~Shown(Len(core[n].log) + 1, won.term)
    BY <1>1, <1>3, <1>5, <2>2, <2>13, <2>14, CandidateTermUnseen
  <2>16. NewLog(n, won)  BY <1>1, <1>3, <1>5, <2>2, <2>15, AppendsLog
  <2> QED  BY <2>1, <2>2, <2>6, <2>7, <2>8, <2>16, PlainStepKeeps
<1> QED  BY <1>9, <1>10

\* handle_append_response keeps the invariant.
LEMMA HandleAppendRespKeeps ==
  ASSUME IInv, NEW n \in Node, NEW m \in msgs, HandleAppendResp(n, m)
  PROVE  IInv'
<1> DEFINE c == core[n]
           up == [c EXCEPT !.match[m.from] = Larger(@, m.match),
                           !.next[m.from] = Larger(@, m.match + 1)]
           ok == Apply(MaybeAdvanceCommit(n, up))
           back == [c EXCEPT !.next[m.from] = IF @ > 1 THEN @ - 1 ELSE @]
<1>1. Types /\ Votes /\ Logs /\ c \in Cores  BY DEF IInv, Types
<1>2. m \in Messages /\ m.from \in Node  BY <1>1, MessageFacts DEF Types
<1>3. /\ IsAnswer(m) /\ c.role = "Leader"
      /\ \/ Step(n, ok, IF ok.next[m.from] <= Len(ok.log)
                          THEN {ReplicateTo(n, ok, m.from)} ELSE {})
         \/ Step(n, back, {ReplicateTo(n, back, m.from)})
  BY DEF HandleAppendResp, IsAnswer
<1>4. m.match \in Nat  BY <1>2, <1>3, MessageFacts
<1>5. c.next \in [Node -> Nat \ {0}] /\ c.match \in [Node -> Nat]
  BY <1>1, CoreFacts
<1>6. ASSUME NEW d \in Cores, Same(d, [c EXCEPT !.next = d.next]), NEW P \in SUBSET Node,
             Step(n, d, {ReplicateTo(n, d, p) : p \in P})
      PROVE  IInv'
  <2>1. /\ d.role = "Leader" /\ d.term = c.term /\ d.vote = c.vote
        /\ d.log = c.log
    BY <1>1, <1>3, <1>6 DEF Same, Cores
  <2>2. VoteKept(core[n], d) /\ Rightful(n, d)  BY <1>1, <1>3, <2>1, LeaderStays
  <2>3. /\ Proper(n, d, {ReplicateTo(n, d, p) : p \in P})
        /\ Orderly(n, d, {ReplicateTo(n, d, p) : p \in P})
    BY <2>1, LeaderSends
  <2>4. NewLog(n, d)  BY <1>1, <1>3, <2>1, KeepsLog
  <2> QED  BY <1>6, <2>2, <2>3, <2>4, PlainStepKeeps
<1>7. CASE Step(n, back, {ReplicateTo(n, back, m.from)})
  <2> DEFINE nx == [c.next EXCEPT ![m.from] = IF @ > 1 THEN @ - 1 ELSE @]
  <2>1. nx \in [Node -> Nat \ {0}]  BY <1>2, <1>5
  <2>2. back = [c EXCEPT !.next = nx]  OBVIOUS
  <2> HIDE DEF nx, back
  <2>3. back \in Cores /\ back.next = nx  BY <1>1, <2>1, <2>2 DEF Cores
  <2>4. Same(back, [c EXCEPT !.next = back.next])
    BY <2>2, <2>3 DEF Same
  <2>5. {ReplicateTo(n, back, m.from)} = {ReplicateTo(n, back, p) : p \in {m.from}}
    OBVIOUS
  <2>6. {m.from} \in SUBSET Node  BY <1>2
  <2> QED  BY <1>6, <1>7, <2>3, <2>4, <2>5, <2>6
<1>8. CASE Step(n, ok, IF ok.next[m.from] <= Len(ok.log)
                         THEN {ReplicateTo(n, ok, m.from)} ELSE {})
  <2> DEFINE nx == [c.next EXCEPT ![m.from] = Larger(@, m.match + 1)]
             mt == [c.match EXCEPT ![m.from] = Larger(@, m.match)]
  <2>1. nx \in [Node -> Nat \ {0}] /\ mt \in [Node -> Nat]
    BY <1>2, <1>4, <1>5 DEF Larger
  <2>2. up = [c EXCEPT !.match = mt, !.next = nx]  OBVIOUS
  <2> HIDE DEF nx, mt, up
  <2>3. /\ up \in Cores /\ up.next = nx /\ up.log = c.log /\ up.term = c.term
        /\ up.vote = c.vote /\ up.role = c.role /\ up.votes = c.votes
    BY <1>1, <2>1, <2>2 DEF Cores
  <2>4. Same(MaybeAdvanceCommit(n, up), up)  BY <2>3, AdvanceFacts
  <2>5. MaybeAdvanceCommit(n, up) \in Cores  BY <2>4 DEF Same
  <2>6. Same(ok, MaybeAdvanceCommit(n, up))  BY <2>5, ApplyFacts
  <2>7. Same(ok, up)  BY <2>4, <2>6, SameTrans
  <2> HIDE DEF ok
  <2>8. Same(ok, [c EXCEPT !.next = ok.next])
    BY <1>1, <2>3, <2>7 DEF Same, Cores
  <2>9. PICK P \in SUBSET Node :
          (IF ok.next[m.from] <= Len(ok.log)
             THEN {ReplicateTo(n, ok, m.from)} ELSE {})
          = {ReplicateTo(n, ok, p) : p \in P}
    <3>1. CASE ok.next[m.from] <= Len(ok.log)
      <4>1. {ReplicateTo(n, ok, m.from)} = {ReplicateTo(n, ok, p) : p \in {m.from}}
        OBVIOUS
      <4>2. {m.from} \in SUBSET Node  BY <1>2
      <4> QED  BY <3>1, <4>1, <4>2
    <3>2. CASE ~(ok.next[m.from] <= Len(ok.log))
      <4>1. {} = {ReplicateTo(n, ok, p) : p \in {}}  OBVIOUS
      <4> QED  BY <3>2, <4>1
    <3> QED  BY <3>1, <3>2
  <2>10. ok \in Cores  BY <2>7 DEF Same
  <2> QED  BY <1>6, <1>8, <2>8, <2>9, <2>10
<1> QED  BY <1>3, <1>7, <1>8

\* The place where a follower cuts its log is an index.
LEMMA CutAtFacts ==
  ASSUME NEW log \in Seq(Nat), NEW a, a.prev \in Nat, a.entries \in Seq(Nat)
  PROVE  CutAt(log, a) \in Nat
<1> DEFINE S == {k \in 1 .. Len(a.entries) :
                   a.prev + k <= Len(log) /\ log[a.prev + k] # a.entries[k]}
           x == CHOOSE k \in S : \A j \in S : k <= j
<1>1. S \subseteq Nat /\ \A k \in S : k >= 1  OBVIOUS
<1>2. CutAt(log, a) = IF S = {} THEN Len(log) ELSE a.prev + x - 1
  BY DEF CutAt
<1> HIDE DEF S
<1>3. S # {} => \E k \in S : \A j \in S : k <= j  BY <1>1, LeastExists
<1>4. S # {} => x \in S  BY <1>3
<1> HIDE DEF x
<1>5. S # {} => x \in Nat /\ x >= 1  BY <1>1, <1>4
<1> QED  BY <1>2, <1>5

\* The log after an AppendEntries is the old one, or the old one up to prev
\* followed by the entries of the message.
LEMMA MergedFacts ==
  ASSUME NEW log \in Seq(Nat), NEW a, a.prev \in Nat, a.entries \in Seq(Nat),
         a.prev <= Len(log)
  PROVE  LET new == Merged(log, a) IN
         /\ new \in Seq(Nat)
         /\ \/ new = log
            \/ /\ a.entries # <<>> /\ Len(new) = a.prev + Len(a.entries)
               /\ \A i \in 1 .. a.prev : new[i] = log[i]
               /\ \A k \in 1 .. Len(a.entries) : new[a.prev + k] = a.entries[k]
<1> DEFINE S == {k \in 1 .. Len(a.entries) :
                   a.prev + k <= Len(log) /\ log[a.prev + k] # a.entries[k]}
           head == SubSeq(log, 1, a.prev)
           new == head \o a.entries
<1>1. Merged(log, a) = IF S = {} /\ a.prev + Len(a.entries) <= Len(log) THEN log
                       ELSE new
  BY DEF Merged
<1>2. Len(a.entries) \in Nat /\ Len(log) \in Nat  OBVIOUS
<1>3. /\ head \in Seq(Nat) /\ Len(head) = a.prev
      /\ \A i \in 1 .. a.prev : head[i] = log[i]
  <2>1. a.prev \in 0 .. Len(log)  BY <1>2
  <2> QED  BY <2>1, PrefixFacts, Zenon
<1> HIDE DEF head
<1>4. /\ new \in Seq(Nat) /\ Len(new) = a.prev + Len(a.entries)
      /\ \A i \in 1 .. a.prev + Len(a.entries) :
           new[i] = IF i <= a.prev THEN head[i] ELSE a.entries[i - a.prev]
  <2>1. /\ new \in Seq(Nat) /\ Len(new) = Len(head) + Len(a.entries)
        /\ \A i \in 1 .. Len(head) + Len(a.entries) :
             new[i] = IF i <= Len(head) THEN head[i] ELSE a.entries[i - Len(head)]
    <3>1. head \in Seq(Nat) /\ a.entries \in Seq(Nat)  BY <1>3
    <3> QED  BY <3>1, ConcatProperties, Zenon
  <2> QED  BY <1>3, <2>1
<1> HIDE DEF new
<1>5. CASE S = {} /\ a.prev + Len(a.entries) <= Len(log)  BY <1>1, <1>5
<1>6. CASE ~(S = {} /\ a.prev + Len(a.entries) <= Len(log))
  <2>1. a.entries # <<>>
    <3> SUFFICES ASSUME a.entries = <<>> PROVE FALSE  OBVIOUS
    <3>1. Len(a.entries) = 0  OBVIOUS
    <3> QED  BY <1>2, <1>6, <3>1
  <2>2. \A i \in 1 .. a.prev : new[i] = log[i]
    <3> SUFFICES ASSUME NEW i \in 1 .. a.prev PROVE new[i] = log[i]  OBVIOUS
    <3>1. i \in 1 .. a.prev + Len(a.entries) /\ i <= a.prev  BY <1>2
    <3>2. new[i] = head[i]  BY <1>4, <3>1
    <3>3. head[i] = log[i]  BY <1>3
    <3> QED  BY <3>2, <3>3
  <2>3. ASSUME NEW k \in 1 .. Len(a.entries) PROVE new[a.prev + k] = a.entries[k]
    <3>1. /\ a.prev + k \in 1 .. a.prev + Len(a.entries)
          /\ ~(a.prev + k <= a.prev) /\ (a.prev + k) - a.prev = k
      BY <1>2
    <3> QED  BY <1>4, <3>1
  <2>4. Merged(log, a) = new  BY <1>1, <1>6
  <2> QED  BY <1>4, <2>1, <2>2, <2>3, <2>4
<1> QED  BY <1>5, <1>6

\* A follower's log after an AppendEntries that matches it.
LEMMA MergesLog ==
  ASSUME Types, Logs, NEW n \in Node, NEW c \in Cores, c.role # "Leader",
         NEW m \in msgs, IsAppend(m), Matches(core[n].log, m),
         c.log = Merged(core[n].log, m)
  PROVE  NewLog(n, c)
<1> DEFINE log == core[n].log
           w == LogWindow(c.log)
           u == LogWindow(log)
           a == MsgWindow(m)
<1>1. log \in Seq(Nat) /\ Len(log) \in Nat /\ c.log \in Seq(Nat)
  BY CoreFacts DEF Types
<1>2. m \in Messages /\ m.prev \in Nat /\ m.entries \in Seq(Nat) /\ m.prevTerm \in Nat
  BY MessageFacts DEF Types
<1>3. m.prev <= Len(log) /\ TermAt(log, m.prev) = m.prevTerm  BY DEF Matches
<1>4. CASE c.log = log  BY <1>4, KeepsLog
<1>5. CASE c.log # log
  <2>1. /\ m.entries # <<>> /\ Len(c.log) = m.prev + Len(m.entries)
        /\ \A i \in 1 .. m.prev : c.log[i] = log[i]
        /\ \A k \in 1 .. Len(m.entries) : c.log[m.prev + k] = m.entries[k]
    <3>1. c.log = Merged(log, m) /\ Merged(log, m) # log  BY <1>5
    <3> HIDE DEF log
    <3> QED  BY <1>1, <1>2, <1>3, <3>1, MergedFacts
  <2>2. /\ IsWindow(w) /\ w.prev = 0 /\ End(w) = Len(c.log) /\ At(w, 0) = 0
        /\ \A i \in 1 .. Len(c.log) : At(w, i) = c.log[i]
    BY <1>1, LogWindowFacts
  <2>3. /\ IsWindow(u) /\ u.prev = 0 /\ End(u) = Len(log) /\ At(u, 0) = 0
        /\ \A i \in 1 .. Len(log) : At(u, i) = log[i]
    BY <1>1, LogWindowFacts
  <2>4. /\ a.prev = m.prev /\ a.prevTerm = m.prevTerm /\ a.entries = m.entries
        /\ Len(m.entries) \in Nat
    BY <1>2 DEF MsgWindow
  <2>5. /\ u \in Windows /\ a \in Windows
        /\ \A v \in Windows : IsWindow(v)
    BY <2>1, WindowFacts
  <2>6. End(a) = m.prev + Len(m.entries)  BY <2>4 DEF End
  <2>7. At(a, m.prev) = m.prevTerm
        /\ \A k \in 1 .. Len(m.entries) : At(a, m.prev + k) = m.entries[k]
    <3>1. At(a, m.prev) = m.prevTerm  BY <2>4 DEF At
    <3>2. ASSUME NEW k \in 1 .. Len(m.entries) PROVE At(a, m.prev + k) = m.entries[k]
      <4>1. m.prev + k # m.prev /\ (m.prev + k) - m.prev = k  BY <1>2
      <4> QED  BY <2>4, <4>1 DEF At
    <3> QED  BY <3>1, <3>2
  <2> HIDE DEF w, u, a, log
  <2>8. ASSUME NEW i \in 0 .. m.prev PROVE At(w, i) = At(u, i)
    <3>1. CASE i = 0  BY <2>2, <2>3, <3>1
    <3>2. CASE i # 0
      <4> DEFINE l == Len(log)
                 k == Len(m.entries)
                 x == Len(c.log)
      <4>1. l \in Nat /\ k \in Nat /\ m.prev <= l /\ x = m.prev + k
        BY <1>1, <1>3, <2>1, <2>4
      <4> HIDE DEF l, k, x
      <4>2. i \in 1 .. m.prev /\ i \in 1 .. l /\ i \in 1 .. x  BY <1>2, <3>2, <4>1
      <4>3. i \in 1 .. Len(log) /\ i \in 1 .. Len(c.log)  BY <4>2 DEF l, x
      <4>4. At(w, i) = c.log[i] /\ At(u, i) = log[i]  BY <2>2, <2>3, <4>3
      <4> QED  BY <2>1, <4>2, <4>4
    <3> QED  BY <3>1, <3>2
  <2>9. At(u, m.prev) = m.prevTerm
    <3>1. CASE m.prev = 0
      <4>1. TermAt(log, 0) = 0  BY DEF TermAt
      <4> QED  BY <1>3, <2>3, <3>1, <4>1
    <3>2. CASE m.prev # 0
      <4>1. m.prev \in 1 .. Len(log)  BY <1>1, <1>2, <1>3, <3>2
      <4> QED  BY <1>3, <2>3, <4>1 DEF TermAt
    <3> QED  BY <3>1, <3>2
  <2>10. ASSUME NEW i \in m.prev + 1 .. End(a)
         PROVE  At(w, i) = At(a, i) /\ i \in 1 .. Len(c.log)
    <3> DEFINE k == i - m.prev
    <3>1. k \in 1 .. Len(m.entries) /\ i = m.prev + k /\ i \in 1 .. Len(c.log)
      BY <1>2, <2>1, <2>4, <2>6
    <3> HIDE DEF k
    <3> QED  BY <2>1, <2>2, <2>7, <3>1
  <2>11. ASSUME NEW i \in m.prev .. End(a) PROVE At(w, i) = At(a, i)
    <3>1. CASE i = m.prev
      <4>1. i \in 0 .. m.prev  BY <1>2, <3>1
      <4> QED  BY <2>7, <2>8, <2>9, <3>1, <4>1
    <3>2. CASE i # m.prev
      <4>1. i \in m.prev + 1 .. End(a)  BY <1>2, <2>4, <2>6, <3>2
      <4> QED  BY <2>10, <4>1
    <3> QED  BY <3>1, <3>2
  <2>12. ASSUME NEW v \in Windows PROVE Agree(w, v)
    <3>1. Agree(u, v) /\ Agree(a, v) /\ IsWindow(v) /\ IsWindow(a)
      BY <2>5 DEF Logs, WindowsAgree
    <3>2. End(w) = End(a) /\ a.prev <= End(u) /\ At(u, a.prev) = At(a, a.prev)
      BY <1>3, <2>1, <2>2, <2>3, <2>4, <2>6, <2>7, <2>9
    <3> QED  BY <2>2, <2>3, <2>4, <2>8, <2>11, <3>1, <3>2, SpliceAgrees
  <2>13. ASSUME NEW i \in 1 .. Len(c.log) PROVE Shown(i, c.log[i])
    <3>1. At(w, i) = c.log[i]  BY <2>2
    <3>2. CASE i <= m.prev
      <4>1. i \in u.prev + 1 .. End(u) /\ At(u, i) = c.log[i]
        BY <1>1, <1>2, <1>3, <2>3, <2>8, <3>1, <3>2
      <4> QED  BY <2>5, <4>1 DEF Shown
    <3>3. CASE ~(i <= m.prev)
      <4>1. i \in m.prev + 1 .. End(a)  BY <1>2, <2>1, <2>4, <2>6, <3>3
      <4>2. At(a, i) = c.log[i] /\ i \in a.prev + 1 .. End(a)
        BY <2>4, <2>10, <3>1, <4>1
      <4> QED  BY <2>5, <4>2 DEF Shown
    <3> QED  BY <3>2, <3>3
  <2> QED  BY <2>12, <2>13 DEF NewLog, w
<1> QED  BY <1>4, <1>5

\* handle_append_entries, with the conflicting suffix it truncates, keeps the
\* invariant.
LEMMA HandleAppendEntriesKeeps ==
  ASSUME IInv, NEW n \in Node, NEW m \in msgs, HandleAppendEntries(n, m)
  PROVE  IInv'
<1> DEFINE s == StepDown(core[n], m.term)
           c == [s EXCEPT !.role = "Follower"]
           idx == m.prev + Len(m.entries)
           d == [c EXCEPT !.log = Merged(c.log, m),
                          !.durable = Smaller(@, CutAt(c.log, m)),
                          !.commit = Larger(@, Smaller(m.commit, idx))]
           reply(ok, match) ==
             [type |-> "AppendEntriesResp", term |-> c.term, from |-> n,
              to |-> m.from, success |-> ok, match |-> match]
<1>1. Types /\ Votes /\ Logs /\ core[n] \in Cores  BY DEF IInv, Types
<1>2. m \in Messages /\ m.term \in Nat /\ m.from \in Node
  BY <1>1, MessageFacts DEF Types
<1>3. /\ IsAppend(m)
      /\ \/ Step(n, c, {reply(FALSE, 0)})
         \/ Matches(c.log, m) /\ Step(n, Apply(d), {reply(TRUE, idx)})
  BY DEF HandleAppendEntries, IsAppend
<1>4. /\ m.prev \in Nat /\ m.entries \in Seq(Nat) /\ m.commit \in Nat
      /\ Len(m.entries) \in Nat
  BY <1>2, <1>3, MessageFacts
<1>5. idx \in Nat  BY <1>4
<1>6. s \in Cores /\ s.log = core[n].log /\ VoteKept(core[n], s)
  BY <1>1, <1>2, StepDownFacts
<1> HIDE DEF s, idx
<1>7. /\ c \in Cores /\ c.log = core[n].log /\ c.term = s.term /\ c.vote = s.vote
      /\ c.role = "Follower"
  BY <1>6 DEF Cores, Roles
<1>8. VoteKept(core[n], c)  BY <1>6, <1>7 DEF VoteKept
<1> HIDE DEF c
<1>9. ASSUME NEW ok \in BOOLEAN, NEW match \in Nat, NEW e \in Cores, e.role = "Follower"
      PROVE  Proper(n, e, {reply(ok, match)}) /\ Orderly(n, e, {reply(ok, match)})
  <2>1. c.term \in Nat  BY <1>7, CoreFacts
  <2> DEFINE r == reply(ok, match)
  <2>2. /\ r \in Messages /\ r.from = n /\ ~IsRequest(r) /\ ~IsGrant(r)
        /\ ~IsAppend(r)
    BY <1>2, <2>1 DEF Messages, IsRequest, IsGrant, IsAppend
  <2> HIDE DEF r
  <2>3. Proper(n, e, {r}) /\ Orderly(n, e, {r})
    BY <1>9, <2>2 DEF Proper, Orderly, IsBallot
  <2> QED  BY <2>3 DEF r
<1>10. CASE Step(n, c, {reply(FALSE, 0)})
  <2>1. Proper(n, c, {reply(FALSE, 0)}) /\ Orderly(n, c, {reply(FALSE, 0)})
    BY <1>7, <1>9
  <2>2. Rightful(n, c)  BY <1>7 DEF Rightful
  <2>3. NewLog(n, c)  BY <1>1, <1>7, KeepsLog
  <2> HIDE DEF reply
  <2> QED  BY <1>7, <1>8, <1>10, <2>1, <2>2, <2>3, PlainStepKeeps
<1>11. CASE Matches(c.log, m) /\ Step(n, Apply(d), {reply(TRUE, idx)})
  <2>1. c.log \in Seq(Nat) /\ c.durable \in Nat /\ c.commit \in Nat
    BY <1>7, CoreFacts
  <2>2. Merged(c.log, m) \in Seq(Nat)
    BY <1>4, <1>11, <2>1, MergedFacts DEF Matches
  <2>3. Smaller(c.durable, CutAt(c.log, m)) \in Nat
    <3>1. CutAt(c.log, m) \in Nat  BY <1>4, <2>1, CutAtFacts
    <3> QED  BY <2>1, <3>1 DEF Smaller
  <2>4. Larger(c.commit, Smaller(m.commit, idx)) \in Nat
    BY <1>4, <1>5, <2>1 DEF Larger, Smaller
  <2>5. /\ d \in Cores /\ d.log = Merged(c.log, m) /\ d.term = c.term
        /\ d.vote = c.vote /\ d.role = "Follower"
    BY <1>7, <2>2, <2>3, <2>4 DEF Cores
  <2> DEFINE e == Apply(d)
  <2> HIDE DEF d
  <2>6. Same(e, d)  BY <2>5, ApplyFacts
  <2> HIDE DEF e
  <2>7. /\ e \in Cores /\ e.log = Merged(core[n].log, m) /\ e.role = "Follower"
        /\ e.term = c.term /\ e.vote = c.vote
    BY <1>7, <2>5, <2>6 DEF Same
  <2>8. VoteKept(core[n], e)  BY <1>8, <2>7 DEF VoteKept
  <2>9. Rightful(n, e)  BY <2>7 DEF Rightful
  <2>10. Proper(n, e, {reply(TRUE, idx)}) /\ Orderly(n, e, {reply(TRUE, idx)})
    BY <1>5, <1>9, <2>7
  <2>11. NewLog(n, e)
    BY <1>1, <1>3, <1>7, <1>11, <2>7, MergesLog
  <2>12. Step(n, e, {reply(TRUE, idx)})  BY <1>11 DEF e
  <2> HIDE DEF reply
  <2> QED  BY <2>7, <2>8, <2>9, <2>10, <2>11, <2>12, PlainStepKeeps
<1> QED  BY <1>3, <1>10, <1>11
-----------------------------------------------------------------------------
(* Persistence.                                                            *)

\* The end of a round changes no term, vote or log, and the next round covers all
\* of them.
LEMMA PersistEndTypes ==
  ASSUME Types, NEW n \in Node, PersistEnd(n)
  PROVE  /\ Types'
         /\ \E c \in Cores :
              /\ Same(c, core[n]) /\ Record(n, c)
              /\ flight'[n] = NoFlight
                 \/ flight'[n] = [on |-> TRUE, hs |-> HardState(c), msgs |-> held[n]]
<1> DEFINE through == Len(flight[n].hs.log)
           c == IF through > core[n].durable
                  THEN Apply([core[n] EXCEPT !.durable = through]) ELSE core[n]
           f == IF HardState(c) = flight[n].hs THEN NoFlight
                ELSE [on |-> TRUE, hs |-> HardState(c), msgs |-> held[n]]
<1>1. /\ core[n] \in Cores /\ flight[n] \in Flights /\ flight[n].hs \in HardStates
      /\ flight[n].msgs \in SUBSET Messages /\ held[n] \in SUBSET Messages
  BY DEF Types, Flights
<1>2. through \in Nat  BY <1>1 DEF HardStates
<1> HIDE DEF through
<1>3. c \in Cores /\ Same(c, core[n])
  <2> DEFINE d == [core[n] EXCEPT !.durable = through]
  <2>1. d \in Cores /\ Same(d, core[n])  BY <1>1, <1>2 DEF Cores, Same
  <2> HIDE DEF d
  <2>2. Same(Apply(d), d)  BY <2>1, ApplyFacts
  <2>3. Same(Apply(d), core[n])  BY <2>1, <2>2, SameTrans
  <2>4. Same(core[n], core[n])  BY <1>1 DEF Same
  <2>5. c = Apply(d) \/ c = core[n]  BY DEF d
  <2> QED  BY <2>3, <2>4, <2>5 DEF Same
<1>4. /\ disk' = [disk EXCEPT ![n] = flight[n].hs] /\ Record(n, c)
      /\ msgs' = Sent(flight[n].msgs) /\ flight' = [flight EXCEPT ![n] = f]
      /\ held' = [held EXCEPT ![n] = {}] /\ UNCHANGED <<rounds, crashes>>
  BY DEF PersistEnd, through
<1> HIDE DEF c
<1>5. HardState(c) \in HardStates /\ c.term \in Nat  BY <1>3, CoreFacts
<1>6. NoFlight \in Flights
  <2>1. NewHardState \in HardStates  BY DEF NewHardState, HardStates
  <2> QED  BY <2>1 DEF NoFlight, Flights
<1>7. f \in Flights /\ (~f.on => f = NoFlight) /\ f.msgs \subseteq held[n]
  BY <1>1, <1>5, <1>6 DEF Flights, NoFlight
<1>8. f = NoFlight \/ f = [on |-> TRUE, hs |-> HardState(c), msgs |-> held[n]]
  OBVIOUS
<1> HIDE DEF f
<1>9. core' \in [Node -> Cores] /\ disk' \in [Node -> HardStates]
      /\ flight' \in [Node -> Flights] /\ held' \in [Node -> SUBSET Messages]
  BY <1>1, <1>3, <1>4, <1>7 DEF Types, Record
<1>10. msgs' \in SUBSET Messages  BY <1>1, <1>4 DEF Types, Sent
<1>11. \A q \in Node : ~flight'[q].on => flight'[q] = NoFlight
  BY <1>4, <1>7 DEF Types
<1>12. \A q \in Node : \A m \in flight'[q].msgs \cup held'[q] :
         m.from = q /\ ~IsAppend(m)
  BY <1>4, <1>7 DEF Types
<1>13. elected' \in SUBSET (Nat \X Node)  BY <1>4, <1>5 DEF Types, Record
<1>14. rounds' \in Nat /\ crashes' \in Nat  BY <1>4 DEF Types
<1>15. Types'  BY <1>9, <1>10, <1>11, <1>12, <1>13, <1>14 DEF Types
<1>16. flight'[n] = f  BY <1>4 DEF Types
<1> QED  BY <1>3, <1>4, <1>8, <1>15, <1>16

\* A round that lands, with the replies it releases, keeps the invariant.
LEMMA PersistEndKeeps ==
  ASSUME IInv, NEW n \in Node, PersistEnd(n)
  PROVE  IInv'
<1>1. Types /\ Votes /\ Logs /\ Types'  BY PersistEndTypes DEF IInv
<1>2. PICK c \in Cores :
        /\ Same(c, core[n]) /\ Record(n, c)
        /\ flight'[n] = NoFlight
           \/ flight'[n] = [on |-> TRUE, hs |-> HardState(c), msgs |-> held[n]]
  BY <1>1, PersistEndTypes
<1>3. /\ core'[n] = c /\ \A q \in Node \ {n} : core'[q] = core[q]
      /\ core' = [core EXCEPT ![n] = c]
      /\ core[n] \in Cores /\ HardState(c).term = c.term
      /\ HardState(c).vote = c.vote /\ HardState(c).log = c.log
      /\ c.term = core[n].term /\ c.vote = core[n].vote /\ c.log = core[n].log
      /\ c.role = core[n].role /\ c.votes = core[n].votes
  BY <1>1, <1>2, CoreFacts DEF Record, Types, Same
<1>4. /\ flight[n].on
      /\ disk'[n] = flight[n].hs /\ \A q \in Node \ {n} : disk'[q] = disk[q]
      /\ \A q \in Node \ {n} : flight'[q] = flight[q]
      /\ held'[n] = {} /\ \A q \in Node \ {n} : held'[q] = held[q]
      /\ msgs' = Sent(flight[n].msgs)
  BY <1>1 DEF PersistEnd, Types
<1>5. /\ flight'[n].on => flight'[n].hs = HardState(c)
      /\ flight'[n].msgs \subseteq held[n]
      /\ flight'[n].msgs # {} => flight'[n].on
      /\ flight'[n].hs.log = <<>> \/ flight'[n].hs.log = c.log
  BY <1>2, <1>3 DEF NoFlight, NewHardState
<1>6. /\ \A m \in msgs : IsBallot(m) => m \in msgs'
      /\ \A m \in msgs' : m \in msgs \/ m \in flight[n].msgs
  BY <1>4 DEF Sent, Displaces, IsBallot, IsRequest, IsGrant
<1>7. /\ \A m \in msgs : m.from \in Node
      /\ \A m \in msgs' : m.from \in Node
      /\ \A m \in flight[n].msgs : m.from = n
  BY <1>1, MessageFacts DEF Types
<1>8. elected' = elected
  <2>1. c.role = "Leader" => <<c.term, n>> \in elected
    BY <1>1, <1>3 DEF Votes, Elected
  <2> QED  BY <1>2, <2>1 DEF Record
<1>9. \A m : Covers(core[n], m) => Covers(c, m) /\ Covers(HardState(c), m)
  BY <1>3 DEF Covers
<1>10. VotesCovered'
  <2>1. ASSUME NEW m \in msgs', IsBallot(m)
        PROVE  /\ Covers(disk'[m.from], m) /\ Covers(core'[m.from], m)
               /\ flight'[m.from].on => Covers(flight'[m.from].hs, m)
    <3>1. CASE m \in msgs
      <4>1. /\ Covers(disk[m.from], m) /\ Covers(core[m.from], m)
            /\ flight[m.from].on => Covers(flight[m.from].hs, m)
        BY <1>1, <2>1, <3>1 DEF Votes, VotesCovered
      <4>2. CASE m.from = n  BY <1>3, <1>4, <1>5, <1>9, <4>1, <4>2
      <4>3. CASE m.from # n  BY <1>3, <1>4, <1>7, <4>1, <4>3
      <4> QED  BY <4>2, <4>3
    <3>2. CASE m \in flight[n].msgs
      <4>1. Covers(flight[n].hs, m) /\ Covers(core[n], m) /\ m.from = n
        BY <1>1, <1>7, <2>1, <3>2 DEF Votes, VotesCovered
      <4> QED  BY <1>3, <1>4, <1>5, <1>9, <4>1
    <3> QED  BY <1>6, <3>1, <3>2
  <2>2. ASSUME NEW q \in Node, NEW m \in flight'[q].msgs, IsBallot(m)
        PROVE  Covers(flight'[q].hs, m) /\ Covers(core'[q], m)
    <3>1. CASE q = n
      <4>1. Covers(core[n], m)
        BY <1>1, <1>5, <2>2, <3>1 DEF Votes, VotesCovered
      <4>2. flight'[n].hs = HardState(c)  BY <1>5, <2>2, <3>1
      <4> QED  BY <1>3, <1>9, <3>1, <4>1, <4>2
    <3>2. CASE q # n
      BY <1>1, <1>3, <1>4, <2>2, <3>2 DEF Votes, VotesCovered
    <3> QED  BY <3>1, <3>2
  <2>3. ASSUME NEW q \in Node, NEW m \in held'[q], IsBallot(m)
        PROVE  Covers(core'[q], m)
    <3>1. q # n  BY <1>4, <2>3
    <3> QED  BY <1>1, <1>3, <1>4, <2>3, <3>1 DEF Votes, VotesCovered
  <2> QED  BY <2>1, <2>2, <2>3 DEF VotesCovered
<1>11. \A q \in Node : \A m \in Mail(q)' : m \in Mail(q)
  BY <1>4, <1>5, <1>6, <1>7 DEF Mail
<1>12. VotesAgree'  BY <1>1, <1>11 DEF Votes, VotesAgree
<1>13. /\ \A t, x : Asked(t, x) => Asked(t, x)'
       /\ \A q, t, x : Voted(q, t, x) => Voted(q, t, x)'
  BY <1>6, VotedStays
<1>14. GrantsAsked'
  <2> SUFFICES ASSUME NEW q \in Node, NEW m \in Mail(q)', IsGrant(m)
               PROVE  Asked(m.term, m.to)'
    BY DEF GrantsAsked
  <2>1. Asked(m.term, m.to)  BY <1>1, <1>11 DEF Votes, GrantsAsked
  <2> QED  BY <1>13, <2>1
<1>15. \A q \in Node : /\ core'[q].term = core[q].term
                       /\ core'[q].role = core[q].role
                       /\ core'[q].votes = core[q].votes
  BY <1>3
<1>16. CandidateVotes'
  <2>1. ASSUME NEW q \in Node, core'[q].role = "Candidate"
        PROVE  <<core'[q].term, q>> \notin elected'
    BY <1>1, <1>8, <1>15, <2>1 DEF Votes, CandidateVotes
  <2>2. ASSUME NEW q \in Node, core'[q].role = "Candidate",
               NEW v \in core'[q].votes, v # q
        PROVE  \E m \in msgs' : /\ IsBallot(m) /\ m.from = v
                                /\ m.term = core'[q].term /\ Choice(m) = q
    <3>1. Voted(v, core'[q].term, q)
      BY <1>1, <1>15, <2>2 DEF Votes, CandidateVotes
    <3>2. PICK m \in msgs : /\ IsBallot(m) /\ m.from = v
                            /\ m.term = core'[q].term /\ Choice(m) = q
      BY <3>1 DEF Voted
    <3> QED  BY <1>6, <3>2
  <2> QED  BY <2>1, <2>2 DEF CandidateVotes, Voted
<1>17. Elected'
  <2>1. ASSUME NEW e \in elected'
        PROVE  /\ Asked(e[1], e[2])'
               /\ \E Q \in SUBSET Node :
                    Majority(Q) /\ \A q \in Q : Voted(q, e[1], e[2])'
    BY <1>1, <1>8, <1>13 DEF Votes, Elected
  <2>2. ASSUME NEW q \in Node, core'[q].role = "Leader"
        PROVE  <<core'[q].term, q>> \in elected'
    BY <1>1, <1>8, <1>15, <2>2 DEF Votes, Elected
  <2> QED  BY <2>1, <2>2 DEF Elected
<1>18. Votes'  BY <1>10, <1>12, <1>14, <1>16, <1>17 DEF Votes
<1>19. SealsKept
  <2> SUFFICES ASSUME NEW t \in Nat, Sealed(t) PROVE Sealed(t)'
    BY DEF SealsKept
  <2>1. \A q \in Node : t <= core'[q].term  BY <1>15 DEF Sealed
  <2>2. \A q \in Node : t <= disk'[q].term  BY <1>4 DEF Sealed
  <2>3. \A q \in Node : flight'[q].on => t <= flight'[q].hs.term
    BY <1>3, <1>4, <1>5 DEF Sealed
  <2>4. \A q \in Node : core'[q].role = "Candidate" => core'[q].term # t
    BY <1>15 DEF Sealed
  <2>5. \A q \in Node : \A m \in Mail(q)' : IsBallot(m) => m.term # t
    BY <1>11 DEF Sealed
  <2> QED  BY <2>1, <2>2, <2>3, <2>4, <2>5 DEF Sealed
<1>20. Fed(c)
  <2> SUFFICES ASSUME NEW w \in Windows'
               PROVE  \E v \in Windows \cup {LogWindow(c.log)} : Part(w, v)
    BY DEF Fed
  <2>1. Part(w, w)  BY <1>1, WindowsTypedNext, PartReflexive DEF WindowsTyped
  <2>2. /\ \A q \in Node : /\ LogWindow(core[q].log) \in Windows
                           /\ LogWindow(disk[q].log) \in Windows
                           /\ LogWindow(flight[q].hs.log) \in Windows
        /\ \A m \in msgs : IsAppend(m) /\ m.entries # <<>> =>
             MsgWindow(m) \in Windows
    BY <1>1, WindowFacts
  <2>3. CASE \E q \in Node : w = LogWindow(core'[q].log)
    BY <1>3, <2>1, <2>2, <2>3
  <2>4. CASE \E q \in Node : w = LogWindow(disk'[q].log)
    BY <1>4, <2>1, <2>2, <2>4
  <2>5. CASE \E q \in Node \ {n} : w = LogWindow(flight'[q].hs.log)
    BY <1>4, <2>1, <2>2, <2>5
  <2>6. CASE w = LogWindow(flight'[n].hs.log)
    BY <1>5, <2>1, <2>6, EmptyIsPart
  <2>7. CASE \E m \in msgs' : IsAppend(m) /\ m.entries # <<>> /\ w = MsgWindow(m)
    <3>1. PICK m \in msgs' : IsAppend(m) /\ m.entries # <<>> /\ w = MsgWindow(m)
      BY <2>7
    <3>2. m \in msgs
      BY <1>1, <1>6, <3>1 DEF Types
    <3> QED  BY <2>1, <2>2, <3>1, <3>2
  <2> QED  BY <2>3, <2>4, <2>5, <2>6, <2>7 DEF Windows
<1>21. NewLog(n, c)  BY <1>1, <1>3, KeepsLog
<1>22. Logs'
  BY <1>1, <1>3, <1>8, <1>18, <1>19, <1>20, <1>21, StepLogs
<1> QED  BY <1>1, <1>18, <1>22 DEF IInv

\* The prefix two logs have in common has a length.
LEMMA CommonPrefixFacts ==
  ASSUME NEW a \in Seq(Nat), NEW b \in Seq(Nat)
  PROVE  CommonPrefix(a, b) \in Nat
<1> DEFINE S == {k \in 0 .. Smaller(Len(a), Len(b)) :
                   SubSeq(a, 1, k) = SubSeq(b, 1, k)}
           x == CHOOSE k \in S : \A j \in S : j <= k
<1>1. CommonPrefix(a, b) = x  BY DEF CommonPrefix
<1>2. Smaller(Len(a), Len(b)) \in Nat  BY DEF Smaller
<1>3. S \subseteq 0 .. Smaller(Len(a), Len(b))  OBVIOUS
<1>4. 0 \in S
  <2>1. SubSeq(a, 1, 0) = <<>> /\ SubSeq(b, 1, 0) = <<>>  BY SubSeqEmpty
  <2> QED  BY <1>2, <2>1
<1> HIDE DEF S
<1>5. S # {}  BY <1>4
<1>6. \E k \in S : \A j \in S : j <= k  BY <1>2, <1>3, <1>5, GreatestExists
<1>7. x \in S  BY <1>6
<1> HIDE DEF x
<1> QED  BY <1>1, <1>2, <1>3, <1>7

\* What a crash may leave on disk: the votes of the disk or of the round, and a
\* log that some window shows.
LEMMA CrashDiskFacts ==
  ASSUME Types, NEW n \in Node, NEW hs \in CrashDisks(n)
  PROVE  /\ hs \in HardStates
         /\ \/ hs.term = disk[n].term /\ hs.vote = disk[n].vote
            \/ /\ flight[n].on /\ hs.term = flight[n].hs.term
               /\ hs.vote = flight[n].hs.vote
         /\ \E v \in Windows : v.prev = 0 /\ Part(LogWindow(hs.log), v)
<1>1. /\ disk[n] \in HardStates /\ flight[n].hs \in HardStates
      /\ disk[n].log \in Seq(Nat) /\ flight[n].hs.log \in Seq(Nat)
  BY DEF Types, Flights, HardStates
<1>2. LogWindow(disk[n].log) \in Windows /\ LogWindow(flight[n].hs.log) \in Windows
  BY WindowFacts
<1>3. ASSUME NEW log \in Seq(Nat)
      PROVE  LogWindow(log).prev = 0 /\ Part(LogWindow(log), LogWindow(log))
  BY LogWindowFacts, PartReflexive
<1>4. CASE hs = disk[n]  BY <1>1, <1>2, <1>3, <1>4
<1>5. CASE flight[n].on /\ hs = flight[n].hs  BY <1>1, <1>2, <1>3, <1>5
<1>6. CASE \E k \in CommonPrefix(disk[n].log, flight[n].hs.log) ..
                      Len(flight[n].hs.log) :
             hs = [disk[n] EXCEPT !.log = SubSeq(flight[n].hs.log, 1, k)]
  <2> DEFINE log == flight[n].hs.log
             least == CommonPrefix(disk[n].log, log)
  <2>1. least \in Nat /\ Len(log) \in Nat /\ log \in Seq(Nat)
    BY <1>1, CommonPrefixFacts
  <2>2. PICK k \in 0 .. Len(log) : hs = [disk[n] EXCEPT !.log = SubSeq(log, 1, k)]
    <3>1. PICK k \in least .. Len(log) :
            hs = [disk[n] EXCEPT !.log = SubSeq(log, 1, k)]
      BY <1>6
    <3> HIDE DEF least, log
    <3>2. k \in 0 .. Len(log)  BY <2>1
    <3> QED  BY <3>1, <3>2, Zenon
  <2> HIDE DEF log
  <2> DEFINE cut == SubSeq(log, 1, k)
  <2>3. cut \in Seq(Nat) /\ Len(cut) = k /\ \A i \in 1 .. k : cut[i] = log[i]
    <3>1. 1 \in 1 .. Len(log) + 1 /\ k \in 1 - 1 .. Len(log)  BY <2>1, <2>2
    <3>2. /\ cut \in Seq(Nat) /\ Len(cut) = k - 1 + 1
          /\ \A i \in 1 .. k - 1 + 1 : cut[i] = log[1 + i - 1]
      BY <2>1, <3>1, SubSeqProperties
    <3> HIDE DEF cut
    <3> QED  BY <2>1, <2>2, <3>2
  <2>4. hs = [disk[n] EXCEPT !.log = cut]  BY <2>2
  <2> HIDE DEF cut
  <2>5. /\ hs \in HardStates /\ hs.log = cut /\ hs.term = disk[n].term
        /\ hs.vote = disk[n].vote
    BY <1>1, <2>3, <2>4 DEF HardStates
  <2> DEFINE w == LogWindow(cut)
             v == LogWindow(log)
  <2>6. /\ w.prev = 0 /\ End(w) = k /\ At(w, 0) = 0
        /\ \A i \in 1 .. k : At(w, i) = cut[i]
    BY <2>3, LogWindowFacts
  <2>7. /\ v.prev = 0 /\ End(v) = Len(log) /\ At(v, 0) = 0
        /\ \A i \in 1 .. Len(log) : At(v, i) = log[i]
    BY <2>1, LogWindowFacts
  <2> HIDE DEF w, v
  <2>8. ASSUME NEW i \in w.prev .. End(w) PROVE At(w, i) = At(v, i)
    <3>1. CASE i = 0  BY <2>6, <2>7, <3>1
    <3>2. CASE i # 0
      <4>1. i \in 1 .. k /\ i \in 1 .. Len(log)  BY <2>1, <2>2, <2>6, <3>2
      <4> QED  BY <2>3, <2>6, <2>7, <4>1
    <3> QED  BY <3>1, <3>2
  <2>9. Part(w, v)  BY <2>1, <2>2, <2>6, <2>7, <2>8 DEF Part
  <2> QED  BY <1>2, <2>5, <2>7, <2>9 DEF w, v, log
<1> QED  BY <1>4, <1>5, <1>6 DEF CrashDisks

\* A log that some window shows.
LEMMA ShownLog ==
  ASSUME Types, Logs, NEW n \in Node, NEW c \in Cores, c.role # "Leader",
         NEW v \in Windows, v.prev = 0, Part(LogWindow(c.log), v)
  PROVE  NewLog(n, c)
<1> DEFINE w == LogWindow(c.log)
<1>1. c.log \in Seq(Nat) /\ Len(c.log) \in Nat  BY CoreFacts
<1>2. /\ IsWindow(w) /\ w.prev = 0 /\ End(w) = Len(c.log)
      /\ \A i \in 1 .. Len(c.log) : At(w, i) = c.log[i]
  BY <1>1, LogWindowFacts
<1>3. \A u \in Windows : IsWindow(u)  BY WindowFacts
<1>4. Part(w, v)  OBVIOUS
<1>5. ASSUME NEW u \in Windows PROVE Agree(LogWindow(c.log), u)
  <2>1. Agree(v, u) /\ IsWindow(u) /\ IsWindow(v)
    BY <1>3 DEF Logs, WindowsAgree
  <2> QED  BY <1>2, <2>1, PartAgrees
<1> HIDE DEF w
<1>6. ASSUME NEW i \in 1 .. Len(c.log) PROVE Shown(i, c.log[i])
  <2>1. IsWindow(v)  BY <1>3
  <2>2. i \in w.prev .. End(w) /\ i \in v.prev + 1 .. End(v)
    BY <1>1, <1>2, <1>4, <2>1 DEF Part, IsWindow, End
  <2>3. At(v, i) = c.log[i]  BY <1>2, <1>4, <2>2 DEF Part
  <2> QED  BY <2>2, <2>3 DEF Shown
<1> QED  BY <1>5, <1>6 DEF NewLog

\* A recovered core is a follower with the term, vote and log of the disk.
LEMMA RecoveredFacts ==
  ASSUME NEW hs \in HardStates
  PROVE  LET c == Recovered(hs) IN
         /\ c \in Cores /\ c.term = hs.term /\ c.vote = hs.vote /\ c.log = hs.log
         /\ c.role = "Follower" /\ HardState(c) = hs
<1> DEFINE c == Recovered(hs)
<1>1. hs.term \in Nat /\ hs.vote \in Node \cup {Nil} /\ hs.log \in Seq(Nat)
      /\ hs = [term |-> hs.term, vote |-> hs.vote, log |-> hs.log]
      /\ Len(hs.log) \in Nat
  BY DEF HardStates
<1>2. c = [term |-> hs.term, vote |-> hs.vote, log |-> hs.log,
           role |-> "Follower", commit |-> 0, durable |-> Len(hs.log),
           lastApplied |-> 0, votes |-> {},
           next |-> [p \in Node |-> 1], match |-> [p \in Node |-> 0]]
  BY DEF Recovered, LastIndex
<1>3. [p \in Node |-> 1] \in [Node -> Nat \ {0}]
      /\ [p \in Node |-> 0] \in [Node -> Nat] /\ {} \in SUBSET Node
  OBVIOUS
<1> HIDE DEF c
<1>4. c \in Cores  BY <1>1, <1>2, <1>3 DEF Cores, Roles
<1>5. c.term = hs.term /\ c.vote = hs.vote /\ c.log = hs.log /\ c.role = "Follower"
  BY <1>2
<1>6. HardState(c) = hs  BY <1>1, <1>5 DEF HardState
<1> QED  BY <1>4, <1>5, <1>6 DEF c

\* No round in flight: nothing in it.
LEMMA NoFlightFacts ==
  /\ NoFlight \in Flights /\ NoFlight.on = FALSE /\ NoFlight.msgs = {}
  /\ NoFlight.hs.log = <<>>
<1>1. NewHardState \in HardStates  BY DEF NewHardState, HardStates
<1> QED  BY <1>1 DEF NoFlight, Flights, NewHardState

\* A crash, with or without the round in flight on disk, keeps the invariant.
LEMMA CrashKeeps ==
  ASSUME IInv, NEW n \in Node, Crash(n)
  PROVE  IInv'
<1>1. Types /\ Votes /\ Logs  BY DEF IInv
<1>2. PICK hs \in CrashDisks(n) : /\ disk' = [disk EXCEPT ![n] = hs]
                                  /\ core' = [core EXCEPT ![n] = Recovered(hs)]
  BY DEF Crash
<1> DEFINE c == Recovered(hs)
<1>3. /\ flight' = [flight EXCEPT ![n] = NoFlight]
      /\ held' = [held EXCEPT ![n] = {}] /\ crashes' = crashes + 1
      /\ UNCHANGED <<msgs, elected, rounds>>
  BY DEF Crash
<1>4. /\ hs \in HardStates
      /\ \/ hs.term = disk[n].term /\ hs.vote = disk[n].vote
         \/ /\ flight[n].on /\ hs.term = flight[n].hs.term
            /\ hs.vote = flight[n].hs.vote
  BY <1>1, CrashDiskFacts
<1>5. PICK v \in Windows : v.prev = 0 /\ Part(LogWindow(hs.log), v)
  BY <1>1, CrashDiskFacts
<1>6. /\ c \in Cores /\ c.term = hs.term /\ c.vote = hs.vote /\ c.log = hs.log
      /\ c.role = "Follower"
  BY <1>4, RecoveredFacts
<1> HIDE DEF c
<1>7. core' = [core EXCEPT ![n] = c]  BY <1>2 DEF c
<1>8. /\ core'[n] = c /\ \A q \in Node \ {n} : core'[q] = core[q]
      /\ disk'[n] = hs /\ \A q \in Node \ {n} : disk'[q] = disk[q]
      /\ flight'[n] = NoFlight /\ \A q \in Node \ {n} : flight'[q] = flight[q]
      /\ held'[n] = {} /\ \A q \in Node \ {n} : held'[q] = held[q]
  BY <1>1, <1>2, <1>3, <1>7 DEF Types
<1>9. Types'
  <2>1. core' \in [Node -> Cores] /\ disk' \in [Node -> HardStates]
        /\ held' \in [Node -> SUBSET Messages]
    BY <1>1, <1>2, <1>3, <1>4, <1>6, <1>7 DEF Types
  <2>2. flight' \in [Node -> Flights]
    BY <1>1, <1>3, NoFlightFacts DEF Types
  <2>3. \A q \in Node : ~flight'[q].on => flight'[q] = NoFlight
    BY <1>1, <1>8 DEF Types
  <2>4. \A q \in Node : \A m \in flight'[q].msgs \cup held'[q] :
          m.from = q /\ ~IsAppend(m)
    BY <1>1, <1>8, NoFlightFacts DEF Types
  <2>5. rounds' \in Nat /\ crashes' \in Nat /\ elected' \in SUBSET (Nat \X Node)
        /\ msgs' \in SUBSET Messages
    BY <1>1, <1>3 DEF Types
  <2> QED  BY <2>1, <2>2, <2>3, <2>4, <2>5 DEF Types
<1>10. \A m \in msgs : m.from \in Node  BY <1>1, MessageFacts DEF Types
<1>11. VotesCovered'
  <2>1. ASSUME NEW m \in msgs, IsBallot(m)
        PROVE  /\ Covers(disk'[m.from], m) /\ Covers(core'[m.from], m)
               /\ flight'[m.from].on => Covers(flight'[m.from].hs, m)
    <3>1. /\ Covers(disk[m.from], m) /\ Covers(core[m.from], m)
          /\ flight[m.from].on => Covers(flight[m.from].hs, m)
      BY <1>1, <2>1 DEF Votes, VotesCovered
    <3>2. CASE m.from = n
      <4>1. Covers(hs, m) /\ Covers(c, m)
        BY <1>4, <1>6, <3>1, <3>2 DEF Covers
      <4> QED  BY <1>8, <3>2, <4>1, NoFlightFacts
    <3>3. CASE m.from # n  BY <1>8, <1>10, <3>1, <3>3
    <3> QED  BY <3>2, <3>3
  <2>2. ASSUME NEW q \in Node, NEW m \in flight'[q].msgs, IsBallot(m)
        PROVE  Covers(flight'[q].hs, m) /\ Covers(core'[q], m)
    <3>1. q # n  BY <1>8, <2>2, NoFlightFacts
    <3> QED  BY <1>1, <1>8, <2>2, <3>1 DEF Votes, VotesCovered
  <2>3. ASSUME NEW q \in Node, NEW m \in held'[q], IsBallot(m)
        PROVE  Covers(core'[q], m)
    <3>1. q # n  BY <1>8, <2>3
    <3> QED  BY <1>1, <1>8, <2>3, <3>1 DEF Votes, VotesCovered
  <2> QED  BY <1>3, <2>1, <2>2, <2>3 DEF VotesCovered
<1>12. \A q \in Node : \A m \in Mail(q)' : m \in Mail(q)
  BY <1>3, <1>8, NoFlightFacts DEF Mail
<1>13. VotesAgree'  BY <1>1, <1>12 DEF Votes, VotesAgree
<1>14. /\ \A t, x : Asked(t, x) => Asked(t, x)'
       /\ \A q, t, x : Voted(q, t, x) => Voted(q, t, x)'
  BY <1>3, VotedStays
<1>15. GrantsAsked'
  <2> SUFFICES ASSUME NEW q \in Node, NEW m \in Mail(q)', IsGrant(m)
               PROVE  Asked(m.term, m.to)'
    BY DEF GrantsAsked
  <2>1. Asked(m.term, m.to)  BY <1>1, <1>12 DEF Votes, GrantsAsked
  <2> QED  BY <1>14, <2>1
<1>16. \A q \in Node : core'[q].role # "Follower" => core'[q] = core[q]
  BY <1>6, <1>8
<1>17. CandidateVotes'
  <2>1. ASSUME NEW q \in Node, core'[q].role = "Candidate"
        PROVE  /\ <<core'[q].term, q>> \notin elected'
               /\ \A v1 \in core'[q].votes : v1 = q \/
                    \E m \in msgs' : /\ IsBallot(m) /\ m.from = v1
                                     /\ m.term = core'[q].term /\ Choice(m) = q
    <3>1. core'[q] = core[q]  BY <1>16, <2>1
    <3> QED  BY <1>1, <1>3, <2>1, <3>1 DEF Votes, CandidateVotes, Voted
  <2> QED  BY <2>1 DEF CandidateVotes, Voted
<1>18. Elected'
  <2>1. ASSUME NEW e \in elected'
        PROVE  /\ Asked(e[1], e[2])'
               /\ \E Q \in SUBSET Node :
                    Majority(Q) /\ \A q \in Q : Voted(q, e[1], e[2])'
    BY <1>1, <1>3, <1>14 DEF Votes, Elected
  <2>2. ASSUME NEW q \in Node, core'[q].role = "Leader"
        PROVE  <<core'[q].term, q>> \in elected'
    <3>1. core'[q] = core[q]  BY <1>16, <2>2
    <3> QED  BY <1>1, <1>3, <2>2, <3>1 DEF Votes, Elected
  <2> QED  BY <2>1, <2>2 DEF Elected
<1>19. Votes'  BY <1>11, <1>13, <1>15, <1>17, <1>18 DEF Votes
<1>20. SealsKept
  <2> SUFFICES ASSUME NEW t \in Nat, Sealed(t) PROVE Sealed(t)'
    BY DEF SealsKept
  <2>1. t <= hs.term  BY <1>4 DEF Sealed
  <2>2. \A q \in Node : t <= core'[q].term /\ t <= disk'[q].term
    BY <1>6, <1>8, <2>1 DEF Sealed
  <2>3. \A q \in Node : flight'[q].on => t <= flight'[q].hs.term
    BY <1>8, NoFlightFacts DEF Sealed
  <2>4. \A q \in Node : core'[q].role = "Candidate" => core'[q].term # t
    BY <1>16 DEF Sealed
  <2>5. \A q \in Node : \A m \in Mail(q)' : IsBallot(m) => m.term # t
    BY <1>12 DEF Sealed
  <2> QED  BY <2>2, <2>3, <2>4, <2>5 DEF Sealed
<1>21. Fed(c)
  <2> SUFFICES ASSUME NEW w \in Windows'
               PROVE  \E u \in Windows \cup {LogWindow(c.log)} : Part(w, u)
    BY DEF Fed
  <2>1. Part(w, w)  BY <1>9, WindowsTypedNext, PartReflexive DEF WindowsTyped
  <2>2. /\ \A q \in Node : /\ LogWindow(core[q].log) \in Windows
                           /\ LogWindow(disk[q].log) \in Windows
                           /\ LogWindow(flight[q].hs.log) \in Windows
        /\ \A m \in msgs : IsAppend(m) /\ m.entries # <<>> =>
             MsgWindow(m) \in Windows
    BY <1>1, WindowFacts
  <2>3. CASE \E q \in Node : w = LogWindow(core'[q].log)
    BY <1>8, <2>1, <2>2, <2>3
  <2>4. CASE \E q \in Node : w = LogWindow(disk'[q].log)
    BY <1>6, <1>8, <2>1, <2>2, <2>4
  <2>5. CASE \E q \in Node \ {n} : w = LogWindow(flight'[q].hs.log)
    BY <1>8, <2>1, <2>2, <2>5
  <2>6. CASE w = LogWindow(flight'[n].hs.log)
    <3>1. w = LogWindow(<<>>)  BY <1>8, <2>6, NoFlightFacts
    <3> QED  BY <1>6, <3>1, EmptyIsPart
  <2>7. CASE \E m \in msgs' : IsAppend(m) /\ m.entries # <<>> /\ w = MsgWindow(m)
    BY <1>3, <2>1, <2>2, <2>7
  <2> QED  BY <2>3, <2>4, <2>5, <2>6, <2>7 DEF Windows
<1>22. NewLog(n, c)  BY <1>1, <1>5, <1>6, ShownLog
<1>23. Logs'
  BY <1>1, <1>3, <1>6, <1>7, <1>9, <1>19, <1>20, <1>21, <1>22, StepLogs
<1> QED  BY <1>9, <1>19, <1>23 DEF IInv
-----------------------------------------------------------------------------
(* The theorems.                                                           *)

\* A settled group is a group of followers with nothing on its way.
LEMMA InitFacts ==
  ASSUME SettledStart, Init
  PROVE  \E s \in Start :
           /\ Settled(s) /\ disk = s.disk /\ core \in [Node -> Cores]
           /\ \A n \in Node : /\ core[n].log = disk[n].log
                              /\ core[n].term = disk[n].term
                              /\ core[n].role = "Follower"
           /\ flight = [n \in Node |-> NoFlight]
           /\ held = [n \in Node |-> {}] /\ msgs = {} /\ elected = {}
           /\ rounds = 0 /\ crashes = 0
<1>1. PICK s \in Start :
        LET node(n) == [Recovered(s.mem[n]) EXCEPT !.durable = Len(s.disk[n].log)]
            c == BecomeLeader(s.leader, node(s.leader))
        IN /\ disk = s.disk
           /\ core = [n \in Node |-> IF n = s.leader THEN c ELSE node(n)]
           /\ flight = [n \in Node |-> IF HardState(core[n]) = disk[n] THEN NoFlight
                ELSE [on |-> TRUE, hs |-> HardState(core[n]), msgs |-> {}]]
           /\ held = [n \in Node |-> {}]
           /\ msgs = IF s.leader = Nil THEN {} ELSE Broadcast(s.leader, c)
           /\ elected = IF s.leader = Nil THEN {} ELSE {<<c.term, s.leader>>}
           /\ rounds = 0 /\ crashes = 0
  BY DEF Init
<1> DEFINE node(n) == [Recovered(s.mem[n]) EXCEPT !.durable = Len(s.disk[n].log)]
           c == BecomeLeader(s.leader, node(s.leader))
<1>2. Settled(s)  BY DEF SettledStart
<1>3. s.disk \in [Node -> HardStates] /\ s.mem = s.disk /\ s.leader = Nil
  BY <1>2 DEF Settled
<1>4. /\ disk = s.disk
      /\ core = [n \in Node |-> IF n = s.leader THEN c ELSE node(n)]
      /\ flight = [n \in Node |-> IF HardState(core[n]) = disk[n] THEN NoFlight
           ELSE [on |-> TRUE, hs |-> HardState(core[n]), msgs |-> {}]]
      /\ held = [n \in Node |-> {}] /\ msgs = {} /\ elected = {}
      /\ rounds = 0 /\ crashes = 0
  BY <1>1, <1>3
<1> HIDE DEF c
<1>5. ASSUME NEW n \in Node
      PROVE  /\ node(n) \in Cores /\ node(n).log = disk[n].log
             /\ node(n).term = disk[n].term /\ node(n).role = "Follower"
             /\ HardState(node(n)) = disk[n]
  <2> DEFINE hs == disk[n]
             r == Recovered(hs)
             k == Len(hs.log)
             d == [r EXCEPT !.durable = k]
  <2>1. hs \in HardStates /\ node(n) = d  BY <1>3, <1>4
  <2>2. k \in Nat  BY <2>1 DEF HardStates
  <2> HIDE DEF hs, k
  <2>3. /\ r \in Cores /\ r.term = hs.term /\ r.log = hs.log
        /\ r.role = "Follower" /\ HardState(r) = hs
    BY <2>1, RecoveredFacts
  <2> HIDE DEF r, node
  <2>4. /\ d \in Cores /\ d.term = r.term /\ d.log = r.log /\ d.role = r.role
        /\ d.vote = r.vote
    BY <2>2, <2>3 DEF Cores
  <2>5. HardState(d) = HardState(r)  BY <2>4 DEF HardState
  <2> QED  BY <2>1, <2>3, <2>4, <2>5 DEF hs
<1> HIDE DEF node
<1>6. \A n \in Node : n # s.leader  BY <1>3, RaftAssumption
<1>7. core \in [Node -> Cores] /\ \A n \in Node : core[n] = node(n)
  BY <1>4, <1>5, <1>6
<1>8. flight = [n \in Node |-> NoFlight]  BY <1>4, <1>5, <1>7
<1> QED  BY <1>2, <1>4, <1>5, <1>7, <1>8

\* A settled start satisfies the invariant.
LEMMA InitIInv == SettledStart /\ Init => IInv
<1> SUFFICES ASSUME SettledStart, Init PROVE IInv  OBVIOUS
<1>1. PICK s \in Start :
        /\ Settled(s) /\ disk = s.disk /\ core \in [Node -> Cores]
        /\ \A n \in Node : /\ core[n].log = disk[n].log
                           /\ core[n].term = disk[n].term
                           /\ core[n].role = "Follower"
        /\ flight = [n \in Node |-> NoFlight]
        /\ held = [n \in Node |-> {}] /\ msgs = {} /\ elected = {}
        /\ rounds = 0 /\ crashes = 0
  BY InitFacts
<1>2. disk \in [Node -> HardStates]  BY <1>1 DEF Settled
<1>3. \A n \in Node : /\ flight[n] = NoFlight /\ held[n] = {}
                      /\ flight[n].msgs = {} /\ flight[n].on = FALSE
                      /\ flight[n].hs.log = <<>>
  BY <1>1, NoFlightFacts
<1>4. Types  BY <1>1, <1>2, <1>3, NoFlightFacts DEF Types
<1>5. \A n \in Node : Mail(n) = {}  BY <1>1, <1>3 DEF Mail
<1>6. Votes
  <2>1. VotesCovered  BY <1>1, <1>3 DEF VotesCovered
  <2>2. VotesAgree /\ GrantsAsked  BY <1>5 DEF VotesAgree, GrantsAsked
  <2>3. CandidateVotes /\ Elected  BY <1>1 DEF CandidateVotes, Elected
  <2> QED  BY <2>1, <2>2, <2>3 DEF Votes
<1>7. ASSUME NEW w \in Windows
      PROVE  \/ w = LogWindow(<<>>)
             \/ \E n \in Node : w = LogWindow(disk[n].log)
  BY <1>1, <1>3 DEF Windows
<1>8. \A n \in Node : disk[n].log \in Seq(Nat) /\ disk[n].term \in Nat
  BY <1>2 DEF HardStates
<1>9. /\ LogWindow(<<>>).prev = 0 /\ End(LogWindow(<<>>)) = 0
  BY DEF LogWindow, End
<1>10. ASSUME NEW w \in Windows, NEW i \in w.prev + 1 .. End(w)
       PROVE  \E n \in Node : /\ w = LogWindow(disk[n].log)
                              /\ i \in 1 .. Len(disk[n].log)
                              /\ At(w, i) = disk[n].log[i]
  <2>1. w # LogWindow(<<>>)  BY <1>9, <1>10
  <2>2. PICK n \in Node : w = LogWindow(disk[n].log)  BY <1>7, <2>1
  <2>3. /\ w.prev = 0 /\ End(w) = Len(disk[n].log)
        /\ \A k \in 1 .. Len(disk[n].log) : At(w, k) = disk[n].log[k]
    BY <1>8, <2>2, LogWindowFacts
  <2>4. i \in 1 .. Len(disk[n].log)  BY <1>8, <2>3
  <2> QED  BY <2>2, <2>3, <2>4
<1>11. TermsKnown
  <2> SUFFICES ASSUME NEW w \in Windows, NEW i \in w.prev + 1 .. End(w)
               PROVE  Sealed(At(w, i))
    BY DEF TermsKnown, Known
  <2>1. PICK n \in Node : i \in 1 .. Len(disk[n].log) /\ At(w, i) = disk[n].log[i]
    BY <1>10
  <2>2. \A p \in Node : At(w, i) <= disk[p].term  BY <1>1, <2>1 DEF Settled
  <2> QED  BY <1>1, <1>3, <1>5, <2>2 DEF Sealed
<1>12. LeaderHas  BY <1>1 DEF LeaderHas
<1>13. WindowsAgree
  <2> SUFFICES ASSUME NEW a \in Windows, NEW b \in Windows,
                      NEW i \in a.prev + 1 .. End(a), b.prev < i, i <= End(b),
                      At(a, i) = At(b, i), NEW j \in a.prev .. i, b.prev <= j
               PROVE  At(a, j) = At(b, j)
    BY DEF WindowsAgree, Agree
  <2>1. IsWindow(a) /\ IsWindow(b)  BY <1>4, WindowFacts
  <2>2. i \in b.prev + 1 .. End(b) /\ i \in Nat
    BY <2>1 DEF IsWindow, End
  <2>3. PICK n \in Node : /\ a = LogWindow(disk[n].log)
                          /\ i \in 1 .. Len(disk[n].log)
                          /\ At(a, i) = disk[n].log[i]
    BY <1>10
  <2>4. PICK p \in Node : /\ b = LogWindow(disk[p].log)
                          /\ i \in 1 .. Len(disk[p].log)
                          /\ At(b, i) = disk[p].log[i]
    BY <1>10, <2>2
  <2>5. i \in 1 .. Smaller(Len(disk[n].log), Len(disk[p].log))
    BY <1>8, <2>3, <2>4 DEF Smaller
  <2>6. \A k \in 1 .. i : disk[n].log[k] = disk[p].log[k]
    <3>1. disk[n].log[i] = disk[p].log[i]  BY <2>3, <2>4
    <3> QED  BY <1>1, <2>5, <3>1 DEF Settled
  <2>7. /\ a.prev = 0 /\ At(a, 0) = 0
        /\ \A k \in 1 .. Len(disk[n].log) : At(a, k) = disk[n].log[k]
    BY <1>8, <2>3, LogWindowFacts
  <2>8. /\ At(b, 0) = 0
        /\ \A k \in 1 .. Len(disk[p].log) : At(b, k) = disk[p].log[k]
    BY <1>8, <2>4, LogWindowFacts
  <2>9. CASE j = 0  BY <2>7, <2>8, <2>9
  <2>10. CASE j # 0
    <3>1. j \in 1 .. i /\ j \in 1 .. Len(disk[n].log) /\ j \in 1 .. Len(disk[p].log)
      BY <1>8, <2>2, <2>3, <2>4, <2>7, <2>10
    <3> QED  BY <2>6, <2>7, <2>8, <3>1
  <2> QED  BY <2>9, <2>10
<1> QED  BY <1>4, <1>6, <1>11, <1>12, <1>13 DEF IInv, Logs

\* A state in which nothing changed.
LEMMA StutterKeeps == ASSUME IInv, UNCHANGED vars PROVE IInv'
<1>1. UNCHANGED <<core, disk, flight, held, msgs, elected, rounds, crashes>>
  BY DEF vars
<1>2. Types'  BY <1>1 DEF IInv, Types
<1>3. Votes'
  <2>1. VotesCovered'  BY <1>1 DEF IInv, Votes, VotesCovered
  <2>2. VotesAgree'  BY <1>1 DEF IInv, Votes, VotesAgree, Mail
  <2>3. GrantsAsked'  BY <1>1 DEF IInv, Votes, GrantsAsked, Mail, Asked
  <2>4. CandidateVotes'  BY <1>1 DEF IInv, Votes, CandidateVotes, Voted
  <2>5. Elected'  BY <1>1 DEF IInv, Votes, Elected, Voted, Asked
  <2> QED  BY <2>1, <2>2, <2>3, <2>4, <2>5 DEF Votes
<1>4. Logs'
  <2>1. Windows' = Windows  BY <1>1 DEF Windows
  <2>2. \A t : Known(t)' <=> Known(t)  BY <1>1 DEF Known, Sealed, Mail
  <2>3. TermsKnown'
    <3> SUFFICES ASSUME NEW w \in Windows, NEW i \in w.prev + 1 .. End(w)
                 PROVE  Known(At(w, i))'
      BY <2>1 DEF TermsKnown
    <3>1. Known(At(w, i))  BY DEF IInv, Logs, TermsKnown
    <3> QED  BY <2>2, <3>1
  <2>4. LeaderHas'  BY <1>1, <2>1 DEF IInv, Logs, LeaderHas
  <2>5. WindowsAgree'  BY <2>1 DEF IInv, Logs, WindowsAgree
  <2> QED  BY <2>3, <2>4, <2>5 DEF Logs
<1> QED  BY <1>2, <1>3, <1>4 DEF IInv

\* Every step keeps the invariant.
LEMMA NextKeeps == IInv /\ [Next]_vars => IInv'
<1> SUFFICES ASSUME IInv, [Next]_vars PROVE IInv'  OBVIOUS
<1>1. CASE UNCHANGED vars  BY <1>1, StutterKeeps
<1>2. CASE Next
  <2>1. PICK n \in Node :
          \/ StartPreVote(n) \/ WinPreVote(n) \/ LearnTerm(n) \/ Concede(n)
          \/ Heartbeat(n) \/ Propose(n) \/ PersistEnd(n) \/ Crash(n)
          \/ \E m \in msgs : Receive(n, m)
    BY <1>2 DEF Next
  <2>2. CASE StartPreVote(n)  BY <2>2, StartPreVoteKeeps
  <2>3. CASE WinPreVote(n)  BY <2>3, WinPreVoteKeeps
  <2>4. CASE LearnTerm(n)  BY <2>4, LearnTermKeeps
  <2>5. CASE Concede(n)  BY <2>5, ConcedeKeeps
  <2>6. CASE Heartbeat(n)  BY <2>6, HeartbeatKeeps
  <2>7. CASE Propose(n)  BY <2>7, ProposeKeeps
  <2>8. CASE PersistEnd(n)  BY <2>8, PersistEndKeeps
  <2>9. CASE Crash(n)  BY <2>9, CrashKeeps
  <2>10. ASSUME NEW m \in msgs, Receive(n, m) PROVE IInv'
    <3>1. CASE HandleRequestVote(n, m)  BY <3>1, HandleRequestVoteKeeps
    <3>2. CASE HandleVoteResp(n, m)  BY <3>2, HandleVoteRespKeeps
    <3>3. CASE HandleAppendEntries(n, m)  BY <3>3, HandleAppendEntriesKeeps
    <3>4. CASE HandleAppendResp(n, m)  BY <3>4, HandleAppendRespKeeps
    <3> QED  BY <2>10, <3>1, <3>2, <3>3, <3>4 DEF Receive
  <2> QED
    BY <2>1, <2>2, <2>3, <2>4, <2>5, <2>6, <2>7, <2>8, <2>9, <2>10
<1> QED  BY <1>1, <1>2

\* Windows that agree are logs that match.
LEMMA LogsMatch == Types /\ Logs => LogMatching
<1> SUFFICES ASSUME Types, Logs, NEW n \in Node, NEW p \in Node,
                    NEW i \in 1 .. Smaller(Len(core[n].log), Len(core[p].log)),
                    core[n].log[i] = core[p].log[i]
             PROVE  SubSeq(core[n].log, 1, i) = SubSeq(core[p].log, 1, i)
  BY DEF LogMatching
<1> DEFINE x == core[n].log
           y == core[p].log
           a == LogWindow(x)
           b == LogWindow(y)
<1>1. x \in Seq(Nat) /\ y \in Seq(Nat) /\ Len(x) \in Nat /\ Len(y) \in Nat
  BY CoreFacts DEF Types
<1>2. i \in 1 .. Len(x) /\ i \in 1 .. Len(y)  BY <1>1 DEF Smaller
<1>3. Agree(a, b)  BY WindowFacts DEF Logs, WindowsAgree
<1>4. /\ a.prev = 0 /\ End(a) = Len(x)
      /\ \A k \in 1 .. Len(x) : At(a, k) = x[k]
  BY <1>1, LogWindowFacts
<1>5. /\ b.prev = 0 /\ End(b) = Len(y)
      /\ \A k \in 1 .. Len(y) : At(b, k) = y[k]
  BY <1>1, LogWindowFacts
<1>6. x[i] = y[i]  OBVIOUS
<1> HIDE DEF a, b, x, y
<1>7. ASSUME NEW j \in 1 .. i PROVE x[j] = y[j]
  <2>1. /\ i \in a.prev + 1 .. End(a) /\ b.prev < i /\ i <= End(b)
        /\ j \in a.prev .. i /\ b.prev <= j
    BY <1>1, <1>2, <1>4, <1>5
  <2>2. At(a, i) = At(b, i)  BY <1>2, <1>4, <1>5, <1>6
  <2>3. At(a, j) = At(b, j)  BY <1>3, <2>1, <2>2 DEF Agree
  <2>4. j \in 1 .. Len(x) /\ j \in 1 .. Len(y)  BY <1>1, <1>2
  <2> QED  BY <1>4, <1>5, <2>3, <2>4
<1>8. ASSUME NEW s \in Seq(Nat), i <= Len(s)
      PROVE  /\ SubSeq(s, 1, i) \in Seq(Nat) /\ Len(SubSeq(s, 1, i)) = i
             /\ \A j \in 1 .. i : SubSeq(s, 1, i)[j] = s[j]
  <2>1. i \in 0 .. Len(s)  BY <1>1, <1>2, <1>8
  <2> QED  BY <2>1, PrefixFacts, Zenon
<1>9. SubSeq(x, 1, i) = SubSeq(y, 1, i)
  <2> DEFINE t == SubSeq(x, 1, i)
             u == SubSeq(y, 1, i)
  <2>1. t \in Seq(Nat) /\ Len(t) = i /\ \A j \in 1 .. i : t[j] = x[j]
    BY <1>1, <1>2, <1>8
  <2>2. u \in Seq(Nat) /\ Len(u) = i /\ \A j \in 1 .. i : u[j] = y[j]
    BY <1>1, <1>2, <1>8
  <2> HIDE DEF t, u
  <2>3. \A j \in 1 .. i : t[j] = u[j]  BY <1>7, <2>1, <2>2
  <2>4. t = u  BY <2>1, <2>2, <2>3, SeqEqual
  <2> QED  BY <2>4 DEF t, u
<1> QED  BY <1>9 DEF x, y

\* The invariant's types imply those the runs check.
LEMMA TypesTypeOK == Types => TypeOK
<1> SUFFICES ASSUME Types PROVE TypeOK  OBVIOUS
<1>1. ASSUME NEW n \in Node
      PROVE  /\ HardState(core[n]) \in HardStates /\ disk[n] \in HardStates
             /\ core[n].role \in {"Follower", "PreCandidate", "Candidate", "Leader"}
             /\ {core[n].commit, core[n].durable, core[n].lastApplied} \subseteq Nat
             /\ core[n].votes \subseteq Node
             /\ core[n].next \in [Node -> Nat] /\ core[n].match \in [Node -> Nat]
             /\ flight[n].on \in BOOLEAN /\ flight[n].hs \in HardStates
  <2>1. core[n] \in Cores /\ disk[n] \in HardStates /\ flight[n] \in Flights
    BY DEF Types
  <2>2. flight[n].on \in BOOLEAN /\ flight[n].hs \in HardStates
    BY <2>1 DEF Flights
  <2> QED  BY <2>1, <2>2, CoreFacts DEF Roles
<1> QED  BY <1>1 DEF TypeOK, Types

\* The inductive invariant (types, votes, logs) holds in every state that RaftCore's
\* handlers, the persist rounds and crashes reach from a settled start.
THEOREM RaftInvariant == ASSUME SettledStart PROVE Spec => []IInv
BY InitIInv, NextKeeps, PTL DEF Spec

\* TypeOK in every reachable state.
THEOREM RaftTyped == ASSUME SettledStart PROVE Spec => []TypeOK
<1>1. IInv => TypeOK  BY TypesTypeOK DEF IInv
<1> QED  BY <1>1, RaftInvariant, PTL

\* No term has two leaders, however votes are lost by crashes before the round
\* that holds them is on disk: a vote ships only once it is.
THEOREM OneLeaderPerTerm == ASSUME SettledStart PROVE Spec => []ElectionSafety
<1>1. IInv => ElectionSafety  BY OneLeader DEF IInv
<1> QED  BY <1>1, RaftInvariant, PTL

\* Logs that agree on an entry agree on everything before it, although the
\* entries an AppendEntries carries may be on nobody's disk.
THEOREM LogsAlwaysMatch == ASSUME SettledStart PROVE Spec => []LogMatching
<1>1. IInv => LogMatching  BY LogsMatch DEF IInv
<1> QED  BY <1>1, RaftInvariant, PTL
=============================================================================
