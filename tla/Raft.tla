-------------------------------- MODULE Raft --------------------------------
(***************************************************************************)
(* RaftCore of one group (animus-control/src/raft.rs): pre-vote, elections *)
(* and log replication, under the drivers' durability discipline           *)
(* (persist_round.rs): the core steps in memory, a persist round writes    *)
(* what it drained, replies that claim durable state wait for the round    *)
(* and AppendEntries does not.                                             *)
(*                                                                         *)
(* A log is the sequence of its entries' terms (an entry is known by index *)
(* and term).  Time is left out: a deadline may have passed or not, so a   *)
(* timer fires whenever the role allows it, and a lease that ignores a     *)
(* message is the loss of that message.  The voters are fixed and nothing  *)
(* is compacted; messages may be lost, repeated and reordered.             *)
(*                                                                         *)
(* Two exchanges are kept by their effect and not by their messages.  A    *)
(* pre-vote grant reports what its sender's log and term were at some      *)
(* earlier moment, so a pre-candidate may collect a majority at any time,  *)
(* and the properties below must not rest on who grants.  A refusal from a *)
(* later term makes its receiver adopt that term and nothing else          *)
(* (LearnTerm).                                                            *)
(***************************************************************************)
EXTENDS Integers, Sequences, FiniteSets

CONSTANTS
  Node,       \* the voters of the group
  Nil,        \* no vote
  Start,      \* the states a group may be in at first: [disk, mem, leader], and
              \* the bound of a behaviour that starts there
  MaxBatch    \* MAX_APPEND_ENTRIES_BATCH

ASSUME RaftAssumption ==
  /\ IsFiniteSet(Node) /\ Nil \notin Node
  /\ \A s \in Start :
       s.bound \in [term : Nat, log : Nat, rounds : Nat, crashes : Nat,
                    overtake : BOOLEAN]
  /\ MaxBatch \in Nat \ {0}

VARIABLES
  core,     \* RaftCore, per node
  disk,     \* the hard state and log a restart replays, per node
  flight,   \* the persist round in flight: what it drained, what waits for it
  held,     \* messages that wait for the next round
  msgs,     \* every message sent so far
  elected,  \* history: who became leader of which term
  applied,  \* history: the entries some node handed to its engine
  acked,    \* history: the entries a leader made visible to its clients
  bound,    \* terms, the log length at which a proposer stops, pre-vote rounds,
            \* crashes, and whether AppendEntries of a term may overtake each other
  rounds,   \* pre-vote rounds started so far
  crashes   \* crashes so far

vars == <<core, disk, flight, held, msgs, elected, applied, acked, bound,
          rounds, crashes>>

-----------------------------------------------------------------------------
(* The core's own operations, on the record of one node.                   *)

Majority(S) == 2 * Cardinality(S) > Cardinality(Node)

\* Bug: the index of the last entry, counted from zero.
LastIndexFromZero(log) == Len(log) - 1

LastIndex(log) == Len(log)
LastTerm(log) == IF log = <<>> THEN 0 ELSE log[Len(log)]
TermAt(log, i) == IF i \in 1 .. Len(log) THEN log[i] ELSE 0
Smaller(a, b) == IF a < b THEN a ELSE b
Larger(a, b) == IF a > b THEN a ELSE b

\* What the WAL records: term, vote and log.
HardState(c) == [term |-> c.term, vote |-> c.vote, log |-> c.log]

\* RaftCore::recovered: a follower whose whole log is durable and of which
\* nothing is known to be committed.
Recovered(hs) ==
  [term |-> hs.term, vote |-> hs.vote, log |-> hs.log, role |-> "Follower",
   commit |-> 0, durable |-> LastIndex(hs.log), lastApplied |-> 0,
   votes |-> {},
   next |-> [p \in Node |-> 1], match |-> [p \in Node |-> 0]]

NewHardState == [term |-> 0, vote |-> Nil, log |-> <<>>]

\* Any message of a higher term, pre-votes excepted, makes a node a follower.
StepDown(c, term) ==
  IF term > c.term
    THEN [c EXCEPT !.term = term, !.vote = Nil, !.role = "Follower"]
    ELSE c

UpToDate(c, m) ==
  \/ m.lastTerm > LastTerm(c.log)
  \/ m.lastTerm = LastTerm(c.log) /\ m.lastIndex >= LastIndex(c.log)

\* The leader's frontier is durable on its own disk; a follower's is not.
Apply(c) ==
  LET frontier == IF c.role = "Leader" THEN Smaller(c.commit, c.durable)
                                       ELSE c.commit
  IN [c EXCEPT !.lastApplied = Larger(@, frontier)]

\* The highest entry of the current term on a majority, the leader itself
\* counted whether or not its own copy is on disk.
MaybeAdvanceCommit(n, c) ==
  LET ok == {i \in c.commit + 1 .. Len(c.log) :
               /\ c.log[i] = c.term
               /\ Majority({n} \cup {p \in Node \ {n} : c.match[p] >= i})}
  IN IF ok = {} THEN c
     ELSE [c EXCEPT !.commit = CHOOSE i \in ok : \A j \in ok : j <= i]

\* replicate_to, without snapshots and without the deep window
\* (INFLIGHT_OVERLAP_MAX_ENTRIES unacknowledged entries) that holds a send back.
ReplicateTo(n, c, p) ==
  LET next == c.next[p] IN
  [type |-> "AppendEntries", term |-> c.term, from |-> n, to |-> p,
   prev |-> next - 1, prevTerm |-> TermAt(c.log, next - 1),
   entries |-> SubSeq(c.log, next, Smaller(next + MaxBatch - 1, Len(c.log))),
   commit |-> c.commit]

Broadcast(n, c) == {ReplicateTo(n, c, p) : p \in Node \ {n}}

\* become_leader appends its no-op and broadcasts.
BecomeLeader(n, c) ==
  Apply(MaybeAdvanceCommit(n,
    [c EXCEPT !.role = "Leader", !.log = Append(@, c.term),
              !.next = [p \in Node |-> Len(c.log) + 1],
              !.match = [p \in Node |-> 0]]))

\* start_election: a new term and a vote for itself.
Campaign(n, c) ==
  [c EXCEPT !.role = "Candidate", !.term = @ + 1, !.vote = n, !.votes = {n}]

-----------------------------------------------------------------------------
(* The driver's part of a step: the new core, and its messages through the *)
(* round gate.                                                             *)

\* Bug: an answer to AppendEntries ships before its entries are durable.
ShipsAcksEarly == {"AppendEntries", "AppendEntriesResp"}

\* Bug: votes, asked for and given, ship before they are durable.
ShipsVotesEarly == {"AppendEntries", "RequestVote", "RequestVoteResp"}

\* ships_before_durable
ShipsBeforeDurable == {"AppendEntries"}

NoFlight == [on |-> FALSE, hs |-> NewHardState, msgs |-> {}]

\* What the last drain took.
Drained(n) == IF flight[n].on THEN flight[n].hs ELSE disk[n]

\* The network: a message stays, to be delivered never, once or often, and after
\* later ones.  A bound without `overtake' leaves out one reordering: from one node
\* to another and in one term only the newest AppendEntries is kept, and the newest
\* answer to one.
Displaces(o, m) ==
  /\ ~bound.overtake
  /\ o.type \in {"AppendEntries", "AppendEntriesResp"}
  /\ o.type = m.type /\ o.term = m.term /\ o.from = m.from /\ o.to = m.to

Sent(out) == {m \in msgs : \A o \in out : ~Displaces(o, m)} \cup out

\* The loop starts a round at its top, right after the step that owes the WAL
\* something; while one is in flight the messages of later steps are held.
Gate(n, c, out) ==
  LET free == {m \in out : m.type \in ShipsBeforeDurable}
      claims == out \ free
      owed == HardState(c) # Drained(n)
  IN \/ /\ owed /\ flight[n].on
        /\ msgs' = Sent(free)
        /\ held' = [held EXCEPT ![n] = @ \cup claims]
        /\ UNCHANGED flight
     \/ /\ owed /\ ~flight[n].on
        /\ msgs' = Sent(free)
        /\ flight' = [flight EXCEPT ![n] =
             [on |-> TRUE, hs |-> HardState(c), msgs |-> claims]]
        /\ UNCHANGED held
     \/ /\ ~owed /\ flight[n].on
        /\ msgs' = Sent(free)
        /\ flight' = [flight EXCEPT ![n].msgs = @ \cup claims]
        /\ UNCHANGED held
     \/ /\ ~owed /\ ~flight[n].on
        /\ msgs' = Sent(out)
        /\ UNCHANGED <<held, flight>>

\* History of what node n, now c, has applied and acknowledged.
Newly(n, c) ==
  {<<i, c.log[i]>> : i \in core[n].lastApplied + 1 .. c.lastApplied}

Record(n, c) ==
  /\ core' = [core EXCEPT ![n] = c]
  /\ applied' = applied \cup Newly(n, c)
  /\ acked' = IF c.role = "Leader" THEN acked \cup Newly(n, c) ELSE acked
  /\ elected' = IF c.role = "Leader" THEN elected \cup {<<c.term, n>>}
                                     ELSE elected

Step(n, c, out) ==
  /\ Record(n, c)
  /\ Gate(n, c, out)
  /\ UNCHANGED <<disk, bound, rounds, crashes>>

-----------------------------------------------------------------------------
(* Timers and clients.                                                     *)

\* The election timer fires: a pre-vote round, which no durable state shows.
\* Answers to an earlier candidacy no longer count.
StartPreVote(n) ==
  LET c == [core[n] EXCEPT !.role = "PreCandidate"] IN
  /\ core[n].role # "Leader" /\ core[n].term < bound.term
  /\ rounds < bound.rounds /\ rounds' = rounds + 1
  /\ Record(n, c) /\ Gate(n, c, {}) /\ UNCHANGED <<disk, bound, crashes>>

\* handle_pre_vote_resp with a majority of grants: the real election.
WinPreVote(n) ==
  LET c == Campaign(n, core[n]) IN
  /\ core[n].role = "PreCandidate" /\ core[n].term < bound.term
  /\ Step(n, c, {[type |-> "RequestVote", term |-> c.term, from |-> n,
                  lastIndex |-> LastIndex(c.log), lastTerm |-> LastTerm(c.log)]})

\* The answer of a node in a later term, to a pre-vote (which ships at once) or
\* to a request whose answer waits until that term is on the node's disk.
LearnTerm(n) == \E p \in Node :
  LET term == IF core[n].role = "PreCandidate" THEN core[p].term ELSE disk[p].term
  IN /\ core[n].role # "Follower" /\ term > core[n].term
     /\ Step(n, StepDown(core[n], term), {})

\* handle_pre_vote, on a candidate whose own candidacy has lapsed: it grants a
\* pre-vote, perhaps a late one, and concedes, keeping its term and its vote.
Concede(n) ==
  /\ core[n].role = "Candidate"
  /\ Step(n, [core[n] EXCEPT !.role = "Follower", !.votes = {}], {})

\* The heartbeat tick and replicate_now.
Heartbeat(n) ==
  /\ core[n].role = "Leader"
  /\ Step(n, core[n], Broadcast(n, core[n]))

Propose(n) ==
  LET c == [core[n] EXCEPT !.log = Append(@, core[n].term)] IN
  /\ core[n].role = "Leader" /\ Len(core[n].log) < bound.log
  /\ Step(n, Apply(MaybeAdvanceCommit(n, c)), {})

-----------------------------------------------------------------------------
(* Message handlers.                                                       *)

\* One vote per term, for an up-to-date log.  A refusal at the candidate's own
\* term does nothing there and is left out, as is the answer to a stale request.
HandleRequestVote(n, m) ==
  LET c == StepDown(core[n], m.term)
      grant == c.vote \in {Nil, m.from} /\ UpToDate(c, m)
  IN
  /\ m.type = "RequestVote" /\ m.from # n /\ m.term >= core[n].term
  /\ \/ /\ grant
        /\ Step(n, [c EXCEPT !.vote = m.from],
                {[type |-> "RequestVoteResp", term |-> c.term, from |-> n,
                  to |-> m.from]})
     \/ ~grant /\ m.term > core[n].term /\ Step(n, c, {})

\* A granted vote; a majority makes the candidate the leader.
HandleVoteResp(n, m) ==
  LET c == [core[n] EXCEPT !.votes = @ \cup {m.from}]
      won == BecomeLeader(n, c)
  IN
  /\ m.type = "RequestVoteResp" /\ m.to = n
  /\ c.role = "Candidate" /\ m.term = c.term
  /\ IF Majority(c.votes) THEN Step(n, won, Broadcast(n, won))
                          ELSE Step(n, c, {})

\* The log after the carried entries: an entry already there with the same
\* term is skipped, the first conflict cuts the rest of the log off.
Merged(log, a) ==
  LET conflicts == {k \in 1 .. Len(a.entries) :
                      /\ a.prev + k <= Len(log)
                      /\ log[a.prev + k] # a.entries[k]}
      last == a.prev + Len(a.entries)
  IN IF conflicts = {} /\ last <= Len(log) THEN log
     ELSE SubSeq(log, 1, a.prev) \o a.entries

\* The length a truncation cuts the log to (its whole length without one).
CutAt(log, a) ==
  LET conflicts == {k \in 1 .. Len(a.entries) :
                      /\ a.prev + k <= Len(log)
                      /\ log[a.prev + k] # a.entries[k]}
  IN IF conflicts = {} THEN Len(log)
     ELSE a.prev + (CHOOSE k \in conflicts : \A j \in conflicts : k <= j) - 1

\* Bug: the position is checked and the term is not.
MatchesPosition(log, m) == m.prev <= Len(log)

\* The previous entry must be there, at its position and of its term.
Matches(log, m) == m.prev <= Len(log) /\ TermAt(log, m.prev) = m.prevTerm

HandleAppendEntries(n, m) ==
  LET c == [StepDown(core[n], m.term) EXCEPT !.role = "Follower"]
      idx == m.prev + Len(m.entries)
      d == [c EXCEPT !.log = Merged(c.log, m),
                     !.durable = Smaller(@, CutAt(c.log, m)),
                     !.commit = Larger(@, Smaller(m.commit, idx))]
      reply(ok, match) ==
        [type |-> "AppendEntriesResp", term |-> c.term, from |-> n,
         to |-> m.from, success |-> ok, match |-> match]
  IN
  /\ m.type = "AppendEntries" /\ m.to = n /\ m.term >= core[n].term
  /\ \/ ~Matches(c.log, m) /\ Step(n, c, {reply(FALSE, 0)})
     \/ Matches(c.log, m) /\ Step(n, Apply(d), {reply(TRUE, idx)})

\* match_index and next_index only grow on a success; a refusal steps back by
\* one entry and sends again.
HandleAppendResp(n, m) ==
  LET c == core[n]
      ok == Apply(MaybeAdvanceCommit(n,
              [c EXCEPT !.match[m.from] = Larger(@, m.match),
                        !.next[m.from] = Larger(@, m.match + 1)]))
      back == [c EXCEPT !.next[m.from] = IF @ > 1 THEN @ - 1 ELSE @]
  IN
  /\ m.type = "AppendEntriesResp" /\ m.to = n
  /\ c.role = "Leader" /\ m.term = c.term
  /\ \/ /\ m.success
        /\ Step(n, ok, IF ok.next[m.from] <= Len(ok.log)
                         THEN {ReplicateTo(n, ok, m.from)} ELSE {})
     \/ /\ ~m.success
        /\ Step(n, back, {ReplicateTo(n, back, m.from)})

-----------------------------------------------------------------------------
(* Persistence.                                                            *)

\* The round is synced: mark_durable_through, apply, ship; the loop's next turn
\* drains what the steps meanwhile left, with the messages held for it.
PersistEnd(n) ==
  LET through == Len(flight[n].hs.log)
      c == IF through > core[n].durable
             THEN Apply([core[n] EXCEPT !.durable = through]) ELSE core[n]
  IN
  /\ flight[n].on
  /\ disk' = [disk EXCEPT ![n] = flight[n].hs]
  /\ Record(n, c)
  /\ msgs' = Sent(flight[n].msgs)
  /\ flight' = [flight EXCEPT ![n] =
       IF HardState(c) = flight[n].hs THEN NoFlight
       ELSE [on |-> TRUE, hs |-> HardState(c), msgs |-> held[n]]]
  /\ held' = [held EXCEPT ![n] = {}]
  /\ UNCHANGED <<bound, rounds, crashes>>

\* A crash in a round leaves a prefix of its records: log records first, the
\* hard state last.
CommonPrefix(a, b) ==
  LET same == {k \in 0 .. Smaller(Len(a), Len(b)) :
                 SubSeq(a, 1, k) = SubSeq(b, 1, k)}
  IN CHOOSE k \in same : \A j \in same : j <= k

CrashDisks(n) ==
  IF ~flight[n].on THEN {disk[n]}
  ELSE LET log == flight[n].hs.log IN
       {disk[n], flight[n].hs} \cup
       {[disk[n] EXCEPT !.log = SubSeq(log, 1, k)] :
          k \in CommonPrefix(disk[n].log, log) .. Len(log)}

Crash(n) ==
  /\ crashes < bound.crashes /\ crashes' = crashes + 1
  /\ \E hs \in CrashDisks(n) :
       /\ disk' = [disk EXCEPT ![n] = hs]
       /\ core' = [core EXCEPT ![n] = Recovered(hs)]
  /\ flight' = [flight EXCEPT ![n] = NoFlight]
  /\ held' = [held EXCEPT ![n] = {}]
  /\ UNCHANGED <<msgs, elected, applied, acked, bound, rounds>>

-----------------------------------------------------------------------------
\* What an earlier life of the group may have acknowledged: the entries a
\* majority has on disk.
OnMajority ==
  {e \in UNION {{<<i, disk[n].log[i]>> : i \in 1 .. Len(disk[n].log)} : n \in Node} :
     Majority({n \in Node : TermAt(disk[n].log, e[1]) = e[2]})}

\* A group as one finds it: what each node has on disk and in memory, with a
\* round in flight where the two differ, and perhaps a node that has just
\* counted its votes (its no-op is being written and is on its way).
Init == \E s \in Start :
  LET node(n) == [Recovered(s.mem[n]) EXCEPT !.durable = Len(s.disk[n].log)]
      c == BecomeLeader(s.leader, node(s.leader))
  IN
  /\ disk = s.disk
  /\ core = [n \in Node |-> IF n = s.leader THEN c ELSE node(n)]
  /\ flight = [n \in Node |-> IF HardState(core[n]) = disk[n] THEN NoFlight
       ELSE [on |-> TRUE, hs |-> HardState(core[n]), msgs |-> {}]]
  /\ held = [n \in Node |-> {}]
  /\ msgs = IF s.leader = Nil THEN {} ELSE Broadcast(s.leader, c)
  /\ elected = IF s.leader = Nil THEN {} ELSE {<<c.term, s.leader>>}
  /\ applied = {} /\ acked = OnMajority
  /\ bound = s.bound /\ rounds = 0 /\ crashes = 0

Receive(n, m) ==
  \/ HandleRequestVote(n, m) \/ HandleVoteResp(n, m)
  \/ HandleAppendEntries(n, m) \/ HandleAppendResp(n, m)

Next == \E n \in Node :
  \/ StartPreVote(n) \/ WinPreVote(n) \/ LearnTerm(n) \/ Concede(n)
  \/ Heartbeat(n) \/ Propose(n)
  \/ \E m \in msgs : Receive(n, m)
  \/ PersistEnd(n) \/ Crash(n)

Spec == Init /\ [][Next]_vars
-----------------------------------------------------------------------------
(* Properties.                                                             *)

HardStates == [term : Nat, vote : Node \cup {Nil}, log : Seq(Nat)]

\* Every field keeps its type.
TypeOK ==
  /\ \A n \in Node :
       /\ HardState(core[n]) \in HardStates /\ disk[n] \in HardStates
       /\ core[n].role \in {"Follower", "PreCandidate", "Candidate", "Leader"}
       /\ {core[n].commit, core[n].durable, core[n].lastApplied} \subseteq Nat
       /\ core[n].votes \subseteq Node
       /\ core[n].next \in [Node -> Nat] /\ core[n].match \in [Node -> Nat]
       /\ flight[n].on \in BOOLEAN /\ flight[n].hs \in HardStates
  /\ rounds \in Nat /\ crashes \in Nat

\* A term never has two leaders, although a vote, or a candidacy's vote for
\* itself, is lost by a crash that comes before its round is durable.
ElectionSafety == \A e, f \in elected : e[1] = f[1] => e[2] = f[2]

\* Two logs that agree on an entry agree on everything before it: the positional
\* term check, the conflict cut and the replay of a torn round keep it so.
LogMatching ==
  \A n, p \in Node : \A i \in 1 .. Smaller(Len(core[n].log), Len(core[p].log)) :
    core[n].log[i] = core[p].log[i] =>
      SubSeq(core[n].log, 1, i) = SubSeq(core[p].log, 1, i)

\* An acknowledged write is never lost: every leader of a later term has it,
\* whoever crashed and whatever the crash took from a log.
AckedSurvives == \A a \in acked : \A n \in Node :
  core[n].role = "Leader" /\ core[n].term > a[2] =>
    TermAt(core[n].log, a[1]) = a[2]

\* "A committed entry already rests on a quorum of durable logs": no two nodes
\* hand different entries of one index to their engines.  The code does not keep
\* this (README, observations).
StateMachineSafety == \A a, b \in applied : a[1] = b[1] => a[2] = b[2]
-----------------------------------------------------------------------------
\* A group at rest: nobody leads, what is in memory is on disk, the logs match
\* and no node is in a term older than some entry.  A group that has never run
\* is one, a group that lost power may be one.
Settled(s) ==
  /\ s.disk \in [Node -> HardStates] /\ s.mem = s.disk /\ s.leader = Nil
  /\ \A n, p \in Node :
       \A i \in 1 .. Smaller(Len(s.disk[n].log), Len(s.disk[p].log)) :
         s.disk[n].log[i] = s.disk[p].log[i] =>
           \A j \in 1 .. i : s.disk[n].log[j] = s.disk[p].log[j]
  /\ \A n, p \in Node : \A i \in 1 .. Len(s.disk[n].log) :
       s.disk[n].log[i] <= s.disk[p].term

SettledStart == \A s \in Start : Settled(s)
=============================================================================
