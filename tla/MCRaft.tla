------------------------------- MODULE MCRaft -------------------------------
(* Model-checking instance of Raft: three voters.                           *)
EXTENDS Raft, TLC

CONSTANTS n1, n2, n3

MCNode == {n1, n2, n3}
Symmetry == Permutations(MCNode)

Disk(term, vote, log) == [term |-> term, vote |-> vote, log |-> log]

AtRest(d, b) == [disk |-> d, mem |-> d, leader |-> Nil, bound |-> b]

UpTo(term, log) ==
  [term |-> term, log |-> log, rounds |-> 2, crashes |-> 1, overtake |-> FALSE]
OvertakingUpTo(term, log, crash) ==
  [term |-> term, log |-> log, rounds |-> 1, crashes |-> crash, overtake |-> TRUE]

New(b) == AtRest([n \in MCNode |-> NewHardState], b)

\* A group that has never run: two terms, and no entries but the no-ops.
Fresh == {New(UpTo(2, 0))}

\* A group that lost power in term 2: the leader of term 1 had an entry on its
\* own disk only, the leader of term 2 its no-op on its own disk and one more.
LostPower(b) ==
  {AtRest(p[n1] :> Disk(2, Nil, <<1, 1>>) @@ p[n2] :> Disk(2, p[n2], <<1, 2>>)
             @@ p[n3] :> Disk(2, p[n2], <<1, 2>>), b) : p \in Symmetry}
PowerLoss == LostPower(UpTo(3, 4))

\* One pre-vote round of either, where an AppendEntries may overtake another of its
\* term, and so may their answers.
Overtaking == {New(OvertakingUpTo(1, 2, 1))} \cup LostPower(OvertakingUpTo(3, 3, 0))

\* The leader of term 1 sent two entries to a follower, crashed before writing
\* them, and has voted for the third node, which has just won term 2; the
\* follower is still writing the two entries.
Deposed ==
  {LET d == p[n1] :> Disk(1, p[n3], <<>>) @@ p[n2] :> Disk(2, p[n2], <<>>)
              @@ p[n3] :> Disk(2, p[n2], <<>>)
   IN [disk |-> d, mem |-> p[n1] :> Disk(1, p[n3], <<1, 1>>) @@ d, leader |-> p[n2],
       bound |-> UpTo(4, 0)] : p \in Symmetry}

FreshOrPowerLoss == Fresh \cup PowerLoss \cup Overtaking

\* All are groups at rest, of which RaftProofs speaks.
ASSUME StartsSettled == \A s \in FreshOrPowerLoss : Settled(s)

\* What decides how a behaviour goes on, and the histories the properties read: a
\* node that does not lead starts its peers' indexes afresh when it does, votes are
\* counted by candidates only, and a message of a term older than its receiver's
\* disk is dropped on arrival.
Lasting(c) ==
  [c EXCEPT !.next = IF c.role = "Leader" THEN @ ELSE <<>>,
            !.match = IF c.role = "Leader" THEN @ ELSE <<>>,
            !.votes = IF c.role = "Candidate" THEN @ ELSE {}]

Receivable(m) ==
  \E n \in Node : m.term >= disk[n].term /\ (m.type # "RequestVote" => m.to = n)

View == <<[n \in Node |-> Lasting(core[n])], disk, flight, held,
          {m \in msgs : Receivable(m)}, elected, acked, bound, rounds, crashes>>
=============================================================================
