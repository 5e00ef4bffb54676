---------------------------- MODULE PersistRound ----------------------------
(***************************************************************************)
(* The persist-round bookkeeping shared by both planes' drivers            *)
(* (animus-control/src/persist_round.rs): PersistProgress, the round gate  *)
(* and the queue of messages held back until a round is durable.           *)
(*                                                                         *)
(* An entry of GatedOuts is a record [round, need]: the round it waits for *)
(* and the number of core mutations the messages of that batch vouch for.  *)
(***************************************************************************)
EXTENDS Integers, Sequences, FiniteSets

Progresses == [drained : Nat, durable : Nat, suspect : BOOLEAN]

NewProgress == [drained |-> 0, durable |-> 0, suspect |-> FALSE]

\* begin_drain, called by drain_for_round only when the drain took records.
BeginDrain(p, dirty) == IF dirty THEN [p EXCEPT !.drained = @ + 1] ELSE p

\* Bug: the watermark is stored, not raised.
CompleteDrainStore(p, round) == [p EXCEPT !.durable = round]

CompleteDrain(p, round) ==
  [p EXCEPT !.durable = IF round > @ THEN round ELSE @]

\* Bug: a rewrite that supersedes the drained rounds completes none of them.
CompleteNoneDrained(p) == p

CompleteAllDrained(p) == CompleteDrain(p, p.drained)

MarkSuspect(p) == [p EXCEPT !.suspect = TRUE]

\* Bug: only this loop's own records are considered.
FullyDurableIfClean(p, dirty) == ~dirty

FullyDurable(p, dirty) == ~dirty /\ p.durable >= p.drained /\ ~p.suspect

\* Rounds are numbered from 1; 0 is `None': ship now.
ShipNow == 0

\* Bug: off by one, the last drained round instead of the next.
GateLastRound(p, dirty) ==
  IF dirty THEN p.drained
  ELSE IF p.durable < p.drained THEN p.drained
  ELSE ShipNow

\* Bug: the last landed round instead of the one in flight.
GateLandedRound(p, dirty) ==
  IF dirty THEN p.drained + 1
  ELSE IF p.durable < p.drained THEN p.durable
  ELSE ShipNow

Gate(p, dirty) ==
  IF dirty THEN p.drained + 1
  ELSE IF p.durable < p.drained THEN p.drained
  ELSE ShipNow

\* GatedOuts::release takes the longest prefix whose rounds are durable.
ReleasedPositions(w, durable) ==
  {i \in 1 .. Len(w) : \A j \in 1 .. i : w[j].round <= durable}

Released(w, durable) == {w[i].need : i \in ReleasedPositions(w, durable)}

StillHeld(w, durable) ==
  SubSeq(w, Cardinality(ReleasedPositions(w, durable)) + 1, Len(w))

AllNeeds(w) == {w[i].need : i \in 1 .. Len(w)}

\* PersistArm's first test: the earliest round anything waits for has landed.
RoundLanded(w, p) == Len(w) > 0 /\ p.durable >= w[1].round
=============================================================================
