----------------------------- MODULE FifoMutex ------------------------------
(***************************************************************************)
(* What wal_lock promises its callers (animus-control/src/fair_lock.rs,    *)
(* module doc): one owner at a time, ownership in strict arrival order,    *)
(* and a caller that gives up leaves the line without stranding the rest.  *)
(***************************************************************************)
EXTENDS Integers, Sequences

CONSTANTS Tasks, Nobody

VARIABLES owner, line

InLine(t) == \E i \in 1 .. Len(line) : line[i] = t

Init == owner = Nobody /\ line = <<>>

\* A caller that finds the lock free and nobody in line takes it.
TakeFree(t) ==
  /\ owner = Nobody /\ line = <<>>
  /\ owner' = t /\ UNCHANGED line

\* Any other caller joins the end of the line.
Join(t) ==
  /\ owner # t /\ ~InLine(t)
  /\ owner # Nobody \/ line # <<>>
  /\ line' = Append(line, t) /\ UNCHANGED owner

\* The first in line takes a free lock.
TakeTurn(t) ==
  /\ owner = Nobody /\ line # <<>> /\ Head(line) = t
  /\ owner' = t /\ line' = Tail(line)

Leave(t) == owner = t /\ owner' = Nobody /\ UNCHANGED line

\* A caller that gives up leaves its place; those behind it move up one.
GiveUp(t) ==
  /\ \E p \in 1 .. Len(line) :
       /\ line[p] = t
       /\ line' = [i \in 1 .. Len(line) - 1 |->
                    IF i < p THEN line[i] ELSE line[i + 1]]
  /\ UNCHANGED owner

Next == \E t \in Tasks :
  TakeFree(t) \/ Join(t) \/ TakeTurn(t) \/ Leave(t) \/ GiveUp(t)

Spec == Init /\ [][Next]_<<owner, line>>
=============================================================================
