------------------------------ MODULE FairLock ------------------------------
(***************************************************************************)
(* FairMutex (animus-control/src/fair_lock.rs): the FIFO-fair async mutex  *)
(* that serialises the writers of a WAL file.  Every action is one hold of *)
(* the inner std mutex.  A task that got Poll::Pending runs again only     *)
(* when its stored waker fires (`awake'), or spuriously.                   *)
(***************************************************************************)
EXTENDS Integers, Sequences

CONSTANTS
  Tasks,       \* the callers of lock(), each with at most one LockFuture
  Nobody,      \* no task
  MaxTickets   \* bound: tickets handed out (a u64 in the code)

ASSUME FairLockAssumption == Nobody \notin Tasks /\ MaxTickets \in Nat

VARIABLES
  held,         \* Inner::held
  reservedFor,  \* Inner::reserved_for, NoTicket for None
  nextTicket,   \* Inner::next_ticket
  queue,        \* Inner::queue, its tickets
  st,           \* per task: no future, a polled future, a guard
  ticket,       \* LockFuture::ticket
  awake         \* tasks whose stored waker has fired, not yet polled again

vars == <<held, reservedFor, nextTicket, queue, st, ticket, awake>>

NoTicket == -1

\* The task whose waker is stored with a ticket.
WakerOf(k) == {t \in Tasks : ticket[t] = k}

\* Bug: a cancelled waiter's place is emptied and not removed.
WithoutHole(q, k) == [i \in 1 .. Len(q) |-> IF q[i] = k THEN NoTicket ELSE q[i]]

\* VecDeque::retain(|(t, _)| t != k) on a queue that holds each ticket once.
Without(q, k) ==
  IF \E p \in 1 .. Len(q) : q[p] = k
    THEN LET p == CHOOSE p \in 1 .. Len(q) : q[p] = k
         IN [i \in 1 .. Len(q) - 1 |-> IF i < p THEN q[i] ELSE q[i + 1]]
    ELSE q

\* Bug: the youngest waiter is served first.
HandoverLast(t, reserved) ==
  IF reserved = NoTicket /\ queue # <<>>
    THEN /\ reservedFor' = queue[Len(queue)]
         /\ queue' = SubSeq(queue, 1, Len(queue) - 1)
         /\ awake' = (awake \ {t}) \cup WakerOf(queue[Len(queue)])
    ELSE reservedFor' = reserved /\ awake' = awake \ {t} /\ UNCHANGED queue

\* Bug: the reservation is made and its waker is not called.
HandoverSilent(t, reserved) ==
  IF reserved = NoTicket /\ queue # <<>>
    THEN /\ reservedFor' = Head(queue)
         /\ queue' = Tail(queue)
         /\ awake' = awake \ {t}
    ELSE reservedFor' = reserved /\ awake' = awake \ {t} /\ UNCHANGED queue

\* FairMutex::release, called by `t' with reserved_for as it left it: the
\* head of the queue is popped, reserved and woken.
Handover(t, reserved) ==
  IF reserved = NoTicket /\ queue # <<>>
    THEN /\ reservedFor' = Head(queue)
         /\ queue' = Tail(queue)
         /\ awake' = (awake \ {t}) \cup WakerOf(Head(queue))
    ELSE reservedFor' = reserved /\ awake' = awake \ {t} /\ UNCHANGED queue

\* Bug: a reservation does not keep newcomers out.
PollBarge(t) ==
  /\ st[t] = "idle" /\ ~held /\ queue = <<>>
  /\ held' = TRUE
  /\ st' = [st EXCEPT ![t] = "holding"]
  /\ UNCHANGED <<reservedFor, nextTicket, queue, ticket, awake>>

\* First poll of a LockFuture: take a free, unreserved, unqueued lock ...
PollTake(t) ==
  /\ st[t] = "idle"
  /\ ~held /\ reservedFor = NoTicket /\ queue = <<>>
  /\ held' = TRUE
  /\ st' = [st EXCEPT ![t] = "holding"]
  /\ UNCHANGED <<reservedFor, nextTicket, queue, ticket, awake>>

\* ... or queue behind every earlier caller.
PollQueue(t) ==
  /\ st[t] = "idle" /\ nextTicket < MaxTickets
  /\ held \/ reservedFor # NoTicket \/ queue # <<>>
  /\ ticket' = [ticket EXCEPT ![t] = nextTicket]
  /\ nextTicket' = nextTicket + 1
  /\ queue' = Append(queue, nextTicket)
  /\ st' = [st EXCEPT ![t] = "waiting"]
  /\ UNCHANGED <<held, reservedFor, awake>>

\* A later poll claims the reservation made for this ticket.
PollClaim(t) ==
  /\ st[t] = "waiting" /\ reservedFor = ticket[t]
  /\ reservedFor' = NoTicket /\ held' = TRUE
  /\ ticket' = [ticket EXCEPT ![t] = NoTicket]
  /\ st' = [st EXCEPT ![t] = "holding"]
  /\ awake' = awake \ {t}
  /\ UNCHANGED <<nextTicket, queue>>

\* Dropping the guard.
GuardDrop(t) ==
  /\ st[t] = "holding"
  /\ held' = FALSE
  /\ st' = [st EXCEPT ![t] = "idle"]
  /\ Handover(t, reservedFor)
  /\ UNCHANGED <<nextTicket, ticket>>

\* Bug: a cancelled waiter keeps its reservation to itself.
FutureDropStrands(t) ==
  /\ st[t] = "waiting"
  /\ reservedFor' = IF reservedFor = ticket[t] THEN NoTicket ELSE reservedFor
  /\ queue' = Without(queue, ticket[t])
  /\ awake' = awake \ {t}
  /\ ticket' = [ticket EXCEPT ![t] = NoTicket]
  /\ st' = [st EXCEPT ![t] = "idle"]
  /\ UNCHANGED <<held, nextTicket>>

\* Dropping a pending future: pass a reservation on, or leave the queue.
FutureDrop(t) ==
  /\ st[t] = "waiting"
  /\ IF reservedFor = ticket[t]
       THEN IF held THEN /\ reservedFor' = NoTicket
                         /\ awake' = awake \ {t} /\ UNCHANGED queue
                    ELSE Handover(t, NoTicket)
       ELSE /\ queue' = Without(queue, ticket[t])
            /\ awake' = awake \ {t} /\ UNCHANGED reservedFor
  /\ ticket' = [ticket EXCEPT ![t] = NoTicket]
  /\ st' = [st EXCEPT ![t] = "idle"]
  /\ UNCHANGED <<held, nextTicket>>

Init ==
  /\ held = FALSE /\ reservedFor = NoTicket /\ nextTicket = 0 /\ queue = <<>>
  /\ st = [t \in Tasks |-> "idle"]
  /\ ticket = [t \in Tasks |-> NoTicket]
  /\ awake = {}

Next == \E t \in Tasks :
  PollTake(t) \/ PollQueue(t) \/ PollClaim(t) \/ GuardDrop(t) \/ FutureDrop(t)

Spec == Init /\ [][Next]_vars

\* A woken task is polled, and every holder finishes its I/O and drops its
\* guard.  A task that was not woken need not be polled.
Fairness == \A t \in Tasks :
  WF_vars(t \in awake /\ PollClaim(t)) /\ WF_vars(GuardDrop(t))

FairSpec == Spec /\ Fairness
-----------------------------------------------------------------------------
(* Properties.                                                             *)

Tickets == 0 .. MaxTickets - 1

\* Every field keeps its type.
TypeOK ==
  /\ held \in BOOLEAN
  /\ reservedFor \in Tickets \cup {NoTicket}
  /\ nextTicket \in 0 .. MaxTickets
  /\ queue \in Seq(Tickets)
  /\ st \in [Tasks -> {"idle", "waiting", "holding"}]
  /\ ticket \in [Tasks -> Tickets \cup {NoTicket}]
  /\ awake \in SUBSET Tasks

\* Two guards never exist at once, through hand-over, barging and cancellation.
MutualExclusion ==
  \A t, u \in Tasks : st[t] = "holding" /\ st[u] = "holding" => t = u

InQueue(k) == \E i \in 1 .. Len(queue) : queue[i] = k

\* "A cancelled waiter must not strand the lock": a free lock with callers
\* behind it is reserved, always for a live waiter whose waker has fired, and
\* every other waiter still has its place in the queue.
NeverStranded ==
  /\ ~held /\ queue # <<>> => reservedFor # NoTicket
  /\ reservedFor # NoTicket =>
       \E t \in awake : st[t] = "waiting" /\ ticket[t] = reservedFor
  /\ \A t \in Tasks :
       st[t] = "waiting" => ticket[t] = reservedFor \/ InQueue(ticket[t])

\* The task a ticket belongs to.
Holder(k) == CHOOSE t \in Tasks : ticket[t] = k
TheOwner ==
  IF \E t \in Tasks : st[t] = "holding"
    THEN CHOOSE t \in Tasks : st[t] = "holding" ELSE Nobody
TheLine ==
  LET reserved == IF reservedFor = NoTicket THEN <<>> ELSE <<reservedFor>>
      tickets == reserved \o queue
  IN [i \in 1 .. Len(tickets) |-> Holder(tickets[i])]

\* The reservation followed by the queue is the line of the abstract mutex:
\* nobody barges, nobody is skipped, a cancelled caller leaves the others in
\* order.
Fifo == INSTANCE FifoMutex WITH owner <- TheOwner, line <- TheLine
IsFifoMutex == Fifo!Spec

\* A waiter that does not give up gets the lock: its wake-up is never lost.
WaiterServed == \A t \in Tasks : (st[t] = "waiting") ~> (st[t] # "waiting")
=============================================================================
