--------------------------- MODULE FairLockProofs ---------------------------
(***************************************************************************)
(* FairMutex is a mutual-exclusion lock that never strands a waiter, for   *)
(* every set of tasks and every number of tickets.                         *)
(***************************************************************************)
EXTENDS FairLock, TLAPS

\* A guard exists exactly while Inner::held is set, and only one does.
HeldByOne ==
  /\ held <=> \E t \in Tasks : st[t] = "holding"
  /\ MutualExclusion

\* Tickets are fresh, belong to waiting futures, and are never shared.
TicketsOwned ==
  /\ \A t \in Tasks : (ticket[t] # NoTicket) <=> (st[t] = "waiting")
  /\ \A t \in Tasks : ticket[t] < nextTicket
  /\ \A t, u \in Tasks : ticket[t] = ticket[u] /\ ticket[t] # NoTicket => t = u

\* Every queued ticket is that of a waiting future, queued once.
QueueLive ==
  /\ \A i \in 1 .. Len(queue) : \E t \in Tasks : ticket[t] = queue[i]
  /\ \A i, j \in 1 .. Len(queue) : queue[i] = queue[j] => i = j
  /\ \A i \in 1 .. Len(queue) : queue[i] # reservedFor

\* The reservation: only on a free lock, never missing when somebody queues.
Reservation ==
  /\ reservedFor # NoTicket => ~held
  /\ NeverStranded

IInv == TypeOK /\ HeldByOne /\ TicketsOwned /\ QueueLive /\ Reservation

-----------------------------------------------------------------------------
\* What retain() leaves of a duplicate-free queue: a sequence of the other
\* tickets, all of them, each once.
LEMMA WithoutFacts ==
  ASSUME NEW S, NEW q \in Seq(S), NEW k,
         \A i, j \in 1 .. Len(q) : q[i] = q[j] => i = j
  PROVE  /\ Without(q, k) \in Seq(S)
         /\ \A i \in 1 .. Len(Without(q, k)) :
              /\ Without(q, k)[i] # k
              /\ \E j \in 1 .. Len(q) : q[j] = Without(q, k)[i]
         /\ \A j \in 1 .. Len(q) : q[j] # k =>
              \E i \in 1 .. Len(Without(q, k)) : Without(q, k)[i] = q[j]
         /\ \A i, j \in 1 .. Len(Without(q, k)) :
              Without(q, k)[i] = Without(q, k)[j] => i = j
<1>1. CASE ~ \E p \in 1 .. Len(q) : q[p] = k
  <2>1. Without(q, k) = q  BY <1>1 DEF Without
  <2> QED  BY <2>1, <1>1
<1>2. CASE \E p \in 1 .. Len(q) : q[p] = k
  <2> DEFINE p == CHOOSE p \in 1 .. Len(q) : q[p] = k
             r == [i \in 1 .. Len(q) - 1 |-> IF i < p THEN q[i] ELSE q[i + 1]]
  <2>1. p \in 1 .. Len(q) /\ q[p] = k  BY <1>2
  <2>2. Without(q, k) = r  BY <1>2 DEF Without
  <2> HIDE DEF p
  <2>3. Len(q) \in Nat /\ Len(q) - 1 \in Nat  BY <2>1
  <2>4. r \in Seq(S) /\ Len(r) = Len(q) - 1  BY <2>1, <2>3
  <2>5. \A i \in 1 .. Len(r) : r[i] # k /\ \E j \in 1 .. Len(q) : q[j] = r[i]
    BY <2>1, <2>3, <2>4
  <2>6. \A j \in 1 .. Len(q) : q[j] # k => \E i \in 1 .. Len(r) : r[i] = q[j]
    <3> SUFFICES ASSUME NEW j \in 1 .. Len(q), q[j] # k
                 PROVE  \E i \in 1 .. Len(r) : r[i] = q[j]
      OBVIOUS
    <3>1. CASE j < p
      <4>1. j \in 1 .. Len(r) /\ r[j] = q[j]  BY <3>1, <2>1, <2>3, <2>4
      <4> QED  BY <4>1
    <3>2. CASE j > p
      <4>1. (j - 1) \in 1 .. Len(r) /\ r[j - 1] = q[j]
        BY <3>2, <2>1, <2>3, <2>4
      <4> QED  BY <4>1
    <3>3. j < p \/ j > p  BY <2>1, <2>3
    <3> QED  BY <3>1, <3>2, <3>3
  <2>7. \A i, j \in 1 .. Len(r) : r[i] = r[j] => i = j
    BY <2>1, <2>3, <2>4
  <2> HIDE DEF r
  <2> QED  BY <2>2, <2>4, <2>5, <2>6, <2>7
<1> QED  BY <1>1, <1>2
-----------------------------------------------------------------------------
\* A new FairMutex satisfies the invariant.
LEMMA InitIInv == Init => IInv
<1> SUFFICES ASSUME Init PROVE IInv  OBVIOUS
<1> USE FairLockAssumption DEF Init, NoTicket, Tickets
<1>1. TypeOK
  <2>1. held \in BOOLEAN /\ awake \in SUBSET Tasks  OBVIOUS
  <2>4. queue \in Seq(Tickets)  OBVIOUS
  <2>2. reservedFor \in Tickets \cup {NoTicket} /\ nextTicket \in 0 .. MaxTickets
    OBVIOUS
  <2>3. /\ st \in [Tasks -> {"idle", "waiting", "holding"}]
        /\ ticket \in [Tasks -> Tickets \cup {NoTicket}]
    OBVIOUS
  <2> QED  BY <2>1, <2>2, <2>3, <2>4 DEF TypeOK
<1>2. HeldByOne  BY DEF HeldByOne, MutualExclusion
<1>3. TicketsOwned  BY DEF TicketsOwned
<1>4. QueueLive  BY DEF QueueLive
<1>5. Reservation  BY DEF Reservation, NeverStranded, InQueue
<1> QED  BY <1>1, <1>2, <1>3, <1>4, <1>5 DEF IInv

\* A poll that finds the lock free and unreserved keeps the invariant.
LEMMA PollTakeIInv ==
  ASSUME IInv, NEW t \in Tasks, PollTake(t)
  PROVE  IInv'
<1> USE DEF PollTake, IInv, TypeOK
<1>1. TypeOK'  OBVIOUS
<1>2. HeldByOne'  BY DEF HeldByOne, MutualExclusion
<1>3. TicketsOwned'  BY DEF TicketsOwned
<1>4. QueueLive'  BY DEF QueueLive
<1>5. Reservation'  BY DEF Reservation, NeverStranded, InQueue
<1> QED  BY <1>1, <1>2, <1>3, <1>4, <1>5

\* A poll that must wait, and takes a ticket for it, keeps the invariant.
LEMMA PollQueueIInv ==
  ASSUME IInv, NEW t \in Tasks, PollQueue(t)
  PROVE  IInv'
<1> USE FairLockAssumption DEF PollQueue, IInv, TypeOK, Tickets, NoTicket
<1>1. /\ TypeOK'
      /\ Len(queue') = Len(queue) + 1
      /\ \A i \in 1 .. Len(queue) : queue'[i] = queue[i]
      /\ queue'[Len(queue) + 1] = nextTicket
  OBVIOUS
<1>2. /\ \A u \in Tasks \ {t} : ticket'[u] = ticket[u] /\ st'[u] = st[u]
      /\ ticket'[t] = nextTicket /\ st'[t] = "waiting"
      /\ nextTicket' = nextTicket + 1
  OBVIOUS
<1>3. HeldByOne'
  <2>1. \A u \in Tasks : st'[u] = "holding" <=> st[u] = "holding"  BY <1>2
  <2> QED  BY <2>1 DEF HeldByOne, MutualExclusion
<1>4. TicketsOwned'
  <2>1. \A u \in Tasks : (ticket'[u] # NoTicket) <=> (st'[u] = "waiting")
    BY <1>2 DEF TicketsOwned
  <2>2. \A u \in Tasks : ticket'[u] < nextTicket'  BY <1>2 DEF TicketsOwned
  <2>3. \A u, v \in Tasks :
          ticket'[u] = ticket'[v] /\ ticket'[u] # NoTicket => u = v
    BY <1>2 DEF TicketsOwned
  <2> QED  BY <2>1, <2>2, <2>3 DEF TicketsOwned
<1>5. QueueLive'
  <2>1. \A i \in 1 .. Len(queue) : queue[i] < nextTicket
    BY DEF QueueLive, TicketsOwned
  <2>2. \A i \in 1 .. Len(queue) : \E u \in Tasks : u # t /\ ticket[u] = queue[i]
    BY DEF QueueLive, TicketsOwned
  <2>3. reservedFor < nextTicket
    BY DEF TicketsOwned, Reservation, NeverStranded
  <2>4. \A i \in 1 .. Len(queue') : i \in 1 .. Len(queue) \/ i = Len(queue) + 1
    BY <1>1
  <2>5. \A i \in 1 .. Len(queue') : \E u \in Tasks : ticket'[u] = queue'[i]
    BY <1>1, <1>2, <2>2, <2>4
  <2>6. \A i, j \in 1 .. Len(queue') : queue'[i] = queue'[j] => i = j
    BY <1>1, <2>1, <2>4 DEF QueueLive
  <2>7. \A i \in 1 .. Len(queue') : queue'[i] # reservedFor'
    BY <1>1, <2>3, <2>4 DEF QueueLive
  <2> QED  BY <2>5, <2>6, <2>7 DEF QueueLive
<1>6. Reservation'
  <2>1. InQueue(ticket[t])'
    <3>1. Len(queue) + 1 \in 1 .. Len(queue')  BY <1>1
    <3> QED  BY <3>1, <1>1, <1>2 DEF InQueue
  <2>2. \A u \in Tasks \ {t} : InQueue(ticket[u]) => InQueue(ticket[u])'
    BY <1>1, <1>2 DEF InQueue
  <2>3. NeverStranded'
    <3>1. (~held /\ queue # <<>> => reservedFor # NoTicket)'
      BY DEF Reservation, NeverStranded
    <3>2. (reservedFor # NoTicket =>
             \E u \in awake : st[u] = "waiting" /\ ticket[u] = reservedFor)'
      BY <1>2 DEF Reservation, NeverStranded
    <3>3. (\A u \in Tasks :
             st[u] = "waiting" => ticket[u] = reservedFor \/ InQueue(ticket[u]))'
      BY <1>2, <2>1, <2>2 DEF Reservation, NeverStranded
    <3> QED  BY <3>1, <3>2, <3>3 DEF NeverStranded
  <2> QED  BY <2>3 DEF Reservation
<1> QED  BY <1>1, <1>3, <1>4, <1>5, <1>6

\* A poll that claims the reservation made for its ticket keeps the invariant.
LEMMA PollClaimIInv ==
  ASSUME IInv, NEW t \in Tasks, PollClaim(t)
  PROVE  IInv'
<1> USE DEF PollClaim, IInv, TypeOK, NoTicket
<1>1. TypeOK'  OBVIOUS
<1>2. /\ \A u \in Tasks \ {t} : ticket'[u] = ticket[u] /\ st'[u] = st[u]
      /\ ticket'[t] = NoTicket /\ st'[t] = "holding"
      /\ ticket[t] # NoTicket
  BY DEF TicketsOwned
<1>3. HeldByOne'
  <2>1. ~held  BY <1>2 DEF Reservation
  <2>2. \A u \in Tasks : st'[u] = "holding" <=> u = t
    BY <1>2, <2>1 DEF HeldByOne
  <2> QED  BY <2>2 DEF HeldByOne, MutualExclusion
<1>4. TicketsOwned'
  <2>1. \A u \in Tasks : (ticket'[u] # NoTicket) <=> (st'[u] = "waiting")
    BY <1>2 DEF TicketsOwned
  <2>2. \A u \in Tasks : ticket'[u] < nextTicket'  BY <1>2 DEF TicketsOwned
  <2>3. \A u, v \in Tasks :
          ticket'[u] = ticket'[v] /\ ticket'[u] # NoTicket => u = v
    BY <1>2 DEF TicketsOwned
  <2> QED  BY <2>1, <2>2, <2>3 DEF TicketsOwned
<1>5. QueueLive'
  BY <1>1, <1>2, FairLockAssumption DEF QueueLive, TicketsOwned, Tickets
<1>6. Reservation'
  <2>1. NeverStranded'
    BY <1>2 DEF Reservation, NeverStranded, InQueue, TicketsOwned
  <2> QED  BY <2>1 DEF Reservation
<1> QED  BY <1>1, <1>3, <1>4, <1>5, <1>6

\* FairMutex::release, from a state in which `t' holds the lock or the
\* reservation and no longer counts: the next waiter, if any, is reserved.
LEMMA HandoverFacts ==
  ASSUME IInv, NEW t \in Tasks, Handover(t, NoTicket),
         \A i \in 1 .. Len(queue) : queue[i] # ticket[t]
  PROVE  /\ reservedFor' \in Tickets \cup {NoTicket}
         /\ queue' \in Seq(Tickets) /\ awake' \in SUBSET Tasks
         /\ queue' # <<>> => reservedFor' # NoTicket
         /\ reservedFor' # NoTicket =>
              \E u \in awake' : u # t /\ ticket[u] = reservedFor'
         /\ \A i \in 1 .. Len(queue') : \E j \in 1 .. Len(queue) :
              queue'[i] = queue[j]
         /\ \A i, j \in 1 .. Len(queue') : queue'[i] = queue'[j] => i = j
         /\ \A i \in 1 .. Len(queue') : queue'[i] # reservedFor'
         /\ \A i \in 1 .. Len(queue) :
              queue[i] = reservedFor' \/ \E j \in 1 .. Len(queue') : queue'[j] = queue[i]
<1> USE FairLockAssumption DEF IInv, TypeOK, Tickets, NoTicket
<1>1. CASE queue = <<>>
  BY <1>1 DEF Handover
<1>2. CASE queue # <<>>
  <2>1. /\ reservedFor' = Head(queue) /\ queue' = Tail(queue)
        /\ awake' = (awake \ {t}) \cup WakerOf(Head(queue))
    BY <1>2 DEF Handover
  <2>2. /\ Head(queue) = queue[1] /\ Head(queue) \in Tickets
        /\ Len(queue') = Len(queue) - 1 /\ 1 \in 1 .. Len(queue)
        /\ queue' \in Seq(Tickets)
        /\ \A i \in 1 .. Len(queue') : queue'[i] = queue[i + 1]
    BY <1>2, <2>1
  <2>3. awake' \in SUBSET Tasks  BY <2>1 DEF WakerOf
  <2>4. \E u \in awake' : u # t /\ ticket[u] = reservedFor'
    <3>1. PICK u \in Tasks : ticket[u] = queue[1]
      BY <2>2 DEF QueueLive
    <3>2. u # t  BY <3>1, <2>2
    <3>3. u \in awake'  BY <3>1, <2>1, <2>2 DEF WakerOf
    <3> QED  BY <3>1, <3>2, <3>3, <2>1, <2>2
  <2>5. \A i \in 1 .. Len(queue') : i + 1 \in 1 .. Len(queue)  BY <2>2
  <2>6. ASSUME NEW i \in 1 .. Len(queue'), NEW j \in 1 .. Len(queue'),
               queue'[i] = queue'[j]
        PROVE  i = j
    <3>1. queue[i + 1] = queue[j + 1]  BY <2>2, <2>6
    <3>2. i + 1 = j + 1  BY <3>1, <2>5 DEF QueueLive
    <3> QED  BY <3>2, <2>2
  <2>7. \A i \in 1 .. Len(queue') : queue'[i] # reservedFor'
    BY <2>1, <2>2, <2>5 DEF QueueLive
  <2>8. ASSUME NEW i \in 1 .. Len(queue)
        PROVE  queue[i] = reservedFor' \/ \E j \in 1 .. Len(queue') : queue'[j] = queue[i]
    <3>1. CASE i = 1  BY <3>1, <2>1, <2>2
    <3>2. CASE i # 1
      <4>1. i - 1 \in 1 .. Len(queue') /\ queue'[i - 1] = queue[i]
        BY <3>2, <2>2
      <4> QED  BY <4>1
    <3> QED  BY <3>1, <3>2
  <2> QED  BY <2>1, <2>2, <2>3, <2>4, <2>5, <2>6, <2>7, <2>8
<1> QED  BY <1>1, <1>2

\* Dropping a guard, which hands the lock to the head of the queue, keeps it.
LEMMA GuardDropIInv ==
  ASSUME IInv, NEW t \in Tasks, GuardDrop(t)
  PROVE  IInv'
<1> USE DEF GuardDrop, IInv
<1>1. /\ \A u \in Tasks \ {t} : st'[u] = st[u]
      /\ st'[t] = "idle" /\ st \in [Tasks -> {"idle", "waiting", "holding"}]
      /\ st' \in [Tasks -> {"idle", "waiting", "holding"}]
      /\ ticket' = ticket /\ nextTicket' = nextTicket
  BY DEF TypeOK
<1>2. held /\ reservedFor = NoTicket /\ ticket[t] = NoTicket
  BY DEF HeldByOne, Reservation, TicketsOwned
<1>3. Handover(t, NoTicket)  BY <1>2
<1>4. \A i \in 1 .. Len(queue) : queue[i] # ticket[t]
  <2>1. queue \in Seq(Tickets)  BY DEF TypeOK
  <2>2. NoTicket \notin Tickets
    BY FairLockAssumption DEF Tickets, NoTicket
  <2>3. \A i \in 1 .. Len(queue) : queue[i] \in Tickets  BY <2>1
  <2> QED  BY <1>2, <2>2, <2>3
<1> HIDE DEF GuardDrop, IInv
<1> DEFINE Passed ==
      /\ reservedFor' \in Tickets \cup {NoTicket}
      /\ queue' \in Seq(Tickets) /\ awake' \in SUBSET Tasks
      /\ queue' # <<>> => reservedFor' # NoTicket
      /\ reservedFor' # NoTicket =>
           \E u \in awake' : u # t /\ ticket[u] = reservedFor'
      /\ \A i \in 1 .. Len(queue') : \E j \in 1 .. Len(queue) : queue'[i] = queue[j]
      /\ \A i, j \in 1 .. Len(queue') : queue'[i] = queue'[j] => i = j
      /\ \A i \in 1 .. Len(queue') : queue'[i] # reservedFor'
      /\ \A i \in 1 .. Len(queue) :
           queue[i] = reservedFor' \/ \E j \in 1 .. Len(queue') : queue'[j] = queue[i]
<1>5. Passed  BY <1>3, <1>4, HandoverFacts
<1> USE DEF GuardDrop, IInv
<1>6. TypeOK'  BY <1>1, <1>5 DEF TypeOK
<1>7. HeldByOne'
  <2>1. \A u \in Tasks : st'[u] # "holding"
    BY <1>1 DEF HeldByOne, MutualExclusion
  <2> QED  BY <2>1 DEF HeldByOne, MutualExclusion
<1>8. TicketsOwned'  BY <1>1 DEF TicketsOwned
<1>9. QueueLive'  BY <1>1, <1>5 DEF QueueLive
<1>10. Reservation'
  <2>1. (reservedFor # NoTicket =>
           \E u \in awake : st[u] = "waiting" /\ ticket[u] = reservedFor)'
    BY <1>1, <1>5, <1>8 DEF TicketsOwned
  <2>2. \A u \in Tasks : st'[u] = "waiting" => InQueue(ticket[u])
    BY <1>1, <1>2 DEF Reservation, NeverStranded, TicketsOwned
  <2>3. (\A u \in Tasks :
           st[u] = "waiting" => ticket[u] = reservedFor \/ InQueue(ticket[u]))'
    BY <1>1, <1>5, <2>2 DEF InQueue
  <2> QED  BY <1>5, <2>1, <2>3 DEF Reservation, NeverStranded
<1> QED  BY <1>6, <1>7, <1>8, <1>9, <1>10

\* Dropping a waiting future, queued or reserved for, keeps the invariant.
LEMMA FutureDropIInv ==
  ASSUME IInv, NEW t \in Tasks, FutureDrop(t)
  PROVE  IInv'
<1> USE DEF FutureDrop, IInv
<1>1. /\ \A u \in Tasks \ {t} : ticket'[u] = ticket[u] /\ st'[u] = st[u]
      /\ st'[t] = "idle" /\ ticket'[t] = NoTicket
      /\ st' \in [Tasks -> {"idle", "waiting", "holding"}]
      /\ ticket' \in [Tasks -> Tickets \cup {NoTicket}]
      /\ held' = held /\ nextTicket' = nextTicket
  BY DEF TypeOK
<1>2. ticket[t] # NoTicket  BY DEF TicketsOwned
<1>3. HeldByOne'
  <2>1. \A u \in Tasks : st'[u] = "holding" <=> st[u] = "holding"  BY <1>1
  <2> QED  BY <1>1, <2>1 DEF HeldByOne, MutualExclusion
<1>4. TicketsOwned'
  <2>1. \A u \in Tasks : (ticket'[u] # NoTicket) <=> (st'[u] = "waiting")
    BY <1>1 DEF TicketsOwned
  <2>2. \A u \in Tasks : ticket'[u] < nextTicket'
    BY <1>1 DEF TicketsOwned, TypeOK, NoTicket
  <2>3. \A u, v \in Tasks :
          ticket'[u] = ticket'[v] /\ ticket'[u] # NoTicket => u = v
    BY <1>1 DEF TicketsOwned
  <2> QED  BY <2>1, <2>2, <2>3 DEF TicketsOwned
<1>5. CASE reservedFor = ticket[t]
  <2>1. ~held  BY <1>2, <1>5 DEF Reservation
  <2>2. Handover(t, NoTicket)  BY <1>5, <2>1
  <2>3. \A i \in 1 .. Len(queue) : queue[i] # ticket[t]
    BY <1>5 DEF QueueLive
  <2> DEFINE Passed ==
        /\ reservedFor' \in Tickets \cup {NoTicket}
        /\ queue' \in Seq(Tickets) /\ awake' \in SUBSET Tasks
        /\ queue' # <<>> => reservedFor' # NoTicket
        /\ reservedFor' # NoTicket =>
             \E u \in awake' : u # t /\ ticket[u] = reservedFor'
        /\ \A i \in 1 .. Len(queue') : \E j \in 1 .. Len(queue) : queue'[i] = queue[j]
        /\ \A i, j \in 1 .. Len(queue') : queue'[i] = queue'[j] => i = j
        /\ \A i \in 1 .. Len(queue') : queue'[i] # reservedFor'
        /\ \A i \in 1 .. Len(queue) :
             queue[i] = reservedFor' \/ \E j \in 1 .. Len(queue') : queue'[j] = queue[i]
  <2> HIDE DEF FutureDrop, IInv
  <2>4. Passed  BY <2>2, <2>3, HandoverFacts
  <2> USE DEF FutureDrop, IInv
  <2>5. TypeOK'  BY <1>1, <2>4 DEF TypeOK
  <2>6. QueueLive'
    <3>1. \A i \in 1 .. Len(queue') : \E u \in Tasks : ticket'[u] = queue'[i]
      <4>1. \A i \in 1 .. Len(queue) : \E u \in Tasks \ {t} : ticket[u] = queue[i]
        BY <2>3 DEF QueueLive
      <4> QED  BY <4>1, <1>1, <2>4
    <3> QED  BY <3>1, <2>4 DEF QueueLive
  <2>7. NeverStranded'
    <3>1. (reservedFor # NoTicket =>
             \E u \in awake : st[u] = "waiting" /\ ticket[u] = reservedFor)'
      BY <1>1, <1>4, <2>4 DEF TicketsOwned
    <3>2. \A u \in Tasks \ {t} : st[u] = "waiting" => InQueue(ticket[u])
      BY <1>2, <1>5 DEF Reservation, NeverStranded, TicketsOwned
    <3>3. (\A u \in Tasks :
             st[u] = "waiting" => ticket[u] = reservedFor \/ InQueue(ticket[u]))'
      BY <1>1, <2>4, <3>2 DEF InQueue
    <3> QED  BY <2>4, <3>1, <3>3 DEF NeverStranded
  <2>8. Reservation'  BY <2>1, <2>7, <1>1 DEF Reservation
  <2> QED  BY <2>5, <1>3, <1>4, <2>6, <2>8
<1>6. CASE reservedFor # ticket[t]
  <2>1. /\ queue' = Without(queue, ticket[t]) /\ awake' = awake \ {t}
        /\ reservedFor' = reservedFor
    BY <1>6
  <2>2. \A i, j \in 1 .. Len(queue) : queue[i] = queue[j] => i = j
    BY DEF QueueLive
  <2> DEFINE Left ==
        /\ queue' \in Seq(Tickets)
        /\ \A i \in 1 .. Len(queue') :
             /\ queue'[i] # ticket[t]
             /\ \E j \in 1 .. Len(queue) : queue[j] = queue'[i]
        /\ \A j \in 1 .. Len(queue) : queue[j] # ticket[t] =>
             \E i \in 1 .. Len(queue') : queue'[i] = queue[j]
        /\ \A i, j \in 1 .. Len(queue') : queue'[i] = queue'[j] => i = j
  <2>3. Left
    <3>1. queue \in Seq(Tickets)  BY DEF TypeOK
    <3> HIDE DEF FutureDrop, IInv
    <3> QED  BY <2>1, <2>2, <3>1, WithoutFacts
  <2>4. TypeOK'  BY <1>1, <2>1, <2>3 DEF TypeOK
  <2>5. QueueLive'
    <3>1. \A i \in 1 .. Len(queue') : \E u \in Tasks : ticket'[u] = queue'[i]
      BY <1>1, <2>3 DEF QueueLive
    <3>2. \A i \in 1 .. Len(queue') : queue'[i] # reservedFor'
      BY <2>1, <2>3 DEF QueueLive
    <3> QED  BY <3>1, <3>2, <2>3 DEF QueueLive
  <2>6. NeverStranded'
    <3>1. (~held /\ queue # <<>> => reservedFor # NoTicket)'
      <4>1. SUFFICES ASSUME ~held, queue' # <<>>, reservedFor = NoTicket
                     PROVE  FALSE
        BY <1>1, <2>1
      <4>2. queue = <<>>  BY <4>1 DEF Reservation, NeverStranded
      <4>3. 1 \in 1 .. Len(queue')  BY <2>3, <4>1
      <4> QED  BY <2>3, <4>2, <4>3
    <3>2. (reservedFor # NoTicket =>
             \E u \in awake : st[u] = "waiting" /\ ticket[u] = reservedFor)'
      BY <1>1, <1>6, <2>1 DEF Reservation, NeverStranded, TypeOK
    <3>3. (\A u \in Tasks :
             st[u] = "waiting" => ticket[u] = reservedFor \/ InQueue(ticket[u]))'
      <4>1. \A u \in Tasks \ {t} : ticket[u] # ticket[t]
        BY <1>2 DEF TicketsOwned
      <4> QED  BY <4>1, <1>1, <2>1, <2>3 DEF Reservation, NeverStranded, InQueue
    <3> QED  BY <3>1, <3>2, <3>3 DEF NeverStranded
  <2>7. Reservation'  BY <1>1, <2>1, <2>6 DEF Reservation
  <2> QED  BY <2>4, <1>3, <1>4, <2>5, <2>7
<1> QED  BY <1>5, <1>6
-----------------------------------------------------------------------------
\* Every step keeps the invariant.
LEMMA NextIInv == IInv /\ [Next]_vars => IInv'
<1> SUFFICES ASSUME IInv, [Next]_vars PROVE IInv'  OBVIOUS
<1>1. ASSUME NEW t \in Tasks, PollTake(t) PROVE IInv'  BY <1>1, PollTakeIInv
<1>2. ASSUME NEW t \in Tasks, PollQueue(t) PROVE IInv'  BY <1>2, PollQueueIInv
<1>3. ASSUME NEW t \in Tasks, PollClaim(t) PROVE IInv'  BY <1>3, PollClaimIInv
<1>4. ASSUME NEW t \in Tasks, GuardDrop(t) PROVE IInv'  BY <1>4, GuardDropIInv
<1>5. ASSUME NEW t \in Tasks, FutureDrop(t) PROVE IInv'
  BY <1>5, FutureDropIInv
<1>6. CASE UNCHANGED vars
  BY <1>6 DEF vars, IInv, TypeOK, HeldByOne, MutualExclusion, TicketsOwned,
     QueueLive, Reservation, NeverStranded, InQueue
<1> QED  BY <1>1, <1>2, <1>3, <1>4, <1>5, <1>6 DEF Next

\* The inductive invariant holds in every reachable state.
THEOREM FairLockInvariant == Spec => []IInv
BY InitIInv, NextIInv, PTL DEF Spec

\* FairMutex gives out one guard at a time, whatever the callers, their
\* cancellations and the order in which the executor polls them.
THEOREM FairLockExcludes == Spec => []MutualExclusion
<1>1. IInv => MutualExclusion  BY DEF IInv, HeldByOne
<1> QED  BY <1>1, FairLockInvariant, PTL

\* A free lock with waiters is always reserved for a live, woken one and no
\* waiter loses its place.
THEOREM FairLockNeverStrands == Spec => []NeverStranded
<1>1. IInv => NeverStranded  BY DEF IInv, Reservation
<1> QED  BY <1>1, FairLockInvariant, PTL

\* Every field keeps its type.
THEOREM FairLockTypeOK == Spec => []TypeOK
<1>1. IInv => TypeOK  BY DEF IInv
<1> QED  BY <1>1, FairLockInvariant, PTL
-----------------------------------------------------------------------------
(* FairMutex implements the FIFO mutex: the reservation and then the queue  *)
(* are its line.                                                            *)

\* The tickets in the order in which they will be served.
InTurn ==
  (IF reservedFor = NoTicket THEN <<>> ELSE <<reservedFor>>) \o queue

\* The waiting line: the reserved ticket, if any, and then the queue.
LEMMA InTurnFacts ==
  ASSUME IInv
  PROVE  /\ InTurn \in Seq(Tickets)
         /\ reservedFor = NoTicket => InTurn = queue
         /\ reservedFor # NoTicket =>
              /\ Len(InTurn) = Len(queue) + 1
              /\ InTurn[1] = reservedFor
              /\ \A i \in 1 .. Len(queue) : InTurn[i + 1] = queue[i]
              /\ \A i \in 2 .. Len(InTurn) : InTurn[i] = queue[i - 1]
<1> USE DEF IInv, TypeOK
<1>1. CASE reservedFor = NoTicket
  <2>1. InTurn = queue  BY <1>1 DEF InTurn
  <2> QED  BY <1>1, <2>1
<1>2. CASE reservedFor # NoTicket
  <2>1. reservedFor \in Tickets /\ InTurn = <<reservedFor>> \o queue
    BY <1>2 DEF InTurn
  <2> QED  BY <1>2, <2>1
<1> QED  BY <1>1, <1>2

\* Every ticket in turn is that of exactly one waiting future.
LEMMA InTurnOwned ==
  ASSUME IInv
  PROVE  /\ \A i \in 1 .. Len(InTurn) :
              /\ InTurn[i] \in Tickets
              /\ \E t \in Tasks : ticket[t] = InTurn[i]
         /\ \A t \in Tasks : st[t] = "waiting" =>
              \E i \in 1 .. Len(InTurn) : InTurn[i] = ticket[t]
<1> USE DEF IInv
<1>1. ASSUME NEW i \in 1 .. Len(InTurn)
      PROVE  InTurn[i] \in Tickets /\ \E t \in Tasks : ticket[t] = InTurn[i]
  <2>1. InTurn[i] \in Tickets  BY InTurnFacts
  <2>2. CASE reservedFor = NoTicket
    BY <2>1, <2>2, InTurnFacts DEF QueueLive
  <2>3. CASE reservedFor # NoTicket /\ i = 1
    BY <2>1, <2>3, InTurnFacts DEF Reservation, NeverStranded, TypeOK
  <2>4. CASE reservedFor # NoTicket /\ i # 1
    <3>1. i - 1 \in 1 .. Len(queue) /\ InTurn[i] = queue[i - 1]
      BY <2>4, InTurnFacts DEF TypeOK
    <3> QED  BY <2>1, <3>1 DEF QueueLive
  <2> QED  BY <2>2, <2>3, <2>4
<1>2. ASSUME NEW t \in Tasks, st[t] = "waiting"
      PROVE  \E i \in 1 .. Len(InTurn) : InTurn[i] = ticket[t]
  <2>1. ticket[t] # NoTicket  BY <1>2 DEF TicketsOwned
  <2>2. CASE ticket[t] = reservedFor
    <3>1. 1 \in 1 .. Len(InTurn)  BY <2>1, <2>2, InTurnFacts DEF TypeOK
    <3> QED  BY <2>1, <2>2, <3>1, InTurnFacts
  <2>3. CASE ticket[t] # reservedFor
    <3>1. PICK j \in 1 .. Len(queue) : queue[j] = ticket[t]
      BY <1>2, <2>3 DEF Reservation, NeverStranded, InQueue
    <3>2. CASE reservedFor = NoTicket  BY <3>1, <3>2, InTurnFacts
    <3>3. CASE reservedFor # NoTicket
      <4>1. j + 1 \in 1 .. Len(InTurn) /\ InTurn[j + 1] = ticket[t]
        BY <3>1, <3>3, InTurnFacts DEF TypeOK
      <4> QED  BY <4>1
    <3> QED  BY <3>2, <3>3
  <2> QED  BY <2>2, <2>3
<1> QED  BY <1>1, <1>2

\* A ticket determines the task that drew it.
LEMMA HolderFact ==
  ASSUME IInv, NEW t \in Tasks, ticket[t] # NoTicket
  PROVE  Holder(ticket[t]) = t
<1> DEFINE k == ticket[t]
<1>1. \A u \in Tasks : ticket[u] = k => u = t  BY DEF IInv, TicketsOwned
<1>2. \E u \in Tasks : ticket[u] = k  OBVIOUS
<1>3. Holder(k) \in Tasks /\ ticket[Holder(k)] = k  BY <1>2 DEF Holder
<1> QED  BY <1>1, <1>3

\* The line is the tickets in turn, each replaced by its future's task.
LEMMA TheLineFacts ==
  ASSUME IInv
  PROVE  /\ TheLine \in Seq(Tasks) /\ Len(TheLine) = Len(InTurn)
         /\ \A i \in 1 .. Len(InTurn) :
              /\ TheLine[i] \in Tasks
              /\ ticket[TheLine[i]] = InTurn[i]
              /\ \A t \in Tasks : ticket[t] = InTurn[i] => TheLine[i] = t
<1>1. TheLine = [i \in 1 .. Len(InTurn) |-> Holder(InTurn[i])]
  BY DEF TheLine, InTurn
<1>2. InTurn \in Seq(Tickets) /\ Len(InTurn) \in Nat  BY InTurnFacts
<1>3. ASSUME NEW i \in 1 .. Len(InTurn)
      PROVE  /\ Holder(InTurn[i]) \in Tasks /\ ticket[Holder(InTurn[i])] = InTurn[i]
             /\ \A t \in Tasks : ticket[t] = InTurn[i] => Holder(InTurn[i]) = t
  <2>1. PICK t \in Tasks : ticket[t] = InTurn[i]  BY InTurnOwned
  <2>2. InTurn[i] # NoTicket
    BY InTurnOwned, FairLockAssumption DEF Tickets, NoTicket
  <2>3. Holder(ticket[t]) = t  BY <2>1, <2>2, HolderFact
  <2>4. \A u \in Tasks : ticket[u] = ticket[t] => u = t
    BY <2>1, <2>2 DEF IInv, TicketsOwned
  <2> QED  BY <2>1, <2>3, <2>4
<1>4. TheLine \in Seq(Tasks) /\ Len(TheLine) = Len(InTurn)  BY <1>1, <1>2, <1>3
<1> QED  BY <1>1, <1>3, <1>4

\* Two lines with the same tickets for the same futures are equal.
LEMMA SameLine ==
  ASSUME NEW q \in Seq(Tasks), NEW r \in Seq(Tasks), Len(q) = Len(r),
         \A i \in 1 .. Len(q) : q[i] = r[i]
  PROVE  q = r
OBVIOUS

\* The abstract owner is the task with the guard, and nobody when the lock is free.
LEMMA TheOwnerFacts ==
  ASSUME IInv
  PROVE  /\ ~held => TheOwner = Nobody
         /\ \A t \in Tasks : st[t] = "holding" => TheOwner = t
         /\ held => TheOwner \in Tasks /\ st[TheOwner] = "holding"
<1>1. ~held => TheOwner = Nobody  BY DEF IInv, HeldByOne, TheOwner
<1>2. held => TheOwner \in Tasks /\ st[TheOwner] = "holding"
  BY DEF IInv, HeldByOne, TheOwner
<1>3. ASSUME NEW t \in Tasks, st[t] = "holding" PROVE TheOwner = t
  <2>1. held  BY <1>3 DEF IInv, HeldByOne
  <2> QED  BY <1>2, <1>3, <2>1 DEF IInv, HeldByOne, MutualExclusion
<1> QED  BY <1>1, <1>2, <1>3

\* What the mapping makes of a state of the invariant, named so that it can be
\* used of the state after a step too.
Mapped ==
  /\ InTurn \in Seq(Tickets) /\ TheLine \in Seq(Tasks)
  /\ Len(TheLine) = Len(InTurn)
  /\ \A i \in 1 .. Len(InTurn) :
       /\ TheLine[i] \in Tasks
       /\ ticket[TheLine[i]] = InTurn[i]
       /\ \A t \in Tasks : ticket[t] = InTurn[i] => TheLine[i] = t
  /\ reservedFor = NoTicket => InTurn = queue
  /\ reservedFor # NoTicket =>
       /\ Len(InTurn) = Len(queue) + 1
       /\ InTurn[1] = reservedFor
       /\ \A i \in 2 .. Len(InTurn) : InTurn[i] = queue[i - 1]
  /\ ~held => TheOwner = Nobody
  /\ \A t \in Tasks : st[t] = "holding" => TheOwner = t

\* Under the invariant the mapping is what the refinement steps assume of it.
LEMMA MappedNow == IInv => Mapped
BY InTurnFacts, TheLineFacts, TheOwnerFacts DEF Mapped

\* The same in the next state.
LEMMA MappedNext == IInv' => Mapped'
BY MappedNow, PTL

\* A new FairMutex maps to a new FIFO mutex.
LEMMA InitMaps == Init => Fifo!Init
<1> SUFFICES ASSUME Init PROVE TheOwner = Nobody /\ TheLine = <<>>
  BY DEF Fifo!Init
<1>1. IInv  BY InitIInv
<1>2. TheLine \in Seq(Tasks) /\ Len(TheLine) = 0
  BY <1>1, MappedNow DEF Mapped, Init
<1>3. TheOwner = Nobody  BY <1>1, MappedNow DEF Mapped, Init
<1> QED  BY <1>2, <1>3

\* A first poll that finds the lock free takes it.
LEMMA PollTakeMaps ==
  ASSUME IInv, IInv', NEW t \in Tasks, PollTake(t)
  PROVE  Fifo!TakeFree(t)
<1> USE MappedNow, MappedNext DEF Mapped, PollTake
<1>1. TheLine = <<>> /\ TheLine' = <<>>
  <2>1. InTurn = <<>> /\ InTurn' = <<>>  OBVIOUS
  <2>2. /\ TheLine \in Seq(Tasks) /\ Len(TheLine) = Len(InTurn)
        /\ TheLine' \in Seq(Tasks) /\ Len(TheLine') = Len(InTurn')
    OBVIOUS
  <2> QED  BY <2>1, <2>2
<1>2. TheOwner = Nobody  OBVIOUS
<1>3. TheOwner' = t  BY DEF IInv, TypeOK
<1> QED  BY <1>1, <1>2, <1>3 DEF Fifo!TakeFree

\* A first poll that does not joins the end of the line.
LEMMA PollQueueMaps ==
  ASSUME IInv, IInv', NEW t \in Tasks, PollQueue(t)
  PROVE  Fifo!Join(t)
<1> USE MappedNow, MappedNext DEF Mapped, PollQueue
<1>1. /\ ticket' = [ticket EXCEPT ![t] = nextTicket]
      /\ ticket \in [Tasks -> Tickets \cup {NoTicket}]
      /\ ticket[t] = NoTicket /\ queue \in Seq(Tickets)
      /\ reservedFor' = reservedFor /\ queue' = Append(queue, nextTicket)
      /\ \A u \in Tasks \ {t} : ticket'[u] = ticket[u]
      /\ ticket'[t] = nextTicket
      /\ NoTicket \notin Tickets
  BY FairLockAssumption DEF IInv, TypeOK, TicketsOwned, Tickets, NoTicket
<1>2. /\ Len(InTurn') = Len(InTurn) + 1
      /\ \A i \in 1 .. Len(InTurn) : InTurn'[i] = InTurn[i]
      /\ InTurn'[Len(InTurn) + 1] = nextTicket
  <2>1. CASE reservedFor = NoTicket
    <3>1. InTurn = queue /\ InTurn' = Append(queue, nextTicket)  BY <2>1, <1>1
    <3> QED  BY <3>1, <1>1
  <2>2. CASE reservedFor # NoTicket
    <3>1. /\ Len(InTurn) = Len(queue) + 1 /\ Len(InTurn') = Len(queue') + 1
          /\ InTurn[1] = reservedFor /\ InTurn'[1] = reservedFor
          /\ \A i \in 2 .. Len(InTurn) : InTurn[i] = queue[i - 1]
          /\ \A i \in 2 .. Len(InTurn') : InTurn'[i] = queue'[i - 1]
      BY <2>2, <1>1
    <3>2. /\ Len(queue') = Len(queue) + 1 /\ queue'[Len(queue) + 1] = nextTicket
          /\ \A i \in 1 .. Len(queue) : queue'[i] = queue[i]
      BY <1>1
    <3>3. Len(queue) \in Nat  BY <1>1
    <3>4. ASSUME NEW i \in 1 .. Len(InTurn) PROVE InTurn'[i] = InTurn[i]
      <4>1. CASE i = 1  BY <3>1, <4>1
      <4>2. CASE i # 1
        <5>1. i \in 2 .. Len(InTurn) /\ i \in 2 .. Len(InTurn')
              /\ i - 1 \in 1 .. Len(queue)
          BY <4>2, <3>1, <3>2, <3>3
        <5> HIDE DEF PollQueue, Mapped
        <5> QED  BY <5>1, <3>1, <3>2
      <4> QED  BY <4>1, <4>2
    <3>5. InTurn'[Len(InTurn) + 1] = nextTicket
      <4>1. Len(InTurn) + 1 \in 2 .. Len(InTurn')  BY <3>1, <3>2, <3>3
      <4>2. InTurn'[Len(InTurn) + 1] = queue'[Len(InTurn) + 1 - 1]
        BY <4>1, <3>1
      <4> QED  BY <4>2, <3>1, <3>2, <3>3
    <3> QED  BY <3>1, <3>2, <3>3, <3>4, <3>5
  <2> QED  BY <2>1, <2>2
<1>3. \A i \in 1 .. Len(InTurn) : TheLine[i] # t /\ TheLine'[i] = TheLine[i]
  <2> SUFFICES ASSUME NEW i \in 1 .. Len(InTurn)
               PROVE  TheLine[i] # t /\ TheLine'[i] = TheLine[i]
    OBVIOUS
  <2>1. InTurn[i] \in Tickets /\ ticket[TheLine[i]] = InTurn[i]  OBVIOUS
  <2>2. TheLine[i] # t  BY <2>1, <1>1
  <2>3. ticket'[TheLine[i]] = InTurn'[i] /\ i \in 1 .. Len(InTurn')
    BY <2>1, <2>2, <1>1, <1>2
  <2> QED  BY <2>2, <2>3
<1>4. TheLine'[Len(InTurn) + 1] = t  BY <1>1, <1>2
<1>5. TheLine' = Append(TheLine, t)
  <2> HIDE DEF PollQueue
  <2>1. Append(TheLine, t) \in Seq(Tasks) /\ Len(Append(TheLine, t)) = Len(TheLine')
    BY <1>2
  <2>2. \A i \in 1 .. Len(TheLine') : TheLine'[i] = Append(TheLine, t)[i]
    BY <1>2, <1>3, <1>4
  <2> QED  BY <2>1, <2>2, SameLine
<1>6. TheOwner' = TheOwner /\ TheOwner # t
  <2>1. CASE held
    <3>1. TheOwner \in Tasks /\ st[TheOwner] = "holding"
      BY <2>1, TheOwnerFacts
    <3>2. st'[TheOwner] = "holding" /\ TheOwner # t
      BY <3>1 DEF IInv, TypeOK
    <3> QED  BY <3>1, <3>2
  <2>2. CASE ~held
    BY <2>2, FairLockAssumption
  <2> QED  BY <2>1, <2>2
<1>7. TheOwner # Nobody \/ TheLine # <<>>
  <2>1. CASE held
    <3>1. TheOwner \in Tasks  BY <2>1, TheOwnerFacts
    <3> QED  BY <3>1, FairLockAssumption
  <2>2. CASE reservedFor # NoTicket \/ queue # <<>>
    <3>1. Len(InTurn) # 0  BY <2>2, <1>1
    <3> QED  BY <3>1
  <2> QED  BY <2>1, <2>2
<1> QED  BY <1>3, <1>5, <1>6, <1>7 DEF Fifo!Join, Fifo!InLine

\* A poll that claims the reservation takes the turn of the first in line.
LEMMA PollClaimMaps ==
  ASSUME IInv, IInv', NEW t \in Tasks, PollClaim(t)
  PROVE  Fifo!TakeTurn(t)
<1> USE MappedNow, MappedNext DEF Mapped, PollClaim
<1>1. /\ ticket[t] # NoTicket /\ queue \in Seq(Tickets) /\ ~held
      /\ \A u \in Tasks \ {t} : ticket'[u] = ticket[u]
      /\ queue' = queue /\ st'[t] = "holding"
  BY DEF IInv, TypeOK, TicketsOwned, Reservation
<1>2. Len(InTurn) = Len(queue) + 1 /\ InTurn[1] = ticket[t] /\ InTurn' = queue
  BY <1>1
<1>3. TheLine # <<>> /\ Head(TheLine) = t
  <2>1. TheLine[1] = t  BY <1>1, <1>2
  <2> QED  BY <1>1, <1>2, <2>1
<1>4. TheLine' = Tail(TheLine)
  <2>1. /\ Tail(TheLine) \in Seq(Tasks) /\ Len(Tail(TheLine)) = Len(queue)
        /\ \A i \in 1 .. Len(queue) : Tail(TheLine)[i] = TheLine[i + 1]
    BY <1>1, <1>2, <1>3
  <2>2. ASSUME NEW i \in 1 .. Len(queue) PROVE TheLine'[i] = TheLine[i + 1]
    <3>1. i + 1 \in 2 .. Len(InTurn)  BY <1>1, <1>2
    <3>2. InTurn[i + 1] = queue[i]  BY <1>1, <3>1
    <3>3. queue[i] # ticket[t]  BY DEF IInv, QueueLive
    <3>4. TheLine[i + 1] # t /\ ticket[TheLine[i + 1]] = queue[i]
      BY <3>1, <3>2, <3>3
    <3>5. TheLine[i + 1] \in Tasks /\ ticket'[TheLine[i + 1]] = InTurn'[i]
      BY <3>1, <3>4, <1>1, <1>2
    <3> QED  BY <3>5, <1>2
  <2> HIDE DEF PollClaim
  <2> QED  BY <2>1, <2>2, <1>2, SameLine
<1>5. TheOwner = Nobody /\ TheOwner' = t  BY <1>1
<1> QED  BY <1>3, <1>4, <1>5 DEF Fifo!TakeTurn

\* FairMutex::release does not move the line: the head of the queue becomes the
\* reservation.
LEMMA HandoverKeepsTurns ==
  ASSUME IInv, IInv', NEW t \in Tasks, Handover(t, NoTicket)
  PROVE  InTurn' = queue
<1> USE MappedNow, MappedNext DEF Mapped
<1>1. queue \in Seq(Tickets) /\ NoTicket \notin Tickets
  BY FairLockAssumption DEF IInv, TypeOK, Tickets, NoTicket
<1>2. CASE queue = <<>>  BY <1>2 DEF Handover
<1>3. CASE queue # <<>>
  <2>1. reservedFor' = Head(queue) /\ queue' = Tail(queue)
    BY <1>3 DEF Handover
  <2>2. reservedFor' # NoTicket  BY <1>1, <1>3, <2>1
  <2>3. /\ Len(InTurn') = Len(queue) /\ InTurn'[1] = queue[1]
        /\ \A i \in 2 .. Len(InTurn') : InTurn'[i] = queue'[i - 1]
    BY <1>1, <1>3, <2>1, <2>2
  <2>4. \A i \in 1 .. Len(queue) : InTurn'[i] = queue[i]
    BY <1>1, <1>3, <2>1, <2>3
  <2>5. InTurn' \in Seq(Tickets)  OBVIOUS
  <2> QED  BY <1>1, <2>3, <2>4, <2>5
<1> QED  BY <1>2, <1>3

\* Dropping the guard frees the lock and leaves the line as it is.
LEMMA GuardDropMaps ==
  ASSUME IInv, IInv', NEW t \in Tasks, GuardDrop(t)
  PROVE  Fifo!Leave(t)
<1> USE MappedNow, MappedNext DEF Mapped
<1>1. /\ held /\ reservedFor = NoTicket /\ Handover(t, NoTicket) /\ ~held'
      /\ ticket' = ticket /\ st[t] = "holding"
  BY DEF GuardDrop, IInv, HeldByOne, Reservation
<1>2. InTurn' = InTurn  BY <1>1, HandoverKeepsTurns
<1>3. TheLine' = TheLine
  <2>1. \A i \in 1 .. Len(TheLine) : TheLine'[i] = TheLine[i]  BY <1>1, <1>2
  <2>2. TheLine \in Seq(Tasks) /\ TheLine' \in Seq(Tasks) /\ Len(TheLine') = Len(TheLine)
    BY <1>2
  <2> QED  BY <2>1, <2>2, SameLine
<1>4. TheOwner = t /\ TheOwner' = Nobody  BY <1>1
<1> QED  BY <1>3, <1>4 DEF Fifo!Leave

\* A line of tickets from which place p was taken out is the line of tasks
\* without the task at p.
LEMMA GiveUpMaps ==
  ASSUME IInv, IInv', NEW t \in Tasks, FutureDrop(t),
         NEW p \in 1 .. Len(InTurn), InTurn[p] = ticket[t],
         Len(InTurn') = Len(InTurn) - 1,
         \A i \in 1 .. Len(InTurn) - 1 :
           InTurn'[i] = IF i < p THEN InTurn[i] ELSE InTurn[i + 1],
         \A i \in 1 .. Len(InTurn) : i # p => InTurn[i] # InTurn[p]
  PROVE  Fifo!GiveUp(t)
<1> USE MappedNow, MappedNext DEF Mapped
<1>1. \A u \in Tasks \ {t} : ticket'[u] = ticket[u]
  BY DEF FutureDrop, IInv, TypeOK
<1>2. TheLine[p] = t  OBVIOUS
<1> DEFINE rest == [i \in 1 .. Len(TheLine) - 1 |->
                      IF i < p THEN TheLine[i] ELSE TheLine[i + 1]]
<1>3. Len(InTurn) \in Nat /\ Len(TheLine) = Len(InTurn)
  OBVIOUS
<1>4. rest \in Seq(Tasks) /\ Len(rest) = Len(InTurn) - 1
  <2>1. \A i \in 1 .. Len(TheLine) - 1 : rest[i] \in Tasks  BY <1>3
  <2>2. Len(TheLine) - 1 \in Nat  BY <1>3
  <2> QED  BY <1>3, <2>1, <2>2
<1>5. ASSUME NEW i \in 1 .. Len(InTurn) - 1 PROVE TheLine'[i] = rest[i]
  <2>1. PICK j \in 1 .. Len(InTurn) :
          j # p /\ InTurn'[i] = InTurn[j] /\ rest[i] = TheLine[j]
    <3>1. CASE i < p
      <4>1. /\ i \in 1 .. Len(InTurn) /\ i # p /\ InTurn'[i] = InTurn[i]
            /\ rest[i] = TheLine[i]
        BY <3>1, <1>3
      <4> HIDE DEF rest
      <4> QED  BY <4>1
    <3>2. CASE ~(i < p)
      <4>1. /\ i + 1 \in 1 .. Len(InTurn) /\ i + 1 # p /\ InTurn'[i] = InTurn[i + 1]
            /\ rest[i] = TheLine[i + 1]
        BY <3>2, <1>3
      <4> HIDE DEF rest
      <4> QED  BY <4>1
    <3> QED  BY <3>1, <3>2
  <2> HIDE DEF rest
  <2>2. ticket[TheLine[j]] = InTurn[j] /\ TheLine[j] \in Tasks  OBVIOUS
  <2>3. TheLine[j] # t  BY <2>1, <2>2
  <2>4. ticket'[TheLine[j]] = InTurn'[i] /\ i \in 1 .. Len(InTurn')
    BY <1>1, <1>3, <2>1, <2>2, <2>3
  <2> QED  BY <2>1, <2>2, <2>4
<1>6. TheLine' = rest
  <2>1. TheLine' \in Seq(Tasks) /\ Len(TheLine') = Len(InTurn) - 1  OBVIOUS
  <2> HIDE DEF rest
  <2> QED  BY <1>4, <1>5, <2>1, SameLine
<1>7. TheOwner' = TheOwner
  <2>1. held' = held  BY DEF FutureDrop
  <2>2. CASE held
    <3>1. TheOwner \in Tasks /\ st[TheOwner] = "holding"
      BY <2>2, TheOwnerFacts
    <3>2. st'[TheOwner] = "holding"
      BY <3>1 DEF IInv, TypeOK, FutureDrop
    <3> QED  BY <3>1, <3>2
  <2>3. CASE ~held  BY <2>1, <2>3
  <2> QED  BY <2>2, <2>3
<1>8. p \in 1 .. Len(TheLine)  BY <1>3
<1> QED  BY <1>2, <1>6, <1>7, <1>8 DEF Fifo!GiveUp

\* Dropping a pending future leaves the line, from the reservation or from the
\* queue.
LEMMA FutureDropMaps ==
  ASSUME IInv, IInv', NEW t \in Tasks, FutureDrop(t)
  PROVE  Fifo!GiveUp(t)
<1> DEFINE Removed(p) ==
      /\ InTurn[p] = ticket[t] /\ Len(InTurn') = Len(InTurn) - 1
      /\ \A i \in 1 .. Len(InTurn) - 1 :
           InTurn'[i] = IF i < p THEN InTurn[i] ELSE InTurn[i + 1]
      /\ \A i \in 1 .. Len(InTurn) : i # p => InTurn[i] # InTurn[p]
<1>1. /\ ticket[t] # NoTicket /\ queue \in Seq(Tickets) /\ st[t] = "waiting"
      /\ \A i, j \in 1 .. Len(queue) : queue[i] = queue[j] => i = j
      /\ \A i \in 1 .. Len(queue) : queue[i] # reservedFor
  BY DEF FutureDrop, IInv, TypeOK, TicketsOwned, QueueLive
<1>2. Mapped /\ Mapped'  BY MappedNow, MappedNext
<1>3. CASE reservedFor = ticket[t]
  <2>1. Handover(t, NoTicket)  BY <1>1, <1>3 DEF FutureDrop, IInv, Reservation
  <2>2. InTurn' = queue  BY <2>1, HandoverKeepsTurns
  <2>3. /\ Len(InTurn) = Len(queue) + 1 /\ InTurn[1] = ticket[t]
        /\ \A i \in 2 .. Len(InTurn) : InTurn[i] = queue[i - 1]
    BY <1>1, <1>2, <1>3 DEF Mapped
  <2>4. 1 \in 1 .. Len(InTurn) /\ Removed(1)
    <3>1. Len(queue) \in Nat  BY <1>1
    <3>2. \A i \in 1 .. Len(InTurn) - 1 : InTurn'[i] = InTurn[i + 1]
      BY <2>2, <2>3, <3>1
    <3>3. ASSUME NEW i \in 1 .. Len(InTurn), i # 1 PROVE InTurn[i] # InTurn[1]
      <4>1. i \in 2 .. Len(InTurn) /\ i - 1 \in 1 .. Len(queue)
        BY <3>3, <2>3, <3>1
      <4> QED  BY <4>1, <1>1, <1>3, <2>3
    <3> QED  BY <2>2, <2>3, <3>1, <3>2, <3>3
  <2> QED  BY <2>4, GiveUpMaps
<1>4. CASE reservedFor # ticket[t]
  <2>1. queue' = Without(queue, ticket[t]) /\ reservedFor' = reservedFor
    BY <1>4 DEF FutureDrop
  <2>2. \E p \in 1 .. Len(queue) : queue[p] = ticket[t]
    BY <1>1, <1>4 DEF IInv, Reservation, NeverStranded, InQueue
  <2> DEFINE q == CHOOSE p \in 1 .. Len(queue) : queue[p] = ticket[t]
  <2>3. q \in 1 .. Len(queue) /\ queue[q] = ticket[t]  BY <2>2
  <2>4. queue' = [i \in 1 .. Len(queue) - 1 |->
                    IF i < q THEN queue[i] ELSE queue[i + 1]]
    BY <2>1, <2>2 DEF Without
  <2> HIDE DEF q
  <2>5. Len(queue) \in Nat /\ Len(queue) - 1 \in Nat  BY <1>1, <2>3
  <2>6. Len(queue') = Len(queue) - 1  BY <2>4, <2>5
  <2>7. \A i \in 1 .. Len(queue) : i # q => queue[i] # queue[q]  BY <1>1, <2>3
  <2>8. CASE reservedFor = NoTicket
    <3>1. InTurn = queue /\ InTurn' = queue'  BY <1>2, <2>1, <2>8 DEF Mapped
    <3>2. q \in 1 .. Len(InTurn) /\ Removed(q)
      BY <2>3, <2>4, <2>5, <2>6, <2>7, <3>1
    <3> QED  BY <3>2, GiveUpMaps
  <2>9. CASE reservedFor # NoTicket
    <3>1. /\ Len(InTurn) = Len(queue) + 1 /\ Len(InTurn') = Len(queue)
          /\ InTurn[1] = reservedFor /\ InTurn'[1] = reservedFor
          /\ \A i \in 2 .. Len(InTurn) : InTurn[i] = queue[i - 1]
          /\ \A i \in 2 .. Len(InTurn') : InTurn'[i] = queue'[i - 1]
      BY <1>2, <2>1, <2>5, <2>6, <2>9 DEF Mapped
    <3>2. q + 1 \in 1 .. Len(InTurn) /\ InTurn[q + 1] = ticket[t]
      BY <2>3, <2>5, <3>1
    <3>3. ASSUME NEW i \in 1 .. Len(InTurn) - 1
          PROVE  InTurn'[i] = IF i < q + 1 THEN InTurn[i] ELSE InTurn[i + 1]
      <4>1. CASE i = 1  BY <2>3, <2>5, <3>1, <4>1
      <4>2. CASE i # 1
        <5>1. i \in 2 .. Len(InTurn') /\ i - 1 \in 1 .. Len(queue) - 1
          BY <4>2, <2>5, <3>1
        <5>2. InTurn'[i] = IF i - 1 < q THEN queue[i - 1] ELSE queue[i - 1 + 1]
          BY <5>1, <3>1, <2>4
        <5>3. InTurn[i] = queue[i - 1] /\ InTurn[i + 1] = queue[i]
          BY <5>1, <2>5, <3>1
        <5>4. i - 1 + 1 = i /\ (i - 1 < q <=> i < q + 1)  BY <5>1, <2>3, <2>5
        <5> QED  BY <5>2, <5>3, <5>4
      <4> QED  BY <4>1, <4>2
    <3>4. ASSUME NEW i \in 1 .. Len(InTurn), i # q + 1
          PROVE  InTurn[i] # InTurn[q + 1]
      <4>1. CASE i = 1  BY <4>1, <3>1, <3>2, <1>4
      <4>2. CASE i # 1
        <5>1. i \in 2 .. Len(InTurn) /\ i - 1 \in 1 .. Len(queue) /\ i - 1 # q
          BY <3>4, <4>2, <2>3, <2>5, <3>1
        <5> QED  BY <5>1, <2>3, <2>7, <3>1, <3>2
      <4> QED  BY <4>1, <4>2
    <3>5. Removed(q + 1)  BY <2>5, <3>1, <3>2, <3>3, <3>4
    <3> QED  BY <3>2, <3>5, GiveUpMaps
  <2> QED  BY <2>8, <2>9
<1> QED  BY <1>3, <1>4

\* Every step of FairMutex is a step of the FIFO mutex or leaves it unchanged.
LEMMA NextMaps == IInv /\ IInv' /\ [Next]_vars => [Fifo!Next]_<<TheOwner, TheLine>>
<1> SUFFICES ASSUME IInv, IInv', [Next]_vars
             PROVE  [Fifo!Next]_<<TheOwner, TheLine>>
  OBVIOUS
<1>1. ASSUME NEW t \in Tasks, PollTake(t) PROVE Fifo!Next
  BY <1>1, PollTakeMaps DEF Fifo!Next
<1>2. ASSUME NEW t \in Tasks, PollQueue(t) PROVE Fifo!Next
  BY <1>2, PollQueueMaps DEF Fifo!Next
<1>3. ASSUME NEW t \in Tasks, PollClaim(t) PROVE Fifo!Next
  BY <1>3, PollClaimMaps DEF Fifo!Next
<1>4. ASSUME NEW t \in Tasks, GuardDrop(t) PROVE Fifo!Next
  BY <1>4, GuardDropMaps DEF Fifo!Next
<1>5. ASSUME NEW t \in Tasks, FutureDrop(t) PROVE Fifo!Next
  BY <1>5, FutureDropMaps DEF Fifo!Next
<1>6. CASE UNCHANGED vars
  BY <1>6 DEF vars, TheOwner, TheLine, Holder
<1> QED  BY <1>1, <1>2, <1>3, <1>4, <1>5, <1>6 DEF Next

\* FairMutex implements the FIFO mutex: whoever asks first owns the lock first,
\* newcomers never barge past a reservation, and a cancelled LockFuture leaves
\* the order of the others as it was.
THEOREM FairLockIsFifo == Spec => IsFifoMutex
<1>1. Init => Fifo!Init  BY InitMaps
<1>2. IInv /\ IInv' /\ [Next]_vars => [Fifo!Next]_<<TheOwner, TheLine>>
  BY NextMaps
<1> QED  BY <1>1, <1>2, FairLockInvariant, PTL DEF Spec, IsFifoMutex, Fifo!Spec
=============================================================================
