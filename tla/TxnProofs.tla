------------------------------ MODULE TxnProofs ------------------------------
(***************************************************************************)
(* Proofs about Txn: the protocol implements the atomic store, for any     *)
(* clients, keys, tablets, recovery workers, attempts and faults, where    *)
(* the clients that share a key share it on the tablet they both anchor.   *)
(*                                                                         *)
(* Three facts carry the argument.  An id is staged on its anchor at most  *)
(* once, because every attempt mints its own.  A client's participants are *)
(* staged under one id only, the one whose anchor answered.  And intents   *)
(* of a pending transaction stay where they are, so that who decides finds *)
(* what it verified.                                                       *)
(***************************************************************************)
EXTENDS Txn, TLAPS

(* What the clients ask for; each theorem names what it needs.             *)

\* Two clients that write the same key both anchor its tablet.
SharedAtAnchor == \A c, d \in Clients : c # d =>
    \A k \in Writes[c] \cap Writes[d] :
        TabletOf[k] = AnchorOf[c] /\ TabletOf[k] = AnchorOf[d]

\* No client asks for the absence of keys it does not write.
NoPreconditions == \A c \in Clients : Pre[c] = {}

\* Every client writes on two tablets at least.  (Of a transaction within one tablet
\* a stage that was given up and lands late is complete: recovery commits it, and
\* the attempt that was made in its place commits as well.)
CrossTablet == \A c \in Clients : Participants(c) # {}

-----------------------------------------------------------------------------
(* Types.                                                                  *)

\* The phases in which a call has a transaction of its own.
Named == {"parts", "decide", "answer", "resolve"}

Coords ==
    [pc : Phases, n : 0 .. MaxAttempts, blocked : SUBSET Tablets,
     tries : [Tablets -> 0 .. MaxAttempts],
     part : [Tablets -> {"todo", "ok", "failed", "unknown"}],
     want : {"Committed", "Aborted"}, fail : {"none", "failed", "unknown"},
     todo : SUBSET Tablets,
     push : [Tablets -> [k : Keys \cup {NoVal}, t : TxnIds \cup {NoTxn}]]]

\* What a call may push: nothing, or a transaction at a key.
Pushes == {NoKey} \cup [k : Keys, t : TxnIds]

\* The states of a call: a named one has an id, and its pushes have targets.
Calls == {x \in Coords : /\ x.pc \in Named => x.n # 0
                         /\ x.push \in [Tablets -> Pushes]}

Visits == [pc : {"idle", "verify", "orphan", "resolve", "clear", "fix", "recheck"},
           t : TxnIds \cup {NoTxn}, todo : SUBSET Keys, all : BOOLEAN,
           spans : SUBSET Keys]

\* The states of a worker: one that is not idle visits a transaction.
Jobs == {v \in Visits : IF v.pc = "idle" THEN v.t = NoTxn ELSE v.t \in TxnIds}

Messages == [op : {"stage"}, t : TxnIds, b : Tablets]
            \cup [op : {"Committed", "Aborted"}, t : TxnIds]

TabletTypes ==
    /\ row \in [Keys -> Rows] /\ mark \in [Keys -> TxnIds \cup {NoTxn}]
    /\ rec \in [TxnIds -> Records]
    /\ done \subseteq TxnIds /\ gone \subseteq TxnIds \X Keys

OtherTypes ==
    /\ late \subseteq Messages
    /\ answer \in [Clients -> {"none", "ok", "failed", "unknown"}]
    /\ faults \in Nat /\ writes \in Nat /\ gate \in BOOLEAN

Types ==
    /\ TabletTypes /\ OtherTypes
    /\ co \in [Clients -> Calls] /\ wk \in [Workers -> Jobs]

-----------------------------------------------------------------------------
(* Ids and where they are.                                                 *)

PartKeys(c) == {k \in Writes[c] : TabletOf[k] # AnchorOf[c]}
AnchorKeys(c) == {k \in Writes[c] : TabletOf[k] = AnchorOf[c]}

AnchorStage(t) == [op |-> "stage", t |-> t, b |-> AnchorOf[t[1]]]

\* Nothing knows of t, except an anchor stage that was not applied yet.
Unused(t) ==
    /\ rec[t] = NoRecord /\ t \notin done
    /\ \A k \in Keys : row[k].txn # t /\ mark[k] # t /\ <<t, k>> \notin gone
    /\ \A w \in Workers : wk[w].t # t
    /\ \A m \in late : m.t = t => m = AnchorStage(t)

\* An id that its client has not minted.
Fresh(t) == co[t[1]].pc \in {"begin", "anchor"} /\ t[2] > co[t[1]].n

FreshUnused == \A t \in TxnIds : Fresh(t) => Unused(t) /\ AnchorStage(t) \notin late

LateUnused == \A t \in TxnIds : AnchorStage(t) \in late =>
    Unused(t) /\ ~(co[t[1]].pc \in Named /\ Id(t[1]) = t)

\* t was staged at a participant, or may still be.
Parted(t) ==
    \/ \E k \in PartKeys(t[1]) : row[k].txn = t \/ mark[k] = t
    \/ \E m \in late : m.op = "stage" /\ m.t = t /\ m.b # AnchorOf[t[1]]

OneParted == \A t, u \in TxnIds : Parted(t) /\ Parted(u) /\ t[1] = u[1] => t = u

PartedByCall == \A t \in TxnIds : Parted(t) =>
    /\ co[t[1]].pc \notin {"begin", "anchor"}
    /\ co[t[1]].pc \in Named => t = Id(t[1])

\* Intents and markers are where their transaction writes.
InPlace == \A k \in Keys :
    /\ row[k].txn # NoTxn => k \in Writes[row[k].txn[1]] /\ row[k].val = row[k].txn
    /\ mark[k] # NoTxn => k \in Writes[mark[k][1]]

\* A resolved intent is gone, and a participant remembers it.
GoneStays == \A t \in TxnIds, k \in Keys : <<t, k>> \in gone =>
    /\ row[k].txn # t /\ k \in Writes[t[1]]
    /\ k \in PartKeys(t[1]) => mark[k] = t

IdInv == FreshUnused /\ LateUnused /\ OneParted /\ PartedByCall /\ InPlace /\ GoneStays

-----------------------------------------------------------------------------
(* Records and what they rest on.                                          *)

StagedAll(t) == \A k \in Writes[t[1]] : row[k].txn = t

PendingRecords == \A t \in TxnIds : rec[t].st = "Pending" =>
    /\ ~rec[t].stub /\ rec[t].spans = Writes[t[1]] /\ t \notin done
    /\ \A k \in AnchorKeys(t[1]) : row[k].txn = t

CommittedRecords == \A t \in TxnIds : rec[t].st = "Committed" =>
    t \in done /\ (~rec[t].stub => rec[t].spans = Writes[t[1]])

StubRecords == \A t \in TxnIds : rec[t].stub => Decided(rec[t])

\* A commit is final: it is not staged again, and once its record is a stub or
\* gone, no intent of it is left.
DoneRecords == \A t \in TxnIds : t \in done =>
    /\ rec[t].st \in {"Committed", "None"}
    /\ \A k \in PartKeys(t[1]) : row[k].txn = t \/ mark[k] = t
    /\ rec[t].st = "None" \/ rec[t].stub => ~Live(t)

\* The keys that an intent asks to be absent are, underneath it.
AbsentBelow == \A k \in Keys :
    row[k].txn # NoTxn /\ k \in Absent[row[k].txn[1]] => row[k].prior = NoVal

RecordInv == PendingRecords /\ CommittedRecords /\ StubRecords /\ DoneRecords /\ AbsentBelow

-----------------------------------------------------------------------------
(* Coordinators, workers and late decisions.                               *)

CallInv(c) ==
    LET t == Id(c) IN
    /\ co[c].pc \in {"begin", "anchor"} => \A b \in Tablets : co[c].part[b] = "todo"
    /\ co[c].pc \in Named => rec[t].st # "None"
    /\ co[c].pc = "resolve" => Decided(rec[t])
    /\ co[c].pc = "parts" /\ rec[t].st = "Pending" =>
         \A k \in PartKeys(c) : co[c].part[TabletOf[k]] = "ok" => row[k].txn = t
    /\ co[c].pc = "decide" /\ co[c].want = "Committed" /\ rec[t].st = "Pending" =>
         StagedAll(t)
    /\ co[c].pc \in {"decide", "answer"} /\ co[c].want = "Aborted" => co[c].fail # "none"
    /\ co[c].pc \notin {"resolve", "end"} => answer[c] = "none"

CallsInv == \A c \in Clients : CallInv(c)

VisitInv(w) ==
    LET t == wk[w].t  v == wk[w] IN
    /\ v.pc = "verify" =>
         /\ v.spans = Writes[t[1]]
         /\ rec[t].st = "Pending" /\ v.all => \A k \in v.spans \ v.todo : row[k].txn = t
    /\ v.pc = "orphan" => t \notin done /\ rec[t].st \in {"None", "Aborted"}
    /\ v.pc \in {"fix", "clear", "recheck"} =>
         Decided(rec[t]) /\ (rec[t].st = "Committed" => v.spans = Writes[t[1]])
    /\ v.pc \in {"clear", "recheck"} /\ rec[t].st = "Committed" =>
         \A k \in v.spans \ v.todo : row[k].txn # t

VisitsInv == \A w \in Workers : VisitInv(w)

LateCommits == \A m \in late :
    m.op = "Committed" /\ rec[m.t].st = "Pending" => StagedAll(m.t)

ProtocolInv == Types /\ IdInv /\ RecordInv /\ CallsInv /\ VisitsInv /\ LateCommits

-----------------------------------------------------------------------------
(* What clients were told.                                                 *)

AnswerInv(c) ==
    /\ answer[c] = "ok" => MyIds(c) \cap done # {}
    /\ answer[c] = "failed" =>
         /\ co[c].pc \in {"resolve", "end"}
         /\ \A t \in MyIds(c) : Parted(t) => rec[t].st \in {"Aborted", "None"} /\ t \notin done

AnswersInv == \A c \in Clients : AnswerInv(c)

TxnInv == ProtocolInv /\ AnswersInv

-----------------------------------------------------------------------------
(* The states of a call and of a worker are kept by what the steps do.     *)

\* The types the inductive argument uses are those TypeOK states.
LEMMA TypesAreOK == Types => TypeOK
<1> SUFFICES ASSUME Types PROVE TypeOK
  OBVIOUS
<1>1. co \in [Clients -> Coords] /\ wk \in [Workers -> Visits]
  BY DEF Types, Calls, Jobs
<1>2. late \subseteq Messages
  BY DEF Types, OtherTypes
<1> QED BY <1>1, <1>2 DEF Types, TabletTypes, OtherTypes, TypeOK, Coords, Visits, Messages

\* A call that has not started, and one that is over.
LEMMA NewCalls == NewCall \in Calls /\ Ended \in Calls
<1>1. [b \in Tablets |-> NoKey] \in [Tablets -> Pushes]
  BY DEF Pushes
<1>2. NoKey \in [k : Keys \cup {NoVal}, t : TxnIds \cup {NoTxn}]
  BY DEF NoKey
<1>3. NewCall \in Coords
  BY <1>2, TxnAssumption DEF NewCall, Coords, Phases
<1>4. Ended \in Coords /\ Ended.pc = "end" /\ Ended.push = NewCall.push
  BY <1>3 DEF Ended, Coords, Phases, NewCall
<1> QED BY <1>1, <1>3, <1>4 DEF Calls, NewCall, Named

\* A worker that visits nothing.
LEMMA IdleJob == Idle \in Jobs
BY DEF Idle, Jobs, Visits

\* What the steps read of a call.
LEMMA CallFields ==
  ASSUME NEW x \in Calls
  PROVE  /\ x \in Coords /\ x.n \in 0 .. MaxAttempts /\ x.n \in Nat
         /\ x.blocked \subseteq Tablets /\ x.todo \subseteq Tablets
         /\ x.push \in [Tablets -> Pushes]
         /\ x.tries \in [Tablets -> 0 .. MaxAttempts]
         /\ x.part \in [Tablets -> {"todo", "ok", "failed", "unknown"}]
         /\ x.pc \in Phases /\ x.want \in {"Committed", "Aborted"}
         /\ x.fail \in {"none", "failed", "unknown"}
         /\ x.pc \in Named => x.n # 0
BY TxnAssumption DEF Calls, Coords

\* Assigning the push of one tablet.
LEMMA SetPush ==
  ASSUME NEW x \in Calls, NEW b \in Tablets, NEW p \in Pushes
  PROVE  [x EXCEPT !.push[b] = p] \in Calls
<1> DEFINE f == [x.push EXCEPT ![b] = p]
<1>1. f \in [Tablets -> Pushes]
  BY CallFields
<1>2. Pushes \subseteq [k : Keys \cup {NoVal}, t : TxnIds \cup {NoTxn}]
  BY DEF Pushes, NoKey
<1>3. f \in [Tablets -> [k : Keys \cup {NoVal}, t : TxnIds \cup {NoTxn}]]
  BY <1>1, <1>2
<1> HIDE DEF f
<1>4. [x EXCEPT !.push = f] \in Calls
  BY <1>1, <1>3 DEF Calls, Coords
<1> QED BY <1>4 DEF f

\* Assigning the count, the blocked set and the pc.
LEMMA SetCount ==
  ASSUME NEW x \in Calls, NEW n \in 0 .. MaxAttempts, NEW s \in SUBSET Tablets,
         NEW p \in Phases, p \in Named => n # 0
  PROVE  [x EXCEPT !.pc = p, !.n = n, !.blocked = s] \in Calls
BY DEF Calls, Coords

\* Assigning one tablet's tries, and the blocked set.
LEMMA SetTries ==
  ASSUME NEW x \in Calls, NEW b \in Tablets, NEW n \in 0 .. MaxAttempts,
         NEW s \in SUBSET Tablets
  PROVE  [x EXCEPT !.tries[b] = n, !.blocked = s] \in Calls
<1> DEFINE f == [x.tries EXCEPT ![b] = n]
<1>1. f \in [Tablets -> 0 .. MaxAttempts]
  BY CallFields
<1> HIDE DEF f
<1>2. [x EXCEPT !.tries = f, !.blocked = s] \in Calls
  BY <1>1 DEF Calls, Coords
<1> QED BY <1>2 DEF f

\* Assigning one tablet's result.
LEMMA SetPart ==
  ASSUME NEW x \in Calls, NEW b \in Tablets, NEW p \in {"todo", "ok", "failed", "unknown"}
  PROVE  [x EXCEPT !.part[b] = p] \in Calls
<1> DEFINE f == [x.part EXCEPT ![b] = p]
<1>1. f \in [Tablets -> {"todo", "ok", "failed", "unknown"}]
  BY CallFields
<1> HIDE DEF f
<1>2. [x EXCEPT !.part = f] \in Calls
  BY <1>1 DEF Calls, Coords
<1> QED BY <1>2 DEF f

\* Assigning what is decided and what is left to resolve.
LEMMA SetRest ==
  ASSUME NEW x \in Calls, NEW p \in Phases, p \in Named => x.n # 0,
         NEW a \in {"Committed", "Aborted"}, NEW f \in {"none", "failed", "unknown"},
         NEW s \in SUBSET Tablets
  PROVE  [x EXCEPT !.pc = p, !.want = a, !.fail = f, !.todo = s] \in Calls
BY DEF Calls, Coords

\* One call is assigned.
LEMMA CallAssigned ==
  ASSUME co \in [Clients -> Calls], NEW c \in Clients, NEW x \in Calls,
         co' = [co EXCEPT ![c] = x]
  PROVE  /\ co' \in [Clients -> Calls] /\ co'[c] = x
         /\ \A d \in Clients \ {c} : co'[d] = co[d]
OBVIOUS

\* One job is assigned.
LEMMA JobAssigned ==
  ASSUME wk \in [Workers -> Jobs], NEW w \in Workers, NEW v \in Jobs,
         wk' = [wk EXCEPT ![w] = v]
  PROVE  /\ wk' \in [Workers -> Jobs] /\ wk'[w] = v
         /\ \A x \in Workers \ {w} : wk'[x] = wk[x]
OBVIOUS

-----------------------------------------------------------------------------
(* What the entries do.                                                    *)

\* Ids are pairs, and no two clients share one.
LEMMA Ids ==
  ASSUME NEW t \in TxnIds
  PROVE  /\ t[1] \in Clients /\ t[2] \in 1 .. MaxAttempts /\ t = <<t[1], t[2]>>
         /\ t # NoTxn /\ t # NoVal /\ t # Plain
         /\ Writes[t[1]] \subseteq Keys /\ AnchorOf[t[1]] \in Tablets
         /\ PartKeys(t[1]) \subseteq Keys /\ AnchorKeys(t[1]) \subseteq Keys
         /\ \A b \in Tablets : KeysAt(t[1], b) \subseteq Keys
BY TxnAssumption DEF TxnIds, PartKeys, AnchorKeys, KeysAt

\* What the steps read of a row and of a record.
LEMMA RowFields ==
  ASSUME TabletTypes
  PROVE  /\ \A k \in Keys : /\ row[k] \in Rows /\ row[k].txn \in TxnIds \cup {NoTxn}
                           /\ row[k].val \in Vals /\ row[k].prior \in Vals
                           /\ mark[k] \in TxnIds \cup {NoTxn}
         /\ \A t \in TxnIds : /\ rec[t] \in Records /\ rec[t].stub \in BOOLEAN
                             /\ rec[t].st \in {"None", "Pending", "Committed", "Aborted"}
                             /\ rec[t].spans \subseteq Keys
BY DEF TabletTypes, Rows, Records

\* A stage changes nothing, or it puts t's intents over the keys of b, none of
\* which has another intent, was resolved for t, or has a value it must not.
LEMMA StageSays ==
  ASSUME TabletTypes, NEW t \in TxnIds, NEW b \in Tablets, ApplyStage(t, b)
  PROVE  \/ UNCHANGED tablets
         \/ /\ Outcome(t, b) = "Staged"
            /\ \A k \in KeysAt(t[1], b) :
                 /\ row[k].txn \in {NoTxn, t} /\ mark[k] # t
                 /\ k \in Absent[t[1]] /\ row[k].txn = NoTxn => row[k].val = NoVal
                 /\ row'[k].txn = t /\ row'[k].val = t
                 /\ row'[k].prior = IF row[k].txn = NoTxn THEN row[k].val ELSE row[k].prior
            /\ \A k \in Keys \ KeysAt(t[1], b) : row'[k] = row[k]
            /\ row' \in [Keys -> Rows]
            /\ rec' \in [TxnIds -> Records] /\ \A u \in TxnIds \ {t} : rec'[u] = rec[u]
            /\ b = AnchorOf[t[1]] => rec'[t] = StagedRecord(Writes[t[1]])
            /\ b # AnchorOf[t[1]] => rec' = rec
            /\ mark' = mark /\ done' = done /\ gone' = gone
<1>1. CASE Outcome(t, b) = "Staged"
  <2> DEFINE ks == KeysAt(t[1], b)  new == Intents(row, t, ks)
  <2>1. ks \subseteq Keys
    BY Ids
  <2>2. \A k \in ks : /\ row[k].txn \in {NoTxn, t} /\ mark[k] # t
                      /\ k \in Absent[t[1]] /\ row[k].txn = NoTxn => row[k].val = NoVal
    BY <1>1 DEF Outcome, StageOutcome
  <2>3. row' = Overlay(new) /\ UNCHANGED <<mark, done, gone>>
        /\ rec' = IF b = AnchorOf[t[1]]
                  THEN [rec EXCEPT ![t] = StagedRecord(Writes[t[1]])] ELSE rec
    BY <1>1 DEF ApplyStage
  <2>4. DOMAIN new = ks
        /\ \A k \in ks : new[k] = [txn |-> t, val |-> t,
                                   prior |-> IF row[k].txn = NoTxn THEN row[k].val
                                                                   ELSE row[k].prior]
    BY DEF Intents
  <2> HIDE DEF ks, new
  <2>5. \A k \in ks : new[k] \in Rows
    <3> SUFFICES ASSUME NEW k \in ks PROVE new[k] \in Rows
      OBVIOUS
    <3>1. row[k].val \in Vals /\ row[k].prior \in Vals
      BY <2>1, RowFields
    <3>2. t \in TxnIds \cup {NoTxn} /\ t \in Vals
      BY DEF Vals
    <3> QED BY <2>4, <3>1, <3>2 DEF Rows
  <2>6. \A k \in Keys : row'[k] = IF k \in ks THEN new[k] ELSE row[k]
    BY <2>1, <2>3, <2>4 DEF Overlay
  <2>7. row' \in [Keys -> Rows]
    BY <2>3, <2>4, <2>5, <2>6 DEF Overlay, TabletTypes
  <2>8. StagedRecord(Writes[t[1]]) \in Records
    BY Ids DEF StagedRecord, Records
  <2>9. /\ rec' \in [TxnIds -> Records] /\ \A u \in TxnIds \ {t} : rec'[u] = rec[u]
        /\ b = AnchorOf[t[1]] => rec'[t] = StagedRecord(Writes[t[1]])
        /\ b # AnchorOf[t[1]] => rec' = rec
    BY <2>3, <2>8 DEF TabletTypes
  <2> QED BY <1>1, <2>1, <2>2, <2>3, <2>4, <2>6, <2>7, <2>9 DEF ks
<1>2. CASE Outcome(t, b) # "Staged"
  BY <1>2 DEF ApplyStage
<1> QED BY <1>1, <1>2

\* The record of t gets the decision, if it has none yet.
LEMMA DecisionSays ==
  ASSUME TabletTypes, NEW t \in TxnIds, NEW o \in {"Committed", "Aborted"},
         NEW orphan \in BOOLEAN, ApplyDecision(t, o, orphan)
  PROVE  /\ rec' \in [TxnIds -> Records]
         /\ \A u \in TxnIds \ {t} : rec'[u] = rec[u]
         /\ rec[t].st = "Pending" => rec'[t] = [rec[t] EXCEPT !.st = o]
         /\ rec[t].st = "None" =>
              rec'[t] = IF orphan /\ o = "Aborted" THEN [NoRecord EXCEPT !.st = "Aborted"]
                        ELSE rec[t]
         /\ Decided(rec[t]) => rec'[t] = rec[t]
         /\ done' = IF rec[t].st = "Pending" /\ o = "Committed" THEN done \cup {t} ELSE done
         /\ row' = row /\ mark' = mark /\ gone' = gone
<1> DEFINE x == IF o = "Committed" THEN CommitRecord(rec[t]) ELSE AbortRecord(rec[t], orphan)
<1>1. rec' = [rec EXCEPT ![t] = x] /\ row' = row /\ mark' = mark /\ gone' = gone
      /\ done' = IF rec[t].st = "Pending" /\ o = "Committed" THEN done \cup {t} ELSE done
  BY DEF ApplyDecision
<1>2. rec[t] \in Records
  BY DEF TabletTypes
<1>3. rec[t].st = "Pending" => x = [rec[t] EXCEPT !.st = o]
  BY DEF CommitRecord, AbortRecord
<1>4. rec[t].st = "None" =>
        x = IF orphan /\ o = "Aborted" THEN [NoRecord EXCEPT !.st = "Aborted"] ELSE rec[t]
  BY DEF CommitRecord, AbortRecord
<1>5. Decided(rec[t]) => x = rec[t]
  BY DEF CommitRecord, AbortRecord, Decided
<1> HIDE DEF x
<1>6. rec[t].st \in {"None", "Pending"} \/ Decided(rec[t])
  BY <1>2 DEF Records, Decided
<1>7. [rec[t] EXCEPT !.st = o] \in Records /\ [NoRecord EXCEPT !.st = "Aborted"] \in Records
  BY <1>2 DEF Records, NoRecord
<1>8. x \in Records
  BY <1>2, <1>3, <1>4, <1>5, <1>6, <1>7
<1> QED BY <1>1, <1>3, <1>4, <1>5, <1>8 DEF TabletTypes

\* A resolution changes nothing, or it turns the intents of t among the keys
\* into values, and marks them.
LEMMA ResolveSays ==
  ASSUME TabletTypes, NEW t \in TxnIds, NEW b \in Tablets, NEW ks \in SUBSET Keys,
         NEW o \in {"None", "Pending", "Committed", "Aborted"}, ApplyResolve(t, b, ks, o)
  PROVE  \/ UNCHANGED tablets
         \/ /\ row' \in [Keys -> Rows] /\ mark' \in [Keys -> TxnIds \cup {NoTxn}]
            /\ \A k \in Keys :
                 IF k \in ks /\ row[k].txn = t
                 THEN /\ row'[k] = Committed(IF o = "Committed" THEN row[k].val
                                                                ELSE row[k].prior)
                      /\ mark'[k] = t
                 ELSE row'[k] = row[k] /\ mark'[k] = mark[k]
            /\ gone' = gone \cup {<<t, k>> : k \in {k \in ks : row[k].txn = t}}
            /\ rec' = rec /\ done' = done
<1>1. CASE b = AnchorOf[t[1]] => ResolveMatches(rec[t], o)
  <2> DEFINE hit == {k \in ks : row[k].txn = t}
             new == ResolvedRows(row, t, ks, o)
  <2>1. /\ row' = Overlay(new) /\ rec' = rec /\ done' = done
        /\ mark' = [k \in Keys |-> IF k \in hit THEN t ELSE mark[k]]
        /\ gone' = gone \cup {<<t, k>> : k \in hit}
    BY <1>1 DEF ApplyResolve, IntentKeys
  <2>2. DOMAIN new = hit /\ \A k \in hit :
          new[k] = Committed(IF o = "Committed" THEN row[k].val ELSE row[k].prior)
    BY DEF ResolvedRows, IntentKeys
  <2> HIDE DEF new
  <2>3. \A k \in hit : new[k] \in Rows
    <3> SUFFICES ASSUME NEW k \in hit PROVE new[k] \in Rows
      OBVIOUS
    <3>1. row[k].val \in Vals /\ row[k].prior \in Vals /\ NoVal \in Vals
      BY RowFields DEF Vals
    <3>2. new[k] = Committed(IF o = "Committed" THEN row[k].val ELSE row[k].prior)
      BY <2>2
    <3>3. \A v \in Vals : Committed(v) \in Rows
      BY <3>1 DEF Committed, Rows
    <3> QED BY <3>1, <3>2, <3>3
  <2>4. \A k \in Keys : row'[k] = IF k \in hit THEN new[k] ELSE row[k]
    BY <2>1, <2>2 DEF Overlay
  <2>5. row' \in [Keys -> Rows]
    BY <2>1, <2>2, <2>3 DEF Overlay, TabletTypes
  <2>6. mark' \in [Keys -> TxnIds \cup {NoTxn}]
    BY <2>1 DEF TabletTypes
  <2> QED BY <2>1, <2>2, <2>4, <2>5, <2>6
<1>2. CASE ~(b = AnchorOf[t[1]] => ResolveMatches(rec[t], o))
  BY <1>2 DEF ApplyResolve
<1> QED BY <1>1, <1>2

\* The four answers of a stage.
LEMMA Outcomes ==
  ASSUME NEW t, NEW b
  PROVE  Outcome(t, b) \in {"Staged", "IntentBlocked", "ConditionFailed", "Fenced"}
BY DEF Outcome, StageOutcome

\* An entry keeps the types of the tablets.
LEMMA EntryTypes ==
  ASSUME TabletTypes, NEW t \in TxnIds
  PROVE  /\ \A b \in Tablets : ApplyStage(t, b) => TabletTypes'
         /\ \A o \in {"Committed", "Aborted"}, orphan \in BOOLEAN :
              ApplyDecision(t, o, orphan) => TabletTypes'
         /\ \A b \in Tablets, ks \in SUBSET Keys,
               o \in {"None", "Pending", "Committed", "Aborted"} :
              ApplyResolve(t, b, ks, o) => TabletTypes'
<1>1. ASSUME NEW b \in Tablets, ApplyStage(t, b) PROVE TabletTypes'
  <2>1. UNCHANGED tablets => TabletTypes'
    BY DEF tablets, TabletTypes
  <2> QED BY <1>1, <2>1, StageSays DEF TabletTypes
<1>2. ASSUME NEW o \in {"Committed", "Aborted"}, NEW orphan \in BOOLEAN,
             ApplyDecision(t, o, orphan)
      PROVE  TabletTypes'
  <2>1. /\ rec' \in [TxnIds -> Records] /\ row' = row /\ mark' = mark /\ gone' = gone
        /\ done' \subseteq done \cup {t}
    BY <1>2, DecisionSays
  <2> QED BY <2>1 DEF TabletTypes
<1>3. ASSUME NEW b \in Tablets, NEW ks \in SUBSET Keys,
             NEW o \in {"None", "Pending", "Committed", "Aborted"},
             ApplyResolve(t, b, ks, o)
      PROVE  TabletTypes'
  <2>1. UNCHANGED tablets => TabletTypes'
    BY DEF tablets, TabletTypes
  <2>2. {<<t, k>> : k \in {k \in ks : row[k].txn = t}} \subseteq TxnIds \X Keys
    OBVIOUS
  <2> QED BY <1>3, <2>1, <2>2, ResolveSays DEF TabletTypes
<1> QED BY <1>1, <1>2, <1>3

-----------------------------------------------------------------------------
(* What the steps of a call do to it.                                      *)

\* Only c's call moves.
Moved(c) == co' \in [Clients -> Calls] /\ \A d \in Clients \ {c} : co'[d] = co[d]

\* The call ends.
LEMMA EndMove ==
  ASSUME co \in [Clients -> Calls], NEW c \in Clients, co' = [co EXCEPT ![c] = Ended]
  PROVE  Moved(c) /\ co'[c] = Ended /\ co'[c].pc = "end"
<1>1. Moved(c) /\ co'[c] = Ended
  BY NewCalls, CallAssigned DEF Moved
<1>2. Ended.pc = "end"
  BY DEF Ended, NewCall
<1> QED BY <1>1, <1>2

\* The call enters another phase.
LEMMA PhaseMove ==
  ASSUME co \in [Clients -> Calls], NEW c \in Clients, NEW p \in Phases,
         p \in Named => co[c].n # 0, co' = [co EXCEPT ![c].pc = p]
  PROVE  /\ Moved(c) /\ co'[c].pc = p /\ co'[c].n = co[c].n /\ co'[c].part = co[c].part
         /\ co'[c].want = co[c].want /\ co'[c].fail = co[c].fail
<1> DEFINE x == co[c]  y == [x EXCEPT !.pc = p]
<1>1. co' = [co EXCEPT ![c] = y] /\ x \in Calls
  OBVIOUS
<1>2. x.want \in {"Committed", "Aborted"} /\ x.fail \in {"none", "failed", "unknown"}
      /\ x.todo \in SUBSET Tablets
  BY <1>1, CallFields
<1>3. x \in Coords
  BY <1>1, CallFields
<1>4. y \in Calls
  BY <1>1, <1>3 DEF Calls, Coords
<1>5. /\ y.pc = p /\ y.n = x.n /\ y.part = x.part /\ y.want = x.want /\ y.fail = x.fail
  BY <1>3 DEF Coords
<1> HIDE DEF y
<1> QED BY <1>1, <1>4, <1>5, CallAssigned DEF Moved

\* An anchor stage names the transaction, or it leaves the call where it is with
\* one attempt less, or it ends it.
LEMMA AnchorMove ==
  ASSUME Types, NEW c \in Clients, StageAnchor(c)
  PROVE  /\ Moved(c)
         /\ LET o == Outcome(<<c, co[c].n + 1>>, AnchorOf[c]) IN
            \/ /\ o = "Staged" /\ answer' = answer
               /\ co'[c].pc = "parts" /\ co'[c].n = co[c].n + 1 /\ co'[c].part = co[c].part
            \/ /\ o = "IntentBlocked" /\ answer' = answer
               /\ co'[c].pc = "anchor" /\ co'[c].n = co[c].n + 1 /\ co'[c].part = co[c].part
            \/ /\ o = "ConditionFailed" /\ co'[c].pc = "end"
               /\ answer' = [answer EXCEPT ![c] = "failed"]
            \/ /\ o = "Fenced" /\ co'[c].pc = "end"
               /\ answer' = [answer EXCEPT ![c] = "unknown"]
<1> DEFINE x == co[c]  b == AnchorOf[c]  t == <<c, x.n + 1>>  o == Outcome(t, b)
<1>1. x \in Calls /\ x \in Coords /\ x.n \in Nat /\ x.n + 1 \in 0 .. MaxAttempts /\ x.n + 1 # 0
      /\ x.blocked \cup {b} \in SUBSET Tablets /\ {} \in SUBSET Tablets /\ b \in Tablets
      /\ x.pc = "anchor"
  BY CallFields, TxnAssumption DEF Types, StageAnchor
<1>2. co \in [Clients -> Calls]
  BY DEF Types
<1>3. CASE o = "Staged"
  <2> DEFINE y == [x EXCEPT !.pc = "parts", !.n = x.n + 1, !.blocked = {}]
  <2>1. co' = [co EXCEPT ![c] = y] /\ answer' = answer
    BY <1>3, <1>2 DEF StageAnchor
  <2>2. "parts" \in Phases
    BY DEF Phases
  <2>3. y \in Calls
    BY <1>1, <2>2, SetCount
  <2>4. y.pc = "parts" /\ y.n = x.n + 1 /\ y.part = x.part
    BY <1>1 DEF Coords
  <2> HIDE DEF y
  <2> QED BY <1>2, <1>3, <2>1, <2>3, <2>4, CallAssigned DEF Moved
<1>4. CASE o = "IntentBlocked"
  <2>1. PICK k \in Keys :
          /\ Blocker(t, b, k) /\ answer' = answer
          /\ co' = [co EXCEPT ![c].n = @ + 1, ![c].blocked = @ \cup {b},
                              ![c].push[b] = [k |-> k, t |-> row[k].txn]]
    BY <1>4 DEF StageAnchor
  <2> DEFINE p == [k |-> k, t |-> row[k].txn]
             y == [x EXCEPT !.pc = "anchor", !.n = x.n + 1, !.blocked = x.blocked \cup {b}]
             z == [y EXCEPT !.push[b] = p]
  <2>2. row[k].txn \in TxnIds
    BY <2>1, RowFields DEF Blocker, Types
  <2>3. p \in Pushes
    BY <2>2 DEF Pushes
  <2>4. "anchor" \in Phases /\ "anchor" \notin Named
    BY DEF Phases, Named
  <2>5. y \in Calls
    BY <1>1, <2>4, SetCount
  <2>6. z \in Calls
    <3> HIDE DEF y, p
    <3> QED BY <1>1, <2>3, <2>5, SetPush
  <2>7. co' = [co EXCEPT ![c] = z]
    <3>1. z = [x EXCEPT !.n = @ + 1, !.blocked = @ \cup {b}, !.push[b] = p]
      BY <1>1 DEF Coords
    <3> HIDE DEF z
    <3> QED BY <1>2, <2>1, <3>1
  <2>8. z.pc = "anchor" /\ z.n = x.n + 1 /\ z.part = x.part
    BY <1>1 DEF Coords
  <2> HIDE DEF z
  <2> QED BY <1>2, <1>4, <2>1, <2>6, <2>7, <2>8, CallAssigned DEF Moved
<1>5. CASE o = "ConditionFailed"
  BY <1>2, <1>5, EndMove DEF StageAnchor, End
<1>6. CASE o = "Fenced"
  BY <1>2, <1>6, EndMove DEF StageAnchor, End
<1> QED BY <1>3, <1>4, <1>5, <1>6, Outcomes

\* Everything the invariants read of the call is as it was.
SameCall(c) ==
    /\ co'[c].pc = co[c].pc /\ co'[c].n = co[c].n /\ co'[c].part = co[c].part
    /\ co'[c].want = co[c].want /\ co'[c].fail = co[c].fail

Still(c) == Moved(c) /\ SameCall(c)

\* A push clears its target.
LEMMA PushMove ==
  ASSUME Types, NEW c \in Clients, NEW b \in Tablets, co' = [co EXCEPT ![c].push[b] = NoKey]
  PROVE  Still(c)
<1> DEFINE x == co[c]  z == [x EXCEPT !.push[b] = NoKey]
<1>1. x \in Calls /\ x \in Coords /\ co \in [Clients -> Calls]
  BY CallFields DEF Types
<1>2. NoKey \in Pushes
  BY DEF Pushes
<1>3. z \in Calls
  BY <1>1, <1>2, SetPush
<1>4. co' = [co EXCEPT ![c] = z]
  BY <1>1
<1>5. z.pc = x.pc /\ z.n = x.n /\ z.part = x.part /\ z.want = x.want /\ z.fail = x.fail
  BY <1>1 DEF Coords
<1> HIDE DEF z
<1> QED BY <1>1, <1>3, <1>4, <1>5, CallAssigned DEF Moved, Still, SameCall

\* A lost anchor stage uses up an attempt.
LEMMA AnchorLostMove ==
  ASSUME Types, NEW c \in Clients, StageAnchorLost(c)
  PROVE  /\ Moved(c) /\ co'[c].n = co[c].n + 1 /\ co'[c].pc = "anchor"
         /\ co'[c].part = co[c].part /\ co[c].n + 1 \in 1 .. MaxAttempts
<1> DEFINE x == co[c]  z == [x EXCEPT !.pc = "anchor", !.n = x.n + 1, !.blocked = x.blocked]
<1>1. x \in Calls /\ x \in Coords /\ co \in [Clients -> Calls] /\ x.n \in Nat
      /\ x.n + 1 \in 0 .. MaxAttempts /\ x.n + 1 # 0 /\ x.n + 1 \in 1 .. MaxAttempts
      /\ x.blocked \in SUBSET Tablets /\ x.pc = "anchor"
  BY CallFields, TxnAssumption DEF Types, StageAnchorLost
<1>2. "anchor" \in Phases /\ "anchor" \notin Named
  BY DEF Phases, Named
<1>3. z \in Calls
  BY <1>1, <1>2, SetCount
<1>4. co' = [co EXCEPT ![c] = z]
  BY <1>1 DEF StageAnchorLost, Coords
<1>5. z.pc = "anchor" /\ z.n = x.n + 1 /\ z.part = x.part
  BY <1>1 DEF Coords
<1> HIDE DEF z
<1> QED BY <1>1, <1>3, <1>4, <1>5, CallAssigned DEF Moved

PartNoted(c, b, p) ==
    [co EXCEPT ![c].tries[b] = 0, ![c].blocked = @ \ {b}, ![c].part[b] = p]

\* A participant's result is written down.
LEMMA PartResult ==
  ASSUME Types, NEW c \in Clients, NEW b \in Tablets,
         NEW p \in {"todo", "ok", "failed", "unknown"}, co' = PartNoted(c, b, p)
  PROVE  /\ Moved(c) /\ co'[c].pc = co[c].pc /\ co'[c].n = co[c].n
         /\ \A d \in Tablets : co'[c].part[d] = IF d = b THEN p ELSE co[c].part[d]
<1> DEFINE x == co[c]  y == [x EXCEPT !.tries[b] = 0, !.blocked = x.blocked \ {b}]
           z == [y EXCEPT !.part[b] = p]
<1>1. x \in Calls /\ x \in Coords /\ co \in [Clients -> Calls]
      /\ x.blocked \ {b} \in SUBSET Tablets /\ 0 \in 0 .. MaxAttempts
      /\ x.part \in [Tablets -> {"todo", "ok", "failed", "unknown"}]
  BY CallFields, TxnAssumption DEF Types
<1>2. y \in Calls
  BY <1>1, SetTries
<1>3. z \in Calls
  <2> HIDE DEF y
  <2> QED BY <1>2, SetPart
<1>4. co' = [co EXCEPT ![c] = z]
  BY <1>1 DEF Coords, PartNoted
<1>5. z.pc = x.pc /\ z.n = x.n /\ z.part = [x.part EXCEPT ![b] = p]
  BY <1>1 DEF Coords
<1> HIDE DEF z
<1> QED BY <1>1, <1>3, <1>4, <1>5, CallAssigned DEF Moved

\* A participant's stage is noted, or it is to be tried again.
LEMMA PartMove ==
  ASSUME Types, NEW c \in Clients, NEW b \in Tablets, StagePart(c, b)
  PROVE  /\ Moved(c) /\ co'[c].pc = "parts" /\ co'[c].n = co[c].n
         /\ \A d \in Tablets : co'[c].part[d] = "ok" =>
              co[c].part[d] = "ok" \/ (d = b /\ Outcome(Id(c), b) = "Staged")
<1> DEFINE x == co[c]  t == Id(c)  o == Outcome(t, b)
<1>1. x \in Calls /\ x \in Coords /\ co \in [Clients -> Calls]
      /\ x.blocked \cup {b} \in SUBSET Tablets /\ x.pc = "parts"
      /\ x.tries[b] \in Nat /\ x.tries[b] + 1 \in 0 .. MaxAttempts
      /\ x.tries \in [Tablets -> 0 .. MaxAttempts]
  BY CallFields, TxnAssumption DEF Types, StagePart, Staging
<1>2. CASE o = "IntentBlocked"
  <2>1. PICK k \in Keys :
          /\ Blocker(t, b, k)
          /\ co' = [co EXCEPT ![c].tries[b] = @ + 1, ![c].blocked = @ \cup {b},
                              ![c].push[b] = [k |-> k, t |-> row[k].txn]]
    BY <1>2 DEF StagePart
  <2> DEFINE p == [k |-> k, t |-> row[k].txn]
             y == [x EXCEPT !.tries[b] = x.tries[b] + 1, !.blocked = x.blocked \cup {b}]
             z == [y EXCEPT !.push[b] = p]
  <2>2. row[k].txn \in TxnIds
    BY <2>1, RowFields DEF Blocker, Types
  <2>3. p \in Pushes
    BY <2>2 DEF Pushes
  <2>4. y \in Calls
    BY <1>1, SetTries
  <2>5. z \in Calls
    <3> HIDE DEF y, p
    <3> QED BY <1>1, <2>3, <2>4, SetPush
  <2>6. co' = [co EXCEPT ![c] = z]
    <3>1. z = [x EXCEPT !.tries[b] = x.tries[b] + 1, !.blocked = x.blocked \cup {b},
                        !.push[b] = p]
      OBVIOUS
    <3>2. co' = [co EXCEPT ![c] = [x EXCEPT !.tries[b] = x.tries[b] + 1,
                                            !.blocked = x.blocked \cup {b}, !.push[b] = p]]
      BY <1>1, <2>1
    <3> HIDE DEF z
    <3> QED BY <3>1, <3>2
  <2>7. z.pc = x.pc /\ z.n = x.n /\ z.part = x.part
    BY <1>1 DEF Coords
  <2> HIDE DEF z
  <2> QED BY <1>1, <2>5, <2>6, <2>7, CallAssigned DEF Moved
<1>3. CASE o # "IntentBlocked"
  <2> DEFINE p == CASE o = "Staged" -> "ok" [] o = "ConditionFailed" -> "failed"
                    [] o = "Fenced" -> "unknown"
  <2>1. co' = [co EXCEPT ![c].tries[b] = 0, ![c].blocked = @ \ {b}, ![c].part[b] = p]
    BY <1>3 DEF StagePart
  <2>2. p \in {"todo", "ok", "failed", "unknown"} /\ (p = "ok" => o = "Staged")
    BY <1>3, Outcomes
  <2>3. PICK q \in {"todo", "ok", "failed", "unknown"} : q = p
    BY <2>2
  <2>4. co' = PartNoted(c, b, q)
    BY <2>1, <2>3 DEF PartNoted
  <2>5. /\ Moved(c) /\ co'[c].pc = co[c].pc /\ co'[c].n = co[c].n
        /\ \A d \in Tablets : co'[c].part[d] = IF d = b THEN q ELSE co[c].part[d]
    BY <2>4, PartResult
  <2> HIDE DEF p
  <2> QED BY <1>1, <2>2, <2>3, <2>5
<1> QED BY <1>2, <1>3

\* A participant's stage whose answer is lost uses up an attempt.
LEMMA PartLostMove ==
  ASSUME Types, NEW c \in Clients, NEW b \in Tablets, StagePartLost(c, b)
  PROVE  Still(c)
<1> DEFINE x == co[c]  z == [x EXCEPT !.tries[b] = x.tries[b] + 1, !.blocked = x.blocked]
<1>1. x \in Calls /\ x \in Coords /\ co \in [Clients -> Calls]
      /\ x.tries[b] + 1 \in 0 .. MaxAttempts /\ x.blocked \in SUBSET Tablets
  BY CallFields, TxnAssumption DEF Types, StagePartLost
<1>2. z \in Calls
  BY <1>1, SetTries
<1>3. co' = [co EXCEPT ![c] = z]
  BY <1>1 DEF StagePartLost, Coords
<1>4. z.pc = x.pc /\ z.n = x.n /\ z.part = x.part /\ z.want = x.want /\ z.fail = x.fail
  BY <1>1 DEF Coords
<1> HIDE DEF z
<1> QED BY <1>1, <1>2, <1>3, <1>4, CallAssigned DEF Moved, Still, SameCall

\* The call goes on to the decision with the participants it has.
LEMMA DecidingMove ==
  ASSUME Types, NEW c \in Clients, co[c].n # 0,
         NEW a \in {"Committed", "Aborted"}, NEW f \in {"none", "failed", "unknown"},
         co' = [co EXCEPT ![c] = Deciding(c, a, f)]
  PROVE  /\ Moved(c) /\ co'[c].pc = "decide" /\ co'[c].n = co[c].n
         /\ co'[c].want = a /\ co'[c].fail = f
<1> DEFINE s == {AnchorOf[c]} \cup {b \in Participants(c) : co[c].part[b] = "ok"}
           y == [NewCall EXCEPT !.pc = "decide", !.n = co[c].n, !.blocked = {}]
           z == [y EXCEPT !.pc = "decide", !.want = a, !.fail = f, !.todo = s]
<1>1. co[c] \in Calls /\ co \in [Clients -> Calls] /\ co[c].n \in 0 .. MaxAttempts
      /\ NewCall \in Calls /\ NewCall \in Coords /\ NewCall.blocked = {}
  BY CallFields, NewCalls DEF Types, NewCall, Calls
<1>2. s \in SUBSET Tablets
  BY TxnAssumption DEF Participants
<1>3. "decide" \in Phases /\ {} \in SUBSET Tablets
  BY DEF Phases
<1>4. y \in Calls /\ y.n = co[c].n
  BY <1>1, <1>3, SetCount DEF Coords
<1>5. z \in Calls
  <2> HIDE DEF y, s
  <2> QED BY <1>2, <1>3, <1>4, SetRest
<1>6. Deciding(c, a, f) = z
  BY <1>1 DEF Deciding, Coords
<1>7. z.pc = "decide" /\ z.n = co[c].n /\ z.want = a /\ z.fail = f
  BY <1>1 DEF Coords
<1> HIDE DEF z
<1> QED BY <1>1, <1>5, <1>6, <1>7, CallAssigned DEF Moved

\* A participant that was never staged is noted as a failure.
LEMMA ExhaustedMove ==
  ASSUME Types, NEW c \in Clients, NEW b \in Tablets, StagePartExhausted(c, b)
  PROVE  /\ Moved(c) /\ co'[c].pc = "parts" /\ co'[c].n = co[c].n
         /\ \A d \in Tablets : co'[c].part[d] = "ok" => co[c].part[d] = "ok"
<1>1. PICK q \in {"todo", "ok", "failed", "unknown"} :
        q # "ok" /\ co' = PartNoted(c, b, q)
  BY DEF StagePartExhausted, PartNoted
<1>2. /\ Moved(c) /\ co'[c].pc = co[c].pc /\ co'[c].n = co[c].n
      /\ \A d \in Tablets : co'[c].part[d] = IF d = b THEN q ELSE co[c].part[d]
  BY <1>1, PartResult
<1>3. co[c].pc = "parts"
  BY DEF StagePartExhausted, Staging
<1> QED BY <1>1, <1>2, <1>3

\* The call chooses an outcome once every participant has a result, or it ends
\* because a precondition no longer holds.
LEMMA ChooseMove ==
  ASSUME Types, NEW c \in Clients, Choose(c)
  PROVE  /\ Moved(c)
         /\ \/ /\ co'[c].pc = "decide" /\ co'[c].n = co[c].n /\ answer' = answer
               /\ \/ /\ co'[c].want = "Aborted" /\ co'[c].fail # "none"
                  \/ /\ co'[c].want = "Committed"
                     /\ \A b \in Participants(c) : co[c].part[b] = "ok"
            \/ /\ co'[c].pc = "end" /\ ~PreHolds(c)
               /\ answer' = [answer EXCEPT ![c] = "failed"]
<1>1. co[c].n # 0 /\ co \in [Clients -> Calls]
      /\ co[c].part \in [Tablets -> {"todo", "ok", "failed", "unknown"}]
  BY CallFields DEF Types, Choose, Named
<1>2. ASSUME NEW b \in Participants(c), co[c].part[b] # "ok", answer' = answer,
             co' = [co EXCEPT ![c] = Deciding(c, "Aborted", co[c].part[b])]
      PROVE  Moved(c) /\ co'[c].pc = "decide" /\ co'[c].n = co[c].n /\ answer' = answer
             /\ co'[c].want = "Aborted" /\ co'[c].fail # "none"
  <2>1. b \in Tablets
    BY TxnAssumption DEF Participants
  <2>2. co[c].part[b] \in {"failed", "unknown"}
    BY <1>1, <1>2, <2>1 DEF Choose
  <2>3. PICK f \in {"none", "failed", "unknown"} : f # "none" /\ f = co[c].part[b]
    BY <2>2
  <2>4. co' = [co EXCEPT ![c] = Deciding(c, "Aborted", f)]
    BY <1>2, <2>3
  <2> QED BY <1>1, <1>2, <2>3, <2>4, DecidingMove
<1>3. ASSUME \A b \in Participants(c) : co[c].part[b] = "ok", answer' = answer,
             co' = [co EXCEPT ![c] = Deciding(c, "Committed", "none")]
      PROVE  Moved(c) /\ co'[c].pc = "decide" /\ co'[c].n = co[c].n /\ answer' = answer
             /\ co'[c].want = "Committed"
  BY <1>1, <1>3, DecidingMove
<1>4. ASSUME ~PreHolds(c), End(c, "failed")
      PROVE  /\ Moved(c) /\ co'[c].pc = "end" /\ answer' = [answer EXCEPT ![c] = "failed"]
  BY <1>1, <1>4, EndMove DEF End
<1>5. \/ \E b \in Participants(c) :
           /\ co[c].part[b] # "ok" /\ answer' = answer
           /\ co' = [co EXCEPT ![c] = Deciding(c, "Aborted", co[c].part[b])]
      \/ /\ \A b \in Participants(c) : co[c].part[b] = "ok"
         /\ IF PreHolds(c)
            THEN /\ co' = [co EXCEPT ![c] = Deciding(c, "Committed", "none")]
                 /\ UNCHANGED answer
            ELSE End(c, "failed")
  BY DEF Choose
<1> QED BY <1>2, <1>3, <1>4, <1>5

\* The client was answered.
LEMMA AnswerMove ==
  ASSUME Types, NEW c \in Clients, AnswerClient(c)
  PROVE  Moved(c) /\ co'[c].pc = "resolve" /\ co'[c].n = co[c].n
<1> DEFINE x == co[c]
           z == [x EXCEPT !.pc = "resolve", !.want = "Committed", !.fail = "none",
                          !.todo = x.todo]
<1>1. x \in Calls /\ x \in Coords /\ co \in [Clients -> Calls] /\ x.todo \in SUBSET Tablets
      /\ x.n # 0
  BY CallFields DEF Types, AnswerClient, Named
<1>2. "resolve" \in Phases
  BY DEF Phases
<1>3. z \in Calls
  BY <1>1, <1>2, SetRest
<1>4. co' = [co EXCEPT ![c] = z]
  BY <1>1 DEF AnswerClient, Coords
<1>5. z.pc = "resolve" /\ z.n = x.n
  BY <1>1 DEF Coords
<1> HIDE DEF z
<1> QED BY <1>1, <1>3, <1>4, <1>5, CallAssigned DEF Moved

\* A tablet was resolved; after the last one the call ends.
LEMMA ResolveMove ==
  ASSUME Types, NEW c \in Clients, NEW b \in Tablets, Resolve(c, b)
  PROVE  /\ Moved(c)
         /\ co'[c].pc = "end" \/ (co'[c].pc = "resolve" /\ co'[c].n = co[c].n)
<1> DEFINE x == co[c]
           z == [x EXCEPT !.pc = x.pc, !.want = x.want, !.fail = x.fail, !.todo = x.todo \ {b}]
<1>1. x \in Calls /\ x \in Coords /\ co \in [Clients -> Calls]
      /\ x.todo \ {b} \in SUBSET Tablets /\ x.pc = "resolve"
      /\ x.pc \in Phases /\ (x.pc \in Named => x.n # 0)
      /\ x.want \in {"Committed", "Aborted"} /\ x.fail \in {"none", "failed", "unknown"}
  BY CallFields DEF Types, Resolve, Named
<1>2. CASE co[c].todo = {b}
  BY <1>1, <1>2, EndMove DEF Resolve
<1>3. CASE co[c].todo # {b}
  <2>1. z \in Calls
    BY <1>1, SetRest
  <2>2. co' = [co EXCEPT ![c] = z]
    BY <1>1, <1>3 DEF Resolve, Coords
  <2>3. z.pc = "resolve" /\ z.n = x.n
    BY <1>1 DEF Coords
  <2> HIDE DEF z
  <2> QED BY <1>1, <2>1, <2>2, <2>3, CallAssigned DEF Moved
<1> QED BY <1>2, <1>3

-----------------------------------------------------------------------------
(* What the steps of a worker do to its visit.                             *)

\* Only w's visit moves.
Worked(w) == wk' \in [Workers -> Jobs] /\ \A x \in Workers \ {w} : wk'[x] = wk[x]

\* The visits a worker may start or enter.
Visit(p, t, todo, spans) == [Idle EXCEPT !.pc = p, !.t = t, !.todo = todo, !.spans = spans]

\* What the steps read of a visit.
LEMMA JobFields ==
  ASSUME NEW v \in Jobs
  PROVE  /\ v \in Visits /\ v.todo \subseteq Keys /\ v.spans \subseteq Keys
         /\ v.t \in TxnIds \cup {NoTxn} /\ (v.pc # "idle" => v.t \in TxnIds)
         /\ v.all \in BOOLEAN
         /\ v.pc \in {"idle", "verify", "orphan", "resolve", "clear", "fix", "recheck"}
BY DEF Jobs, Visits

\* A visit with these fields is a job.
LEMMA VisitIsJob ==
  ASSUME NEW p \in {"verify", "orphan", "resolve", "clear", "fix", "recheck"},
         NEW t \in TxnIds, NEW todo \in SUBSET Keys, NEW spans \in SUBSET Keys
  PROVE  /\ Visit(p, t, todo, spans) \in Jobs
         /\ Visit(p, t, todo, spans).pc = p /\ Visit(p, t, todo, spans).t = t
         /\ Visit(p, t, todo, spans).todo = todo /\ Visit(p, t, todo, spans).spans = spans
BY DEF Visit, Idle, Jobs, Visits

\* The visit is over.
LEMMA IdleMove ==
  ASSUME Types, NEW w \in Workers, wk' = [wk EXCEPT ![w] = Idle]
  PROVE  Worked(w) /\ wk'[w].pc = "idle" /\ wk'[w].t = NoTxn
<1>1. Worked(w) /\ wk'[w] = Idle
  BY IdleJob, JobAssigned DEF Worked, Types
<1> QED BY <1>1 DEF Idle

\* A recovery starts with what the record says.
LEMMA RecViewMove ==
  ASSUME Types, NEW w \in Workers, NEW t \in TxnIds, RecView(w, t)
  PROVE  /\ Worked(w) /\ wk'[w].t = t
         /\ \/ rec[t].st = "None" /\ wk'[w].pc = "orphan"
            \/ /\ rec[t].st = "Pending" /\ wk'[w].pc = "verify"
               /\ wk'[w].todo = rec[t].spans /\ wk'[w].spans = rec[t].spans
            \/ Decided(rec[t]) /\ wk'[w].pc = "resolve"
<1>1. rec[t].spans \in SUBSET Keys /\ {} \in SUBSET Keys /\ wk \in [Workers -> Jobs]
      /\ rec[t].st \in {"None", "Pending", "Committed", "Aborted"}
  BY RowFields DEF Types
<1>2. CASE rec[t].st = "None"
  <2> DEFINE v == [Idle EXCEPT !.pc = "orphan", !.t = t]
  <2>1. wk' = [wk EXCEPT ![w] = v]
    BY <1>2 DEF RecView
  <2>2. v \in Jobs /\ v.pc = "orphan" /\ v.t = t
    BY <1>1 DEF Idle, Jobs, Visits
  <2> HIDE DEF v
  <2>3. Worked(w) /\ wk'[w] = v
    BY <1>1, <2>1, <2>2 DEF Worked
  <2> QED BY <1>2, <2>2, <2>3
<1>3. CASE rec[t].st = "Pending"
  <2>1. wk' = [wk EXCEPT ![w] = Visit("verify", t, rec[t].spans, rec[t].spans)]
    BY <1>3 DEF RecView, Visit, Idle
  <2> DEFINE v == Visit("verify", t, rec[t].spans, rec[t].spans)
  <2>2. v \in Jobs /\ v.pc = "verify" /\ v.t = t /\ v.todo = rec[t].spans
        /\ v.spans = rec[t].spans
    BY <1>1, VisitIsJob
  <2> HIDE DEF v
  <2>3. Worked(w) /\ wk'[w] = v
    BY <1>1, <2>1, <2>2 DEF Worked, v
  <2> QED BY <1>3, <2>2, <2>3
<1>4. CASE rec[t].st \notin {"None", "Pending"}
  <2> DEFINE v == [Idle EXCEPT !.pc = "resolve", !.t = t, !.todo = rec[t].spans]
  <2>1. wk' = [wk EXCEPT ![w] = v]
    BY <1>4 DEF RecView
  <2>2. v \in Jobs /\ v.pc = "resolve" /\ v.t = t
    BY <1>1 DEF Idle, Jobs, Visits
  <2> HIDE DEF v
  <2>3. Worked(w) /\ wk'[w] = v
    BY <1>1, <2>1, <2>2 DEF Worked
  <2> QED BY <1>1, <1>4, <2>2, <2>3 DEF Decided
<1> QED BY <1>2, <1>3, <1>4

\* The sweep starts with the spans of a decided record.
LEMMA SweepViewMove ==
  ASSUME Types, NEW w \in Workers, NEW t \in TxnIds, SweepView(w, t)
  PROVE  /\ Worked(w) /\ wk'[w].t = t
         /\ \/ /\ wk'[w].pc = "clear" /\ wk'[w].todo = rec[t].spans
               /\ wk'[w].spans = rec[t].spans
            \/ wk'[w].pc = "resolve"
<1>1. rec[t].spans \in SUBSET Keys /\ {} \in SUBSET Keys /\ wk \in [Workers -> Jobs]
  BY RowFields DEF Types
<1>2. CASE gate
  <2>1. wk' = [wk EXCEPT ![w] = Visit("clear", t, rec[t].spans, rec[t].spans)]
    BY <1>2 DEF SweepView, Visit, Idle
  <2> DEFINE v == Visit("clear", t, rec[t].spans, rec[t].spans)
  <2>2. v \in Jobs /\ v.pc = "clear" /\ v.t = t /\ v.todo = rec[t].spans
        /\ v.spans = rec[t].spans
    BY <1>1, VisitIsJob
  <2> HIDE DEF v
  <2>3. Worked(w) /\ wk'[w] = v
    BY <1>1, <2>1, <2>2 DEF Worked, v
  <2> QED BY <2>2, <2>3
<1>3. CASE ~gate
  <2> DEFINE v == [Idle EXCEPT !.pc = "resolve", !.t = t, !.todo = rec[t].spans]
  <2>1. wk' = [wk EXCEPT ![w] = v]
    BY <1>3 DEF SweepView
  <2>2. v \in Jobs /\ v.pc = "resolve" /\ v.t = t
    BY <1>1 DEF Idle, Jobs, Visits
  <2> HIDE DEF v
  <2>3. Worked(w) /\ wk'[w] = v
    BY <1>1, <2>1, <2>2 DEF Worked
  <2> QED BY <2>2, <2>3
<1> QED BY <1>2, <1>3

\* One more span is verified.
LEMMA RecVerifyMove ==
  ASSUME Types, NEW w \in Workers, NEW k \in Keys, RecVerify(w, k)
  PROVE  /\ Worked(w) /\ wk'[w].pc = "verify" /\ wk'[w].t = wk[w].t
         /\ wk'[w].spans = wk[w].spans /\ wk'[w].todo = wk[w].todo \ {k}
         /\ wk'[w].all => wk[w].all /\ row[k].txn = wk[w].t
<1> DEFINE v == wk[w]  a == v.all /\ row[k].txn = v.t
           x == [v EXCEPT !.pc = "verify", !.todo = v.todo \ {k}, !.all = a]
<1>1. v \in Jobs /\ v \in Visits /\ v.pc = "verify" /\ wk \in [Workers -> Jobs]
      /\ v.todo \ {k} \in SUBSET Keys
  BY JobFields DEF Types, RecVerify
<1>2. a \in BOOLEAN
  OBVIOUS
<1>3. x \in Jobs /\ x.pc = "verify" /\ x.t = v.t /\ x.todo = v.todo \ {k}
      /\ x.spans = v.spans /\ x.all = a
  <2> HIDE DEF a
  <2> QED BY <1>1, <1>2 DEF Jobs, Visits
<1>4. wk' = [wk EXCEPT ![w] = x]
  BY <1>1 DEF RecVerify, Visits
<1> HIDE DEF x
<1>5. Worked(w) /\ wk'[w] = x
  BY <1>1, <1>3, <1>4 DEF Worked
<1> QED BY <1>3, <1>5

\* After the decision the spans are resolved.
LEMMA RecDecideMove ==
  ASSUME Types, NEW w \in Workers, RecDecide(w)
  PROVE  Worked(w) /\ wk'[w].pc = "resolve" /\ wk'[w].t = wk[w].t
<1> DEFINE v == wk[w]  x == [Idle EXCEPT !.pc = "resolve", !.t = v.t, !.todo = v.spans]
<1>1. v \in Jobs /\ v.t \in TxnIds /\ v.spans \in SUBSET Keys /\ wk \in [Workers -> Jobs]
  BY JobFields DEF Types, RecDecide
<1>2. wk' = [wk EXCEPT ![w] = x]
  BY DEF RecDecide
<1>3. x \in Jobs /\ x.pc = "resolve" /\ x.t = v.t
  BY <1>1 DEF Idle, Jobs, Visits
<1> HIDE DEF x
<1>4. Worked(w) /\ wk'[w] = x
  BY <1>1, <1>2, <1>3 DEF Worked
<1> QED BY <1>3, <1>4

\* An orphan is aborted, and then its spans are resolved.
LEMMA RecOrphanMove ==
  ASSUME Types, NEW w \in Workers, RecOrphan(w)
  PROVE  Worked(w) /\ wk'[w].pc = "resolve" /\ wk'[w].t = wk[w].t
<1> DEFINE v == wk[w]  x == [v EXCEPT !.pc = "resolve", !.todo = rec[v.t].spans]
<1>1. v \in Jobs /\ v \in Visits /\ v.t \in TxnIds /\ wk \in [Workers -> Jobs]
  BY JobFields DEF Types, RecOrphan
<1>2. rec[v.t].spans \in SUBSET Keys
  BY <1>1, RowFields DEF Types
<1>3. x \in Jobs /\ x.pc = "resolve" /\ x.t = v.t
  BY <1>1, <1>2 DEF Jobs, Visits
<1>4. wk' = [wk EXCEPT ![w] = x]
  BY <1>1 DEF RecOrphan, Visits
<1> HIDE DEF x
<1>5. Worked(w) /\ wk'[w] = x
  BY <1>1, <1>3, <1>4 DEF Worked
<1> QED BY <1>3, <1>5

\* The keys of one tablet were resolved.
LEMMA RecResolveMove ==
  ASSUME Types, NEW w \in Workers, NEW b \in Tablets, RecResolve(w, b)
  PROVE  Worked(w) /\ wk'[w].pc = "resolve" /\ wk'[w].t = wk[w].t
<1> DEFINE v == wk[w]  s == v.todo \ At(v.todo, b)  x == [v EXCEPT !.todo = s]
<1>1. v \in Jobs /\ v \in Visits /\ v.t \in TxnIds /\ v.pc = "resolve"
      /\ wk \in [Workers -> Jobs] /\ s \in SUBSET Keys
  BY JobFields DEF Types, RecResolve
<1>2. wk' = [wk EXCEPT ![w] = x]
  BY <1>1 DEF RecResolve
<1> HIDE DEF s
<1>3. x \in Jobs /\ x.pc = "resolve" /\ x.t = v.t
  BY <1>1 DEF Jobs, Visits
<1> HIDE DEF x
<1>4. Worked(w) /\ wk'[w] = x
  BY <1>1, <1>2, <1>3 DEF Worked
<1> QED BY <1>3, <1>4

\* A span is clear; or it is not and the spans are resolved first, or the visit ends.
LEMMA SweepVerifyMove ==
  ASSUME Types, NEW w \in Workers, NEW k \in Keys, SweepVerify(w, k)
  PROVE  /\ Worked(w)
         /\ \/ /\ wk'[w].pc = wk[w].pc /\ wk'[w].t = wk[w].t
               /\ wk'[w].spans = wk[w].spans /\ wk'[w].todo = wk[w].todo \ {k}
               /\ row[k].txn # wk[w].t
            \/ wk'[w].pc = "fix" /\ wk'[w].t = wk[w].t /\ wk'[w].spans = wk[w].spans
            \/ wk'[w].pc = "idle" /\ wk'[w].t = NoTxn
<1> DEFINE v == wk[w]  s == v.todo \ {k}
<1>1. v \in Jobs /\ v \in Visits /\ v.t \in TxnIds /\ wk \in [Workers -> Jobs]
      /\ s \in SUBSET Keys /\ v.spans \in SUBSET Keys /\ v.pc # "idle"
  BY JobFields DEF Types, SweepVerify
<1>2. CASE row[k].txn # v.t
  <2> DEFINE x == [v EXCEPT !.todo = s]
  <2>1. wk' = [wk EXCEPT ![w] = x]
    BY <1>1, <1>2 DEF SweepVerify
  <2> HIDE DEF s
  <2>2. x \in Jobs /\ x.pc = v.pc /\ x.t = v.t /\ x.spans = v.spans /\ x.todo = s
    BY <1>1 DEF Jobs, Visits
  <2> HIDE DEF x
  <2>3. Worked(w) /\ wk'[w] = x
    BY <1>1, <2>1, <2>2 DEF Worked
  <2> QED BY <1>2, <2>2, <2>3 DEF s
<1>3. CASE row[k].txn = v.t /\ v.pc = "clear"
  <2> DEFINE x == [v EXCEPT !.pc = "fix", !.todo = v.spans]
  <2>1. wk' = [wk EXCEPT ![w] = x]
    BY <1>1, <1>3 DEF SweepVerify
  <2>2. x \in Jobs /\ x.pc = "fix" /\ x.t = v.t /\ x.spans = v.spans
    BY <1>1 DEF Jobs, Visits
  <2> HIDE DEF x
  <2>3. Worked(w) /\ wk'[w] = x
    BY <1>1, <2>1, <2>2 DEF Worked
  <2> QED BY <2>2, <2>3
<1>4. CASE row[k].txn = v.t /\ v.pc # "clear"
  <2>1. wk' = [wk EXCEPT ![w] = Idle]
    BY <1>1, <1>4 DEF SweepVerify
  <2> QED BY <2>1, IdleMove
<1> QED BY <1>2, <1>3, <1>4

\* The keys of one tablet were resolved; after the last tablet the sweep looks again.
LEMMA SweepResolveMove ==
  ASSUME Types, NEW w \in Workers, NEW b \in Tablets, SweepResolve(w, b)
  PROVE  /\ Worked(w) /\ wk'[w].t = wk[w].t /\ wk'[w].spans = wk[w].spans
         /\ \/ wk'[w].pc = "recheck" /\ wk'[w].todo = wk[w].spans
            \/ wk'[w].pc = "fix"
<1> DEFINE v == wk[w]  s == v.todo \ At(v.todo, b)
<1>1. v \in Jobs /\ v \in Visits /\ v.t \in TxnIds /\ wk \in [Workers -> Jobs]
      /\ s \in SUBSET Keys /\ v.spans \in SUBSET Keys /\ v.pc = "fix"
  BY JobFields DEF Types, SweepResolve
<1>2. CASE v.todo = At(v.todo, b)
  <2> DEFINE x == [v EXCEPT !.pc = "recheck", !.todo = v.spans]
  <2>1. wk' = [wk EXCEPT ![w] = x]
    BY <1>1, <1>2 DEF SweepResolve
  <2>2. x \in Jobs /\ x.pc = "recheck" /\ x.t = v.t /\ x.spans = v.spans /\ x.todo = v.spans
    BY <1>1 DEF Jobs, Visits
  <2> HIDE DEF x
  <2>3. Worked(w) /\ wk'[w] = x
    BY <1>1, <2>1, <2>2 DEF Worked
  <2> QED BY <2>2, <2>3
<1>3. CASE v.todo # At(v.todo, b)
  <2> DEFINE x == [v EXCEPT !.todo = s]
  <2>1. wk' = [wk EXCEPT ![w] = x]
    BY <1>1, <1>3 DEF SweepResolve
  <2> HIDE DEF s
  <2>2. x \in Jobs /\ x.pc = "fix" /\ x.t = v.t /\ x.spans = v.spans
    BY <1>1 DEF Jobs, Visits
  <2> HIDE DEF x
  <2>3. Worked(w) /\ wk'[w] = x
    BY <1>1, <2>1, <2>2 DEF Worked
  <2> QED BY <2>2, <2>3
<1> QED BY <1>2, <1>3

-----------------------------------------------------------------------------
(* Every step keeps the types.                                             *)

\* A named call has an id of its own.
LEMMA NamedId ==
  ASSUME Types, NEW c \in Clients
  PROVE  /\ co[c].pc \in Named => Id(c) \in TxnIds /\ Id(c)[1] = c
         /\ co[c].n + 1 \in 1 .. MaxAttempts =>
              <<c, co[c].n + 1>> \in TxnIds /\ <<c, co[c].n + 1>>[1] = c
         /\ co[c].n < MaxAttempts => co[c].n + 1 \in 1 .. MaxAttempts
         /\ co[c].n \in Nat
<1>1. co[c].n \in 0 .. MaxAttempts /\ (co[c].pc \in Named => co[c].n # 0)
  BY CallFields DEF Types
<1> QED BY <1>1, TxnAssumption DEF Id, TxnIds

\* The bounds a fault leaves.
LEMMA FaultTypes ==
  ASSUME Types, Fault PROVE faults' \in Nat
BY DEF Types, OtherTypes, Fault

\* What an unfinished message is about.
LEMMA MessageFields ==
  ASSUME NEW m \in Messages
  PROVE  /\ m.t \in TxnIds /\ m.op \in {"stage", "Committed", "Aborted"}
         /\ m.op = "stage" => m.b \in Tablets /\ m = [op |-> "stage", t |-> m.t, b |-> m.b]
BY DEF Messages

\* A step of c's coordinator.
LEMMA CoordinatorTypes ==
  ASSUME Types, NEW c \in Clients, Coordinator(c)
  PROVE  Types'
<1> USE DEF Types
<1>a. UNCHANGED tablets => TabletTypes'
  BY DEF tablets, TabletTypes
<1>b. ASSUME NEW a \in {"none", "ok", "failed", "unknown"}
      PROVE  [answer EXCEPT ![c] = a] \in [Clients -> {"none", "ok", "failed", "unknown"}]
  BY DEF OtherTypes
<1>c. ASSUME UNCHANGED <<late, bounds>>,
             answer' \in [Clients -> {"none", "ok", "failed", "unknown"}]
      PROVE  OtherTypes'
  BY <1>c DEF OtherTypes, bounds
<1>1. CASE Begin(c)
  <2>1. CASE PreHolds(c)
    <3>1. "anchor" \in Phases /\ "anchor" \notin Named
      BY DEF Phases, Named
    <3>2. co' \in [Clients -> Calls]
      BY <1>1, <2>1, <3>1, PhaseMove DEF Begin, Moved
    <3> QED BY <1>1, <2>1, <1>a, <1>c, <3>2 DEF Begin, OtherTypes
  <2>2. CASE ~PreHolds(c)
    <3>1. co' \in [Clients -> Calls]
      BY <1>1, <2>2, EndMove DEF Begin, Moved, End
    <3> QED BY <1>1, <2>2, <1>a, <1>b, <1>c, <3>1 DEF Begin, End
  <2> QED BY <2>1, <2>2
<1>2. CASE StageAnchor(c)
  <2> DEFINE t == <<c, co[c].n + 1>>
  <2>1. t \in TxnIds /\ AnchorOf[c] \in Tablets
    BY <1>2, NamedId, TxnAssumption DEF StageAnchor
  <2>2. TabletTypes'
    BY <1>2, <2>1, EntryTypes DEF StageAnchor
  <2>3. co' \in [Clients -> Calls]
    BY <1>2, AnchorMove DEF Moved
  <2>4. answer' = answer \/ \E a \in {"failed", "unknown"} : answer' = [answer EXCEPT ![c] = a]
    BY <1>2, AnchorMove
  <2>5. answer' \in [Clients -> {"none", "ok", "failed", "unknown"}]
    BY <2>4, <1>b DEF OtherTypes
  <2> QED BY <1>2, <2>2, <2>3, <2>5, <1>c DEF StageAnchor
<1>3. CASE StageAnchorExhausted(c)
  <2>1. co' \in [Clients -> Calls]
    BY <1>3, EndMove DEF StageAnchorExhausted, Moved, End
  <2> QED BY <1>3, <1>a, <1>b, <1>c, <2>1 DEF StageAnchorExhausted, End
<1>4. ASSUME NEW b \in Tablets, Push(c, b) PROVE Types'
  <2>1. co' \in [Clients -> Calls]
    BY <1>4, PushMove DEF Push, Still, Moved
  <2>2. TabletTypes'
    <3> DEFINE p == co[c].push[b]
    <3>1. p \in [k : Keys, t : TxnIds]
      BY <1>4, CallFields DEF Push, Pushes
    <3>2. p.t \in TxnIds /\ {p.k} \in SUBSET Keys
      BY <3>1
    <3>3. CASE Decided(rec[p.t])
      <4>1. rec[p.t].st \in {"Committed", "Aborted"} /\ ApplyResolve(p.t, b, {p.k}, rec[p.t].st)
        BY <1>4, <3>3 DEF Push, Decided
      <4> QED BY <3>2, <4>1, EntryTypes
    <3>4. CASE ~Decided(rec[p.t])
      BY <1>4, <3>4, <1>a DEF Push
    <3> QED BY <3>3, <3>4
  <2> QED BY <1>4, <1>c, <2>1, <2>2 DEF Push, OtherTypes
<1>5. ASSUME NEW b \in Tablets, StagePart(c, b) PROVE Types'
  <2>1. Id(c) \in TxnIds
    BY <1>5, NamedId DEF StagePart, Staging, Named
  <2>2. TabletTypes'
    BY <1>5, <2>1, EntryTypes DEF StagePart
  <2> QED BY <1>5, <2>2, <1>c, PartMove DEF StagePart, Moved, OtherTypes
<1>6. ASSUME NEW b \in Tablets, StagePartExhausted(c, b) PROVE Types'
  BY <1>6, <1>a, <1>c, ExhaustedMove DEF StagePartExhausted, Moved, OtherTypes
<1>7. ASSUME NEW b \in Tablets, Resolve(c, b) PROVE Types'
  <2> DEFINE t == Id(c)
  <2>1. t \in TxnIds /\ t[1] = c
    BY <1>7, NamedId DEF Resolve, Named
  <2>2. KeysAt(c, b) \in SUBSET Keys
    BY <2>1, Ids
  <2>3. ApplyResolve(t, b, KeysAt(c, b), rec[t].st)
    BY <1>7 DEF Resolve
  <2>4. rec[t].st \in {"None", "Pending", "Committed", "Aborted"}
    BY <2>1, RowFields
  <2>5. TabletTypes'
    BY <2>1, <2>2, <2>3, <2>4, EntryTypes
  <2> QED BY <1>7, <1>c, <2>5, ResolveMove DEF Resolve, Moved, OtherTypes
<1>8. CASE Choose(c)
  <2>1. answer' = answer \/ answer' = [answer EXCEPT ![c] = "failed"]
    BY <1>8, ChooseMove
  <2>2. answer' \in [Clients -> {"none", "ok", "failed", "unknown"}]
    BY <2>1, <1>b DEF OtherTypes
  <2> QED BY <1>8, <1>a, <1>c, <2>2, ChooseMove DEF Choose, Moved
<1>9. CASE Decide(c)
  <2>1. Id(c) \in TxnIds /\ co[c].n # 0 /\ co[c].want \in {"Committed", "Aborted"}
    BY <1>9, NamedId, CallFields DEF Decide, Named
  <2>2. TabletTypes'
    BY <1>9, <2>1, EntryTypes DEF Decide
  <2>3. "answer" \in Phases
    BY DEF Phases
  <2>4. co' \in [Clients -> Calls]
    BY <1>9, <2>1, <2>3, PhaseMove DEF Decide, Moved
  <2> QED BY <1>9, <1>c, <2>2, <2>4 DEF Decide, OtherTypes
<1>10. CASE AnswerClient(c)
  <2> DEFINE a == IF rec[Id(c)].st = "Committed" THEN "ok"
                  ELSE IF co[c].want = "Aborted" THEN co[c].fail ELSE "failed"
  <2>1. a \in {"none", "ok", "failed", "unknown"} /\ answer' = [answer EXCEPT ![c] = a]
    BY <1>10, CallFields DEF AnswerClient
  <2>2. answer' \in [Clients -> {"none", "ok", "failed", "unknown"}]
    BY <2>1 DEF OtherTypes
  <2> QED BY <1>10, <1>a, <1>c, <2>2, AnswerMove DEF AnswerClient, Moved
<1> QED BY <1>1, <1>2, <1>3, <1>4, <1>5, <1>6, <1>7, <1>8, <1>9, <1>10 DEF Coordinator

\* A fault.
LEMMA FaultyTypesKept ==
  ASSUME Types, Faulty PROVE Types'
<1> USE DEF Types
<1>a. UNCHANGED tablets => TabletTypes'
  BY DEF tablets, TabletTypes
<1>b. ASSUME Fault, late' \subseteq Messages, UNCHANGED <<writes, gate>>,
             answer' \in [Clients -> {"none", "ok", "failed", "unknown"}]
      PROVE  OtherTypes'
  BY <1>b, FaultTypes DEF OtherTypes
<1>1. ASSUME NEW c \in Clients, StageAnchorLost(c) PROVE Types'
  <2>1. <<c, co[c].n + 1>> \in TxnIds /\ AnchorOf[c] \in Tablets
    BY <1>1, NamedId, TxnAssumption DEF StageAnchorLost
  <2>2. late' \subseteq Messages
    BY <1>1, <2>1 DEF StageAnchorLost, Messages, OtherTypes
  <2> QED BY <1>1, <1>a, <1>b, <2>2, AnchorLostMove DEF StageAnchorLost, Moved, OtherTypes
<1>2. ASSUME NEW c \in Clients, StageAnchorFenced(c) PROVE Types'
  <2>1. co' \in [Clients -> Calls]
    BY <1>2, EndMove DEF StageAnchorFenced, Moved, End
  <2> QED BY <1>2, <1>a, <1>b, <2>1 DEF StageAnchorFenced, End, OtherTypes
<1>3. ASSUME NEW c \in Clients, NEW b \in Tablets, StagePartLost(c, b) PROVE Types'
  <2>1. Id(c) \in TxnIds
    BY <1>3, NamedId DEF StagePartLost, Staging, Named
  <2>2. late' \subseteq Messages
    BY <1>3, <2>1 DEF StagePartLost, Messages, OtherTypes
  <2>3. co' \in [Clients -> Calls]
    BY <1>3, PartLostMove DEF Still, Moved
  <2> QED BY <1>3, <1>a, <1>b, <2>2, <2>3 DEF StagePartLost, OtherTypes
<1>4. ASSUME NEW c \in Clients, DecideLost(c) PROVE Types'
  <2>1. Id(c) \in TxnIds /\ co[c].want \in {"Committed", "Aborted"}
    BY <1>4, NamedId, CallFields DEF DecideLost, Named
  <2>2. late' \subseteq Messages
    BY <1>4, <2>1 DEF DecideLost, Messages, OtherTypes
  <2> QED BY <1>4, <1>a, <1>b, <2>2 DEF DecideLost, OtherTypes
<1>5. ASSUME NEW c \in Clients, DecideGiveUp(c) PROVE Types'
  <2>1. co' \in [Clients -> Calls]
    BY <1>5, EndMove DEF DecideGiveUp, Moved, End
  <2> QED BY <1>5, <1>a, <1>b, <2>1 DEF DecideGiveUp, End, OtherTypes
<1>6. ASSUME NEW c \in Clients, Crash(c) PROVE Types'
  <2>1. co' \in [Clients -> Calls]
    BY <1>6, EndMove DEF Crash, Moved
  <2> QED BY <1>6, <1>a, <1>b, <2>1 DEF Crash, OtherTypes
<1>7. ASSUME NEW w \in Workers, Decline(w) PROVE Types'
  <2>1. wk' \in [Workers -> Jobs]
    BY <1>7, IdleMove DEF Decline, Worked
  <2> QED BY <1>7, <1>a, <1>b, <2>1 DEF Decline, OtherTypes
<1> QED BY <1>1, <1>2, <1>3, <1>4, <1>5, <1>6, <1>7 DEF Faulty

\* A step of a worker.
LEMMA WorkerTypes ==
  ASSUME Types, NEW w \in Workers, GoesOn(w) PROVE Types'
<1> USE DEF Types
<1>a. UNCHANGED tablets => TabletTypes'
  BY DEF tablets, TabletTypes
<1>b. UNCHANGED <<late, answer, bounds>> => OtherTypes'
  BY DEF OtherTypes, bounds
<1> DEFINE v == wk[w]
<1>c. v \in Jobs /\ v.todo \in SUBSET Keys /\ (v.pc # "idle" => v.t \in TxnIds)
      /\ \A b \in Tablets : At(v.todo, b) \in SUBSET Keys
  BY JobFields DEF At
<1>d. v.pc # "idle" => rec[v.t].st \in {"None", "Pending", "Committed", "Aborted"}
  BY <1>c, RowFields
<1>1. ASSUME NEW k \in Keys, RecVerify(w, k) PROVE Types'
  BY <1>1, <1>a, <1>b, RecVerifyMove DEF RecVerify, Worked
<1>2. ASSUME NEW k \in Keys, SweepVerify(w, k) PROVE Types'
  BY <1>2, <1>a, <1>b, SweepVerifyMove DEF SweepVerify, Worked
<1>3. CASE RecDecide(w)
  <2>1. TabletTypes'
    BY <1>3, <1>c, EntryTypes DEF RecDecide
  <2> QED BY <1>3, <1>b, <2>1, RecDecideMove DEF RecDecide, Worked
<1>4. CASE RecOrphan(w)
  <2>1. TabletTypes'
    BY <1>4, <1>c, EntryTypes DEF RecOrphan
  <2> QED BY <1>4, <1>b, <2>1, RecOrphanMove DEF RecOrphan, Worked
<1>5. ASSUME NEW b \in Tablets, RecResolve(w, b) PROVE Types'
  <2>1. TabletTypes'
    BY <1>5, <1>c, <1>d, EntryTypes DEF RecResolve
  <2> QED BY <1>5, <1>b, <2>1, RecResolveMove DEF RecResolve, Worked
<1>6. ASSUME NEW b \in Tablets, SweepResolve(w, b) PROVE Types'
  <2>1. TabletTypes'
    BY <1>6, <1>c, <1>d, EntryTypes DEF SweepResolve
  <2> QED BY <1>6, <1>b, <2>1, SweepResolveMove DEF SweepResolve, Worked
<1>7. CASE RecEnd(w)
  BY <1>7, <1>a, <1>b, IdleMove DEF RecEnd, Worked
<1>8. CASE Settle(w)
  <2>1. v.t \in TxnIds /\ rec[v.t] \in Records
    BY <1>8, <1>c, RowFields DEF Settle
  <2>2. SettledRecord(rec[v.t]) \in Records
    BY <2>1 DEF SettledRecord, Records
  <2>3. rec' \in [TxnIds -> Records]
    BY <1>8, <2>1, <2>2 DEF Settle, TabletTypes
  <2>4. TabletTypes'
    BY <1>8, <2>3 DEF Settle, TabletTypes
  <2> QED BY <1>8, <1>b, <2>4, IdleMove DEF Settle, Worked
<1> QED BY <1>1, <1>2, <1>3, <1>4, <1>5, <1>6, <1>7, <1>8 DEF GoesOn

\* A proposal that is applied late.
LEMMA LateTypes ==
  ASSUME Types, NEW m \in late, LateApply(m) PROVE Types'
<1>1. m \in Messages
  BY DEF Types, OtherTypes
<1>2. TabletTypes'
  BY <1>1, MessageFields, EntryTypes DEF LateApply, Types
<1>3. OtherTypes'
  BY DEF LateApply, Types, OtherTypes, bounds
<1> QED BY <1>2, <1>3 DEF LateApply, Types

\* Every step keeps the types.
LEMMA TypesKept ==
  ASSUME Types, [Next]_vars PROVE Types'
<1> USE DEF Types
<1>a. UNCHANGED tablets => TabletTypes'
  BY DEF tablets, TabletTypes
<1>b. UNCHANGED <<late, answer, bounds>> => OtherTypes'
  BY DEF OtherTypes, bounds
<1>1. ASSUME NEW k \in Keys, Write(k) PROVE Types'
  <2>1. Committed(Plain) \in Rows
    BY DEF Committed, Rows, Vals
  <2>2. TabletTypes'
    BY <1>1, <2>1 DEF Write, TabletTypes
  <2>3. OtherTypes'
    BY <1>1 DEF Write, OtherTypes
  <2> QED BY <1>1, <2>2, <2>3 DEF Write
<1>2. ASSUME NEW w \in Workers, NEW t \in TxnIds, RecView(w, t) PROVE Types'
  BY <1>2, <1>a, <1>b, RecViewMove DEF RecView, Worked
<1>3. ASSUME NEW w \in Workers, NEW t \in TxnIds, SweepView(w, t) PROVE Types'
  BY <1>3, <1>a, <1>b, SweepViewMove DEF SweepView, Worked
<1>4. ASSUME NEW t \in TxnIds, Reap(t) PROVE Types'
  <2>1. NoRecord \in Records
    BY DEF NoRecord, Records
  <2>2. TabletTypes'
    BY <1>4, <2>1 DEF Reap, TabletTypes
  <2> QED BY <1>4, <2>2, <1>b DEF Reap
<1>5. CASE UNCHANGED vars
  BY <1>5, <1>a, <1>b DEF vars, tablets, bounds
<1> QED BY <1>1, <1>2, <1>3, <1>4, <1>5, CoordinatorTypes, FaultyTypesKept, LateTypes, WorkerTypes
        DEF Next

\* The types hold at the start.
LEMMA InitTypes == Init => Types
<1> SUFFICES ASSUME NEW s \in Start,
                    /\ row = [k \in Keys |-> Committed(NoVal)]
                    /\ mark = [k \in Keys |-> NoTxn]
                    /\ rec = [t \in TxnIds |-> NoRecord]
                    /\ co = [c \in Clients |-> IF c \in s.calls THEN NewCall ELSE Ended]
                    /\ wk = [r \in Workers |-> Idle]
                    /\ late = {}
                    /\ answer = [c \in Clients |-> "none"]
                    /\ done = {} /\ gone = {}
                    /\ faults = s.faults /\ writes = s.writes /\ gate = s.gate
             PROVE  Types
  BY DEF Init
<1>1. Committed(NoVal) \in Rows /\ NoRecord \in Records
  BY DEF Committed, Rows, Vals, NoRecord, Records
<1>2. TabletTypes
  BY <1>1 DEF TabletTypes
<1>3. OtherTypes
  BY TxnAssumption DEF OtherTypes
<1>4. co \in [Clients -> Calls] /\ wk \in [Workers -> Jobs]
  BY NewCalls, IdleJob
<1> QED BY <1>2, <1>3, <1>4 DEF Types

\* The types are kept by every behaviour: rows, records, coordinators, visits,
\* proposals and answers are what the code can hold.
THEOREM TypeCorrect == Spec => []TypeOK
<1>1. Init => Types
  BY InitTypes
<1>2. Types /\ [Next]_vars => Types'
  BY TypesKept
<1>3. Types => TypeOK
  BY TypesAreOK
<1> QED BY <1>1, <1>2, <1>3, PTL DEF Spec

-----------------------------------------------------------------------------
(* What one entry may change for an id.                                    *)

\* The call of u's client is staging its participants under u.
ByCall(u) == co[u[1]].pc = "parts" /\ u = Id(u[1])

\* Nobody asks for u any more.
Forgotten(u) == co[u[1]].pc = "end" /\ \A w \in Workers : wk[w].t # u

\* Nothing of u changes on the tablets, except that its markers may be overwritten.
IdKept(u) ==
    /\ rec'[u] = rec[u] /\ (u \in done' <=> u \in done)
    /\ \A k \in Keys : /\ row'[k].txn = u <=> row[k].txn = u
                       /\ mark'[k] = u => mark[k] = u
                       /\ <<u, k>> \in gone' <=> <<u, k>> \in gone

\* A record starts as pending, once; it is decided once, and the decision stays
\* until nobody asks for it.
RecordStep(u) ==
    /\ rec'[u].st = "Pending" => Unused(u) \/ rec[u].st = "Pending"
    /\ rec[u].st # "None" => rec'[u].st # "None" \/ Forgotten(u)
    /\ Decided(rec[u]) => rec'[u].st = rec[u].st \/ Forgotten(u)
    /\ rec'[u].st = "Committed" => rec[u].st \in {"Committed", "Pending"}
    /\ rec[u].st \in {"None", "Aborted"} /\ ~Unused(u) => rec'[u].st \in {"None", "Aborted"}
    /\ u \in done => u \in done'
    /\ u \in done' => u \in done \/ rec[u].st = "Pending"

\* The intents of a pending transaction stay, those of a committed one are not
\* staged again, and only the staging call brings u to a participant.
IntentStep(u) ==
    /\ rec[u].st = "Pending" /\ rec'[u].st = "Pending" =>
         \A k \in Keys : row[k].txn = u => row'[k].txn = u
    /\ rec[u].st = "Committed" =>
         \A k \in Writes[u[1]] : row[k].txn # u => row'[k].txn # u
    /\ \A k \in PartKeys(u[1]) :
         row'[k].txn = u \/ mark'[k] = u =>
           row[k].txn = u \/ mark[k] = u \/ Parted(u) \/ ByCall(u)

IdStep(u) == RecordStep(u) /\ IntentStep(u)

\* What an entry about t does: the tablets stay what they should be, and no other
\* id notices.
Effect(t) ==
    /\ InPlace' /\ GoneStays' /\ RecordInv'
    /\ \A u \in TxnIds : IdStep(u) /\ (u # t => IdKept(u))

\* An id that is kept takes a step like any other.
LEMMA KeptSteps ==
  ASSUME TabletTypes, NEW u \in TxnIds, IdKept(u)
  PROVE  IdStep(u)
<1>1. RecordStep(u)
  BY RowFields DEF IdKept, RecordStep
<1>2. \A k \in Writes[u[1]] : k \in Keys
  BY Ids
<1>3. \A k \in PartKeys(u[1]) : k \in Keys
  BY Ids
<1>4. IntentStep(u)
  BY <1>2, <1>3 DEF IdKept, IntentStep
<1> QED BY <1>1, <1>4 DEF IdStep

\* An entry that does nothing.
LEMMA NoEffect ==
  ASSUME TabletTypes, InPlace, GoneStays, RecordInv, UNCHANGED tablets, NEW t
  PROVE  Effect(t)
<1>1. /\ row' = row /\ mark' = mark /\ rec' = rec /\ done' = done /\ gone' = gone
  BY DEF tablets
<1>2. ASSUME NEW u \in TxnIds PROVE IdKept(u)
  BY <1>1 DEF IdKept
<1>3. InPlace' /\ GoneStays'
  BY <1>1 DEF InPlace, GoneStays, PartKeys
<1>4. RecordInv'
  BY <1>1 DEF RecordInv, PendingRecords, CommittedRecords, StubRecords, DoneRecords,
              AbsentBelow, Live, AnchorKeys, PartKeys
<1> QED BY <1>2, <1>3, <1>4, KeptSteps DEF Effect

-----------------------------------------------------------------------------
(* The effect of a stage.                                                  *)

\* An id is staged on its anchor while nothing knows of it, and on a participant
\* by its call or by a proposal of that call.
MayStage(t, b) ==
    IF b = AnchorOf[t[1]] THEN Unused(t) ELSE Parted(t) \/ ByCall(t)

\* A stage that lands.
LEMMA StageEffect ==
  ASSUME Types, InPlace, GoneStays, RecordInv, NEW t \in TxnIds, NEW b \in Tablets,
         MayStage(t, b), ApplyStage(t, b)
  PROVE  Effect(t)
<1> DEFINE ks == KeysAt(t[1], b)  isAnchor == b = AnchorOf[t[1]]
<1>1. CASE UNCHANGED tablets
  BY <1>1, NoEffect DEF Types
<1>2. CASE ~UNCHANGED tablets
  <2> USE DEF Types
  <2>1. /\ \A k \in ks :
             /\ row[k].txn \in {NoTxn, t} /\ mark[k] # t
             /\ k \in Absent[t[1]] /\ row[k].txn = NoTxn => row[k].val = NoVal
             /\ row'[k].txn = t /\ row'[k].val = t
             /\ row'[k].prior = IF row[k].txn = NoTxn THEN row[k].val ELSE row[k].prior
        /\ \A k \in Keys \ ks : row'[k] = row[k]
        /\ mark' = mark /\ done' = done /\ gone' = gone
        /\ \A u \in TxnIds \ {t} : rec'[u] = rec[u]
        /\ isAnchor => rec'[t] = StagedRecord(Writes[t[1]])
        /\ ~isAnchor => rec' = rec
    BY <1>2, StageSays
  <2>2. /\ ks \subseteq Writes[t[1]] /\ Writes[t[1]] \subseteq Keys /\ t # NoTxn
        /\ isAnchor => ks = AnchorKeys(t[1])
        /\ ~isAnchor => ks \subseteq PartKeys(t[1])
        /\ isAnchor => ks \cap PartKeys(t[1]) = {}
    BY Ids DEF KeysAt, AnchorKeys, PartKeys
  <2>3. /\ \A u \in TxnIds \ {t} : rec'[u] = rec[u]
        /\ isAnchor => rec'[t] = StagedRecord(Writes[t[1]])
        /\ ~isAnchor => rec' = rec
    BY <2>1
  <2>4. rec \in [TxnIds -> Records] /\ \A k \in Keys : row[k].txn \in TxnIds \cup {NoTxn}
    BY RowFields DEF TabletTypes
  <2> HIDE DEF ks, isAnchor
  <2>5. ASSUME NEW u \in TxnIds, u # t PROVE IdKept(u)
    <3>1. \A k \in Keys : row'[k].txn = u <=> row[k].txn = u
      BY <2>1, <2>5, Ids
    <3> QED BY <2>1, <2>3, <2>5, <3>1 DEF IdKept
  <2>6. isAnchor => Unused(t)
    BY DEF MayStage, isAnchor
  <2>7. ~isAnchor => Parted(t) \/ ByCall(t)
    BY DEF MayStage, isAnchor
  <2>8. InPlace'
    BY <2>1, <2>2 DEF InPlace
  <2>9. GoneStays'
    <3> SUFFICES ASSUME NEW u \in TxnIds, NEW k \in Keys, <<u, k>> \in gone'
                 PROVE  row'[k].txn # u /\ k \in Writes[u[1]]
                        /\ (k \in PartKeys(u[1]) => mark'[k] = u)
      BY DEF GoneStays, PartKeys
    <3>1. row[k].txn # u /\ k \in Writes[u[1]] /\ (k \in PartKeys(u[1]) => mark[k] = u)
      BY <2>1 DEF GoneStays
    <3>2. CASE u = t /\ k \in ks
      BY <2>1, <2>2, <2>6, <3>1, <3>2 DEF Unused
    <3>3. CASE ~(u = t /\ k \in ks)
      BY <2>1, <3>1, <3>3
    <3> QED BY <3>2, <3>3
  <2>10. IdStep(t)
    <3>1. CASE isAnchor
      <4>1. rec[t] = NoRecord /\ rec'[t].st = "Pending" /\ t \notin done /\ Unused(t)
        BY <2>3, <2>6, <3>1 DEF Unused, StagedRecord
      <4>2. rec[t].st = "None"
        BY <4>1 DEF NoRecord
      <4>3. RecordStep(t)
        BY <2>1, <4>1, <4>2 DEF RecordStep, Decided
      <4>4. \A k \in PartKeys(t[1]) : k \in Keys /\ k \notin ks
        BY <2>2, <3>1, Ids
      <4>5. IntentStep(t)
        BY <2>1, <4>2, <4>4 DEF IntentStep
      <4> QED BY <4>3, <4>5 DEF IdStep
    <3>2. CASE ~isAnchor
      <4>1. RecordStep(t)
        BY <2>1, <2>3, <3>2, RowFields DEF RecordStep
      <4>2. rec[t].st = "Committed" =>
              \A k \in Writes[t[1]] : row[k].txn # t => row'[k].txn # t
        <5> SUFFICES ASSUME rec[t].st = "Committed", NEW k \in Writes[t[1]], row[k].txn # t
                     PROVE  row'[k].txn # t
          OBVIOUS
        <5>1. t \in done
          BY DEF RecordInv, CommittedRecords
        <5>2. k \in PartKeys(t[1]) => mark[k] = t
          BY <5>1 DEF RecordInv, DoneRecords
        <5>3. k \notin ks
          BY <2>1, <2>2, <3>2, <5>2
        <5> QED BY <2>1, <2>2, <5>3
      <4>3. IntentStep(t)
        BY <2>1, <2>2, <2>7, <3>2, <4>2, Ids DEF IntentStep
      <4> QED BY <4>1, <4>3 DEF IdStep
    <3> QED BY <3>1, <3>2
  <2>11. RecordInv'
    <3>1. PendingRecords'
      <4> SUFFICES ASSUME NEW u \in TxnIds, rec'[u].st = "Pending"
                   PROVE  /\ ~rec'[u].stub /\ rec'[u].spans = Writes[u[1]] /\ u \notin done'
                          /\ \A k \in AnchorKeys(u[1]) : row'[k].txn = u
        BY DEF PendingRecords, AnchorKeys
      <4>1. CASE u = t /\ isAnchor
        BY <2>1, <2>2, <2>3, <2>6, <4>1 DEF Unused, StagedRecord
      <4>2. CASE ~(u = t /\ isAnchor)
        <5>1. rec'[u] = rec[u]
          BY <2>3, <4>2
        <5>2. \A k \in AnchorKeys(u[1]) : k \in Keys /\ row[k].txn = u
          BY <5>1, Ids DEF RecordInv, PendingRecords
        <5>3. \A k \in AnchorKeys(u[1]) : row'[k].txn = u
          BY <2>1, <5>2, Ids
        <5> QED BY <2>1, <5>1, <5>3 DEF RecordInv, PendingRecords
      <4> QED BY <4>1, <4>2
    <3>2. CommittedRecords' /\ StubRecords'
      BY <2>1, <2>3 DEF RecordInv, CommittedRecords, StubRecords, StagedRecord, Decided
    <3>3. DoneRecords'
      <4> SUFFICES ASSUME NEW u \in TxnIds, u \in done'
                   PROVE  /\ rec'[u].st \in {"Committed", "None"}
                          /\ \A k \in PartKeys(u[1]) : row'[k].txn = u \/ mark'[k] = u
                          /\ rec'[u].st = "None" \/ rec'[u].stub =>
                               \A k \in Keys : row'[k].txn # u
        BY DEF DoneRecords, Live, PartKeys
      <4>1. u \in done /\ rec'[u] = rec[u]
        BY <2>1, <2>3, <2>6 DEF Unused
      <4>2. /\ rec[u].st \in {"Committed", "None"}
            /\ \A k \in PartKeys(u[1]) : row[k].txn = u \/ mark[k] = u
            /\ rec[u].st = "None" \/ rec[u].stub => \A k \in Keys : row[k].txn # u
        BY <4>1 DEF RecordInv, DoneRecords, Live
      <4>3. \A k \in PartKeys(u[1]) : row'[k].txn = u \/ mark'[k] = u
        BY <2>1, <4>2, Ids
      <4>4. ASSUME rec[u].st = "None" \/ rec[u].stub, NEW k \in Keys PROVE row'[k].txn # u
        <5>1. row[k].txn # u
          BY <4>2, <4>4
        <5>2. u = t => ~isAnchor
          BY <2>6, <4>1 DEF Unused
        <5>3. u = t => k \notin ks
          BY <2>1, <2>2, <4>2, <5>1, <5>2
        <5> QED BY <2>1, <5>1, <5>3
      <4> QED BY <4>1, <4>2, <4>3, <4>4
    <3>4. AbsentBelow'
      <4> SUFFICES ASSUME NEW k \in Keys, row'[k].txn # NoTxn, k \in Absent[row'[k].txn[1]]
                   PROVE  row'[k].prior = NoVal
        BY DEF AbsentBelow
      <4>1. CASE k \in ks
        BY <2>1, <4>1 DEF RecordInv, AbsentBelow
      <4>2. CASE k \notin ks
        BY <2>1, <4>2 DEF RecordInv, AbsentBelow
      <4> QED BY <4>1, <4>2
    <3> QED BY <3>1, <3>2, <3>3, <3>4 DEF RecordInv
  <2> QED BY <2>5, <2>8, <2>9, <2>10, <2>11, KeptSteps DEF Effect
<1> QED BY <1>1, <1>2

-----------------------------------------------------------------------------
(* The effect of the other entries.                                        *)

\* A decision: whoever makes it to commit has seen every intent, and whoever
\* aborts an orphan knows that it did not commit.
MayDecide(t, o, orphan) ==
    /\ ~Unused(t)
    /\ o = "Committed" /\ rec[t].st = "Pending" => StagedAll(t)
    /\ orphan => t \notin done

\* A decision reaches the record of t only.
LEMMA DecisionEffect ==
  ASSUME Types, InPlace, GoneStays, RecordInv, NEW t \in TxnIds,
         NEW o \in {"Committed", "Aborted"}, NEW orphan \in BOOLEAN,
         MayDecide(t, o, orphan), ApplyDecision(t, o, orphan)
  PROVE  Effect(t)
<1> USE DEF Types
<1>1. /\ \A u \in TxnIds \ {t} : rec'[u] = rec[u]
      /\ rec[t].st = "Pending" => /\ rec'[t].st = o /\ rec'[t].stub = rec[t].stub
                                  /\ rec'[t].spans = rec[t].spans
      /\ rec[t].st = "None" =>
           \/ rec'[t] = rec[t]
           \/ orphan /\ rec'[t].st = "Aborted" /\ ~rec'[t].stub
      /\ Decided(rec[t]) => rec'[t] = rec[t]
      /\ done' = IF rec[t].st = "Pending" /\ o = "Committed" THEN done \cup {t} ELSE done
      /\ row' = row /\ mark' = mark /\ gone' = gone
  <2>1. [NoRecord EXCEPT !.st = "Aborted"].st = "Aborted"
        /\ ~[NoRecord EXCEPT !.st = "Aborted"].stub
    BY DEF NoRecord
  <2>2. rec[t] \in Records
    BY RowFields
  <2>3. LET x == [rec[t] EXCEPT !.st = o]
        IN x.st = o /\ x.stub = rec[t].stub /\ x.spans = rec[t].spans
    BY <2>2 DEF Records
  <2> QED BY <2>1, <2>3, DecisionSays
<1>2. rec[t].st \in {"None", "Pending"} \/ Decided(rec[t])
  BY RowFields DEF Decided
<1>3. ASSUME NEW u \in TxnIds, u # t PROVE IdKept(u)
  BY <1>1, <1>3 DEF IdKept
<1>4. InPlace' /\ GoneStays'
  BY <1>1 DEF InPlace, GoneStays, PartKeys
<1>5. IdStep(t)
  <2>1. t \in done => rec[t].st \in {"Committed", "None"}
    BY DEF RecordInv, DoneRecords
  <2>2. RecordStep(t)
    BY <1>1, <1>2, <2>1 DEF RecordStep, Decided, MayDecide
  <2>3. IntentStep(t)
    BY <1>1 DEF IntentStep
  <2> QED BY <2>2, <2>3 DEF IdStep
<1>6. RecordInv'
  <2>1. PendingRecords'
    <3> SUFFICES ASSUME NEW u \in TxnIds, rec'[u].st = "Pending"
                 PROVE  /\ ~rec'[u].stub /\ rec'[u].spans = Writes[u[1]] /\ u \notin done'
                        /\ \A k \in AnchorKeys(u[1]) : row'[k].txn = u
      BY DEF PendingRecords, AnchorKeys
    <3>1. u # t
      BY <1>1, <1>2 DEF Decided
    <3> QED BY <1>1, <3>1 DEF RecordInv, PendingRecords
  <2>2. CommittedRecords'
    <3> SUFFICES ASSUME NEW u \in TxnIds, rec'[u].st = "Committed"
                 PROVE  u \in done' /\ (~rec'[u].stub => rec'[u].spans = Writes[u[1]])
      BY DEF CommittedRecords
    <3>1. CASE u = t /\ rec[t].st = "Pending"
      BY <1>1, <3>1 DEF RecordInv, PendingRecords
    <3>2. CASE ~(u = t /\ rec[t].st = "Pending")
      <4>1. rec'[u] = rec[u]
        BY <1>1, <1>2, <3>2
      <4> QED BY <1>1, <4>1 DEF RecordInv, CommittedRecords
    <3> QED BY <3>1, <3>2
  <2>3. StubRecords'
    BY <1>1, <1>2 DEF RecordInv, StubRecords, PendingRecords, Decided
  <2>4. DoneRecords'
    <3> SUFFICES ASSUME NEW u \in TxnIds, u \in done'
                 PROVE  /\ rec'[u].st \in {"Committed", "None"}
                        /\ \A k \in PartKeys(u[1]) : row[k].txn = u \/ mark[k] = u
                        /\ rec'[u].st = "None" \/ rec'[u].stub =>
                             \A k \in Keys : row[k].txn # u
      BY <1>1 DEF DoneRecords, Live, PartKeys
    <3>1. CASE u \in done
      <4>1. u = t => rec[t].st \in {"Committed", "None"} /\ ~orphan
        BY <3>1 DEF RecordInv, DoneRecords, MayDecide
      <4>2. rec'[u] = rec[u]
        BY <1>1, <1>2, <4>1 DEF Decided
      <4> QED BY <3>1, <4>2 DEF RecordInv, DoneRecords, Live
    <3>2. CASE u \notin done
      <4>1. u = t /\ rec[t].st = "Pending" /\ o = "Committed"
        BY <1>1, <3>2
      <4>2. rec'[t].st = "Committed" /\ ~rec'[t].stub
        BY <1>1, <4>1 DEF RecordInv, PendingRecords
      <4>3. StagedAll(t)
        BY <4>1 DEF MayDecide
      <4> QED BY <4>1, <4>2, <4>3 DEF StagedAll, PartKeys
    <3> QED BY <3>1, <3>2
  <2>5. AbsentBelow'
    BY <1>1 DEF RecordInv, AbsentBelow
  <2> QED BY <2>1, <2>2, <2>3, <2>4, <2>5 DEF RecordInv
<1> QED BY <1>3, <1>4, <1>5, <1>6, KeptSteps DEF Effect

\* Where two ids meet at a participant, they are one.
LEMMA OneAtParticipant ==
  ASSUME Types, SharedAtAnchor, InPlace, OneParted, NEW t \in TxnIds, NEW u \in TxnIds,
         NEW k \in Keys, row[k].txn = t, mark[k] = u, k \in PartKeys(u[1])
  PROVE  t = u
<1>1. k \in Writes[t[1]] /\ t[1] \in Clients /\ u[1] \in Clients
  BY Ids DEF InPlace
<1>2. t[1] = u[1]
  BY <1>1 DEF SharedAtAnchor, PartKeys
<1>3. Parted(t) /\ Parted(u)
  BY <1>2 DEF Parted
<1> QED BY <1>2, <1>3 DEF OneParted

\* The resolution of a decided transaction.
LEMMA ResolveEffect ==
  ASSUME Types, SharedAtAnchor, OneParted, InPlace, GoneStays, RecordInv,
         NEW t \in TxnIds, NEW b \in Tablets, NEW ks \in SUBSET Keys,
         Decided(rec[t]), ApplyResolve(t, b, ks, rec[t].st)
  PROVE  Effect(t)
<1>1. CASE UNCHANGED tablets
  BY <1>1, NoEffect DEF Types
<1>2. CASE ~UNCHANGED tablets
  <2> USE DEF Types
  <2> DEFINE hit(k) == k \in ks /\ row[k].txn = t
  <2>1. PICK o \in {"None", "Pending", "Committed", "Aborted"} : o = rec[t].st
    BY RowFields
  <2>2. /\ \A k \in Keys : IF hit(k) THEN row'[k].txn = NoTxn /\ mark'[k] = t
                                     ELSE row'[k] = row[k] /\ mark'[k] = mark[k]
        /\ gone' = gone \cup {<<t, k>> : k \in {k \in ks : row[k].txn = t}}
        /\ rec' = rec /\ done' = done
    <3>1. \A v : Committed(v).txn = NoTxn
      BY DEF Committed
    <3>2. ApplyResolve(t, b, ks, o)
      BY <2>1
    <3> QED BY <1>2, <3>1, <3>2, ResolveSays
  <2>3. \A u \in TxnIds, k \in Keys : <<u, k>> \in gone' <=> <<u, k>> \in gone \/ (u = t /\ hit(k))
    BY <2>2
  <2>4. t # NoTxn /\ \A u \in TxnIds : PartKeys(u[1]) \subseteq Keys /\ AnchorKeys(u[1]) \subseteq Keys
    BY Ids
  <2>5. ASSUME NEW u \in TxnIds, u # t PROVE IdKept(u)
    <3>1. \A k \in Keys : row'[k].txn = u <=> row[k].txn = u
      BY <2>2, <2>5, Ids
    <3> QED BY <2>2, <2>3, <2>5, <3>1 DEF IdKept
  <2>6. InPlace'
    BY <2>2 DEF InPlace
  <2>7. ASSUME NEW u \in TxnIds, NEW k \in PartKeys(u[1]), hit(k), mark[k] = u PROVE u = t
    BY <2>4, <2>7, OneAtParticipant
  <2>8. GoneStays'
    <3> SUFFICES ASSUME NEW u \in TxnIds, NEW k \in Keys, <<u, k>> \in gone'
                 PROVE  row'[k].txn # u /\ k \in Writes[u[1]]
                        /\ (k \in PartKeys(u[1]) => mark'[k] = u)
      BY DEF GoneStays, PartKeys
    <3>1. CASE u = t /\ hit(k)
      BY <2>2, <2>4, <3>1 DEF InPlace
    <3>2. CASE ~(u = t /\ hit(k))
      <4>1. row[k].txn # u /\ k \in Writes[u[1]] /\ (k \in PartKeys(u[1]) => mark[k] = u)
        BY <2>3, <3>2 DEF GoneStays
      <4> QED BY <2>2, <2>7, <3>2, <4>1, Ids
    <3> QED BY <3>1, <3>2
  <2>9. IdStep(t)
    <3>1. RecordStep(t)
      BY <2>2, RowFields DEF RecordStep
    <3>2. \A k \in Writes[t[1]] : k \in Keys
      BY Ids
    <3>3. IntentStep(t)
      BY <2>2, <2>4, <3>2 DEF IntentStep, Decided
    <3> QED BY <3>1, <3>3 DEF IdStep
  <2>10. RecordInv'
    <3>1. PendingRecords'
      <4> SUFFICES ASSUME NEW u \in TxnIds, rec[u].st = "Pending", NEW k \in AnchorKeys(u[1])
                   PROVE  row'[k].txn = u
        BY <2>2 DEF RecordInv, PendingRecords, AnchorKeys
      <4>1. u # t /\ row[k].txn = u /\ k \in Keys
        BY <2>4 DEF RecordInv, PendingRecords, Decided
      <4> QED BY <2>2, <4>1
    <3>2. CommittedRecords' /\ StubRecords'
      BY <2>2 DEF RecordInv, CommittedRecords, StubRecords
    <3>3. DoneRecords'
      <4> SUFFICES ASSUME NEW u \in TxnIds, u \in done
                   PROVE  /\ rec[u].st \in {"Committed", "None"}
                          /\ \A k \in PartKeys(u[1]) : row'[k].txn = u \/ mark'[k] = u
                          /\ rec[u].st = "None" \/ rec[u].stub => \A k \in Keys : row'[k].txn # u
        BY <2>2 DEF DoneRecords, Live, PartKeys
      <4>1. /\ rec[u].st \in {"Committed", "None"}
            /\ \A k \in PartKeys(u[1]) : row[k].txn = u \/ mark[k] = u
            /\ rec[u].st = "None" \/ rec[u].stub => \A k \in Keys : row[k].txn # u
        BY DEF RecordInv, DoneRecords, Live
      <4>2. \A k \in PartKeys(u[1]) : row'[k].txn = u \/ mark'[k] = u
        BY <2>2, <2>4, <2>7, <4>1
      <4>3. \A k \in Keys : row'[k].txn = u => row[k].txn = u
        BY <2>2, Ids
      <4> QED BY <4>1, <4>2, <4>3
    <3>4. AbsentBelow'
      BY <2>2 DEF RecordInv, AbsentBelow
    <3> QED BY <3>1, <3>2, <3>3, <3>4 DEF RecordInv
  <2> QED BY <2>5, <2>6, <2>8, <2>9, <2>10, KeptSteps DEF Effect
<1> QED BY <1>1, <1>2

\* An ordinary write reaches no transaction.
LEMMA WriteEffect ==
  ASSUME Types, InPlace, GoneStays, RecordInv, NEW k \in Keys, Write(k)
  PROVE  Effect(NoTxn)
<1> USE DEF Types
<1>1. /\ row[k].txn = NoTxn /\ row'[k].txn = NoTxn
      /\ \A j \in Keys \ {k} : row'[j] = row[j]
      /\ mark' = mark /\ rec' = rec /\ done' = done /\ gone' = gone
  BY DEF Write, TabletTypes, Committed
<1>2. \A j \in Keys : row'[j].txn = row[j].txn
  BY <1>1
<1>3. ASSUME NEW u \in TxnIds PROVE IdKept(u)
  BY <1>1, <1>2 DEF IdKept
<1>4. InPlace' /\ GoneStays'
  BY <1>1, <1>2 DEF InPlace, GoneStays, PartKeys
<1>5. PendingRecords' /\ CommittedRecords' /\ StubRecords' /\ DoneRecords'
  <2>1. \A u \in TxnIds : AnchorKeys(u[1]) \subseteq Keys /\ PartKeys(u[1]) \subseteq Keys
    BY Ids
  <2> QED BY <1>1, <1>2, <2>1 DEF RecordInv, PendingRecords, CommittedRecords, StubRecords,
                                  DoneRecords, Live, AnchorKeys, PartKeys
<1>6. AbsentBelow'
  BY <1>1 DEF RecordInv, AbsentBelow
<1> QED BY <1>3, <1>4, <1>5, <1>6, KeptSteps DEF Effect, RecordInv

\* A record that is settled or reaped keeps its decision, or is forgotten.
LEMMA RecordEffect ==
  ASSUME Types, InPlace, GoneStays, RecordInv, NEW t \in TxnIds, Decided(rec[t]),
         UNCHANGED <<row, mark, done, gone>>,
         rec' \in [TxnIds -> Records], \A u \in TxnIds \ {t} : rec'[u] = rec[u],
         \/ rec'[t] = rec[t]
         \/ /\ rec'[t].stub /\ rec'[t].st = rec[t].st
            /\ rec[t].st = "Committed" => ~Live(t)
         \/ rec'[t] = NoRecord /\ rec[t].stub /\ Forgotten(t)
  PROVE  Effect(t)
<1> USE DEF Types
<1>1. ASSUME NEW u \in TxnIds, u # t PROVE IdKept(u)
  BY <1>1 DEF IdKept
<1>2. InPlace' /\ GoneStays'
  BY DEF InPlace, GoneStays, PartKeys
<1>3. NoRecord.st = "None" /\ ~NoRecord.stub
  BY DEF NoRecord
<1>4. rec[t].st \in {"Committed", "Aborted"} /\ t \in done => rec[t].st \in {"Committed", "None"}
  BY DEF RecordInv, DoneRecords
<1>5. IdStep(t)
  BY <1>3 DEF IdStep, RecordStep, IntentStep, Decided
<1>6. RecordInv'
  <2>1. PendingRecords' /\ CommittedRecords' /\ StubRecords'
    BY <1>3 DEF RecordInv, PendingRecords, CommittedRecords, StubRecords, Decided, AnchorKeys
  <2>2. DoneRecords'
    <3> SUFFICES ASSUME NEW u \in TxnIds, u \in done
                 PROVE  /\ rec'[u].st \in {"Committed", "None"}
                        /\ \A k \in PartKeys(u[1]) : row[k].txn = u \/ mark[k] = u
                        /\ rec'[u].st = "None" \/ rec'[u].stub => ~Live(u)
      BY DEF DoneRecords, Live, PartKeys
    <3>1. /\ rec[u].st \in {"Committed", "None"}
          /\ \A k \in PartKeys(u[1]) : row[k].txn = u \/ mark[k] = u
          /\ rec[u].st = "None" \/ rec[u].stub => ~Live(u)
      BY DEF RecordInv, DoneRecords
    <3> QED BY <1>3, <3>1 DEF Decided
  <2>3. AbsentBelow'
    BY DEF RecordInv, AbsentBelow
  <2> QED BY <2>1, <2>2, <2>3 DEF RecordInv
<1> QED BY <1>1, <1>2, <1>5, <1>6, KeptSteps DEF Effect

\* The sweep settles a record of which it saw no intent.
LEMMA SettleEffect ==
  ASSUME Types, InPlace, GoneStays, RecordInv, NEW w \in Workers, VisitInv(w), Settle(w)
  PROVE  Effect(wk[w].t)
<1> DEFINE v == wk[w]  t == v.t  r == SettledRecord(rec[t])
<1>1. v \in Jobs /\ t \in TxnIds /\ rec[t] \in Records /\ v.pc \in {"clear", "recheck"}
      /\ v.todo = {}
  BY JobFields, RowFields DEF Types, Settle
<1>2. Decided(rec[t]) /\ (rec[t].st = "Committed" => v.spans = Writes[t[1]])
      /\ (rec[t].st = "Committed" => \A k \in v.spans : row[k].txn # t)
  BY <1>1 DEF VisitInv
<1>3. rec[t].st = "Committed" => ~Live(t)
  BY <1>1, <1>2, Ids DEF Live, InPlace
<1>4. r \in Records /\ (r = rec[t] \/ (r.stub /\ r.st = rec[t].st))
  BY <1>1 DEF SettledRecord, Records
<1>5. rec' = [rec EXCEPT ![t] = r] /\ UNCHANGED <<row, mark, done, gone>>
  BY DEF Settle
<1> HIDE DEF r
<1>6. rec' \in [TxnIds -> Records] /\ rec'[t] = r /\ \A u \in TxnIds \ {t} : rec'[u] = rec[u]
  BY <1>1, <1>4, <1>5 DEF Types, TabletTypes
<1>7. PICK u \in TxnIds : u = t
  BY <1>1
<1> HIDE DEF t
<1> QED BY <1>2, <1>3, <1>4, <1>5, <1>6, <1>7, RecordEffect DEF t

\* A stub that nobody asks for is reaped.
LEMMA ReapEffect ==
  ASSUME Types, InPlace, GoneStays, RecordInv, NEW t \in TxnIds, Reap(t)
  PROVE  Effect(t)
<1>1. NoRecord \in Records
  BY DEF NoRecord, Records
<1>2. rec' \in [TxnIds -> Records] /\ rec'[t] = NoRecord
      /\ \A u \in TxnIds \ {t} : rec'[u] = rec[u]
  BY <1>1 DEF Types, TabletTypes, Reap
<1>3. Decided(rec[t]) /\ rec[t].stub /\ Forgotten(t) /\ UNCHANGED <<row, mark, done, gone>>
  BY DEF Reap, Forgotten, RecordInv, StubRecords
<1> QED BY <1>2, <1>3, RecordEffect

-----------------------------------------------------------------------------
(* What a whole step may change around the entry it applies.               *)

\* A call does not go back, and is named by the entry that staged its anchor.
CallStep(c, t) ==
    /\ co'[c].pc \in {"begin", "anchor"} =>
         co[c].pc \in {"begin", "anchor"} /\ co'[c].n >= co[c].n
    /\ co'[c].pc \in Named =>
         \/ co[c].pc \in Named /\ co'[c].n = co[c].n
         \/ co[c].pc = "anchor" /\ <<c, co'[c].n>> = t
    /\ co[c].pc \in {"resolve", "end"} => co'[c].pc \in {"resolve", "end"}

\* A worker turns to an id that something knows of.
WorkStep(w) == wk'[w].t \in {wk[w].t, NoTxn} \/ ~Unused(wk'[w].t)

\* A new late proposal: the anchor stage of an id that is minted with it, a
\* participant's stage by its call, or a decision.
NewMail(m) ==
    \/ \E u \in TxnIds : /\ m = AnchorStage(u) /\ Fresh(u) /\ ~Fresh(u)'
                         /\ co'[u[1]].pc \notin Named
    \/ /\ ~Unused(m.t)
       /\ m.op = "stage" => m.b # AnchorOf[m.t[1]] /\ ByCall(m.t)
       /\ m.op = "Committed" /\ rec'[m.t].st = "Pending" => StagedAll(m.t)'

MailStep(t) ==
    /\ \A m \in late' \ late : NewMail(m)
    /\ t \in TxnIds => AnchorStage(t) \notin late' /\ ~Fresh(t)'

Step(t) ==
    /\ Effect(t) /\ MailStep(t)
    /\ \A c \in Clients : CallStep(c, t)
    /\ \A w \in Workers : WorkStep(w)

\* Messages that stage an anchor name their id.
LEMMA AnchorStages ==
  ASSUME NEW u \in TxnIds
  PROVE  /\ AnchorStage(u).t = u /\ AnchorStage(u).op = "stage"
         /\ AnchorStage(u).b = AnchorOf[u[1]] /\ AnchorStage(u)' = AnchorStage(u)
         /\ \A v \in TxnIds : AnchorStage(v) = AnchorStage(u) => v = u
<1>1. \A v \in TxnIds : AnchorStage(v).t = v
  BY DEF AnchorStage
<1> QED BY <1>1 DEF AnchorStage

\* Nothing starts to know of an id that the entry is not about.
LEMMA UnusedKept ==
  ASSUME Types, NEW t, Step(t), NEW u \in TxnIds, u # t, Unused(u)
  PROVE  Unused(u)'
<1>1. IdKept(u)
  BY DEF Step, Effect
<1>2. \A w \in Workers : wk'[w].t # u
  BY Ids DEF Step, WorkStep, Unused
<1>3. ASSUME NEW m \in late', m.t = u PROVE m = AnchorStage(u)
  <2>1. CASE m \in late
    BY <1>3, <2>1 DEF Unused
  <2>2. CASE m \notin late
    <3>1. NewMail(m)
      BY <2>2 DEF Step, MailStep
    <3> QED BY <1>3, <3>1, AnchorStages DEF NewMail
  <2> QED BY <2>1, <2>2
<1>4. rec'[u] = NoRecord /\ u \notin done'
      /\ \A k \in Keys : row'[k].txn # u /\ mark'[k] # u /\ <<u, k>> \notin gone'
  BY <1>1 DEF IdKept, Unused
<1> QED BY <1>2, <1>3, <1>4 DEF Unused, AnchorStage

\* An id comes to a participant only through its call.
LEMMA PartedStep ==
  ASSUME Types, NEW t, Step(t), NEW u \in TxnIds, Parted(u)'
  PROVE  Parted(u) \/ ByCall(u)
<1>1. CASE \E k \in PartKeys(u[1]) : row'[k].txn = u \/ mark'[k] = u
  <2>1. IntentStep(u)
    BY DEF Step, Effect, IdStep
  <2> QED BY <1>1, <2>1 DEF IntentStep, Parted
<1>2. ASSUME NEW m \in late', m.op = "stage", m.t = u, m.b # AnchorOf[u[1]]
      PROVE  Parted(u) \/ ByCall(u)
  <2>1. CASE m \in late
    BY <1>2, <2>1 DEF Parted
  <2>2. CASE m \notin late
    <3>1. NewMail(m)
      BY <2>2 DEF Step, MailStep
    <3> QED BY <1>2, <3>1, AnchorStages DEF NewMail
  <2> QED BY <2>1, <2>2
<1> QED BY <1>1, <1>2 DEF Parted, PartKeys

\* Ids stay where they may be.
LEMMA IdsKept ==
  ASSUME Types, Types', IdInv, NEW t, Step(t)
  PROVE  IdInv'
<1> USE DEF IdInv
<1>1. InPlace' /\ GoneStays'
  BY DEF Step, Effect
<1>2. \A c \in Clients : co[c].n \in Nat /\ co'[c].n \in Nat /\ CallStep(c, t)
  BY CallFields DEF Types, Step
<1>3. FreshUnused'
  <2> SUFFICES ASSUME NEW u \in TxnIds, Fresh(u)'
               PROVE  Unused(u)' /\ AnchorStage(u) \notin late'
    BY AnchorStages DEF FreshUnused
  <2>1. u[1] \in Clients /\ u[2] \in Nat
    BY Ids
  <2>2. co'[u[1]].pc \in {"begin", "anchor"} /\ u[2] > co'[u[1]].n
    BY DEF Fresh
  <2>3. Fresh(u)
    BY <1>2, <2>1, <2>2 DEF Fresh, CallStep
  <2>4. Unused(u) /\ AnchorStage(u) \notin late
    BY <2>3 DEF FreshUnused
  <2>5. u # t
    BY DEF Step, MailStep
  <2>6. Unused(u)'
    BY <2>4, <2>5, UnusedKept
  <2>7. ASSUME AnchorStage(u) \in late' PROVE FALSE
    <3>1. NewMail(AnchorStage(u))
      BY <2>4, <2>7 DEF Step, MailStep
    <3> QED BY <2>4, <3>1, AnchorStages DEF NewMail
  <2> QED BY <2>6, <2>7
<1>4. LateUnused'
  <2> SUFFICES ASSUME NEW u \in TxnIds, AnchorStage(u) \in late'
               PROVE  Unused(u)' /\ ~(co'[u[1]].pc \in Named /\ <<u[1], co'[u[1]].n>> = u)
    BY AnchorStages DEF LateUnused, Id
  <2>1. u[1] \in Clients /\ u # t
    BY Ids DEF Step, MailStep
  <2>2. CASE AnchorStage(u) \in late
    <3>1. Unused(u) /\ ~(co[u[1]].pc \in Named /\ Id(u[1]) = u)
      BY <2>2 DEF LateUnused
    <3>2. Unused(u)'
      BY <2>1, <3>1, UnusedKept
    <3> QED BY <1>2, <2>1, <3>1, <3>2 DEF CallStep, Id
  <2>3. CASE AnchorStage(u) \notin late
    <3>1. NewMail(AnchorStage(u))
      BY <2>3 DEF Step, MailStep
    <3>2. Fresh(u) /\ co'[u[1]].pc \notin Named
      BY <3>1, AnchorStages DEF NewMail
    <3>3. Unused(u)'
      BY <2>1, <3>2, UnusedKept DEF FreshUnused
    <3> QED BY <3>2, <3>3
  <2> QED BY <2>2, <2>3
<1>5. ASSUME NEW u \in TxnIds, Parted(u)'
      PROVE  /\ co[u[1]].pc \notin {"begin", "anchor"}
             /\ co[u[1]].pc \in Named => u = Id(u[1])
             /\ u[1] \in Clients
  BY <1>5, PartedStep, Ids DEF PartedByCall, ByCall
<1>6. OneParted'
  <2> SUFFICES ASSUME NEW u \in TxnIds, NEW v \in TxnIds, Parted(u)', Parted(v)', u[1] = v[1]
               PROVE  u = v
    BY DEF OneParted
  <2>1. CASE Parted(u) /\ Parted(v)
    BY <2>1 DEF OneParted
  <2>2. CASE ByCall(u) \/ ByCall(v)
    <3>1. co[u[1]].pc \in Named
      BY <2>2 DEF ByCall, Named
    <3> QED BY <1>5, <3>1
  <2> QED BY <2>1, <2>2, PartedStep
<1>7. PartedByCall'
  <2> SUFFICES ASSUME NEW u \in TxnIds, Parted(u)'
               PROVE  /\ co'[u[1]].pc \notin {"begin", "anchor"}
                      /\ co'[u[1]].pc \in Named => u = <<u[1], co'[u[1]].n>>
    BY DEF PartedByCall, Id
  <2>1. CallStep(u[1], t)
    BY <1>2, <1>5
  <2> QED BY <1>5, <2>1 DEF CallStep, Id
<1> QED BY <1>1, <1>3, <1>4, <1>6, <1>7

\* What a call that goes on as it was relies on stays true.
LEMMA CallKept ==
  ASSUME Types, NEW t, Step(t), NEW c \in Clients, CallInv(c), SameCall(c),
         answer'[c] = answer[c]
  PROVE  CallInv(c)'
<1> DEFINE u == Id(c)
<1>1. Id(c)' = u
  BY DEF SameCall, Id
<1>2. co[c].pc \in Named => u \in TxnIds /\ u[1] = c
  BY NamedId
<1>3. CASE co[c].pc \notin Named
  BY <1>1, <1>3 DEF CallInv, SameCall, Named
<1>4. CASE co[c].pc \in Named
  <2>1. RecordStep(u) /\ IntentStep(u) /\ u \in TxnIds /\ u[1] = c
    BY <1>2, <1>4 DEF Step, Effect, IdStep
  <2>2. rec[u].st # "None" /\ ~Unused(u) /\ ~Forgotten(u)
    BY <1>4, <2>1 DEF CallInv, Unused, NoRecord, Forgotten, Named
  <2>3. rec'[u].st # "None"
    BY <2>1, <2>2 DEF RecordStep
  <2>4. co[c].pc = "resolve" => Decided(rec'[u])
    BY <2>1, <2>2 DEF RecordStep, CallInv, Decided
  <2>5. rec'[u].st = "Pending" =>
          rec[u].st = "Pending" /\ \A k \in Keys : row[k].txn = u => row'[k].txn = u
    BY <2>1, <2>2 DEF RecordStep, IntentStep
  <2>6. Writes[c] \subseteq Keys /\ PartKeys(c) \subseteq Keys
    BY <2>1, Ids
  <2>7. co[c].pc = "parts" /\ rec'[u].st = "Pending" =>
          \A k \in PartKeys(c) : co[c].part[TabletOf[k]] = "ok" => row'[k].txn = u
    BY <2>5, <2>6 DEF CallInv
  <2>8. co[c].pc = "decide" /\ co[c].want = "Committed" /\ rec'[u].st = "Pending" =>
          \A k \in Writes[u[1]] : row'[k].txn = u
    BY <2>1, <2>5, <2>6 DEF CallInv, StagedAll
  <2> HIDE DEF u
  <2> QED BY <1>1, <1>4, <2>3, <2>4, <2>7, <2>8
          DEF CallInv, SameCall, StagedAll, Decided, PartKeys, Named
<1> QED BY <1>3, <1>4

\* What a visit that goes on as it was relies on stays true.
LEMMA VisitKept ==
  ASSUME Types, NEW t, Step(t), NEW w \in Workers, VisitInv(w), wk'[w] = wk[w]
  PROVE  VisitInv(w)'
<1> DEFINE v == wk[w]  u == v.t
<1>1. CASE v.pc = "idle"
  BY <1>1 DEF VisitInv
<1>2. CASE v.pc # "idle"
  <2>1. u \in TxnIds
    BY <1>2, JobFields DEF Types
  <2>2. RecordStep(u) /\ IntentStep(u) /\ ~Unused(u) /\ ~Forgotten(u)
        /\ rec[u].st \in {"None", "Pending", "Committed", "Aborted"}
    BY <2>1, RowFields DEF Step, Effect, IdStep, Unused, Forgotten, Types
  <2>3. Writes[u[1]] \subseteq Keys
    BY <2>1, Ids
  <2>4. rec'[u].st = "Pending" =>
          rec[u].st = "Pending" /\ \A k \in Keys : row[k].txn = u => row'[k].txn = u
    BY <2>2 DEF RecordStep, IntentStep
  <2>5. u \notin done /\ rec[u].st \in {"None", "Aborted"} =>
          u \notin done' /\ rec'[u].st \in {"None", "Aborted"}
    BY <2>2 DEF RecordStep
  <2>6. Decided(rec[u]) => Decided(rec'[u]) /\ (rec'[u].st = "Committed" => rec[u].st = "Committed")
    BY <2>2 DEF RecordStep, Decided
  <2>7. rec[u].st = "Committed" => \A k \in Writes[u[1]] : row[k].txn # u => row'[k].txn # u
    BY <2>2 DEF IntentStep
  <2>8. v.pc = "verify" => /\ v.spans = Writes[u[1]]
                           /\ rec'[u].st = "Pending" /\ v.all =>
                                \A k \in v.spans \ v.todo : row'[k].txn = u
    BY <2>3, <2>4 DEF VisitInv
  <2>9. v.pc \in {"clear", "recheck"} /\ rec'[u].st = "Committed" =>
          \A k \in v.spans \ v.todo : row'[k].txn # u
    BY <2>6, <2>7 DEF VisitInv
  <2>10. v.pc \in {"fix", "clear", "recheck"} =>
           Decided(rec'[u]) /\ (rec'[u].st = "Committed" => v.spans = Writes[u[1]])
    BY <2>6 DEF VisitInv
  <2>11. v.pc = "orphan" => u \notin done' /\ rec'[u].st \in {"None", "Aborted"}
    BY <2>5 DEF VisitInv
  <2> QED BY <2>8, <2>9, <2>10, <2>11 DEF VisitInv
<1> QED BY <1>1, <1>2

\* What a late commit relies on stays true.
LEMMA MailKept ==
  ASSUME Types, LateCommits, NEW t, Step(t)
  PROVE  LateCommits'
<1> SUFFICES ASSUME NEW m \in late', m.op = "Committed", rec'[m.t].st = "Pending"
             PROVE  StagedAll(m.t)'
  BY DEF LateCommits
<1>1. CASE m \in late
  <2> DEFINE u == m.t
  <2>1. u \in TxnIds /\ m # AnchorStage(u)
    BY <1>1, MessageFields, AnchorStages DEF Types, OtherTypes
  <2>2. RecordStep(u) /\ IntentStep(u) /\ ~Unused(u)
    BY <1>1, <2>1 DEF Step, Effect, IdStep, Unused
  <2>3. rec[u].st = "Pending" /\ \A k \in Keys : row[k].txn = u => row'[k].txn = u
    BY <2>2 DEF RecordStep, IntentStep
  <2>4. StagedAll(u) /\ Writes[u[1]] \subseteq Keys
    BY <1>1, <2>1, <2>3, Ids DEF LateCommits
  <2> QED BY <2>3, <2>4 DEF StagedAll
<1>2. CASE m \notin late
  <2>1. NewMail(m)
    BY <1>2 DEF Step, MailStep
  <2> QED BY <2>1, AnchorStages DEF NewMail
<1> QED BY <1>1, <1>2

\* A step keeps the invariant where the call and the visit that moved have theirs.
LEMMA ProtocolKept ==
  ASSUME ProtocolInv, Types', NEW t, Step(t),
         \A c \in Clients : CallInv(c)' \/ (SameCall(c) /\ answer'[c] = answer[c]),
         \A w \in Workers : VisitInv(w)' \/ wk'[w] = wk[w]
  PROVE  ProtocolInv'
<1> USE DEF ProtocolInv
<1>1. IdInv'
  BY IdsKept
<1>2. RecordInv'
  BY DEF Step, Effect
<1>3. CallsInv'
  <2> SUFFICES ASSUME NEW c \in Clients PROVE CallInv(c)'
    BY DEF CallsInv
  <2> QED BY CallKept DEF CallsInv
<1>4. VisitsInv'
  <2> SUFFICES ASSUME NEW w \in Workers PROVE VisitInv(w)'
    BY DEF VisitsInv
  <2> QED BY VisitKept DEF VisitsInv
<1>5. LateCommits'
  BY MailKept
<1> QED BY <1>1, <1>2, <1>3, <1>4, <1>5

-----------------------------------------------------------------------------
(* What a reader sees of an entry.                                         *)

Value(k) == ReadValue(row, rec, k)

SameData == done' = done /\ \A k \in Keys : Value(k)' = Value(k)

\* The commit of t: all its intents become visible at once.
CommitData(t) ==
    /\ t \in TxnIds /\ rec[t].st = "Pending" /\ StagedAll(t) /\ done' = done \cup {t}
    /\ \A k \in Keys : Value(k)' = IF k \in Writes[t[1]] THEN t ELSE Value(k)

WriteData(k) ==
    /\ done' = done /\ Value(k)' = Plain
    /\ \A j \in Keys \ {k} : Value(j)' = Value(j)

DataStep(t) == SameData \/ CommitData(t) \/ \E k \in Keys : WriteData(k)

\* What a key holds, spelled out.
LEMMA Values ==
  ASSUME NEW k \in Keys
  PROVE  /\ Value(k) = IF row[k].txn # NoTxn /\ rec[row[k].txn].st # "Committed"
                       THEN row[k].prior ELSE row[k].val
         /\ Value(k)' = IF row'[k].txn # NoTxn /\ rec'[row'[k].txn].st # "Committed"
                        THEN row'[k].prior ELSE row'[k].val
BY DEF Value, ReadValue

\* An entry that does nothing shows nothing.
LEMMA NoData ==
  ASSUME UNCHANGED tablets PROVE SameData
BY DEF SameData, Value, tablets

\* A stage shows nothing: an intent carries the value it shadows.
LEMMA StageData ==
  ASSUME Types, InPlace, RecordInv, NEW t \in TxnIds, NEW b \in Tablets,
         MayStage(t, b), ApplyStage(t, b)
  PROVE  SameData
<1> DEFINE ks == KeysAt(t[1], b)  isAnchor == b = AnchorOf[t[1]]
<1>1. CASE UNCHANGED tablets
  BY <1>1, NoData
<1>2. CASE ~UNCHANGED tablets
  <2> USE DEF Types
  <2>1. /\ \A k \in ks :
             /\ row[k].txn \in {NoTxn, t} /\ mark[k] # t
             /\ row'[k].txn = t /\ row'[k].val = t
             /\ row'[k].prior = IF row[k].txn = NoTxn THEN row[k].val ELSE row[k].prior
        /\ \A k \in Keys \ ks : row'[k] = row[k]
        /\ mark' = mark /\ done' = done
        /\ \A u \in TxnIds \ {t} : rec'[u] = rec[u]
        /\ isAnchor => rec'[t] = StagedRecord(Writes[t[1]])
        /\ ~isAnchor => rec' = rec
    BY <1>2, StageSays
  <2>2. /\ ks \subseteq Writes[t[1]] /\ Writes[t[1]] \subseteq Keys /\ t # NoTxn
        /\ ~isAnchor => ks \subseteq PartKeys(t[1])
    BY Ids DEF KeysAt, PartKeys
  <2>3. \A k \in Keys : row[k].txn \in TxnIds \cup {NoTxn}
    BY RowFields
  <2>4. isAnchor => /\ rec[t].st = "None" /\ rec'[t].st = "Pending"
                    /\ \A k \in Keys : row[k].txn # t
    <3>1. NoRecord.st = "None" /\ \A s : StagedRecord(s).st = "Pending"
      BY DEF NoRecord, StagedRecord
    <3>2. isAnchor => rec[t] = NoRecord /\ \A k \in Keys : row[k].txn # t
      BY DEF MayStage, Unused
    <3> HIDE DEF ks, isAnchor
    <3> QED BY <2>1, <3>1, <3>2
  <2> HIDE DEF ks, isAnchor
  <2>5. ASSUME NEW k \in Keys PROVE Value(k)' = Value(k)
    <3>1. CASE k \notin ks
      <4>1. row'[k] = row[k]
        BY <2>1, <3>1
      <4>2. row[k].txn # NoTxn => rec'[row[k].txn].st = "Committed" <=> rec[row[k].txn].st = "Committed"
        BY <2>1, <2>3, <2>4
      <4> QED BY <4>1, <4>2, Values
    <3>2. CASE k \in ks /\ isAnchor
      BY <2>1, <2>2, <2>4, <3>2, Values
    <3>3. CASE k \in ks /\ ~isAnchor /\ rec[t].st # "Committed"
      BY <2>1, <2>2, <3>3, Values
    <3>4. CASE k \in ks /\ ~isAnchor /\ rec[t].st = "Committed"
      <4>1. t \in done
        BY <3>4 DEF RecordInv, CommittedRecords
      <4>2. row[k].txn = t
        BY <2>1, <2>2, <3>4, <4>1 DEF RecordInv, DoneRecords
      <4>3. row[k].val = t
        BY <2>2, <4>2 DEF InPlace
      <4> QED BY <2>1, <2>2, <3>4, <4>2, <4>3, Values
    <3> QED BY <3>1, <3>2, <3>3, <3>4
  <2> QED BY <2>1, <2>5 DEF SameData
<1> QED BY <1>1, <1>2

\* A decision shows nothing, or it is the commit of everything t wrote.
LEMMA DecisionData ==
  ASSUME Types, InPlace, RecordInv, NEW t \in TxnIds,
         NEW o \in {"Committed", "Aborted"}, NEW orphan \in BOOLEAN,
         MayDecide(t, o, orphan), ApplyDecision(t, o, orphan)
  PROVE  SameData \/ CommitData(t)
<1> USE DEF Types
<1>1. /\ \A u \in TxnIds \ {t} : rec'[u] = rec[u]
      /\ rec[t].st = "Pending" => rec'[t].st = o
      /\ rec[t].st = "None" => rec'[t] = rec[t] \/ rec'[t].st = "Aborted"
      /\ Decided(rec[t]) => rec'[t] = rec[t]
      /\ done' = IF rec[t].st = "Pending" /\ o = "Committed" THEN done \cup {t} ELSE done
      /\ row' = row
  <2>1. [NoRecord EXCEPT !.st = "Aborted"].st = "Aborted"
    BY DEF NoRecord
  <2>2. [rec[t] EXCEPT !.st = o].st = o
    BY RowFields DEF Records
  <2> QED BY <2>1, <2>2, DecisionSays
<1>2. rec[t].st \in {"None", "Pending", "Committed", "Aborted"} /\ t # NoTxn
      /\ \A k \in Keys : row[k].txn \in TxnIds \cup {NoTxn}
  BY RowFields, Ids
<1>3. CASE rec[t].st = "Pending" /\ o = "Committed"
  <2>1. StagedAll(t) /\ rec'[t].st = "Committed"
    BY <1>1, <1>3 DEF MayDecide
  <2>2. ASSUME NEW k \in Keys PROVE Value(k)' = IF k \in Writes[t[1]] THEN t ELSE Value(k)
    <3>1. CASE k \in Writes[t[1]]
      <4>1. row[k].txn = t /\ row[k].val = t
        BY <1>2, <2>1, <3>1 DEF StagedAll, InPlace
      <4> QED BY <1>1, <2>1, <3>1, <4>1, Values
    <3>2. CASE k \notin Writes[t[1]]
      <4>1. row[k].txn # t
        BY <1>2, <3>2 DEF InPlace
      <4>2. row[k].txn # NoTxn => rec'[row[k].txn] = rec[row[k].txn]
        BY <1>1, <1>2, <4>1
      <4> QED BY <1>1, <3>2, <4>2, Values
    <3> QED BY <3>1, <3>2
  <2> QED BY <1>1, <1>3, <2>1, <2>2 DEF CommitData
<1>4. CASE ~(rec[t].st = "Pending" /\ o = "Committed")
  <2>1. \A u \in TxnIds : rec'[u].st = "Committed" <=> rec[u].st = "Committed"
    BY <1>1, <1>2, <1>4 DEF Decided
  <2>2. ASSUME NEW k \in Keys PROVE Value(k)' = Value(k)
    <3>1. row'[k] = row[k] /\ (row[k].txn # NoTxn => row[k].txn \in TxnIds)
      BY <1>1, <1>2
    <3>2. row[k].txn # NoTxn =>
            (rec'[row[k].txn].st = "Committed" <=> rec[row[k].txn].st = "Committed")
      BY <2>1, <3>1
    <3> QED BY <3>1, <3>2, Values
  <2> QED BY <1>1, <1>4, <2>2 DEF SameData
<1> QED BY <1>3, <1>4

\* A resolution shows nothing: the value it leaves is the one that was read.
LEMMA ResolveData ==
  ASSUME Types, InPlace, NEW t \in TxnIds, NEW b \in Tablets, NEW ks \in SUBSET Keys,
         Decided(rec[t]), ApplyResolve(t, b, ks, rec[t].st)
  PROVE  SameData
<1>1. CASE UNCHANGED tablets
  BY <1>1, NoData
<1>2. CASE ~UNCHANGED tablets
  <2> USE DEF Types
  <2>1. PICK o \in {"None", "Pending", "Committed", "Aborted"} : o = rec[t].st
    BY RowFields
  <2>2. ApplyResolve(t, b, ks, o)
    BY <2>1
  <2>3. /\ \A k \in Keys :
             IF k \in ks /\ row[k].txn = t
             THEN row'[k] = Committed(IF o = "Committed" THEN row[k].val ELSE row[k].prior)
             ELSE row'[k] = row[k]
        /\ rec' = rec /\ done' = done
    BY <1>2, <2>2, ResolveSays
  <2>4. \A v : Committed(v).txn = NoTxn /\ Committed(v).val = v
    BY DEF Committed
  <2>5. ASSUME NEW k \in Keys PROVE Value(k)' = Value(k)
    <3>1. CASE k \in ks /\ row[k].txn = t
      <4>1. row'[k].txn = NoTxn
            /\ row'[k].val = IF o = "Committed" THEN row[k].val ELSE row[k].prior
        BY <2>3, <2>4, <3>1
      <4> QED BY <2>1, <3>1, <4>1, Values, Ids
    <3>2. CASE ~(k \in ks /\ row[k].txn = t)
      BY <2>3, <3>2, Values
    <3> QED BY <3>1, <3>2
  <2> QED BY <2>3, <2>5 DEF SameData
<1> QED BY <1>1, <1>2

\* An ordinary write.
LEMMA WriteShows ==
  ASSUME Types, NEW k \in Keys, Write(k)
  PROVE  WriteData(k)
<1>1. /\ row'[k].txn = NoTxn /\ row'[k].val = Plain
      /\ \A j \in Keys \ {k} : row'[j] = row[j]
      /\ rec' = rec /\ done' = done
  BY DEF Write, Types, TabletTypes, Committed
<1>2. ASSUME NEW j \in Keys \ {k} PROVE Value(j)' = Value(j)
  BY <1>1, Values
<1> QED BY <1>1, <1>2, Values DEF WriteData

\* A record that is settled or reaped shows nothing.
LEMMA RecordData ==
  ASSUME Types, RecordInv, NEW t \in TxnIds, UNCHANGED <<row, done>>,
         \A u \in TxnIds \ {t} : rec'[u] = rec[u],
         rec'[t].st = rec[t].st \/ (rec'[t] = NoRecord /\ rec[t].stub)
  PROVE  SameData
<1>1. \A k \in Keys : row[k].txn \in TxnIds \cup {NoTxn}
  BY RowFields DEF Types
<1>2. ASSUME NEW k \in Keys, row[k].txn = t, t # NoTxn
      PROVE  rec'[t].st = "Committed" <=> rec[t].st = "Committed"
  <2>1. CASE rec'[t] = NoRecord /\ rec[t].stub
    <3>1. rec[t].st # "Committed"
      BY <1>2, <2>1 DEF RecordInv, CommittedRecords, DoneRecords, Live
    <3> QED BY <2>1, <3>1 DEF NoRecord
  <2> QED BY <2>1
<1>3. ASSUME NEW k \in Keys PROVE Value(k)' = Value(k)
  BY <1>1, <1>2, Values
<1> QED BY <1>3 DEF SameData

-----------------------------------------------------------------------------
(* What each step of the protocol amounts to.                              *)

\* A client is answered while the tablets stand still.
AnswerStep ==
    \/ answer' = answer
    \/ /\ UNCHANGED <<tablets, late>>
       /\ \E c \in Clients :
            /\ answer[c] = "none" /\ co'[c].pc \in {"resolve", "end"}
            /\ \/ answer' = [answer EXCEPT ![c] = "unknown"]
               \/ /\ answer' = [answer EXCEPT ![c] = "failed"]
                  /\ \/ ~PreHolds(c) \/ co[c].pc = "anchor"
                     \/ co[c].pc = "answer" /\ rec[Id(c)].st = "Aborted"
               \/ /\ answer' = [answer EXCEPT ![c] = "ok"]
                  /\ co[c].pc = "answer" /\ rec[Id(c)].st = "Committed"

\* A step that applies an entry about t (or none: NoTxn).
Sound(t) ==
    /\ Step(t) /\ DataStep(t) /\ AnswerStep
    /\ \A c \in Clients : CallInv(c)' \/ (SameCall(c) /\ answer'[c] = answer[c])
    /\ \A w \in Workers : VisitInv(w)' \/ wk'[w] = wk[w]

\* A step that applies no entry.
LEMMA NoEntry ==
  ASSUME ProtocolInv, UNCHANGED tablets
  PROVE  Effect(NoTxn) /\ DataStep(NoTxn) /\ NoTxn \notin TxnIds
<1>1. NoTxn \notin TxnIds
  BY TxnAssumption DEF TxnIds
<1>2. Effect(NoTxn)
  BY NoEffect DEF ProtocolInv, Types, IdInv
<1> QED BY <1>1, <1>2, NoData DEF DataStep

\* An id that something knows of: its anchor is staged no more.
LEMMA KnownIds ==
  ASSUME ProtocolInv, NEW t \in TxnIds, ~Unused(t)
  PROVE  AnchorStage(t) \notin late /\ ~Fresh(t)
BY DEF ProtocolInv, IdInv, LateUnused, FreshUnused

\* A call that ended relies on nothing.
LEMMA EndedCall ==
  ASSUME NEW c, co'[c].pc = "end" PROVE CallInv(c)'
BY DEF CallInv, Named

\* A step of one call.
LEMMA CallSound ==
  ASSUME ProtocolInv, NEW t, NEW c \in Clients, Moved(c), UNCHANGED wk,
         Effect(t), DataStep(t), MailStep(t), AnswerStep, CallStep(c, t),
         \A d \in Clients \ {c} : answer'[d] = answer[d],
         CallInv(c)' \/ (SameCall(c) /\ answer'[c] = answer[c])
  PROVE  Sound(t)
<1>1. \A d \in Clients \ {c} : SameCall(d) /\ CallStep(d, t)
  <2> SUFFICES ASSUME NEW d \in Clients \ {c} PROVE SameCall(d) /\ CallStep(d, t)
    OBVIOUS
  <2>1. co'[d] = co[d] /\ co[d].n \in Nat
    BY CallFields DEF Moved, ProtocolInv, Types
  <2> QED BY <2>1 DEF SameCall, CallStep, Named
<1>2. \A w \in Workers : WorkStep(w)
  BY DEF WorkStep
<1>3. Step(t)
  BY <1>1, <1>2 DEF Step
<1> QED BY <1>1, <1>3 DEF Sound

\* A step of one worker.
LEMMA WorkSound ==
  ASSUME ProtocolInv, NEW t, t \in TxnIds => ~Unused(t), NEW w \in Workers, Worked(w),
         UNCHANGED <<co, late, answer>>, Effect(t), DataStep(t), WorkStep(w), VisitInv(w)'
  PROVE  Sound(t)
<1>1. \A d \in Clients : SameCall(d) /\ CallStep(d, t)
  <2> SUFFICES ASSUME NEW d \in Clients PROVE SameCall(d) /\ CallStep(d, t)
    OBVIOUS
  <2>1. co'[d] = co[d] /\ co[d].n \in Nat
    BY CallFields DEF ProtocolInv, Types
  <2> QED BY <2>1 DEF SameCall, CallStep, Named
<1>2. \A x \in Workers : WorkStep(x) /\ (x # w => wk'[x] = wk[x])
  BY DEF WorkStep, Worked
<1>3. MailStep(t)
  <2>1. t \in TxnIds => AnchorStage(t) \notin late' /\ ~Fresh(t)'
    BY KnownIds DEF Fresh
  <2> QED BY <2>1 DEF MailStep
<1>4. Step(t)
  BY <1>1, <1>2, <1>3 DEF Step
<1> QED BY <1>1, <1>2, <1>4 DEF Sound, AnswerStep

\* A call that ends without an entry.
LEMMA EndSound ==
  ASSUME ProtocolInv, NEW c \in Clients, co' = [co EXCEPT ![c] = Ended],
         UNCHANGED <<tablets, wk, late>>, AnswerStep,
         \A d \in Clients \ {c} : answer'[d] = answer[d]
  PROVE  Sound(NoTxn)
<1>1. Moved(c) /\ co'[c].pc = "end"
  BY EndMove DEF ProtocolInv, Types
<1>2. CallStep(c, NoTxn) /\ CallInv(c)'
  BY <1>1, EndedCall DEF CallStep, Named
<1>3. MailStep(NoTxn)
  BY NoEntry DEF MailStep
<1> QED BY <1>1, <1>2, <1>3, NoEntry, CallSound

\* Some entry, or none, makes the step sound.
SoundStep == \E t \in TxnIds \cup {NoTxn} : Sound(t)

\* The call of c is not answered yet, and the others keep their answers.
LEMMA Unanswered ==
  ASSUME ProtocolInv, NEW c \in Clients, co[c].pc \notin {"resolve", "end"}
  PROVE  /\ answer[c] = "none" /\ answer \in [Clients -> {"none", "ok", "failed", "unknown"}]
         /\ \A a, d : d \in Clients \ {c} => [answer EXCEPT ![c] = a][d] = answer[d]
BY DEF ProtocolInv, CallsInv, CallInv, Types, OtherTypes

\* A named call: its id, and what is known of it.
LEMMA NamedCall ==
  ASSUME ProtocolInv, NEW c \in Clients, co[c].pc \in Named
  PROVE  /\ Id(c) \in TxnIds /\ Id(c)[1] = c /\ rec[Id(c)].st # "None" /\ ~Unused(Id(c))
         /\ ~Forgotten(Id(c)) /\ AnchorStage(Id(c)) \notin late /\ ~Fresh(Id(c))
<1>1. Id(c) \in TxnIds /\ Id(c)[1] = c
  BY NamedId DEF ProtocolInv
<1>2. rec[Id(c)].st # "None"
  BY DEF ProtocolInv, CallsInv, CallInv
<1>3. ~Unused(Id(c))
  BY <1>2 DEF Unused, NoRecord
<1>4. ~Forgotten(Id(c))
  BY <1>1 DEF Forgotten, Named
<1> QED BY <1>1, <1>2, <1>3, <1>4, KnownIds

\* The preconditions are looked at before anything is staged.
LEMMA BeginSound ==
  ASSUME ProtocolInv, NEW c \in Clients, Begin(c)
  PROVE  SoundStep
<1>1. co[c].pc = "begin" /\ answer[c] = "none"
  BY Unanswered DEF Begin
<1>2. CASE PreHolds(c)
  <2>1. "anchor" \in Phases /\ "anchor" \notin Named
    BY DEF Phases, Named
  <2>2. /\ Moved(c) /\ co'[c].pc = "anchor" /\ co'[c].n = co[c].n /\ co'[c].part = co[c].part
    BY <1>2, <2>1, PhaseMove DEF Begin, ProtocolInv, Types
  <2>3. UNCHANGED <<tablets, wk, late, answer>>
    BY <1>2 DEF Begin
  <2>4. co[c].n \in Nat
    BY NamedId DEF ProtocolInv
  <2>5. CallStep(c, NoTxn)
    BY <1>1, <2>2, <2>4 DEF CallStep, Named
  <2>6. CallInv(c)'
    BY <1>1, <2>2, <2>3 DEF CallInv, ProtocolInv, CallsInv, Named
  <2>7. MailStep(NoTxn) /\ AnswerStep
    BY <2>3, NoEntry DEF MailStep, AnswerStep
  <2>8. Sound(NoTxn)
    BY <2>2, <2>3, <2>5, <2>6, <2>7, NoEntry, CallSound
  <2> QED BY <2>8 DEF SoundStep
<1>3. CASE ~PreHolds(c)
  <2>1. /\ co' = [co EXCEPT ![c] = Ended] /\ answer' = [answer EXCEPT ![c] = "failed"]
        /\ UNCHANGED <<tablets, wk, late>>
    BY <1>3 DEF Begin, End
  <2>2. co'[c].pc = "end"
    BY <2>1, EndMove DEF ProtocolInv, Types
  <2>3. AnswerStep
    BY <1>1, <1>3, <2>1, <2>2 DEF AnswerStep
  <2>4. \A d \in Clients \ {c} : answer'[d] = answer[d]
    BY <1>1, <2>1, Unanswered
  <2>5. Sound(NoTxn)
    BY <2>1, <2>3, <2>4, EndSound
  <2> QED BY <2>5 DEF SoundStep
<1> QED BY <1>2, <1>3

\* The anchor is staged under an id nobody has seen.
LEMMA StageAnchorSound ==
  ASSUME ProtocolInv, NEW c \in Clients, StageAnchor(c)
  PROVE  SoundStep
<1> DEFINE u == <<c, co[c].n + 1>>  b == AnchorOf[c]
<1>1. /\ co[c].pc = "anchor" /\ co[c].n \in Nat /\ co[c].n < MaxAttempts /\ ApplyStage(u, b)
      /\ UNCHANGED <<wk, late>>
  BY NamedId DEF StageAnchor, ProtocolInv
<1>2. u \in TxnIds /\ u[1] = c /\ b \in Tablets /\ u[2] = co[c].n + 1
  BY <1>1, NamedId, TxnAssumption DEF ProtocolInv
<1>3. PICK t \in TxnIds : t = u
  BY <1>2
<1> HIDE DEF u
<1>4. t[1] = c /\ t[2] = co[c].n + 1 /\ ApplyStage(t, b)
  BY <1>1, <1>2, <1>3
<1>5. Fresh(t)
  BY <1>1, <1>4 DEF Fresh
<1>6. Unused(t) /\ AnchorStage(t) \notin late
  BY <1>5 DEF ProtocolInv, IdInv, FreshUnused
<1>7. MayStage(t, b)
  BY <1>4, <1>6 DEF MayStage
<1>8. Effect(t) /\ SameData
  BY <1>2, <1>4, <1>7, StageEffect, StageData DEF ProtocolInv, IdInv
<1>9. /\ Moved(c)
      /\ \/ /\ Outcome(t, b) = "Staged" /\ answer' = answer
            /\ co'[c].pc = "parts" /\ co'[c].n = co[c].n + 1 /\ co'[c].part = co[c].part
         \/ /\ answer' = answer
            /\ co'[c].pc = "anchor" /\ co'[c].n = co[c].n + 1 /\ co'[c].part = co[c].part
         \/ /\ Outcome(t, b) # "Staged" /\ co'[c].pc = "end"
            /\ answer' = [answer EXCEPT ![c] = "failed"]
         \/ /\ Outcome(t, b) # "Staged" /\ co'[c].pc = "end"
            /\ answer' = [answer EXCEPT ![c] = "unknown"]
  BY <1>3, AnchorMove DEF u, ProtocolInv
<1>10. answer[c] = "none" /\ \A d \in Clients \ {c} : answer'[d] = answer[d]
  BY <1>1, <1>9, Unanswered
<1>11. ~Fresh(t)'
  BY <1>1, <1>4, <1>9 DEF Fresh
<1>12. MailStep(t)
  BY <1>1, <1>6, <1>11 DEF MailStep
<1>13. CallStep(c, t)
  BY <1>1, <1>2, <1>3, <1>9 DEF CallStep, Named, u
<1>14. AnswerStep
  <2>1. Outcome(t, b) # "Staged" => UNCHANGED tablets
    BY <1>4 DEF ApplyStage
  <2> QED BY <1>1, <1>9, <1>10, <2>1 DEF AnswerStep
<1>15. CallInv(c)'
  <2>1. \A d \in Tablets : co[c].part[d] = "todo"
    BY <1>1 DEF ProtocolInv, CallsInv, CallInv
  <2>2. CASE co'[c].pc = "end"
    BY <2>2, EndedCall
  <2>3. CASE co'[c].pc = "anchor"
    BY <1>9, <1>10, <2>1, <2>3 DEF CallInv, Named
  <2>4. CASE co'[c].pc = "parts"
    <3>1. Outcome(t, b) = "Staged" /\ co'[c].n = co[c].n + 1 /\ co'[c].part = co[c].part
          /\ answer'[c] = "none"
      BY <1>9, <1>10, <2>4
    <3>2. rec' = [rec EXCEPT ![t] = StagedRecord(Writes[t[1]])]
      BY <1>4, <3>1 DEF ApplyStage
    <3>3. rec'[t].st = "Pending"
      BY <3>2 DEF ProtocolInv, Types, TabletTypes, StagedRecord
    <3>4. Id(c)' = t
      BY <1>3, <3>1 DEF Id, u
    <3>5. \A k \in PartKeys(c) : TabletOf[k] \in Tablets
      BY TxnAssumption DEF PartKeys
    <3> QED BY <2>1, <2>4, <3>1, <3>3, <3>4, <3>5 DEF CallInv, PartKeys
  <2> QED BY <1>9, <2>2, <2>3, <2>4
<1>16. Sound(t)
  BY <1>1, <1>8, <1>9, <1>10, <1>12, <1>13, <1>14, <1>15, CallSound DEF DataStep
<1> QED BY <1>16 DEF SoundStep

\* Every attempt was used, or the group refused.
LEMMA AnchorEndsSound ==
  ASSUME ProtocolInv, NEW c \in Clients, StageAnchorExhausted(c) \/ StageAnchorFenced(c)
  PROVE  SoundStep
<1>1. co[c].pc = "anchor" /\ UNCHANGED <<tablets, wk, late>>
  BY DEF StageAnchorExhausted, StageAnchorFenced
<1>2. PICK a \in {"failed", "unknown"} :
        co' = [co EXCEPT ![c] = Ended] /\ answer' = [answer EXCEPT ![c] = a]
  BY DEF StageAnchorExhausted, StageAnchorFenced, End
<1>3. answer[c] = "none" /\ \A d \in Clients \ {c} : answer'[d] = answer[d]
  BY <1>1, <1>2, Unanswered
<1>4. co'[c].pc = "end"
  BY <1>2, EndMove DEF ProtocolInv, Types
<1>5. AnswerStep
  BY <1>1, <1>2, <1>3, <1>4 DEF AnswerStep
<1>6. Sound(NoTxn)
  BY <1>1, <1>2, <1>3, <1>5, EndSound
<1> QED BY <1>6 DEF SoundStep

\* A decided transaction is known.
LEMMA DecidedKnown ==
  ASSUME NEW t, Decided(rec[t]) PROVE ~Unused(t)
BY DEF Decided, Unused, NoRecord

\* A call that goes on as it was.
LEMMA StillSteps ==
  ASSUME Types, NEW t, NEW c \in Clients, Still(c)
  PROVE  CallStep(c, t) /\ \A u \in TxnIds : Fresh(u)' <=> Fresh(u)
<1>1. co[c].n \in Nat
  BY NamedId
<1>2. CallStep(c, t)
  BY <1>1 DEF Still, SameCall, CallStep, Named
<1>3. ASSUME NEW u \in TxnIds PROVE Fresh(u)' <=> Fresh(u)
  <2>1. u[1] \in Clients
    BY Ids
  <2>2. co'[u[1]].pc = co[u[1]].pc /\ co'[u[1]].n = co[u[1]].n
    BY <2>1 DEF Still, SameCall, Moved
  <2> QED BY <2>2 DEF Fresh
<1> QED BY <1>2, <1>3

\* The blocker is resolved if it is decided.
LEMMA PushSound ==
  ASSUME SharedAtAnchor, ProtocolInv, NEW c \in Clients, NEW b \in Tablets, Push(c, b)
  PROVE  SoundStep
<1> DEFINE p == co[c].push[b]
<1>1. Still(c) /\ UNCHANGED <<wk, late, answer>>
  BY PushMove DEF Push, ProtocolInv
<1>2. p \in [k : Keys, t : TxnIds]
  BY CallFields DEF Push, Pushes, ProtocolInv, Types
<1>3. AnswerStep
  BY <1>1 DEF AnswerStep
<1>4. CASE Decided(rec[p.t])
  <2>1. PICK t \in TxnIds, ks \in SUBSET Keys : t = p.t /\ ks = {p.k}
    BY <1>2
  <2>2. Decided(rec[t]) /\ ApplyResolve(t, b, ks, rec[t].st)
    BY <1>4, <2>1 DEF Push
  <2>3. Effect(t) /\ DataStep(t)
    BY <2>2, ResolveEffect, ResolveData DEF DataStep, ProtocolInv, IdInv
  <2>4. MailStep(t)
    BY <1>1, <2>2, DecidedKnown, KnownIds, StillSteps DEF MailStep, ProtocolInv
  <2>5. Sound(t)
    BY <1>1, <1>3, <2>3, <2>4, StillSteps, CallSound DEF Still, ProtocolInv
  <2> QED BY <2>5 DEF SoundStep
<1>5. CASE ~Decided(rec[p.t])
  <2>1. UNCHANGED tablets
    BY <1>5 DEF Push
  <2>2. MailStep(NoTxn)
    BY <1>1, <2>1, NoEntry DEF MailStep
  <2>3. Sound(NoTxn)
    BY <1>1, <1>3, <2>1, <2>2, NoEntry, StillSteps, CallSound DEF Still, ProtocolInv
  <2> QED BY <2>3 DEF SoundStep
<1> QED BY <1>4, <1>5

\* A participant is not the anchor.
LEMMA ParticipantFacts ==
  ASSUME NEW c \in Clients, NEW b \in Participants(c)
  PROVE  b \in Tablets /\ b # AnchorOf[c]
BY TxnAssumption DEF Participants

\* A participant is staged under the id of the anchor.
LEMMA StagePartSound ==
  ASSUME ProtocolInv, NEW c \in Clients, NEW b \in Tablets, StagePart(c, b)
  PROVE  SoundStep
<1>1. co[c].pc = "parts" /\ b \in Participants(c) /\ ApplyStage(Id(c), b)
      /\ UNCHANGED <<wk, late, answer>>
  BY DEF StagePart, Staging
<1>2. co[c].pc \in Named
  BY <1>1 DEF Named
<1>3. PICK t \in TxnIds : t = Id(c)
  BY <1>2, NamedCall
<1>4. t[1] = c /\ rec[t].st # "None" /\ ~Unused(t) /\ ~Forgotten(t) /\ AnchorStage(t) \notin late
      /\ ~Fresh(t)
  BY <1>2, <1>3, NamedCall
<1>5. MayStage(t, b) /\ ApplyStage(t, b)
  BY <1>1, <1>3, <1>4, ParticipantFacts DEF MayStage, ByCall
<1>6. Effect(t) /\ DataStep(t)
  BY <1>5, StageEffect, StageData DEF DataStep, ProtocolInv, IdInv
<1>7. /\ Moved(c) /\ co'[c].pc = "parts" /\ co'[c].n = co[c].n
      /\ \A d \in Tablets : co'[c].part[d] = "ok" =>
           co[c].part[d] = "ok" \/ (d = b /\ Outcome(t, b) = "Staged")
  BY <1>3, PartMove DEF ProtocolInv
<1>8. CallStep(c, t) /\ ~Fresh(t)'
  BY <1>1, <1>2, <1>4, <1>7 DEF CallStep, Fresh, Named
<1>9. MailStep(t) /\ AnswerStep
  BY <1>1, <1>4, <1>8 DEF MailStep, AnswerStep
<1>10. CallInv(c)'
  <2>1. RecordStep(t) /\ IntentStep(t)
    BY <1>6 DEF Effect, IdStep
  <2>2. rec'[t].st # "None"
    BY <1>4, <2>1 DEF RecordStep
  <2>3. answer'[c] = "none"
    BY <1>1, Unanswered
  <2>4. Id(c)' = t
    BY <1>3, <1>7 DEF Id
  <2>5. ASSUME rec'[t].st = "Pending", NEW k \in PartKeys(c), co'[c].part[TabletOf[k]] = "ok"
        PROVE  row'[k].txn = t
    <3>1. k \in Keys /\ TabletOf[k] \in Tablets
      BY <1>4, Ids, TxnAssumption DEF PartKeys
    <3>2. CASE co[c].part[TabletOf[k]] = "ok"
      <4>1. rec[t].st = "Pending"
        BY <1>4, <2>1, <2>5 DEF RecordStep
      <4>2. row[k].txn = t
        BY <1>1, <1>3, <3>2, <4>1 DEF ProtocolInv, CallsInv, CallInv
      <4> QED BY <2>1, <2>5, <3>1, <4>1, <4>2 DEF IntentStep
    <3>3. CASE TabletOf[k] = b /\ Outcome(t, b) = "Staged"
      <4>1. k \in KeysAt(t[1], b)
        BY <1>4, <3>3 DEF KeysAt, PartKeys
      <4>2. row' = Overlay(Intents(row, t, KeysAt(t[1], b)))
        BY <1>5, <3>3 DEF ApplyStage
      <4>3. row'[k] = Intents(row, t, KeysAt(t[1], b))[k]
        BY <3>1, <4>1, <4>2 DEF Overlay, Intents
      <4> QED BY <4>1, <4>3 DEF Intents
    <3> QED BY <1>7, <2>5, <3>1, <3>2, <3>3
  <2> QED BY <1>7, <2>2, <2>3, <2>4, <2>5 DEF CallInv, PartKeys
<1>11. Sound(t)
  BY <1>1, <1>6, <1>7, <1>8, <1>9, <1>10, CallSound
<1> QED BY <1>11 DEF SoundStep

\* A participant is given up.
LEMMA StagePartExhaustedSound ==
  ASSUME ProtocolInv, NEW c \in Clients, NEW b \in Tablets, StagePartExhausted(c, b)
  PROVE  SoundStep
<1>1. co[c].pc = "parts" /\ UNCHANGED <<tablets, wk, late, answer>>
  BY DEF StagePartExhausted, Staging
<1>2. /\ Moved(c) /\ co'[c].pc = "parts" /\ co'[c].n = co[c].n
      /\ \A d \in Tablets : co'[c].part[d] = "ok" => co[c].part[d] = "ok"
  BY ExhaustedMove DEF ProtocolInv
<1>3. CallStep(c, NoTxn)
  BY <1>1, <1>2 DEF CallStep, Named
<1>4. MailStep(NoTxn) /\ AnswerStep
  BY <1>1, NoEntry DEF MailStep, AnswerStep
<1>5. CallInv(c)'
  <2>1. Id(c)' = Id(c) /\ row' = row /\ rec' = rec
    BY <1>1, <1>2 DEF Id, tablets
  <2>2. \A k \in PartKeys(c) : TabletOf[k] \in Tablets
    BY TxnAssumption DEF PartKeys
  <2> QED BY <1>1, <1>2, <2>1, <2>2 DEF CallInv, ProtocolInv, CallsInv, PartKeys, Named
<1>6. Sound(NoTxn)
  BY <1>1, <1>2, <1>3, <1>4, <1>5, NoEntry, CallSound
<1> QED BY <1>6 DEF SoundStep

\* A tablet is resolved with the decision of the record.
LEMMA ResolveSound ==
  ASSUME SharedAtAnchor, ProtocolInv, NEW c \in Clients, NEW b \in Tablets, Resolve(c, b)
  PROVE  SoundStep
<1>1. co[c].pc = "resolve" /\ UNCHANGED <<wk, late, answer>>
      /\ ApplyResolve(Id(c), b, KeysAt(c, b), rec[Id(c)].st)
  BY DEF Resolve
<1>2. co[c].pc \in Named
  BY <1>1 DEF Named
<1>3. PICK t \in TxnIds : t = Id(c)
  BY <1>2, NamedCall
<1>4. t[1] = c /\ ~Forgotten(t) /\ AnchorStage(t) \notin late /\ ~Fresh(t)
  BY <1>2, <1>3, NamedCall
<1>5. Decided(rec[t])
  BY <1>1, <1>3 DEF ProtocolInv, CallsInv, CallInv
<1>6. KeysAt(c, b) \in SUBSET Keys
  BY <1>4, Ids
<1>7. Effect(t) /\ DataStep(t)
  BY <1>1, <1>3, <1>5, <1>6, ResolveEffect, ResolveData DEF DataStep, ProtocolInv, IdInv
<1>8. /\ Moved(c)
      /\ co'[c].pc = "end" \/ (co'[c].pc = "resolve" /\ co'[c].n = co[c].n)
  BY ResolveMove DEF ProtocolInv
<1>9. CallStep(c, t) /\ ~Fresh(t)'
  BY <1>1, <1>2, <1>4, <1>8 DEF CallStep, Named, Fresh
<1>10. MailStep(t) /\ AnswerStep
  BY <1>1, <1>4, <1>9 DEF MailStep, AnswerStep
<1>11. CallInv(c)'
  <2>1. CASE co'[c].pc = "end"
    BY <2>1, EndedCall
  <2>2. CASE co'[c].pc = "resolve"
    <3>1. Id(c)' = t
      BY <1>3, <1>8, <2>2 DEF Id
    <3>2. rec'[t].st = rec[t].st
      BY <1>4, <1>5, <1>7 DEF Effect, IdStep, RecordStep
    <3> QED BY <1>5, <2>2, <3>1, <3>2 DEF CallInv, Decided
  <2> QED BY <1>8, <2>1, <2>2
<1>12. Sound(t)
  BY <1>1, <1>7, <1>8, <1>9, <1>10, <1>11, CallSound
<1> QED BY <1>12 DEF SoundStep

\* The outcome is chosen: a commit only if every intent is in place.
LEMMA ChooseSound ==
  ASSUME ProtocolInv, NEW c \in Clients, Choose(c)
  PROVE  SoundStep
<1> DEFINE t == Id(c)
<1>1. co[c].pc = "parts" /\ co[c].pc \in Named /\ UNCHANGED <<tablets, wk, late>>
  BY DEF Choose, Named
<1>2. t \in TxnIds /\ t[1] = c /\ rec[t].st # "None"
  BY <1>1, NamedCall
<1>3. /\ Moved(c)
      /\ \/ /\ co'[c].pc = "decide" /\ co'[c].n = co[c].n /\ answer' = answer
            /\ \/ /\ co'[c].want = "Aborted" /\ co'[c].fail # "none"
               \/ /\ co'[c].want = "Committed"
                  /\ \A b \in Participants(c) : co[c].part[b] = "ok"
         \/ /\ co'[c].pc = "end" /\ ~PreHolds(c)
            /\ answer' = [answer EXCEPT ![c] = "failed"]
  BY ChooseMove DEF ProtocolInv
<1>4. answer[c] = "none" /\ \A d \in Clients \ {c} : answer'[d] = answer[d]
  BY <1>1, <1>3, Unanswered
<1>5. AnswerStep /\ MailStep(NoTxn)
  BY <1>1, <1>3, <1>4, NoEntry DEF AnswerStep, MailStep
<1>6. CallStep(c, NoTxn)
  BY <1>1, <1>3 DEF CallStep, Named
<1>7. CallInv(c)'
  <2>1. CASE co'[c].pc = "end"
    BY <2>1, EndedCall
  <2>2. CASE co'[c].pc = "decide"
    <3>1. Id(c)' = t /\ row' = row /\ rec' = rec /\ answer'[c] = "none"
      BY <1>1, <1>3, <1>4, <2>2 DEF Id, tablets
    <3>2. ASSUME co'[c].want = "Committed", rec[t].st = "Pending"
          PROVE  \A k \in Writes[t[1]] : row[k].txn = t
      <4>1. \A b \in Participants(c) : co[c].part[b] = "ok"
        BY <1>3, <2>2, <3>2
      <4>2. \A k \in AnchorKeys(c) : row[k].txn = t
        BY <1>2, <3>2 DEF ProtocolInv, RecordInv, PendingRecords
      <4>3. \A k \in PartKeys(c) : TabletOf[k] \in Participants(c)
        BY DEF PartKeys, Participants
      <4>4. \A k \in PartKeys(c) : row[k].txn = t
        BY <1>1, <3>2, <4>1, <4>3 DEF ProtocolInv, CallsInv, CallInv
      <4> QED BY <1>2, <4>2, <4>4 DEF AnchorKeys, PartKeys
    <3> HIDE DEF t
    <3> QED BY <1>2, <1>3, <2>2, <3>1, <3>2 DEF CallInv, StagedAll
  <2> QED BY <1>3, <2>1, <2>2
<1>8. Sound(NoTxn)
  BY <1>1, <1>3, <1>4, <1>5, <1>6, <1>7, NoEntry, CallSound
<1> QED BY <1>8 DEF SoundStep

\* The decision is applied.
LEMMA DecideSound ==
  ASSUME ProtocolInv, NEW c \in Clients, Decide(c)
  PROVE  SoundStep
<1>1. co[c].pc = "decide" /\ co[c].pc \in Named /\ UNCHANGED <<wk, late, answer>>
      /\ ApplyDecision(Id(c), co[c].want, FALSE) /\ co' = [co EXCEPT ![c].pc = "answer"]
  BY DEF Decide, Named
<1>2. PICK t \in TxnIds, o \in {"Committed", "Aborted"} : t = Id(c) /\ o = co[c].want
  BY <1>1, NamedCall, CallFields DEF ProtocolInv, Types
<1>3. t[1] = c /\ rec[t].st # "None" /\ ~Unused(t) /\ ~Forgotten(t) /\ AnchorStage(t) \notin late
      /\ ~Fresh(t)
  BY <1>1, <1>2, NamedCall
<1>4. MayDecide(t, o, FALSE) /\ ApplyDecision(t, o, FALSE)
  BY <1>1, <1>2, <1>3 DEF MayDecide, ProtocolInv, CallsInv, CallInv
<1>5. Effect(t) /\ DataStep(t)
  BY <1>4, DecisionEffect, DecisionData DEF DataStep, ProtocolInv, IdInv
<1>6. co[c].n # 0 /\ "answer" \in Phases
  BY <1>1, CallFields DEF ProtocolInv, Types, Phases
<1>7. /\ Moved(c) /\ co'[c].pc = "answer" /\ co'[c].n = co[c].n
      /\ co'[c].want = co[c].want /\ co'[c].fail = co[c].fail
  BY <1>1, <1>6, PhaseMove DEF ProtocolInv, Types
<1>8. CallStep(c, t) /\ ~Fresh(t)'
  BY <1>1, <1>3, <1>7 DEF CallStep, Named, Fresh
<1>9. MailStep(t) /\ AnswerStep
  BY <1>1, <1>3, <1>8 DEF MailStep, AnswerStep
<1>10. CallInv(c)'
  <2>1. rec'[t].st # "None"
    BY <1>3, <1>5 DEF Effect, IdStep, RecordStep
  <2>2. Id(c)' = t /\ answer'[c] = "none"
    BY <1>1, <1>2, <1>7, Unanswered DEF Id
  <2>3. co[c].want = "Aborted" => co[c].fail # "none"
    BY <1>1 DEF ProtocolInv, CallsInv, CallInv
  <2> QED BY <1>7, <2>1, <2>2, <2>3 DEF CallInv
<1>11. Sound(t)
  BY <1>1, <1>5, <1>7, <1>8, <1>9, <1>10, CallSound
<1> QED BY <1>11 DEF SoundStep

\* The client hears what the record says.
LEMMA AnswerSound ==
  ASSUME ProtocolInv, NEW c \in Clients, AnswerClient(c)
  PROVE  SoundStep
<1> DEFINE t == Id(c)
<1>1. co[c].pc = "answer" /\ co[c].pc \in Named /\ Decided(rec[t])
      /\ UNCHANGED <<tablets, wk, late>>
  BY DEF AnswerClient, Named
<1>2. Moved(c) /\ co'[c].pc = "resolve" /\ co'[c].n = co[c].n
  BY AnswerMove DEF ProtocolInv
<1>3. answer[c] = "none"
  BY <1>1, Unanswered
<1>4. co[c].want = "Aborted" => co[c].fail \in {"failed", "unknown"}
  BY <1>1, CallFields DEF ProtocolInv, CallsInv, CallInv, Types
<1>5. \/ answer' = [answer EXCEPT ![c] = "ok"] /\ rec[t].st = "Committed"
      \/ answer' = [answer EXCEPT ![c] = "failed"] /\ rec[t].st = "Aborted"
      \/ answer' = [answer EXCEPT ![c] = "unknown"]
  BY <1>1, <1>4 DEF AnswerClient, Decided
<1>6. \A d \in Clients \ {c} : answer'[d] = answer[d]
  BY <1>1, <1>5, Unanswered
<1>7. AnswerStep /\ MailStep(NoTxn)
  BY <1>1, <1>2, <1>3, <1>5, NoEntry DEF AnswerStep, MailStep
<1>8. CallStep(c, NoTxn)
  BY <1>1, <1>2 DEF CallStep, Named
<1>9. CallInv(c)'
  <2>1. Id(c)' = t /\ rec' = rec
    BY <1>1, <1>2 DEF Id, tablets
  <2> QED BY <1>1, <1>2, <2>1 DEF CallInv, Decided
<1>10. Sound(NoTxn)
  BY <1>1, <1>2, <1>6, <1>7, <1>8, <1>9, NoEntry, CallSound
<1> QED BY <1>10 DEF SoundStep

\* Every step of a coordinator.
LEMMA CoordinatorSound ==
  ASSUME SharedAtAnchor, ProtocolInv, NEW c \in Clients, Coordinator(c)
  PROVE  SoundStep
BY BeginSound, StageAnchorSound, AnchorEndsSound, PushSound, StagePartSound,
   StagePartExhaustedSound, ResolveSound, ChooseSound, DecideSound, AnswerSound
   DEF Coordinator

-----------------------------------------------------------------------------
(* Faults and late proposals.                                              *)

\* The answer to an anchor stage is lost.
LEMMA StageAnchorLostSound ==
  ASSUME ProtocolInv, NEW c \in Clients, StageAnchorLost(c)
  PROVE  SoundStep
<1> DEFINE u == <<c, co[c].n + 1>>
<1>1. /\ Moved(c) /\ co'[c].n = co[c].n + 1 /\ co'[c].pc = "anchor"
      /\ co'[c].part = co[c].part /\ co[c].n + 1 \in 1 .. MaxAttempts
  BY AnchorLostMove DEF ProtocolInv
<1>2. /\ co[c].pc = "anchor" /\ UNCHANGED <<tablets, wk, answer>> /\ co[c].n \in Nat
      /\ late' = late \cup {[op |-> "stage", t |-> u, b |-> AnchorOf[c]]}
  BY NamedId DEF StageAnchorLost, ProtocolInv
<1>3. u \in TxnIds /\ u[1] = c /\ u[2] = co[c].n + 1
  BY <1>1, NamedId DEF ProtocolInv
<1>4. late' = late \cup {AnchorStage(u)}
  BY <1>2, <1>3 DEF AnchorStage
<1>5. Fresh(u) /\ co'[u[1]].pc \notin Named
  BY <1>1, <1>2, <1>3 DEF Fresh, Named
<1>6. PICK t \in TxnIds : t = u
  BY <1>3
<1> HIDE DEF u
<1>7. ~Fresh(t)'
  BY <1>1, <1>2, <1>3, <1>6 DEF Fresh
<1>8. MailStep(NoTxn)
  <2>1. \A m \in late' \ late : NewMail(m)
    BY <1>4, <1>5, <1>6, <1>7 DEF NewMail
  <2> QED BY <2>1, <1>2, NoEntry DEF MailStep
<1>9. CallStep(c, NoTxn) /\ AnswerStep
  BY <1>1, <1>2 DEF CallStep, Named, AnswerStep
<1>10. CallInv(c)'
  BY <1>1, <1>2 DEF CallInv, ProtocolInv, CallsInv, Named
<1>11. Sound(NoTxn)
  BY <1>1, <1>2, <1>8, <1>9, <1>10, NoEntry, CallSound
<1> QED BY <1>11 DEF SoundStep

\* The answer to a participant's stage is lost.
LEMMA StagePartLostSound ==
  ASSUME ProtocolInv, NEW c \in Clients, NEW b \in Tablets, StagePartLost(c, b)
  PROVE  SoundStep
<1> DEFINE m == [op |-> "stage", t |-> Id(c), b |-> b]
<1>1. /\ co[c].pc = "parts" /\ b \in Participants(c) /\ UNCHANGED <<tablets, wk, answer>>
      /\ late' = late \cup {m}
  BY DEF StagePartLost, Staging
<1>2. co[c].pc \in Named
  BY <1>1 DEF Named
<1>3. Id(c)[1] = c /\ ~Unused(Id(c)) /\ ByCall(Id(c)) /\ b # AnchorOf[c]
  BY <1>1, <1>2, NamedCall, ParticipantFacts DEF ByCall
<1>4. NewMail(m)
  BY <1>3 DEF NewMail
<1>5. MailStep(NoTxn) /\ AnswerStep
  BY <1>1, <1>4, NoEntry DEF MailStep, AnswerStep
<1>6. Still(c)
  BY PartLostMove DEF ProtocolInv
<1>7. Sound(NoTxn)
  BY <1>1, <1>5, <1>6, NoEntry, StillSteps, CallSound DEF Still, ProtocolInv
<1> QED BY <1>7 DEF SoundStep

\* The answer to a decision is lost.
LEMMA DecideLostSound ==
  ASSUME ProtocolInv, NEW c \in Clients, DecideLost(c)
  PROVE  SoundStep
<1> DEFINE t == Id(c)  m == [op |-> co[c].want, t |-> t]
<1>1. /\ co[c].pc = "decide" /\ UNCHANGED <<tablets, co, wk, answer>> /\ late' = late \cup {m}
  BY DEF DecideLost
<1>2. ~Unused(t) /\ co[c].want \in {"Committed", "Aborted"}
  BY <1>1, NamedCall, CallFields DEF Named, ProtocolInv, Types
<1>3. co[c].want = "Committed" /\ rec'[t].st = "Pending" => \A k \in Writes[t[1]] : row'[k].txn = t
  BY <1>1 DEF ProtocolInv, CallsInv, CallInv, StagedAll, tablets
<1>4. m.op = co[c].want /\ m.t = t /\ t' = t /\ m' = m
  BY <1>1 DEF Id
<1>5. NewMail(m)
  <2>1. m.op = "Committed" /\ rec'[m.t].st = "Pending" => StagedAll(m.t)'
    BY <1>3, <1>4 DEF StagedAll
  <2> QED BY <1>2, <1>4, <2>1 DEF NewMail
<1>6. MailStep(NoTxn) /\ AnswerStep
  BY <1>1, <1>5, NoEntry DEF MailStep, AnswerStep
<1>7. Still(c)
  BY <1>1 DEF Still, Moved, SameCall, ProtocolInv, Types
<1>8. Sound(NoTxn)
  BY <1>1, <1>6, <1>7, NoEntry, StillSteps, CallSound DEF Still, ProtocolInv
<1> QED BY <1>8 DEF SoundStep

\* The caller gives up, or its node stops.
LEMMA CallStopsSound ==
  ASSUME ProtocolInv, NEW c \in Clients, DecideGiveUp(c) \/ Crash(c)
  PROVE  SoundStep
<1>1. co' = [co EXCEPT ![c] = Ended] /\ UNCHANGED <<tablets, wk, late>>
  BY DEF DecideGiveUp, Crash, End
<1>2. co'[c].pc = "end"
  BY <1>1, EndMove DEF ProtocolInv, Types
<1>3. AnswerStep /\ \A d \in Clients \ {c} : answer'[d] = answer[d]
  <2>1. CASE Crash(c)
    BY <2>1 DEF Crash, AnswerStep
  <2>2. CASE DecideGiveUp(c)
    <3>1. answer[c] = "none"
      BY <2>2, Unanswered DEF DecideGiveUp
    <3>2. answer' = [answer EXCEPT ![c] = "unknown"]
      BY <2>2 DEF DecideGiveUp, End
    <3> QED BY <1>1, <1>2, <2>2, <3>1, <3>2, Unanswered DEF AnswerStep, DecideGiveUp
  <2> QED BY <2>1, <2>2
<1>4. Sound(NoTxn)
  BY <1>1, <1>3, EndSound
<1> QED BY <1>4 DEF SoundStep

\* A proposal whose caller is gone is applied.
LEMMA LateSound ==
  ASSUME ProtocolInv, NEW m \in late, LateApply(m)
  PROVE  SoundStep
<1>1. m \in Messages /\ late' = late \ {m} /\ UNCHANGED <<co, wk, answer>>
  BY DEF ProtocolInv, Types, OtherTypes, LateApply
<1>2. PICK t \in TxnIds : t = m.t
  BY <1>1, MessageFields
<1>3. \A c \in Clients : SameCall(c) /\ CallStep(c, t)
  <2> SUFFICES ASSUME NEW c \in Clients PROVE SameCall(c) /\ CallStep(c, t)
    OBVIOUS
  <2>1. co'[c] = co[c] /\ co[c].n \in Nat
    BY <1>1, NamedId DEF ProtocolInv
  <2> QED BY <2>1 DEF SameCall, CallStep, Named
<1>4. Fresh(t)' <=> Fresh(t)
  BY <1>1 DEF Fresh
<1>5. CASE m = AnchorStage(t)
  <2>1. Unused(t) /\ ~Fresh(t)
    BY <1>5 DEF ProtocolInv, IdInv, LateUnused, FreshUnused
  <2>2. m.op = "stage" /\ m.b = AnchorOf[t[1]] /\ m.b \in Tablets
    BY <1>5, AnchorStages, Ids
  <2>3. MayStage(t, m.b) /\ ApplyStage(t, m.b)
    BY <1>2, <2>1, <2>2 DEF MayStage, LateApply
  <2>4. Effect(t) /\ DataStep(t)
    BY <2>2, <2>3, StageEffect, StageData DEF DataStep, ProtocolInv, IdInv
  <2>5. MailStep(t)
    BY <1>1, <1>4, <1>5, <2>1 DEF MailStep
  <2>6. Step(t)
    BY <1>1, <1>3, <2>4, <2>5 DEF Step, WorkStep
  <2> QED BY <1>1, <1>3, <2>4, <2>6 DEF SoundStep, Sound, AnswerStep
<1>6. CASE m # AnchorStage(t)
  <2>1. ~Unused(t)
    BY <1>2, <1>6 DEF Unused
  <2>2. AnchorStage(t) \notin late' /\ ~Fresh(t)'
    BY <1>1, <1>4, <2>1, KnownIds
  <2>3. MailStep(t)
    BY <1>1, <2>2 DEF MailStep
  <2>4. Effect(t) /\ DataStep(t)
    <3>1. CASE m.op = "stage"
      <4>1. m.b \in Tablets /\ m.b # AnchorOf[t[1]]
        BY <1>1, <1>2, <1>6, <3>1, MessageFields DEF AnchorStage
      <4>2. Parted(t)
        BY <1>2, <3>1, <4>1 DEF Parted
      <4>3. MayStage(t, m.b) /\ ApplyStage(t, m.b)
        BY <1>2, <3>1, <4>1, <4>2 DEF MayStage, LateApply
      <4> QED BY <4>1, <4>3, StageEffect, StageData DEF DataStep, ProtocolInv, IdInv
    <3>2. CASE m.op # "stage"
      <4>1. m.op \in {"Committed", "Aborted"}
        BY <1>1, <3>2, MessageFields
      <4>2. m.op = "Committed" /\ rec[t].st = "Pending" => StagedAll(t)
        BY <1>2 DEF ProtocolInv, LateCommits
      <4>3. MayDecide(t, m.op, FALSE) /\ ApplyDecision(t, m.op, FALSE)
        BY <1>2, <2>1, <3>2, <4>2 DEF MayDecide, LateApply
      <4> QED BY <4>1, <4>3, DecisionEffect, DecisionData DEF DataStep, ProtocolInv, IdInv
    <3> QED BY <3>1, <3>2
  <2>5. Step(t)
    BY <1>1, <1>3, <2>3, <2>4 DEF Step, WorkStep
  <2> QED BY <1>1, <1>3, <2>4, <2>5 DEF SoundStep, Sound, AnswerStep
<1> QED BY <1>5, <1>6

\* An ordinary write.
LEMMA WriteSound ==
  ASSUME ProtocolInv, NEW k \in Keys, Write(k)
  PROVE  SoundStep
<1>1. UNCHANGED <<co, wk, late, answer>>
  BY DEF Write
<1>2. Effect(NoTxn) /\ DataStep(NoTxn) /\ NoTxn \notin TxnIds
  BY WriteEffect, WriteShows, TxnAssumption DEF DataStep, ProtocolInv, IdInv, TxnIds
<1>3. \A c \in Clients : SameCall(c) /\ CallStep(c, NoTxn)
  <2> SUFFICES ASSUME NEW c \in Clients PROVE SameCall(c) /\ CallStep(c, NoTxn)
    OBVIOUS
  <2>1. co'[c] = co[c] /\ co[c].n \in Nat
    BY <1>1, NamedId DEF ProtocolInv
  <2> QED BY <2>1 DEF SameCall, CallStep, Named
<1>4. Step(NoTxn)
  BY <1>1, <1>2, <1>3 DEF Step, WorkStep, MailStep
<1> QED BY <1>1, <1>2, <1>3, <1>4 DEF SoundStep, Sound, AnswerStep

\* A stub is reaped.
LEMMA ReapSound ==
  ASSUME ProtocolInv, NEW t \in TxnIds, Reap(t)
  PROVE  SoundStep
<1>1. UNCHANGED <<co, wk, late, answer, row, done>> /\ rec[t].stub
  BY DEF Reap
<1>2. ~Unused(t)
  BY <1>1 DEF Unused, NoRecord
<1>3. rec'[t] = NoRecord /\ \A u \in TxnIds \ {t} : rec'[u] = rec[u]
  BY DEF Reap, ProtocolInv, Types, TabletTypes
<1>4. Effect(t) /\ DataStep(t)
  BY <1>1, <1>3, ReapEffect, RecordData DEF DataStep, ProtocolInv, IdInv
<1>5. \A c \in Clients : SameCall(c) /\ CallStep(c, t)
  <2> SUFFICES ASSUME NEW c \in Clients PROVE SameCall(c) /\ CallStep(c, t)
    OBVIOUS
  <2>1. co'[c] = co[c] /\ co[c].n \in Nat
    BY <1>1, NamedId DEF ProtocolInv
  <2> QED BY <2>1 DEF SameCall, CallStep, Named
<1>6. MailStep(t)
  BY <1>1, <1>2, KnownIds DEF MailStep, Fresh
<1>7. Step(t)
  BY <1>1, <1>4, <1>5, <1>6 DEF Step, WorkStep
<1> QED BY <1>1, <1>4, <1>5, <1>7 DEF SoundStep, Sound, AnswerStep

-----------------------------------------------------------------------------
(* Recovery and the sweep.                                                 *)

\* A worker's transaction is known, and asked for.
LEMMA VisitedId ==
  ASSUME ProtocolInv, NEW w \in Workers, wk[w].pc # "idle"
  PROVE  /\ wk[w].t \in TxnIds /\ ~Unused(wk[w].t) /\ ~Forgotten(wk[w].t)
         /\ wk[w].todo \subseteq Keys /\ wk[w].spans \subseteq Keys /\ VisitInv(w)
BY JobFields DEF ProtocolInv, Types, Unused, Forgotten, VisitsInv

\* A worker that stops relies on nothing.
LEMMA IdleSound ==
  ASSUME ProtocolInv, NEW w \in Workers, wk' = [wk EXCEPT ![w] = Idle],
         UNCHANGED <<tablets, co, late, answer>>
  PROVE  SoundStep
<1>1. Worked(w) /\ wk'[w].pc = "idle" /\ wk'[w].t = NoTxn
  BY IdleMove DEF ProtocolInv
<1>2. VisitInv(w)' /\ WorkStep(w)
  BY <1>1 DEF VisitInv, WorkStep
<1>3. Sound(NoTxn)
  BY <1>1, <1>2, NoEntry, WorkSound
<1> QED BY <1>3 DEF SoundStep

\* A recovery starts.
LEMMA RecViewSound ==
  ASSUME ProtocolInv, NEW w \in Workers, NEW t \in TxnIds, RecView(w, t)
  PROVE  SoundStep
<1>1. UNCHANGED <<tablets, co, late, answer>> /\ (rec[t].st = "Pending" \/ Live(t))
  BY DEF RecView
<1>2. ~Unused(t)
  <2>1. NoRecord.st # "Pending"
    BY DEF NoRecord
  <2>2. CASE rec[t].st = "Pending"
    BY <2>1, <2>2 DEF Unused
  <2>3. CASE Live(t)
    BY <2>3 DEF Unused, Live
  <2> QED BY <1>1, <2>2, <2>3
<1>3. /\ Worked(w) /\ wk'[w].t = t
      /\ \/ rec[t].st = "None" /\ wk'[w].pc = "orphan"
         \/ /\ rec[t].st = "Pending" /\ wk'[w].pc = "verify"
            /\ wk'[w].todo = rec[t].spans /\ wk'[w].spans = rec[t].spans
         \/ Decided(rec[t]) /\ wk'[w].pc = "resolve"
  BY RecViewMove DEF ProtocolInv
<1>4. rec' = rec /\ done' = done
  BY <1>1 DEF tablets
<1>5. VisitInv(w)'
  <2>1. rec[t].st = "None" => t \notin done
    BY <1>1 DEF ProtocolInv, RecordInv, DoneRecords
  <2>2. rec[t].st = "Pending" => rec[t].spans = Writes[t[1]]
    BY DEF ProtocolInv, RecordInv, PendingRecords
  <2> QED BY <1>3, <1>4, <2>1, <2>2 DEF VisitInv
<1>6. WorkStep(w)
  BY <1>2, <1>3 DEF WorkStep
<1>7. Sound(NoTxn)
  BY <1>1, <1>3, <1>5, <1>6, NoEntry, WorkSound
<1> QED BY <1>7 DEF SoundStep

\* The sweep turns to a decided record.
LEMMA SweepViewSound ==
  ASSUME ProtocolInv, NEW w \in Workers, NEW t \in TxnIds, SweepView(w, t)
  PROVE  SoundStep
<1>1. UNCHANGED <<tablets, co, late, answer>> /\ Decided(rec[t]) /\ ~rec[t].stub
  BY DEF SweepView
<1>2. /\ Worked(w) /\ wk'[w].t = t
      /\ \/ /\ wk'[w].pc = "clear" /\ wk'[w].todo = rec[t].spans
            /\ wk'[w].spans = rec[t].spans
         \/ wk'[w].pc = "resolve"
  BY SweepViewMove DEF ProtocolInv
<1>3. rec[t].st = "Committed" => rec[t].spans = Writes[t[1]]
  BY <1>1 DEF ProtocolInv, RecordInv, CommittedRecords
<1>4. rec' = rec
  BY <1>1 DEF tablets
<1>5. VisitInv(w)' /\ WorkStep(w)
  BY <1>1, <1>2, <1>3, <1>4, DecidedKnown DEF VisitInv, WorkStep, Decided
<1>6. Sound(NoTxn)
  BY <1>1, <1>2, <1>5, NoEntry, WorkSound
<1> QED BY <1>6 DEF SoundStep

\* A span is verified.
LEMMA RecVerifySound ==
  ASSUME ProtocolInv, NEW w \in Workers, NEW k \in Keys, RecVerify(w, k)
  PROVE  SoundStep
<1>1. UNCHANGED <<tablets, co, late, answer>> /\ wk[w].pc = "verify"
  BY DEF RecVerify
<1>2. /\ Worked(w) /\ wk'[w].pc = "verify" /\ wk'[w].t = wk[w].t
      /\ wk'[w].spans = wk[w].spans /\ wk'[w].todo = wk[w].todo \ {k}
      /\ wk'[w].all => wk[w].all /\ row[k].txn = wk[w].t
  BY RecVerifyMove DEF ProtocolInv
<1>3. rec' = rec /\ row' = row /\ VisitInv(w)
  BY <1>1, VisitedId DEF tablets
<1>4. VisitInv(w)' /\ WorkStep(w)
  BY <1>1, <1>2, <1>3 DEF VisitInv, WorkStep
<1>5. Sound(NoTxn)
  BY <1>1, <1>2, <1>4, NoEntry, WorkSound
<1> QED BY <1>5 DEF SoundStep

\* A span is looked at by the sweep.
LEMMA SweepVerifySound ==
  ASSUME ProtocolInv, NEW w \in Workers, NEW k \in Keys, SweepVerify(w, k)
  PROVE  SoundStep
<1>1. UNCHANGED <<tablets, co, late, answer>> /\ wk[w].pc \in {"clear", "recheck"}
  BY DEF SweepVerify
<1>2. /\ Worked(w)
      /\ \/ /\ wk'[w].pc = wk[w].pc /\ wk'[w].t = wk[w].t
            /\ wk'[w].spans = wk[w].spans /\ wk'[w].todo = wk[w].todo \ {k}
            /\ row[k].txn # wk[w].t
         \/ wk'[w].pc = "fix" /\ wk'[w].t = wk[w].t /\ wk'[w].spans = wk[w].spans
         \/ wk'[w].pc = "idle" /\ wk'[w].t = NoTxn
  BY SweepVerifyMove DEF ProtocolInv
<1>3. rec' = rec /\ row' = row /\ VisitInv(w)
  BY <1>1, VisitedId DEF tablets
<1>4. VisitInv(w)'
  <2> DEFINE v == wk[w]  t == v.t
  <2>1. /\ Decided(rec[t]) /\ (rec[t].st = "Committed" => v.spans = Writes[t[1]])
        /\ rec[t].st = "Committed" => \A j \in v.spans \ v.todo : row[j].txn # t
    BY <1>1, <1>3 DEF VisitInv
  <2>2. CASE wk'[w].pc = "idle"
    BY <2>2 DEF VisitInv
  <2>3. CASE wk'[w].pc = "fix" /\ wk'[w].t = t /\ wk'[w].spans = v.spans
    BY <1>3, <2>1, <2>3 DEF VisitInv, Decided
  <2>4. CASE /\ wk'[w].pc = v.pc /\ wk'[w].t = t /\ wk'[w].spans = v.spans
             /\ wk'[w].todo = v.todo \ {k} /\ row[k].txn # t
    <3>1. rec[t].st = "Committed" => \A j \in v.spans \ wk'[w].todo : row[j].txn # t
      BY <2>1, <2>4
    <3> HIDE DEF v, t
    <3> QED BY <1>1, <1>3, <2>1, <2>4, <3>1 DEF VisitInv, Decided, v
  <2> QED BY <1>2, <2>2, <2>3, <2>4
<1>5. WorkStep(w)
  BY <1>2 DEF WorkStep
<1>6. Sound(NoTxn)
  BY <1>1, <1>2, <1>4, <1>5, NoEntry, WorkSound
<1> QED BY <1>6 DEF SoundStep

\* A recovery decides what it verified.
LEMMA RecDecideSound ==
  ASSUME ProtocolInv, NEW w \in Workers, RecDecide(w)
  PROVE  SoundStep
<1>1. /\ wk[w].pc = "verify" /\ wk[w].todo = {} /\ UNCHANGED <<co, late, answer>>
      /\ ApplyDecision(wk[w].t, IF wk[w].all THEN "Committed" ELSE "Aborted", FALSE)
  BY DEF RecDecide
<1>2. wk[w].t \in TxnIds /\ ~Unused(wk[w].t) /\ VisitInv(w)
  BY <1>1, VisitedId
<1>3. PICK t \in TxnIds, o \in {"Committed", "Aborted"} :
        t = wk[w].t /\ o = IF wk[w].all THEN "Committed" ELSE "Aborted"
  BY <1>2
<1>4. o = "Committed" /\ rec[t].st = "Pending" => StagedAll(t)
  BY <1>1, <1>2, <1>3 DEF VisitInv, StagedAll
<1>5. MayDecide(t, o, FALSE) /\ ApplyDecision(t, o, FALSE)
  BY <1>1, <1>2, <1>3, <1>4 DEF MayDecide
<1>6. Effect(t) /\ DataStep(t)
  BY <1>5, DecisionEffect, DecisionData DEF DataStep, ProtocolInv, IdInv
<1>7. Worked(w) /\ wk'[w].pc = "resolve" /\ wk'[w].t = wk[w].t
  BY RecDecideMove DEF ProtocolInv
<1>8. VisitInv(w)' /\ WorkStep(w)
  BY <1>7 DEF VisitInv, WorkStep
<1>9. Sound(t)
  BY <1>1, <1>2, <1>3, <1>6, <1>7, <1>8, WorkSound
<1> QED BY <1>9 DEF SoundStep

\* A recovery that found no record aborts.
LEMMA RecOrphanSound ==
  ASSUME ProtocolInv, NEW w \in Workers, RecOrphan(w)
  PROVE  SoundStep
<1>1. /\ wk[w].pc = "orphan" /\ UNCHANGED <<co, late, answer>>
      /\ ApplyDecision(wk[w].t, "Aborted", TRUE)
  BY DEF RecOrphan
<1>2. wk[w].t \in TxnIds /\ ~Unused(wk[w].t) /\ VisitInv(w)
  BY <1>1, VisitedId
<1>3. PICK t \in TxnIds : t = wk[w].t
  BY <1>2
<1>4. t \notin done
  BY <1>1, <1>2, <1>3 DEF VisitInv
<1>5. MayDecide(t, "Aborted", TRUE) /\ ApplyDecision(t, "Aborted", TRUE)
  BY <1>1, <1>2, <1>3, <1>4 DEF MayDecide
<1>6. Effect(t) /\ DataStep(t)
  BY <1>5, DecisionEffect, DecisionData DEF DataStep, ProtocolInv, IdInv
<1>7. Worked(w) /\ wk'[w].pc = "resolve" /\ wk'[w].t = wk[w].t
  BY RecOrphanMove DEF ProtocolInv
<1>8. VisitInv(w)' /\ WorkStep(w)
  BY <1>7 DEF VisitInv, WorkStep
<1>9. Sound(t)
  BY <1>1, <1>2, <1>3, <1>6, <1>7, <1>8, WorkSound
<1> QED BY <1>9 DEF SoundStep

\* A recovery resolves the keys of one tablet.
LEMMA RecResolveSound ==
  ASSUME SharedAtAnchor, ProtocolInv, NEW w \in Workers, NEW b \in Tablets, RecResolve(w, b)
  PROVE  SoundStep
<1>1. /\ wk[w].pc = "resolve" /\ Decided(rec[wk[w].t]) /\ UNCHANGED <<co, late, answer>>
      /\ ApplyResolve(wk[w].t, b, At(wk[w].todo, b), rec[wk[w].t].st)
  BY DEF RecResolve
<1>2. wk[w].t \in TxnIds /\ ~Unused(wk[w].t) /\ At(wk[w].todo, b) \in SUBSET Keys
  BY <1>1, VisitedId DEF At
<1>3. PICK t \in TxnIds, ks \in SUBSET Keys : t = wk[w].t /\ ks = At(wk[w].todo, b)
  BY <1>2
<1>4. Decided(rec[t]) /\ ApplyResolve(t, b, ks, rec[t].st)
  BY <1>1, <1>3
<1>5. Effect(t) /\ DataStep(t)
  BY <1>4, ResolveEffect, ResolveData DEF DataStep, ProtocolInv, IdInv
<1>6. Worked(w) /\ wk'[w].pc = "resolve" /\ wk'[w].t = wk[w].t
  BY RecResolveMove DEF ProtocolInv
<1>7. VisitInv(w)' /\ WorkStep(w)
  BY <1>6 DEF VisitInv, WorkStep
<1>8. Sound(t)
  BY <1>1, <1>2, <1>3, <1>5, <1>6, <1>7, WorkSound
<1> QED BY <1>8 DEF SoundStep

\* The sweep resolves the keys of one tablet.
LEMMA SweepResolveSound ==
  ASSUME SharedAtAnchor, ProtocolInv, NEW w \in Workers, NEW b \in Tablets, SweepResolve(w, b)
  PROVE  SoundStep
<1>1. /\ wk[w].pc = "fix" /\ UNCHANGED <<co, late, answer>>
      /\ ApplyResolve(wk[w].t, b, At(wk[w].todo, b), rec[wk[w].t].st)
  BY DEF SweepResolve
<1>2. /\ wk[w].t \in TxnIds /\ ~Unused(wk[w].t) /\ ~Forgotten(wk[w].t) /\ VisitInv(w)
      /\ At(wk[w].todo, b) \in SUBSET Keys
  BY <1>1, VisitedId DEF At
<1>3. PICK t \in TxnIds, ks \in SUBSET Keys : t = wk[w].t /\ ks = At(wk[w].todo, b)
  BY <1>2
<1>4. Decided(rec[t]) /\ (rec[t].st = "Committed" => wk[w].spans = Writes[t[1]])
  BY <1>1, <1>2, <1>3 DEF VisitInv
<1>5. ApplyResolve(t, b, ks, rec[t].st)
  BY <1>1, <1>3
<1>6. Effect(t) /\ DataStep(t)
  BY <1>4, <1>5, ResolveEffect, ResolveData DEF DataStep, ProtocolInv, IdInv
<1>7. /\ Worked(w) /\ wk'[w].t = wk[w].t /\ wk'[w].spans = wk[w].spans
      /\ \/ wk'[w].pc = "recheck" /\ wk'[w].todo = wk[w].spans
         \/ wk'[w].pc = "fix"
  BY SweepResolveMove DEF ProtocolInv
<1>8. rec'[t].st = rec[t].st
  BY <1>2, <1>3, <1>4, <1>6 DEF Effect, IdStep, RecordStep
<1>9. VisitInv(w)' /\ WorkStep(w)
  BY <1>3, <1>4, <1>7, <1>8 DEF VisitInv, WorkStep, Decided
<1>10. Sound(t)
  BY <1>1, <1>2, <1>3, <1>6, <1>7, <1>9, WorkSound
<1> QED BY <1>10 DEF SoundStep

\* The sweep settles a record.
LEMMA SettleSound ==
  ASSUME ProtocolInv, NEW w \in Workers, Settle(w)
  PROVE  SoundStep
<1>1. /\ wk[w].pc \in {"clear", "recheck"} /\ UNCHANGED <<co, late, answer, row, done>>
      /\ rec' = [rec EXCEPT ![wk[w].t] = SettledRecord(@)] /\ wk' = [wk EXCEPT ![w] = Idle]
  BY DEF Settle
<1>2. wk[w].t \in TxnIds /\ ~Unused(wk[w].t) /\ VisitInv(w)
  BY <1>1, VisitedId
<1>3. PICK t \in TxnIds : t = wk[w].t
  BY <1>2
<1>4. Effect(t)
  BY <1>2, <1>3, SettleEffect DEF ProtocolInv, IdInv
<1>5. rec \in [TxnIds -> Records] /\ rec[t] \in Records
  BY DEF ProtocolInv, Types, TabletTypes
<1>6. rec'[t] = SettledRecord(rec[t]) /\ \A u \in TxnIds \ {t} : rec'[u] = rec[u]
  BY <1>1, <1>3, <1>5
<1>7. SettledRecord(rec[t]).st = rec[t].st
  BY <1>5 DEF SettledRecord, Records
<1>8. DataStep(t)
  BY <1>1, <1>6, <1>7, RecordData DEF DataStep, ProtocolInv
<1>9. Worked(w) /\ wk'[w].pc = "idle" /\ wk'[w].t = NoTxn
  BY <1>1, IdleMove DEF ProtocolInv
<1>10. VisitInv(w)' /\ WorkStep(w)
  BY <1>9 DEF VisitInv, WorkStep
<1>11. Sound(t)
  BY <1>1, <1>2, <1>3, <1>4, <1>8, <1>9, <1>10, WorkSound
<1> QED BY <1>11 DEF SoundStep

\* Every step of a recovery or of the sweep.
LEMMA WorkerSound ==
  ASSUME SharedAtAnchor, ProtocolInv, NEW w \in Workers, GoesOn(w)
  PROVE  SoundStep
<1>1. CASE RecEnd(w)
  BY <1>1, IdleSound DEF RecEnd
<1> QED BY <1>1, RecVerifySound, SweepVerifySound, RecDecideSound, RecOrphanSound,
           RecResolveSound, SweepResolveSound, SettleSound DEF GoesOn

\* Every fault.
LEMMA FaultySound ==
  ASSUME ProtocolInv, Faulty
  PROVE  SoundStep
<1>1. ASSUME NEW w \in Workers, Decline(w) PROVE SoundStep
  BY <1>1, IdleSound DEF Decline
<1> QED BY <1>1, StageAnchorLostSound, AnchorEndsSound, StagePartLostSound, DecideLostSound,
           CallStopsSound DEF Faulty

\* Every step of the protocol.
LEMMA NextSound ==
  ASSUME SharedAtAnchor, ProtocolInv, Next
  PROVE  SoundStep
BY CoordinatorSound, FaultySound, LateSound, WriteSound, WorkerSound, RecViewSound,
   SweepViewSound, ReapSound DEF Next

-----------------------------------------------------------------------------
(* The invariant.                                                          *)

\* Nothing is staged, decided or running at the start.
LEMMA InitProtocol == Init => TxnInv
<1> SUFFICES ASSUME Init PROVE TxnInv
  OBVIOUS
<1>1. Types
  BY InitTypes
<1>2. /\ \A k \in Keys : row[k].txn = NoTxn /\ mark[k] = NoTxn
      /\ \A t \in TxnIds : rec[t] = NoRecord
      /\ \A w \in Workers : wk[w].pc = "idle" /\ wk[w].t = NoTxn
      /\ late = {} /\ done = {} /\ gone = {}
      /\ \A c \in Clients : answer[c] = "none" /\ co[c] \in {NewCall, Ended}
  BY DEF Init, Committed, Idle
<1>3. /\ NewCall.pc = "begin" /\ Ended.pc = "end" /\ NewCall.part = [b \in Tablets |-> "todo"]
      /\ NoRecord.st = "None" /\ ~NoRecord.stub
  BY DEF NewCall, Ended, NoRecord
<1>4. \A t \in TxnIds : t # NoTxn /\ PartKeys(t[1]) \subseteq Keys
  BY Ids
<1>5. ASSUME NEW t \in TxnIds PROVE Unused(t) /\ ~Parted(t)
  BY <1>2, <1>4 DEF Unused, Parted
<1>6. IdInv
  BY <1>2, <1>5 DEF IdInv, FreshUnused, LateUnused, OneParted, PartedByCall, InPlace, GoneStays
<1>7. RecordInv
  BY <1>2, <1>3 DEF RecordInv, PendingRecords, CommittedRecords, StubRecords, DoneRecords,
                    AbsentBelow
<1>8. CallsInv
  BY <1>2, <1>3 DEF CallsInv, CallInv, Named
<1>9. VisitsInv /\ LateCommits
  BY <1>2 DEF VisitsInv, VisitInv, LateCommits
<1>10. AnswersInv
  BY <1>2 DEF AnswersInv, AnswerInv
<1> QED BY <1>1, <1>6, <1>7, <1>8, <1>9, <1>10 DEF TxnInv, ProtocolInv

\* A step that changes nothing is sound.
LEMMA StutterSound ==
  ASSUME ProtocolInv, UNCHANGED vars
  PROVE  SoundStep
<1>1. UNCHANGED <<tablets, co, wk, late, answer>>
  BY DEF vars
<1>2. Effect(NoTxn) /\ DataStep(NoTxn) /\ NoTxn \notin TxnIds
  BY <1>1, NoEntry
<1>3. \A c \in Clients : SameCall(c) /\ CallStep(c, NoTxn)
  <2> SUFFICES ASSUME NEW c \in Clients PROVE SameCall(c) /\ CallStep(c, NoTxn)
    OBVIOUS
  <2>1. co'[c] = co[c] /\ co[c].n \in Nat
    BY <1>1, NamedId DEF ProtocolInv
  <2> QED BY <2>1 DEF SameCall, CallStep, Named
<1>4. Step(NoTxn)
  BY <1>1, <1>2, <1>3 DEF Step, WorkStep, MailStep
<1> QED BY <1>1, <1>2, <1>3, <1>4 DEF SoundStep, Sound, AnswerStep

\* Every step is sound and keeps the invariant.
LEMMA ProtocolStep ==
  ASSUME SharedAtAnchor, ProtocolInv, [Next]_vars
  PROVE  SoundStep /\ ProtocolInv'
<1>1. SoundStep
  BY NextSound, StutterSound
<1>2. Types'
  BY TypesKept DEF ProtocolInv
<1>3. PICK t \in TxnIds \cup {NoTxn} : Sound(t)
  BY <1>1 DEF SoundStep
<1>4. ProtocolInv'
  BY <1>2, <1>3, ProtocolKept DEF Sound
<1> QED BY <1>1, <1>4

\* Where clients share keys only on the tablet they both anchor, an intent that
\* was resolved is never staged again: not by the coordinator's retry, not by a
\* stage that arrives late (the resolved marker of TxnResolve).
THEOREM ResolvedStaysResolved == SharedAtAnchor => (Spec => []NoResurrection)
<1> SUFFICES ASSUME SharedAtAnchor PROVE Spec => []NoResurrection
  OBVIOUS
<1>1. Init => ProtocolInv
  BY InitProtocol DEF TxnInv
<1>2. ProtocolInv /\ [Next]_vars => ProtocolInv'
  BY ProtocolStep
<1>3. ProtocolInv => NoResurrection
  <2> SUFFICES ASSUME ProtocolInv, NEW p \in gone PROVE row[p[2]].txn # p[1]
    BY DEF NoResurrection
  <2>1. p[1] \in TxnIds /\ p[2] \in Keys /\ p = <<p[1], p[2]>>
    BY DEF ProtocolInv, Types, TabletTypes
  <2> QED BY <2>1 DEF ProtocolInv, IdInv, GoneStays
<1> QED BY <1>1, <1>2, <1>3, PTL DEF Spec

-----------------------------------------------------------------------------
(* What the clients hear, and the atomic store.                            *)

\* An id at a participant is known.
LEMMA PartedKnown ==
  ASSUME NEW t \in TxnIds, Parted(t)
  PROVE  ~Unused(t)
<1>1. PartKeys(t[1]) \subseteq Keys /\ AnchorStage(t).b = AnchorOf[t[1]]
  BY Ids, AnchorStages
<1> QED BY <1>1 DEF Parted, Unused

\* The ids of a client.
LEMMA ClientIds ==
  ASSUME NEW c \in Clients
  PROVE  \A t : t \in MyIds(c) <=> t \in TxnIds /\ t[1] = c
BY DEF MyIds, TxnIds

\* A transaction that committed left its trace at a participant, if it has any.
LEMMA DoneIsParted ==
  ASSUME ProtocolInv, CrossTablet, NEW t \in TxnIds, t \in done \/ StagedAll(t)
  PROVE  Parted(t)
<1>1. t[1] \in Clients /\ PartKeys(t[1]) \subseteq Writes[t[1]]
  BY Ids DEF PartKeys
<1>2. PICK k \in PartKeys(t[1]) : TRUE
  BY <1>1 DEF CrossTablet, Participants, PartKeys
<1>3. row[k].txn = t \/ mark[k] = t
  BY <1>1, <1>2 DEF ProtocolInv, RecordInv, DoneRecords, StagedAll
<1> QED BY <1>2, <1>3 DEF Parted

\* A client that was told something: it stays true.
LEMMA ToldKept ==
  ASSUME ProtocolInv, NEW t, Step(t), NEW c \in Clients, AnswerInv(c), answer'[c] = answer[c]
  PROVE  AnswerInv(c)'
<1>1. ASSUME NEW u \in TxnIds PROVE RecordStep(u)
  BY DEF Step, Effect, IdStep
<1>2. MyIds(c)' = MyIds(c) /\ MyIds(c) \subseteq TxnIds
  BY ClientIds DEF MyIds
<1>3. answer'[c] = "ok" => MyIds(c) \cap done' # {}
  BY <1>1, <1>2 DEF AnswerInv, RecordStep
<1>4. ASSUME answer'[c] = "failed" PROVE co'[c].pc \in {"resolve", "end"}
  BY <1>4 DEF AnswerInv, Step, CallStep
<1>5. ASSUME answer'[c] = "failed", NEW u \in MyIds(c), Parted(u)'
      PROVE  rec'[u].st \in {"Aborted", "None"} /\ u \notin done'
  <2>1. u \in TxnIds /\ u[1] = c
    BY <1>5, ClientIds
  <2>2. co[c].pc \in {"resolve", "end"}
    BY <1>5 DEF AnswerInv
  <2>3. Parted(u)
    BY <1>5, <2>1, <2>2, PartedStep DEF ByCall, ProtocolInv
  <2>4. rec[u].st \in {"Aborted", "None"} /\ u \notin done /\ ~Unused(u)
    BY <1>5, <2>1, <2>3, PartedKnown DEF AnswerInv
  <2> QED BY <1>1, <2>1, <2>4 DEF RecordStep
<1> QED BY <1>2, <1>3, <1>4, <1>5 DEF AnswerInv

\* A client that is told something now: it is true.
LEMMA ToldNow ==
  ASSUME NoPreconditions, ProtocolInv, NEW c \in Clients, UNCHANGED <<tablets, late>>,
         co'[c].pc \in {"resolve", "end"},
         \/ answer'[c] = "unknown"
         \/ /\ answer'[c] = "failed"
            /\ \/ ~PreHolds(c) \/ co[c].pc = "anchor"
               \/ co[c].pc = "answer" /\ rec[Id(c)].st = "Aborted"
         \/ answer'[c] = "ok" /\ co[c].pc = "answer" /\ rec[Id(c)].st = "Committed"
  PROVE  /\ AnswerInv(c)'
         /\ answer'[c] = "ok" => MyIds(c) \cap done # {}
<1>1. row' = row /\ mark' = mark /\ rec' = rec /\ done' = done /\ late' = late
  BY DEF tablets
<1>2. MyIds(c)' = MyIds(c)
  BY DEF MyIds
<1>3. PreHolds(c)
  BY DEF PreHolds, NoPreconditions
<1>4. co[c].pc = "answer" => Id(c) \in TxnIds /\ Id(c)[1] = c
  BY NamedCall DEF Named
<1>5. answer'[c] = "ok" => MyIds(c) \cap done # {}
  <2> SUFFICES ASSUME answer'[c] = "ok" PROVE MyIds(c) \cap done # {}
    OBVIOUS
  <2>1. Id(c) \in MyIds(c)
    BY <1>4, ClientIds
  <2>2. Id(c) \in done
    BY <1>4 DEF ProtocolInv, RecordInv, CommittedRecords
  <2> QED BY <2>1, <2>2
<1>6. ASSUME answer'[c] = "failed", NEW u \in MyIds(c), Parted(u)
      PROVE  rec[u].st = "Aborted" /\ u \notin done
  <2>1. u \in TxnIds /\ u[1] = c
    BY <1>6, ClientIds
  <2>2. co[c].pc # "anchor" /\ (co[c].pc \in Named => u = Id(c))
    BY <1>6, <2>1 DEF ProtocolInv, IdInv, PartedByCall
  <2>3. rec[u].st = "Aborted"
    BY <1>3, <1>6, <2>2 DEF Named
  <2> QED BY <2>1, <2>3 DEF ProtocolInv, RecordInv, DoneRecords
<1>7. \A u : Parted(u)' => Parted(u)
  BY <1>1 DEF Parted, PartKeys
<1> QED BY <1>1, <1>2, <1>5, <1>6, <1>7 DEF AnswerInv

\* What the clients were told stays true.
LEMMA AnswersKept ==
  ASSUME NoPreconditions, TxnInv, SoundStep
  PROVE  AnswersInv'
<1> USE DEF TxnInv
<1>1. PICK t \in TxnIds \cup {NoTxn} : Sound(t)
  BY DEF SoundStep
<1> SUFFICES ASSUME NEW c \in Clients PROVE AnswerInv(c)'
  BY DEF AnswersInv
<1>2. Step(t) /\ AnswerStep /\ AnswerInv(c)
  BY <1>1 DEF Sound, AnswersInv
<1>3. CASE answer'[c] = answer[c]
  BY <1>2, <1>3, ToldKept
<1>4. CASE answer'[c] # answer[c]
  <2>1. answer \in [Clients -> {"none", "ok", "failed", "unknown"}]
    BY DEF ProtocolInv, Types, OtherTypes
  <2>2. /\ UNCHANGED <<tablets, late>> /\ co'[c].pc \in {"resolve", "end"}
        /\ \/ answer'[c] = "unknown"
           \/ /\ answer'[c] = "failed"
              /\ \/ ~PreHolds(c) \/ co[c].pc = "anchor"
                 \/ co[c].pc = "answer" /\ rec[Id(c)].st = "Aborted"
           \/ answer'[c] = "ok" /\ co[c].pc = "answer" /\ rec[Id(c)].st = "Committed"
    BY <1>2, <1>4, <2>1 DEF AnswerStep
  <2> QED BY <2>2, ToldNow
<1> QED BY <1>3, <1>4

\* The whole invariant is inductive.
LEMMA TxnInvStep ==
  ASSUME SharedAtAnchor, NoPreconditions, TxnInv, [Next]_vars
  PROVE  SoundStep /\ TxnInv'
<1>1. SoundStep /\ ProtocolInv'
  BY ProtocolStep DEF TxnInv
<1> QED BY <1>1, AnswersKept DEF TxnInv

\* Where, besides, nobody asks for the absence of keys it does not write and every
\* client writes on two tablets, a definite failure is final: no recovery, sweep or
\* late proposal commits a transaction whose client was told that it failed.
THEOREM FailureIsFinal ==
  SharedAtAnchor /\ NoPreconditions /\ CrossTablet =>
    (Spec => []DefiniteFailureNeverCommits)
<1> SUFFICES ASSUME SharedAtAnchor, NoPreconditions, CrossTablet
             PROVE  Spec => []DefiniteFailureNeverCommits
  OBVIOUS
<1>1. Init => TxnInv
  BY InitProtocol
<1>2. TxnInv /\ [Next]_vars => TxnInv'
  BY TxnInvStep
<1>3. TxnInv => DefiniteFailureNeverCommits
  <2> SUFFICES ASSUME TxnInv, NEW c \in Clients, answer[c] = "failed",
                      NEW t \in MyIds(c), t \in done
               PROVE  FALSE
    BY DEF DefiniteFailureNeverCommits
  <2>1. t \in TxnIds
    BY ClientIds
  <2>2. Parted(t)
    BY <2>1, DoneIsParted DEF TxnInv
  <2> QED BY <2>2 DEF TxnInv, AnswersInv, AnswerInv
<1> QED BY <1>1, <1>2, <1>3, PTL DEF Spec

-----------------------------------------------------------------------------
(* The atomic store.                                                       *)

\* The store that a reader sees, and what the abstract store calls it.
Db == [k \in Keys |-> ReadValue(row, rec, k)]

\* The visible store, key by key.
LEMMA DbValues ==
  /\ DOMAIN Db = Keys /\ \A k \in Keys : Db[k] = Value(k)
  /\ DOMAIN Db' = Keys /\ \A k \in Keys : Db'[k] = Value(k)'
  /\ Db = [k \in Keys |-> Value(k)] /\ Db' = [k \in Keys |-> Value(k)']
BY DEF Db, Value

\* An answer, where nothing that a reader sees changes.
LEMMA AnswerMaps ==
  ASSUME NoPreconditions, CrossTablet, TxnInv, SameData, AnswerStep
  PROVE  [AS!Next]_AS!vars
<1> USE DEF TxnInv
<1>1. Db' = Db /\ done' = done
  BY DbValues DEF SameData
<1>2. CASE answer' = answer
  BY <1>1, <1>2 DEF AS!vars, Db
<1>3. CASE answer' # answer
  <2>1. PICK c \in Clients :
          /\ UNCHANGED <<tablets, late>>
          /\ answer[c] = "none" /\ co'[c].pc \in {"resolve", "end"}
          /\ \/ answer' = [answer EXCEPT ![c] = "unknown"]
             \/ /\ answer' = [answer EXCEPT ![c] = "failed"]
                /\ \/ ~PreHolds(c) \/ co[c].pc = "anchor"
                   \/ co[c].pc = "answer" /\ rec[Id(c)].st = "Aborted"
             \/ /\ answer' = [answer EXCEPT ![c] = "ok"]
                /\ co[c].pc = "answer" /\ rec[Id(c)].st = "Committed"
    BY <1>3 DEF AnswerStep
  <2>2. answer \in [Clients -> {"none", "ok", "failed", "unknown"}]
    BY DEF ProtocolInv, Types, OtherTypes
  <2>3. PICK a \in {"ok", "failed", "unknown"} :
          /\ answer' = [answer EXCEPT ![c] = a] /\ answer'[c] = a
          /\ \/ a = "unknown"
             \/ /\ a = "failed"
                /\ \/ ~PreHolds(c) \/ co[c].pc = "anchor"
                   \/ co[c].pc = "answer" /\ rec[Id(c)].st = "Aborted"
             \/ a = "ok" /\ co[c].pc = "answer" /\ rec[Id(c)].st = "Committed"
    BY <2>1, <2>2
  <2>4. AnswerInv(c)' /\ (a = "ok" => MyIds(c) \cap done # {})
    BY <2>1, <2>3, ToldNow
  <2>5. a = "failed" => MyIds(c) \cap done = {}
    <3> SUFFICES ASSUME a = "failed", NEW t \in MyIds(c), t \in done PROVE FALSE
      OBVIOUS
    <3>1. t \in TxnIds /\ t \in MyIds(c)'
      BY ClientIds DEF MyIds
    <3>2. Parted(t)
      BY <3>1, DoneIsParted
    <3>3. Parted(t)'
      BY <2>1, <3>2 DEF Parted, PartKeys, tablets
    <3> QED BY <1>1, <2>3, <2>4, <3>1, <3>3 DEF AnswerInv
  <2>6. AS!Answer(c, a)
    BY <1>1, <2>1, <2>3, <2>4, <2>5 DEF AS!Answer, Db
  <2> QED BY <2>6 DEF AS!Next
<1> QED BY <1>2, <1>3

\* The commit of a record is the commit of the abstract store.
LEMMA CommitMaps ==
  ASSUME CrossTablet, TxnInv, NEW t, CommitData(t), AnswerStep
  PROVE  AS!Next
<1> USE DEF TxnInv
<1> DEFINE c == t[1]
<1>1. t \in TxnIds /\ c \in Clients /\ t \in MyIds(c) /\ rec[t].st = "Pending" /\ StagedAll(t)
      /\ done' = done \cup {t} /\ Absent[c] \subseteq Writes[c] /\ Writes[c] \subseteq Keys
  BY Ids, ClientIds, TxnAssumption DEF CommitData
<1>2. t \notin done /\ Parted(t)
  BY <1>1, DoneIsParted DEF ProtocolInv, RecordInv, PendingRecords
<1>3. MyIds(c) \cap done = {}
  <2> SUFFICES ASSUME NEW u \in MyIds(c), u \in done PROVE FALSE
    OBVIOUS
  <2>1. u \in TxnIds /\ u[1] = c
    BY <1>1, ClientIds
  <2>2. Parted(u)
    BY <2>1, DoneIsParted
  <2> QED BY <1>1, <1>2, <2>1, <2>2 DEF ProtocolInv, IdInv, OneParted
<1>4. answer[c] \in {"none", "unknown"} /\ answer' = answer
  <2>1. answer[c] \in {"none", "ok", "failed", "unknown"} /\ AnswerInv(c)
    BY <1>1 DEF ProtocolInv, Types, OtherTypes, AnswersInv
  <2>2. answer[c] # "ok" /\ answer[c] # "failed"
    BY <1>1, <1>2, <1>3, <2>1 DEF AnswerInv
  <2>3. ~UNCHANGED tablets
    BY <1>1, <1>2 DEF tablets
  <2> QED BY <2>1, <2>2, <2>3 DEF AnswerStep
<1>5. \A k \in Absent[c] : Db[k] = NoVal
  <2> SUFFICES ASSUME NEW k \in Absent[c] PROVE Value(k) = NoVal
    BY <1>1, DbValues
  <2>1. k \in Keys /\ row[k].txn = t /\ t # NoTxn
    BY <1>1, Ids DEF StagedAll
  <2>2. row[k].prior = NoVal
    BY <2>1 DEF ProtocolInv, RecordInv, AbsentBelow
  <2> QED BY <1>1, <2>1, <2>2, Values
<1>6. Db' = [k \in Keys |-> IF k \in Writes[c] THEN t ELSE Db[k]]
  BY <1>1, DbValues DEF CommitData
<1>7. AS!Commit(c, t)
  BY <1>1, <1>3, <1>4, <1>5, <1>6 DEF AS!Commit, Db
<1> QED BY <1>1, <1>7 DEF AS!Next

\* An ordinary write is one of the abstract store.
LEMMA WriteMaps ==
  ASSUME NEW k \in Keys, WriteData(k), answer' = answer
  PROVE  AS!Next
<1>1. Db' = [Db EXCEPT ![k] = Plain] /\ done' = done
  BY DbValues DEF WriteData
<1>2. AS!Write(k)
  BY <1>1 DEF AS!Write, Db
<1> QED BY <1>2 DEF AS!Next

\* Under the same conditions the protocol implements the atomic store: whoever
\* decides, the writes of a transaction appear together, once, over keys that were
\* absent where the client asked for it; everything else that coordinators,
\* recoveries, sweeps and late proposals do changes nothing that a reader sees;
\* and a client hears what was decided.
THEOREM ImplementsAtomicStore ==
  SharedAtAnchor /\ NoPreconditions /\ CrossTablet => (Spec => IsAtomicStore)
<1> SUFFICES ASSUME SharedAtAnchor, NoPreconditions, CrossTablet
             PROVE  Spec => IsAtomicStore
  OBVIOUS
<1>1. Init => TxnInv
  BY InitProtocol
<1>2. TxnInv /\ [Next]_vars => TxnInv'
  BY TxnInvStep
<1>3. Init => AS!Init
  <2> SUFFICES ASSUME Init PROVE AS!Init
    OBVIOUS
  <2>1. row = [k \in Keys |-> Committed(NoVal)] /\ done = {}
        /\ answer = [c \in Clients |-> "none"]
    BY DEF Init
  <2>2. \A k \in Keys : ReadValue(row, rec, k) = NoVal
    BY <2>1 DEF ReadValue, Committed
  <2> QED BY <2>1, <2>2 DEF AS!Init
<1>4. TxnInv /\ [Next]_vars => [AS!Next]_AS!vars
  <2> SUFFICES ASSUME TxnInv, [Next]_vars PROVE [AS!Next]_AS!vars
    OBVIOUS
  <2>1. PICK t \in TxnIds \cup {NoTxn} : Sound(t)
    BY TxnInvStep DEF SoundStep
  <2>2. DataStep(t) /\ AnswerStep
    BY <2>1 DEF Sound
  <2>3. CASE SameData
    BY <2>2, <2>3, AnswerMaps
  <2>4. CASE CommitData(t)
    BY <2>2, <2>4, CommitMaps
  <2>5. ASSUME NEW k \in Keys, WriteData(k), ~SameData PROVE AS!Next
    <3>1. answer' = answer
      BY <2>2, <2>5, NoData DEF AnswerStep
    <3> QED BY <2>5, <3>1, WriteMaps
  <2> QED BY <2>2, <2>3, <2>4, <2>5 DEF DataStep
<1> QED BY <1>1, <1>2, <1>3, <1>4, PTL DEF Spec, IsAtomicStore, AS!Spec
=============================================================================
