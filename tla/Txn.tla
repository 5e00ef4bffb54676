---------------------------------- MODULE Txn ----------------------------------
(***************************************************************************)
(* Cross-tablet transactions (ADR 0018): the coordinator of                *)
(* animusd/src/txn_coordinator.rs, the recovery that any node may run in   *)
(* its place, the sweep that resolves and settles decided records          *)
(* (txn_resolver_decided_pass), and the entries they apply on the tablet   *)
(* groups (TxnApply).                                                      *)
(*                                                                         *)
(* A tablet group is its replicated state machine: one action of the model *)
(* applies one entry.  A call that proposes an entry and reads its outcome *)
(* is one step, because the caller does nothing in between; a call whose   *)
(* answer is lost (leader moved, timeout) leaves its proposal in late,     *)
(* where it may be applied at any later time or never.  A fork seals the   *)
(* parent and clones its rows, so here it is a proposal that is refused.   *)
(* The recovery grace only delays a recovery and is left out.              *)
(***************************************************************************)
EXTENDS Naturals, FiniteSets

CONSTANTS
    Clients,        \* one cp_txn call each
    Keys, Tablets,
    TabletOf,       \* [Keys -> Tablets]
    AnchorOf,       \* [Clients -> Tablets]: the tablet of the first write
    Writes,         \* [Clients -> SUBSET Keys]
    Absent,         \* [Clients -> SUBSET Keys]: own keys that must be absent
    Pre,            \* [Clients -> SUBSET Keys]: other keys that must be absent
    Workers,        \* calls of txn_recover and sweep passes that run at once
    MaxAttempts,    \* TXN_STAGE_PUSH_ATTEMPTS
    Start,          \* what a behaviour starts with: the clients that call cp_txn,
                    \* whether Gate::TxnSettled is open, and its bounds (lost
                    \* answers, refusals, crashes and give-ups; ordinary writes)
    NoTxn, NoVal, Plain

ASSUME TxnAssumption ==
    /\ MaxAttempts \in Nat \ {0}
    /\ \A s \in Start : /\ s.calls \subseteq Clients /\ s.gate \in BOOLEAN
                        /\ s.faults \in Nat /\ s.writes \in Nat
    /\ TabletOf \in [Keys -> Tablets] /\ AnchorOf \in [Clients -> Tablets]
    /\ Writes \in [Clients -> SUBSET Keys] /\ Pre \in [Clients -> SUBSET Keys]
    /\ Absent \in [Clients -> SUBSET Keys]
    /\ \A c \in Clients : /\ Absent[c] \subseteq Writes[c]
                          /\ Pre[c] \cap Writes[c] = {}
                          /\ \E k \in Writes[c] : TabletOf[k] = AnchorOf[c]
    /\ NoTxn \notin Clients \X (1 .. MaxAttempts)
    /\ {NoVal, Plain} \cap (Clients \X (1 .. MaxAttempts)) = {}
    /\ NoVal # Plain

\* Every attempt to stage the anchor mints a fresh id.
TxnIds == Clients \X (1 .. MaxAttempts)

INSTANCE TxnApply

VARIABLES
    row,        \* row[k]: the newest record of key k on its tablet
    mark,       \* mark[k]: the transaction whose intent at k was resolved last
    rec,        \* rec[t]: t's record on its anchor tablet
    co,         \* co[c]: the coordinator of client c
    wk,         \* wk[w]: a running txn_recover, or a sweep's visit of a record
    late,       \* proposals whose caller no longer waits for them
    answer,     \* what each client was told
    done,       \* history: the ids whose commit was applied
    gone,       \* history: <<t, k>> such that t's intent at k was resolved
    faults, writes, \* what is left of the bounds
    gate        \* Gate::TxnSettled is open

tablets == <<row, mark, rec, done, gone>>
bounds == <<faults, writes, gate>>
vars == <<tablets, co, wk, late, answer, bounds>>

KeysAt(c, b) == {k \in Writes[c] : TabletOf[k] = b}
Participants(c) == {TabletOf[k] : k \in Writes[c]} \ {AnchorOf[c]}
Id(c) == <<c, co[c].n>>

Phases == {"begin", "anchor", "parts", "decide", "answer", "resolve", "end"}
NoKey == [k |-> NoVal, t |-> NoTxn]

TypeOK ==
    /\ row \in [Keys -> Rows]
    /\ mark \in [Keys -> TxnIds \cup {NoTxn}]
    /\ rec \in [TxnIds -> Records]
    /\ co \in [Clients ->
         [pc : Phases, n : 0 .. MaxAttempts, blocked : SUBSET Tablets,
          tries : [Tablets -> 0 .. MaxAttempts],
          part : [Tablets -> {"todo", "ok", "failed", "unknown"}],
          want : {"Committed", "Aborted"}, fail : {"none", "failed", "unknown"},
          todo : SUBSET Tablets,
          push : [Tablets -> [k : Keys \cup {NoVal}, t : TxnIds \cup {NoTxn}]]]]
    /\ wk \in [Workers ->
         [pc : {"idle", "verify", "orphan", "resolve", "clear", "fix", "recheck"},
          t : TxnIds \cup {NoTxn}, todo : SUBSET Keys, all : BOOLEAN,
          spans : SUBSET Keys]]
    /\ late \subseteq [op : {"stage"}, t : TxnIds, b : Tablets]
                      \cup [op : {"Committed", "Aborted"}, t : TxnIds]
    /\ answer \in [Clients -> {"none", "ok", "failed", "unknown"}]
    /\ done \subseteq TxnIds
    /\ gone \subseteq TxnIds \X Keys
    /\ faults \in Nat /\ writes \in Nat /\ gate \in BOOLEAN

NewCall == [pc |-> "begin", n |-> 0, blocked |-> {},
            tries |-> [b \in Tablets |-> 0],
            part |-> [b \in Tablets |-> "todo"],
            want |-> "Committed", fail |-> "none", todo |-> {},
            push |-> [b \in Tablets |-> NoKey]]
Idle == [pc |-> "idle", t |-> NoTxn, todo |-> {}, all |-> TRUE, spans |-> {}]

Ended == [NewCall EXCEPT !.pc = "end"]

Init == \E s \in Start :
    /\ row = [k \in Keys |-> Committed(NoVal)]
    /\ mark = [k \in Keys |-> NoTxn]
    /\ rec = [t \in TxnIds |-> NoRecord]
    /\ co = [c \in Clients |-> IF c \in s.calls THEN NewCall ELSE Ended]
    /\ wk = [r \in Workers |-> Idle]
    /\ late = {}
    /\ answer = [c \in Clients |-> "none"]
    /\ done = {}
    /\ gone = {}
    /\ faults = s.faults /\ writes = s.writes /\ gate = s.gate

-----------------------------------------------------------------------------
(* The entries, applied to the tablets *)

Fault == faults > 0 /\ faults' = faults - 1

Outcome(t, b) ==
    StageOutcome(row, mark, rec[t], t, KeysAt(t[1], b), Absent[t[1]],
                 b = AnchorOf[t[1]])

Overlay(new) == [k \in Keys |-> IF k \in DOMAIN new THEN new[k] ELSE row[k]]

\* TxnStage of t on tablet b; a stage that is not "Staged" changes nothing.
ApplyStage(t, b) ==
    IF Outcome(t, b) = "Staged"
    THEN /\ row' = Overlay(Intents(row, t, KeysAt(t[1], b)))
         /\ rec' = IF b = AnchorOf[t[1]]
                   THEN [rec EXCEPT ![t] = StagedRecord(Writes[t[1]])]
                   ELSE rec
         /\ UNCHANGED <<mark, done, gone>>
    ELSE UNCHANGED tablets

\* TxnCommit (outcome "Committed") or TxnAbort on t's record.
ApplyDecision(t, outcome, orphan) ==
    /\ rec' = [rec EXCEPT ![t] = IF outcome = "Committed"
                                 THEN CommitRecord(rec[t])
                                 ELSE AbortRecord(rec[t], orphan)]
    /\ done' = IF rec[t].st = "Pending" /\ outcome = "Committed"
               THEN done \cup {t} ELSE done
    /\ UNCHANGED <<row, mark, gone>>

\* TxnResolve of t's intents at the keys ks of tablet b.
ApplyResolve(t, b, ks, outcome) ==
    IF b = AnchorOf[t[1]] => ResolveMatches(rec[t], outcome)
    THEN LET hit == IntentKeys(row, t, ks)
         IN /\ row' = Overlay(ResolvedRows(row, t, ks, outcome))
            /\ mark' = [k \in Keys |-> IF k \in hit THEN t ELSE mark[k]]
            /\ gone' = gone \cup {<<t, k>> : k \in hit}
            /\ UNCHANGED <<rec, done>>
    ELSE UNCHANGED tablets

At(ks, b) == {k \in ks : TabletOf[k] = b}
TabletsOf(ks) == {TabletOf[k] : k \in ks}

-----------------------------------------------------------------------------
(* Reads *)

\* A strong read of k is served once the intent that covers it, if any, is
\* decided.
Served(k) == row[k].txn \in {NoTxn} \cup {t \in TxnIds : Decided(rec[t])}

PreHolds(c) == \A k \in Pre[c] : ReadValue(row, rec, k) = NoVal

-----------------------------------------------------------------------------
(* The coordinator: cp_txn *)

End(c, a) ==
    /\ co' = [co EXCEPT ![c] = Ended]
    /\ answer' = [answer EXCEPT ![c] = a]

\* The preconditions are checked before anything is staged.
Begin(c) ==
    /\ co[c].pc = "begin"
    /\ \A k \in Pre[c] : Served(k)
    /\ IF PreHolds(c)
       THEN co' = [co EXCEPT ![c].pc = "anchor"] /\ UNCHANGED answer
       ELSE End(c, "failed")
    /\ UNCHANGED <<tablets, wk, late, bounds>>

\* The blocker found by a refused stage of b, to be pushed before the retry.
Blocker(t, b, k) == row[k].txn \notin {NoTxn, t} /\ k \in KeysAt(t[1], b)

\* txn_prepare_pushing on the anchor: the attempt mints the id <<c, n + 1>>.
StageAnchor(c) ==
    LET b == AnchorOf[c]  t == <<c, co[c].n + 1>>  o == Outcome(t, b)
    IN /\ co[c].pc = "anchor" /\ co[c].push[b] = NoKey
       /\ co[c].n < MaxAttempts
       /\ ApplyStage(t, b)
       /\ CASE o = "Staged" ->
                 /\ co' = [co EXCEPT ![c].pc = "parts", ![c].n = @ + 1,
                                     ![c].blocked = {}]
                 /\ UNCHANGED answer
            [] o = "IntentBlocked" ->
                 /\ \E k \in Keys :
                      /\ Blocker(t, b, k)
                      /\ co' = [co EXCEPT ![c].n = @ + 1, ![c].blocked = @ \cup {b},
                                          ![c].push[b] = [k |-> k, t |-> row[k].txn]]
                 /\ UNCHANGED answer
            [] o = "ConditionFailed" -> End(c, "failed")
            [] o = "Fenced"          -> End(c, "unknown")
       /\ UNCHANGED <<wk, late, bounds>>

\* push_resolution_if_decided, before the next attempt.
Push(c, b) ==
    LET p == co[c].push[b]
    IN /\ p # NoKey
       /\ IF Decided(rec[p.t])
          THEN ApplyResolve(p.t, b, {p.k}, rec[p.t].st)
          ELSE UNCHANGED tablets
       /\ co' = [co EXCEPT ![c].push[b] = NoKey]
       /\ UNCHANGED <<wk, late, answer, bounds>>

\* The attempt's answer is lost: its entry may still be applied.
StageAnchorLost(c) ==
    /\ co[c].pc = "anchor" /\ co[c].push[AnchorOf[c]] = NoKey
    /\ co[c].n < MaxAttempts
    /\ Fault
    /\ late' = late \cup {[op |-> "stage", t |-> <<c, co[c].n + 1>>, b |-> AnchorOf[c]]}
    /\ co' = [co EXCEPT ![c].n = @ + 1]
    /\ UNCHANGED <<tablets, wk, answer, writes, gate>>

\* Every attempt was used: a conflict if one was blocked, else retryable.
StageAnchorExhausted(c) ==
    /\ co[c].pc = "anchor" /\ co[c].push[AnchorOf[c]] = NoKey
    /\ co[c].n = MaxAttempts
    /\ End(c, IF AnchorOf[c] \in co[c].blocked THEN "failed" ELSE "unknown")
    /\ UNCHANGED <<tablets, wk, late, bounds>>

\* A group that was sealed meanwhile refuses the stage (Fenced, or frozen).
StageAnchorFenced(c) ==
    /\ co[c].pc = "anchor" /\ co[c].push[AnchorOf[c]] = NoKey
    /\ co[c].n < MaxAttempts
    /\ Fault
    /\ End(c, "unknown")
    /\ UNCHANGED <<tablets, wk, late, writes, gate>>

Staging(c, b) ==
    /\ co[c].pc = "parts" /\ b \in Participants(c)
    /\ co[c].part[b] = "todo" /\ co[c].push[b] = NoKey

\* txn_prepare_pushing on a participant, under the anchor's id.
StagePart(c, b) ==
    LET t == Id(c)  o == Outcome(t, b)
    IN /\ Staging(c, b)
       /\ co[c].tries[b] < MaxAttempts
       /\ ApplyStage(t, b)
       /\ IF o = "IntentBlocked"
          THEN \E k \in Keys :
                 /\ Blocker(t, b, k)
                 /\ co' = [co EXCEPT ![c].tries[b] = @ + 1, ![c].blocked = @ \cup {b},
                                     ![c].push[b] = [k |-> k, t |-> row[k].txn]]
          ELSE co' = [co EXCEPT ![c].tries[b] = 0, ![c].blocked = @ \ {b},
                                ![c].part[b] = CASE o = "Staged" -> "ok"
                                                 [] o = "ConditionFailed" -> "failed"
                                                 [] o = "Fenced" -> "unknown"]
       /\ UNCHANGED <<wk, late, answer, bounds>>

StagePartLost(c, b) ==
    /\ Staging(c, b)
    /\ co[c].tries[b] < MaxAttempts
    /\ Fault
    /\ late' = late \cup {[op |-> "stage", t |-> Id(c), b |-> b]}
    /\ co' = [co EXCEPT ![c].tries[b] = @ + 1]
    /\ UNCHANGED <<tablets, wk, answer, writes, gate>>

StagePartExhausted(c, b) ==
    /\ Staging(c, b)
    /\ co[c].tries[b] = MaxAttempts
    /\ co' = [co EXCEPT ![c].tries[b] = 0, ![c].blocked = @ \ {b},
                        ![c].part[b] = IF b \in co[c].blocked THEN "failed"
                                                              ELSE "unknown"]
    /\ UNCHANGED <<tablets, wk, late, answer, bounds>>

\* The tablets that staged are the ones to resolve.
Deciding(c, want, fail) ==
    [NewCall EXCEPT !.pc = "decide", !.n = co[c].n, !.want = want, !.fail = fail,
                    !.todo = {AnchorOf[c]} \cup
                             {b \in Participants(c) : co[c].part[b] = "ok"}]

\* Bug: the participants are not waited for.
ChooseEarly(c) ==
    /\ co[c].pc = "parts"
    /\ \/ /\ \E b \in Participants(c) :
               /\ co[c].part[b] # "ok"
               /\ co' = [co EXCEPT ![c] = Deciding(c, "Aborted", co[c].part[b])]
          /\ UNCHANGED answer
       \/ /\ \A b \in Participants(c) : co[c].part[b] = "ok"
          /\ co' = [co EXCEPT ![c] = Deciding(c, "Committed", "none")]
          /\ UNCHANGED answer
    /\ UNCHANGED <<tablets, wk, late, bounds>>

\* All participants answered: abort if one failed; if the preconditions no
\* longer hold, check_preconditions returns the error and cp_txn ends there;
\* else commit.
Choose(c) ==
    /\ co[c].pc = "parts"
    /\ \A b \in Participants(c) : co[c].part[b] # "todo"
    /\ \/ /\ \E b \in Participants(c) :
               /\ co[c].part[b] # "ok"
               /\ co' = [co EXCEPT ![c] = Deciding(c, "Aborted", co[c].part[b])]
          /\ UNCHANGED answer
       \/ /\ \A b \in Participants(c) : co[c].part[b] = "ok"
          /\ \A k \in Pre[c] : Served(k)
          /\ IF PreHolds(c)
             THEN /\ co' = [co EXCEPT ![c] = Deciding(c, "Committed", "none")]
                  /\ UNCHANGED answer
             ELSE End(c, "failed")
    /\ UNCHANGED <<tablets, wk, late, bounds>>

\* txn_decide_anchor: propose the decision, then read what the record says.
Decide(c) ==
    /\ co[c].pc = "decide"
    /\ ApplyDecision(Id(c), co[c].want, FALSE)
    /\ co' = [co EXCEPT ![c].pc = "answer"]
    /\ UNCHANGED <<wk, late, answer, bounds>>

\* The answer is lost; txn_decide_anchor_retrying proposes the same again.
DecideLost(c) ==
    /\ co[c].pc = "decide"
    /\ Fault
    /\ late' = late \cup {[op |-> co[c].want, t |-> Id(c)]}
    /\ UNCHANGED <<tablets, co, wk, answer, writes, gate>>

\* The deadline passes: the caller is told to retry.
DecideGiveUp(c) ==
    /\ co[c].pc = "decide"
    /\ Fault
    /\ End(c, "unknown")
    /\ UNCHANGED <<tablets, wk, late, writes, gate>>

\* The caller hears the record's decision, not the one that was proposed.  (An
\* abort is reported after resolve_all; nothing it does changes the answer.)
AnswerClient(c) ==
    /\ co[c].pc = "answer"
    /\ Decided(rec[Id(c)])
    /\ answer' = [answer EXCEPT ![c] =
                    IF rec[Id(c)].st = "Committed" THEN "ok"
                    ELSE IF co[c].want = "Aborted" THEN co[c].fail
                    ELSE "failed"]
    /\ co' = [co EXCEPT ![c].pc = "resolve", ![c].want = "Committed", ![c].fail = "none"]
    /\ UNCHANGED <<tablets, wk, late, bounds>>

\* resolve_all: every tablet that staged, one entry each.
Resolve(c, b) ==
    /\ co[c].pc = "resolve" /\ b \in co[c].todo
    /\ ApplyResolve(Id(c), b, KeysAt(c, b), rec[Id(c)].st)
    /\ co' = [co EXCEPT ![c] = IF co[c].todo = {b} THEN Ended
                               ELSE [co[c] EXCEPT !.todo = @ \ {b}]]
    /\ UNCHANGED <<wk, late, answer, bounds>>

\* The node stops, or gives up resolving.
Crash(c) ==
    /\ co[c].pc \notin {"begin", "end"}
    /\ Fault
    /\ co' = [co EXCEPT ![c] = Ended]
    /\ UNCHANGED <<tablets, wk, late, answer, writes, gate>>

-----------------------------------------------------------------------------
(* Proposals applied after their caller stopped waiting *)

LateApply(m) ==
    /\ IF m.op = "stage" THEN ApplyStage(m.t, m.b)
                         ELSE ApplyDecision(m.t, m.op, FALSE)
    /\ late' = late \ {m}
    /\ UNCHANGED <<co, wk, answer, bounds>>

\* An ordinary conditional write (KindEval): refused on a key with an intent.
Write(k) ==
    /\ writes > 0 /\ writes' = writes - 1
    /\ row[k].txn = NoTxn
    /\ row' = [row EXCEPT ![k] = Committed(Plain)]
    /\ UNCHANGED <<mark, rec, done, gone, co, wk, late, answer, faults, gate>>

-----------------------------------------------------------------------------
(* Recovery: txn_recover, run by the resolver loop of the anchor's leader  *)
(* or by a reader that met the intent                                      *)

Live(t) == \E k \in Keys : row[k].txn = t

RecView(w, t) ==
    /\ wk[w].pc = "idle"
    /\ rec[t].st = "Pending" \/ Live(t)
    /\ wk' = [wk EXCEPT ![w] =
                CASE rec[t].st = "None" ->
                       [Idle EXCEPT !.pc = "orphan", !.t = t]
                  [] rec[t].st = "Pending" ->
                       [Idle EXCEPT !.pc = "verify", !.t = t,
                                    !.todo = rec[t].spans, !.spans = rec[t].spans]
                  [] OTHER ->
                       [Idle EXCEPT !.pc = "resolve", !.t = t, !.todo = rec[t].spans]]
    /\ UNCHANGED <<tablets, co, late, answer, bounds>>

\* txn_verify of one span: does the key still hold t's intent?
RecVerify(w, k) ==
    /\ wk[w].pc = "verify" /\ k \in wk[w].todo
    /\ wk' = [wk EXCEPT ![w].todo = @ \ {k},
                        ![w].all = @ /\ row[k].txn = wk[w].t]
    /\ UNCHANGED <<tablets, co, late, answer, bounds>>

\* Bug: a transaction that was not staged everywhere is left as it is.
RecDecideStaged(w) ==
    /\ wk[w].pc = "verify" /\ wk[w].todo = {}
    /\ IF wk[w].all THEN ApplyDecision(wk[w].t, "Committed", FALSE)
                    ELSE UNCHANGED tablets
    /\ wk' = [wk EXCEPT ![w] = [Idle EXCEPT !.pc = "resolve", !.t = wk[w].t,
                                                !.todo = wk[w].spans]]
    /\ UNCHANGED <<co, late, answer, bounds>>

\* All spans verified: commit if every one was staged, else abort; then act
\* on what the record says.
RecDecide(w) ==
    /\ wk[w].pc = "verify" /\ wk[w].todo = {}
    /\ ApplyDecision(wk[w].t, IF wk[w].all THEN "Committed" ELSE "Aborted", FALSE)
    /\ wk' = [wk EXCEPT ![w] = [Idle EXCEPT !.pc = "resolve", !.t = wk[w].t,
                                                !.todo = wk[w].spans]]
    /\ UNCHANGED <<co, late, answer, bounds>>

\* No record: only an abort is safe.
RecOrphan(w) ==
    /\ wk[w].pc = "orphan"
    /\ ApplyDecision(wk[w].t, "Aborted", TRUE)
    /\ wk' = [wk EXCEPT ![w].pc = "resolve", ![w].todo = rec[wk[w].t].spans]
    /\ UNCHANGED <<co, late, answer, bounds>>

\* recovery_resolve, one entry per tablet.
RecResolve(w, b) ==
    /\ wk[w].pc = "resolve" /\ Decided(rec[wk[w].t])
    /\ b \in TabletsOf(wk[w].todo)
    /\ ApplyResolve(wk[w].t, b, At(wk[w].todo, b), rec[wk[w].t].st)
    /\ wk' = [wk EXCEPT ![w].todo = @ \ At(@, b)]
    /\ UNCHANGED <<co, late, answer, bounds>>

RecEnd(w) ==
    /\ wk[w].pc = "resolve" /\ (wk[w].todo = {} \/ ~Decided(rec[wk[w].t]))
    /\ wk' = [wk EXCEPT ![w] = Idle]
    /\ UNCHANGED <<tablets, co, late, answer, bounds>>

\* A verify, a decision or a resolve that fails ends the visit.
Decline(w) ==
    /\ wk[w].pc # "idle"
    /\ Fault
    /\ wk' = [wk EXCEPT ![w] = Idle]
    /\ UNCHANGED <<tablets, co, late, answer, writes, gate>>

-----------------------------------------------------------------------------
(* The sweep over decided records: txn_resolver_decided_pass *)

\* Until the gate is open the sweep resolves the records that had no local
\* resolve yet (a restart lists all of them again) and settles none.  Here it may
\* visit any decided record then, also one that unresolved_decided has dropped.
SweepView(w, t) ==
    /\ wk[w].pc = "idle"
    /\ Decided(rec[t]) /\ ~rec[t].stub
    /\ wk' = [wk EXCEPT ![w] =
                IF gate
                THEN [Idle EXCEPT !.pc = "clear", !.t = t, !.todo = rec[t].spans,
                                  !.spans = rec[t].spans]
                ELSE [Idle EXCEPT !.pc = "resolve", !.t = t, !.todo = rec[t].spans]]
    /\ UNCHANGED <<tablets, co, late, answer, bounds>>

\* Bug: a participant that still holds an intent counts as clear.
SweepVerifyBlind(w, k) ==
    /\ wk[w].pc \in {"clear", "recheck"} /\ k \in wk[w].todo
    /\ wk' = [wk EXCEPT ![w].todo = @ \ {k}]
    /\ UNCHANGED <<tablets, co, late, answer, bounds>>

\* txn_participants_clear, one span at a time.  The first pass that meets an
\* intent resolves the spans and looks again; the second gives up.
SweepVerify(w, k) ==
    /\ wk[w].pc \in {"clear", "recheck"} /\ k \in wk[w].todo
    /\ wk' = [wk EXCEPT ![w] =
                IF row[k].txn # wk[w].t THEN [wk[w] EXCEPT !.todo = @ \ {k}]
                ELSE IF wk[w].pc = "clear"
                     THEN [wk[w] EXCEPT !.pc = "fix", !.todo = wk[w].spans]
                ELSE Idle]
    /\ UNCHANGED <<tablets, co, late, answer, bounds>>

SweepResolve(w, b) ==
    /\ wk[w].pc = "fix" /\ b \in TabletsOf(wk[w].todo)
    /\ ApplyResolve(wk[w].t, b, At(wk[w].todo, b), rec[wk[w].t].st)
    /\ wk' = [wk EXCEPT ![w] =
                IF wk[w].todo = At(wk[w].todo, b)
                THEN [wk[w] EXCEPT !.pc = "recheck", !.todo = wk[w].spans]
                ELSE [wk[w] EXCEPT !.todo = @ \ At(@, b)]]
    /\ UNCHANGED <<co, late, answer, bounds>>

\* No participant holds an intent: TxnSettle.
Settle(w) ==
    /\ wk[w].pc \in {"clear", "recheck"} /\ wk[w].todo = {}
    /\ rec' = [rec EXCEPT ![wk[w].t] = SettledRecord(@)]
    /\ wk' = [wk EXCEPT ![w] = Idle]
    /\ UNCHANGED <<row, mark, done, gone, co, late, answer, bounds>>

\* TxnReap: the stub is older than any call that could still ask for it
\* (TXN_SETTLED_REAP_AGE is 20 minutes, a call lasts at most 10 seconds).
Reap(t) ==
    /\ rec[t].stub
    /\ co[t[1]].pc = "end" /\ \A w \in Workers : wk[w].t # t
    /\ rec' = [rec EXCEPT ![t] = NoRecord]
    /\ UNCHANGED <<row, mark, done, gone, co, wk, late, answer, bounds>>

-----------------------------------------------------------------------------
Coordinator(c) ==
    \/ Begin(c) \/ StageAnchor(c) \/ StageAnchorExhausted(c)
    \/ \E b \in Tablets : \/ Push(c, b) \/ StagePart(c, b)
                          \/ StagePartExhausted(c, b) \/ Resolve(c, b)
    \/ Choose(c) \/ Decide(c) \/ AnswerClient(c)

Faulty ==
    \/ \E c \in Clients :
         \/ StageAnchorLost(c) \/ StageAnchorFenced(c)
         \/ \E b \in Tablets : StagePartLost(c, b)
         \/ DecideLost(c) \/ DecideGiveUp(c) \/ Crash(c)
    \/ \E w \in Workers : Decline(w)

\* Every visit of a record is a bounded number of these steps.
GoesOn(w) ==
    \/ \E k \in Keys : RecVerify(w, k) \/ SweepVerify(w, k)
    \/ RecDecide(w) \/ RecOrphan(w)
    \/ \E b \in Tablets : RecResolve(w, b) \/ SweepResolve(w, b)
    \/ RecEnd(w) \/ Settle(w)

Next ==
    \/ \E c \in Clients : Coordinator(c)
    \/ Faulty
    \/ \E m \in late : LateApply(m)
    \/ \E k \in Keys : Write(k)
    \/ \E w \in Workers : GoesOn(w)
    \/ \E t \in TxnIds : \/ \E w \in Workers : RecView(w, t) \/ SweepView(w, t)
                         \/ Reap(t)

Spec == Init /\ [][Next]_vars

\* The resolver loop visits every pending record and the sweep every decided
\* one, tick after tick (SF: each of them is busy with one record at a time);
\* a visit that started goes on.  Nothing else is promised to happen: a
\* coordinator may stop anywhere.
Fairness ==
    /\ \A t \in TxnIds :
         /\ SF_vars(rec[t].st = "Pending" /\ \E w \in Workers : RecView(w, t))
         /\ SF_vars(\E w \in Workers : SweepView(w, t))
    /\ \A w \in Workers : WF_vars(GoesOn(w))

FairSpec == Spec /\ Fairness
-----------------------------------------------------------------------------
(* Properties *)

MyIds(c) == {c} \X (1 .. MaxAttempts)

AS == INSTANCE AtomicStore WITH
        db <- [k \in Keys |-> ReadValue(row, rec, k)],
        Ids <- MyIds,
        WriteSet <- LAMBDA c : Writes[c],
        MustBeAbsent <- LAMBDA c : Absent[c]

\* The protocol implements the atomic store: the writes of a transaction
\* become visible in one step, the commit of its record, on every tablet; at
\* most one attempt of a client commits, whoever decides it; an abort and the
\* resolution of intents change no visible value; and the client is told the
\* outcome that was decided.
IsAtomicStore == AS!Spec

\* An intent that was resolved never comes back: a stage that is repeated
\* after the resolution is refused (the resolved marker of TxnResolve).
NoResurrection == \A p \in gone : row[p[2]].txn # p[1]

\* A transaction in doubt is decided although its coordinator may have
\* stopped (txn_resolver_pending_pass).
InDoubtIsDecided ==
    \A t \in TxnIds : (rec[t].st = "Pending") ~> (rec[t].st # "Pending")

\* The intents of a committed transaction are turned into values even if the
\* coordinator stopped after the decision (txn_resolver_decided_pass).
CommittedIsResolved ==
    \A t \in TxnIds : (rec[t].st = "Committed") ~> ~Live(t)

\* cp_txn's answer: an error that is not ambiguous (is_ambiguous) means that
\* no attempt of the client commits.
DefiniteFailureNeverCommits ==
    \A c \in Clients : answer[c] = "failed" => MyIds(c) \cap done = {}
=============================================================================
