------------------------------- MODULE TxnApply -------------------------------
(***************************************************************************)
(* What one log entry of a cross-tablet transaction decides when a tablet  *)
(* group applies it (the TxnStage, TxnCommit, TxnAbort, TxnResolve and     *)
(* TxnSettle arms of apply_and_compact in animus-cp-data/src/lib.rs).      *)
(*                                                                         *)
(* A row is what a key's newest record holds: a committed value (txn =     *)
(* NoTxn) or an intent, which shadows the committed value it carries as    *)
(* prior.  The value a transaction writes is its own id.  The operators    *)
(* compute what an entry decides and the rows it writes; how the rows are  *)
(* merged into the engine is left to the module that uses them.            *)
(***************************************************************************)
CONSTANTS
    Keys,           \* base keys
    TxnIds,         \* transaction ids, minted by the anchor's leader
    NoTxn,          \* a row without an intent
    NoVal,          \* a key without a value (never written, or deleted)
    Plain           \* the value an ordinary write stores

Vals == TxnIds \cup {NoVal, Plain}

Rows == [txn : TxnIds \cup {NoTxn}, val : Vals, prior : Vals]

Committed(v) == [txn |-> NoTxn, val |-> v, prior |-> NoVal]

\* A record's status.  A settled record is a stub: it keeps the decision and
\* drops the spans.  "None" is a record that does not exist (or was reaped).
Records == [st : {"None", "Pending", "Committed", "Aborted"},
            stub : BOOLEAN, spans : SUBSET Keys]

NoRecord == [st |-> "None", stub |-> FALSE, spans |-> {}]

Decided(r) == r.st \in {"Committed", "Aborted"}

-----------------------------------------------------------------------------
(* TxnStage *)

\* Bug: the resolved marker is not looked at.
StageUnmarked(row, mark, r, t, ks, absent, isAnchor) ==
    IF isAnchor /\ Decided(r) THEN "Fenced"
    ELSE IF \E k \in ks : row[k].txn \notin {NoTxn, t} THEN "IntentBlocked"
    ELSE IF \E k \in ks \cap absent : row[k].txn = NoTxn /\ row[k].val # NoVal
         THEN "ConditionFailed"
    ELSE "Staged"

\* Why a stage does or does not land.  (On a replay an entry that a later one
\* has overtaken is also fenced; the rows here are never ahead of the entry.)
StageOutcome(row, mark, r, t, ks, absent, isAnchor) ==
    IF isAnchor /\ Decided(r) THEN "Fenced"
    ELSE IF \E k \in ks : row[k].txn \notin {NoTxn, t} THEN "IntentBlocked"
    ELSE IF \E k \in ks : mark[k] = t THEN "Fenced"
    ELSE IF \E k \in ks \cap absent : row[k].txn = NoTxn /\ row[k].val # NoVal
         THEN "ConditionFailed"
    ELSE "Staged"

\* The intents of t over the keys ks: each carries the committed value it
\* shadows, which a re-staged intent takes over from the one it replaces.
Intents(row, t, ks) ==
    [k \in ks |-> [txn |-> t, val |-> t,
                   prior |-> IF row[k].txn = NoTxn THEN row[k].val
                                                   ELSE row[k].prior]]

\* The record an anchor's stage creates; spans name every participant's keys.
StagedRecord(spans) == [st |-> "Pending", stub |-> FALSE, spans |-> spans]

-----------------------------------------------------------------------------
(* TxnCommit, TxnAbort: the first decision applied wins *)

CommitRecord(r) == IF r.st = "Pending" THEN [r EXCEPT !.st = "Committed"] ELSE r

\* Bug: an abort overrides the decision that was made first.
AbortAnyway(r, orphan) ==
    CASE r.st # "None"             -> [r EXCEPT !.st = "Aborted"]
      [] r.st = "None" /\ orphan   -> [NoRecord EXCEPT !.st = "Aborted"]
      [] OTHER                     -> r

\* A recovery that found no record writes an aborted tombstone (orphan).
AbortRecord(r, orphan) ==
    CASE r.st = "Pending"          -> [r EXCEPT !.st = "Aborted"]
      [] r.st = "None" /\ orphan   -> [NoRecord EXCEPT !.st = "Aborted"]
      [] OTHER                     -> r

-----------------------------------------------------------------------------
(* TxnResolve *)

\* Where the group holds the transaction's record, the outcome a resolve
\* carries must be the record's own decision.
ResolveMatches(r, outcome) == r.st \in {"None", outcome}

\* The keys of ks that still hold t's intent get the staged value (committed)
\* or the value the intent shadowed (aborted); the other keys are left alone.
IntentKeys(row, t, ks) == {k \in ks : row[k].txn = t}

ResolvedRows(row, t, ks, outcome) ==
    [k \in IntentKeys(row, t, ks) |->
        Committed(IF outcome = "Committed" THEN row[k].val ELSE row[k].prior)]

-----------------------------------------------------------------------------
(* TxnSettle *)

SettledRecord(r) ==
    IF Decided(r) /\ ~r.stub THEN [r EXCEPT !.stub = TRUE, !.spans = {}] ELSE r

-----------------------------------------------------------------------------
(* Reads: what a key holds for a reader that can ask for the record of the *)
(* intent it found (resolve_decided).  The intent of an undecided          *)
(* transaction is not served; the value it shadows is the committed one.   *)

ReadValue(row, rec, k) ==
    IF row[k].txn # NoTxn /\ rec[row[k].txn].st # "Committed"
    THEN row[k].prior
    ELSE row[k].val
=============================================================================
