----------------------------- MODULE AtomicStore -----------------------------
(***************************************************************************)
(* What cross-tablet transactions promise (ADR 0018): a store in which a   *)
(* client's writes take effect together, at most once, and only if the     *)
(* keys it asked to be absent are; a client told that its transaction      *)
(* failed never sees it commit later.  ClientCtx::cp_txn and the recovery  *)
(* that may run in its place implement this.                               *)
(***************************************************************************)
CONSTANTS Keys, Clients, Ids(_), WriteSet(_), MustBeAbsent(_), NoVal, Plain

VARIABLES
    db,         \* the value of each key
    done,       \* the transaction ids whose writes took effect
    answer      \* what each client was told: "none", "ok", "failed", "unknown"

vars == <<db, done, answer>>

Init ==
    /\ db = [k \in Keys |-> NoVal]
    /\ done = {}
    /\ answer = [c \in Clients |-> "none"]

\* The writes of one attempt of c take effect together.
Commit(c, t) ==
    /\ t \in Ids(c)
    /\ Ids(c) \cap done = {}
    /\ answer[c] \in {"none", "unknown"}
    /\ \A k \in MustBeAbsent(c) : db[k] = NoVal
    /\ db' = [k \in Keys |-> IF k \in WriteSet(c) THEN t ELSE db[k]]
    /\ done' = done \cup {t}
    /\ UNCHANGED answer

Write(k) ==
    /\ db' = [db EXCEPT ![k] = Plain]
    /\ UNCHANGED <<done, answer>>

\* A success is reported only after the commit, a definite failure only when
\* no attempt of the client has committed.
Answer(c, a) ==
    /\ answer[c] = "none"
    /\ a = "ok" => Ids(c) \cap done # {}
    /\ a = "failed" => Ids(c) \cap done = {}
    /\ answer' = [answer EXCEPT ![c] = a]
    /\ UNCHANGED <<db, done>>

Next ==
    \/ \E c \in Clients : \E t \in Ids(c) : Commit(c, t)
    \/ \E k \in Keys : Write(k)
    \/ \E c \in Clients, a \in {"ok", "failed", "unknown"} : Answer(c, a)

Spec == Init /\ [][Next]_vars
=============================================================================
