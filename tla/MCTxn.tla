--------------------------------- MODULE MCTxn ---------------------------------
(***************************************************************************)
(* Instances of Txn.  Tablet A holds ka, tablet B holds kb and kc.         *)
(***************************************************************************)
EXTENDS Txn, TLC

CONSTANTS c1, c2, ka, kb, kc, A, B

MCTabletOf == [k \in Keys |-> IF k = ka THEN A ELSE B]

\* Both clients write ka, which both anchor, and a key of B each.
MCAnchorOf == [c \in Clients |-> A]
MCWrites == [c \in Clients |-> IF c = c1 THEN {ka, kb} ELSE {ka, kc}]
Nothing == [c \in Clients |-> {}]

\* Each client asks its key of B to be absent.
OwnAbsent == [c \in Clients |-> Writes[c] \ {ka}]

From(cs, open, f, w) == [calls |-> cs, gate |-> open, faults |-> f, writes |-> w]

\* Two clients and one fault before the settle gate is open; or one client, with
\* two faults and an ordinary write that may fill a key it asks to be absent.
RivalsOrOne ==
    {From({c1, c2}, FALSE, 1, 0)} \cup {From({c}, TRUE, 2, 1) : c \in {c1, c2}}


\* The two clients, each with its own key of B, are interchangeable.
Twins == (c1 :> c2) @@ (c2 :> c1) @@ (kb :> kc) @@ (kc :> kb)
Symmetry == {Twins}

\* c1 also asks kc to be absent, a key it does not write.
OtherAbsent == [c \in Clients |-> {kc}]

OneWrite == {From({c1}, FALSE, 0, 1)}

\* Both clients write kb, c1 as a participant and c2 as the anchor.
CrossAnchor == [c \in Clients |-> IF c = c1 THEN A ELSE B]
CrossWrites == [c \in Clients |-> IF c = c1 THEN {ka, kb} ELSE {kb}]
OneFault == {From(Clients, FALSE, 1, 0)}
=============================================================================
