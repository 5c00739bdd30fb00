----------------------------- MODULE MCSqlTxn -----------------------------
(* Two requests with one key and a third with its own share a period. *)
EXTENDS SqlTxn, TLC

CONSTANTS r1, r2, r3, k1, k2, p1

MCKeyOf == (r1 :> k1) @@ (r2 :> k1) @@ (r3 :> k2)
MCAlloc == [p \in Periods |-> 5]
===========================================================================
