------------------------- MODULE MCTransactionLock -------------------------
(***************************************************************************)
(* Two instances: two threads share the first, one uses the second.         *)
(***************************************************************************)
EXTENDS TransactionLock, TLC

CONSTANTS w1, w2, t1, t2, t3

MCHome == (t1 :> w1) @@ (t2 :> w1) @@ (t3 :> w2)
=============================================================================
