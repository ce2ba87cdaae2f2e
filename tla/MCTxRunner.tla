----------------------------- MODULE MCTxRunner -----------------------------
EXTENDS TxRunner, TLC

CONSTANTS c1, c2, c3

(* Two attempts without backoff, the three of the serializable             *)
(* configuration with one, and a TxConfig whose MaxAttempts is not         *)
(* positive.                                                               *)
MCCalls == {c1, c2, c3}
MCAttempts == (c1 :> 2) @@ (c2 :> 3) @@ (c3 :> 0)
MCBackoff == (c1 :> 0) @@ (c2 :> 1) @@ (c3 :> 0)
=============================================================================
