------------------------- MODULE MCPaymentTransfers -------------------------
(***************************************************************************)
(* Payment transfers for TLC.                                              *)
(***************************************************************************)
EXTENDS PaymentTransfers, TLC

Perms == Permutations(Jobs) \cup Permutations(Chunks)
=============================================================================
