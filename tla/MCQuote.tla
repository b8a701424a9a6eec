------------------------------- MODULE MCQuote -------------------------------
(* Quote on a small instance. *)
EXTENDS Quote, TLC

RequestSymmetry == Permutations(Requests)
=============================================================================
