----------------------------- MODULE MCOamChain -----------------------------
(* Instances of OamChain for TLC.                                          *)
EXTENDS OamChain, TLC

(* Threads and users are interchangeable.                                  *)
Symmetry == Permutations(Threads) \cup Permutations(Users)
=============================================================================
