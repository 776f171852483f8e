----------------------------- MODULE MCOtelExit -----------------------------
(* Instances of OtelExit for TLC.                                          *)
EXTENDS OtelExit, TLC

(* Addresses are interchangeable: used by the runs without liveness.       *)
AddressSymmetry == Permutations(Blocks) \cup Permutations(Pmos)

=============================================================================
