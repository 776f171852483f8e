------------------------------ MODULE MCOamOk ------------------------------
(* Instances of OamOk for TLC: few processes, threads and requests.        *)
EXTENDS OamOk
=============================================================================
