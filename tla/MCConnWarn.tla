---------------------------- MODULE MCConnWarn ------------------------------
(* Instances of ConnWarn for TLC.                                          *)
EXTENDS ConnWarn, TLC

(* What happens after a close of another's file, or a failed pipe(), is    *)
(* followed no further.                                                    *)
Bounded == intact

(* Channels are interchangeable; only for runs without liveness.           *)
Symmetry == Permutations(Channels)
=============================================================================
