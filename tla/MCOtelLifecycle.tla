--------------------------- MODULE MCOtelLifecycle ---------------------------
(* Instances of OtelLifecycle for TLC: a process that makes a few          *)
(* connections, in any order and overlap.                                  *)
EXTENDS OtelLifecycle
=============================================================================
