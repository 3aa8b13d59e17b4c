------------------------------- MODULE MCQueue -------------------------------
(* Queue between the process that created it and another one. *)
EXTENDS Queue
=============================================================================
