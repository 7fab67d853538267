------------------------------ MODULE MCSched -------------------------------
(***************************************************************************)
(* Instances of Sched for TLC. Each .cfg gives the sizes.                  *)
(***************************************************************************)
EXTENDS SchedRefines
=============================================================================
