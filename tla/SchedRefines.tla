---------------------------- MODULE SchedRefines ----------------------------
(***************************************************************************)
(* The scheduler at the level of its data structures (Sched) implements    *)
(* the abstract one (SchedAbs): the state of each slot is the same, the    *)
(* queue is what the links of the ready list lead along.                   *)
(***************************************************************************)
EXTENDS Sched

Abs == INSTANCE SchedAbs WITH Procs <- Slots, st <- sch.state,
                              ready <- ReadyChain(sch), cur <- sch.cur

\* Every step of sched.c is one of the abstract scheduler, or none: the links of
\* the ready list, and every way they change, amount to one queue.
ImplementsAbs == Abs!Spec
=============================================================================
