------------------------------ MODULE MCDisks -------------------------------
(***************************************************************************)
(* Disks for TLC, in scenarios that share no state: "ufs", a file system   *)
(* that fills up; "partitions", the tables below it; "sata", two disks of  *)
(* an AHCI controller.                                                     *)
(***************************************************************************)
EXTENDS MCUfs, MCPartitions, Ahci

VARIABLE which

MCInit ==
    /\ Init /\ PInit /\ AhciInit
    /\ which \in {"ufs", "partitions", "sata"}

MCNext ==
    \/ which = "ufs" /\ Next /\ UNCHANGED <<pvars, ahcivars, which>>
    \/ which = "partitions" /\ PNext /\ UNCHANGED <<vars, ahcivars, which>>
    \/ which = "sata" /\ AhciNext /\ UNCHANGED <<vars, pvars, which>>

MCSpec == MCInit /\ [][MCNext]_<<vars, pvars, ahcivars, which>>

MCView == <<LiveView, NodesView, ahcivars, which>>
=============================================================================
