---------------------------- MODULE MCPartitions ----------------------------
(***************************************************************************)
(* Instances of Partitions: disk 1 is not attached.                        *)
(***************************************************************************)
EXTENDS Partitions

AttachedTotal == [d \in Present |-> 19]

\* The ranges of a disk's nodes no longer matter once its numbers have moved
\* (NodesAgree promises nothing then); whether it has nodes does.
NodesView ==
    <<table, list, scanned, current, boots, blind, steady,
      [d \in Disks |-> IF d \in Present /\ steady[d] THEN nodes[d]
                       ELSE IF nodes[d] = NoNodes THEN NoNodes ELSE <<>>]>>
=============================================================================
