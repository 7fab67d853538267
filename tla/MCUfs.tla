------------------------------- MODULE MCUfs -------------------------------
(***************************************************************************)
(* UFS on a device of a few blocks, for TLC.                               *)
(***************************************************************************)
EXTENDS Ufs, TLC

AllButUnlink == Ops \ {"unlink"}

\* Names are only ever compared for equality.
NameSymmetry == Permutations(Names)

\* What a block holds while the bitmap says it is unused is never read:
\* BlocksOwned, an invariant of the same run, keeps every inode off it, and
\* ufs_alloc_block zeroes it.
LiveView == <<[disk EXCEPT !.data = [b \in disk.bitmap |-> disk.data[b]]],
              ram, crashes, freed>>
============================================================================
