------------------------------- MODULE KHeap --------------------------------
(***************************************************************************)
(* The kernel heap of kernel/core/memory.c: kmalloc takes the first block  *)
(* of the free list that is large enough and splits it, kfree puts a block *)
(* back by address and merges it with its neighbours. Every call runs with *)
(* interrupts disabled from mem_lock to mem_unlock, so it is one step.     *)
(*                                                                         *)
(* Addresses and sizes are bytes. A block at address b is a header of Hdr  *)
(* bytes followed by size[b] bytes; the list is the sequence of the        *)
(* addresses of its blocks, in the order of the `next` pointers.           *)
(***************************************************************************)
EXTENDS Naturals, Sequences, FiniteSets, SequencesExt, FiniteSetsExt

CONSTANTS
  Layouts,    \* the memory maps the boot loader may report, each a sequence
              \* of regions <<base, length>>
  MaxAddr,    \* an address above all of them
  Requests,   \* the sizes asked for
  Hdr,        \* sizeof(block_header_t)
  MinSize,    \* the 16 of "+ 16"
  Align       \* the 8 of ALIGN_UP

ASSUME SizesAssumption ==
  /\ {MaxAddr, Hdr, MinSize, Align} \subseteq Nat \ {0}
  /\ Requests \subseteq Nat
  /\ Hdr % Align = 0

VARIABLES
  regions,      \* the memory map, and how many of its regions have been added
  added,
  free_list, size,  \* size is defined for the blocks that exist
  taken,        \* taken[b]: the request the allocated block b answers
  used_memory, total_memory

vars == <<regions, added, free_list, size, taken, used_memory, total_memory>>

AlignUp(x) == ((x + Align - 1) \div Align) * Align

\* Faulty variant: the header is left out.
EndOfPayloadOnly(sz, b) == b + sz[b]

End(sz, b) == b + Hdr + sz[b]

\* What a block adds to used_memory while it is allocated.
Charge(sz, b) == sz[b] + Hdr

\* Faulty variant: the header of b is lost.
SwallowPayloadOnly(sz, a, b) ==
  Restrict([sz EXCEPT ![a] = @ + sz[b]], DOMAIN sz \ {b})

\* The sizes when block a takes in block b, whose header is no more.
Swallow(sz, a, b) ==
  Restrict([sz EXCEPT ![a] = @ + Hdr + sz[b]], DOMAIN sz \ {b})

\* The loop of memory_init and memory_add_region: a block that ends where the
\* next of the list begins swallows it.
MergePass(list, sz) ==
  LET RECURSIVE Pass(_, _, _)
      Pass(l, s, i) ==
        IF i >= Len(l) THEN [list |-> l, size |-> s]
        ELSE IF End(s, l[i]) = l[i + 1]
        THEN Pass(RemoveAt(l, i + 1), Swallow(s, l[i], l[i + 1]), i)
        ELSE Pass(l, s, i + 1)
  IN  Pass(list, sz, 1)

-----------------------------------------------------------------------------

Init ==
  /\ regions \in Layouts
  /\ added = 0
  /\ free_list = <<>>
  /\ size = <<>>
  /\ taken = <<>>
  /\ used_memory = 0
  /\ total_memory = 0

\* memory_init for the first region, memory_add_region for the others; both
\* are called at boot, before anything is allocated. A region too small for a
\* block is counted all the same.
AddRegion ==
  LET base  == regions[added + 1][1]
      len   == regions[added + 1][2]
      block == AlignUp(base)
      room  == len - (block - base)
      fits  == len >= Hdr + MinSize /\ room >= Hdr + MinSize
      m     == IF fits
               THEN MergePass(<<block>> \o free_list,
                              size @@ (block :> room - Hdr))
               ELSE MergePass(free_list, size)
  IN  /\ added < Len(regions)
      /\ free_list' = m.list
      /\ size' = m.size
      /\ total_memory' = total_memory + len
      /\ added' = added + 1
      /\ UNCHANGED <<regions, taken, used_memory>>

Booted == added = Len(regions)

\* kmalloc that finds a block. It splits the block only if the rest can be a
\* block itself; otherwise the caller gets it whole.
Kmalloc(request) ==
  LET n    == AlignUp(request)
      fits == {i \in DOMAIN free_list : size[free_list[i]] >= n}
      i    == Min(fits)
      b    == free_list[i]
      rest == b + Hdr + n
      left == size[b] - n
  IN  /\ Booted
      /\ request # 0
      /\ fits # {}
      /\ IF left >= Hdr + MinSize
         THEN /\ free_list' = [free_list EXCEPT ![i] = rest]
              /\ size' = [size EXCEPT ![b] = n] @@ (rest :> left - Hdr)
         ELSE /\ free_list' = RemoveAt(free_list, i)
              /\ size' = size
      /\ taken' = taken @@ (b :> request)
      /\ used_memory' = used_memory + Charge(size', b)
      /\ UNCHANGED <<regions, added, total_memory>>

\* kfree: b goes in front of the first block of the list with a higher
\* address, swallows it if it is adjacent, and is swallowed by the one before.
Kfree(b) ==
  LET above == {i \in DOMAIN free_list : free_list[i] >= b}
      at    == IF above = {} THEN Len(free_list) + 1 ELSE Min(above)
      list  == InsertAt(free_list, at, b)
      next  == at < Len(list) /\ End(size, b) = list[at + 1]
      sz1   == IF next THEN Swallow(size, b, list[at + 1]) ELSE size
      list1 == IF next THEN RemoveAt(list, at + 1) ELSE list
      prev  == at > 1 /\ End(sz1, list1[at - 1]) = b
  IN  /\ b \in DOMAIN taken
      /\ used_memory' = used_memory - Charge(size, b)
      /\ size' = IF prev THEN Swallow(sz1, list1[at - 1], b) ELSE sz1
      /\ free_list' = IF prev THEN RemoveAt(list1, at) ELSE list1
      /\ taken' = Restrict(taken, DOMAIN taken \ {b})
      /\ UNCHANGED <<regions, added, total_memory>>

Next ==
  \/ AddRegion
  \/ \E n \in Requests : Kmalloc(n)
  \/ \E b \in DOMAIN taken : Kfree(b)

Spec == Init /\ [][Next]_vars

-----------------------------------------------------------------------------

Free == Range(free_list)

Blocks == Free \union DOMAIN taken

Bytes(b) == b .. b + Hdr + size[b] - 1

\* The bytes of the regions added so far that can be in a block.
Usable == UNION {AlignUp(regions[i][1]) .. regions[i][1] + regions[i][2] - 1 :
                   i \in {j \in 1 .. added :
                     regions[j][2] + regions[j][1] - AlignUp(regions[j][1])
                       >= Hdr + MinSize}}

\* Memory is neither lost nor given out twice, through any history of splits
\* and merges: the headers and payloads of the free and the allocated blocks
\* cover every usable byte exactly once, used_memory is what the allocated ones
\* occupy, and a caller of kmalloc keeps an aligned block of at least the bytes
\* it asked for until it frees it, whatever is merged meanwhile. With one region
\* the list stays sorted and kfree misses no neighbour to merge with, so freeing
\* everything restores the single block that the kernel started with.
ExactTiling ==
  /\ IsInjective(free_list)
  /\ Free \intersect DOMAIN taken = {}
  /\ \A a, b \in Blocks : a # b => Bytes(a) \intersect Bytes(b) = {}
  /\ UNION {Bytes(b) : b \in Blocks} = Usable
  /\ used_memory = MapThenSumSet(LAMBDA b : Hdr + size[b], DOMAIN taken)
  /\ \A b \in DOMAIN taken : b % Align = 0 /\ size[b] >= taken[b]
  /\ Len(regions) = 1 =>
       \A i \in 1 .. Len(free_list) - 1 :
         free_list[i] + Hdr + size[free_list[i]] < free_list[i + 1]

\* The abstract heap of KHeapAbs, as this one implements it.
Abs == INSTANCE KHeapAbs WITH len  <- [b \in Blocks |-> Hdr + size[b]],
                              held <- DOMAIN taken
=============================================================================
