------------------------------ MODULE KHeapAbs ------------------------------
(***************************************************************************)
(* What kmalloc and kfree of kernel/core/memory.c promise, whatever block  *)
(* is chosen and whichever neighbours are merged: memory is a set of       *)
(* blocks, some of them held by a caller. Module KHeap implements it.      *)
(***************************************************************************)
EXTENDS Integers

CONSTANT MaxAddr    \* the highest address

Addrs == 0 .. MaxAddr

VARIABLES len,    \* len[b]: the bytes of the block at b, header included
          held    \* the blocks that callers hold

heapvars == <<len, held>>

\* Block a takes in block b, the one that begins where a ends.
Joined(f, a, b) ==
  [x \in DOMAIN f \ {b} |-> IF x = a THEN f[a] + f[b] ELSE f[x]]

\* The free blocks adjacent to b from above and from below.
After(f, h, b) == {x \in DOMAIN f \ h : x = b + f[b]}

Before(f, h, b) == {x \in DOMAIN f \ h : x + f[x] = b}

\* The maps of blocks that may result when b, which is free, is joined with
\* such a neighbour or not; h is the set of the blocks held.
JoinAfter(f, h, b) == {f} \union {Joined(f, b, x) : x \in After(f, h, b)}

JoinBefore(f, h, b) == {f} \union {Joined(f, x, b) : x \in Before(f, h, b)}

HeapInit == len = [b \in {} |-> 0] /\ held = {}

\* A region of memory that nothing else is in.
Add(b, n) ==
  /\ n > 0
  /\ held' = held
  /\ \A x \in DOMAIN len : x + len[x] <= b \/ b + n <= x
  /\ len' \in JoinAfter([x \in DOMAIN len \union {b} |->
                           IF x = b THEN n ELSE len[x]], held, b)

\* The caller gets n bytes, the whole of a free block or the first part of it.
Alloc(b, n) ==
  /\ b \notin held
  /\ held' = held \union {b}
  /\ b \in DOMAIN len
  /\ 0 < n /\ n <= len[b]
  /\ len' = IF n = len[b] THEN len
            ELSE [x \in DOMAIN len \union {b + n} |->
                    IF x = b THEN n
                    ELSE IF x = b + n THEN len[b] - n ELSE len[x]]

\* The block becomes free and may be joined with its free neighbours.
Release(b) ==
  /\ b \in held
  /\ held' = held \ {b}
  /\ \E f \in JoinAfter(len, held', b) : len' \in JoinBefore(f, held', b)

HeapNext ==
  \/ \E b, n \in Addrs : Add(b, n) \/ Alloc(b, n)
  \/ \E b \in held : Release(b)

HeapSpec == HeapInit /\ [][HeapNext]_heapvars

-----------------------------------------------------------------------------

\* The block at b covers the byte x.
Covers(b, x) == b <= x /\ x < b + len[b]

\* Blocks never overlap: what kmalloc returned to one caller is in no other
\* caller's block and in no block that kmalloc can still give out.
NoOverlap ==
  /\ DOMAIN len \subseteq Nat
  /\ held \subseteq DOMAIN len
  /\ \A b \in DOMAIN len : len[b] \in Nat \ {0}
  /\ \A a, b \in DOMAIN len : a < b => a + len[a] <= b

Covered(x) == \E b \in DOMAIN len : Covers(b, x)

\* No step loses memory: a byte that was in some block stays in one through
\* every split and merge.
NothingLost == [][\A x \in Addrs : Covered(x) => Covered(x)']_heapvars

\* A block that a caller holds is not resized or moved until it is released.
HeldStable ==
  [][\A b \in held \intersect held' : b \in DOMAIN len' /\ len'[b] = len[b]]_heapvars
=============================================================================
