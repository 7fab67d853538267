------------------------------ MODULE UserHeap ------------------------------
(***************************************************************************)
(* malloc, calloc, realloc and free of lib/libc.c over the break of one    *)
(* process. Addresses and sizes are counted in words of 8 bytes: a         *)
(* block_header_t is 3 words, BLOCK_ALIGN is 2.                            *)
(*                                                                         *)
(* The program fills what it is given with a stamp of its own; words is    *)
(* what memory holds, so that a block handed out twice or a header written *)
(* over user data shows.                                                   *)
(***************************************************************************)
EXTENDS Integers, Sequences, FiniteSets, FiniteSetsExt

CONSTANTS HeapWords,   \* words between the initial break and the heap's limit
          AskedSizes,       \* sizes the program asks for
          Stamps       \* what it fills its blocks with

VARIABLES blk,    \* the list from free_list on: [at, size, free]
          brk,    \* heap_brk
          words,    \* the words of the heap
          owned   \* the program's blocks: pointer -> [n, stamp]

hvars == <<blk, brk, words, owned>>

Header == 3

HAlign == 2

NoOwner == [n |-> 0, stamp |-> 0]

Words == 0 .. HeapWords - 1

Rounded(n) == ((n + HAlign - 1) \div HAlign) * HAlign + Header

\* What the words of a header hold: no stamp of the program.
HeaderMark == -1

HeaderAt(m, at) ==
    [w \in Words |-> IF w \in at .. at + Header - 1 THEN HeaderMark ELSE m[w]]

Filled(m, p, n, v) == [w \in Words |-> IF w \in p .. p + n - 1 THEN v ELSE m[w]]

-----------------------------------------------------------------------------

BlockFits(total) == {i \in DOMAIN blk : blk[i].free /\ blk[i].size >= total}

\* Whether what is left makes a block of its own.
Splits(b, total) == b.size >= total + Header + HAlign

\* malloc: the first free block that is large enough, split when it is much
\* larger, else more of the break, which the kernel may refuse. The results it
\* can have: [ok, at, blk, brk, words].
MallocResults(n) ==
    LET total == Rounded(n)
        i == Min(BlockFits(total))
        b == blk[i]
        rest == [at |-> b.at + total, size |-> b.size - total, free |-> TRUE]
        none == [ok |-> FALSE, at |-> 0, blk |-> blk, brk |-> brk, words |-> words]
    IN  IF n = 0 THEN {none}
        ELSE IF BlockFits(total) # {}
        THEN {[ok |-> TRUE, at |-> b.at, brk |-> brk,
               blk |-> IF Splits(b, total)
                       THEN SubSeq(blk, 1, i - 1)
                              \o <<[b EXCEPT !.size = total, !.free = FALSE], rest>>
                              \o SubSeq(blk, i + 1, Len(blk))
                       ELSE [blk EXCEPT ![i].free = FALSE],
               words |-> IF Splits(b, total) THEN HeaderAt(words, rest.at) ELSE words]}
        ELSE {none} \union
             {r \in {[ok |-> TRUE, at |-> brk, brk |-> brk + total,
                      blk |-> Append(blk, [at |-> brk, size |-> total,
                                           free |-> FALSE]),
                      words |-> HeaderAt(words, brk)]} : r.brk <= HeapWords}

\* free's walk: a free block takes in the one after it, then the walk goes on
\* behind both.
RECURSIVE Merged(_)
Merged(s) ==
    IF Len(s) < 2 THEN s
    ELSE IF s[1].free /\ s[2].free
    THEN <<[s[1] EXCEPT !.size = @ + s[2].size]>>
           \o Merged(SubSeq(s, 3, Len(s)))
    ELSE <<s[1]>> \o Merged(Tail(s))

Freed(s, p) ==
    Merged([i \in DOMAIN s |-> IF s[i].at = p - Header
                                  THEN [s[i] EXCEPT !.free = TRUE] ELSE s[i]])

BlockOf(p) == CHOOSE i \in DOMAIN blk : blk[i].at = p - Header

Pointers == {p \in Words : owned[p].n > 0}

\* The words of headers and of blocks of the program; the others are taken as
\* 0, since malloc promises nothing of them.
Kept(m, b, o) ==
    LET heads == UNION {b[i].at .. b[i].at + Header - 1 : i \in DOMAIN b}
        users == UNION {p .. p + o[p].n - 1 : p \in Words}
    IN  [w \in Words |-> IF w \in heads \union users THEN m[w] ELSE 0]

-----------------------------------------------------------------------------

\* malloc or calloc, and the program's own writes to what it got.
Malloc ==
    \E n \in AskedSizes, v \in Stamps : \E r \in MallocResults(n) :
        /\ blk' = r.blk /\ brk' = r.brk
        /\ owned' = IF r.ok THEN [owned EXCEPT ![r.at + Header] =
                                     [n |-> n, stamp |-> v]]
                    ELSE owned
        /\ words' = IF r.ok THEN Filled(r.words, r.at + Header, n, v) ELSE r.words

HFree ==
    \E p \in Pointers :
        /\ blk' = Freed(blk, p)
        /\ owned' = [owned EXCEPT ![p] = NoOwner]
        /\ words' = Kept(words, blk', owned')
        /\ UNCHANGED brk

CopiedWhole(m, p, q, size) ==
    [w \in Words |-> IF w \in q .. q + size - 1 /\ p + w - q \in Words
                     THEN m[p + w - q] ELSE m[w]]

\* memcpy of block->size - sizeof(block_header_t).
Copied(m, p, q, size) ==
    [w \in Words |-> IF w \in q .. q + size - Header - 1 THEN m[p + w - q] ELSE m[w]]

\* realloc of a block that is too small; the old one goes after the copy. What
\* the program gets more than it had is its own to fill.
ReallocMoves ==
    \E p \in Pointers, n \in AskedSizes :
        LET old == blk[BlockOf(p)]
        IN  /\ n > 0 /\ old.size < Rounded(n)
            /\ \E r \in MallocResults(n) :
                  LET q == r.at + Header
                      o == owned[p]
                      m == Copied(r.words, p, q, old.size)
                  IN  IF r.ok
                      THEN /\ blk' = Freed(r.blk, p) /\ brk' = r.brk
                           /\ owned' = [owned EXCEPT ![p] = NoOwner,
                                                     ![q] = [o EXCEPT !.n = n]]
                           /\ words' = Kept(Filled(m, q + o.n, n - o.n, o.stamp),
                                          blk', owned')
                      ELSE UNCHANGED hvars

\* realloc of a block that is large enough.
ReallocStays ==
    \E p \in Pointers, n \in AskedSizes :
        /\ n > 0 /\ blk[BlockOf(p)].size >= Rounded(n)
        /\ owned' = [owned EXCEPT ![p].n = n]
        /\ words' = Kept(Filled(words, p + owned[p].n, n - owned[p].n, owned[p].stamp),
                       blk, owned')
        /\ UNCHANGED <<blk, brk>>

HInit ==
    /\ blk = <<>> /\ brk = 0
    /\ words = [w \in Words |-> 0]
    /\ owned = [w \in Words |-> NoOwner]

HNext == Malloc \/ HFree \/ ReallocMoves \/ ReallocStays

HSpec == HInit /\ [][HNext]_hvars

-----------------------------------------------------------------------------

\* Every block of the program holds what the program put there, through any
\* sequence of malloc, realloc and free: blocks and headers never overlap, a
\* freed block is not handed out twice, realloc carries the contents over; and
\* the list covers the break without gap or overlap, which free's merging of
\* neighbours in the list relies on (libc.c:117-184).
UserDataKept ==
    /\ \A p \in Pointers : \A w \in p .. p + owned[p].n - 1 :
           words[w] = owned[p].stamp
    /\ \A i \in DOMAIN blk :
           /\ blk[i].at + blk[i].size = IF i = Len(blk) THEN brk ELSE blk[i + 1].at
           /\ \A w \in blk[i].at .. blk[i].at + Header - 1 : words[w] = HeaderMark
    /\ \A p \in Pointers : \E i \in DOMAIN blk :
           /\ blk[i].at = p - Header /\ ~blk[i].free
           /\ blk[i].size >= Header + owned[p].n
=============================================================================
