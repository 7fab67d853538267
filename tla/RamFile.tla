------------------------------ MODULE RamFile -------------------------------
(***************************************************************************)
(* The contents of one ramfs file (kernel/core/vfs.c): a buffer that only  *)
(* grows, a size that truncation resets while the bytes stay in the        *)
(* buffer, and writes that may start past the end. clen and cbytes are the *)
(* contents a program expects: what it wrote, and zeros where it did not.  *)
(***************************************************************************)
EXTENDS Integers

CONSTANTS Data,     \* bytes,
          Zero,     \*   and the one memset writes
          Caps,     \* the capacities: 4096 * 2^k
          MaxEnd,   \* bound: where a write may end
          MaxCount  \* bound: bytes of one write

ASSUME RamAssumption == /\ Zero \in Data
                        /\ Caps \subseteq Nat
                        /\ MaxEnd \in Nat
                        /\ MaxCount \in Nat

VARIABLES fsize, fcap, fdata,  \* node->size, node->capacity, node->data
          clen, cbytes

rvars == <<fsize, fcap, fdata, clen, cbytes>>

RInit ==
    /\ fsize = 0 /\ fcap = 0 /\ fdata = [i \in 0 .. -1 |-> Zero]
    /\ clen = 0 /\ cbytes = [i \in 0 .. -1 |-> Zero]

\* The capacity after the loop that doubles it until end fits.
NewCap(end, c) ==
    IF end > fcap THEN c \in Caps /\ c >= end /\ \A d \in Caps : d >= end => c <= d
    ELSE c = fcap

\* The buffer that holds the first size bytes: a new one is cleared.
Grown(c, size) ==
    IF c = fcap THEN fdata
    ELSE [i \in 0 .. c - 1 |-> IF i < size THEN fdata[i] ELSE Zero]

\* Faulty variant: what lies between the end and the write is left as it is.
FilledNoGap(data, c, size, off, n, buf) ==
    [i \in 0 .. c - 1 |-> IF off <= i /\ i < off + n THEN buf[i - off] ELSE data[i]]

Filled(data, c, size, off, n, buf) ==
    [i \in 0 .. c - 1 |-> IF off <= i /\ i < off + n THEN buf[i - off]
                          ELSE IF size <= i /\ i < off THEN Zero ELSE data[i]]

Larger(a, b) == IF a < b THEN b ELSE a

\* ramfs_write into a file of that size, with buffer capacity c at the end.
RamWrite(size, c, off, n, buf) ==
    /\ NewCap(off + n, c)
    /\ fcap' = c
    /\ fdata' = Filled(Grown(c, size), c, size, off, n, buf)
    /\ fsize' = Larger(size, off + n)

\* What a program expects of a write into contents of length len.
Expected(len, off, n, buf) ==
    /\ clen' = Larger(len, off + n)
    /\ cbytes' = [i \in 0 .. Larger(len, off + n) - 1 |->
                    IF off <= i /\ i < off + n THEN buf[i - off]
                    ELSE IF i < len THEN cbytes[i] ELSE Zero]

RWrite(off, n, buf, c) ==
    RamWrite(fsize, c, off, n, buf) /\ Expected(clen, off, n, buf)

\* vfs_open with O_TRUNC.
RTruncate ==
    /\ fsize' = 0 /\ UNCHANGED <<fcap, fdata>>
    /\ clen' = 0 /\ cbytes' = [i \in 0 .. -1 |-> Zero]

\* vfs_write_entire: truncate, then write from the start.
RWriteEntire(n, buf, c) ==
    RamWrite(0, c, 0, n, buf) /\ Expected(0, 0, n, buf)

\* kmalloc has no room: a write changes nothing, vfs_write_entire has already
\* truncated, as RTruncate.
RNoRoom == UNCHANGED rvars

RNext ==
    \/ \E n \in 1 .. MaxCount, off \in 0 .. MaxEnd, c \in Caps \union {fcap} :
         /\ off + n <= MaxEnd
         /\ \E buf \in [0 .. n - 1 -> Data] :
              \/ RWrite(off, n, buf, c)
              \/ off = 0 /\ RWriteEntire(n, buf, c)
    \/ RTruncate
    \/ RNoRoom

RSpec == RInit /\ [][RNext]_rvars

-----------------------------------------------------------------------------

\* A file reads back as its program wrote it after any sequence of writes,
\* truncations and growths of the buffer: bytes cut off by O_TRUNC never come
\* back, and what a write past the end skips reads as zeros (ramfs_write).
Represents ==
    fsize = clen /\ fsize <= fcap /\ \A i \in 0 .. fsize - 1 : fdata[i] = cbytes[i]
=============================================================================
