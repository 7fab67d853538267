-------------------------------- MODULE Fat ---------------------------------
(***************************************************************************)
(* The read-only FAT32 driver, kernel/fs/fat32.c: cluster chains, lookup,  *)
(* read and readdir on a volume whose sectors may fail to read.            *)
(*                                                                         *)
(* A byte of the volume is <<sector, offset>>: what a read returns is the  *)
(* sequence of the bytes it copied. Sector 0 is the first data sector; the *)
(* sectors of the table are the negative numbers. A table entry is the     *)
(* next cluster, and 0 stands for the end marks, as fat32_next_cluster     *)
(* returns it.                                                             *)
(***************************************************************************)
EXTENDS Integers, Sequences, SequencesExt, FiniteSets, FiniteSetsExt

CONSTANTS Volumes,       \* volumes a disk may hold: the table fat, the root
                         \* directory root, the entries dir of a directory
                         \* sector, and for each name its node
          SecPerCluster, SecSize, EntPerSec, FatPerSec,
          ReadOffsets, Lengths, Counts,
          MaxBad         \* sectors that fail to read at most

VARIABLES vol,    \* the volume
          bad,    \* sectors vfs_block_read fails on
          opened, \* the node resolve_path has reached: [type, cluster, size]
          got     \* the call that has just returned, and its result

fvars == <<vol, bad, opened, got>>

Unmounted == [type |-> "none", cluster |-> 0, size |-> 0]

NoResult == [op |-> "none"]

BootSector == -1

ClusterSize == SecPerCluster * SecSize

ClusterToLba(c) == (c - 2) * SecPerCluster

TableSector(c) == -2 - (c \div FatPerSec)

NextCluster(c) == IF TableSector(c) \in bad THEN 0 ELSE vol.fat[c]

\* The entries of one sector; a name is "free" for an erased one, "long" for a
\* part of a long name, "end" for the end mark.
Entries(n) == IF n \in DOMAIN vol.dir THEN vol.dir[n]
              ELSE [i \in 1 .. EntPerSec |-> "end"]

-----------------------------------------------------------------------------
(* Reading a file.                                                         *)

\* The sectors of one cluster: start is the first byte wanted of the next one.
RECURSIVE ReadSectors(_, _, _, _, _)
ReadSectors(n, secs, start, want, copied) ==
    LET end == Min({SecSize, start + want - Len(copied)})
    IN  IF secs = 0 \/ Len(copied) >= want THEN [ok |-> TRUE, copied |-> copied]
        ELSE IF n \in bad THEN [ok |-> FALSE, copied |-> copied]
        ELSE ReadSectors(n + 1, secs - 1, 0, want,
                         copied \o [i \in 1 .. end - start |-> <<n, start + i - 1>>])

RECURSIVE ReadClusters(_, _, _, _)
ReadClusters(c, skip, want, copied) ==
    LET chunk == Min({want - Len(copied), ClusterSize - skip})
        secs == (skip + chunk + SecSize - 1) \div SecSize
        r == ReadSectors(ClusterToLba(c) + skip \div SecSize, secs,
                         skip % SecSize, want, copied)
    IN  IF Len(copied) >= want \/ c < 2 THEN copied
        ELSE IF ~r.ok THEN r.copied
        ELSE ReadClusters(NextCluster(c), 0, want, r.copied)

RECURSIVE Skip(_, _)
Skip(c, n) == IF n = 0 \/ c < 2 THEN c ELSE Skip(NextCluster(c), n - 1)

BytesAt(off, len) ==
    LET want == Min({len, opened.size - off})
        c == Skip(opened.cluster, off \div ClusterSize)
    IN  IF off >= opened.size \/ c < 2 THEN <<>>
        ELSE ReadClusters(c, off % ClusterSize, want, <<>>)

-----------------------------------------------------------------------------
(* Listing a directory and looking a name up in it.                        *)

\* Sectors of the chain from c as readdir walks it: a sector that fails ends
\* its cluster only.
RECURSIVE ListedClusters(_)
ListedClusters(c) ==
    LET lba == ClusterToLba(c)
        stop == Min({s \in 0 .. SecPerCluster :
                       s = SecPerCluster \/ lba + s \in bad})
    IN  IF c < 2 THEN <<>>
        ELSE [s \in 1 .. stop |-> lba + s - 1] \o ListedClusters(NextCluster(c))

LiveWithLongNames(ents) ==
    LET stop == Min({i \in 1 .. Len(ents) + 1 :
                       i > Len(ents) \/ ents[i] = "end"})
    IN  SelectSeq(SubSeq(ents, 1, stop - 1), LAMBDA e : e # "free")

LiveEntries(ents) ==
    LET stop == Min({i \in 1 .. Len(ents) + 1 :
                       i > Len(ents) \/ ents[i] = "end"})
    IN  SelectSeq(SubSeq(ents, 1, stop - 1), LAMBDA e : e \notin {"free", "long"})

EntriesOf(sectors) == FlattenSeq([i \in DOMAIN sectors |-> Entries(sectors[i])])

Readdir(max) ==
    LET all == LiveEntries(EntriesOf(ListedClusters(opened.cluster)))
    IN  SubSeq(all, 1, Min({max, Len(all)}))

\* find_entry gives up at the first sector that fails.
RECURSIVE Find(_, _, _)
Find(c, s, name) ==
    LET n == ClusterToLba(c) + s
    IN  IF c < 2 THEN FALSE
        ELSE IF s = SecPerCluster THEN Find(NextCluster(c), 0, name)
        ELSE IF n \in bad THEN FALSE
        ELSE \/ name \in ToSet(LiveEntries(Entries(n)))
             \/ /\ "end" \notin ToSet(Entries(n))
                /\ Find(c, s + 1, name)

-----------------------------------------------------------------------------
(* The driver's operations. A call after the volume is unmounted would use *)
(* the freed mount structure and is not made here.                         *)

MountVolume ==
    /\ got = NoResult
    /\ opened = Unmounted
    /\ opened' = IF BootSector \in bad THEN Unmounted
                 ELSE [type |-> "dir", cluster |-> vol.root, size |-> 0]
    /\ UNCHANGED <<vol, bad, got>>

Lookup ==
    /\ got = NoResult
    /\ opened.type = "dir"
    /\ \E name \in DOMAIN vol.node :
          LET found == Find(opened.cluster, 0, name)
          IN  /\ opened' = IF found THEN vol.node[name] ELSE opened
              /\ got' = [op |-> "lookup", dir |-> opened.cluster, name |-> name,
                         found |-> found, bad |-> bad]
    /\ UNCHANGED <<vol, bad>>

ReadFile ==
    /\ got = NoResult
    /\ opened.type = "file"
    /\ \E off \in ReadOffsets, len \in Lengths :
          got' = [op |-> "read", off |-> off, len |-> len,
                  bytes |-> BytesAt(off, len), bad |-> bad]
    /\ UNCHANGED <<vol, bad, opened>>

ReadDirectory ==
    /\ got = NoResult
    /\ opened.type = "dir"
    /\ \E max \in Counts :
          got' = [op |-> "readdir", max |-> max, names |-> Readdir(max),
                  bad |-> bad]
    /\ UNCHANGED <<vol, bad, opened>>

UnmountVolume ==
    /\ got = NoResult
    /\ opened # Unmounted
    /\ opened' = Unmounted
    /\ UNCHANGED <<vol, bad, got>>

SectorFails ==
    /\ got = NoResult
    /\ Cardinality(bad) < MaxBad
    /\ \E c \in DOMAIN vol.fat, s \in 0 .. SecPerCluster - 1 :
          \E n \in {BootSector, TableSector(c), ClusterToLba(c) + s} :
             bad' = bad \union {n}
    /\ UNCHANGED <<vol, opened, got>>

\* The caller has what it asked for.
ResultTaken == got # NoResult /\ got' = NoResult /\ UNCHANGED <<vol, bad, opened>>

FInit ==
    /\ vol \in Volumes
    /\ bad = {}
    /\ opened = Unmounted
    /\ got = NoResult

FNext ==
    \/ MountVolume
    \/ Lookup
    \/ ReadFile
    \/ ReadDirectory
    \/ UnmountVolume
    \/ SectorFails
    \/ ResultTaken

FSpec == FInit /\ [][FNext]_fvars

-----------------------------------------------------------------------------

\* The clusters of a chain as the table gives them, and its sectors.
RECURSIVE Chain(_)
Chain(c) == IF c < 2 THEN <<>> ELSE <<c>> \o Chain(vol.fat[c])

Sectors(c) ==
    LET chain == Chain(c)
    IN  [i \in 1 .. Len(chain) * SecPerCluster |->
            ClusterToLba(chain[(i - 1) \div SecPerCluster + 1])
              + ((i - 1) % SecPerCluster)]

\* fat32_vfs_read counts the sectors it skips in the first cluster among those
\* it reads: a read that begins past a cluster's first sector and goes on into
\* the next cluster runs over the end of the first.
Straight(off, want) ==
    LET skip == off % ClusterSize
    IN  skip < SecSize \/ skip + want <= ClusterSize

\* What a caller of the driver gets is what the volume holds. A read returns
\* the bytes of the file from its offset on, in the order of its cluster chain,
\* and a sector that fails only cuts it short. A listing names the live entries
\* in order, without erased ones and parts of long names, and a lookup finds
\* exactly those; sectors that fail hide entries, they never add one.
GivesWhatIsThere ==
    /\ got.op = "read" =>
          LET secs == Sectors(opened.cluster)
              want == Max({0, Min({got.len, opened.size - got.off})})
              slice == [i \in 1 .. want |->
                          LET k == got.off + i - 1
                          IN  <<secs[k \div SecSize + 1], k % SecSize>>]
          IN  Straight(got.off, want) =>
                 /\ IsPrefix(got.bytes, slice)
                 /\ got.bad = {} => got.bytes = slice
    /\ got.op = "readdir" =>
          LET all == LiveEntries(EntriesOf(Sectors(opened.cluster)))
          IN  /\ ToSet(got.names) \subseteq DOMAIN vol.node \intersect ToSet(all)
              /\ got.bad = {} => got.names = SubSeq(all, 1, Min({got.max, Len(all)}))
    /\ got.op = "lookup" =>
          LET there == got.name \in ToSet(EntriesOf(Sectors(got.dir)))
          IN  /\ got.found => there
              /\ got.bad = {} => got.found = there
=============================================================================
