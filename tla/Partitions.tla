----------------------------- MODULE Partitions -----------------------------
(***************************************************************************)
(* The partition manager: the tables on the disks (kernel/drivers/storage/ *)
(* mbr.c and gpt.c), the list of partitions the kernel keeps of each disk  *)
(* (udisk.c, disks[]), the disk requests go to (disk.c, current_disk) and  *)
(* the device nodes devfs caches by partition number (kernel/fs/devfs.c).  *)
(*                                                                         *)
(* The list is read again at the end of a successful request, and at the   *)
(* start of any request that comes 50 ticks or more after the last scan:   *)
(* between the two it can be older than the table.  A table is written     *)
(* sector by sector; a write can fail, and the power can fail between two. *)
(***************************************************************************)
EXTENDS Integers, FiniteSets, SequencesExt

CONSTANTS Disks,      \* the disk numbers a device name can hold
          Present,    \* the disks that are attached
          Total,      \* [Present -> Nat], sectors of each disk
          Grain,      \* start alignment, 2048 sectors
          Round,      \* what a clamped size is rounded down to, 8 sectors
          Sizes,      \* sizes asked for, in sectors (line 292: multiples of Grain)
          NSlots,     \* MBR slots, 4
          NEntries,   \* GPT entry sectors, 32
          MaxList,    \* UDISK_MAX_PARTITIONS, 16
          Lba32,      \* 2^32: an MBR entry holds its numbers modulo this
          MaxBoots    \* bound: power failures

ASSUME PartitionsAssumption ==
    /\ Disks \subseteq Nat /\ Present \subseteq Disks /\ Present # {}
    /\ Total \in [Present -> Nat \ {0}]
    /\ {Grain, Round, NSlots, NEntries, MaxList, Lba32} \subseteq Nat \ {0}
    /\ Grain % Round = 0 /\ NSlots <= MaxList
    /\ \A n \in Sizes : n \in Nat /\ n % Grain = 0
    /\ MaxBoots \in Nat

VARIABLES table,    \* [Present -> sectors 0, 1 and the entry sectors of the disk]
          list,     \* [Disks -> what disks[] says of the disk]
          scanned,  \* the flag of udisk.c
          current,  \* current_disk of disk.c
          nodes,    \* [Disks -> [1..MaxList -> range of the cached node or NoNode]]
          boots,    \* power failures so far
          blind,    \* history: a partition was placed without seeing all others
          steady    \* history: see Settled and NodesAgree

pvars == <<table, list, scanned, current, nodes, boots, blind, steady>>

\* A slot or entry is the range of a partition, or one of two marks.
Empty == [start |-> 0, end |-> 0]        \* type 0
Protective == [start |-> 1, end |-> 0]   \* an MBR slot with type 0xEE
NoNode == Empty

BlankTable == [sig |-> FALSE, slots |-> [i \in 1 .. NSlots |-> Empty],
               hdr |-> FALSE, ents |-> [i \in 1 .. NEntries |-> Empty]]
NoDisk == [present |-> FALSE, gpt |-> FALSE, parts |-> <<>>]
NoNodes == [k \in 1 .. MaxList |-> NoNode]

IsPart(e) == e \notin {Empty, Protective}
Parts(seq) == SelectSeq(seq, IsPart)
RangesOf(seq) == {seq[i] : i \in {j \in DOMAIN seq : IsPart(seq[j])}}

\* The entry of an MBR slot: a start and a count of 32 bits.  The end the list
\* shows is computed from them in 32 bits too.
MbrEntry(s, n) == [start |-> s % Lba32,
                   end |-> ((s % Lba32) + (n % Lba32) - 1) % Lba32]

-----------------------------------------------------------------------------
(***************************************************************************)
(* Reading the tables                                                      *)
(***************************************************************************)

HasGpt(t) == t.sig /\ t.hdr /\ \E i \in 1 .. NSlots : t.slots[i] = Protective

\* read_gpt_partitions: the entries in use, the first MaxList of them.
GptParts(t) ==
    LET used == Parts(t.ents)
    IN  IF HasGpt(t) THEN SubSeq(used, 1, IF Len(used) < MaxList THEN Len(used) ELSE MaxList)
                     ELSE <<>>

\* mbr_read_partitions: the slots in use, renumbered from 1 without the free ones.
MbrParts(t) == IF t.sig THEN Parts(t.slots) ELSE <<>>

\* scan_disk: the GPT if it lists anything, else the MBR; a GPT with no entry is
\* still a GPT when the MBR lists nothing either.
ScanDisk(t) ==
    [present |-> TRUE,
     gpt     |-> HasGpt(t) /\ (GptParts(t) # <<>> \/ MbrParts(t) = <<>>),
     parts   |-> IF GptParts(t) # <<>> THEN GptParts(t) ELSE MbrParts(t)]

ScanAll(tb) == [d \in Disks |-> IF d \in Present THEN ScanDisk(tb[d]) ELSE NoDisk]

LastPresent == CHOOSE d \in Present : \A e \in Present : e <= d

\* udisk_scan at the start of a request: it reads every disk again, which leaves
\* the last one selected, or keeps a list less than 50 ticks old.
Scans == {[list |-> ScanAll(table), current |-> LastPresent]}
         \cup (IF scanned THEN {[list |-> list, current |-> current]} ELSE {})

\* A request that got no further than that scan, or failed after writing: the list
\* is not read again.
Keep(s) == /\ list' = s.list
           /\ current' = s.current
           /\ scanned' = TRUE

\* scanned = 0; udisk_scan() at the end of a successful request.
Rescan == /\ list' = ScanAll(table')
          /\ current' = LastPresent
          /\ scanned' = TRUE

-----------------------------------------------------------------------------
(***************************************************************************)
(* Creating a table                                                        *)
(***************************************************************************)

\* disk_set_disk leaves current_disk alone when the disk is not there, and
\* udisk_create_mbr does not look at its result.
WrittenDisk(d) == IF d \in Present THEN d ELSE current

\* What history keeps of a table written whole: its numbers are settled if no
\* node of the disk was cached before.
Settled(d) == nodes[d] = NoNodes

\* udisk_create_mbr: sector 0 becomes an empty MBR; sector 1 and the entry
\* sectors keep what they held.
CreateMbr(d) ==
    LET w == WrittenDisk(d) IN
    /\ w \in Present
    /\ table' = [table EXCEPT ![w].sig = TRUE,
                              ![w].slots = [i \in 1 .. NSlots |-> Empty]]
    /\ Rescan
    /\ steady' = [steady EXCEPT ![w] = Settled(w)]
    /\ UNCHANGED <<nodes, boots, blind>>

\* gpt_create_table after its first n writes: the protective MBR, the header, then
\* the entry sectors one by one.
GptWritten(t, n) ==
    [sig   |-> n >= 1 \/ t.sig,
     slots |-> IF n >= 1 THEN [i \in 1 .. NSlots |-> IF i = 1 THEN Protective ELSE Empty]
                         ELSE t.slots,
     hdr   |-> n >= 2 \/ t.hdr,
     ents  |-> [i \in 1 .. NEntries |-> IF i + 2 <= n THEN Empty ELSE t.ents[i]]]

GptWrites == NEntries + 2

CreateGpt(d) ==
    /\ d \in Present
    /\ table' = [table EXCEPT ![d] = GptWritten(@, GptWrites)]
    /\ Rescan
    /\ steady' = [steady EXCEPT ![d] = Settled(d)]
    /\ UNCHANGED <<nodes, boots, blind>>

\* A write of gpt_create_table fails: it returns -1 and nothing is read again.
CreateGptFails(d, n) ==
    /\ d \in Present
    /\ table' = [table EXCEPT ![d] = GptWritten(@, n)]
    /\ current' = d
    /\ steady' = [steady EXCEPT ![d] = FALSE]
    /\ UNCHANGED <<list, scanned, nodes, boots, blind>>

-----------------------------------------------------------------------------
(***************************************************************************)
(* Creating and deleting a partition                                       *)
(***************************************************************************)

RoundUp(n) == ((n + Grain - 1) \div Grain) * Grain

\* Faulty variant: after the partition listed last, not after the highest one.
MutFirstFree(parts) ==
    IF parts = <<>> THEN Grain ELSE RoundUp(parts[Len(parts)].end + 1)

\* The first aligned sector past every listed partition.
FirstFree(parts) ==
    LET ends == {Grain} \cup {parts[i].end + 1 : i \in DOMAIN parts}
    IN  RoundUp(CHOOSE n \in ends : \A m \in ends : m <= n)

Clamped(n, start, total) ==
    IF n > total - start THEN ((total - start) \div Round) * Round ELSE n

\* Faulty variant: the last free place.
MutFreePlace(seq) ==
    CHOOSE i \in DOMAIN seq : seq[i] = Empty /\ \A j \in i + 1 .. Len(seq) : seq[j] # Empty

\* The first free slot or entry.
FreePlace(seq) ==
    CHOOSE i \in DOMAIN seq : seq[i] = Empty /\ \A j \in 1 .. i - 1 : seq[j] # Empty

Full(seq) == \A i \in DOMAIN seq : seq[i] # Empty

\* What gpt_add_partition and mbr_add_partition write.
GptAdd(t, start, n) ==
    [t EXCEPT !.ents[FreePlace(t.ents)] = [start |-> start, end |-> start + n - 1]]
MbrAdd(t, start, n) ==
    [t EXCEPT !.slots[FreePlace(t.slots)] = MbrEntry(start, n)]

\* History: the table added to holds a partition that the list does not show.
Unseen(t, l) ==
    ~ (RangesOf(IF l.gpt THEN t.ents ELSE t.slots) \subseteq RangesOf(l.parts))

\* udisk_create_partition on disk d up to the written table; done tells a request
\* that succeeds from one that fails after the entry was written
\* (gpt_add_partition: no memory for the checksum, or no header write).
CreatePartition(d, size, done) ==
    \E s \in Scans :
      LET l == s.list[d]
          t == table[d]
          start == FirstFree(l.parts)
          n == Clamped(size, start, Total[d])
      IN  /\ l.present
          /\ start < Total[d]
          /\ n > 0
          /\ IF l.gpt THEN t.hdr /\ ~ Full(t.ents) ELSE done /\ ~ Full(t.slots)
          /\ table' = [table EXCEPT ![d] = IF l.gpt THEN GptAdd(t, start, n)
                                                    ELSE MbrAdd(t, start, n)]
          /\ blind' = [blind EXCEPT ![d] = @ \/ Unseen(t, l)]
          /\ IF done THEN Rescan ELSE Keep([s EXCEPT !.current = d])
          /\ UNCHANGED <<nodes, boots, steady>>

CreateDone(d, size) == CreatePartition(d, size, TRUE)
CreateFails(d, size) == CreatePartition(d, size, FALSE)

\* udisk_delete_partition on an MBR disk: the slot whose position is the number
\* asked for is cleared, if it is in use.  On a GPT disk gpt_add_partition refuses
\* the size 0 it is given, and the request fails.
Delete(d, k) ==
    \E s \in Scans :
      /\ s.list[d].present /\ ~ s.list[d].gpt
      /\ table' = IF k <= NSlots THEN [table EXCEPT ![d].slots[k] = Empty] ELSE table
      /\ Rescan
      /\ steady' = [steady EXCEPT ![d] = @ /\ table' = table]
      /\ UNCHANGED <<nodes, boots, blind>>

\* Requests that fail before they write anything, and the ones that only look
\* (udisk_get_info, sys_disk_list, a listing of /dev).
Look ==
    /\ \E s \in Scans : Keep(s)
    /\ UNCHANGED <<table, nodes, boots, blind, steady>>

-----------------------------------------------------------------------------
(***************************************************************************)
(* Device nodes, the selected disk, power failures                         *)
(***************************************************************************)

\* devfs_lookup of partition k of disk d: the node cached under that name stays
\* as it was made, whatever happened to the table since.
LookupNode(d, k) ==
    /\ nodes[d][k] = NoNode
    /\ \E s \in Scans :
         /\ k \in DOMAIN s.list[d].parts
         /\ nodes' = [nodes EXCEPT ![d][k] = s.list[d].parts[k]]
         /\ Keep(s)
    /\ UNCHANGED <<table, boots, blind, steady>>

\* devfs_block_read_block and devfs_block_write_block select the disk of the node.
BlockIo(d) ==
    /\ current' = d
    /\ UNCHANGED <<table, list, scanned, nodes, boots, blind, steady>>

\* The entries in use come first: nothing will be put before a listed one.
Packed(seq) == \A i, j \in DOMAIN seq : i < j /\ seq[i] = Empty => seq[j] = Empty

Boot(tb) ==
    /\ list' = [d \in Disks |-> NoDisk]
    /\ scanned' = FALSE
    /\ current' = 0
    /\ nodes' = [d \in Disks |-> NoNodes]
    /\ steady' = [d \in Present |-> Packed(tb[d].slots) /\ Packed(tb[d].ents)]
    /\ table' = tb
    /\ UNCHANGED blind

\* The power fails, between two requests or after n writes of gpt_create_table.
PowerCut(d, n) ==
    /\ boots < MaxBoots
    /\ boots' = boots + 1
    /\ Boot([table EXCEPT ![d] = GptWritten(@, n)])

-----------------------------------------------------------------------------

PInit ==
    /\ table = [d \in Present |-> BlankTable]
    /\ list = [d \in Disks |-> NoDisk]
    /\ scanned = FALSE
    /\ current = 0
    /\ nodes = [d \in Disks |-> NoNodes]
    /\ boots = 0
    /\ blind = [d \in Present |-> FALSE]
    /\ steady = [d \in Present |-> TRUE]

\* The system calls, which take the device's name apart.
SysDiskTable(d) ==
    \/ CreateMbr(d)
    \/ d \in Present /\ CreateGpt(d)
    \/ d \in Present /\ \E n \in 0 .. GptWrites - 1 : CreateGptFails(d, n)

SysPartitionCreate(d, n) == CreateDone(d, n) \/ CreateFails(d, n)

SysPartitionDelete(d, k) == Delete(d, k)

PNext ==
    \/ \E d \in Disks : SysDiskTable(d)
    \/ \E d \in Present, n \in Sizes : SysPartitionCreate(d, n)
    \/ \E d \in Present, k \in 1 .. MaxList : SysPartitionDelete(d, k)
    \/ Look
    \/ \E d \in Present, k \in 1 .. MaxList : LookupNode(d, k)
    \/ \E d \in Present : BlockIo(d)
    \/ \E d \in Present, n \in 0 .. GptWrites - 1 : PowerCut(d, n)

PSpec == PInit /\ [][PNext]_pvars

-----------------------------------------------------------------------------
(***************************************************************************)
(* Properties                                                              *)
(***************************************************************************)

Fits(d) == Total[d] <= Lba32

\* Every partition the kernel lists starts on an aligned sector past the tables
\* and ends on the disk, however it came to be listed: created, left over from a
\* table half overwritten, or shown again by one. No two of them share a sector,
\* unless one was placed while the list lacked one that the table held
\* (udisk_create_partition places a partition after the listed ones, and the list
\* can be old, cut at UDISK_MAX_PARTITIONS, or empty because the disk has no
\* table signature).
RangesApart ==
    \A d \in Present : Fits(d) =>
        LET parts == ScanDisk(table[d]).parts
        IN  /\ \A p \in RangesOf(parts) :
                 /\ p.start >= Grain /\ p.start % Grain = 0
                 /\ p.start <= p.end /\ p.end < Total[d]
            /\ ~ blind[d] => \A i, j \in DOMAIN parts : i # j =>
                 parts[i].end < parts[j].start \/ parts[j].end < parts[i].start

\* A device node that devfs cached for a partition number still denotes the
\* partition listed under that number, as long as nothing was deleted and no table
\* was written over since the disk's nodes were looked up: creating partitions, one
\* that fails half way included, moves no number.
NodesAgree ==
    scanned => \A d \in Present : steady[d] =>
        \A k \in 1 .. MaxList : nodes[d][k] # NoNode =>
            k \in DOMAIN list[d].parts /\ list[d].parts[k] = nodes[d][k]

\* Deleting a partition, by the number it is listed under, leaves the other listed
\* partitions of the disk listed (udisk_delete_partition takes the number for the
\* position of an MBR slot, the list numbers the slots in use).
DeleteKeepsOthers ==
    [][\A d \in Present, k \in 1 .. MaxList :
         Delete(d, k) /\ list[d] = ScanDisk(table[d]) /\ k \in DOMAIN list[d].parts
           => \A i \in DOMAIN list[d].parts \ {k} :
                list[d].parts[i] \in RangesOf(list'[d].parts)]_pvars

\* A table made on a disk changes no other disk (udisk_create_mbr writes to the disk
\* selected last when the one it names is not attached).
TableOnNamedDisk ==
    [][\A d \in Disks : CreateMbr(d) => \A e \in Present \ {d} : table'[e] = table[e]]_pvars
=============================================================================
