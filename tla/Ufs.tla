-------------------------------- MODULE Ufs --------------------------------
(***************************************************************************)
(* UFS, the native file system (kernel/fs/ufs.c): the superblock counters, *)
(* the block bitmap, the inode table with its extents, and directories.    *)
(*                                                                         *)
(* An operation of the VFS is a function on a record r = [disk, ram,       *)
(* trail]: every ufs_write_block it makes changes r.disk and appends the   *)
(* new image to r.trail.  The operation's action takes the last image; a   *)
(* power failure during it takes any earlier one, and the kernel mounts    *)
(* that image again.  Operations run with interrupts off (syscalls never   *)
(* enable them), so nothing interleaves with one but a power failure.      *)
(*                                                                         *)
(* Units: a file's size counts whole blocks, a directory's size counts     *)
(* entries (64 bytes each in the code).  Writes are whole blocks, and the  *)
(* k-th block a program writes to inode i holds the mark <<i, k>>.         *)
(***************************************************************************)
EXTENDS Integers, Sequences, FiniteSets, SequencesExt, FiniteSetsExt

CONSTANTS
    NInodes,      \* inode_count; inode 1 is the root
    NBlocks,      \* data blocks, numbered from 1 = data_start
    NExt,         \* extents per inode (8 in the code)
    EPB,          \* directory entries per block (64 in the code)
    Names,        \* names a program gives to files and directories
    NoName,       \* the empty name, the mark of an unwritten block
    MaxFile,      \* bound: file blocks a program writes
    MaxWrite,     \* bound: blocks in one write
    CrashIn,      \* operations during which the power may fail
    MaxCrashes    \* bound: power failures

Ops == {"create", "mkdir", "symlink", "unlink", "write", "rename"}

ASSUME UfsConstants ==
    /\ {NInodes, NBlocks, NExt, MaxFile, MaxWrite} \subseteq Nat \ {0}
    /\ EPB \in Nat /\ EPB >= 2
    /\ MaxCrashes \in Nat
    /\ CrashIn \subseteq Ops

Inodes == 1..NInodes
Blocks == 1..NBlocks
Root == 1

VARIABLES
    disk,     \* what is on the device
    ram,      \* ufs_mount_t: the superblock's counters and the two cursors
    crashes,  \* power failures so far
    freed     \* history: a block in use has been freed since the format

vars == <<disk, ram, crashes, freed>>

(***************************************************************************)
(* Disk contents.                                                          *)
(***************************************************************************)
Hole == [ino |-> 0, name |-> NoName]
ZeroBlock == [ents |-> [j \in 1..EPB |-> Hole], mark |-> NoName]
Mark(i, k) == [ZeroBlock EXCEPT !.mark = <<i, k>>]
DirBlock(self, parent) ==
    [ZeroBlock EXCEPT !.ents[1] = [ino |-> self, name |-> "."],
                      !.ents[2] = [ino |-> parent, name |-> ".."]]

\* mode 0 in the code: the inode is free.
FreeMark == [mode |-> "free", size |-> 0, ext |-> <<>>]

Perform0 == [disk |-> disk, ram |-> ram, trail |-> <<>>]

(***************************************************************************)
(* The device writes.                                                      *)
(***************************************************************************)
Write(r, d) == [r EXCEPT !.disk = d, !.trail = Append(@, d)]

BitmapSet(r, b, val) ==
    Write(r, [r.disk EXCEPT !.bitmap = IF val THEN @ \cup {b} ELSE @ \ {b}])
WriteInode(r, i, in) == Write(r, [r.disk EXCEPT !.inode[i] = in])
WriteBlock(r, b, content) == Write(r, [r.disk EXCEPT !.data[b] = content])
WriteSuperblock(r) ==
    Write(r, [r.disk EXCEPT !.free = r.ram.free, !.ifree = r.ram.ifree])

(***************************************************************************)
(* Allocation.  Both searches start at a cursor and wrap around.           *)
(***************************************************************************)
FirstFrom(start, S) ==
    LET later == {x \in S : x >= start}
    IN  IF later # {} THEN Min(later) ELSE Min(S)

\* ufs_alloc_block: the block is zeroed; got = 0 when the disk is full.
AllocBlock(r) ==
    LET unused == Blocks \ r.disk.bitmap
        b  == FirstFrom(r.ram.nextb, unused)
        r1 == BitmapSet(r, b, TRUE)
        r2 == [r1 EXCEPT !.ram.free = @ - 1, !.ram.nextb = b + 1]
    IN  IF unused = {} THEN [r |-> r, got |-> 0]
        ELSE [r |-> WriteSuperblock(WriteBlock(r2, b, ZeroBlock)), got |-> b]

\* Faulty variant: the freed block is counted in memory only.
MutFreeBlock(r, b) ==
    LET r1 == BitmapSet(r, b, FALSE)
    IN  [r1 EXCEPT !.ram.free = @ + 1, !.ram.nextb = IF b < @ THEN b ELSE @]

FreeBlock(r, b) ==
    LET r1 == BitmapSet(r, b, FALSE)
    IN  WriteSuperblock([r1 EXCEPT !.ram.free = @ + 1,
                                   !.ram.nextb = IF b < @ THEN b ELSE @])

AllocInode(r) ==
    LET unused == {i \in Inodes : r.disk.inode[i].mode = "free"}
        i  == FirstFrom(IF r.ram.nexti > NInodes THEN 1 ELSE r.ram.nexti, unused)
        r1 == WriteInode(r, i, FreeMark)
    IN  IF unused = {} THEN [r |-> r, got |-> 0]
        ELSE [r |-> WriteSuperblock([r1 EXCEPT !.ram.ifree = @ - 1,
                                               !.ram.nexti = i + 1]),
              got |-> i]

FreeInode(r, i) ==
    LET r1 == WriteInode(r, i, FreeMark)
    IN  WriteSuperblock([r1 EXCEPT !.ram.ifree = @ + 1,
                                   !.ram.nexti = IF i < @ THEN i ELSE @])

(***************************************************************************)
(* Extents.                                                                *)
(***************************************************************************)
\* The blocks of an inode in file order.
BlockList(in) ==
    FlattenSeq([e \in 1..Len(in.ext) |->
                  [j \in 1..in.ext[e].len |-> in.ext[e].start + j - 1]])

\* Faulty variant: the index is not reduced by the extents passed over.
MutGetBlock(in, idx) ==
    LET fits == {e \in 1..Len(in.ext) : idx <= in.ext[e].len}
    IN  IF fits = {} THEN 0 ELSE in.ext[Min(fits)].start + idx - 1

GetBlock(in, idx) ==
    LET bs == BlockList(in) IN IF idx <= Len(bs) THEN bs[idx] ELSE 0

\* ufs_append_block extends the FIRST extent the block happens to follow, or
\* starts a new one; the result is <<>> when neither is possible.
AppendBlock(ext, b) ==
    LET follows == {e \in 1..Len(ext) : ext[e].start + ext[e].len = b}
    IN  IF follows # {} THEN [ext EXCEPT ![Min(follows)].len = @ + 1]
        ELSE IF Len(ext) < NExt THEN Append(ext, [start |-> b, len |-> 1])
        ELSE <<>>

RECURSIVE FreeAll(_, _)
FreeAll(r, bs) == IF bs = <<>> THEN r ELSE FreeAll(FreeBlock(r, Head(bs)), Tail(bs))

FreeInodeBlocks(r, i) == FreeAll(r, BlockList(r.disk.inode[i]))

(***************************************************************************)
(* Directories.  The number of blocks looked at comes from the size, and   *)
(* the size counts the entries in use.                                     *)
(***************************************************************************)
DirBlocks(d, dir) ==
    LET in  == d.inode[dir]
        all == BlockList(in)
    IN  SubSeq(all, 1, Min({(in.size + EPB - 1) \div EPB, Len(all)}))

\* The entries find, add and remove walk through, as one sequence.
Entries(d, dir) ==
    LET bs == DirBlocks(d, dir)
    IN  FlattenSeq([i \in 1..Len(bs) |-> d.data[bs[i]].ents])

\* The place of the first entry with this name (0: none).
PlaceOf(d, dir, name) ==
    LET es   == Entries(d, dir)
        hits == {p \in 1..Len(es) : es[p].ino # 0 /\ es[p].name = name}
    IN  IF hits = {} THEN 0 ELSE Min(hits)

FindInDir(d, dir, name) ==
    LET p == PlaceOf(d, dir, name)
    IN  IF p = 0 THEN 0 ELSE Entries(d, dir)[p].ino

WriteEntry(r, dir, p, e) ==
    LET b == DirBlocks(r.disk, dir)[((p - 1) \div EPB) + 1]
    IN  WriteBlock(r, b, [r.disk.data[b] EXCEPT !.ents[((p - 1) % EPB) + 1] = e])

\* ok = FALSE: no block left, or no extent left for it.
AddToDir(r, dir, i, name) ==
    LET in    == r.disk.inode[dir]
        es    == Entries(r.disk, dir)
        holes == {p \in 1..Len(es) : es[p].ino = 0}
        e     == [ino |-> i, name |-> name]
        a     == AllocBlock(r)
        r1    == WriteBlock(a.r, a.got, [ZeroBlock EXCEPT !.ents[1] = e])
        ext   == AppendBlock(in.ext, a.got)
    IN  IF holes # {}
          THEN [r |-> WriteInode(WriteEntry(r, dir, Min(holes), e),
                                 dir, [in EXCEPT !.size = @ + 1]),
                ok |-> TRUE]
        ELSE IF a.got = 0 THEN [r |-> r, ok |-> FALSE]
        ELSE IF ext = <<>> THEN [r |-> FreeBlock(r1, a.got), ok |-> FALSE]
        ELSE [r |-> WriteInode(r1, dir, [in EXCEPT !.size = @ + 1, !.ext = ext]),
              ok |-> TRUE]

\* Unchanged when the name is not found.
RemoveFromDir(r, dir, name) ==
    LET p  == PlaceOf(r.disk, dir, name)
        in == r.disk.inode[dir]
    IN  IF p = 0 THEN r
        ELSE WriteInode(WriteEntry(r, dir, p, Hole), dir, [in EXCEPT !.size = @ - 1])

(***************************************************************************)
(* The VFS operations, from the record a system call starts with.          *)
(***************************************************************************)
CreateOp(r, dir, name) ==
    LET a  == AllocInode(r)
        r1 == WriteInode(a.r, a.got, [FreeMark EXCEPT !.mode = "file"])
    IN  IF a.got = 0 THEN r ELSE AddToDir(r1, dir, a.got, name).r

\* mkdir and symlink differ in the new inode's size and first block (a link's
\* target counts as one block).
NewWithBlock(r, dir, name, mode) ==
    LET a  == AllocInode(r)
        ab == AllocBlock(a.r)
        content == IF mode = "dir" THEN DirBlock(a.got, dir) ELSE Mark(a.got, 1)
        r1 == WriteBlock(ab.r, ab.got, content)
        r2 == WriteInode(r1, a.got, [mode |-> mode,
                                     size |-> IF mode = "dir" THEN 2 ELSE 1,
                                     ext  |-> AppendBlock(<<>>, ab.got)])
    IN  IF a.got = 0 THEN r
        ELSE IF ab.got = 0 THEN FreeInode(a.r, a.got)
        ELSE AddToDir(r2, dir, a.got, name).r

MkdirOp(r, dir, name) == NewWithBlock(r, dir, name, "dir")
SymlinkOp(r, dir, name) == NewWithBlock(r, dir, name, "link")

\* Faulty variant: the inode is not freed along with its blocks.
MutUnlinkOp(r, dir, name) ==
    RemoveFromDir(FreeInodeBlocks(r, FindInDir(r.disk, dir, name)), dir, name)

UnlinkOp(r, dir, name) ==
    LET i == FindInDir(r.disk, dir, name)
    IN  RemoveFromDir(FreeInode(FreeInodeBlocks(r, i), i), dir, name)

\* Faulty variant: the new name is entered before the old one is removed.
MutRenameOp(r, dir, name, newdir, newname) ==
    LET i  == FindInDir(r.disk, dir, name)
        r1 == RemoveFromDir(r, newdir, newname)
    IN  RemoveFromDir(AddToDir(r1, newdir, i, newname).r, dir, name)

RenameOp(r, dir, name, newdir, newname) ==
    LET i  == FindInDir(r.disk, dir, name)
        r1 == RemoveFromDir(r, newdir, newname)
        r2 == RemoveFromDir(r1, dir, name)
    IN  IF PlaceOf(r1.disk, dir, name) = 0 THEN r1
        ELSE AddToDir(r2, newdir, i, newname).r

\* The loop of ufs_vfs_write over the blocks idx .. idx + left - 1 (counted
\* from 1); in is the inode as the loop has changed it, in memory only.
RECURSIVE WriteLoop(_, _, _, _, _)
WriteLoop(r, i, in, idx, left) ==
    LET b   == GetBlock(in, idx)
        a   == AllocBlock(r)
        ext == AppendBlock(in.ext, a.got)
        stop(q) == [r |-> q, in |-> in, next |-> idx]
    IN  IF left = 0 THEN stop(r)
        ELSE IF b # 0
          THEN WriteLoop(WriteBlock(r, b, Mark(i, idx)), i, in, idx + 1, left - 1)
        ELSE IF a.got = 0 THEN stop(r)
        ELSE IF ext = <<>> THEN stop(FreeBlock(a.r, a.got))
        ELSE WriteLoop(WriteBlock(a.r, a.got, Mark(i, idx)), i,
                       [in EXCEPT !.ext = ext], idx + 1, left - 1)

WriteOp(r, i, off, n) ==
    LET w   == WriteLoop(r, i, r.disk.inode[i], off + 1, n)
        end == w.next - 1
    IN  IF end > w.in.size
          THEN WriteInode(w.r, i, [w.in EXCEPT !.size = end])
          ELSE w.r

(***************************************************************************)
(* Operations that only read.                                              *)
(***************************************************************************)
\* ufs_vfs_read: up to n blocks from off on, to the end of the file or the
\* first block the extents do not have.
ReadOp(d, i, off, n) ==
    LET in   == d.inode[i]
        last == Min({in.size, off + n})
        gaps == {k \in (off + 1)..last : GetBlock(in, k) = 0}
        end  == IF gaps = {} THEN last ELSE Min(gaps) - 1
    IN  [k \in 1..(end - off) |-> d.data[GetBlock(in, off + k)].mark]

\* ufs_vfs_readlink: the target lies in the first block.
ReadlinkOp(d, i) ==
    LET b == GetBlock(d.inode[i], 1)
    IN  IF d.inode[i].mode # "link" \/ b = 0 THEN NoName ELSE d.data[b].mark

StatOp(d, i) == [dir |-> d.inode[i].mode = "dir", size |-> d.inode[i].size]

\* ufs_vfs_readdir: of the last block only as many places are looked at as the
\* size leaves for it, wherever the entries in use are.
ReaddirOp(d, dir, max) ==
    LET seen  == SubSeq(Entries(d, dir), 1,
                        Min({d.inode[dir].size, Len(Entries(d, dir))}))
        inuse == SelectSeq(seen, LAMBDA e : e.ino # 0)
        es    == SubSeq(inuse, 1, Min({max, Len(inuse)}))
    IN  [k \in 1..Len(es) |-> [name |-> es[k].name, st |-> StatOp(d, es[k].ino)]]

(***************************************************************************)
(* Path resolution (vfs_resolve_path with ufs_vfs_lookup): the directories *)
(* a program can name.                                                     *)
(***************************************************************************)
RECURSIVE Reach(_, _)
Reach(d, S) ==
    LET found == {FindInDir(d, dir, n) : dir \in S, n \in Names} \ {0}
        T     == S \cup {i \in found : d.inode[i].mode = "dir"}
    IN  IF T = S THEN S ELSE Reach(d, T)

Dirs == Reach(disk, {Root})

(***************************************************************************)
(* Mounting, and how an operation ends: it runs to its last write, or the  *)
(* power fails after some earlier one and the kernel mounts what is there. *)
(***************************************************************************)
Mounted(d) == [free |-> d.free, ifree |-> d.ifree, nextb |-> 0, nexti |-> 2]

Complete(r) ==
    /\ disk' = r.disk
    /\ ram' = r.ram
    /\ UNCHANGED crashes

PowerFails(r) ==
    /\ crashes < MaxCrashes
    /\ \E k \in 0..(Len(r.trail) - 1) : disk' = (<<disk>> \o r.trail)[k + 1]
    /\ ram' = Mounted(disk')
    /\ crashes' = crashes + 1

Ends(op, r) ==
    /\ \/ Complete(r)
       \/ op \in CrashIn /\ PowerFails(r)
    /\ freed' = (freed \/ ~(disk.bitmap \subseteq disk'.bitmap))

Create(dir, name) ==
    /\ FindInDir(disk, dir, name) = 0
    /\ Ends("create", CreateOp(Perform0, dir, name))

Mkdir(dir, name) ==
    /\ FindInDir(disk, dir, name) = 0
    /\ Ends("mkdir", MkdirOp(Perform0, dir, name))

Symlink(dir, name) ==
    /\ FindInDir(disk, dir, name) = 0
    /\ Ends("symlink", SymlinkOp(Perform0, dir, name))

\* A directory is refused when its size says it holds more than "." and "..".
Unlink(dir, name) ==
    LET i == FindInDir(disk, dir, name)
    IN  /\ i # 0
        /\ disk.inode[i].mode = "dir" => disk.inode[i].size <= 2
        /\ Ends("unlink", UnlinkOp(Perform0, dir, name))

Rename(dir, name, newdir, newname) ==
    /\ FindInDir(disk, dir, name) # 0
    /\ Ends("rename", RenameOp(Perform0, dir, name, newdir, newname))

\* A link opens as a file too: ufs_vfs_lookup only tells directories apart.
\* Environment: a write starts at or before the end of the file.
WriteFile(dir, name, off, n) ==
    LET i == FindInDir(disk, dir, name)
    IN  /\ i # 0
        /\ disk.inode[i].mode # "dir"
        /\ off <= disk.inode[i].size
        /\ off + n <= MaxFile
        /\ Ends("write", WriteOp(Perform0, i, off, n))

\* ufs_vfs_unmount writes the superblock; the mount starts the cursors anew.
Remount ==
    /\ disk' = WriteSuperblock(Perform0).disk
    /\ ram' = Mounted(disk')
    /\ UNCHANGED <<crashes, freed>>

(***************************************************************************)
(* A freshly formatted (ufs_vfs_format) and mounted device.                *)
(***************************************************************************)
Formatted ==
    [bitmap |-> {1},
     inode  |-> [i \in Inodes |->
                   IF i = Root
                     THEN [mode |-> "dir", size |-> 2,
                           ext |-> <<[start |-> 1, len |-> 1]>>]
                     ELSE FreeMark],
     data   |-> [b \in Blocks |-> IF b = 1 THEN DirBlock(Root, Root) ELSE ZeroBlock],
     free   |-> NBlocks - 1,
     ifree  |-> NInodes - 1]

Init ==
    /\ disk = Formatted
    /\ ram = Mounted(Formatted)
    /\ crashes = 0
    /\ freed = FALSE

Next ==
    \/ \E dir \in Dirs, name \in Names : Create(dir, name)
    \/ \E dir \in Dirs, name \in Names : Mkdir(dir, name)
    \/ \E dir \in Dirs, name \in Names : Symlink(dir, name)
    \/ \E dir \in Dirs, name \in Names : Unlink(dir, name)
    \/ \E dir, newdir \in Dirs, name, newname \in Names :
         Rename(dir, name, newdir, newname)
    \/ \E dir \in Dirs, name \in Names, off \in 0..MaxFile, n \in 1..MaxWrite :
         WriteFile(dir, name, off, n)
    \/ Remount

Spec == Init /\ [][Next]_vars

(***************************************************************************)
(* Properties.                                                             *)
(***************************************************************************)
InUse == {i \in Inodes : disk.inode[i].mode # "free"}
BlocksOf(i) == Range(BlockList(disk.inode[i]))
NamedEntries(dir) ==
    {<<b, j>> \in BlocksOf(dir) \X (1..EPB) :
        disk.data[b].ents[j].ino # 0 /\ disk.data[b].ents[j].name \in Names}
AllEntries(dir) ==
    {<<b, j>> \in BlocksOf(dir) \X (1..EPB) : disk.data[b].ents[j].ino # 0}

(* No data block belongs to two inodes, or twice to one, and every block   *)
(* of an inode is marked used: ufs_alloc_block can never hand out a block  *)
(* that holds somebody's data.  Also on every image a power failure can    *)
(* leave, because the bitmap is written before the inode.                  *)
BlocksOwned ==
    /\ \A i, j \in InUse : i # j => BlocksOf(i) \cap BlocksOf(j) = {}
    /\ \A i \in InUse : /\ Cardinality(BlocksOf(i)) = Len(BlockList(disk.inode[i]))
                        /\ BlocksOf(i) \subseteq disk.bitmap

(* Every name in a directory leads to an allocated inode, and no two names *)
(* lead to the same one, so that unlink never frees what another name      *)
(* still uses; in a directory of one block, what readdir reports of a name *)
(* is what stat reports of the inode a lookup of that name finds.  Also    *)
(* after a power failure in any operation but unlink.                      *)
EntriesSound ==
    LET dirs == {dir \in InUse : disk.inode[dir].mode = "dir"}
        places == {<<dir, e>> \in dirs \X (Blocks \X (1..EPB)) : e \in NamedEntries(dir)}
        target(p) == disk.data[p[2][1]].ents[p[2][2]].ino
    IN  /\ \A p \in places : target(p) \in InUse
        /\ \A p, q \in places : target(p) = target(q) => p = q
        /\ \A dir \in dirs : Cardinality(BlocksOf(dir)) = 1 =>
              \A e \in Range(ReaddirOp(disk, dir, EPB)) :
                 /\ FindInDir(disk, dir, e.name) # 0
                 /\ e.st = StatOp(disk, FindInDir(disk, dir, e.name))

(* Without a power failure nothing is lost: the blocks marked used are     *)
(* exactly those of the inodes in use (append and write give a block back  *)
(* when its extent does not fit), and the superblock's two counters, on    *)
(* disk and in memory, count what the bitmap and the inode table hold. A   *)
(* directory's size counts its entries, which is what ufs_vfs_unlink goes  *)
(* by to refuse a directory that is not empty.                             *)
AccountingExact ==
    crashes = 0 =>
      /\ disk.bitmap = UNION {BlocksOf(i) : i \in InUse}
      /\ disk.free = Cardinality(Blocks \ disk.bitmap)
      /\ disk.ifree = Cardinality(Inodes \ InUse)
      /\ ram.free = disk.free /\ ram.ifree = disk.ifree
      /\ \A i \in InUse : disk.inode[i].mode = "dir" =>
            disk.inode[i].size = Cardinality(AllEntries(i))

(* A read of any part of a file gives what was last written at that       *)
(* offset, as far as the file reaches, and a link gives its target         *)
(* (README: "native file system, read and write").                         *)
ReadBack ==
    \A i \in InUse : disk.inode[i].mode # "dir" =>
      /\ \A off \in 0..MaxFile, n \in 1..MaxFile :
           ReadOp(disk, i, off, n) =
             [k \in 1..(Min({n, disk.inode[i].size - off})) |-> <<i, off + k>>]
      /\ disk.inode[i].mode = "link" => ReadlinkOp(disk, i) = <<i, 1>>

(* The same as long as no block has been freed on the device, power        *)
(* failures included: with nothing freed, the blocks a file gets follow    *)
(* each other, and ufs_append_block never extends an earlier extent.       *)
ReadBackUntilFreed == ~freed => ReadBack
============================================================================
