-------------------------------- MODULE Vfs ---------------------------------
(***************************************************************************)
(* The node tree of kernel/core/vfs.c: ramfs, the mount table and path     *)
(* resolution. Every operation is a function from the node table to        *)
(* [n |-> the new table, ok |-> whether the call returns 0]. Files makes    *)
(* them system calls.                                                      *)
(*                                                                         *)
(* A path is [abs |-> it starts with "/", comps |-> what lies between the  *)
(* slashes]: "/" is <<"">>, "/a" is <<"a">>, "/a/" is <<"a", "">>.         *)
(***************************************************************************)
EXTENDS Integers, Sequences, SequencesExt, FiniteSets, FiniteSetsExt

CONSTANTS NNodes,   \* vfs_node_t structures the heap has room for
          NMounts   \* VFS_MAX_MOUNTS

Slots == 1 .. NNodes

Null == 0

NoLink == [abs |-> FALSE, comps |-> <<>>]

\* A vfs_node_t. Contents are RamFile's concern, only the size is kept here;
\* refcount is left out: it is counted and never read.
FreeNode == [type |-> "free", name |-> "", parent |-> Null, kids |-> <<>>,
             size |-> 0, link |-> NoLink]

NoMount == [used |-> FALSE, path |-> <<>>, root |-> Null]

Live(n) == {s \in Slots : n[s].type # "free"}

Fail(n) == [n |-> n, ok |-> FALSE]

Done(n) == [n |-> n, ok |-> TRUE]

-----------------------------------------------------------------------------
(* ramfs: children are a list, new ones are pushed at its head.            *)

FindChild(n, d, name) ==
    LET hits == {i \in DOMAIN n[d].kids : n[n[d].kids[i]].name = name}
    IN  IF n[d].type # "dir" \/ hits = {} THEN Null ELSE n[d].kids[Min(hits)]

\* Faulty variant: the parent pointer stays what it was.
AddChildKeepsParent(n, d, c) ==
    [n EXCEPT ![d].kids = <<c>> \o @]

AddChild(n, d, c) ==
    [n EXCEPT ![c].parent = d, ![d].kids = <<c>> \o @]

RemoveChild(n, d, c) ==
    [n EXCEPT ![d].kids = Remove(@, c), ![c].parent = Null]

\* Everything ramfs_free_node visits when called on c.
Below(n, c) ==
    LET grow[k \in 0 .. NNodes] ==
            IF k = 0 THEN {c}
            ELSE LET g == grow[k - 1] IN g \union UNION {ToSet(n[s].kids) : s \in g}
    IN  grow[NNodes]

FreeNodes(n, c) ==
    LET gone == Below(n, c)
    IN  [s \in Slots |-> IF s \in gone THEN FreeNode ELSE n[s]]

\* The place kmalloc gives vfs_create_node, if it has room.
Room(n) == Slots \ Live(n)

\* vfs_create_node.
CreateNode(n, s, name, type) ==
    [n EXCEPT ![s] = [FreeNode EXCEPT !.type = type, !.name = name]]

\* ramfs_create and ramfs_mkdir.
NewChild(n, d, name, type) ==
    IF n[d].type # "dir" \/ FindChild(n, d, name) # Null \/ Room(n) = {} THEN Fail(n)
    ELSE Done(AddChild(CreateNode(n, Min(Room(n)), name, type), d, Min(Room(n))))

RamfsSymlink(n, d, name, target) ==
    LET r == NewChild(n, d, name, "link")
    IN  IF r.ok THEN Done([r.n EXCEPT ![Min(Room(n))].link = target]) ELSE r

\* ramfs_lookup. It makes the directory the child's parent, as TreeSound says it is.
RamfsLookup(n, d, name) == FindChild(n, d, name)

RamfsReadlink(n, s) == IF n[s].type = "link" THEN n[s].link ELSE NoLink

RamfsStat(n, s) == [dir |-> n[s].type = "dir", size |-> n[s].size]

RamfsMount(n, s) == CreateNode(n, s, "", "dir")

\* Faulty variant: a directory with entries is taken out before it is refused.
RamfsUnlinkDetachesFirst(n, d, name) ==
    LET c == FindChild(n, d, name)
    IN  IF c = Null THEN Fail(n)
        ELSE LET m == RemoveChild(n, d, c)
             IN  IF n[c].type = "dir" /\ n[c].kids # <<>> THEN Fail(m)
                 ELSE Done(FreeNodes(m, c))

RamfsUnlink(n, d, name) ==
    LET c == FindChild(n, d, name)
    IN  IF c = Null \/ (n[c].type = "dir" /\ n[c].kids # <<>>) THEN Fail(n)
        ELSE Done(FreeNodes(RemoveChild(n, d, c), c))

\* The name that is replaced goes first. When it is the one to be renamed, it
\* is gone before ramfs_remove_child looks for it again, and the call fails.
RamfsRename(n, od, oname, nd, nname) ==
    LET c == FindChild(n, od, oname)
        old == FindChild(n, nd, nname)
        m == IF old = Null THEN n ELSE FreeNodes(RemoveChild(n, nd, old), old)
    IN  IF c = Null \/ (old # Null /\ n[old].type = "dir" /\ n[old].kids # <<>>)
        THEN Fail(n)
        ELSE IF c \notin ToSet(m[od].kids) THEN Fail(m)
        ELSE Done(AddChild([RemoveChild(m, od, c) EXCEPT ![c].name = nname],
                           nd, c))

-----------------------------------------------------------------------------
(* Paths.                                                                  *)

\* make_absolute_path; dir is the current directory, normalised.
Absolute(dir, path) == IF path.abs THEN path.comps ELSE dir \o path.comps

\* normalize_path of system call chdir and chroot: by the letters alone.
Normalize(comps) ==
    FoldLeft(LAMBDA out, c : IF c = ".." THEN SubSeq(out, 1, Len(out) - 1)
                             ELSE IF c \in {"", "."} THEN out
                             ELSE Append(out, c),
             <<>>, comps)

\* find_mount: the longest mounted prefix.
FindMount(m, comps) ==
    LET hits == {i \in 1 .. NMounts : m[i].used /\ IsPrefix(m[i].path, comps)}
    IN  IF hits = {} THEN 0
        ELSE CHOOSE i \in hits : \A j \in hits : Len(m[j].path) <= Len(m[i].path)

\* One component of resolve_path_internal. ".." is the node's parent, and a
\* mount root has none. Links are not followed.
Step(n, s, c) ==
    IF s = Null \/ c \in {"", "."} THEN s
    ELSE IF c = ".." THEN IF n[s].parent # Null THEN n[s].parent ELSE s
    ELSE RamfsLookup(n, s, c)

\* The steps from node s along comps.
Along(n, s, comps) ==
    LET at[k \in 0 .. Len(comps)] ==
            IF k = 0 THEN s ELSE LET d == at[k - 1] IN Step(n, d, comps[k])
    IN  at[Len(comps)]

\* resolve_path_internal of an absolute path, the chroot prefix included.
Resolve(n, m, comps) ==
    LET i == FindMount(m, comps)
    IN  IF i = 0 THEN Null
        ELSE Along(n, m[i].root, SubSeq(comps, Len(m[i].path) + 1, Len(comps)))

IsDir(n, s) == s # Null /\ n[s].type = "dir"

-----------------------------------------------------------------------------
(* The vfs_* operations. root is the caller's chroot prefix, comps the     *)
(* absolute path; split_path takes the last component off.                 *)

Dir(n, m, root, comps) == Resolve(n, m, root \o Front(comps))

VfsMkdir(n, m, root, comps) ==
    LET d == Dir(n, m, root, comps)
    IN  IF IsDir(n, d) THEN NewChild(n, d, Last(comps), "dir") ELSE Fail(n)

VfsSymlink(n, m, root, comps, target) ==
    LET d == Dir(n, m, root, comps)
    IN  IF IsDir(n, d) THEN RamfsSymlink(n, d, Last(comps), target) ELSE Fail(n)

VfsReadlink(n, m, root, comps) ==
    LET s == Resolve(n, m, root \o comps)
    IN  IF s = Null THEN NoLink ELSE RamfsReadlink(n, s)

VfsUnlink(n, m, root, comps) ==
    LET d == Dir(n, m, root, comps)
    IN  IF IsDir(n, d) THEN RamfsUnlink(n, d, Last(comps)) ELSE Fail(n)

VfsRmdir(n, m, root, comps) ==
    IF IsDir(n, Resolve(n, m, root \o comps)) THEN VfsUnlink(n, m, root, comps)
    ELSE Fail(n)

VfsRename(n, m, root, old, new) ==
    LET od == Dir(n, m, root, old)
        nd == Dir(n, m, root, new)
    IN  IF IsDir(n, od) /\ IsDir(n, nd)
        THEN RamfsRename(n, od, Last(old), nd, Last(new))
        ELSE Fail(n)

\* The node of a successful open, after truncation or creation; no slot when
\* it fails.
VfsOpen(n, m, root, comps, flags) ==
    LET s == Resolve(n, m, root \o comps)
        d == Dir(n, m, root, comps)
        made == IF IsDir(n, d) THEN NewChild(n, d, Last(comps), "file") ELSE Fail(n)
    IN  IF s # Null
        THEN [n |-> IF "trunc" \in flags /\ n[s].type = "file"
                    THEN [n EXCEPT ![s].size = 0] ELSE n,
              s |-> s]
        ELSE IF "creat" \in flags /\ made.ok
        THEN [n |-> made.n,
              s |-> RamfsLookup(made.n, d, Last(comps))]
        ELSE [n |-> n, s |-> Null]

VfsStat(n, s) == RamfsStat(n, s)

\* vfs_mount_fs of a ramfs: a new root, the old tree of that mount point
\* freed, else the first free place of the table.
VfsMount(n, m, point) ==
    LET r == Min(Room(n))
        same == {i \in 1 .. NMounts : m[i].used /\ m[i].path = point}
        open == {i \in 1 .. NMounts : ~m[i].used}
        i == IF same # {} THEN Max(same) ELSE Min(open)
        k == IF same # {} THEN FreeNodes(n, m[i].root) ELSE n
    IN  IF Room(n) = {} \/ (same = {} /\ open = {})
        THEN [n |-> n, m |-> m, ok |-> FALSE]
        ELSE [n |-> RamfsMount(k, r),
              m |-> [m EXCEPT ![i] = [used |-> TRUE, path |-> point,
                                      root |-> r]],
              ok |-> TRUE]

VfsUnmount(n, m, point) ==
    LET same == {i \in 1 .. NMounts : m[i].used /\ m[i].path = point}
        i == Max(same)
    IN  IF same = {} THEN [n |-> n, m |-> m, ok |-> FALSE]
        ELSE [n |-> FreeNodes(n, m[i].root), m |-> [m EXCEPT ![i] = NoMount],
              ok |-> TRUE]
=============================================================================
