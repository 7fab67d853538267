------------------------------- MODULE Files --------------------------------
(***************************************************************************)
(* The file system calls of kernel/core/syscall.c over the tree of Vfs: a  *)
(* descriptor table per process, copied by fork; one current directory for *)
(* all of them; directory walks by getdents64. A system call runs with     *)
(* interrupts off from entry to return, so each is one step.               *)
(*                                                                         *)
(* ramfs frees a node that is unlinked, replaced or unmounted whether or   *)
(* not a descriptor still points at it. What a call through such a         *)
(* descriptor finds in the freed memory is not modelled: it sets trashed   *)
(* and the run of the model ends there.                                    *)
(***************************************************************************)
EXTENDS Vfs

CONSTANTS Procs,      \* process slots; First is init
          First,
          Fds,        \* the descriptors in use, of 0 .. MAX_FDS - 1
          Paths,      \* the paths programs name,
          OpenPaths,  \*   open,
          DirPaths,   \*   change to
          Targets,    \*   and link to
          Flags,      \* flag sets of open
          Card,       \* "/dev/dri/card0", whose descriptor has no node
          MountPoints,
          PosMod,     \* 2^64: file positions wrap
          Offsets,    \* what lseek is given
          MaxSize,    \* bound: the largest file
          MaxDirents, \* entries getdents64 asks the file system for
          NameTmp     \* "/tmp", which vfs_init makes

VARIABLES node, mounts, cwd, fds, root, live, trashed,
          walk,     \* the directory walk that is observed
          ret       \* the last call: its name, outcome and what it returned

vars == <<node, mounts, cwd, fds, root, live, trashed, walk, ret>>

\* An fd_entry_t; stale is the observer's: the node has been freed.
Blank == [used |-> FALSE, type |-> "file", vnode |-> Null, pos |-> 0,
          append |-> FALSE, stale |-> FALSE]

Console == [Blank EXCEPT !.used = TRUE]

NoWalk == [on |-> FALSE]

\* vfs_init, and the three console descriptors of sched_create_process.
Init ==
    /\ node = [s \in Slots |->
                 CASE s = 1 -> [FreeNode EXCEPT !.type = "dir", !.kids = <<2>>]
                   [] s = 2 -> [FreeNode EXCEPT !.type = "dir", !.parent = 1,
                                                !.name = NameTmp]
                   [] OTHER -> FreeNode]
    /\ mounts = [i \in 1 .. NMounts |->
                   IF i = 1 THEN [used |-> TRUE, path |-> <<>>, root |-> 1]
                   ELSE NoMount]
    /\ cwd = <<>>
    /\ fds = [p \in Procs |-> [f \in Fds |-> IF p = First /\ f < 3
                                             THEN Console ELSE Blank]]
    /\ root = [p \in Procs |-> <<>>]
    /\ live = {First}
    /\ trashed = FALSE
    /\ walk = NoWalk
    /\ ret = [op |-> "boot", ok |-> TRUE]

-----------------------------------------------------------------------------
(* How a call ends.                                                        *)

\* The walk after the tree becomes n and the tables t: stay keeps the entries
\* that have been in the directory all the time, moved says that one of them
\* was taken out or put elsewhere in the list. It ends when its
\* descriptor changes under it.
Observed(n, t) ==
    IF ~walk.on THEN walk
    ELSE IF \/ t[walk.p][walk.f] # fds[walk.p][walk.f]
            \/ n[walk.dir].type # "dir"
    THEN NoWalk
    ELSE [walk EXCEPT !.stay = @ \intersect ToSet(n[walk.dir].kids),
                      !.moved = @ \/ ~IsSuffix(node[walk.dir].kids,
                                               n[walk.dir].kids)]

Becomes(n, m, t) ==
    /\ node' = n
    /\ mounts' = m
    /\ LET freed == Live(node) \ Live(n)
       IN  fds' = IF freed = {} THEN t
                  ELSE [p \in Procs |-> [f \in Fds |->
                          [t[p][f] EXCEPT !.stale = @ \/ t[p][f].vnode \in freed]]]
    /\ walk' = Observed(n, t)

Return(op, ok, val) == ret' = [op |-> op, ok |-> ok, val |-> val]

Failed(op) ==
    /\ Return(op, FALSE, -1)
    /\ UNCHANGED <<node, mounts, cwd, fds, root, live, trashed, walk>>

Quiet == UNCHANGED <<cwd, root, live, trashed>>

\* p is running a system call.
Calls(p) == p \in live /\ ~trashed

\* The call goes on with freed memory.
Lost ==
    /\ trashed' = TRUE
    /\ UNCHANGED <<node, mounts, cwd, fds, root, live, walk, ret>>

HasNode(p, f) == /\ fds[p][f].used /\ fds[p][f].type = "file"
                 /\ fds[p][f].vnode # Null

Node(p, f) == node[fds[p][f].vnode]

With(p, f, e) == [fds EXCEPT ![p][f] = e]

-----------------------------------------------------------------------------
(* Descriptors.                                                            *)

FreeFds(p, from) == {f \in Fds : f >= from /\ ~fds[p][f].used}

\* The descriptor of the graphics card gets no node.
Open(p, path, flags) ==
    /\ Calls(p)
    /\ LET f == Min(FreeFds(p, 3))
           r == VfsOpen(node, mounts, root[p], Absolute(cwd, path), flags)
           size == r.n[r.s].size
       IN  \/ /\ FreeFds(p, 3) = {} \/ (path # Card /\ r.s = Null)
              /\ Failed("open")
           \/ /\ FreeFds(p, 3) # {} /\ path = Card
              /\ Becomes(node, mounts,
                         With(p, f, [fds[p][f] EXCEPT !.used = TRUE, !.type = "drm"]))
              /\ Return("open", TRUE, f)
              /\ Quiet
           \/ /\ FreeFds(p, 3) # {} /\ path # Card /\ r.s # Null
              /\ Becomes(r.n, mounts,
                         With(p, f, [Blank EXCEPT !.used = TRUE, !.vnode = r.s,
                                       !.pos = IF "append" \in flags THEN size ELSE 0,
                                       !.append = "append" \in flags]))
              /\ Return("open", TRUE, f)
              /\ Quiet

\* vfs_close lowers refcount, which nothing reads.
Close(p, f) ==
    /\ Calls(p)
    /\ IF ~fds[p][f].used THEN Failed("close")
       ELSE IF HasNode(p, f) /\ fds[p][f].stale THEN Lost
       ELSE /\ Becomes(node, mounts, With(p, f, Blank))
            /\ Return("close", TRUE, 0)
            /\ Quiet

\* A read or a write of one byte. kmalloc refuses an empty buffer, so a call
\* for none fails before it looks at the file.
Read(p, f, count) ==
    /\ Calls(p)
    /\ fds[p][f].used => fds[p][f].vnode # Null \/ f # 0   \* else Console
    /\ LET e == fds[p][f]
           got == IF e.pos < node[e.vnode].size THEN 1 ELSE 0
       IN  IF ~HasNode(p, f) \/ count = 0 THEN Failed("read")
           ELSE IF e.stale THEN Lost
           ELSE IF node[e.vnode].type # "file" THEN Failed("read")
           ELSE /\ Becomes(node, mounts, With(p, f, [e EXCEPT !.pos = @ + got]))
                /\ Return("read", TRUE, got)
                /\ Quiet

\* An append moves the descriptor to the end even when the write then fails.
\* A write that ends past the last position wraps around (ramfs_write adds
\* without a check), and is followed no further.
Write(p, f, count) ==
    /\ Calls(p)
    /\ LET e == fds[p][f]
           at == IF e.append THEN node[e.vnode].size ELSE e.pos
       IN  IF e.used /\ f \in {1, 2} /\ e.vnode = Null
           THEN /\ Return("write", TRUE, count)
                /\ UNCHANGED <<node, mounts, cwd, fds, root, live, trashed, walk>>
           ELSE IF ~HasNode(p, f) \/ count = 0 THEN Failed("write")
           ELSE IF e.stale \/ (node[e.vnode].type = "file" /\ at + 1 = PosMod)
           THEN Lost
           ELSE IF node[e.vnode].type # "file"
           THEN /\ Becomes(node, mounts, With(p, f, [e EXCEPT !.pos = at]))
                /\ Return("write", FALSE, -1)
                /\ Quiet
           ELSE /\ at < MaxSize
                /\ Becomes([node EXCEPT ![e.vnode].size = Max({@, at + 1})], mounts,
                           With(p, f, [e EXCEPT !.pos = at + 1]))
                /\ Return("write", TRUE, 1)
                /\ Quiet

Lseek(p, f, offset, whence) ==
    /\ Calls(p)
    /\ LET e == fds[p][f]
           from == CASE whence = 0 -> 0 [] whence = 1 -> e.pos
                     [] whence = 2 -> node[e.vnode].size
           to == (from + offset) % PosMod
       IN  IF ~HasNode(p, f) THEN Failed("lseek")
           ELSE IF whence = 2 /\ e.stale THEN Lost
           ELSE /\ fds' = With(p, f, [e EXCEPT !.pos = to])
                /\ walk' = IF walk.on /\ walk.p = p /\ walk.f = f THEN NoWalk ELSE walk
                /\ Return("lseek", TRUE, to)
                /\ UNCHANGED <<node, mounts>>
                /\ Quiet

Dup(p, f) ==
    /\ Calls(p)
    /\ IF ~fds[p][f].used \/ FreeFds(p, 0) = {} THEN Failed("dup")
       ELSE /\ Becomes(node, mounts, With(p, Min(FreeFds(p, 0)), fds[p][f]))
            /\ Return("dup", TRUE, Min(FreeFds(p, 0)))
            /\ Quiet

\* What newfd pointed at is not closed first.
Dup2(p, f, g) ==
    /\ Calls(p)
    /\ IF ~fds[p][f].used THEN Failed("dup2")
       ELSE /\ Becomes(node, mounts, With(p, g, fds[p][f]))
            /\ Return("dup2", TRUE, g)
            /\ Quiet

Fcntl(p, f, append) ==
    /\ Calls(p)
    /\ IF ~fds[p][f].used THEN Failed("fcntl")
       ELSE /\ Becomes(node, mounts, With(p, f, [fds[p][f] EXCEPT !.append = append]))
            /\ Return("fcntl", TRUE, 0)
            /\ Quiet

-----------------------------------------------------------------------------
(* Directories.                                                            *)

Walking(p, f) == walk.on /\ walk.p = p /\ walk.f = f

\* A walk is observed from the call that starts at position 0.
Walked(p, f, got) ==
    IF Walking(p, f) THEN [walk EXCEPT !.seen = @ \union got]
    ELSE IF ~walk.on /\ fds[p][f].pos = 0
    THEN [on |-> TRUE, p |-> p, f |-> f, dir |-> fds[p][f].vnode, moved |-> FALSE,
          seen |-> got, stay |-> ToSet(Node(p, f).kids)]
    ELSE walk

\* vfs_readdir into the kernel's buffer.
Listed(p, f) == SubSeq(Node(p, f).kids, 1, Min({Len(Node(p, f).kids), MaxDirents}))

\* Faulty variant: the entry that did not fit is passed over.
GetdentsSkips(p, f, room) ==
    /\ Calls(p)
    /\ HasNode(p, f) /\ ~fds[p][f].stale /\ Node(p, f).type = "dir"
    /\ LET e == fds[p][f]
           list == Listed(p, f)
           next == Min({e.pos + room, Len(list)})
       IN  IF e.pos >= Len(list)
           THEN /\ walk' = IF Walking(p, f) THEN NoWalk ELSE walk
                /\ Return("getdents", TRUE, 0)
                /\ UNCHANGED <<node, mounts, fds>>
                /\ Quiet
           ELSE /\ room > 0
                /\ fds' = With(p, f, [e EXCEPT !.pos = next + 1])
                /\ walk' = Walked(p, f, ToSet(SubSeq(list, e.pos + 1, next)))
                /\ Return("getdents", TRUE, next - e.pos)
                /\ UNCHANGED <<node, mounts>>
                /\ Quiet

\* getdents64 into a buffer with room for that many entries. The position of
\* the descriptor is an index into the list as it is now.
Getdents(p, f, room) ==
    /\ Calls(p)
    /\ LET e == fds[p][f]
           list == Listed(p, f)
           next == Min({e.pos + room, Len(list)})
       IN  IF ~HasNode(p, f) THEN Failed("getdents")
           ELSE IF e.stale THEN Lost
           ELSE IF \/ Node(p, f).type # "dir"
                   \/ (e.pos < Len(list) /\ room = 0) THEN Failed("getdents")
           ELSE IF e.pos >= Len(list)
           THEN /\ walk' = IF Walking(p, f) THEN NoWalk ELSE walk
                /\ Return("getdents", TRUE, 0)
                /\ UNCHANGED <<node, mounts, fds>>
                /\ Quiet
           ELSE /\ fds' = With(p, f, [e EXCEPT !.pos = next])
                /\ walk' = Walked(p, f, ToSet(SubSeq(list, e.pos + 1, next)))
                /\ Return("getdents", TRUE, next - e.pos)
                /\ UNCHANGED <<node, mounts>>
                /\ Quiet

-----------------------------------------------------------------------------
(* Names. Each of these ends in a vfs_* call whose outcome is r.           *)

Does(op, r) ==
    /\ Becomes(r.n, mounts, fds)
    /\ Return(op, r.ok, IF r.ok THEN 0 ELSE -1)
    /\ Quiet

Mkdir(p, path) ==
    /\ Calls(p)
    /\ Does("mkdir", VfsMkdir(node, mounts, root[p], Absolute(cwd, path)))

Symlink(p, target, path) ==
    /\ Calls(p)
    /\ Does("symlink", VfsSymlink(node, mounts, root[p], Absolute(cwd, path), target))

Unlink(p, path) ==
    /\ Calls(p)
    /\ Does("unlink", VfsUnlink(node, mounts, root[p], Absolute(cwd, path)))

Rmdir(p, path) ==
    /\ Calls(p)
    /\ Does("rmdir", VfsRmdir(node, mounts, root[p], Absolute(cwd, path)))

Rename(p, old, new) ==
    /\ Calls(p)
    /\ LET o == Absolute(cwd, old)
           w == Absolute(cwd, new)
           r == VfsRename(node, mounts, root[p], o, w)
       IN  /\ Becomes(r.n, mounts, fds)
           /\ Return(IF /\ Last(o) = Last(w)
                        /\ Dir(node, mounts, root[p], o) = Dir(node, mounts, root[p], w)
                     THEN "rename to itself" ELSE "rename",
                     r.ok, IF r.ok THEN 0 ELSE -1)
           /\ Quiet

\* The current directory belongs to no process, and is kept as a path.
Chdir(p, path) ==
    /\ Calls(p)
    /\ LET to == Normalize(Absolute(cwd, path))
       IN  IF IsDir(node, Resolve(node, mounts, root[p] \o to))
           THEN /\ cwd' = to
                /\ Return("chdir", TRUE, 0)
                /\ UNCHANGED <<node, mounts, fds, root, live, trashed, walk>>
           ELSE Failed("chdir")

\* vfs_isdir puts the old root before a path that has it already.
Chroot(p, path) ==
    /\ Calls(p)
    /\ LET to == Normalize(root[p] \o Absolute(cwd, path))
       IN  IF IsDir(node, Resolve(node, mounts, root[p] \o to))
           THEN /\ root' = [root EXCEPT ![p] = to]
                /\ cwd' = <<>>
                /\ Return("chroot", TRUE, 0)
                /\ UNCHANGED <<node, mounts, fds, live, trashed, walk>>
           ELSE Failed("chroot")

\* sys_partition_mount with file system "ramfs"; the mount point need not exist.
Mount(p, point) ==
    /\ Calls(p)
    /\ LET r == VfsMount(node, mounts, point)
       IN  IF r.ok THEN /\ Becomes(r.n, r.m, fds)
                        /\ cwd' = IF point = <<>> THEN <<>> ELSE cwd
                        /\ Return("mount", TRUE, 0)
                        /\ UNCHANGED <<root, live, trashed>>
           ELSE Failed("mount")

\* sys_partition_umount takes no argument.
Umount(p) ==
    /\ Calls(p)
    /\ LET r == VfsUnmount(node, mounts, <<>>)
       IN  IF r.ok THEN /\ Becomes(r.n, r.m, fds)
                        /\ Return("umount", TRUE, 0)
                        /\ Quiet
           ELSE Failed("umount")

-----------------------------------------------------------------------------
(* Calls that only look.                                                   *)

\* sys_stat and sys_fstat; the descriptor of a console or a device has no file.
NoStat == [dir |-> FALSE, size |-> -1]

Stat(p, path) ==
    LET s == Resolve(node, mounts, root[p] \o Absolute(cwd, path))
    IN  IF s = Null THEN NoStat ELSE VfsStat(node, s)

Fstat(p, f) == IF HasNode(p, f) THEN VfsStat(node, fds[p][f].vnode) ELSE NoStat

Readlink(p, path) == VfsReadlink(node, mounts, root[p], Absolute(cwd, path))

ExecLinks == 8

\* Faulty variant: the link's own name stays in front of a relative target.
LinkedBelow(path, target) ==
    IF target.abs THEN target ELSE [abs |-> TRUE, comps |-> path.comps \o target.comps]

\* sys_exec, one turn: the target of a link in place of its name. A link named
\* without a slash counts as one of the root directory.
Linked(path, target) ==
    IF target.abs THEN target
    ELSE [abs |-> path.abs \/ Len(path.comps) = 1, comps |-> Front(path.comps) \o target.comps]

\* The path of the file it reads, after eight links at most.
ExecPath(p, path) ==
    LET at[k \in 0 .. ExecLinks] ==
            IF k = 0 THEN path
            ELSE LET name == at[k - 1]
                     to == Readlink(p, name)
                 IN  IF to = NoLink THEN name ELSE Linked(name, to)
    IN  at[ExecLinks]

\* vfs_read_entire: the node of that file.
ExecNode(p, path) ==
    VfsOpen(node, mounts, root[p], Absolute(cwd, ExecPath(p, path)), {}).s

-----------------------------------------------------------------------------
(* Processes: sched_fork copies the table and the root. The table of a      *)
(* process that is gone is never read, and is forgotten here.               *)

Fork(p, c) ==
    /\ Calls(p) /\ c \notin live
    /\ live' = live \union {c}
    /\ fds' = [fds EXCEPT ![c] = fds[p]]
    /\ root' = [root EXCEPT ![c] = root[p]]
    /\ Return("fork", TRUE, 0)
    /\ UNCHANGED <<node, mounts, cwd, trashed, walk>>

Exit(p) ==
    /\ Calls(p) /\ p # First
    /\ live' = live \ {p}
    /\ fds' = [fds EXCEPT ![p] = [f \in Fds |-> Blank]]
    /\ root' = [root EXCEPT ![p] = <<>>]
    /\ walk' = IF walk.on /\ walk.p = p THEN NoWalk ELSE walk
    /\ Return("exit", TRUE, 0)
    /\ UNCHANGED <<node, mounts, cwd, trashed>>

NameCall(p) ==
    \/ \E path \in Paths :
         \/ Mkdir(p, path)
         \/ \E target \in Targets : Symlink(p, target, path)
         \/ Unlink(p, path)
         \/ Rmdir(p, path)
         \/ \E new \in Paths : Rename(p, path, new)
    \/ \E path \in DirPaths : Chdir(p, path) \/ Chroot(p, path)
    \/ \E point \in MountPoints : Mount(p, point)
    \/ Umount(p)

FileCall(p) ==
    \/ \E path \in OpenPaths, flags \in Flags :
           Open(p, path, flags)
    \/ \E f \in Fds :
         \/ Close(p, f)
         \/ \E count \in {0, 1} : Read(p, f, count) \/ Write(p, f, count)
         \/ \E offset \in Offsets, whence \in {0, 1, 2} : Lseek(p, f, offset, whence)
         \/ Dup(p, f)
         \/ \E g \in Fds : Dup2(p, f, g)
         \/ \E append \in BOOLEAN : Fcntl(p, f, append)
    \/ \E c \in Procs : Fork(p, c)
    \/ Exit(p)

WalkCall(p) == \E f \in Fds, room \in 0 .. 2 : Getdents(p, f, room)

Next == \E p \in Procs : NameCall(p) \/ FileCall(p) \/ WalkCall(p)

Spec == Init /\ [][Next]_vars

-----------------------------------------------------------------------------
(* Properties.                                                             *)

\* Lists of entries and parent pointers agree through every sequence of calls: an
\* entry is in one directory's list, once; its parent pointer names that
\* directory; no two entries of a directory share a name; and a node no list
\* holds is the root of a mount (ramfs_add_child, ramfs_remove_child,
\* ramfs_rename, mount and unmount). Nothing says that every node is below a
\* root: ramfs_rename lets a directory become an entry of itself.
TreeSound ==
    /\ \A d \in Live(node) :
         LET k == node[d].kids
         IN  /\ \A i, j \in DOMAIN k : i # j => node[k[i]].name # node[k[j]].name
             /\ \A i \in DOMAIN k : k[i] \in Live(node) /\ node[k[i]].parent = d
    /\ \A s \in Live(node) :
         IF node[s].parent = Null
         THEN \E i \in 1 .. NMounts : mounts[i].used /\ mounts[i].root = s
         ELSE s \in ToSet(node[node[s].parent].kids)

\* The links of the tree, followed node by node: each relative to the directory
\* that holds it.
Followed(p, s) ==
    LET on(k) == IF k = Null \/ node[k].type # "link" THEN k
                 ELSE IF node[k].link.abs THEN Resolve(node, mounts, root[p] \o node[k].link.comps)
                 ELSE Along(node, node[k].parent, node[k].link.comps)
        at[k \in 0 .. ExecLinks] == IF k = 0 THEN s ELSE LET prev == at[k - 1] IN on(prev)
    IN  at[ExecLinks]

\* The names from the root of a file system down to a node.
Way(s) ==
    LET up[k \in 0 .. NNodes] ==
            IF k = 0 THEN [at |-> s, names |-> <<>>]
            ELSE LET u == up[k - 1]
                 IN  IF node[u.at].parent = Null THEN u
                     ELSE [at |-> node[u.at].parent, names |-> <<node[u.at].name>> \o u.names]
    IN  up[NNodes]

\* Names lead where they should, whatever was renamed, linked, replaced or
\* mounted over before. By its path a file is the one that an open descriptor of
\* it shows (sys_stat and sys_fstat), unless the path lies below another mount. And
\* the file that sys_exec reads for an absolute path is the one at the end of the
\* links, each taken from the directory that holds it, though sys_exec replaces
\* names in the path and never looks at that directory (with one file system, as
\* a link's directory need not be the one its path leads to across mounts).
NamesLead ==
    /\ \A p \in live, f \in Fds :
         HasNode(p, f) /\ ~fds[p][f].stale =>
           LET w == Way(fds[p][f].vnode)
               i == FindMount(mounts, w.names)
           IN  i # 0 /\ mounts[i].path = <<>> /\ mounts[i].root = w.at /\ root[p] = <<>>
                 => Stat(p, [abs |-> TRUE, comps |-> w.names]) = Fstat(p, f)
    /\ Cardinality({i \in 1 .. NMounts : mounts[i].used}) = 1 =>
         \A p \in live, path \in Paths : path.abs /\ Readlink(p, path) # NoLink =>
           ExecNode(p, path) = Followed(p, Resolve(node, mounts, root[p] \o path.comps))

\* A call that returns an error has left every file system as it was. The one
\* exception is a rename of a name to itself, which deletes the file before it
\* reports that it is not there (ramfs_rename frees the target first).
FailureKeepsTree ==
    [][~ret'.ok /\ ret'.op # "rename to itself" => UNCHANGED <<node, mounts>>]_vars

\* A program that reads a directory in pieces (getdents64 until it returns 0)
\* has seen every entry that was there from its first call to its last, however
\* the reads interleave with others that create entries, as long as none was
\* taken out or moved and the kernel's buffer holds the whole directory.
WalkComplete ==
    [][\A p \in Procs, f \in Fds :
         /\ Walking(p, f) /\ ~walk'.on
         /\ ret'.op = "getdents" /\ ret'.ok /\ ret'.val = 0
         /\ ~walk.moved /\ Len(node[walk.dir].kids) <= MaxDirents
         => walk.stay \subseteq walk.seen]_vars
=============================================================================
