----------------------------- MODULE MCStorage ------------------------------
(***************************************************************************)
(* Files and disks for TLC, in scenarios that share no state: "names", one *)
(* process that names files; "fds", two that share and inherit             *)
(* descriptors; "walk", a directory read while it changes; "bytes", the    *)
(* contents of a ramfs file; "fat", a FAT32 volume that is read; "editor", *)
(* a text edited and saved.                                                *)
(***************************************************************************)
EXTENDS Files, RamFile, Fat, Editor, TLC

VARIABLE which

Abs(name) == [abs |-> TRUE, comps |-> <<name>>]

Rel(name) == [abs |-> FALSE, comps |-> <<name>>]

MCCard == Abs("card0")

MCPaths == {Abs("b"), Rel("c"), [abs |-> TRUE, comps |-> <<"b", "c">>]}

MCOpenPaths == {Abs("a"), MCCard}

MCDirPaths == {Abs("b"), Rel("..")}

MCTargets == {Abs("b"), [abs |-> FALSE, comps |-> <<"..", "c">>]}

MCFlags == {{"trunc"}, {"creat", "append"}}

MCMountPoints == {<<>>, <<"c">>}

\* The root directory has tmp and up to two more entries.
WalkStep ==
    \/ WalkCall(First)
    \/ Open(First, Abs(""), {})
    \/ \E f \in Fds : Close(First, f) \/ Lseek(First, f, 0, 0)
    \/ \E name \in {"a", "b", "c"} :
         \/ Mkdir(First, Abs(name)) \/ Rmdir(First, Abs(name))
         \/ \E new \in {"a", "b", "c"} : Rename(First, Abs(name), Abs(new))

\* The root directory is clusters 2 and 6, the file a 3, 5 and 4, the file b 8
\* and the directory d 7; a's size ends inside a cluster, at its end, or is 0.
MCVolumes ==
    {[fat |-> (2 :> 6) @@ (3 :> 5) @@ (4 :> 0) @@ (5 :> 4) @@ (6 :> 0)
                @@ (7 :> 0) @@ (8 :> 0),
      root |-> 2,
      dir |-> (0 :> first) @@ (1 :> <<"long", "a">>) @@ (8 :> last)
                @@ (10 :> <<"b", "end">>),
      node |-> [a |-> [type |-> "file", cluster |-> IF n = 0 THEN 0 ELSE 3,
                       size |-> n],
                b |-> [type |-> "file", cluster |-> 8, size |-> 3],
                d |-> [type |-> "dir", cluster |-> 7, size |-> 0]]] :
       first \in {<<"free", "d">>, <<"d", "long">>, <<"free", "free">>},
       last \in {<<"b", "end">>, <<"end", "end">>},
       n \in {0, 4, 9, 12}}

\* An empty line, a full one, and one character more than load_file reads.
MCTexts == {<<"b", "nl", "nl", "c", "b", "b">>}

\* The children use what they inherit.
ChildCall ==
    \E p \in Procs \ {First} :
        \/ \E f \in Fds : Close(p, f) \/ Read(p, f, 1) \/ Write(p, f, 1)
        \/ Exit(p)

FilesStep ==
    \/ which = "names" /\ NameCall(First)
    \/ which = "fds" /\ (FileCall(First) \/ ChildCall \/ Unlink(First, Abs("a")))
    \/ which = "walk" /\ WalkStep

\* Only the component that is run has several initial states.
MCInit ==
    /\ Init /\ RInit /\ FInit /\ EdInit
    /\ which \in {"names", "fds", "walk", "bytes", "fat", "editor"}
    /\ which = "fat" \/ vol = CHOOSE v \in MCVolumes : TRUE

MCNext ==
    \/ FilesStep /\ UNCHANGED <<rvars, fvars, edvars, which>>
    \/ which = "bytes" /\ RNext /\ UNCHANGED <<vars, fvars, edvars, which>>
    \/ which = "fat" /\ FNext /\ UNCHANGED <<vars, rvars, edvars, which>>
    \/ which = "editor" /\ EdNext /\ UNCHANGED <<vars, rvars, fvars, which>>

MCSpec == MCInit /\ [][MCNext]_<<vars, rvars, fvars, edvars, which>>

\* What the last call returned decides nothing.
MCView == <<node, mounts, cwd, fds, root, live, trashed, walk, rvars, fvars, edvars,
            which>>
=============================================================================
