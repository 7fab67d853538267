----------------------------- MODULE MCPrograms -----------------------------
(***************************************************************************)
(* Memory, the screen and the programs that use them, for TLC, in          *)
(* scenarios that share no state: "kheap", the kernel's heap; "pages", the *)
(* address spaces of two processes; "heap", the allocator of one;          *)
(* "library", calls of the C library; "compiled", a program cc has         *)
(* translated; "screen", what is written to the console; "gpu", the virtio *)
(* adapter that shows it; "drm", the buffers of programs that draw.        *)
(***************************************************************************)
EXTENDS KHeap, AddrSpace, UserHeap, Libc, CcRun, Console, VirtioGpu, Drm

CONSTANT MaxCalls  \* bound: system calls that change memory

VARIABLES which, calls

Scenarios == {"kheap", "pages", "heap", "library", "compiled", "screen",
              "gpu", "drm"}

\* The kernel's heap, scaled down to two-byte alignment and headers: one region
\* that starts aligned or not, two apart or adjacent in either order, one of
\* them too small to be used.
MCLayouts == {<< <<0, 24>> >>, << <<1, 21>> >>,
              << <<0, 12>>, <<14, 11>> >>, << <<12, 10>>, <<0, 12>> >>,
              << <<0, 12>>, <<12, 12>> >>, << <<0, 3>>, <<4, 16>> >>}

MCBoot == <<1, 2>>

MCScreens == {<<2, 1>>}

\* Pictures of one and two units of memory, and a mode no buffer is made for.
MCPictures == {<<1, 1>>, <<2, 1>>}

MCBootPicture == <<2, 1>>

MCGpuPicture == <<1, 1>>

MCPresets == {<<1, 1>>, <<2, 1>>, <<3, 1>>}

-----------------------------------------------------------------------------
(* Arguments of the library calls.                                         *)

Lists(S, n) == UNION {[1 .. k -> S] : k \in 0 .. n}

\* From 1970; around the end of 1999, a leap century; and of a year that would
\* be one by the rule for every fourth, 2100.
MCDays == 0 .. 800 \union 10950 .. 11330 \union 47530 .. 47570

MCNumerals == Lists({" ", "-", "0", "1", "9", "x", "f"}, 4)

MCArguments ==
    Lists({<<"v">>, <<"-">>, <<"-", "-">>, <<"-", "a">>, <<"-", "b">>,
           <<"-", "a", "b">>, <<"-", "b", "a">>, <<"-", "z", "a">>}, 3)

MCTables == {t \in Lists(0 .. 4, 4) : \A i \in 1 .. Len(t) - 1 : t[i] <= t[i + 1]}

MCArrays == Lists(0 .. 3, 4)

MCWords == Lists({"x", "-"}, 2)

MCFileTexts == Lists({"x", "nl"}, 3)

MCPrecisions == {-1, 0, 3}

-----------------------------------------------------------------------------
(* Programs for cc.                                                        *)

CcOps == {"+", "-", "*", "/", "%", "<", ">", "<=", ">=", "==", "!="}

CcLogic == {"&&", "||"}

CcPieces == {"nop", "brk", "cont", "ret", "for", "while"}

CcSource(fams, as, bs, ns, firsts) ==
    [fam : fams, a : as, b : bs, n : ns, first : firsts]

MCSources ==
    UNION {CcSource({"expr"}, CcOps, CcOps, 1 .. 2, {"f"}),
           CcSource({"if", "not"}, CcOps \union CcLogic, CcLogic, {1}, {"main"}),
           CcSource({"if", "not"}, CcLogic, CcOps \union CcLogic, {2}, {"f"}),
           CcSource({"while"}, CcPieces, CcPieces, {1}, {"f"}),
           CcSource({"for"}, CcPieces, CcPieces, 1 .. 3, {"main"}),
           CcSource({"call"}, CcOps, {"+"}, 1 .. 2, {"f", "main"}),
           CcSource({"decl"}, CcOps, {"+"}, {1}, {"f"})}

-----------------------------------------------------------------------------
\* The state of everything but the scenario's own component.
Others(s) ==
    /\ s # "kheap" => UNCHANGED vars
    /\ s # "pages" => UNCHANGED <<avars, calls>>
    /\ s # "heap" => UNCHANGED hvars
    /\ s # "library" => UNCHANGED call
    /\ s # "compiled" => UNCHANGED cvars
    /\ s # "screen" => UNCHANGED convars
    /\ s # "gpu" => UNCHANGED vgvars
    /\ s # "drm" => UNCHANGED drmvars
    /\ UNCHANGED which

\* Only the component that runs has several initial states.
MCInit ==
    /\ which \in Scenarios
    /\ IF which = "compiled" THEN CInit
       ELSE /\ parser = ParserInit(<<>>) /\ units = <<>> /\ gen = CodegenInit /\ code = <<<<"none">>>>
            /\ cpu = Regs0 /\ mem = <<>> /\ want = 0
    /\ Init /\ ConInit /\ AInit /\ HInit /\ LInit /\ calls = 0
    /\ VgInit /\ DrmInit
    /\ which = "kheap" \/ regions = CHOOSE r \in Layouts : TRUE
    /\ which = "drm" \/ i915 = FALSE

MCNext ==
    \/ which = "kheap" /\ Next /\ Others("kheap")
    \/ /\ which = "pages" /\ calls < MaxCalls /\ calls' = calls + 1
       /\ ANext /\ Others("pages")
    \/ which = "heap" /\ HNext /\ Others("heap")
    \/ which = "library" /\ LNext /\ Others("library")
    \/ which = "compiled" /\ CNext /\ Others("compiled")
    \/ which = "screen" /\ ConNext /\ Others("screen")
    \/ which = "gpu" /\ VgNext /\ Others("gpu")
    \/ which = "drm" /\ DrmNext /\ Others("drm")

MCSpec ==
    MCInit /\ [][MCNext]_<<vars, avars, hvars, call, cvars, convars, vgvars, drmvars,
                           calls, which>>

\* The kernel's heap implements the abstract one: what kmalloc and kfree do is a
\* step of KHeapAbs, or none, and with it the theorems of KernelProofs hold of
\* the kernel's heap.
HeapImplementsAbs == Abs!HeapInit /\ [][which = "kheap" => Abs!HeapNext]_(Abs!heapvars)
=============================================================================
