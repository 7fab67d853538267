------------------------------ MODULE AddrSpace -----------------------------
(***************************************************************************)
(* User address spaces: the page allocator of kernel/core/memory.c, the    *)
(* page tables of arch/x86_64/paging.c, and the calls that build, grow,    *)
(* copy and free them: exec, brk, mmap, fork, clone, waitpid.              *)
(*                                                                         *)
(* A virtual page is <<region, index>>. A region stands for one entry of   *)
(* the third level: "low" (code and heap, entry 1), "fb" (the framebuffer, *)
(* entry 3), "stack" (entry 255) and "guard" (entry 256). Its two tables   *)
(* are frames like any page, and so are the two levels above.              *)
(***************************************************************************)
EXTENDS Integers, Sequences, FiniteSets, FiniteSetsExt, Functions

CONSTANTS Pids,        \* places of the process table
          FirstPid,    \* the first process
          NFrames,     \* pmm_total
          Images,      \* sizes of programs, in pages
          StackPages,  \* 64 in the code
          HeapLimit,   \* pages of region "low" the calls ask for
          Values       \* contents of a page; 0 is zeroed, 1 from a program

ASSUME SpacesAssumption ==
    /\ NFrames \in Nat \ {0} /\ StackPages \in Nat /\ HeapLimit \in Nat
    /\ Images \subseteq Nat /\ FirstPid \in Pids

Frames == 1 .. NFrames

NoFrame == 0

\* Memory that is not the page allocator's: the framebuffer, heap blocks.
Foreign == NFrames + 1

VARIABLES
  used,     \* pmm_bitmap
  cursor,   \* pmm_cursor, the frame the search starts at
  phys,     \* what each frame holds
  space,    \* space[p]: its tables, its mappings, heap_start and heap_end
  life,     \* "none", "live", "reaping" (in waitpid), "zombie"
  dying     \* dying[p]: the space p has detached in waitpid and not freed yet

avars == <<used, cursor, phys, space, life, dying>>

NoEntries == [x \in {} |-> 0]

\* f with y at x, whether or not something was there.
WithEntry(f, x, y) == [z \in DOMAIN f \union {x} |-> IF z = x THEN y ELSE f[z]]

NoSpace == [tab |-> NoEntries, map |-> NoEntries, start |-> 0, end |-> 0]

UserStack == [i \in 1 .. StackPages |-> <<"stack", i>>]

\* n pages of code and heap from the one after page end on.
Low(end, n) == [i \in 1 .. n |-> <<"low", end + i>>]

Guard == <<"guard", 1>>

-----------------------------------------------------------------------------
(* The work in progress of a call: m.used, m.cur and m.data are used,      *)
(* cursor and phys, m.tab and m.map the space being changed, m.ok is TRUE  *)
(* until something fails.                                                  *)

Work(s) == [used |-> used, cur |-> cursor, data |-> phys, tab |-> s.tab,
            map |-> s.map, ok |-> TRUE, f |-> NoFrame]

\* pmm_alloc_page: the first free frame from the cursor on, zeroed; m.f.
PmmAlloc(m) ==
    LET from == {f \in Frames \ m.used : f >= m.cur}
        f == IF from # {} THEN Min(from) ELSE Min(Frames \ m.used)
    IN  IF m.used = Frames THEN [m EXCEPT !.f = NoFrame]
        ELSE [m EXCEPT !.f = f, !.used = @ \union {f}, !.data = [@ EXCEPT ![f] = 0],
                       !.cur = (f % NFrames) + 1]

\* A table that is missing, of paging_map_for_process; a is m after Alloc.
NewTable(m, a, t) ==
    IF a.f = NoFrame THEN [m EXCEPT !.ok = FALSE]
    ELSE [a EXCEPT !.tab = WithEntry(@, t, a.f)]

NeedTable(m, t) ==
    IF ~m.ok \/ t \in DOMAIN m.tab THEN m ELSE NewTable(m, PmmAlloc(m), t)

Entered(m, f, v) == IF m.ok THEN [m EXCEPT !.map = WithEntry(@, v, f)] ELSE m

MapPage(m, f, v) ==
    Entered(NeedTable(NeedTable(m, <<"pd", v[1]>>), <<"pt", v[1]>>), f, v)

\* A new page holding x at v; the frame goes back when it cannot be mapped.
GiveBack(m, f) == IF m.ok THEN m ELSE [m EXCEPT !.used = @ \ {f}]

FillPage(m, a, v, x) ==
    IF a.f = NoFrame THEN [m EXCEPT !.ok = FALSE]
    ELSE GiveBack(MapPage([a EXCEPT !.data = [@ EXCEPT ![a.f] = x]], a.f, v), a.f)

NewPage(m, v, x) == IF ~m.ok THEN m ELSE FillPage(m, PmmAlloc(m), v, x)

\* Page after page, holding xs.
NewPages(m, vs, xs) ==
    LET after[i \in 0 .. Len(vs)] ==
          IF i = 0 THEN m ELSE NewPage(after[i - 1], vs[i], xs[i])
    IN  after[Len(vs)]

Zeros(vs) == [i \in DOMAIN vs |-> 0]

\* The same page of other memory everywhere.
MapForeign(m, vs) ==
    LET after[i \in 0 .. Len(vs)] ==
          IF i = 0 THEN m ELSE MapPage(after[i - 1], Foreign, vs[i])
    IN  after[Len(vs)]

\* create_address_space. The framebuffer is mapped as far as tables go.
CreateSpace(m) ==
    LET a == NeedTable([m EXCEPT !.tab = NoEntries, !.map = NoEntries], <<"pml4", "all">>)
        b == NeedTable(a, <<"pdpt", "all">>)
        c == MapPage(b, Foreign, <<"fb", 1>>)
    IN  IF ~a.ok THEN a
        ELSE IF ~b.ok THEN [b EXCEPT !.used = @ \ {b.tab[<<"pml4", "all">>]}]
        ELSE [c EXCEPT !.ok = TRUE]

\* What free_address_space returns to pmm_free_page: not the entries of the
\* framebuffer's region, whose two tables stay allocated. A frame that is not
\* the allocator's is ignored.
FramesToFree(tab, map) ==
    LET keep(x) == x[2] # "fb"
    IN  Frames \cap ({tab[t] : t \in {t \in DOMAIN tab : keep(t)}}
                     \union {map[v] : v \in {v \in DOMAIN map : v[1] # "fb"}})

Give(m) == [m EXCEPT !.used = @ \ FramesToFree(m.tab, m.map), !.ok = FALSE]

\* elf_load with the stack: what exec and sched_create_process build.
Load(m, image) ==
    LET a == CreateSpace(m)
        b == NewPages(a, Low(0, image), [i \in 1 .. image |-> 1])
        c == NewPages(b, UserStack, Zeros(UserStack))
        d == NewPage(c, Guard, 0)
    IN  IF ~a.ok THEN a
        ELSE IF ~c.ok THEN Give(c)
        ELSE IF d.ok THEN d ELSE [d EXCEPT !.ok = TRUE]

\* copy_address_space: every page but the framebuffer's, to a frame of its own.
PagesToCopy(s) == {v \in DOMAIN s.map : v[1] # "fb"}

\* The pages in some order.
Listed(S) == CHOOSE vs \in [1 .. Cardinality(S) -> S] : IsInjective(vs)

\* Faulty variants: the parent's frames, and frames left zeroed.
CopyShares(m, s) ==
    LET a == CreateSpace(m)
    IN  IF ~a.ok THEN a ELSE [a EXCEPT !.map = s.map]

CopyEmpty(m, s) ==
    LET a == CreateSpace(m)
        vs == Listed(PagesToCopy(s))
        b == NewPages(a, vs, Zeros(vs))
    IN  IF ~a.ok THEN a ELSE IF b.ok THEN b ELSE Give(b)

Copy(m, s) ==
    LET a == CreateSpace(m)
        vs == Listed(PagesToCopy(s))
        b == NewPages(a, vs, [i \in DOMAIN vs |-> IF s.map[vs[i]] = Foreign THEN 0
                                                 ELSE phys[s.map[vs[i]]]])
    IN  IF ~a.ok THEN a ELSE IF b.ok THEN b ELSE Give(b)

-----------------------------------------------------------------------------
(* The calls.                                                              *)

Settle(m) == used' = m.used /\ cursor' = m.cur /\ phys' = m.data

Put(p, m, start, end) ==
    space' = [space EXCEPT ![p] = [tab |-> m.tab, map |-> m.map,
                                   start |-> start, end |-> end]]

\* sys_exec: the new space first, then the old one goes.
SysExec(p, image) ==
    LET m == Load(Work(NoSpace), image)
    IN  /\ life[p] = "live"
        /\ IF m.ok
           THEN /\ Settle([m EXCEPT !.used = @ \ FramesToFree(space[p].tab, space[p].map)])
                /\ Put(p, m, image, image)
           ELSE Settle(m) /\ UNCHANGED space
        /\ UNCHANGED <<life, dying>>

\* sys_brk: growing maps page after page and stops where memory ends, with
\* heap_end where it was; shrinking only moves heap_end. The heap stays in
\* region "low", whose tables exist since exec: mapping does not fail here.
SysBrk(p, end) ==
    LET s == space[p]
        vs == Low(s.end, end - s.end)
        m == NewPages(Work(s), vs, Zeros(vs))
    IN  /\ life[p] = "live"
        /\ IF end > s.end
           THEN Settle(m) /\ Put(p, m, s.start, IF m.ok THEN end ELSE s.end)
           ELSE /\ space' = [space EXCEPT ![p].end = end]
                /\ UNCHANGED <<used, cursor, phys>>
        /\ UNCHANGED <<life, dying>>

\* sys_mmap, of the framebuffer or of kmalloc'd memory: pages at heap_end.
SysMmap(p, n) ==
    LET s == space[p]
        m == MapForeign(Work(s), Low(s.end, n))
    IN  /\ life[p] = "live"
        /\ s.end + n <= HeapLimit
        /\ Settle(m)
        /\ Put(p, m, s.start, IF m.ok THEN s.end + n ELSE s.end)
        /\ UNCHANGED <<life, dying>>

\* sched_fork and sched_clone (which maps the guard page once more); the
\* kernel stack may be refused after the copy was made.
SysFork(p, q, clone, stack) ==
    LET s == space[p]
        m == Copy(Work(NoSpace), s)
        g == IF clone THEN NewPage(m, Guard, 0) ELSE m
    IN  /\ life[p] = "live" /\ life[q] = "none"
        /\ IF ~m.ok THEN Settle(m) /\ UNCHANGED <<space, life>>
           ELSE IF ~stack THEN Settle(Give(m)) /\ UNCHANGED <<space, life>>
           ELSE /\ Settle(g)
                /\ Put(q, g, s.start, s.end)
                /\ life' = [life EXCEPT ![q] = "live"]
        /\ UNCHANGED dying

SysExit(p) ==
    /\ life[p] = "live" /\ p # FirstPid
    /\ life' = [life EXCEPT ![p] = "zombie"]
    /\ UNCHANGED <<used, cursor, phys, space, dying>>

\* sched_waitpid, of r: the space of a dead process leaves the table, interrupts
\* come in, and then r frees it.
ReapSpace(r, p) ==
    /\ life[r] = "live" /\ life[p] = "zombie"
    /\ life' = [life EXCEPT ![p] = "none", ![r] = "reaping"]
    /\ dying' = [dying EXCEPT ![r] = space[p]]
    /\ space' = [space EXCEPT ![p] = NoSpace]
    /\ UNCHANGED <<used, cursor, phys>>

FreeSpace(r) ==
    /\ life[r] = "reaping"
    /\ life' = [life EXCEPT ![r] = "live"]
    /\ used' = used \ FramesToFree(dying[r].tab, dying[r].map)
    /\ dying' = [dying EXCEPT ![r] = NoSpace]
    /\ UNCHANGED <<cursor, phys, space>>

\* The user's own store; pages above heap_end stay mapped.
UserStore(p, v, x) ==
    /\ life[p] = "live"
    /\ v \in DOMAIN space[p].map \ {Guard}
    /\ space[p].map[v] # Foreign
    /\ phys' = [phys EXCEPT ![space[p].map[v]] = x]
    /\ UNCHANGED <<used, cursor, space, life, dying>>

\* sched_init, once init is loaded.
AInit ==
    \E image \in Images :
       LET m == Load([used |-> {}, cur |-> 1, data |-> [f \in Frames |-> 0],
                      tab |-> NoEntries, map |-> NoEntries, ok |-> TRUE, f |-> NoFrame],
                     image)
       IN  /\ m.ok
           /\ used = m.used /\ cursor = m.cur /\ phys = m.data
           /\ space = [p \in Pids |-> IF p # FirstPid THEN NoSpace
                                      ELSE [tab |-> m.tab, map |-> m.map,
                                            start |-> image, end |-> image]]
           /\ life = [p \in Pids |-> IF p = FirstPid THEN "live" ELSE "none"]
           /\ dying = [p \in Pids |-> NoSpace]

ANext ==
    \E p \in Pids :
       \/ \E image \in Images : SysExec(p, image)
       \/ \E end \in 1 .. HeapLimit : SysBrk(p, end)
       \/ \E n \in 1 .. 2 : SysMmap(p, n)
       \/ \E q \in Pids, clone, stack \in BOOLEAN : SysFork(p, q, clone, stack)
       \/ SysExit(p)
       \/ \E q \in Pids : ReapSpace(p, q)
       \/ FreeSpace(p)
       \/ \E v \in DOMAIN space[p].map, x \in Values : UserStore(p, v, x)

ASpec == AInit /\ [][ANext]_avars

-----------------------------------------------------------------------------
(* Properties.                                                             *)

\* Every process has a space, and another one in its hands while it reaps.
Owners == Pids \X {"own", "reaped"}

SpaceOf(o) == IF o[2] = "own" THEN space[o[1]] ELSE dying[o[1]]

\* The frames a space uses, its tables and its pages, the page allocator's.
Uses(s) == {<<"table", t>> : t \in DOMAIN s.tab} \union
           {<<"page", v>> : v \in {v \in DOMAIN s.map : s.map[v] # Foreign}}

FrameOf(s, u) == IF u[1] = "table" THEN s.tab[u[2]] ELSE s.map[u[2]]

Apart(s, t, same) ==
    \A u \in Uses(s), w \in Uses(t) : FrameOf(s, u) = FrameOf(t, w) => same /\ u = w

\* No frame has two uses, in one space or in two, whatever failed half way
\* through exec, brk, fork or clone, and none in use is free to be handed out
\* again: no free_address_space takes a page away from anyone else.
FramesApart ==
    /\ \A o \in Owners : \A u \in Uses(SpaceOf(o)) : FrameOf(SpaceOf(o), u) \in used
    /\ \A o, r \in Owners : Apart(SpaceOf(o), SpaceOf(r), o = r)

\* What a process reads in a page of its own.
View(p) == [v \in {v \in DOMAIN space[p].map : space[p].map[v] # Foreign} |->
              phys[space[p].map[v]]]

\* Memory is private and a fork is a copy: a step changes what at most one
\* process reads, and one that comes to life by fork reads what its parent
\* read at that moment (pages of the framebuffer aside).
PrivateMemory ==
    [][/\ \A p, q \in {r \in Pids : {life[r], life'[r]} \subseteq {"live", "reaping"}} :
             View(p)' # View(p) /\ View(q)' # View(q) => p = q
       /\ \A q \in Pids :
             life[q] = "none" /\ life'[q] = "live" =>
                \E p \in Pids : /\ life[p] = "live"
                                /\ DOMAIN View(p) \subseteq DOMAIN View(q)'
                                /\ \A v \in DOMAIN View(p) \ {Guard} :
                                      View(q)'[v] = View(p)[v]]_avars
=============================================================================
