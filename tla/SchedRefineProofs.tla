------------------------- MODULE SchedRefineProofs --------------------------
(***************************************************************************)
(* What processes own, and that the scheduler (Sched) implements the       *)
(* abstract one (SchedAbs), where no process registers for an interrupt    *)
(* line: for every size of the process table, every number of stacks and   *)
(* address spaces, every slice, tick modulus and pid limit.                *)
(***************************************************************************)
EXTENDS SchedProofs, SchedRefines

USE ZenonT(30), SMTT(30)

-----------------------------------------------------------------------------
(* Who owns what.                                                          *)

Lives(s) == {p \in Slots : s.state[p] # "UNUSED"}

Owned(s, p) == {s.kstack[p], s.cr3[p]} \ {KPML4}

\* What p has reaped and not yet freed.
Reaped(at, ar, p) == IF at[p] = "freeing" THEN ar[p] \ {KPML4} ELSE {}

\* A live process has a stack, an address space and a pid.
Equipped(s) ==
  /\ s.cr3[Idle] = KPML4 /\ s.mmu = s.cr3[s.cur]
  /\ \A p \in Lives(s) : /\ s.kstack[p] \in Stacks /\ s.cr3[p] \in Spaces \union {KPML4}
                         /\ p # Idle => s.pid[p] # 0

\* Only a process that can run is about to free something.
Freeing(s, at, ar) ==
  \A p \in Slots : at[p] = "freeing" =>
    /\ s.state[p] \in {"RUNNING", "READY"}
    /\ ar[p] \subseteq Stacks \union Spaces \union {KPML4}

Disjoint(s, at, ar) ==
  /\ \A p, q \in Lives(s) : p # q => Owned(s, p) \intersect Owned(s, q) = {}
  /\ \A p, q \in Lives(s) : Owned(s, p) \intersect Reaped(at, ar, q) = {}
  /\ \A p, q \in Lives(s) : p # q => Reaped(at, ar, p) \intersect Reaped(at, ar, q) = {}

Allocated(s, at, ar, h) ==
  \A x : x \in h <=> \E p \in Lives(s) : x \in Owned(s, p) \/ x \in Reaped(at, ar, p)

Owners(s, at, ar, h) ==
  Equipped(s) /\ Freeing(s, at, ar) /\ Disjoint(s, at, ar) /\ Allocated(s, at, ar, h)

\* The invariant when no process registers for an interrupt line.
OInv == SInv /\ Irqs = {} /\ KillStates \subseteq {"BLOCKED", "ZOMBIE"} /\ Owners(sch, pc, arg, heap)

\* Nothing changes hands.
SameOwners(t, at2, ar2, s, at, ar) ==
  /\ t.kstack = s.kstack /\ t.cr3 = s.cr3 /\ t.pid = s.pid
  /\ s.mmu = s.cr3[s.cur] => t.mmu = t.cr3[t.cur]
  /\ \A p \in Slots : t.state[p] = "UNUSED" <=> s.state[p] = "UNUSED"
  /\ \A p \in Slots : at2[p] = "freeing" <=> at[p] = "freeing"
  /\ \A p \in Slots : at[p] = "freeing" =>
       /\ ar2[p] = ar[p]
       /\ s.state[p] \in {"RUNNING", "READY"} => t.state[p] \in {"RUNNING", "READY"}

LEMMA SameOwnersKeeps ==
  ASSUME NEW s, NEW at, NEW ar, NEW h, Owners(s, at, ar, h),
         NEW t, NEW at2, NEW ar2, SameOwners(t, at2, ar2, s, at, ar)
  PROVE  Owners(t, at2, ar2, h)
<1>1. Lives(t) = Lives(s) /\ \A p \in Slots : Owned(t, p) = Owned(s, p)
  BY SMTT(30) DEF SameOwners, Lives, Owned
<1>2. \A p \in Slots : Reaped(at2, ar2, p) = Reaped(at, ar, p)
  BY DEF SameOwners, Reaped
<1>3. \A p \in Lives(s) : p \in Slots
  BY DEF Lives
<1>4. Equipped(t)
  BY SMTT(30), <1>1 DEF Equipped, SameOwners, Owners
<1>5. Freeing(t, at2, ar2)
  BY DEF Freeing, SameOwners, Owners
<1>6. Disjoint(s, at, ar) /\ Allocated(s, at, ar, h)
  BY DEF Owners
<1>7. Disjoint(t, at2, ar2) /\ Allocated(t, at2, ar2, h)
  BY ONLY Zenon, <1>1, <1>2, <1>3, <1>6 DEF Disjoint, Allocated
<1> QED BY <1>4, <1>5, <1>7 DEF Owners

\* A new process gets what was free.
Added(t, at2, s, at, h, p) ==
  /\ p \in Slots /\ p \notin Lives(s) /\ Lives(t) = Lives(s) \union {p}
  /\ \A r \in Lives(s) : Owned(t, r) = Owned(s, r) /\ at2[r] = at[r]
  /\ \A x \in Owned(t, p) : x \notin h
  /\ at2[p] # "freeing"

LEMMA AddedKeeps ==
  ASSUME NEW s, NEW at, NEW ar, NEW h, Disjoint(s, at, ar), Allocated(s, at, ar, h),
         NEW t, NEW at2, NEW p, Added(t, at2, s, at, h, p)
  PROVE  Disjoint(t, at2, ar) /\ Allocated(t, at2, ar, h \union Owned(t, p))
<1>1. Reaped(at2, ar, p) = {} /\ \A r \in Lives(s) : Reaped(at2, ar, r) = Reaped(at, ar, r)
  BY DEF Added, Reaped
<1>2. \A r \in Lives(s) : /\ \A x \in Owned(t, r) : x \in h
                          /\ \A x \in Reaped(at2, ar, r) : x \in h
  BY <1>1 DEF Allocated, Added
<1>3. \A r \in Lives(t) : r \in Lives(s) \/ r = p
  BY DEF Added
<1>4. \A r \in Lives(s) : Owned(t, r) = Owned(s, r)
  BY DEF Added
<1>5. \A x \in Owned(t, p) : x \notin h
  BY DEF Added
<1>6. ASSUME NEW r \in Lives(t), NEW q \in Lives(t), r # q
      PROVE  Owned(t, r) \intersect Owned(t, q) = {}
  BY <1>2, <1>3, <1>4, <1>5, <1>6 DEF Disjoint
<1>7. ASSUME NEW r \in Lives(t), NEW q \in Lives(t)
      PROVE  Owned(t, r) \intersect Reaped(at2, ar, q) = {}
  BY <1>1, <1>2, <1>3, <1>4, <1>5, <1>7 DEF Disjoint
<1>8. ASSUME NEW r \in Lives(t), NEW q \in Lives(t), r # q
      PROVE  Reaped(at2, ar, r) \intersect Reaped(at2, ar, q) = {}
  BY <1>1, <1>3, <1>8 DEF Disjoint
<1>9. ASSUME NEW x
      PROVE  x \in h \union Owned(t, p) <=>
             \E r \in Lives(t) : x \in Owned(t, r) \/ x \in Reaped(at2, ar, r)
  <2>1. p \in Lives(t) /\ \A r \in Lives(s) : r \in Lives(t)
    BY DEF Added
  <2>2. x \in h <=> \E r \in Lives(s) : x \in Owned(s, r) \/ x \in Reaped(at, ar, r)
    BY DEF Allocated
  <2> QED BY ONLY Zenon, <1>1, <1>3, <1>4, <2>1, <2>2
<1> QED BY <1>6, <1>7, <1>8, <1>9 DEF Disjoint, Allocated

OwnersKept == Owners(sch', pc', arg', heap')

LEMMA ExecOwners == ASSUME QueueFacts, OInv, Exec PROVE OwnersKept
<1> DEFINE space == AllocFrom(Spaces \ heap)
           old == sch.mmu
<1>1. /\ InUser /\ space # NULL /\ sch' = [sch EXCEPT !.cr3[Me] = space, !.mmu = space]
      /\ pc' = pc /\ arg' = arg /\ heap' = (heap \union {space}) \ {old}
  BY DEF Exec
<1>2. space \in Spaces \ heap
  <2>1. (Spaces \ heap) \in SUBSET Nat
    BY SMTT(30), ConstantsAssumption DEF Spaces
  <2> QED BY <1>1, <2>1, AllocFromType
<1>3. SInv /\ Equipped(sch) /\ Freeing(sch, pc, arg) /\ Disjoint(sch, pc, arg) /\ Allocated(sch, pc, arg, heap)
  BY DEF OInv, Owners
<1>4. Me # Idle /\ pc[Me] = "user" /\ Me = sch.cur
  BY <1>1 DEF InUser, Me
<1>5. Me \in Slots \ {Idle} /\ sch.state[Me] = "RUNNING"
  BY <1>3, <1>4, Running
<1> HIDE DEF space
<1>6. DOMAIN sch = SchFields /\ sch.cr3 \in [Slots -> Spaces \union {KPML4, NULL}]
  BY <1>3 DEF SInv, IsSch
<1>7. /\ sch'.cr3 = [sch.cr3 EXCEPT ![Me] = space] /\ sch'.mmu = space
      /\ sch'.state = sch.state /\ sch'.kstack = sch.kstack /\ sch'.pid = sch.pid /\ sch'.cur = sch.cur
  BY <1>1, <1>6 DEF SchFields
<1>8. /\ Lives(sch') = Lives(sch) /\ Me \in Lives(sch) /\ old = sch.cr3[Me]
      /\ \A p \in Lives(sch) : p \in Slots
  BY SMTT(30), <1>3, <1>4, <1>5, <1>7 DEF Lives, Equipped
<1>9. sch'.cr3[Me] = space /\ \A p \in Slots \ {Me} : sch'.cr3[p] = sch.cr3[p]
  BY <1>5, <1>6, <1>7
<1>10. KPML4 \notin Spaces \union Stacks /\ \A x \in Stacks : x \notin Spaces
  BY SMTT(30), ConstantsAssumption DEF Stacks, Spaces
<1>11. sch.kstack[Me] \in Stacks /\ old \in Spaces \union {KPML4}
  BY <1>3, <1>8 DEF Equipped
<1>12. /\ Owned(sch', Me) = {sch.kstack[Me], space}
       /\ \A p \in Lives(sch) \ {Me} : Owned(sch', p) = Owned(sch, p)
  BY SMTT(30), <1>2, <1>7, <1>8, <1>9, <1>10, <1>11 DEF Owned
<1>13. Owned(sch, Me) = {sch.kstack[Me], old} \ {KPML4} /\ Reaped(pc, arg, Me) = {}
  BY <1>4, <1>8 DEF Owned, Reaped
<1> HIDE DEF old, Me
<1>14. KPML4 \notin heap
  BY <1>3 DEF Allocated, Owned, Reaped
<1>15. \A p \in Lives(sch) : (\A x \in Owned(sch, p) : x \in heap) /\ (\A x \in Reaped(pc, arg, p) : x \in heap)
  BY <1>3 DEF Allocated
<1>16. Equipped(sch')
  <2>1. sch'.mmu = sch'.cr3[sch'.cur] /\ sch'.cr3[Idle] = KPML4
    BY SMTT(30), <1>3, <1>4, <1>5, <1>7, <1>9, ConstantsAssumption DEF Equipped, Idle, Slots
  <2>2. ASSUME NEW p \in Lives(sch')
        PROVE  /\ sch'.kstack[p] \in Stacks /\ sch'.cr3[p] \in Spaces \union {KPML4}
               /\ p # Idle => sch'.pid[p] # 0
    BY <1>2, <1>3, <1>7, <1>8, <1>9 DEF Equipped
  <2> QED BY <2>1, <2>2 DEF Equipped
<1>17. Freeing(sch', pc', arg')
  BY <1>1, <1>3, <1>7 DEF Freeing
<1>18. Disjoint(sch', pc', arg')
  <2>1. ASSUME NEW p \in Lives(sch), NEW q \in Lives(sch), p # q
        PROVE  Owned(sch', p) \intersect Owned(sch', q) = {}
    <3>1. Owned(sch, p) \intersect Owned(sch, q) = {}
      BY <1>3, <2>1 DEF Disjoint
    <3>2. sch.kstack[Me] \in Owned(sch, Me)
      BY <1>10, <1>11, <1>13
    <3> QED BY <1>2, <1>12, <1>15, <2>1, <3>1, <3>2
  <2>2. ASSUME NEW p \in Lives(sch), NEW q \in Lives(sch)
        PROVE  Owned(sch', p) \intersect Reaped(pc, arg, q) = {}
    <3>1. Owned(sch, p) \intersect Reaped(pc, arg, q) = {}
      BY <1>3 DEF Disjoint
    <3>2. sch.kstack[Me] \in Owned(sch, Me)
      BY <1>10, <1>11, <1>13
    <3> QED BY SMTT(30), <1>2, <1>12, <1>15, <3>1, <3>2
  <2> QED BY SMTT(30), <1>1, <1>3, <1>8, <2>1, <2>2 DEF Disjoint
<1>19. Allocated(sch', pc', arg', heap')
  <2> SUFFICES ASSUME NEW x
               PROVE  x \in heap' <=> \E p \in Lives(sch) : x \in Owned(sch', p) \/ x \in Reaped(pc, arg, p)
    BY <1>1, <1>8 DEF Allocated
  <2>1. x \in heap <=> \E p \in Lives(sch) : x \in Owned(sch, p) \/ x \in Reaped(pc, arg, p)
    BY <1>3 DEF Allocated
  <2>2. \A p \in Lives(sch) \ {Me} : old \notin Owned(sch, p) /\ old \notin Reaped(pc, arg, p)
    BY SMTT(30), <1>3, <1>8, <1>13, <1>14, <1>15 DEF Disjoint
  <2>3. x \in Owned(sch', Me) <=> x = sch.kstack[Me] \/ x = space
    BY <1>12
  <2>4. x \in Owned(sch, Me) <=> x # KPML4 /\ (x = sch.kstack[Me] \/ x = old)
    BY <1>13
  <2>5. sch.kstack[Me] # KPML4 /\ sch.kstack[Me] # old /\ space # old
    <3>1. old \in Owned(sch, Me) \/ old = KPML4
      BY <1>13
    <3> QED BY <1>2, <1>8, <1>10, <1>11, <1>15, <3>1
  <2>6. x \in heap' <=> (x \in heap \/ x = space) /\ x # old
    BY <1>1
  <2> QED BY ONLY SMTT(30), <1>8, <1>12, <1>13, <1>14, <2>1, <2>2, <2>3, <2>4, <2>5, <2>6
<1> QED BY <1>16, <1>17, <1>18, <1>19 DEF OwnersKept, Owners

LEMMA SpawnOwners ==
  ASSUME QueueFacts, OInv, sch.state[Me] = "RUNNING", NEW shared, shared => sch.cr3[Me] = KPML4,
         Spawn(shared)
  PROVE  OwnersKept
<1> DEFINE unused == {p \in Slots : sch.state[p] = "UNUSED"}
           p == Min(unused)
           space == IF shared THEN sch.cr3[Me] ELSE AllocFrom(Spaces \ heap)
           stack == IF space = NULL THEN NULL ELSE AllocFrom(Stacks \ heap)
<1>1. /\ SInv /\ IsSch(sch) /\ next_pid \in Nat \ {0} /\ pc \in [Slots -> PcType]
      /\ sch.state[Idle] = "RUNNING" /\ Me = sch.cur /\ Me \in Slots
  BY DEF OInv, SInv, IsSch, Me, Sound, Listed
<1>0. Idle \in Slots
  BY SMTT(30), ConstantsAssumption DEF Idle, Slots
<1>2. Equipped(sch) /\ Freeing(sch, pc, arg) /\ Disjoint(sch, pc, arg) /\ Allocated(sch, pc, arg, heap)
  BY DEF OInv, Owners
<1>3. /\ unused # {} /\ pc' = [pc EXCEPT ![p] = "user"] /\ arg' = arg
      /\ IF stack = NULL THEN sch' = Fresh(sch, p, "UNUSED", NULL, space) /\ heap' = heap
         ELSE /\ sch' = Enqueue(Fresh(sch, p, "READY", stack, space), p)
              /\ heap' = heap \union ({space, stack} \ {KPML4})
  BY DEF Spawn
<1>4. p \in unused
  <2>1. unused \in SUBSET Nat
    BY SMTT(30), ConstantsAssumption DEF Slots
  <2> QED BY <1>3, <2>1 DEF QueueFacts, ListFacts, MinFact
<1>5. p \in Slots \ {Idle} /\ sch.state[p] = "UNUSED" /\ p # Me
  BY <1>1, <1>4
<1>6. /\ space = KPML4 \/ space = NULL \/ space \in Spaces \ heap
      /\ stack = NULL \/ (stack \in Stacks \ heap /\ space # NULL)
  <2>1. (Spaces \ heap) \in SUBSET Nat /\ (Stacks \ heap) \in SUBSET Nat
    BY SMTT(30), ConstantsAssumption DEF Spaces, Stacks
  <2>2. /\ AllocFrom(Spaces \ heap) \in (Spaces \ heap) \union {NULL}
        /\ AllocFrom(Stacks \ heap) \in (Stacks \ heap) \union {NULL}
    BY <2>1, AllocFromType
  <2> QED BY <2>2
<1> HIDE DEF unused, p, space, stack
<1>7. /\ p \in Slots /\ space \in Spaces \union {KPML4, NULL} /\ stack \in Stacks \union {NULL}
      /\ next_pid \in Nat /\ "UNUSED" \in States /\ "READY" \in States /\ NULL \in Stacks \union {NULL}
  BY <1>1, <1>5, <1>6 DEF States
<1>8. pc'[p] = "user" /\ \A r \in Slots \ {p} : pc'[r] = pc[r]
  BY <1>1, <1>3, <1>7
<1>9. CASE stack = NULL
  <2>1. sch' = Fresh(sch, p, "UNUSED", NULL, space) /\ heap' = heap
    BY <1>3, <1>9
  <2>2. Initialised(sch', sch, p, "UNUSED", NULL, space)
    BY ONLY Zenon, <1>1, <1>7, <2>1, FreshIs
  <2>3. /\ sch'.state[p] = "UNUSED" /\ sch'.cur = sch.cur /\ sch'.mmu = sch.mmu
        /\ \A r \in Slots \ {p} : /\ sch'.state[r] = sch.state[r] /\ sch'.kstack[r] = sch.kstack[r]
                                  /\ sch'.cr3[r] = sch.cr3[r] /\ sch'.pid[r] = sch.pid[r]
    BY SMTT(30), <1>1, <1>7, <2>2 DEF Initialised, IsSch
  <2>4. Lives(sch') = Lives(sch) /\ \A r \in Lives(sch) : r \in Slots \ {p}
    BY <1>5, <2>3 DEF Lives
  <2>5. /\ \A r \in Lives(sch) : Owned(sch', r) = Owned(sch, r)
        /\ \A r \in Lives(sch) : Reaped(pc', arg', r) = Reaped(pc, arg, r)
    BY <1>3, <1>8, <2>3, <2>4 DEF Owned, Reaped
  <2>6. Disjoint(sch', pc', arg') /\ Allocated(sch', pc', arg', heap')
    BY ONLY SMTT(30), <1>2, <2>1, <2>4, <2>5 DEF Disjoint, Allocated
  <2>7. Equipped(sch')
    BY SMTT(30), <1>0, <1>1, <1>2, <1>5, <2>3, <2>4 DEF Equipped
  <2>8. Freeing(sch', pc', arg')
    BY <1>2, <1>3, <1>8, <2>3 DEF Freeing
  <2> QED BY <2>6, <2>7, <2>8 DEF OwnersKept, Owners
<1>10. CASE stack # NULL
  <2> DEFINE fr == Fresh(sch, p, "READY", stack, space)
  <2>1. /\ sch' = Enqueue(fr, p) /\ heap' = heap \union ({space, stack} \ {KPML4})
        /\ space \in (Spaces \ heap) \union {KPML4} /\ stack \in Stacks \ heap
    BY <1>3, <1>6, <1>10
  <2>2. Initialised(fr, sch, p, "READY", stack, space)
    BY ONLY Zenon, <1>1, <1>7, FreshIs
  <2> HIDE DEF fr
  <2>3. /\ sch'.state = fr.state /\ sch'.kstack = fr.kstack /\ sch'.cr3 = fr.cr3
        /\ sch'.pid = fr.pid /\ sch'.cur = fr.cur /\ sch'.mmu = fr.mmu
    BY <2>1, <2>2 DEF Enqueue, Initialised, SchFields
  <2>4. /\ sch'.state[p] = "READY" /\ sch'.kstack[p] = stack /\ sch'.cr3[p] = space
        /\ sch'.pid[p] = next_pid /\ sch'.cur = sch.cur /\ sch'.mmu = sch.mmu
        /\ \A r \in Slots \ {p} : /\ sch'.state[r] = sch.state[r] /\ sch'.kstack[r] = sch.kstack[r]
                                  /\ sch'.cr3[r] = sch.cr3[r] /\ sch'.pid[r] = sch.pid[r]
    BY SMTT(30), <1>1, <1>7, <2>2, <2>3 DEF Initialised, IsSch
  <2>5. /\ Lives(sch') = Lives(sch) \union {p} /\ p \notin Lives(sch)
        /\ \A r \in Lives(sch) : r \in Slots \ {p}
    BY <1>5, <2>4 DEF Lives
  <2>6. /\ \A r \in Lives(sch) : Owned(sch', r) = Owned(sch, r)
        /\ Owned(sch', p) = {space, stack} \ {KPML4}
    BY <2>4, <2>5 DEF Owned
  <2>7. \A x \in Owned(sch', p) : x \notin heap
    BY <2>1, <2>6
  <2>8. Added(sch', pc', sch, pc, heap, p)
    BY <1>7, <1>8, <2>5, <2>6, <2>7 DEF Added
  <2>9. Disjoint(sch', pc', arg) /\ Allocated(sch', pc', arg, heap \union Owned(sch', p))
    BY ONLY Zenon, <1>2, <2>8, AddedKeeps
  <2>10. Disjoint(sch', pc', arg') /\ Allocated(sch', pc', arg', heap')
    BY ONLY Zenon, <1>3, <2>1, <2>6, <2>9
  <2>11. Equipped(sch')
    <3>1. sch'.cr3[Idle] = KPML4 /\ sch'.mmu = sch'.cr3[sch'.cur]
      BY SMTT(30), <1>0, <1>1, <1>2, <1>5, <2>4 DEF Equipped
    <3>2. ASSUME NEW r \in Lives(sch')
          PROVE  /\ sch'.kstack[r] \in Stacks /\ sch'.cr3[r] \in Spaces \union {KPML4}
                 /\ r # Idle => sch'.pid[r] # 0
      BY SMTT(30), <1>1, <1>2, <2>1, <2>4, <2>5 DEF Equipped
    <3> QED BY <3>1, <3>2 DEF Equipped
  <2>12. Freeing(sch', pc', arg')
    BY SMTT(30), <1>2, <1>3, <1>8, <2>4 DEF Freeing
  <2> QED BY <2>10, <2>11, <2>12 DEF OwnersKept, Owners
<1> QED BY <1>9, <1>10

LEMMA ReapOwners ==
  ASSUME QueueFacts, OInv, NEW id, pc[Me] \in {"user", "waiting"}, Me # Idle, WaitRound(id)
  PROVE  OwnersKept
<1>1. /\ SInv /\ IsSch(sch) /\ DOMAIN sch = SchFields /\ pc \in [Slots -> PcType]
      /\ DOMAIN arg = Slots /\ Owners(sch, pc, arg, heap)
  BY DEF OInv, SInv, IsSch
<1>2. pc[Me] \notin {"int80", "exiting", "marked", "freeing"} /\ Me = sch.cur
  BY DEF Me
<1>3. Me \in Slots \ {Idle} /\ sch.state[Me] = "RUNNING"
  BY <1>1, <1>2, Running
<1>4. CASE Zombies(id) = {}
  <2>1. /\ sch' = [sch EXCEPT !.resched = TRUE] /\ pc' = [pc EXCEPT ![Me] = "yielding"]
        /\ arg' = [arg EXCEPT ![Me] = {id}] /\ heap' = heap
    BY <1>4 DEF WaitRound
  <2>2. \A f \in SchFields \ {"resched"} : sch'[f] = sch[f]
    BY <1>1, <2>1 DEF SchFields
  <2>3. SameOwners(sch', pc', arg', sch, pc, arg)
    BY <1>1, <1>2, <1>3, <2>1, <2>2 DEF SameOwners, SchFields
  <2> QED BY <1>1, <2>1, <2>3, SameOwnersKeeps DEF OwnersKept
<1>5. CASE Zombies(id) # {}
  <2> DEFINE z == Min(Zombies(id))
             x1 == sch.kstack[z]
             x2 == sch.cr3[z]
  <2>1. Zombies(id) \in SUBSET Nat
    BY SMTT(30), ConstantsAssumption DEF Zombies, Slots
  <2>2. z \in Zombies(id)
    BY <1>5, <2>1 DEF QueueFacts, ListFacts, MinFact
  <2>3. /\ sch' = [sch EXCEPT !.kstack[z] = NULL, !.cr3[z] = NULL, !.state[z] = "UNUSED"]
        /\ pc' = [pc EXCEPT ![Me] = "freeing"] /\ arg' = [arg EXCEPT ![Me] = {x1, x2}]
        /\ heap' = heap
    BY <1>5 DEF WaitRound
  <2> HIDE DEF z
  <2>4. z \in Slots /\ sch.state[z] = "ZOMBIE"
    BY <2>2 DEF Zombies
  <2>5. z \in Slots \ {Idle} /\ z # Me /\ pc[z] # "freeing"
    BY <1>1, <1>3, <2>4 DEF SInv, Sound, Listed, Owners, Freeing
  <2>6. /\ sch'.state = [sch.state EXCEPT ![z] = "UNUSED"]
        /\ sch'.kstack = [sch.kstack EXCEPT ![z] = NULL]
        /\ sch'.cr3 = [sch.cr3 EXCEPT ![z] = NULL]
        /\ sch'.pid = sch.pid /\ sch'.cur = sch.cur /\ sch'.mmu = sch.mmu
    BY <1>1, <2>3 DEF SchFields
  <2>7. /\ sch'.state[z] = "UNUSED"
        /\ \A p \in Slots \ {z} : /\ sch'.state[p] = sch.state[p] /\ sch'.kstack[p] = sch.kstack[p]
                                  /\ sch'.cr3[p] = sch.cr3[p] /\ sch'.pid[p] = sch.pid[p]
    BY <1>1, <2>4, <2>6 DEF IsSch
  <2>8. /\ pc'[Me] = "freeing" /\ arg'[Me] = {x1, x2}
        /\ \A p \in Slots \ {Me} : pc'[p] = pc[p] /\ arg'[p] = arg[p]
    BY <1>1, <1>3, <2>3
  <2>9. Lives(sch') = Lives(sch) \ {z} /\ z \in Lives(sch) /\ Me \in Lives(sch) /\ Me \in Lives(sch')
        /\ \A p \in Lives(sch) : p \in Slots
    BY <1>3, <2>4, <2>5, <2>7 DEF Lives
  <2>10. /\ \A p \in Lives(sch') : Owned(sch', p) = Owned(sch, p)
         /\ \A p \in Lives(sch') \ {Me} : Reaped(pc', arg', p) = Reaped(pc, arg, p)
         /\ Reaped(pc', arg', Me) = Owned(sch, z) /\ Reaped(pc, arg, Me) = {} /\ Reaped(pc, arg, z) = {}
    <3>1. ASSUME NEW p \in Lives(sch') PROVE Owned(sch', p) = Owned(sch, p)
      BY <2>7, <2>9 DEF Owned
    <3>2. ASSUME NEW p \in Lives(sch') \ {Me} PROVE Reaped(pc', arg', p) = Reaped(pc, arg, p)
      BY <2>8, <2>9 DEF Reaped
    <3>3. Reaped(pc', arg', Me) = Owned(sch, z)
      BY <1>2, <2>8 DEF Owned, Reaped
    <3>4. Reaped(pc, arg, Me) = {} /\ Reaped(pc, arg, z) = {}
      BY <1>2, <2>5, <2>8 DEF Reaped
    <3> QED BY <3>1, <3>2, <3>3, <3>4
  <2>11. /\ Equipped(sch) /\ Freeing(sch, pc, arg) /\ Disjoint(sch, pc, arg)
         /\ Allocated(sch, pc, arg, heap)
    BY <1>1 DEF Owners
  <2>12. Equipped(sch')
    <3>1. Idle \in Slots
      BY SMTT(30), ConstantsAssumption DEF Idle, Slots
    <3> QED BY SMTT(30), <1>2, <1>3, <2>5, <2>6, <2>7, <2>9, <2>11, <3>1 DEF Equipped
  <2>13. Freeing(sch', pc', arg')
    <3>1. x1 \in Stacks /\ x2 \in Spaces \union {KPML4}
      BY <2>9, <2>11 DEF Equipped
    <3> QED BY SMTT(30), <1>3, <2>5, <2>7, <2>8, <2>11, <3>1 DEF Freeing
  <2>14. Disjoint(sch', pc', arg')
    <3>1. ASSUME NEW p \in Lives(sch'), NEW q \in Lives(sch'), p # q
          PROVE  Owned(sch', p) \intersect Owned(sch', q) = {}
      BY <2>9, <2>10, <2>11, <3>1 DEF Disjoint
    <3>2. ASSUME NEW p \in Lives(sch'), NEW q \in Lives(sch')
          PROVE  Owned(sch', p) \intersect Reaped(pc', arg', q) = {}
      BY <2>9, <2>10, <2>11 DEF Disjoint
    <3>3. ASSUME NEW p \in Lives(sch'), NEW q \in Lives(sch'), p # q
          PROVE  Reaped(pc', arg', p) \intersect Reaped(pc', arg', q) = {}
      BY SMTT(30), <2>9, <2>10, <2>11, <3>3 DEF Disjoint
    <3> QED BY <3>1, <3>2, <3>3 DEF Disjoint
  <2>15. Allocated(sch', pc', arg', heap')
    <3> SUFFICES ASSUME NEW x
                 PROVE  x \in heap <=> \E p \in Lives(sch') : x \in Owned(sch', p) \/ x \in Reaped(pc', arg', p)
      BY <2>3 DEF Allocated
    <3>1. x \in heap <=> \E p \in Lives(sch) : x \in Owned(sch, p) \/ x \in Reaped(pc, arg, p)
      BY <2>11 DEF Allocated
    <3>2. \A p \in Lives(sch) : p = z \/ p \in Lives(sch')
      BY <2>9
    <3> QED BY ONLY Zenon, <2>9, <2>10, <3>1, <3>2
  <2> QED BY <2>12, <2>13, <2>14, <2>15 DEF OwnersKept, Owners
<1> QED BY <1>4, <1>5

LEMMA FreeReapedOwners == ASSUME OInv, FreeReaped PROVE OwnersKept
<1>1. /\ SInv /\ Sound(sch, pc, ReadyChain(sch), SleepChain(sch)) /\ pc \in [Slots -> PcType]
      /\ DOMAIN arg = Slots /\ Me \in Slots
  BY DEF OInv, SInv, IsSch, Me
<1>2. /\ Equipped(sch) /\ Freeing(sch, pc, arg) /\ Disjoint(sch, pc, arg)
      /\ Allocated(sch, pc, arg, heap)
  BY DEF OInv, Owners
<1>3. /\ sch' = sch /\ pc[Me] = "freeing" /\ pc' = [pc EXCEPT ![Me] = "user"]
      /\ arg' = [arg EXCEPT ![Me] = {}] /\ heap' = heap \ arg[Me]
  BY DEF FreeReaped
<1> HIDE DEF Me
<1>4. /\ pc'[Me] = "user" /\ \A p \in Slots \ {Me} : pc'[p] = pc[p] /\ arg'[p] = arg[p]
  BY <1>1, <1>3
<1>5. /\ \A p \in Slots \ {Me} : Reaped(pc', arg', p) = Reaped(pc, arg, p)
      /\ Reaped(pc', arg', Me) = {} /\ Reaped(pc, arg, Me) = arg[Me] \ {KPML4}
  BY <1>3, <1>4 DEF Reaped
<1>6. Me \in Lives(sch) /\ \A p \in Lives(sch) : p \in Slots
  BY <1>1, <1>2, <1>3 DEF Freeing, Lives
<1>7. KPML4 \notin heap
  BY <1>2 DEF Allocated, Owned, Reaped
<1>8. Disjoint(sch, pc', arg')
  BY <1>2, <1>5, <1>6 DEF Disjoint
<1>9. Allocated(sch, pc', arg', heap')
  <2> SUFFICES ASSUME NEW x
               PROVE  x \in heap' <=> \E p \in Lives(sch) : x \in Owned(sch, p) \/ x \in Reaped(pc', arg', p)
    BY DEF Allocated
  <2>1. x \in heap <=> \E p \in Lives(sch) : x \in Owned(sch, p) \/ x \in Reaped(pc, arg, p)
    BY <1>2 DEF Allocated
  <2>2. x \in heap' <=> x \in heap /\ x \notin Reaped(pc, arg, Me)
    BY <1>3, <1>5, <1>7
  <2>3. \A p \in Lives(sch) : x \in Owned(sch, p) => x \notin Reaped(pc, arg, Me)
    BY <1>2, <1>6 DEF Disjoint
  <2>4. \A p \in Lives(sch) \ {Me} : x \in Reaped(pc, arg, p) => x \notin Reaped(pc, arg, Me)
    BY <1>2, <1>6 DEF Disjoint
  <2> QED BY ONLY Zenon, <1>5, <1>6, <2>1, <2>2, <2>3, <2>4
<1>10. Freeing(sch, pc', arg')
  BY <1>2, <1>4 DEF Freeing
<1> QED BY <1>2, <1>3, <1>8, <1>9, <1>10 DEF OwnersKept, Owners

\* With nobody registered, an interrupt is a tick at most, and then perhaps a switch.
Alike(t, s) == \A f \in SchFields \ {"ticks", "resched"} : t[f] = s[f]

LEMMA TimerIs ==
  ASSUME QueueFacts, SInv, Irqs = {}, TimerIrq
  PROVE  \E s : /\ Alike(s, sch) /\ IsSch(s) /\ Sound(s, pc, ReadyChain(sch), SleepChain(sch))
                /\ sch' = s \/ (sch' = DoSwitch(s, pit_ticks') /\ pit_ticks' \in Nat)
<1> DEFINE now == (pit_ticks + 1) % TickMod
           rq == ReadyChain(sch)
           sq == SleepChain(sch)
           s1 == WakeIrq(sch, 0)
           s2 == Tick(s1, now)
<1>1. now \in Nat /\ pit_ticks' = now
  BY SMTT(30), ConstantsAssumption DEF SInv, TimerIrq
<1>2. IsSch(sch) /\ Sound(sch, pc, rq, sq) /\ DOMAIN sch = SchFields
  BY DEF SInv, IsSch
<1>3. sch' = IrqReturn(s2, now)
  BY DEF TimerIrq
<1> HIDE DEF now, rq, sq
<1>4. IsSch(s1) /\ Sound(s1, pc, rq, sq)
  BY <1>2, WakeIrqKeeps
<1>5. Alike(s1, sch)
  <2> DEFINE hit == {p \in Slots : sch.state[p] \notin {"READY", "RUNNING"} /\ 0 \in sch.mask[p]}
  <2>1. sch.mask \in [Slots -> SUBSET Irqs] /\ sch.state \in [Slots -> States]
        /\ sch.pending \in [Slots -> SUBSET Irqs]
    BY <1>2 DEF IsSch
  <2>2. hit = {}
    BY <2>1
  <2>3. s1 = [sch EXCEPT
                !.pending = [p \in Slots |-> IF p \in hit THEN sch.pending[p] \union {0} ELSE sch.pending[p]],
                !.state = [p \in Slots |-> IF p \in hit THEN "READY" ELSE sch.state[p]],
                !.resched = sch.resched \/ hit # {}]
    BY DEF WakeIrq
  <2> HIDE DEF hit, s1
  <2>4. /\ s1.pending = [p \in Slots |-> IF p \in hit THEN sch.pending[p] \union {0} ELSE sch.pending[p]]
        /\ s1.state = [p \in Slots |-> IF p \in hit THEN "READY" ELSE sch.state[p]]
        /\ \A f \in SchFields \ {"pending", "state", "resched"} : s1[f] = sch[f]
    BY <1>2, <2>3 DEF SchFields
  <2>5. s1.pending = sch.pending /\ s1.state = sch.state
    BY <2>1, <2>2, <2>4
  <2> QED BY <2>4, <2>5 DEF Alike
<1> HIDE DEF s1
<1>6. IsSch(s2) /\ Sound(s2, pc, rq, sq)
  BY <1>4, TickKeeps
<1>7. Alike(s2, s1)
  <2>1. DOMAIN s1 = SchFields
    BY <1>4 DEF IsSch
  <2> QED BY <2>1 DEF Tick, Alike
<1> HIDE DEF s2
<1>8. Alike(s2, sch)
  BY <1>5, <1>7 DEF Alike
<1>9. sch' = s2 \/ sch' = DoSwitch(s2, now)
  BY <1>3 DEF IrqReturn
<1> QED BY <1>1, <1>6, <1>8, <1>9 DEF rq, sq

LEMMA TimerSwitched == ASSUME QueueFacts, SInv, Irqs = {}, TimerIrq PROVE Switched(sch', sch)
<1>1. PICK s : /\ Alike(s, sch) /\ IsSch(s) /\ Sound(s, pc, ReadyChain(sch), SleepChain(sch))
               /\ sch' = s \/ (sch' = DoSwitch(s, pit_ticks') /\ pit_ticks' \in Nat)
  BY TimerIs
<1>2. Switched(sch', s)
  <2>1. CASE sch' = s
    BY <2>1 DEF Switched
  <2>2. CASE sch' = DoSwitch(s, pit_ticks') /\ pit_ticks' \in Nat
    BY <1>1, <2>2 DEF QueueFacts, SwitchStatesFact
  <2> QED BY <1>1, <2>1, <2>2
<1>3. /\ s.state = sch.state /\ s.pid = sch.pid /\ s.kstack = sch.kstack /\ s.cr3 = sch.cr3
      /\ s.pending = sch.pending /\ s.mmu = sch.mmu /\ s.cur = sch.cur
  BY <1>1 DEF Alike, SchFields
<1> QED BY <1>2, <1>3 DEF Switched

\* A step in which nothing changes hands and nobody dead comes to life.
Undead == \A p \in Slots : sch.state[p] = "ZOMBIE" => sch'.state[p] = "ZOMBIE"

Quiet == heap' = heap /\ SameOwners(sch', pc', arg', sch, pc, arg) /\ Undead

LEMMA QuietKeeps == ASSUME OInv, Quiet PROVE OwnersKept
<1>1. /\ Owners(sch, pc, arg, heap) /\ heap' = heap
      /\ SameOwners(sch', pc', arg', sch, pc, arg)
  BY DEF OInv, Quiet
<1> QED BY ONLY Zenon, <1>1, SameOwnersKeeps DEF OwnersKept

\* Moves of the current process in the kernel that are not about freeing.
Moves(at2, ar2, at, ar, c) ==
  /\ at[c] # "freeing" /\ at2[c] # "freeing"
  /\ \A p \in Slots \ {c} : at2[p] = at[p] /\ ar2[p] = ar[p]

LEMMA SwitchQuiet ==
  ASSUME OInv, Switched(sch', sch), heap' = heap,
         (pc' = pc /\ arg' = arg) \/ Moves(pc', arg', pc, arg, Me)
  PROVE  Quiet
BY DEF Quiet, Undead, SameOwners, Switched, Moves

\* The current process changes its state, but neither from nor to unused.
LEMMA CurrentQuiet ==
  ASSUME OInv, heap' = heap, Moves(pc', arg', pc, arg, Me),
         sch.state[Me] \notin {"UNUSED", "ZOMBIE"}, sch'.state[Me] # "UNUSED",
         \A p \in Slots \ {Me} : sch'.state[p] = sch.state[p],
         sch'.kstack = sch.kstack, sch'.cr3 = sch.cr3, sch'.pid = sch.pid, sch'.mmu = sch.mmu,
         sch'.cur = sch.cur
  PROVE  Quiet
<1> HIDE DEF Me
<1> QED BY DEF Quiet, Undead, SameOwners, Moves

LEMMA YieldQuiet == ASSUME QueueFacts, OInv, Yield PROVE Quiet
<1>1. SInv /\ IsSch(sch) /\ Sound(sch, pc, ReadyChain(sch), SleepChain(sch)) /\ pit_ticks \in Nat
  BY DEF OInv, SInv
<1>2. sch' = DoSwitch(sch, pit_ticks) /\ heap' = heap /\ pc' = pc /\ arg' = arg
  BY DEF Yield
<1>3. Switched(sch', sch)
  BY ONLY Zenon, <1>1, <1>2, QueueFacts DEF QueueFacts, SwitchStatesFact
<1> QED BY <1>2, <1>3, SwitchQuiet

LEMMA Int80Quiet == ASSUME QueueFacts, OInv, Int80 PROVE Quiet
<1>1. /\ SInv /\ IsSch(sch) /\ Sound(sch, pc, ReadyChain(sch), SleepChain(sch)) /\ pit_ticks \in Nat
      /\ pc \in [Slots -> PcType] /\ Me \in Slots
  BY DEF OInv, SInv, IsSch, Me
<1>2. /\ sch' = DoSwitch(sch, pit_ticks) /\ pc' = [pc EXCEPT ![Me] = AfterInt80[pc[Me]]]
      /\ pc[Me] \in {"int80", "exiting", "yielding"} /\ heap' = heap /\ arg' = arg
  BY DEF Int80, AfterInt80
<1>3. AfterInt80[pc[Me]] \in {"user", "dead", "waiting"}
  BY SMTT(30), <1>2 DEF AfterInt80
<1>4. Switched(sch', sch)
  BY ONLY Zenon, <1>1, <1>2, QueueFacts DEF QueueFacts, SwitchStatesFact
<1> HIDE DEF Me
<1>5. Moves(pc', arg', pc, arg, Me)
  BY <1>1, <1>2, <1>3 DEF Moves
<1> QED BY <1>2, <1>4, <1>5, SwitchQuiet

LEMMA TimerQuiet == ASSUME QueueFacts, OInv, TimerIrq PROVE Quiet
<1>1. SInv /\ Irqs = {}
  BY DEF OInv
<1>2. heap' = heap /\ pc' = pc /\ arg' = arg
  BY DEF TimerIrq
<1>3. Switched(sch', sch)
  BY <1>1, TimerSwitched
<1> QED BY <1>2, <1>3, SwitchQuiet

LEMMA IrqWaitQuiet ==
  ASSUME QueueFacts, OInv, NEW i, pc[Me] # "freeing", IrqWaitRound(i) PROVE Quiet
<1>1. /\ SInv /\ IsSch(sch) /\ Sound(sch, pc, ReadyChain(sch), SleepChain(sch)) /\ pit_ticks \in Nat
      /\ pc \in [Slots -> PcType] /\ Me \in Slots /\ DOMAIN arg = Slots
      /\ sch.pending \in [Slots -> SUBSET Irqs] /\ Irqs = {}
  BY DEF OInv, SInv, IsSch, Me
<1>2. i \notin sch.pending[Me]
  BY <1>1
<1>3. /\ sch' = DoSwitch(sch, pit_ticks) /\ pc' = [pc EXCEPT ![Me] = "irqwait"]
      /\ arg' = [arg EXCEPT ![Me] = {i}] /\ heap' = heap
  BY <1>2 DEF IrqWaitRound
<1>4. Switched(sch', sch)
  BY ONLY Zenon, <1>1, <1>3, QueueFacts DEF QueueFacts, SwitchStatesFact
<1> HIDE DEF Me
<1>5. Moves(pc', arg', pc, arg, Me)
  BY <1>1, <1>3 DEF Moves
<1> QED BY <1>3, <1>4, <1>5, SwitchQuiet

\* What the operations of the process that executes start from.
LEMMA Executing ==
  ASSUME OInv, InUser
  PROVE  /\ SInv /\ DOMAIN sch = SchFields /\ sch.state \in [Slots -> States] /\ sch.until \in [Slots -> Nat]
         /\ sch.chan \in [Slots -> Channels \union {NULL}] /\ pc \in [Slots -> PcType]
         /\ Me \in Slots \ {Idle} /\ Me = sch.cur /\ sch.state[Me] = "RUNNING" /\ pc[Me] = "user"
<1>1. SInv /\ IsSch(sch) /\ pc[Me] = "user" /\ Me # Idle /\ Me = sch.cur /\ pc \in [Slots -> PcType]
  BY DEF OInv, InUser, Me, SInv
<1>2. Me \in Slots \ {Idle} /\ sch.state[Me] = "RUNNING"
  BY <1>1, Running
<1> QED BY <1>1, <1>2 DEF IsSch

\* sched_sleep marks the current process and links it; nobody else is touched.
Drowsed(t) ==
  /\ t.state = [sch.state EXCEPT ![Me] = "SLEEPING"] /\ t.kstack = sch.kstack /\ t.cr3 = sch.cr3
  /\ t.pid = sch.pid /\ t.mmu = sch.mmu /\ t.cur = sch.cur

LEMMA MarkAsleepIs == ASSUME OInv, InUser, NEW n PROVE Drowsed(MarkAsleep(n))
<1>1. DOMAIN sch = SchFields
  BY Executing
<1> QED BY <1>1 DEF MarkAsleep, Drowsed, SchFields

LEMMA SleepIs ==
  ASSUME QueueFacts, OInv, NEW n \in Nat, Sleep(n)
  PROVE  sch'.state = [sch.state EXCEPT ![Me] = "SLEEPING"] /\ sch'.cur = sch.cur /\ Drowsed(sch')
<1> DEFINE at0 == [pc EXCEPT ![Me] = "marked"]
           s == MarkAsleep(n)
<1>1. InUser /\ sch' = SleepInsert(s, Me) /\ pc' = [pc EXCEPT ![Me] = "int80"]
  BY DEF Sleep
<1>2. SInv /\ pc \in [Slots -> PcType] /\ Me \in Slots \ {Idle} /\ Me = sch.cur
  BY <1>1, Executing
<1>3. /\ at0[Me] = "marked" /\ pc'[Me] = "int80"
      /\ \A p \in Slots \ {Me} : pc'[p] = at0[p]
  BY <1>1, <1>2
<1>4. IsSch(s) /\ Sound(s, at0, ReadyChain(sch), SleepChain(sch)) /\ s.cur = sch.cur
  BY <1>1, <1>2, MarkAsleepKeeps
<1>5. Drowsed(s)
  BY <1>1, MarkAsleepIs
<1> HIDE DEF at0, s
<1>6. Me \in Slots \ {Idle} /\ Me = s.cur
  BY <1>2, <1>4
<1>7. Linking(pc', s, at0, Me)
  BY <1>3, <1>6 DEF Linking
<1>8. SameProcesses(sch', s)
  BY ONLY Zenon, <1>1, <1>4, <1>7, QueueFacts DEF QueueFacts, InsertFact
<1> QED BY <1>5, <1>8 DEF SameProcesses, SameRest, Drowsed

LEMMA SleepMarkIs ==
  ASSUME OInv, NEW n, SleepMark(n)
  PROVE  sch'.state = [sch.state EXCEPT ![Me] = "SLEEPING"] /\ sch'.cur = sch.cur /\ Drowsed(sch')
<1>1. InUser /\ sch' = MarkAsleep(n)
  BY DEF SleepMark
<1> QED BY <1>1, MarkAsleepIs DEF Drowsed

LEMMA SleepQuiet == ASSUME QueueFacts, OInv, NEW n \in Nat, Sleep(n) \/ SleepMark(n) PROVE Quiet
<1>1. /\ InUser /\ pc' \in {[pc EXCEPT ![Me] = "int80"], [pc EXCEPT ![Me] = "marked"]}
      /\ heap' = heap /\ arg' = arg
  BY DEF Sleep, SleepMark
<1>2. /\ sch.state \in [Slots -> States] /\ pc \in [Slots -> PcType] /\ Me \in Slots
      /\ sch.state[Me] = "RUNNING" /\ pc[Me] = "user"
  BY <1>1, Executing
<1>3. Drowsed(sch')
  BY SleepIs, SleepMarkIs
<1> HIDE DEF Me
<1>4. Moves(pc', arg', pc, arg, Me)
  BY <1>1, <1>2 DEF Moves
<1>5. sch'.state[Me] = "SLEEPING" /\ \A p \in Slots \ {Me} : sch'.state[p] = sch.state[p]
  BY <1>2, <1>3 DEF Drowsed
<1> QED BY <1>1, <1>2, <1>3, <1>4, <1>5, CurrentQuiet DEF Drowsed

LEMMA SleepLinkIs == ASSUME QueueFacts, OInv, SleepLink PROVE SameProcesses(sch', sch)
<1>1. /\ pc[Me] = "marked" /\ sch' = SleepInsert(sch, Me) /\ pc' = [pc EXCEPT ![Me] = "int80"]
  BY DEF SleepLink
<1>2. IsSch(sch) /\ Sound(sch, pc, ReadyChain(sch), SleepChain(sch)) /\ pc \in [Slots -> PcType]
  BY DEF OInv, SInv
<1>3. Me \in Slots \ {Idle} /\ Me = sch.cur
  BY <1>1, <1>2 DEF IsSch, Me, Sound, Inside
<1>4. pc'[Me] = "int80" /\ \A p \in Slots \ {Me} : pc'[p] = pc[p]
  BY <1>1, <1>2, <1>3
<1>5. Linking(pc', sch, pc, Me)
  BY <1>1, <1>3, <1>4 DEF Linking
<1> QED BY ONLY Zenon, <1>1, <1>2, <1>5, QueueFacts DEF QueueFacts, InsertFact

LEMMA SleepLinkQuiet == ASSUME QueueFacts, OInv, SleepLink PROVE Quiet
<1>1. pc[Me] = "marked" /\ pc' = [pc EXCEPT ![Me] = "int80"] /\ heap' = heap /\ arg' = arg
  BY DEF SleepLink
<1>2. Me \in Slots /\ pc \in [Slots -> PcType]
  BY DEF OInv, SInv, IsSch, Me
<1>3. SameProcesses(sch', sch)
  BY SleepLinkIs
<1> HIDE DEF Me
<1>4. \A p \in Slots : pc'[p] = "freeing" <=> pc[p] = "freeing"
  BY <1>1, <1>2
<1> QED BY <1>1, <1>3, <1>4 DEF Quiet, SameOwners, Undead, SameProcesses, SameRest

LEMMA BlockQuiet == ASSUME OInv, NEW ch, Block(ch) PROVE Quiet
<1>1. /\ InUser /\ sch' = [sch EXCEPT !.state[Me] = "BLOCKED", !.chan[Me] = ch]
      /\ pc' = [pc EXCEPT ![Me] = "int80"] /\ heap' = heap /\ arg' = arg
  BY DEF Block
<1>2. /\ SInv /\ DOMAIN sch = SchFields /\ sch.state \in [Slots -> States] /\ pc \in [Slots -> PcType]
      /\ Me \in Slots \ {Idle} /\ Me = sch.cur /\ sch.state[Me] = "RUNNING" /\ pc[Me] = "user"
  BY <1>1, Executing
<1> HIDE DEF Me
<1>3. /\ sch'.state = [sch.state EXCEPT ![Me] = "BLOCKED"] /\ sch'.kstack = sch.kstack
      /\ sch'.cr3 = sch.cr3 /\ sch'.pid = sch.pid /\ sch'.mmu = sch.mmu /\ sch'.cur = sch.cur
  BY <1>1, <1>2 DEF SchFields
<1>4. Moves(pc', arg', pc, arg, Me)
  BY <1>1, <1>2 DEF Moves
<1>5. sch'.state[Me] = "BLOCKED" /\ \A p \in Slots \ {Me} : sch'.state[p] = sch.state[p]
  BY <1>2, <1>3
<1> QED BY <1>1, <1>2, <1>3, <1>4, <1>5, CurrentQuiet

LEMMA ExitQuiet == ASSUME OInv, Exit PROVE Quiet
<1>1. /\ InUser /\ sch' = [sch EXCEPT !.state[Me] = "ZOMBIE"]
      /\ pc' = [pc EXCEPT ![Me] = "exiting"] /\ heap' = heap /\ arg' = arg
  BY DEF Exit
<1>2. /\ SInv /\ DOMAIN sch = SchFields /\ sch.state \in [Slots -> States] /\ pc \in [Slots -> PcType]
      /\ Me \in Slots \ {Idle} /\ Me = sch.cur /\ sch.state[Me] = "RUNNING" /\ pc[Me] = "user"
  BY <1>1, Executing
<1> HIDE DEF Me
<1>3. /\ sch'.state = [sch.state EXCEPT ![Me] = "ZOMBIE"] /\ sch'.kstack = sch.kstack
      /\ sch'.cr3 = sch.cr3 /\ sch'.pid = sch.pid /\ sch'.mmu = sch.mmu /\ sch'.cur = sch.cur
  BY <1>1, <1>2 DEF SchFields
<1>4. Moves(pc', arg', pc, arg, Me)
  BY <1>1, <1>2 DEF Moves
<1>5. sch'.state[Me] = "ZOMBIE" /\ \A p \in Slots \ {Me} : sch'.state[p] = sch.state[p]
  BY <1>2, <1>3
<1> QED BY <1>1, <1>2, <1>3, <1>4, <1>5, CurrentQuiet

LEMMA WakeupQuiet == ASSUME QueueFacts, OInv, NEW ch, Wakeup(ch) PROVE Quiet
<1> DEFINE W == Waiting(sch, ch)
<1>1. SInv
  BY DEF OInv
<1>2. heap' = heap /\ pc' = pc /\ arg' = arg
  BY DEF Wakeup
<1>3. Unblocked(sch', sch, W)
  BY <1>1, WakeupUnblocks DEF ChannelStage
<1>4. \A p \in W : sch.state[p] = "BLOCKED"
  BY DEF Waiting
<1> HIDE DEF W
<1> QED BY SMTT(30), <1>2, <1>3, <1>4 DEF Quiet, SameOwners, Undead, Unblocked

LEMMA KillQuiet == ASSUME QueueFacts, OInv, NEW id, Kill(id) PROVE Quiet
<1> DEFINE k == Min(Named(id))
<1>1. /\ Named(id) # {} /\ sch.state[k] \in KillStates /\ sch' = [sch EXCEPT !.state[k] = "ZOMBIE"]
      /\ heap' = heap /\ pc' = pc /\ arg' = arg
  BY DEF Kill
<1>2. Named(id) \in SUBSET Nat
  BY SMTT(30), ConstantsAssumption DEF Named, Slots
<1>3. k \in Named(id)
  BY <1>1, <1>2 DEF QueueFacts, ListFacts, MinFact
<1> HIDE DEF k
<1>4. k \in Slots
  BY <1>3 DEF Named
<1>5. sch.state[k] \in {"BLOCKED", "ZOMBIE"}
  BY <1>1 DEF OInv
<1>6. DOMAIN sch = SchFields /\ sch.state \in [Slots -> States]
  BY DEF OInv, SInv, IsSch
<1>7. /\ sch'.state = [sch.state EXCEPT ![k] = "ZOMBIE"]
      /\ sch'.kstack = sch.kstack /\ sch'.cr3 = sch.cr3 /\ sch'.pid = sch.pid /\ sch'.mmu = sch.mmu
      /\ sch'.cur = sch.cur
  BY <1>1, <1>6 DEF SchFields
<1>8. sch'.state[k] = "ZOMBIE" /\ \A p \in Slots \ {k} : sch'.state[p] = sch.state[p]
  BY <1>4, <1>6, <1>7
<1> QED BY SMTT(30), <1>1, <1>5, <1>7, <1>8 DEF Quiet, SameOwners, Undead

\* What a step may do to a dead process.
DeadStep ==
  \A p \in Slots : sch.state[p] = "ZOMBIE" =>
    /\ sch'.state[p] \in {"ZOMBIE", "UNUSED"}
    /\ sch'.state[p] = "UNUSED" => sch.cur # p /\ sch'.cur # p

LEMMA QuietDead == ASSUME Quiet PROVE DeadStep
BY DEF Quiet, Undead, DeadStep

LEMMA ReapDead ==
  ASSUME OInv, NEW id, pc[Me] \in {"user", "waiting"}, Me # Idle, WaitRound(id)
  PROVE  DeadStep
<1>1. SInv /\ DOMAIN sch = SchFields /\ sch.state \in [Slots -> States] /\ Me = sch.cur
  BY DEF OInv, SInv, IsSch, Me
<1>2. pc[Me] \notin {"int80", "exiting", "marked"}
  OBVIOUS
<1>3. Me \in Slots \ {Idle} /\ sch.state[Me] = "RUNNING"
  BY <1>1, <1>2, Running
<1>4. CASE Zombies(id) = {}
  <2>1. sch'.state = sch.state
    BY <1>1, <1>4 DEF WaitRound, SchFields
  <2> QED BY <2>1 DEF DeadStep
<1>5. CASE Zombies(id) # {}
  <2> DEFINE z == Min(Zombies(id))
  <2>1. sch' = [sch EXCEPT !.kstack[z] = NULL, !.cr3[z] = NULL, !.state[z] = "UNUSED"]
    BY <1>5 DEF WaitRound
  <2> HIDE DEF z
  <2>2. sch'.state = [sch.state EXCEPT ![z] = "UNUSED"] /\ sch'.cur = sch.cur
    BY <1>1, <2>1 DEF SchFields
  <2> QED BY <1>1, <1>3, <2>2 DEF DeadStep
<1> QED BY <1>4, <1>5

LEMMA SpawnDead == ASSUME QueueFacts, OInv, NEW shared, Spawn(shared) PROVE DeadStep
<1> DEFINE unused == {p \in Slots : sch.state[p] = "UNUSED"}
           p == Min(unused)
           space == IF shared THEN sch.cr3[Me] ELSE AllocFrom(Spaces \ heap)
           stack == IF space = NULL THEN NULL ELSE AllocFrom(Stacks \ heap)
<1>1. DOMAIN sch = SchFields /\ sch.state \in [Slots -> States]
  BY DEF OInv, SInv, IsSch
<1>2. /\ unused # {}
      /\ \/ sch' = Fresh(sch, p, "UNUSED", NULL, space)
         \/ sch' = Enqueue(Fresh(sch, p, "READY", stack, space), p)
  BY DEF Spawn
<1>3. p \in unused
  <2>1. unused \in SUBSET Nat
    BY SMTT(30), ConstantsAssumption DEF Slots
  <2> QED BY <1>2, <2>1 DEF QueueFacts, ListFacts, MinFact
<1>4. p \in Slots /\ sch.state[p] = "UNUSED"
  BY <1>3
<1> HIDE DEF p, unused, space, stack
<1>5. \E u : sch'.state = [sch.state EXCEPT ![p] = u]
  <2>1. CASE sch' = Fresh(sch, p, "UNUSED", NULL, space)
    <3>1. sch'.state = [sch.state EXCEPT ![p] = "UNUSED"]
      BY <1>1, <2>1 DEF Fresh, SchFields
    <3> QED BY <3>1
  <2>2. CASE sch' = Enqueue(Fresh(sch, p, "READY", stack, space), p)
    <3> DEFINE fr == Fresh(sch, p, "READY", stack, space)
    <3>1. fr.state = [sch.state EXCEPT ![p] = "READY"] /\ DOMAIN fr = SchFields
      BY <1>1 DEF Fresh, SchFields
    <3> HIDE DEF fr
    <3>2. Enqueue(fr, p).state = fr.state
      BY <3>1 DEF Enqueue, SchFields
    <3> QED BY <2>2, <3>1, <3>2 DEF fr
  <2> QED BY <1>2, <2>1, <2>2
<1> QED BY <1>1, <1>4, <1>5 DEF DeadStep

LEMMA OwnersNext == ASSUME QueueFacts, OInv, Next PROVE OwnersKept /\ DeadStep
<1>1. /\ SInv /\ Irqs = {} /\ sch.state[Idle] = "RUNNING" /\ pc[Idle] = "user" /\ Equipped(sch)
      /\ DOMAIN sch = SchFields
  BY DEF OInv, SInv, Sound, Listed, Inside, Owners, IsSch
<1>2. ASSUME Quiet PROVE OwnersKept /\ DeadStep
  BY <1>2, QuietKeeps, QuietDead
<1>3. CASE CreateProcess
  <2>1. sch.state[Me] = "RUNNING" /\ Spawn(FALSE)
    BY <1>1, <1>3 DEF CreateProcess
  <2> QED BY <2>1, SpawnOwners, SpawnDead
<1>4. CASE CreateKthread
  <2>1. sch.state[Me] = "RUNNING" /\ Spawn(TRUE) /\ sch.cr3[Me] = KPML4
    BY <1>1, <1>4 DEF CreateKthread, Equipped
  <2> QED BY <2>1, SpawnOwners, SpawnDead
<1>5. CASE Fork
  <2>1. sch.state[Me] = "RUNNING" /\ Spawn(sch.cr3[Me] = KPML4)
    BY <1>5, Executing DEF Fork
  <2> QED BY <2>1, SpawnOwners, SpawnDead
<1>6. CASE Exec
  <2>1. OwnersKept
    BY <1>6, ExecOwners
  <2>2. sch'.state = sch.state
    BY <1>1, <1>6 DEF Exec, SchFields
  <2> QED BY <2>1, <2>2 DEF DeadStep
<1>7. CASE Yield \/ Exit
  BY <1>2, <1>7, YieldQuiet, ExitQuiet
<1>8. ASSUME NEW n \in 1 .. MaxSleep, Sleep(n) \/ SleepMark(n) PROVE OwnersKept /\ DeadStep
  <2>1. n \in Nat
    BY SMTT(30), ConstantsAssumption
  <2> QED BY <1>2, <1>8, <2>1, SleepQuiet
<1>9. ASSUME NEW ch, Block(ch) \/ Wakeup(ch) PROVE OwnersKept /\ DeadStep
  BY <1>2, <1>9, BlockQuiet, WakeupQuiet
<1>10. ASSUME NEW id, Waitpid(id) PROVE OwnersKept /\ DeadStep
  <2>1. pc[Me] \in {"user", "waiting"} /\ Me # Idle /\ WaitRound(id)
    BY <1>10 DEF Waitpid, InUser
  <2> QED BY SMTT(30), <2>1, ReapOwners, ReapDead
<1>11. ASSUME NEW id, Kill(id) PROVE OwnersKept /\ DeadStep
  BY <1>2, <1>11, KillQuiet
<1>12. CASE KernelStep
  <2>1. CASE WaitAgain
    <3>1. PICK id : WaitRound(id)
      BY <2>1 DEF WaitAgain
    <3>2. pc[Me] \in {"user", "waiting"} /\ Me # Idle
      BY <1>1, <2>1 DEF WaitAgain
    <3> QED BY SMTT(30), <3>1, <3>2, ReapOwners, ReapDead
  <2>2. CASE IrqWaitAgain
    <3>1. PICK i : IrqWaitRound(i)
      BY <2>2 DEF IrqWaitAgain
    <3>2. pc[Me] # "freeing"
      BY <2>2 DEF IrqWaitAgain
    <3> QED BY <1>2, <3>1, <3>2, IrqWaitQuiet
  <2>3. CASE FreeReaped
    <3>1. sch' = sch
      BY <2>3 DEF FreeReaped
    <3> QED BY <2>3, <3>1, FreeReapedOwners DEF DeadStep
  <2> QED BY SMTT(30), <1>2, <1>12, <2>1, <2>2, <2>3, SleepLinkQuiet, Int80Quiet DEF KernelStep
<1>13. CASE Interrupt
  BY <1>1, <1>2, <1>13, TimerQuiet DEF Interrupt
<1>14. CASE SystemCall
  BY SMTT(30), <1>1, <1>5, <1>6, <1>7, <1>8, <1>9, <1>10, <1>11, <1>14 DEF SystemCall
<1> QED BY SMTT(30), <1>3, <1>4, <1>12, <1>13, <1>14 DEF Next

LEMMA OInvNext == ASSUME QueueFacts, OInv, [Next]_vars PROVE OInv'
<1>1. SInv /\ KillStates \subseteq {"BLOCKED", "ZOMBIE"} /\ Irqs = {} /\ Owners(sch, pc, arg, heap)
  BY DEF OInv
<1>2. SInv'
  BY <1>1, SInvNext
<1>3. OwnersKept
  <2>1. CASE Next
    BY <2>1, OwnersNext
  <2>2. CASE UNCHANGED vars
    BY <1>1, <2>2 DEF vars, OwnersKept
  <2> QED BY <2>1, <2>2
<1> QED BY <1>1, <1>2, <1>3 DEF OInv, OwnersKept

LEMMA OInvInit ==
  ASSUME QueueFacts, Init, Irqs = {}, KillStates \subseteq {"BLOCKED", "ZOMBIE"} PROVE OInv
<1>1. Idle \in Slots /\ 1 \in Stacks /\ 1 # KPML4 /\ KPML4 # NULL
  BY SMTT(30), ConstantsAssumption DEF Idle, Slots, Stacks
<1>2. /\ sch.state = [p \in Slots |-> IF p = Idle THEN "RUNNING" ELSE "UNUSED"]
      /\ sch.kstack = [p \in Slots |-> IF p = Idle THEN 1 ELSE NULL]
      /\ sch.cr3 = [p \in Slots |-> IF p = Idle THEN KPML4 ELSE NULL]
      /\ sch.mmu = KPML4 /\ sch.cur = Idle
      /\ heap = {1} /\ pc = [p \in Slots |-> "user"]
  BY DEF Init
<1>3. Lives(sch) = {Idle} /\ Owned(sch, Idle) = {1} /\ \A p \in Slots : Reaped(pc, arg, p) = {}
  BY SMTT(30), <1>1, <1>2 DEF Lives, Owned, Reaped
<1>4. Equipped(sch)
  BY <1>1, <1>2, <1>3 DEF Equipped
<1>5. Freeing(sch, pc, arg)
  BY <1>2 DEF Freeing
<1>6. Disjoint(sch, pc, arg) /\ Allocated(sch, pc, arg, heap)
  BY <1>1, <1>2, <1>3 DEF Disjoint, Allocated
<1> QED BY <1>4, <1>5, <1>6, SInvInit DEF OInv, Owners

LEMMA OInvOwner == ASSUME OInv PROVE OneOwnerEach
<1> DEFINE owned(p) == {sch.kstack[p], sch.cr3[p]} \ {KPML4}
           dying(p) == IF pc[p] = "freeing" THEN arg[p] \ {KPML4} ELSE {}
<1>1. Equipped(sch) /\ Disjoint(sch, pc, arg) /\ Allocated(sch, pc, arg, heap)
  BY DEF OInv, Owners
<1>2. Live = Lives(sch) /\ \A p : owned(p) = Owned(sch, p) /\ dying(p) = Reaped(pc, arg, p)
  BY DEF Live, Lives, Owned, Reaped
<1>3. sch.mmu = sch.cr3[Me]
  BY <1>1 DEF Equipped, Me
<1> HIDE DEF owned, dying
<1>4. /\ \A p, q \in Live : p # q => owned(p) \intersect owned(q) = {}
      /\ \A p, q \in Live : owned(p) \intersect dying(q) = {}
  BY <1>1, <1>2 DEF Disjoint
<1>5. \A x : x \in heap <=> \E p \in Live : x \in owned(p) \union dying(p)
  BY <1>1, <1>2 DEF Allocated
<1>6. heap = UNION {owned(p) \union dying(p) : p \in Live}
  BY <1>5
<1> QED BY <1>3, <1>4, <1>6 DEF OneOwnerEach, owned, dying

-----------------------------------------------------------------------------
(* The refinement.                                                         *)

\* A sequence without repetition of the members of S is one of their orders.
LEMMA OrderOf ==
  ASSUME CountFact, NEW S, NEW n \in Nat, NEW q \in [1 .. n -> S], \A x \in S : \E i \in 1 .. n : q[i] = x,
         \A i, j \in 1 .. n : q[i] = q[j] => i = j
  PROVE  q \in Abs!Orders(S)
<1>1. q \in Bijection(1 .. n, S)
  BY DEF Bijection, Injection, Surjection, IsInjective
<1>2. ExistsBijection(1 .. n, S)
  BY <1>1 DEF ExistsBijection
<1>3. Cardinality(S) = n
  BY <1>2 DEF CountFact
<1>4. Abs!Range(q) = S /\ Abs!IsInjective(q)
  BY SMTT(30) DEF Abs!Range, Abs!IsInjective
<1>5. Abs!Cardinality(S) = Cardinality(S)
  BY DEF Cardinality, Abs!Cardinality, IsFiniteSet, Abs!IsFiniteSet
<1> QED BY <1>3, <1>4, <1>5 DEF Abs!Orders

\* The queue that the links of the ready list lead along.
LEMMA QueueIs ==
  ASSUME QueueFacts, NEW s, NEW rq, NEW sq, Queues(s, rq, sq)
  PROVE  ReadyChain(s) = rq
<1>1. IsChain(s.next, s.head, rq)
  BY DEF Queues
<1> QED BY ONLY Zenon, <1>1, QueueFacts DEF ReadyChain, QueueFacts, ListFacts, ChainIsFact
LEMMA KeptQueue ==
  ASSUME QueueFacts, NEW rq, KeptWith(rq) PROVE ReadyChain(sch') = rq
<1>1. PICK sq : Queues(sch', rq, sq)
  BY DEF KeptWith, Sound
<1> QED BY ONLY Zenon, <1>1, QueueIs, QueueFacts

\* sched_do_switch is a switch of the abstract scheduler, for the sleepers it wakes.
LEMMA SwitchRefines ==
  ASSUME QueueFacts, CountFact, OInv, NEW s, IsSch(s), Alike(s, sch), Sound(s, pc, ReadyChain(sch), SleepChain(sch)),
         NEW now \in Nat, sch' = DoSwitch(s, now)
  PROVE  \E S \in SUBSET Slots : Abs!Switch(S)
<1> DEFINE rq == ReadyChain(sch)
           sq == SleepChain(sch)
           c == sch.cur
<1>1. PICK k \in 0 .. Len(sq) : SwitchResult(sch', s, rq, sq, now, k)
  BY DEF QueueFacts, SwitchIsFact
<1>2. /\ s.state = sch.state /\ s.pid = sch.pid /\ s.cur = c /\ s.pending = sch.pending
  BY DEF Alike, SchFields
<1>3. Queues(s, rq, sq) /\ Listed(s, rq, sq)
  BY DEF Sound
<1>4. Equipped(sch) /\ Irqs = {} /\ c \in Slots /\ sch.pending \in [Slots -> SUBSET Irqs]
      /\ sch.state \in [Slots -> States]
  BY DEF OInv, SInv, Owners, IsSch
<1> HIDE DEF rq, sq, c
<1> DEFINE q == [i \in 1 .. k |-> sq[i]]
           S == {sq[i] : i \in 1 .. k}
           cand == Candidates(s, rq, sq, k)
           requeue == sch.state[c] = "RUNNING" /\ c # Idle
<1>5. /\ rq \in Seq(Slots) /\ sq \in Seq(Slots) /\ Len(sq) \in Nat /\ Len(rq) \in Nat /\ k \in Nat /\ k <= Len(sq)
      /\ \A i, j \in 1 .. Len(sq) : sq[i] = sq[j] => i = j
  BY SMTT(30), <1>1, <1>3 DEF Queues, IsChain
<1>6. S \in SUBSET Slots /\ q \in [1 .. k -> S]
  BY SMTT(30), <1>5
<1>7. S \subseteq {p \in Slots \ {Idle} : sch.state[p] = "SLEEPING"}
  <2> SUFFICES ASSUME NEW i \in 1 .. k PROVE sq[i] # Idle /\ sch.state[sq[i]] = "SLEEPING"
    BY <1>6
  <2>1. i \in 1 .. Len(sq) /\ sq[i] \in Slots
    BY SMTT(30), <1>5
  <2>2. sch.pending[sq[i]] = {}
    BY <1>4, <2>1
  <2> QED BY SMTT(30), <1>2, <1>3, <2>1, <2>2 DEF Listed
<1>8. q \in Abs!Orders(S)
  <2>1. \A x \in S : \E i \in 1 .. k : q[i] = x
    OBVIOUS
  <2>2. \A i, j \in 1 .. k : q[i] = q[j] => i = j
    BY SMTT(30), <1>5
  <2> HIDE DEF q, S
  <2> QED BY ONLY Zenon, CountFact, <1>5, <1>6, <2>1, <2>2, OrderOf
<1>9. Requeued(s) <=> requeue
  <2>1. s.pid[Idle] = 0
    BY <1>3 DEF Listed
  <2>2. sch.state[c] = "RUNNING" => c \in Lives(sch)
    BY <1>4 DEF Lives
  <2> QED BY <1>2, <1>4, <2>1, <2>2 DEF Requeued, Equipped
<1>10. Joined(rq, sq, k) = rq \o q
  BY SMTT(30), <1>5 DEF Joined
<1>11. cand = IF requeue THEN Append(rq \o q, c) ELSE rq \o q
  BY <1>2, <1>9, <1>10 DEF Candidates
<1>12. Queues(sch', Behind(cand), Rest(sq, k)) /\ SwitchedTo(sch', s, sq, k, Chosen(cand))
  BY <1>1 DEF SwitchResult
<1>13. ReadyChain(sch') = Behind(cand)
  BY <1>12, QueueIs
<1>14. cand \in Seq(Slots)
  <2>1. q \in Seq(Slots)
    BY SMTT(30), <1>5
  <2> HIDE DEF q
  <2> QED BY SMTT(30), <1>4, <1>5, <1>11, <2>1
<1> HIDE DEF cand
<1> DEFINE n == IF cand = <<>> THEN Idle ELSE Head(cand)
<1>15. Chosen(cand) = n /\ Behind(cand) = IF cand = <<>> THEN <<>> ELSE Tail(cand)
  BY SMTT(30), <1>14 DEF Chosen, Behind
<1>16. sch'.state = [p \in Slots |-> IF p = n THEN "RUNNING"
                                     ELSE IF p = c /\ requeue THEN "READY"
                                     ELSE [r \in Slots |-> IF r \in S THEN "READY" ELSE sch.state[r]][p]]
  <2>1. \A p \in Slots : (\E i \in 1 .. k : sq[i] = p) <=> p \in S
    OBVIOUS
  <2>2. sch'.state = [p \in Slots |->
          IF p = Chosen(cand) THEN "RUNNING"
          ELSE IF (p = s.cur /\ Requeued(s)) \/ \E i \in 1 .. k : sq[i] = p THEN "READY"
          ELSE s.state[p]]
    BY <1>12 DEF SwitchedTo
  <2> HIDE DEF n, S, requeue
  <2> QED BY SMTT(30), <1>2, <1>9, <1>15, <2>1, <2>2
<1>17. sch'.cur = n
  BY <1>12, <1>15 DEF SwitchedTo
<1> HIDE DEF q, S
<1> DEFINE queued == IF requeue THEN Append(rq \o q, c) ELSE rq \o q
           first == IF queued = <<>> THEN Idle ELSE Head(queued)
<1>18. /\ ReadyChain(sch') = IF queued = <<>> THEN <<>> ELSE Tail(queued)
       /\ sch'.state = [p \in Slots |-> IF p = first THEN "RUNNING"
                                        ELSE IF p = c /\ requeue THEN "READY"
                                        ELSE [r \in Slots |-> IF r \in S THEN "READY" ELSE sch.state[r]][p]]
       /\ sch'.cur = first
  <2>1. cand = queued
    BY <1>11
  <2> HIDE DEF queued, requeue
  <2>2. n = first
    BY ONLY Zenon, <2>1
  <2> HIDE DEF n, first
  <2>3. ReadyChain(sch') = IF queued = <<>> THEN <<>> ELSE Tail(queued)
    BY ONLY Zenon, <1>13, <1>15, <2>1
  <2>4. sch'.state = [p \in Slots |-> IF p = first THEN "RUNNING"
                                     ELSE IF p = c /\ requeue THEN "READY"
                                     ELSE [r \in Slots |-> IF r \in S THEN "READY" ELSE sch.state[r]][p]]
    BY ONLY Zenon, <1>16, <2>2
  <2> QED BY ONLY Zenon, <1>17, <2>2, <2>3, <2>4
<1>19. Abs!Switch(S)
  BY ONLY Zenon, <1>7, <1>8, <1>18 DEF Abs!Switch, rq, c
<1> QED BY <1>6, <1>19

Stutter == sch'.state = sch.state /\ ReadyChain(sch') = ReadyChain(sch) /\ sch'.cur = sch.cur

AbsStep == Abs!Next \/ Stutter

LEMMA SwitchStep == ASSUME NEW S \in SUBSET Slots, Abs!Switch(S) PROVE AbsStep
BY DEF AbsStep, Abs!Next

LEMMA DoSwitchStep == ASSUME QueueFacts, CountFact, OInv, sch' = DoSwitch(sch, pit_ticks) PROVE AbsStep
<1>1. /\ IsSch(sch) /\ Alike(sch, sch) /\ Sound(sch, pc, ReadyChain(sch), SleepChain(sch))
      /\ pit_ticks \in Nat
  BY DEF OInv, SInv, Alike
<1>2. PICK S \in SUBSET Slots : Abs!Switch(S)
  BY <1>1, SwitchRefines
<1> QED BY <1>2, SwitchStep

LEMMA TimerStep == ASSUME QueueFacts, CountFact, OInv, TimerIrq PROVE AbsStep
<1>1. SInv /\ Irqs = {}
  BY DEF OInv
<1>2. PICK s : /\ Alike(s, sch) /\ IsSch(s) /\ Sound(s, pc, ReadyChain(sch), SleepChain(sch))
               /\ sch' = s \/ (sch' = DoSwitch(s, pit_ticks') /\ pit_ticks' \in Nat)
  BY <1>1, TimerIs
<1>3. CASE sch' = s
  <2>1. sch'.state = sch.state /\ sch'.cur = sch.cur
    BY <1>2, <1>3 DEF Alike, SchFields
  <2>2. Queues(sch', ReadyChain(sch), SleepChain(sch))
    BY <1>2, <1>3 DEF Sound
  <2>3. ReadyChain(sch') = ReadyChain(sch)
    BY ONLY Zenon, <2>2, QueueIs, QueueFacts
  <2> QED BY <2>1, <2>3 DEF AbsStep, Stutter
<1>4. CASE sch' = DoSwitch(s, pit_ticks') /\ pit_ticks' \in Nat
  <2>1. PICK S \in SUBSET Slots : Abs!Switch(S)
    BY <1>2, <1>4, SwitchRefines
  <2> QED BY <2>1, SwitchStep
<1> QED BY <1>2, <1>3, <1>4

\* Steps that leave the ready list as it is.
LEMMA SuspendStep ==
  ASSUME QueueFacts, OInv, InUser, NEW x \in {"SLEEPING", "BLOCKED", "ZOMBIE"}, KeptWith(ReadyChain(sch)),
         sch'.state = [sch.state EXCEPT ![Me] = x], sch'.cur = sch.cur
  PROVE  AbsStep
<1>1. Me # Idle /\ Me = sch.cur /\ sch.state[Me] = "RUNNING"
  BY Executing
<1>2. ReadyChain(sch') = ReadyChain(sch)
  BY KeptQueue
<1>3. Abs!Suspend(x)
  BY <1>1, <1>2 DEF Abs!Suspend, Abs!Waiting
<1> QED BY <1>3 DEF AbsStep, Abs!Next, Abs!States

LEMMA StutterStep ==
  ASSUME QueueFacts, KeptWith(ReadyChain(sch)), sch'.state = sch.state, sch'.cur = sch.cur PROVE AbsStep
<1>1. ReadyChain(sch') = ReadyChain(sch)
  BY KeptQueue
<1> QED BY <1>1 DEF AbsStep, Stutter

LEMMA SpawnStep ==
  ASSUME QueueFacts, OInv, sch.state[Me] = "RUNNING", NEW shared, Spawn(shared) PROVE AbsStep
<1>1. SInv
  BY DEF OInv
<1>2. CASE NotCreated
  BY <1>2, StutterStep DEF NotCreated
<1>3. ASSUME NEW p \in Slots, Created(p) PROVE AbsStep
  <2>1. ReadyChain(sch') = Append(ReadyChain(sch), p)
    BY <1>3, KeptQueue DEF Created
  <2>2. Abs!Create(p)
    BY <1>3, <2>1 DEF Created, Abs!Create
  <2> QED BY <2>2 DEF AbsStep, Abs!Next
<1> QED BY <1>1, <1>2, <1>3, SpawnKeeps

LEMMA WakeupStep == ASSUME QueueFacts, CountFact, OInv, NEW ch, Wakeup(ch) PROVE AbsStep
<1> DEFINE rq == ReadyChain(sch)
           sq == SleepChain(sch)
           W == Waiting(sch, ch)
<1>1. SInv /\ Queues(sch, rq, sq) /\ sch.state[Idle] = "RUNNING"
  BY DEF OInv, SInv, Sound, Listed
<1>2. Unblocked(sch', sch, W) /\ \E rq2 : Queues(sch', rq2, sq) /\ Grown(rq2, rq, W)
  BY <1>1, WakeupUnblocks DEF ChannelStage
<1>3. PICK rq2 : Queues(sch', rq2, sq) /\ Grown(rq2, rq, W)
  BY <1>2
<1>4. W \in SUBSET Slots /\ W \subseteq {p \in Slots \ {Idle} : sch.state[p] = "BLOCKED"}
  BY <1>1 DEF Waiting
<1> HIDE DEF rq, sq, W
<1>5. /\ rq \in Seq(Slots) /\ rq2 \in Seq(Slots) /\ Len(rq) \in Nat /\ Len(rq2) \in Nat /\ Len(rq) <= Len(rq2)
      /\ \A i, j \in 1 .. Len(rq2) : rq2[i] = rq2[j] => i = j
  BY SMTT(30), <1>1, <1>3 DEF Queues, IsChain, Grown
<1> DEFINE n == Len(rq2) - Len(rq)
           q == [i \in 1 .. n |-> rq2[i + Len(rq)]]
<1>6. n \in Nat /\ q \in [1 .. n -> W]
  BY SMTT(30), <1>3, <1>5 DEF Grown
<1>7. \A x \in W : \E i \in 1 .. n : q[i] = x
  <2> SUFFICES ASSUME NEW x \in W PROVE \E i \in 1 .. n : q[i] = x
    OBVIOUS
  <2>1. PICK i \in Len(rq) + 1 .. Len(rq2) : rq2[i] = x
    BY <1>3 DEF Grown
  <2>2. i - Len(rq) \in 1 .. n /\ q[i - Len(rq)] = x
    BY SMTT(30), <1>5, <2>1
  <2> QED BY <2>2
<1>8. \A i, j \in 1 .. n : q[i] = q[j] => i = j
  BY SMTT(30), <1>5
<1>9. rq2 = rq \o q
  BY SMTT(30), <1>3, <1>5 DEF Grown
<1> HIDE DEF q, n
<1>10. q \in Abs!Orders(W)
  BY ONLY Zenon, CountFact, <1>6, <1>7, <1>8, OrderOf
<1>11. ReadyChain(sch') = rq \o q
  BY <1>3, <1>9, QueueIs
<1>12. Abs!Wake(W)
  BY SMTT(30), <1>2, <1>4, <1>10, <1>11 DEF Abs!Wake, Unblocked, rq
<1> QED BY <1>4, <1>12 DEF AbsStep, Abs!Next

LEMMA ReapStep ==
  ASSUME QueueFacts, OInv, NEW id, pc[Me] \in {"user", "waiting"}, Me # Idle, WaitRound(id)
  PROVE  AbsStep
<1>1. SInv /\ DOMAIN sch = SchFields /\ sch.state \in [Slots -> States] /\ Me = sch.cur
  BY DEF OInv, SInv, IsSch, Me
<1>2. pc[Me] \notin {"int80", "exiting", "marked"}
  OBVIOUS
<1>3. Me \in Slots \ {Idle} /\ sch.state[Me] = "RUNNING"
  BY <1>1, <1>2, Running
<1>4. KeptWith(ReadyChain(sch))
  BY SMTT(30), <1>1, ReapKeeps
<1>5. CASE Zombies(id) = {}
  <2>1. sch'.state = sch.state /\ sch'.cur = sch.cur
    BY <1>1, <1>5 DEF WaitRound, SchFields
  <2> QED BY <1>4, <2>1, StutterStep
<1>6. CASE Zombies(id) # {}
  <2> DEFINE z == Min(Zombies(id))
  <2>1. Zombies(id) \in SUBSET Nat
    BY SMTT(30), ConstantsAssumption DEF Zombies, Slots
  <2>2. z \in Zombies(id)
    BY <1>6, <2>1 DEF QueueFacts, ListFacts, MinFact
  <2>3. sch' = [sch EXCEPT !.kstack[z] = NULL, !.cr3[z] = NULL, !.state[z] = "UNUSED"]
    BY <1>6 DEF WaitRound
  <2> HIDE DEF z
  <2>4. z \in Slots /\ sch.state[z] = "ZOMBIE" /\ z # sch.cur
    BY <1>1, <1>3, <2>2 DEF Zombies
  <2>5. sch'.state = [sch.state EXCEPT ![z] = "UNUSED"] /\ sch'.cur = sch.cur
    BY <1>1, <2>3 DEF SchFields
  <2>6. ReadyChain(sch') = ReadyChain(sch)
    BY <1>4, KeptQueue
  <2>7. Abs!Reap(z)
    BY <2>4, <2>5, <2>6 DEF Abs!Reap
  <2> QED BY SMTT(30), <2>4, <2>7 DEF AbsStep, Abs!Next
<1> QED BY <1>5, <1>6

LEMMA KillStep == ASSUME QueueFacts, OInv, NEW id, Kill(id) PROVE AbsStep
<1> DEFINE k == Min(Named(id))
<1>1. SInv /\ DOMAIN sch = SchFields /\ sch.state \in [Slots -> States]
      /\ KillStates \subseteq {"BLOCKED", "ZOMBIE"}
  BY DEF OInv, SInv, IsSch
<1>2. Named(id) # {} /\ sch.state[k] \in KillStates /\ sch' = [sch EXCEPT !.state[k] = "ZOMBIE"]
  BY DEF Kill
<1>3. Named(id) \in SUBSET Nat
  BY SMTT(30), ConstantsAssumption DEF Named, Slots
<1>4. k \in Named(id)
  BY <1>2, <1>3 DEF QueueFacts, ListFacts, MinFact
<1> HIDE DEF k
<1>5. k \in Slots /\ sch.state[k] \in {"BLOCKED", "ZOMBIE"}
  BY <1>1, <1>2, <1>4 DEF Named
<1>6. KeptWith(ReadyChain(sch))
  BY <1>1, KillKeeps
<1>7. sch'.state = [sch.state EXCEPT ![k] = "ZOMBIE"] /\ sch'.cur = sch.cur
  BY <1>1, <1>2 DEF SchFields
<1>8. CASE sch.state[k] = "ZOMBIE"
  <2>1. sch'.state = sch.state
    BY <1>1, <1>5, <1>7, <1>8
  <2> QED BY <1>6, <1>7, <2>1, StutterStep
<1>9. CASE sch.state[k] = "BLOCKED"
  <2>1. ReadyChain(sch') = ReadyChain(sch)
    BY <1>6, KeptQueue
  <2>2. Abs!Kill(k)
    BY <1>7, <1>9, <2>1 DEF Abs!Kill
  <2> QED BY <1>5, <2>2 DEF AbsStep, Abs!Next
<1> QED BY <1>5, <1>8, <1>9

LEMMA RefinesNext == ASSUME QueueFacts, CountFact, OInv, Next PROVE AbsStep
<1>1. /\ SInv /\ Irqs = {} /\ sch.state[Idle] = "RUNNING" /\ pc[Idle] = "user"
      /\ DOMAIN sch = SchFields /\ sch.pending \in [Slots -> SUBSET Irqs] /\ Me \in Slots
  BY DEF OInv, SInv, Sound, Listed, Inside, IsSch, Me
<1>2. CASE CreateProcess \/ CreateKthread
  <2>1. sch.state[Me] = "RUNNING" /\ \E shared : Spawn(shared)
    BY <1>1, <1>2 DEF CreateProcess, CreateKthread
  <2> QED BY <2>1, SpawnStep
<1>3. CASE Fork
  <2>1. sch.state[Me] = "RUNNING" /\ Spawn(sch.cr3[Me] = KPML4)
    BY <1>3, Executing DEF Fork
  <2> QED BY <2>1, SpawnStep
<1>4. CASE Exec
  <2>1. KeptWith(ReadyChain(sch))
    BY <1>1, <1>4, ExecKeeps
  <2>2. sch'.state = sch.state /\ sch'.cur = sch.cur
    BY <1>1, <1>4 DEF Exec, SchFields
  <2> QED BY <2>1, <2>2, StutterStep
<1>5. CASE Yield
  BY <1>5, DoSwitchStep DEF Yield
<1>6. CASE Exit
  <2>1. KeptWith(ReadyChain(sch)) /\ InUser
    BY <1>1, <1>6, ExitKeeps DEF Exit
  <2>2. sch'.state = [sch.state EXCEPT ![Me] = "ZOMBIE"] /\ sch'.cur = sch.cur
    BY <1>1, <1>6 DEF Exit, SchFields
  <2> QED BY <2>1, <2>2, SuspendStep
<1>7. ASSUME NEW m \in 1 .. MaxSleep, Sleep(m) \/ SleepMark(m) PROVE AbsStep
  <2>1. m \in Nat
    BY SMTT(30), ConstantsAssumption
  <2>2. KeptWith(ReadyChain(sch)) /\ InUser
    BY <1>1, <1>7, <2>1, SleepKeeps, SleepMarkKeeps DEF Sleep, SleepMark
  <2>3. sch'.state = [sch.state EXCEPT ![Me] = "SLEEPING"] /\ sch'.cur = sch.cur
    BY <1>7, <2>1, SleepIs, SleepMarkIs
  <2> QED BY <2>2, <2>3, SuspendStep
<1>8. ASSUME NEW ch \in Channels, Block(ch) PROVE AbsStep
  <2>1. KeptWith(ReadyChain(sch)) /\ InUser
    BY <1>1, <1>8, BlockKeeps DEF Block
  <2>2. sch'.state = [sch.state EXCEPT ![Me] = "BLOCKED"] /\ sch'.cur = sch.cur
    BY <1>1, <1>8 DEF Block, SchFields
  <2> QED BY <2>1, <2>2, SuspendStep
<1>9. ASSUME NEW id, Waitpid(id) PROVE AbsStep
  <2>1. pc[Me] \in {"user", "waiting"} /\ Me # Idle /\ WaitRound(id)
    BY <1>9 DEF Waitpid, InUser
  <2> QED BY SMTT(30), <2>1, ReapStep
<1>10. CASE KernelStep
  <2>1. CASE SleepLink
    <3>1. KeptWith(ReadyChain(sch))
      BY <1>1, <2>1, SleepLinkKeeps
    <3>2. sch'.state = sch.state /\ sch'.cur = sch.cur
      BY <2>1, SleepLinkIs DEF SameProcesses, SameRest
    <3> QED BY <3>1, <3>2, StutterStep
  <2>2. CASE Int80
    BY <2>2, DoSwitchStep DEF Int80
  <2>3. CASE WaitAgain
    <3>1. pc[Me] \in {"user", "waiting"} /\ Me # Idle /\ \E id : WaitRound(id)
      BY <1>1, <2>3 DEF WaitAgain
    <3> QED BY SMTT(30), <3>1, ReapStep
  <2>4. CASE FreeReaped
    BY <2>4 DEF FreeReaped, AbsStep, Stutter
  <2>5. CASE IrqWaitAgain
    <3>1. PICK i : IrqWaitRound(i)
      BY <2>5 DEF IrqWaitAgain
    <3>2. i \notin sch.pending[Me]
      BY <1>1
    <3>3. sch' = DoSwitch(sch, pit_ticks)
      BY <3>1, <3>2 DEF IrqWaitRound
    <3> QED BY <3>3, DoSwitchStep
  <2> QED BY SMTT(30), <1>10, <2>1, <2>2, <2>3, <2>4, <2>5 DEF KernelStep
<1>11. CASE Interrupt
  BY <1>1, <1>11, TimerStep DEF Interrupt
<1>12. CASE SystemCall
  BY SMTT(30), <1>1, <1>3, <1>4, <1>5, <1>6, <1>7, <1>8, <1>9, <1>12, WakeupStep, KillStep DEF SystemCall
<1> QED BY SMTT(30), <1>2, <1>10, <1>11, <1>12 DEF Next

LEMMA RefinesInit == ASSUME QueueFacts, Init PROVE Abs!Init
<1>1. SInv
  BY SInvInit
<1>2. /\ sch.state = [p \in Slots |-> IF p = Idle THEN "RUNNING" ELSE "UNUSED"]
      /\ sch.cur = Idle /\ sch.head = Idle /\ sch.next = [p \in Slots |-> NULL]
  BY DEF Init
<1>3. IsChain(sch.next, sch.head, ReadyChain(sch))
  BY <1>1 DEF SInv, Sound, Queues
<1>4. ReadyChain(sch) = <<Idle>>
  <2>1. IsChain(sch.next, sch.head, <<Idle>>)
    BY SMTT(30), <1>2, ConstantsAssumption DEF IsChain, At, Idle, Slots
  <2> QED BY ONLY Zenon, <2>1, QueueFacts DEF ReadyChain, QueueFacts, ListFacts, ChainIsFact
<1> QED BY <1>2, <1>4 DEF Abs!Init
=============================================================================
