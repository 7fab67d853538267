------------------------------- MODULE Sched --------------------------------
(***************************************************************************)
(* The scheduler of kernel/core/sched.c at the level of its data           *)
(* structures: the process table, the two intrusive lists threaded through *)
(* the one `next` field of a process, the tick counter, and the kernel     *)
(* stack and address space that every process owns.                        *)
(*                                                                         *)
(* The machine has one processor, so the interleaving is that of the       *)
(* current process with interrupts. An action is a stretch of code that    *)
(* runs with interrupts disabled, and pc[p] is where p stands between two  *)
(* such stretches; an interrupt may come in between any two actions.       *)
(***************************************************************************)
EXTENDS Integers, Sequences, FiniteSets, FiniteSetsExt

CONSTANTS
  NSlots,       \* MAX_PROCESSES
  Slice,        \* the time slice, in ticks
  TickMod,      \* pit_ticks and sleep_until count modulo this (2^32)
  PidLimit,     \* alloc_pid goes back to 1 here (10000)
  MaxSleep,     \* the longest sleep a process asks for, in ticks
  NStacks,      \* how many kernel stacks kmalloc has room for
  NSpaces,      \* how many address spaces the page allocator has room for
  Channels,     \* the addresses processes block on
  Irqs,         \* the interrupt lines processes may register for
  KillStates,   \* the states of the processes that sched_kill is called for
  SleepWithIF,  \* sched_sleep is also called with interrupts enabled
  NULL, KPML4   \* the null pointer; the kernel's page table at 0x1000

Slots == 0 .. NSlots - 1

Idle == 0

Stacks == 1 .. NStacks

Spaces == NStacks + 1 .. NStacks + NSpaces

ASSUME ConstantsAssumption ==
  /\ {NSlots, Slice, TickMod, PidLimit, MaxSleep, NStacks, NSpaces}
       \subseteq Nat \ {0}
  /\ MaxSleep < TickMod
  /\ SleepWithIF \in BOOLEAN
  /\ NULL \notin Slots \union Stacks \union Spaces \union {KPML4}
  /\ KPML4 \notin Stacks \union Spaces

VARIABLES
  sch,        \* the process table, the queues, `current` and the loaded CR3
  pit_ticks,  \* the tick counter
  next_pid,   \* the pid alloc_pid returns next
  heap,       \* the allocated kernel stacks and address spaces
  pc,         \* where each process stands in the kernel
  arg         \* the pid or irq a process waits for, or what it has to free

vars == <<sch, pit_ticks, next_pid, heap, pc, arg>>

States == {"UNUSED", "READY", "RUNNING", "SLEEPING", "BLOCKED", "ZOMBIE"}

-----------------------------------------------------------------------------
\* The queues. s is always a value of the variable sch.

\* Faulty variant: the process goes to the front.
EnqueueInFront(s, p) ==
  IF s.state[p] # "READY" THEN s
  ELSE [s EXCEPT !.next[p] = s.head, !.head = p,
                 !.tail = IF s.head = NULL THEN p ELSE @]

Enqueue(s, p) ==
  IF s.state[p] # "READY" THEN s
  ELSE IF s.head = NULL
  THEN [s EXCEPT !.next[p] = NULL, !.head = p, !.tail = p]
  ELSE [s EXCEPT !.next[p] = NULL, !.next[s.tail] = p, !.tail = p]

\* Faulty variant: ready_queue_tail is not reset.
DequeueKeepsTail(s) ==
  IF s.head = NULL THEN s
  ELSE [s EXCEPT !.head = s.next[s.head], !.next[s.head] = NULL]

Dequeue(s) ==
  IF s.head = NULL THEN s
  ELSE [s EXCEPT !.head = s.next[s.head],
                 !.tail = IF s.next[s.head] = NULL THEN NULL ELSE @,
                 !.next[s.head] = NULL]

\* The slots linked from h, in order; cut off when the links run in a circle.
Chain(s, h) ==
  LET after(q) == IF q = <<>> THEN h ELSE s.next[q[Len(q)]]
      longer == [q \in Seq(Slots) |-> IF after(q) = NULL THEN q ELSE Append(q, after(q))]
      walked[n \in 0 .. NSlots + 1] == IF n = 0 THEN <<>> ELSE longer[walked[n - 1]]
  IN  walked[NSlots + 1]

ReadyChain(s) == Chain(s, s.head)

SleepChain(s) == Chain(s, s.sleep)

\* The list gets p between prev and at.
LinkSleeper(s, prev, at, p) ==
  IF prev = NULL THEN [s EXCEPT !.next[p] = at, !.sleep = p]
  ELSE [s EXCEPT !.next[p] = at, !.next[prev] = p]

\* sched_sleep puts p behind every sleeper that wakes no later.
SleepInsert(s, p) ==
  LET q == SleepChain(s)
      k == Min({i \in DOMAIN q : s.until[q[i]] > s.until[p]} \union {Len(q) + 1})
  IN  LinkSleeper(s, IF k = 1 THEN NULL ELSE q[k - 1],
                  IF k > Len(q) THEN NULL ELSE q[k], p)

\* The sleeper p, behind w.prev, leaves the list for the ready queue.
WakeOne(w, p) ==
  LET s   == w.s
      out == IF w.prev = NULL THEN [s EXCEPT !.sleep = s.next[p]]
             ELSE [s EXCEPT !.next[w.prev] = s.next[p]]
  IN  [w EXCEPT !.s = Enqueue([out EXCEPT !.next[p] = NULL, !.state[p] = "READY",
                                          !.until[p] = 0], p)]

\* Faulty variant: < for <=.
VisitSleeperLate(w, p, now) ==
  IF w.s.until[p] < now THEN WakeOne(w, p) ELSE [w EXCEPT !.prev = p]

VisitSleeper(w, p, now) ==
  IF w.s.until[p] <= now THEN WakeOne(w, p) ELSE [w EXCEPT !.prev = p]

\* The loop of sched_do_switch over the sleepers, after n of them: the ones whose
\* time has come go to the ready queue.
WakeSleepers(s, now) ==
  LET q == SleepChain(s)
      visited[n \in 0 .. Len(q)] ==
        IF n = 0 THEN [s |-> s, prev |-> NULL]
        ELSE VisitSleeper(visited[n - 1], q[n], now)
  IN  visited[Len(q)].s

\* Faulty variant: the current process is queued in whatever state it is.
DoSwitchRequeuesAny(s, now) ==
  LET c      == s.cur
      woken  == WakeSleepers(s, now)
      queued == IF woken.pid[c] # 0
                THEN Enqueue([woken EXCEPT !.state[c] = "READY"], c)
                ELSE woken
      n      == IF queued.head = NULL THEN Idle ELSE queued.head
  IN  [Dequeue(queued) EXCEPT !.state[n] = "RUNNING", !.resched = FALSE,
                              !.ticks = Slice, !.mmu = s.cr3[n], !.cur = n]

\* sched_do_switch. A process's ticks_left is only read while it is current and
\* is set again when it becomes so: sch.ticks is the current one's.
DoSwitch(s, now) ==
  LET c       == s.cur
      woken   == WakeSleepers(s, now)
      queued  == IF woken.state[c] = "RUNNING" /\ woken.pid[c] # 0
                 THEN Enqueue([woken EXCEPT !.state[c] = "READY"], c)
                 ELSE woken
      n       == IF queued.head = NULL THEN Idle ELSE queued.head
      running == [Dequeue(queued) EXCEPT !.state[n] = "RUNNING",
                                         !.resched = FALSE]
  IN  IF n = c THEN running
      ELSE [running EXCEPT
              !.ticks = Slice,
              !.mmu = IF s.cr3[c] # s.cr3[n] THEN s.cr3[n] ELSE @,
              !.cur = n]

\* sched_tick, for the tick that makes the time now.
Tick(s, now) ==
  LET c    == s.cur
      left == IF s.ticks > 0 THEN s.ticks - 1 ELSE 0
      over == left = 0 /\ s.state[c] = "RUNNING"
      due  == \E p \in Range(SleepChain(s)) : s.until[p] <= now
  IN  [s EXCEPT !.ticks = IF over THEN Slice ELSE left,
                !.resched = @ \/ over \/ due]

\* sched_wake_irq: the process becomes READY and goes on no queue.
WakeIrq(s, irq) ==
  LET hit == {p \in Slots : /\ s.state[p] \notin {"READY", "RUNNING"}
                            /\ irq \in s.mask[p]}
  IN  [s EXCEPT
         !.pending = [p \in Slots |-> IF p \in hit THEN @[p] \union {irq}
                                      ELSE @[p]],
         !.state = [p \in Slots |-> IF p \in hit THEN "READY" ELSE @[p]],
         !.resched = @ \/ hit # {}]

\* sched_wakeup goes through the table from slot 0 up.
VisitSlot(s, p, ch) ==
  IF s.state[p] = "BLOCKED" /\ s.chan[p] = ch
  THEN Enqueue([s EXCEPT !.state[p] = "READY", !.chan[p] = NULL, !.resched = TRUE], p)
  ELSE s

WakeChannel(s, ch) ==
  LET visited[n \in 0 .. NSlots] ==
        IF n = 0 THEN s ELSE VisitSlot(visited[n - 1], n - 1, ch)
  IN  visited[NSlots]

-----------------------------------------------------------------------------

Init ==
  /\ sch = [state   |-> [p \in Slots |-> IF p = Idle THEN "RUNNING"
                                         ELSE "UNUSED"],
            pid     |-> [p \in Slots |-> 0],
            next    |-> [p \in Slots |-> NULL],
            until   |-> [p \in Slots |-> 0],
            chan    |-> [p \in Slots |-> NULL],
            ticks   |-> Slice,
            kstack  |-> [p \in Slots |-> IF p = Idle THEN 1 ELSE NULL],
            cr3     |-> [p \in Slots |-> IF p = Idle THEN KPML4 ELSE NULL],
            mask    |-> [p \in Slots |-> {}],
            pending |-> [p \in Slots |-> {}],
            head    |-> Idle,
            tail    |-> Idle,
            sleep   |-> NULL,
            cur     |-> Idle,
            resched |-> FALSE,
            mmu     |-> KPML4]
  /\ pit_ticks = 0
  /\ next_pid = 1
  /\ heap = {1}
  /\ pc = [p \in Slots |-> "user"]
  /\ arg = [p \in Slots |-> {}]

Me == sch.cur

\* A process other than the idle one is current, outside the kernel.
InUser == Me # Idle /\ pc[Me] = "user"

\* The slot p after memset and the initialisation of its fields.
Fresh(s, p, state, stack, space) ==
  [s EXCEPT !.state[p] = state, !.pid[p] = next_pid, !.kstack[p] = stack,
            !.cr3[p] = space, !.next[p] = NULL, !.until[p] = 0,
            !.chan[p] = NULL, !.mask[p] = {}, !.pending[p] = {}]

AllocFrom(S) == IF S = {} THEN NULL ELSE Min(S)

\* alloc_pid.
NextPid == IF next_pid + 1 >= PidLimit THEN 1 ELSE next_pid + 1

\* The common part of the four functions that make a process: the first free
\* slot, a pid, an address space unless the parent's is shared, a stack. When
\* memory runs out the slot and what was allocated are given back, the pid is
\* not. With no free slot they return -1 and change nothing.
Spawn(shared) ==
  LET unused == {p \in Slots : sch.state[p] = "UNUSED"}
      p      == Min(unused)
      space  == IF shared THEN sch.cr3[Me] ELSE AllocFrom(Spaces \ heap)
      stack  == IF space = NULL THEN NULL ELSE AllocFrom(Stacks \ heap)
  IN  /\ unused # {}
      /\ next_pid' = NextPid
      /\ IF stack = NULL
         THEN /\ sch' = Fresh(sch, p, "UNUSED", NULL, space)
              /\ heap' = heap
         ELSE /\ sch' = Enqueue(Fresh(sch, p, "READY", stack, space), p)
              /\ heap' = heap \union ({space, stack} \ {KPML4})
      /\ pc' = [pc EXCEPT ![p] = "user"]
      /\ UNCHANGED <<pit_ticks, arg>>

\* sched_create_process, from spawn_userspace_init at boot.
CreateProcess == Me = Idle /\ Spawn(FALSE)

\* sched_create_kthread, from the boot context.
CreateKthread == Me = Idle /\ Spawn(TRUE)

\* Faulty variant: the child runs in its parent's address space.
ForkShares == InUser /\ Spawn(TRUE)

\* sched_fork and sched_clone: only a kernel thread's space is not copied.
Fork == InUser /\ Spawn(sch.cr3[Me] = KPML4)

\* sys_exec, which keeps interrupts disabled: a new address space is loaded,
\* then the one that was loaded before is freed.
Exec ==
  LET space == AllocFrom(Spaces \ heap)
  IN  /\ InUser
      /\ space # NULL
      /\ sch' = [sch EXCEPT !.cr3[Me] = space, !.mmu = space]
      /\ heap' = (heap \union {space}) \ {sch.mmu}
      /\ UNCHANGED <<pit_ticks, next_pid, pc, arg>>

\* sched_yield from a system call.
Yield ==
  /\ InUser
  /\ sch' = DoSwitch(sch, pit_ticks)
  /\ UNCHANGED <<pit_ticks, next_pid, heap, pc, arg>>

MarkAsleep(n) ==
  [sch EXCEPT !.state[Me] = "SLEEPING", !.until[Me] = (pit_ticks + n) % TickMod]

\* sched_sleep entered with interrupts disabled, up to its sti.
Sleep(n) ==
  /\ InUser
  /\ sch' = SleepInsert(MarkAsleep(n), Me)
  /\ pc' = [pc EXCEPT ![Me] = "int80"]
  /\ UNCHANGED <<pit_ticks, next_pid, heap, arg>>

\* sched_sleep entered with interrupts enabled, up to its cli ...
SleepMark(n) ==
  /\ SleepWithIF
  /\ InUser
  /\ sch' = MarkAsleep(n)
  /\ pc' = [pc EXCEPT ![Me] = "marked"]
  /\ UNCHANGED <<pit_ticks, next_pid, heap, arg>>

\* ... and from there to its sti.
SleepLink ==
  /\ pc[Me] = "marked"
  /\ sch' = SleepInsert(sch, Me)
  /\ pc' = [pc EXCEPT ![Me] = "int80"]
  /\ UNCHANGED <<pit_ticks, next_pid, heap, arg>>

\* sched_block_on, up to its sti.
Block(ch) ==
  /\ InUser
  /\ sch' = [sch EXCEPT !.state[Me] = "BLOCKED", !.chan[Me] = ch]
  /\ pc' = [pc EXCEPT ![Me] = "int80"]
  /\ UNCHANGED <<pit_ticks, next_pid, heap, arg>>

\* sched_wakeup.
Wakeup(ch) ==
  /\ InUser
  /\ sch' = WakeChannel(sch, ch)
  /\ UNCHANGED <<pit_ticks, next_pid, heap, pc, arg>>

\* sched_exit, up to its sti: a system call, a fault or the end of a thread.
Exit ==
  /\ InUser
  /\ sch' = [sch EXCEPT !.state[Me] = "ZOMBIE"]
  /\ pc' = [pc EXCEPT ![Me] = "exiting"]
  /\ UNCHANGED <<pit_ticks, next_pid, heap, arg>>

\* The int 0x80 that ends sched_sleep, sched_block_on, sched_exit and the
\* sched_yield of sched_waitpid, reached with interrupts enabled.
AfterInt80 == [int80 |-> "user", exiting |-> "dead", yielding |-> "waiting"]

Int80 ==
  /\ pc[Me] \in DOMAIN AfterInt80
  /\ sch' = DoSwitch(sch, pit_ticks)
  /\ pc' = [pc EXCEPT ![Me] = AfterInt80[pc[Me]]]
  /\ UNCHANGED <<pit_ticks, next_pid, heap, arg>>

Named(id) == {p \in Slots : sch.pid[p] = id /\ sch.state[p] # "UNUSED"}

Zombies(id) == {p \in Slots : sch.pid[p] = id /\ sch.state[p] = "ZOMBIE"}

\* One round of the loop of sched_waitpid, from its cli to its sti.
WaitRound(id) ==
  IF Zombies(id) = {}
  THEN /\ sch' = [sch EXCEPT !.resched = TRUE]
       /\ pc' = [pc EXCEPT ![Me] = "yielding"]
       /\ arg' = [arg EXCEPT ![Me] = {id}]
       /\ UNCHANGED <<pit_ticks, next_pid, heap>>
  ELSE LET z == Min(Zombies(id))
       IN  /\ sch' = [sch EXCEPT !.kstack[z] = NULL, !.cr3[z] = NULL,
                                 !.state[z] = "UNUSED"]
           /\ pc' = [pc EXCEPT ![Me] = "freeing"]
           /\ arg' = [arg EXCEPT ![Me] = {sch.kstack[z], sch.cr3[z]}]
           /\ UNCHANGED <<pit_ticks, next_pid, heap>>

Waitpid(id) == InUser /\ WaitRound(id)

\* Faulty variant: the table is not searched again.
WaitNeverAgain ==
  /\ pc[Me] = "waiting"
  /\ pc' = [pc EXCEPT ![Me] = "yielding"]
  /\ UNCHANGED <<sch, pit_ticks, next_pid, heap, arg>>

WaitAgain == pc[Me] = "waiting" /\ \E id \in arg[Me] : WaitRound(id)

\* sched_waitpid frees what the dead process owned, interrupts enabled.
FreeReaped ==
  /\ pc[Me] = "freeing"
  /\ heap' = heap \ arg[Me]
  /\ pc' = [pc EXCEPT ![Me] = "user"]
  /\ arg' = [arg EXCEPT ![Me] = {}]
  /\ UNCHANGED <<sch, pit_ticks, next_pid>>

\* sched_kill: whatever the process was doing, it is marked dead in place.
Kill(id) ==
  /\ InUser
  /\ Named(id) # {}
  /\ sch.state[Min(Named(id))] \in KillStates
  /\ sch' = [sch EXCEPT !.state[Min(Named(id))] = "ZOMBIE"]
  /\ UNCHANGED <<pit_ticks, next_pid, heap, pc, arg>>

\* sys_irq_register.
IrqRegister(i) ==
  /\ InUser
  /\ sch' = [sch EXCEPT !.mask[Me] = @ \union {i}]
  /\ UNCHANGED <<pit_ticks, next_pid, heap, pc, arg>>

\* One round of the loop of sys_irq_wait.
IrqWaitRound(i) ==
  /\ IF i \in sch.pending[Me]
     THEN /\ sch' = [sch EXCEPT !.pending[Me] = @ \ {i}]
          /\ pc' = [pc EXCEPT ![Me] = "user"]
          /\ arg' = [arg EXCEPT ![Me] = {}]
     ELSE /\ sch' = DoSwitch(sch, pit_ticks)
          /\ pc' = [pc EXCEPT ![Me] = "irqwait"]
          /\ arg' = [arg EXCEPT ![Me] = {i}]
  /\ UNCHANGED <<pit_ticks, next_pid, heap>>

IrqWait(i) == InUser /\ IrqWaitRound(i)

IrqWaitAgain == pc[Me] = "irqwait" /\ \E i \in arg[Me] : IrqWaitRound(i)

\* The end of the common interrupt stub.
IrqReturn(s, now) == IF s.resched THEN DoSwitch(s, now) ELSE s

\* Interrupt 0: irq_handler_dispatch, pit_handler, and the stub's switch.
TimerIrq ==
  LET now == (pit_ticks + 1) % TickMod
  IN  /\ pit_ticks' = now
      /\ sch' = IrqReturn(Tick(WakeIrq(sch, 0), now), now)
      /\ UNCHANGED <<next_pid, heap, pc, arg>>

\* Any other interrupt line.
DeviceIrq(i) ==
  /\ i # 0
  /\ sch' = IrqReturn(WakeIrq(sch, i), pit_ticks)
  /\ UNCHANGED <<pit_ticks, next_pid, heap, pc, arg>>

\* What the current process does next once it is inside the kernel.
KernelStep ==
  SleepLink \/ Int80 \/ WaitAgain \/ FreeReaped \/ IrqWaitAgain

SystemCall ==
  \/ Fork \/ Exec \/ Yield \/ Exit
  \/ \E n \in 1 .. MaxSleep : Sleep(n) \/ SleepMark(n)
  \/ \E ch \in Channels : Block(ch) \/ Wakeup(ch)
  \/ \E id \in 1 .. PidLimit - 1 : Waitpid(id) \/ Kill(id)
  \/ \E i \in Irqs : IrqRegister(i) \/ IrqWait(i)

Interrupt == TimerIrq \/ \E i \in Irqs : DeviceIrq(i)

Next == CreateProcess \/ CreateKthread \/ SystemCall \/ KernelStep \/ Interrupt

Spec == Init /\ [][Next]_vars

InKernel == pc[Me] \notin {"user", "dead"}

\* The timer keeps ticking, and a process that is given the processor again
\* and again while it is inside the kernel gets on there: a time slice is far
\* longer than any of these stretches of code. Nothing is assumed of user code.
\* TimerIrq is always enabled and KernelStep is whenever InKernel holds, so
\* this is weak fairness of the first and strong fairness of the second for
\* each process, written without ENABLED.
Fairness ==
  /\ []<><<TimerIrq>>_vars
  /\ \A p \in Slots : \/ <>[]~(Me = p /\ InKernel)
                      \/ []<><<Me = p /\ KernelStep>>_vars

FairSpec == Spec /\ Fairness

-----------------------------------------------------------------------------

OnReady == Range(ReadyChain(sch))

OnSleep == Range(SleepChain(sch))

Live == {p \in Slots : sch.state[p] # "UNUSED"}

\* The two lists share the field `next`, and still: each is free of cycles,
\* they have no process in common, the ready list ends at ready_queue_tail,
\* everything on it may be dispatched, and the sleep list is in the order of
\* sleep_until that sched_sleep inserts by.
ListsWellFormed ==
  /\ IsInjective(ReadyChain(sch)) /\ IsInjective(SleepChain(sch))
  /\ OnReady \intersect OnSleep = {}
  /\ IF sch.head = NULL THEN sch.tail = NULL
     ELSE sch.tail = ReadyChain(sch)[Len(ReadyChain(sch))]
  /\ \A p \in OnReady \ {Idle} : sch.state[p] = "READY"
  /\ \A i, j \in DOMAIN SleepChain(sch) :
       i < j => sch.until[SleepChain(sch)[i]] <= sch.until[SleepChain(sch)[j]]

\* No process is lost: one that could run is on the ready list, one that
\* sleeps is on the sleep list. The exceptions are the two the code has: a
\* process interrupted in sched_sleep between `state = PROC_SLEEPING` and the
\* cli, and one that sched_wake_irq marked READY without queueing it.
NobodyLost ==
  /\ {p \in Slots \ {Idle} : sch.state[p] = "READY" /\ sch.pending[p] = {}} \subseteq OnReady
  /\ {p \in Slots : sch.state[p] = "SLEEPING" /\ pc[p] # "marked"} \subseteq OnSleep

\* What sched_enqueue, sched_dequeue, sched_sleep and the wake-ups keep through
\* every interleaving: the two lists are well formed and nobody is missing.
QueuesExact == ListsWellFormed /\ NobodyLost

\* Memory in use has one owner and is never free, and nothing allocated is
\* forgotten: each stack and each user address space ("Each user process has its
\* own address space") belongs to one process in the table, the dying one whose
\* last instructions run on its own stack included, or is about to be freed by
\* the one that reaped it; the loaded page table is the current process's.
OneOwnerEach ==
  LET owned(p) == {sch.kstack[p], sch.cr3[p]} \ {KPML4}
      dying(p) == IF pc[p] = "freeing" THEN arg[p] \ {KPML4} ELSE {}
  IN  /\ sch.mmu = sch.cr3[Me]
      /\ \A p, q \in Live : p # q => owned(p) \intersect owned(q) = {}
      /\ \A p, q \in Live : owned(p) \intersect dying(q) = {}
      /\ heap = UNION {owned(p) \union dying(p) : p \in Live}

\* A process that has exited never executes again: its state only changes when
\* sched_waitpid reaps it, which waits until it is off the processor's stack.
DeadStayDead ==
  [][\A p \in Slots : sch.state[p] = "ZOMBIE" =>
       /\ sch'.state[p] \in {"ZOMBIE", "UNUSED"}
       /\ sch'.state[p] = "UNUSED" => sch.cur # p /\ sch'.cur # p]_vars

\* Every process on the ready list is dispatched, and every process that went
\* to sleep runs again, also across the overflow of the tick counter.
EveryoneRuns ==
  \A p \in Slots : /\ (p \in OnReady) ~> (sch.cur = p)
                   /\ (p \in OnSleep) ~> (sch.cur = p)

\* A parent in sched_waitpid whose child is dead does not spin for ever: the
\* child is reaped, by this parent or by another one.
WaiterReaps ==
  \A p \in Slots :
    LET waits == /\ pc[p] \in {"waiting", "yielding"}
                 /\ \E id \in arg[p] : Zombies(id) # {}
    IN  waits ~> ~waits
=============================================================================
