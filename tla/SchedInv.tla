----------------------------- MODULE SchedInv ------------------------------
(***************************************************************************)
(* What is invariant of the scheduler (Sched), and the vocabulary its      *)
(* proofs share: lists as the links of the process table hold them, the    *)
(* inductive invariant SInv, and what each proof module shows for the next. *)
(***************************************************************************)
EXTENDS Sched

\* The i-th of q, NULL behind its end.
At(q, i) == IF i \in 1 .. Len(q) THEN q[i] ELSE NULL

\* Following nx from h visits the slots of q, each once, and ends.
IsChain(nx, h, q) ==
  /\ q \in Seq(Slots)
  /\ \A i, j \in 1 .. Len(q) : q[i] = q[j] => i = j
  /\ h = At(q, 1)
  /\ \A i \in 1 .. Len(q) : nx[q[i]] = At(q, i + 1)

SchFields ==
  {"state", "pid", "next", "until", "chan", "ticks", "kstack", "cr3", "mask", "pending",
   "head", "tail", "sleep", "cur", "resched", "mmu"}

IsSch(s) ==
  /\ DOMAIN s = SchFields
  /\ s.state \in [Slots -> States] /\ s.pid \in [Slots -> Nat]
  /\ s.next \in [Slots -> Slots \union {NULL}] /\ s.until \in [Slots -> Nat]
  /\ s.chan \in [Slots -> Channels \union {NULL}] /\ s.ticks \in Nat
  /\ s.kstack \in [Slots -> Stacks \union {NULL}]
  /\ s.cr3 \in [Slots -> Spaces \union {KPML4, NULL}]
  /\ s.mask \in [Slots -> SUBSET Irqs] /\ s.pending \in [Slots -> SUBSET Irqs]
  /\ s.head \in Slots \union {NULL} /\ s.tail \in Slots \union {NULL}
  /\ s.sleep \in Slots \union {NULL} /\ s.cur \in Slots /\ s.resched \in BOOLEAN
  /\ s.mmu \in Spaces \union {KPML4, NULL}

Queues(s, rq, sq) ==
  /\ IsChain(s.next, s.head, rq) /\ IsChain(s.next, s.sleep, sq)
  /\ \A i \in 1 .. Len(rq), j \in 1 .. Len(sq) : rq[i] # sq[j]
  /\ s.tail = At(rq, Len(rq))

\* q with p at the place k.
Inserted(q, k, p) ==
  [i \in 1 .. Len(q) + 1 |-> IF i < k THEN q[i] ELSE IF i = k THEN p ELSE q[i - 1]]

\* Everything that waking a process leaves alone.
SameRest(t, s) ==
  /\ t.pid = s.pid /\ t.chan = s.chan /\ t.ticks = s.ticks /\ t.kstack = s.kstack
  /\ t.cr3 = s.cr3 /\ t.mask = s.mask /\ t.pending = s.pending /\ t.cur = s.cur
  /\ t.resched = s.resched /\ t.mmu = s.mmu

\* Everything but the links.
SameProcesses(t, s) == t.state = s.state /\ t.until = s.until /\ SameRest(t, s)

\* rq with the first n of sq behind it, and what is left of sq.
Joined(rq, sq, n) ==
  [i \in 1 .. Len(rq) + n |-> IF i <= Len(rq) THEN rq[i] ELSE sq[i - Len(rq)]]

Rest(sq, n) == [i \in 1 .. Len(sq) - n |-> sq[i + n]]

\* t is s with the first n of sq made ready.
Woken(t, s, sq, n) ==
  /\ t.state = [p \in Slots |-> IF \E i \in 1 .. n : sq[i] = p THEN "READY" ELSE s.state[p]]
  /\ t.until = [p \in Slots |-> IF \E i \in 1 .. n : sq[i] = p THEN 0 ELSE s.until[p]]
  /\ SameRest(t, s)

\* The state after n wake-ups.
Stage(t, s, rq, sq, n) ==
  IsSch(t) /\ Queues(t, Joined(rq, sq, n), Rest(sq, n)) /\ Woken(t, s, sq, n)

\* In a list sorted by time, those whose time has come stand in front.
DueFirst(sq, until, now, k) == \A i \in 1 .. Len(sq) : i <= k <=> until[sq[i]] <= now

\* Who is on which list, and that nobody ready is on none.
Listed(s, rq, sq) ==
  /\ \A i \in 1 .. Len(rq) : rq[i] = Idle \/ s.state[rq[i]] = "READY"
  /\ \A i \in 1 .. Len(sq) :
       /\ sq[i] # Idle
       /\ s.state[sq[i]] = "SLEEPING" \/ (s.state[sq[i]] = "READY" /\ s.pending[sq[i]] # {})
  /\ \A i, j \in 1 .. Len(sq) : i < j => s.until[sq[i]] <= s.until[sq[j]]
  /\ s.state[Idle] = "RUNNING" /\ s.pid[Idle] = 0
  /\ \A p \in Slots \ {Idle} :
       s.state[p] = "READY" /\ s.pending[p] = {} => \E i \in 1 .. Len(rq) : rq[i] = p

\* Where the processes stand in the kernel.
Inside(s, at, rq, sq) ==
  /\ \A p \in Slots : s.state[p] = "SLEEPING" =>
       at[p] = "marked" \/ \E i \in 1 .. Len(sq) : sq[i] = p
  /\ \A p \in Slots : at[p] = "marked" =>
       /\ s.state[p] \in {"SLEEPING", "READY"}
       /\ \A i \in 1 .. Len(rq) : rq[i] # p
       /\ \A i \in 1 .. Len(sq) : sq[i] # p
  /\ at[Idle] = "user"
  /\ \/ s.state[s.cur] = "RUNNING"
     \/ s.cur # Idle /\ at[s.cur] \in {"int80", "exiting", "marked"}

PcType == {"user", "int80", "marked", "exiting", "dead", "yielding", "waiting",
           "freeing", "irqwait"}

Sound(s, at, rq, sq) == Queues(s, rq, sq) /\ Listed(s, rq, sq) /\ Inside(s, at, rq, sq)

\* The inductive invariant.
SInv ==
  /\ IsSch(sch) /\ pit_ticks \in Nat /\ next_pid \in Nat \ {0}
  /\ pc \in [Slots -> PcType] /\ DOMAIN arg = Slots
  /\ Sound(sch, pc, ReadyChain(sch), SleepChain(sch))

\* rq2 is rq with exactly the members of W behind it.
Grown(rq2, rq, W) ==
  /\ Len(rq) <= Len(rq2) /\ \A i \in 1 .. Len(rq) : rq2[i] = rq[i]
  /\ \A i \in Len(rq) + 1 .. Len(rq2) : rq2[i] \in W
  /\ \A p \in W : \E i \in Len(rq) + 1 .. Len(rq2) : rq2[i] = p

\* t is s with the processes in W unblocked.
Unblocked(t, s, W) ==
  /\ t.state = [p \in Slots |-> IF p \in W THEN "READY" ELSE s.state[p]]
  /\ t.chan = [p \in Slots |-> IF p \in W THEN NULL ELSE s.chan[p]]
  /\ t.pid = s.pid /\ t.until = s.until /\ t.ticks = s.ticks /\ t.kstack = s.kstack
  /\ t.cr3 = s.cr3 /\ t.mask = s.mask /\ t.pending = s.pending /\ t.cur = s.cur
  /\ t.mmu = s.mmu

Waiting(s, ch) == {p \in Slots : s.state[p] = "BLOCKED" /\ s.chan[p] = ch}

ChannelStage(t, s, rq, sq, W) ==
  /\ IsSch(t) /\ Unblocked(t, s, W)
  /\ \E rq2 : Queues(t, rq2, sq) /\ Grown(rq2, rq, W)

\* The current process goes back on the ready list.
Requeued(s) == s.state[s.cur] = "RUNNING" /\ s.pid[s.cur] # 0

\* The ready list when the next process is chosen, k sleepers being due.
Candidates(s, rq, sq, k) ==
  IF Requeued(s) THEN Append(Joined(rq, sq, k), s.cur) ELSE Joined(rq, sq, k)

Chosen(q) == IF Len(q) = 0 THEN Idle ELSE q[1]

Behind(q) == IF Len(q) = 0 THEN q ELSE Tail(q)

\* t is s with k sleepers woken, the current process preempted and n running.
SwitchedTo(t, s, sq, k, n) ==
  /\ t.state = [p \in Slots |->
       IF p = n THEN "RUNNING"
       ELSE IF (p = s.cur /\ Requeued(s)) \/ \E i \in 1 .. k : sq[i] = p THEN "READY"
       ELSE s.state[p]]
  /\ t.until = [p \in Slots |-> IF \E i \in 1 .. k : sq[i] = p THEN 0 ELSE s.until[p]]
  /\ t.pid = s.pid /\ t.chan = s.chan /\ t.kstack = s.kstack /\ t.cr3 = s.cr3
  /\ t.mask = s.mask /\ t.pending = s.pending /\ t.cur = n
  /\ t.mmu = IF n = s.cur \/ s.cr3[s.cur] = s.cr3[n] THEN s.mmu ELSE s.cr3[n]

Separate(q, r) ==
  /\ \A i, j \in 1 .. Len(q) : q[i] = q[j] => i = j
  /\ \A i \in 1 .. Len(q), j \in 1 .. Len(r) : q[i] # r[j]

\* What sched_do_switch does, k sleepers being due.
SwitchResult(t, s, rq, sq, now, k) ==
  /\ DueFirst(sq, s.until, now, k) /\ IsSch(t)
  /\ Separate(Candidates(s, rq, sq, k), Rest(sq, k))
  /\ Queues(t, Behind(Candidates(s, rq, sq, k)), Rest(sq, k))
  /\ Chosen(Candidates(s, rq, sq, k)) \in Slots
  /\ SwitchedTo(t, s, sq, k, Chosen(Candidates(s, rq, sq, k)))

\* Processes outside both lists may change as long as none becomes ready.
Framed(t, at2, s, at, rq, sq, P) ==
  /\ t.next = s.next /\ t.head = s.head /\ t.tail = s.tail /\ t.sleep = s.sleep
  /\ t.pid[Idle] = s.pid[Idle]
  /\ \A p \in P : /\ \A i \in 1 .. Len(rq) : rq[i] # p
                  /\ \A i \in 1 .. Len(sq) : sq[i] # p
                  /\ t.state[p] # "READY"
                  /\ t.state[p] = "SLEEPING" <=> at2[p] = "marked"
  /\ \A p \in Slots \ P : /\ t.state[p] = s.state[p] /\ t.pending[p] = s.pending[p]
                          /\ t.until[p] = s.until[p] /\ at2[p] = at[p]
  /\ \/ t.state[t.cur] = "RUNNING"
     \/ t.cur # Idle /\ at2[t.cur] \in {"int80", "exiting", "marked"}

\* Processes that become ready go to the end of the ready list.
Readied(t, at2, s, at, W) ==
  /\ t.pid[Idle] = s.pid[Idle] /\ t.cur = s.cur /\ s.cur \notin W /\ s.cur \in Slots
  /\ \A p \in W : t.state[p] = "READY" /\ at2[p] # "marked"
  /\ \A p \in Slots \ W : /\ t.state[p] = s.state[p] /\ t.pending[p] = s.pending[p]
                          /\ t.until[p] = s.until[p] /\ at2[p] = at[p]

\* sched_sleep puts the current process on the sleep list at its time.
Linking(at, s, at0, c) ==
  /\ c \in Slots \ {Idle} /\ c = s.cur /\ at0[c] = "marked" /\ at[c] = "int80"
  /\ \A p \in Slots \ {c} : at[p] = at0[p]

\* sched_do_switch keeps the invariant, whatever the caller does after it.
Resuming(at2, s, at) ==
  /\ \A p \in Slots \ {s.cur} : at2[p] = at[p]
  /\ \/ at2[s.cur] = at[s.cur]
     \/ s.cur # Idle /\ at[s.cur] # "marked" /\ at2[s.cur] # "marked"

\* Who runs or waits to run may change, nobody else does; the page tables that are
\* loaded are those of the process that runs.
Switched(t, s) ==
  /\ \A p \in Slots : \/ t.state[p] = s.state[p]
                      \/ /\ s.state[p] \in {"READY", "SLEEPING", "RUNNING"}
                         /\ t.state[p] \in {"READY", "RUNNING"}
  /\ t.pid = s.pid /\ t.kstack = s.kstack /\ t.cr3 = s.cr3 /\ t.pending = s.pending
  /\ s.mmu = s.cr3[s.cur] => t.mmu = t.cr3[t.cur]

-----------------------------------------------------------------------------
(* What the proofs about the lists hand to the proofs about the queues,     *)
(* and these to the proofs about the actions: each is a lemma of the module *)
(* that comes first and an assumption of the ones that build on it, and     *)
(* SchedTheorems puts them together.                                        *)

\* A set of numbers has a least one, and counting up reaches every number.
MinFact == \A S \in SUBSET Nat : S # {} => Min(S) \in S /\ \A y \in S : Min(S) <= y

UpwardsFact ==
  \A N \in Nat : \A S : 0 \in S /\ (\A n \in 1 .. N : n - 1 \in S => n \in S)
                      => \A n \in 0 .. N : n \in S

AppendFact ==
  \A S : \A q \in Seq(S), e \in S :
    /\ Append(q, e) \in Seq(S) /\ Len(Append(q, e)) = Len(q) + 1
    /\ \A i \in 1 .. Len(q) : Append(q, e)[i] = q[i]
    /\ Append(q, e)[Len(q) + 1] = e

HeadTailFact ==
  \A S : \A q \in Seq(S) : q # <<>> =>
    /\ Head(q) = q[1] /\ Tail(q) \in Seq(S) /\ Len(Tail(q)) = Len(q) - 1
    /\ \A i \in 1 .. Len(q) - 1 : Tail(q)[i] = q[i + 1]

ChainTypeFact ==
  \A nx, h, q : IsChain(nx, h, q) =>
    /\ q \in Seq(Slots) /\ Len(q) \in Nat /\ q = [i \in 1 .. Len(q) |-> q[i]]
    /\ \A i \in 1 .. Len(q) : q[i] \in Slots /\ q[i] # NULL
    /\ h \in Slots \union {NULL} /\ (h = NULL <=> Len(q) = 0)

ChainFrameFact ==
  \A nx, nx2, h, q :
    IsChain(nx, h, q) /\ (\A i \in 1 .. Len(q) : nx2[q[i]] = nx[q[i]]) => IsChain(nx2, h, q)

ChainIsFact == \A s, h, q : IsChain(s.next, h, q) => Chain(s, h) = q

RestFact ==
  \A sq \in Seq(Slots) : \A n \in 0 .. Len(sq) :
    /\ Rest(sq, n) \in Seq(Slots) /\ Len(Rest(sq, n)) = Len(sq) - n
    /\ \A i \in 1 .. Len(sq) - n : Rest(sq, n)[i] = sq[n + i]

JoinedFact ==
  \A rq, sq \in Seq(Slots) : \A n \in 0 .. Len(sq) :
    /\ Joined(rq, sq, n) \in Seq(Slots) /\ Len(Joined(rq, sq, n)) = Len(rq) + n
    /\ \A i \in 1 .. Len(rq) : Joined(rq, sq, n)[i] = rq[i]
    /\ \A i \in 1 .. n : Joined(rq, sq, n)[Len(rq) + i] = sq[i]

EnqueueFact ==
  \A s, rq, sq : \A p \in Slots : \A t :
    /\ IsSch(s) /\ Queues(s, rq, sq) /\ s.state[p] = "READY"
    /\ \A i \in 1 .. Len(rq) : rq[i] # p
    /\ \A i \in 1 .. Len(sq) : sq[i] # p
    /\ t = Enqueue(s, p)
    => IsSch(t) /\ SameProcesses(t, s) /\ Queues(t, Append(rq, p), sq)

DequeueFact ==
  \A s, rq, sq, t :
    IsSch(s) /\ Queues(s, rq, sq) /\ Len(rq) > 0 /\ t = Dequeue(s)
    => IsSch(t) /\ SameProcesses(t, s) /\ Queues(t, Tail(rq), sq)

SleepInsertFact ==
  \A s, rq, sq : \A p \in Slots : \A t :
    /\ IsSch(s) /\ Queues(s, rq, sq)
    /\ \A i \in 1 .. Len(rq) : rq[i] # p
    /\ \A i \in 1 .. Len(sq) : sq[i] # p
    /\ t = SleepInsert(s, p)
    => /\ IsSch(t) /\ SameProcesses(t, s)
       /\ \E k \in 1 .. Len(sq) + 1 :
            /\ Queues(t, rq, Inserted(sq, k, p))
            /\ \A i \in 1 .. k - 1 : s.until[sq[i]] <= s.until[p]
            /\ k \in 1 .. Len(sq) => s.until[sq[k]] > s.until[p]

WakeSleepersFact ==
  \A s, rq, sq : \A now \in Nat :
    /\ IsSch(s) /\ Queues(s, rq, sq)
    /\ \A i, j \in 1 .. Len(sq) : i < j => s.until[sq[i]] <= s.until[sq[j]]
    => \E k \in 0 .. Len(sq) : /\ Stage(WakeSleepers(s, now), s, rq, sq, k)
                               /\ DueFirst(sq, s.until, now, k)

ListFacts ==
  /\ MinFact /\ UpwardsFact /\ AppendFact /\ HeadTailFact /\ ChainTypeFact
  /\ ChainFrameFact /\ ChainIsFact /\ RestFact /\ JoinedFact /\ EnqueueFact
  /\ DequeueFact /\ SleepInsertFact /\ WakeSleepersFact

WakeChannelFact ==
  \A s, rq, sq, ch :
    /\ IsSch(s) /\ Queues(s, rq, sq)
    /\ \A p \in Waiting(s, ch) : /\ \A i \in 1 .. Len(rq) : rq[i] # p
                                 /\ \A i \in 1 .. Len(sq) : sq[i] # p
    => ChannelStage(WakeChannel(s, ch), s, rq, sq, Waiting(s, ch))

FrameFact ==
  \A s, at, rq, sq, t, at2 : \A P \in SUBSET (Slots \ {Idle}) :
    Sound(s, at, rq, sq) /\ Framed(t, at2, s, at, rq, sq, P) => Sound(t, at2, rq, sq)

GrowFact ==
  \A s, at, rq, sq, t, at2, rq2 : \A W \in SUBSET (Slots \ {Idle}) :
    /\ Sound(s, at, rq, sq) /\ Queues(t, rq2, sq) /\ Grown(rq2, rq, W)
    /\ Readied(t, at2, s, at, W)
    => Sound(t, at2, rq2, sq)

InsertFact ==
  \A s, at0, rq, sq, c, at, t :
    IsSch(s) /\ Sound(s, at0, rq, sq) /\ Linking(at, s, at0, c) /\ t = SleepInsert(s, c)
    => IsSch(t) /\ SameProcesses(t, s) /\ \E sq2 : Sound(t, at, rq, sq2)

SwitchIsFact ==
  \A s, at, rq, sq, t : \A now \in Nat :
    IsSch(s) /\ Sound(s, at, rq, sq) /\ t = DoSwitch(s, now)
    => \E k \in 0 .. Len(sq) : SwitchResult(t, s, rq, sq, now, k)

SwitchFact ==
  \A s, at, rq, sq, t, at2 : \A now \in Nat :
    IsSch(s) /\ Sound(s, at, rq, sq) /\ t = DoSwitch(s, now) /\ Resuming(at2, s, at)
    => IsSch(t) /\ \E rq2, sq2 : Sound(t, at2, rq2, sq2)

SwitchStatesFact ==
  \A s, at, rq, sq, t : \A now \in Nat :
    IsSch(s) /\ Sound(s, at, rq, sq) /\ t = DoSwitch(s, now) => Switched(t, s)

\* The size of a set is the length of any enumeration of it.
CountFact == \A S : \A n \in Nat : ExistsBijection(1 .. n, S) => Cardinality(S) = n

QueueFacts ==
  /\ ListFacts /\ WakeChannelFact /\ FrameFact /\ GrowFact /\ InsertFact
  /\ SwitchIsFact /\ SwitchFact /\ SwitchStatesFact
=============================================================================
