------------------------------ MODULE SchedAbs ------------------------------
(***************************************************************************)
(* What the scheduler of kernel/core/sched.c promises, without its         *)
(* pointers, clocks, stacks and address spaces: a table of processes, the  *)
(* FIFO of those that are ready, and the one that owns the processor.      *)
(* Module Sched is the detailed specification and is shown to implement    *)
(* this one.                                                               *)
(***************************************************************************)
EXTENDS Naturals, Sequences, FiniteSets, Functions

CONSTANTS Procs,    \* the slots of the process table
          Idle      \* slot 0, the idle process

ASSUME IdleAssumption == Idle \in Procs

ASSUME ProcsAssumption == IsFiniteSet(Procs)

VARIABLES st,       \* st[p]: the state of slot p
          ready,    \* the ready queue, first to run first
          cur       \* the process that owns the processor

vars == <<st, ready, cur>>

States == {"UNUSED", "READY", "RUNNING", "SLEEPING", "BLOCKED", "ZOMBIE"}

Waiting == {"SLEEPING", "BLOCKED"}

\* The orders in which the members of S can be appended to the queue.
Orders(S) ==
  {q \in [1 .. Cardinality(S) -> S] : Range(q) = S /\ IsInjective(q)}

-----------------------------------------------------------------------------

\* After sched_init the boot context is the idle process; it is running and
\* it has also been put on the ready queue.
Init ==
  /\ st = [p \in Procs |-> IF p = Idle THEN "RUNNING" ELSE "UNUSED"]
  /\ ready = <<Idle>>
  /\ cur = Idle

\* A free slot becomes a ready process at the tail of the queue.
Create(p) ==
  /\ st[p] = "UNUSED"
  /\ st' = [st EXCEPT ![p] = "READY"]
  /\ ready' = Append(ready, p)
  /\ UNCHANGED cur

\* The owner of the processor stops being runnable; it keeps the processor
\* until the next Switch.
Suspend(s) ==
  /\ cur # Idle
  /\ s \in Waiting \union {"ZOMBIE"}
  /\ st[cur] = "RUNNING"
  /\ st' = [st EXCEPT ![cur] = s]
  /\ UNCHANGED <<ready, cur>>

\* Some blocked processes become ready, in some order.
Wake(S) ==
  /\ S \subseteq {p \in Procs \ {Idle} : st[p] = "BLOCKED"}
  /\ st' = [p \in Procs |-> IF p \in S THEN "READY" ELSE st[p]]
  /\ UNCHANGED cur
  /\ \E q \in Orders(S) : ready' = ready \o q

\* Faulty variant: also a process on the ready queue.
KillQueued(p) ==
  /\ st[p] \in {"BLOCKED", "READY"}
  /\ st' = [st EXCEPT ![p] = "ZOMBIE"]
  /\ UNCHANGED <<ready, cur>>

\* A process that is on no queue is killed.
Kill(p) ==
  /\ st[p] = "BLOCKED"
  /\ st' = [st EXCEPT ![p] = "ZOMBIE"]
  /\ UNCHANGED <<ready, cur>>

\* The slot of a dead process is given back.
Reap(p) ==
  /\ p # cur
  /\ st[p] = "ZOMBIE"
  /\ st' = [st EXCEPT ![p] = "UNUSED"]
  /\ UNCHANGED <<ready, cur>>

\* The sleepers in S wake up, the owner queues behind them if it can still
\* run, and the head of the queue, or the idle process, takes over.
Switch(S) ==
  /\ S \subseteq {p \in Procs \ {Idle} : st[p] = "SLEEPING"}
  /\ \E q \in Orders(S) :
       LET requeue == st[cur] = "RUNNING" /\ cur # Idle
           woken   == [p \in Procs |-> IF p \in S THEN "READY" ELSE st[p]]
           queued  == IF requeue THEN Append(ready \o q, cur) ELSE ready \o q
           next    == IF queued = <<>> THEN Idle ELSE Head(queued)
       IN  /\ ready' = IF queued = <<>> THEN <<>> ELSE Tail(queued)
           /\ st' = [p \in Procs |-> IF p = next THEN "RUNNING"
                                     ELSE IF p = cur /\ requeue THEN "READY"
                                     ELSE woken[p]]
           /\ cur' = next

Next ==
  \/ \E p \in Procs : Create(p) \/ Kill(p) \/ Reap(p)
  \/ \E s \in States : Suspend(s)
  \/ \E S \in SUBSET Procs : Wake(S) \/ Switch(S)

Spec == Init /\ [][Next]_vars

-----------------------------------------------------------------------------

\* Type correctness of the process table, the ready queue and `current`.
TypeOK ==
  /\ st \in [Procs -> States]
  /\ ready \in Seq(Procs)
  /\ cur \in Procs

\* The ready queue holds each ready process exactly once and nothing else: no
\* process that can run is forgotten by enqueue_ready, none is queued twice,
\* and no sleeping, blocked or dead process is waiting to be dispatched. The
\* idle process alone may be queued while running, as sched_init leaves it.
ReadyQueueExact ==
  /\ IsInjective(ready)
  /\ \A p \in Procs \ {Idle} : p \in Range(ready) <=> st[p] = "READY"

\* Apart from the idle process, which keeps its RUNNING mark when it is
\* switched out, only the owner of the processor is running.
OneRunner == \A p \in Procs \ {Idle} : st[p] = "RUNNING" => p = cur

\* sched_do_switch only ever gives the processor to a process that was ready,
\* was woken by this very switch, or already had it, or to the idle process.
DispatchesRunnable ==
  [][cur' # cur => \/ cur' = Idle
                   \/ st[cur'] \in {"READY", "SLEEPING"}]_vars
=============================================================================
