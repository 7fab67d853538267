--------------------------- MODULE SchedTheorems ----------------------------
(***************************************************************************)
(* What is proved of the scheduler (Sched), for every size of the process  *)
(* table, every number of stacks and address spaces, every slice, tick     *)
(* modulus and pid limit.                                                  *)
(***************************************************************************)
EXTENDS SchedListProofs, SchedRefineProofs, FiniteSetTheorems

USE ZenonT(30), SMTT(30)

\* Min picks an element of the set.
LEMMA MinHolds == MinFact
<1> SUFFICES ASSUME NEW S \in SUBSET Nat, S # {}
             PROVE  Min(S) \in S /\ \A y \in S : Min(S) <= y
  BY DEF MinFact
<1>1. PICK x \in S : \A y \in S : ~(<<y, x>> \in OpToRel(<, Nat))
  BY NatLessThanWellFounded, WFMin
<1>2. ASSUME NEW y \in S PROVE x <= y
  <2>1. ~(<<y, x>> \in {ss \in Nat \X Nat : ss[1] < ss[2]})
    BY <1>1 DEF OpToRel
  <2>2. <<y, x>> \in Nat \X Nat /\ <<y, x>>[1] = y /\ <<y, x>>[2] = x
    OBVIOUS
  <2>3. ~(y < x)
    BY <2>1, <2>2
  <2> QED BY SMTT(30), <2>3
<1> QED BY <1>2 DEF Min

LEMMA FactsHold == QueueFacts /\ CountFact
<1>1. QueueFacts
  BY MinHolds, ListFactsHold, LoopFactsHold, QueueFactsHold
<1>2. CountFact
  BY FS_CountingElements DEF CountFact
<1> QED BY <1>1, <1>2

\* The two lists that share the links of the process table stay exact, whatever the
\* interleaving of system calls, interrupts, sleeps, wake-ups, deaths and new processes:
\* no cycle, no process on both, the tail where it should be, the sleepers in order,
\* and nobody who is ready or asleep is missing. It holds where sched_kill finds its
\* victim blocked or dead, on neither list.
THEOREM ListsStayExact ==
  ASSUME KillStates \subseteq {"BLOCKED", "ZOMBIE"} PROVE Spec => []QueuesExact
<1>1. Init => SInv
  BY FactsHold, SInvInit
<1>2. SInv /\ [Next]_vars => SInv'
  BY FactsHold, SInvNext
<1>3. SInv => QueuesExact
  BY FactsHold, SInvQueues
<1> QED BY <1>1, <1>2, <1>3, PTL DEF Spec

\* Every kernel stack and every user address space in use has exactly one owner, none
\* is free while it is used, and none is lost: through fork, exec, exit, waitpid and
\* the frees that sched_waitpid does after it has enabled interrupts, whatever comes
\* in between. It holds where no process registers for an interrupt line (see
\* sched_wake_irq) and sched_kill finds its victim blocked or dead.
THEOREM StacksAndSpacesOwned ==
  ASSUME Irqs = {}, KillStates \subseteq {"BLOCKED", "ZOMBIE"} PROVE Spec => []OneOwnerEach
<1>1. Init => OInv
  BY FactsHold, OInvInit
<1>2. OInv /\ [Next]_vars => OInv'
  BY FactsHold, OInvNext
<1>3. OInv => OneOwnerEach
  BY OInvOwner
<1> QED BY <1>1, <1>2, <1>3, PTL DEF Spec

\* A process that sched_exit or sched_kill has marked dead is never made ready again
\* by a wake-up, a timer or a switch, and sched_waitpid gives its slot back only when
\* the processor has left its stack; under the same two conditions.
THEOREM TheDeadStayDead ==
  ASSUME Irqs = {}, KillStates \subseteq {"BLOCKED", "ZOMBIE"} PROVE Spec => DeadStayDead
<1>1. Init => OInv
  BY FactsHold, OInvInit
<1>2. OInv /\ [Next]_vars => OInv'
  BY FactsHold, OInvNext
<1>3. OInv /\ [Next]_vars => [DeadStep]_vars
  BY FactsHold, OwnersNext
<1>4. [DeadStep]_vars => [\A p \in Slots : sch.state[p] = "ZOMBIE" =>
                            /\ sch'.state[p] \in {"ZOMBIE", "UNUSED"}
                            /\ sch'.state[p] = "UNUSED" => sch.cur # p /\ sch'.cur # p]_vars
  BY DEF DeadStep
<1> QED BY <1>1, <1>2, <1>3, <1>4, PTL DEF Spec, DeadStayDead

\* The scheduler with its links, its clock, its stacks and its switch code implements
\* the abstract one: each stretch of code between two points where an interrupt can
\* come in is one step of the abstract scheduler, or none. With SchedAbsInvariant, the
\* ready queue holds each ready process exactly once and only one process runs. The
\* same two conditions hold here.
THEOREM SchedImplementsAbs ==
  ASSUME Irqs = {}, KillStates \subseteq {"BLOCKED", "ZOMBIE"} PROVE Spec => ImplementsAbs
<1>1. Init => OInv /\ Abs!Init
  BY FactsHold, OInvInit, RefinesInit
<1>2. OInv /\ [Next]_vars => OInv'
  BY FactsHold, OInvNext
<1>3. OInv /\ [Next]_vars => [Abs!Next]_(Abs!vars)
  <2>1. ASSUME OInv, Next PROVE [Abs!Next]_(Abs!vars)
    BY FactsHold, <2>1, RefinesNext DEF AbsStep, Stutter, Abs!vars
  <2>2. ASSUME UNCHANGED vars PROVE UNCHANGED Abs!vars
    BY <2>2 DEF vars, Abs!vars
  <2> QED BY <2>1, <2>2
<1> QED BY <1>1, <1>2, <1>3, PTL DEF Spec, ImplementsAbs, Abs!Spec
=============================================================================
