---------------------------- MODULE KernelProofs ----------------------------
(***************************************************************************)
(* Parts of the kernel, each for every value of its constants: the         *)
(* scheduler's and the heap's abstract specifications, a ramfs file, and   *)
(* the address spaces.                                                     *)
(***************************************************************************)
EXTENDS SchedAbs, KHeapAbs, RamFile, AddrSpace, FiniteSetTheorems, TLAPS

USE ZenonT(30), SMTT(30)

-----------------------------------------------------------------------------
(* The abstract scheduler.                                                 *)


\* The invariant that is inductive: without the last conjunct Create could
\* take the idle slot while sched_init's entry for it is still queued.
IInv == TypeOK /\ ReadyQueueExact /\ OneRunner /\ st[Idle] = "RUNNING"

\* An ordering of a set of processes is a sequence of processes that lists the
\* set without repetition (the loop of sched_do_switch and sched_wakeup).
LEMMA OrdersProperties ==
  ASSUME NEW S \in SUBSET Procs, NEW q \in Orders(S)
  PROVE  /\ q \in Seq(Procs)
         /\ Range(q) = S
         /\ IsInjective(q)
<1>1. Cardinality(S) \in Nat
  BY ProcsAssumption, FS_Subset, FS_CardinalityType
<1>2. q \in [1 .. Cardinality(S) -> Procs]
  BY DEF Orders
<1> QED
  BY SMTT(30), <1>1, <1>2 DEF Orders

\* Appending a process that is not queued keeps the queue free of duplicates
\* (enqueue_ready).
LEMMA AppendInjective1 ==
  ASSUME NEW s \in Seq(Procs), NEW p \in Procs, IsInjective(s), p \notin Range(s)
  PROVE  /\ Append(s, p) \in Seq(Procs)
         /\ IsInjective(Append(s, p))
         /\ Range(Append(s, p)) = Range(s) \union {p}
<1>1. /\ Append(s, p) \in Seq(Procs)
      /\ Len(Append(s, p)) = Len(s) + 1
      /\ \A i \in 1 .. Len(s) : Append(s, p)[i] = s[i]
      /\ Append(s, p)[Len(s) + 1] = p
      /\ Len(s) \in Nat
      /\ DOMAIN s = 1 .. Len(s)
      /\ DOMAIN Append(s, p) = 1 .. Len(s) + 1
  BY SMTT(30)
<1>2. IsInjective(Append(s, p))
  BY SMTT(30), <1>1 DEF IsInjective, Range
<1>3. Range(Append(s, p)) = Range(s) \union {p}
  BY SMTT(30), <1>1 DEF Range
<1> QED
  BY <1>1, <1>2, <1>3

\* Appending a list of processes none of which is queued keeps the queue free
\* of duplicates.
LEMMA ConcatInjective ==
  ASSUME NEW s \in Seq(Procs), NEW t \in Seq(Procs),
         IsInjective(s), IsInjective(t), Range(s) \cap Range(t) = {}
  PROVE  /\ s \o t \in Seq(Procs)
         /\ IsInjective(s \o t)
         /\ Range(s \o t) = Range(s) \union Range(t)
<1>1. /\ s \o t \in Seq(Procs)
      /\ Len(s \o t) = Len(s) + Len(t)
      /\ \A i \in 1 .. Len(s) + Len(t) :
            (s \o t)[i] = IF i <= Len(s) THEN s[i] ELSE t[i - Len(s)]
      /\ Len(s) \in Nat /\ Len(t) \in Nat
      /\ DOMAIN s = 1 .. Len(s)
      /\ DOMAIN t = 1 .. Len(t)
      /\ DOMAIN (s \o t) = 1 .. Len(s) + Len(t)
  BY SMTT(30)
<1>2. IsInjective(s \o t)
  <2> SUFFICES ASSUME NEW i \in 1 .. Len(s) + Len(t),
                      NEW j \in 1 .. Len(s) + Len(t),
                      (s \o t)[i] = (s \o t)[j]
               PROVE  i = j
    BY <1>1 DEF IsInjective
  <2>1. CASE i <= Len(s) /\ j <= Len(s)
    BY SMTT(30), <1>1, <2>1 DEF IsInjective
  <2>2. CASE i > Len(s) /\ j > Len(s)
    <3>1. i - Len(s) \in 1 .. Len(t) /\ j - Len(s) \in 1 .. Len(t)
      BY SMTT(30), <1>1, <2>2
    <3>2. t[i - Len(s)] = t[j - Len(s)]
      BY SMTT(30), <1>1, <2>2
    <3>3. i - Len(s) = j - Len(s)
      BY <1>1, <3>1, <3>2 DEF IsInjective
    <3> QED
      BY SMTT(30), <1>1, <3>3
  <2>3. CASE i <= Len(s) /\ j > Len(s)
    <3>1. i \in DOMAIN s /\ j - Len(s) \in DOMAIN t
      BY SMTT(30), <1>1, <2>3
    <3>2. s[i] = t[j - Len(s)]
      BY SMTT(30), <1>1, <2>3
    <3> QED
      BY <3>1, <3>2 DEF Range
  <2>4. CASE i > Len(s) /\ j <= Len(s)
    <3>1. j \in DOMAIN s /\ i - Len(s) \in DOMAIN t
      BY SMTT(30), <1>1, <2>4
    <3>2. s[j] = t[i - Len(s)]
      BY SMTT(30), <1>1, <2>4
    <3> QED
      BY <3>1, <3>2 DEF Range
  <2> QED
    BY SMTT(30), <1>1, <2>1, <2>2, <2>3, <2>4
<1>3. Range(s \o t) = Range(s) \union Range(t)
  <2>1. DOMAIN (s \o t) = 1 .. Len(s) + Len(t) /\ DOMAIN s = 1 .. Len(s) /\ DOMAIN t = 1 .. Len(t)
    BY SMTT(30)
  <2>2. ASSUME NEW i \in DOMAIN (s \o t) PROVE (s \o t)[i] \in Range(s) \union Range(t)
    <3>1. CASE i <= Len(s)
      <4>1. i \in DOMAIN s /\ (s \o t)[i] = s[i]
        BY SMTT(30), <2>1, <3>1
      <4> QED BY <4>1 DEF Range
    <3>2. CASE ~(i <= Len(s))
      <4>1. i - Len(s) \in DOMAIN t /\ (s \o t)[i] = t[i - Len(s)]
        BY SMTT(30), <2>1, <3>2
      <4> QED BY <4>1 DEF Range
    <3> QED BY <3>1, <3>2
  <2>3. ASSUME NEW i \in DOMAIN s PROVE s[i] \in Range(s \o t)
    <3>1. i \in DOMAIN (s \o t) /\ (s \o t)[i] = s[i]
      BY SMTT(30), <2>1
    <3> QED BY <3>1 DEF Range
  <2>4. ASSUME NEW i \in DOMAIN t PROVE t[i] \in Range(s \o t)
    <3>1. i + Len(s) \in DOMAIN (s \o t) /\ (s \o t)[i + Len(s)] = t[i]
      BY SMTT(30), <2>1
    <3> QED BY <3>1 DEF Range
  <2> QED BY <2>2, <2>3, <2>4 DEF Range
<1> QED
  BY <1>1, <1>2, <1>3

\* Taking the head off a queue without duplicates removes that process and
\* no other (dequeue_ready).
LEMMA TailInjective ==
  ASSUME NEW s \in Seq(Procs), s # <<>>, IsInjective(s)
  PROVE  /\ Head(s) \in Procs
         /\ Tail(s) \in Seq(Procs)
         /\ IsInjective(Tail(s))
         /\ Range(Tail(s)) = Range(s) \ {Head(s)}
<1>1. /\ Len(s) \in Nat /\ Len(s) >= 1
      /\ DOMAIN s = 1 .. Len(s)
      /\ Head(s) = s[1] /\ Head(s) \in Procs
      /\ Tail(s) \in Seq(Procs)
      /\ Len(Tail(s)) = Len(s) - 1
      /\ DOMAIN Tail(s) = 1 .. Len(s) - 1
      /\ \A i \in 1 .. Len(s) - 1 : Tail(s)[i] = s[i + 1]
  BY SMTT(30)
<1>2. IsInjective(Tail(s))
  BY SMTT(30), <1>1 DEF IsInjective
<1>3. ASSUME NEW p \in Range(Tail(s))
      PROVE  p \in Range(s) \ {Head(s)}
  BY SMTT(30), <1>1 DEF IsInjective, Range
<1>4. ASSUME NEW p \in Range(s), p # Head(s)
      PROVE  p \in Range(Tail(s))
  <2>1. PICK i \in 1 .. Len(s) : p = s[i]
    BY <1>1 DEF Range
  <2>2. i - 1 \in 1 .. Len(s) - 1 /\ i = (i - 1) + 1
    BY SMTT(30), <1>1, <1>4, <2>1
  <2>3. Tail(s)[i - 1] = p
    BY <1>1, <2>1, <2>2
  <2> QED
    BY <1>1, <2>2, <2>3 DEF Range
<1> QED
  BY <1>1, <1>2, <1>3, <1>4

-----------------------------------------------------------------------------

\* Waking a set of unqueued processes keeps IInv (sched_wakeup).
LEMMA WakeStep ==
  ASSUME IInv, NEW S \in SUBSET Procs, Wake(S)
  PROVE  IInv'
<1> USE IdleAssumption DEF IInv, TypeOK, ReadyQueueExact, OneRunner, States
<1>1. PICK q \in Orders(S) : ready' = ready \o q
  BY DEF Wake
<1>2. q \in Seq(Procs) /\ Range(q) = S /\ IsInjective(q)
  BY <1>1, OrdersProperties
<1>3. Range(ready) \cap Range(q) = {}
  BY <1>2 DEF Wake
<1>4. /\ ready' \in Seq(Procs)
      /\ IsInjective(ready')
      /\ Range(ready') = Range(ready) \union S
  BY <1>1, <1>2, <1>3, ConcatInjective
<1> QED
  BY <1>4 DEF Wake

\* A context switch keeps IInv (sched_do_switch).
LEMMA SwitchStep ==
  ASSUME IInv, NEW S \in SUBSET Procs, Switch(S)
  PROVE  IInv'
<1> USE IdleAssumption DEF IInv, TypeOK, ReadyQueueExact, OneRunner, States
<1> DEFINE requeue == st[cur] = "RUNNING" /\ cur # Idle
           woken == [p \in Procs |-> IF p \in S THEN "READY" ELSE st[p]]
<1>1. PICK q \in Orders(S) :
        LET queued == IF requeue THEN Append(ready \o q, cur) ELSE ready \o q
            next   == IF queued = <<>> THEN Idle ELSE Head(queued)
        IN  /\ ready' = IF queued = <<>> THEN <<>> ELSE Tail(queued)
            /\ st' = [p \in Procs |-> IF p = next THEN "RUNNING"
                                      ELSE IF p = cur /\ requeue THEN "READY"
                                      ELSE woken[p]]
            /\ cur' = next
  BY DEF Switch
<1> DEFINE queued == IF requeue THEN Append(ready \o q, cur) ELSE ready \o q
           next == IF queued = <<>> THEN Idle ELSE Head(queued)
<1>2. q \in Seq(Procs) /\ Range(q) = S /\ IsInjective(q)
  BY OrdersProperties
<1>3. S \subseteq {p \in Procs \ {Idle} : st[p] = "SLEEPING"}
  BY DEF Switch
<1>4. Range(ready) \cap Range(q) = {}
  BY <1>2, <1>3
<1>5. /\ ready \o q \in Seq(Procs)
      /\ IsInjective(ready \o q)
      /\ Range(ready \o q) = Range(ready) \union S
  BY <1>2, <1>4, ConcatInjective
<1>6. /\ queued \in Seq(Procs)
      /\ IsInjective(queued)
      /\ Range(queued) = Range(ready) \union S \union
                         (IF requeue THEN {cur} ELSE {})
  <2>1. CASE requeue
    <3>1. cur \notin Range(ready \o q)
      BY <1>3, <1>5, <2>1
    <3> QED
      BY <1>5, <2>1, <3>1, AppendInjective1
  <2>2. CASE ~requeue
    BY <1>5, <2>2
  <2> QED
    BY <2>1, <2>2
<1>7. CASE queued = <<>>
  <2>1. Range(queued) = {}
    BY SMTT(30), <1>7 DEF Range
  <2>2. ready' = <<>> /\ cur' = Idle
        /\ st' = [p \in Procs |-> IF p = Idle THEN "RUNNING"
                                  ELSE IF p = cur /\ requeue THEN "READY"
                                  ELSE woken[p]]
    BY <1>1, <1>7
  <2>3. <<>> \in Seq(Procs) /\ IsInjective(<<>>) /\ Range(<<>>) = {}
    BY SMTT(30) DEF IsInjective, Range
  <2>4. \A p \in Procs \ {Idle} : st[p] # "READY" /\ p \notin S /\ ~(p = cur /\ requeue)
    BY <1>6, <2>1
  <2> QED
    BY <2>2, <2>3, <2>4
<1>8. CASE queued # <<>>
  <2>1. /\ Head(queued) \in Procs
        /\ Tail(queued) \in Seq(Procs)
        /\ IsInjective(Tail(queued))
        /\ Range(Tail(queued)) = Range(queued) \ {Head(queued)}
    BY <1>6, <1>8, TailInjective
  <2>2. /\ ready' = Tail(queued)
        /\ cur' = Head(queued)
        /\ st' = [p \in Procs |-> IF p = Head(queued) THEN "RUNNING"
                                  ELSE IF p = cur /\ requeue THEN "READY"
                                  ELSE woken[p]]
    BY <1>1, <1>8
  <2> HIDE DEF queued
  <2>3. TypeOK'
    BY <2>1, <2>2
  <2>4. \A p \in Procs \ {Idle} : p \in Range(ready') <=> st'[p] = "READY"
    BY <1>3, <1>6, <2>1, <2>2
  <2>5. OneRunner'
    BY <1>3, <2>1, <2>2
  <2>6. st'[Idle] = "RUNNING"
    BY <1>3, <2>1, <2>2
  <2> QED
    BY <2>1, <2>2, <2>3, <2>4, <2>5, <2>6
<1> QED
  BY <1>7, <1>8

\* The inductive invariant holds throughout, for every finite process table.
THEOREM InductiveInvariant == Spec => []IInv
<1> USE IdleAssumption DEF IInv, TypeOK, ReadyQueueExact, OneRunner, States
<1>1. Init => IInv
  <2> SUFFICES ASSUME Init PROVE IInv
    OBVIOUS
  <2>1. <<Idle>> \in Seq(Procs) /\ Len(<<Idle>>) = 1 /\ <<Idle>>[1] = Idle
        /\ DOMAIN <<Idle>> = {1}
    BY SMTT(30)
  <2>2. Range(<<Idle>>) = {Idle} /\ IsInjective(<<Idle>>)
    BY <2>1 DEF Range, IsInjective
  <2> QED
    BY <2>1, <2>2 DEF Init
<1>2. IInv /\ [Next]_vars => IInv'
  <2> SUFFICES ASSUME IInv, [Next]_vars PROVE IInv'
    OBVIOUS
  <2>1. ASSUME NEW p \in Procs, Create(p) PROVE IInv'
    <3>1. p # Idle /\ p \notin Range(ready)
      BY <2>1 DEF Create
    <3>2. /\ ready' \in Seq(Procs)
          /\ IsInjective(ready')
          /\ Range(ready') = Range(ready) \union {p}
      BY <2>1, <3>1, AppendInjective1 DEF Create
    <3> QED
      BY <2>1, <3>1, <3>2 DEF Create
  <2>2. ASSUME NEW p \in Procs, Kill(p) PROVE IInv'
    BY <2>2 DEF Kill
  <2>3. ASSUME NEW p \in Procs, Reap(p) PROVE IInv'
    BY <2>3 DEF Reap
  <2>4. ASSUME NEW s \in States, Suspend(s) PROVE IInv'
    BY <2>4 DEF Suspend, Waiting
  <2>5. ASSUME NEW S \in SUBSET Procs, Wake(S) PROVE IInv'
    BY <2>5, WakeStep
  <2>6. ASSUME NEW S \in SUBSET Procs, Switch(S) PROVE IInv'
    BY <2>6, SwitchStep
  <2>7. CASE UNCHANGED vars
    BY <2>7 DEF vars
  <2> QED
    BY <2>1, <2>2, <2>3, <2>4, <2>5, <2>6, <2>7 DEF Next
<1> HIDE DEF IInv
<1> QED
  BY <1>1, <1>2, PTL DEF Spec

\* The scheduler's safety, for every finite process table: the table is well
\* typed, the ready queue holds exactly the ready processes once each, and
\* only the owner of the processor runs.
THEOREM SchedAbsInvariant == Spec => [](TypeOK /\ ReadyQueueExact /\ OneRunner)
<1>1. IInv => TypeOK /\ ReadyQueueExact /\ OneRunner
  BY DEF IInv
<1> QED
  BY <1>1, InductiveInvariant, PTL

\* sched_do_switch never dispatches a blocked, dead or unused slot.
THEOREM SchedAbsDispatch == Spec => DispatchesRunnable
<1> DEFINE Dispatch == cur' # cur => \/ cur' = Idle
                                    \/ st[cur'] \in {"READY", "SLEEPING"}
<1>1. ASSUME IInv, Next PROVE Dispatch
  <2>1. CASE cur' = cur
    BY <2>1
  <2>2. ASSUME NEW S \in SUBSET Procs, Switch(S) PROVE Dispatch
    <3> DEFINE requeue == st[cur] = "RUNNING" /\ cur # Idle
    <3>1. PICK q \in Orders(S) :
            LET queued == IF requeue THEN Append(ready \o q, cur) ELSE ready \o q
            IN  cur' = IF queued = <<>> THEN Idle ELSE Head(queued)
      BY <2>2 DEF Switch
    <3> DEFINE queued == IF requeue THEN Append(ready \o q, cur) ELSE ready \o q
    <3>2. q \in Seq(Procs) /\ Range(q) = S /\ IsInjective(q)
      BY OrdersProperties
    <3>3. \A p \in S : st[p] = "SLEEPING" /\ p # Idle
      BY <2>2 DEF Switch
    <3>4. Range(ready) \cap Range(q) = {}
      BY <1>1, <3>2, <3>3 DEF IInv, ReadyQueueExact
    <3>5. /\ ready \o q \in Seq(Procs)
          /\ IsInjective(ready \o q)
          /\ Range(ready \o q) = Range(ready) \union S
      BY <1>1, <3>2, <3>4, ConcatInjective DEF IInv, TypeOK, ReadyQueueExact
    <3>6. CASE queued = <<>>
      BY <3>1, <3>6
    <3>7. CASE queued # <<>> /\ ~requeue
      <4>1. ready \o q # <<>> /\ cur' = Head(ready \o q)
        BY <3>1, <3>7
      <4>2. Head(ready \o q) \in Range(ready \o q)
        BY SMTT(30), <3>5, <4>1 DEF Range
      <4> QED
        BY SMTT(30), <1>1, <3>3, <3>5, <4>1, <4>2 DEF IInv, TypeOK, ReadyQueueExact
    <3>8. CASE requeue
      <4>1. cur \notin Range(ready \o q) /\ cur \in Procs
        BY <1>1, <3>3, <3>5, <3>8 DEF IInv, TypeOK, ReadyQueueExact
      <4>2. /\ Append(ready \o q, cur) \in Seq(Procs)
            /\ Range(Append(ready \o q, cur)) = Range(ready \o q) \union {cur}
        BY <3>5, <4>1, AppendInjective1
      <4>2a. Append(ready \o q, cur) # <<>>
        BY SMTT(30), <4>2 DEF Range
      <4>3. cur' = Head(Append(ready \o q, cur))
        BY <3>1, <3>8, <4>2a
      <4>4. Head(Append(ready \o q, cur)) \in Range(Append(ready \o q, cur))
        BY SMTT(30), <4>2, <4>2a DEF Range
      <4> QED
        BY SMTT(30), <1>1, <3>3, <3>5, <4>2, <4>3, <4>4 DEF IInv, TypeOK, ReadyQueueExact
    <3> QED
      BY <3>6, <3>7, <3>8
  <2> QED
    BY <1>1, <2>1, <2>2 DEF Next, Create, Kill, Reap, Suspend, Wake
<1>2. IInv /\ [Next]_vars => [Dispatch]_vars
  BY <1>1
<1> QED
  BY <1>2, InductiveInvariant, PTL DEF Spec, DispatchesRunnable

-----------------------------------------------------------------------------
(* The abstract heap.                                                      *)


\* A map of blocks that do not overlap.
Sound(f) ==
  /\ f = [x \in DOMAIN f |-> f[x]]
  /\ DOMAIN f \subseteq Nat
  /\ \A b \in DOMAIN f : f[b] \in Nat \ {0}
  /\ \A a, b \in DOMAIN f : a < b => a + f[a] <= b

InSome(f, x) == \E b \in DOMAIN f : b <= x /\ x < b + f[b]

\* Joining two adjacent blocks keeps the map sound, covers the same bytes and
\* changes no other block.
LEMMA JoinedSound ==
  ASSUME NEW f, Sound(f), NEW a \in DOMAIN f, NEW b \in DOMAIN f,
         b = a + f[a]
  PROVE  /\ Sound(Joined(f, a, b))
         /\ DOMAIN Joined(f, a, b) = DOMAIN f \ {b}
         /\ \A x \in DOMAIN f \ {a, b} : Joined(f, a, b)[x] = f[x]
         /\ \A x \in Addrs : InSome(f, x) => InSome(Joined(f, a, b), x)
<1> DEFINE g == Joined(f, a, b)
<1>1. /\ DOMAIN g = DOMAIN f \ {b}
      /\ g = [x \in DOMAIN g |-> g[x]]
      /\ \A x \in DOMAIN f \ {b} : g[x] = IF x = a THEN f[a] + f[b] ELSE f[x]
  BY DEF Joined
<1>2. a \in Nat /\ b \in Nat /\ f[a] \in Nat \ {0} /\ f[b] \in Nat \ {0} /\ a < b
  BY SMTT(30) DEF Sound
<1>3. \A x \in DOMAIN g : g[x] \in Nat \ {0}
  BY SMTT(30), <1>1, <1>2 DEF Sound
<1>4. ASSUME NEW x \in DOMAIN g, NEW y \in DOMAIN g, x < y
      PROVE  x + g[x] <= y
  <2>1. CASE x = a
    BY SMTT(30), <1>1, <1>2, <1>4, <2>1 DEF Sound
  <2>2. CASE x # a
    BY <1>1, <1>2, <1>4, <2>2 DEF Sound
  <2> QED BY <2>1, <2>2
<1>5. Sound(g)
  BY <1>1, <1>3, <1>4 DEF Sound
<1>6. ASSUME NEW x \in Addrs, InSome(f, x)
      PROVE  InSome(g, x)
  <2>0. x \in Nat
    BY SMTT(30) DEF Addrs
  <2>1. PICK y \in DOMAIN f : y <= x /\ x < y + f[y]
    BY <1>6 DEF InSome
  <2>2. CASE y = a \/ y = b
    <3>1. a \in DOMAIN g /\ g[a] = f[a] + f[b]
      BY SMTT(30), <1>1, <1>2
    <3>2. a <= x /\ x < a + g[a]
      BY SMTT(30), <1>2, <2>0, <2>1, <2>2, <3>1
    <3> QED BY <3>1, <3>2 DEF InSome
  <2>3. CASE y # a /\ y # b
    <3>1. y \in DOMAIN g /\ g[y] = f[y]
      BY <1>1, <2>1, <2>3
    <3> QED BY <2>1, <3>1 DEF InSome
  <2> QED BY <2>2, <2>3
<1> QED BY <1>1, <1>5, <1>6

\* What one step does to the blocks.
Kept(f, h, g, k) ==
  /\ Sound(g) /\ k \subseteq DOMAIN g
  /\ \A b \in h \intersect k : b \in DOMAIN g /\ g[b] = f[b]
  /\ \A x \in Addrs : InSome(f, x) => InSome(g, x)

LEMMA JoinAfterKept ==
  ASSUME NEW f, Sound(f), NEW h, h \subseteq DOMAIN f,
         NEW b \in DOMAIN f \ h, NEW g \in JoinAfter(f, h, b)
  PROVE  Kept(f, h, g, h) /\ b \in DOMAIN g
<1>1. CASE g = f
  BY <1>1 DEF Kept
<1>2. CASE \E x \in After(f, h, b) : g = Joined(f, b, x)
  <2>1. PICK x \in DOMAIN f \ h : x = b + f[b] /\ g = Joined(f, b, x)
    BY <1>2 DEF After
  <2>2. x # b
    BY SMTT(30), <2>1 DEF Sound
  <2>3. /\ Sound(g) /\ DOMAIN g = DOMAIN f \ {x}
        /\ \A y \in DOMAIN f \ {b, x} : g[y] = f[y]
        /\ \A y \in Addrs : InSome(f, y) => InSome(g, y)
    BY SMTT(30), <2>1, JoinedSound
  <2> QED BY <2>1, <2>2, <2>3 DEF Kept
<1> QED BY <1>1, <1>2 DEF JoinAfter

LEMMA JoinBeforeKept ==
  ASSUME NEW f, Sound(f), NEW h, h \subseteq DOMAIN f,
         NEW b \in DOMAIN f \ h, NEW g \in JoinBefore(f, h, b)
  PROVE  Kept(f, h, g, h)
<1>1. CASE g = f
  BY <1>1 DEF Kept
<1>2. CASE \E x \in Before(f, h, b) : g = Joined(f, x, b)
  <2>1. PICK x \in DOMAIN f \ h : b = x + f[x] /\ g = Joined(f, x, b)
    BY <1>2 DEF Before
  <2>2. /\ Sound(g) /\ DOMAIN g = DOMAIN f \ {b}
        /\ \A y \in DOMAIN f \ {x, b} : g[y] = f[y]
        /\ \A y \in Addrs : InSome(f, y) => InSome(g, y)
    BY SMTT(30), <2>1, JoinedSound
  <2> QED BY <2>1, <2>2 DEF Kept
<1> QED BY <1>1, <1>2 DEF JoinBefore

HeapInv == Sound(len) /\ held \subseteq DOMAIN len

LEMMA AddStep ==
  ASSUME HeapInv, NEW b \in Addrs, NEW n \in Addrs, Add(b, n)
  PROVE  Kept(len, held, len', held')
<1> DEFINE f == [x \in DOMAIN len \union {b} |-> IF x = b THEN n ELSE len[x]]
<1>0. b \in Nat /\ n \in Nat \ {0}
  BY SMTT(30) DEF Addrs, Add
<1>1. b \notin DOMAIN len
  BY SMTT(30), <1>0 DEF HeapInv, Sound, Add
<1>2. Sound(f)
  <2>1. ASSUME NEW x \in DOMAIN f, NEW y \in DOMAIN f, x < y
        PROVE  x + f[x] <= y
    <3>1. CASE x = b
      BY SMTT(30), <1>0, <1>1, <2>1, <3>1 DEF HeapInv, Sound, Add
    <3>2. CASE y = b
      BY SMTT(30), <1>0, <1>1, <2>1, <3>2 DEF HeapInv, Sound, Add
    <3>3. CASE x # b /\ y # b
      BY <2>1, <3>3 DEF HeapInv, Sound
    <3> QED BY <3>1, <3>2, <3>3
  <2>2. f = [x \in DOMAIN f |-> f[x]] /\ DOMAIN f \subseteq Nat
    BY <1>0 DEF HeapInv, Sound
  <2>3. \A x \in DOMAIN f : f[x] \in Nat \ {0}
    BY <1>0 DEF HeapInv, Sound
  <2> QED BY <2>1, <2>2, <2>3 DEF Sound
<1>3. /\ \A x \in DOMAIN len : x \in DOMAIN f /\ f[x] = len[x]
      /\ held \subseteq DOMAIN f /\ b \in DOMAIN f \ held
  BY <1>1 DEF HeapInv
<1>4. \A x \in Addrs : InSome(len, x) => InSome(f, x)
  BY <1>3 DEF InSome
<1>5. len' \in JoinAfter(f, held, b) /\ held' = held
  BY DEF Add
<1>6. Kept(f, held, len', held)
  BY <1>2, <1>3, <1>5, JoinAfterKept
<1> QED BY <1>3, <1>4, <1>5, <1>6 DEF Kept, HeapInv

LEMMA AllocStep ==
  ASSUME HeapInv, NEW b \in Addrs, NEW n \in Addrs, Alloc(b, n)
  PROVE  Kept(len, held, len', held')
<1>0. b \in Nat /\ n \in Nat \ {0} /\ b \in DOMAIN len \ held /\ n <= len[b]
      /\ held' = held \union {b}
  BY SMTT(30) DEF Addrs, Alloc
<1>1. CASE n = len[b]
  BY <1>0, <1>1 DEF Alloc, Kept, HeapInv
<1>2. CASE n # len[b]
  <2> DEFINE c == b + n
  <2>1. /\ DOMAIN len' = DOMAIN len \union {c}
        /\ len' = [x \in DOMAIN len' |-> len'[x]]
        /\ len'[b] = n /\ len'[c] = len[b] - n
        /\ \A x \in DOMAIN len \ {b, c} : len'[x] = len[x]
    BY SMTT(30), <1>0, <1>2 DEF Alloc
  <2>2. len[b] \in Nat /\ n < len[b] /\ c \in Nat /\ b < c /\ c < b + len[b]
    BY SMTT(30), <1>0, <1>2 DEF HeapInv, Sound
  <2>3. c \notin DOMAIN len
    BY SMTT(30), <1>0, <2>2 DEF HeapInv, Sound
  <2>4. ASSUME NEW x \in DOMAIN len', NEW y \in DOMAIN len', x < y
        PROVE  x + len'[x] <= y
    <3>1. CASE x = b
      BY SMTT(30), <1>0, <2>1, <2>2, <2>4, <3>1 DEF HeapInv, Sound
    <3>2. CASE x = c
      BY SMTT(30), <1>0, <2>1, <2>2, <2>4, <3>2 DEF HeapInv, Sound
    <3>3. CASE x # b /\ x # c /\ y = c
      BY SMTT(30), <1>0, <2>1, <2>2, <2>4, <3>3 DEF HeapInv, Sound
    <3>4. CASE x # b /\ x # c /\ y # c
      BY <1>0, <2>1, <2>2, <2>4, <3>4 DEF HeapInv, Sound
    <3> QED BY <3>1, <3>2, <3>3, <3>4
  <2>5. \A x \in DOMAIN len' : x \in Nat /\ len'[x] \in Nat \ {0}
    BY SMTT(30), <1>0, <2>1, <2>2 DEF HeapInv, Sound
  <2>6. Sound(len')
    BY <2>1, <2>4, <2>5 DEF Sound
  <2>7. ASSUME NEW x \in Addrs, InSome(len, x)
        PROVE  InSome(len', x)
    <3>0. x \in Nat
      BY SMTT(30) DEF Addrs
    <3>1. PICK y \in DOMAIN len : y <= x /\ x < y + len[y]
      BY <2>7 DEF InSome
    <3>2. CASE y = b /\ x < c
      BY <1>0, <2>1, <3>0, <3>1, <3>2 DEF InSome
    <3>3. CASE y = b /\ c <= x
      <4>1. c <= x /\ x < c + len'[c]
        BY SMTT(30), <1>0, <2>1, <2>2, <3>0, <3>1, <3>3
      <4> QED BY <2>1, <4>1 DEF InSome
    <3>4. CASE y # b
      <4>1. y \in DOMAIN len' /\ len'[y] = len[y]
        BY <2>1, <2>3, <3>1, <3>4
      <4> QED BY <3>1, <4>1 DEF InSome
    <3> QED BY SMTT(30), <1>0, <2>2, <3>0, <3>2, <3>3, <3>4
  <2>8. \A x \in held \intersect held' : x \in DOMAIN len' /\ len'[x] = len[x]
    BY <1>0, <2>1, <2>3 DEF HeapInv
  <2> QED BY <1>0, <2>1, <2>6, <2>7, <2>8 DEF Kept, HeapInv
<1> QED BY <1>1, <1>2

LEMMA ReleaseStep ==
  ASSUME HeapInv, NEW b \in held, Release(b)
  PROVE  Kept(len, held, len', held')
<1>1. held' = held \ {b} /\ b \in DOMAIN len \ held' /\ held' \subseteq DOMAIN len
  BY DEF Release, HeapInv
<1>2. PICK f \in JoinAfter(len, held', b) : len' \in JoinBefore(f, held', b)
  BY DEF Release
<1>3. Kept(len, held', f, held') /\ b \in DOMAIN f
  BY <1>1, <1>2, JoinAfterKept DEF HeapInv
<1>4. Sound(f) /\ held' \subseteq DOMAIN f /\ b \in DOMAIN f \ held'
  BY <1>1, <1>3 DEF Kept
<1>5. Kept(f, held', len', held')
  BY <1>2, <1>4, JoinBeforeKept
<1> QED BY <1>1, <1>3, <1>5 DEF Kept

\* Every step keeps the blocks apart, keeps every byte in some block and keeps
\* the blocks that stay held as they are.
LEMMA NextStep ==
  ASSUME HeapInv, [HeapNext]_heapvars
  PROVE  Kept(len, held, len', held')
<1>1. CASE UNCHANGED heapvars
  BY <1>1 DEF heapvars, Kept, HeapInv
<1>2. CASE HeapNext
  BY <1>2, AddStep, AllocStep, ReleaseStep DEF HeapNext
<1> QED BY <1>1, <1>2

\* The blocks kmalloc and kfree leave are apart and none is empty, throughout.
THEOREM HeapInvariant == HeapSpec => []HeapInv
<1>1. HeapInit => HeapInv
  BY DEF HeapInit, HeapInv, Sound
<1>2. HeapInv /\ [HeapNext]_heapvars => HeapInv'
  BY NextStep DEF HeapInv, Kept
<1> QED BY <1>1, <1>2, PTL DEF HeapSpec

\* No two blocks overlap, for every history of kmalloc and kfree.
THEOREM HeapNoOverlap == HeapSpec => []NoOverlap
<1>1. HeapInv => NoOverlap
  BY DEF HeapInv, Sound, NoOverlap
<1> QED BY <1>1, HeapInvariant, PTL

\* No byte of memory is ever lost.
THEOREM HeapNothingLost == HeapSpec => NothingLost
<1>1. HeapInv /\ [HeapNext]_heapvars => [\A x \in Addrs : Covered(x) => Covered(x)']_heapvars
  BY NextStep DEF Kept, Covered, Covers, InSome
<1> QED BY <1>1, HeapInvariant, PTL DEF HeapSpec, NothingLost

\* A held block is not touched until it is released.
THEOREM HeapHeldStable == HeapSpec => HeldStable
<1>1. HeapInv /\ [HeapNext]_heapvars =>
        [\A b \in held \intersect held' :
           b \in DOMAIN len' /\ len'[b] = len[b]]_heapvars
  BY NextStep DEF Kept
<1> QED BY <1>1, HeapInvariant, PTL DEF HeapSpec, HeldStable

-----------------------------------------------------------------------------
(* A ramfs file.                                                           *)


RType ==
    /\ fsize \in Nat /\ fcap \in Nat /\ clen \in Nat
    /\ fdata \in [0 .. fcap - 1 -> Data]
    /\ cbytes \in [0 .. clen - 1 -> Data]

RInv == RType /\ Represents

\* A write into the first size bytes of the buffer gives the contents a write
\* into those bytes is expected to give.
LEMMA RamWriteInv ==
  ASSUME RInv, NEW size \in Nat, size = 0 \/ size = fsize,
         NEW n \in Nat \ {0}, NEW off \in Nat, NEW c,
         NEW buf \in [0 .. n - 1 -> Data],
         RamWrite(size, c, off, n, buf), Expected(size, off, n, buf)
  PROVE  RInv'
<1> DEFINE end == off + n
           newlen == Larger(size, end)
<1>1. c \in Nat /\ c >= end /\ fcap' = c /\ fsize' = newlen /\ clen' = newlen
  <2>1. NewCap(end, c) /\ fcap' = c /\ fsize' = newlen /\ clen' = newlen
    BY DEF RamWrite, Expected
  <2>2. c \in Nat /\ c >= end
    <3>1. fcap \in Nat /\ end \in Nat
      BY SMTT(30) DEF RInv, RType
    <3>2. CASE end > fcap
      <4>1. c \in Caps /\ c >= end
        BY <2>1, <3>2 DEF NewCap
      <4> QED BY <4>1, RamAssumption
    <3>3. CASE ~(end > fcap)
      <4>1. c = fcap
        BY <2>1, <3>3 DEF NewCap
      <4> QED BY SMTT(30), <4>1, <3>1, <3>3
    <3> QED BY <3>2, <3>3
  <2> QED BY <2>1, <2>2
<1>2. newlen \in Nat /\ newlen >= end /\ newlen >= size /\ (newlen = end \/ newlen = size)
  BY SMTT(30) DEF Larger
<1>3. size <= fcap /\ size <= clen /\ size <= fsize
  BY SMTT(30) DEF RInv, RType, Represents
<1>4. newlen <= c
  <2>1. CASE end > fcap
    BY SMTT(30), <2>1, <1>1, <1>2, <1>3 DEF RInv, RType
  <2>2. CASE ~(end > fcap)
    BY <2>2, <1>1, <1>2, <1>3 DEF RInv, RType, RamWrite, NewCap
  <2> QED BY <2>1, <2>2
<1>5. /\ Grown(c, size) \in [0 .. c - 1 -> Data]
      /\ \A i \in 0 .. size - 1 : Grown(c, size)[i] = fdata[i]
  <2>1. CASE c = fcap
    BY <2>1 DEF Grown, RInv, RType
  <2>2. CASE c # fcap
    <3>1. c > fcap
      BY SMTT(30), <2>2, <1>1 DEF RamWrite, NewCap, RInv, RType
    <3>2. \A i \in 0 .. c - 1 : i < size => fdata[i] \in Data
      BY SMTT(30), <1>3 DEF RInv, RType
    <3>3. Grown(c, size) = [i \in 0 .. c - 1 |-> IF i < size THEN fdata[i] ELSE Zero]
      BY <2>2 DEF Grown
    <3> QED BY SMTT(30), <3>1, <3>2, <3>3, <1>1, <1>3, RamAssumption DEF RInv, RType
  <2> QED BY <2>1, <2>2
<1>6. fdata' = [i \in 0 .. c - 1 |-> IF off <= i /\ i < off + n THEN buf[i - off]
                          ELSE IF size <= i /\ i < off THEN Zero ELSE Grown(c, size)[i]]
  BY DEF RamWrite, Filled
<1>7. cbytes' = [i \in 0 .. newlen - 1 |-> IF off <= i /\ i < off + n THEN buf[i - off]
                    ELSE IF i < size THEN cbytes[i] ELSE Zero]
  BY DEF Expected
<1>8. \A i \in Nat : off <= i /\ i < off + n => buf[i - off] \in Data
  BY SMTT(30)
<1> HIDE DEF newlen, end
<1>9. fdata' \in [0 .. c - 1 -> Data]
  BY SMTT(30), <1>1, <1>5, <1>6, <1>8, RamAssumption
<1>10. \A i \in 0 .. size - 1 : cbytes[i] \in Data /\ fdata[i] = cbytes[i]
  BY SMTT(30), <1>3 DEF RInv, RType, Represents
<1>11. cbytes' \in [0 .. newlen - 1 -> Data]
  BY SMTT(30), <1>2, <1>7, <1>8, <1>10, RamAssumption
<1>12. ASSUME NEW i \in 0 .. newlen - 1 PROVE fdata'[i] = cbytes'[i]
  <2>1. i \in 0 .. c - 1
    BY SMTT(30), <1>1, <1>2, <1>4
  <2>2. CASE off <= i /\ i < off + n
    BY <2>1, <2>2, <1>6, <1>7
  <2>3. CASE ~(off <= i /\ i < off + n) /\ i < size
    BY SMTT(30), <2>1, <2>3, <1>5, <1>6, <1>7, <1>10
  <2>4. CASE ~(off <= i /\ i < off + n) /\ ~(i < size)
    <3>1. size <= i /\ i < off
      BY SMTT(30), <2>4, <1>2 DEF end
    <3> QED BY <3>1, <2>1, <2>4, <1>6, <1>7
  <2> QED BY <2>2, <2>3, <2>4
<1>13. RType'
  BY <1>1, <1>2, <1>9, <1>11 DEF RType
<1>14. Represents'
  BY <1>1, <1>4, <1>12 DEF Represents
<1> QED BY <1>13, <1>14 DEF RInv

LEMMA RNextInv == RInv /\ [RNext]_rvars => RInv'
<1> SUFFICES ASSUME RInv, [RNext]_rvars PROVE RInv'
  OBVIOUS
<1>1. ASSUME NEW n \in 1 .. MaxCount, NEW off \in 0 .. MaxEnd,
             NEW c \in Caps \union {fcap}, NEW buf \in [0 .. n - 1 -> Data],
             RWrite(off, n, buf, c)
      PROVE  RInv'
  <2>1. n \in Nat \ {0} /\ off \in Nat /\ fsize \in Nat /\ clen = fsize
    BY SMTT(30), RamAssumption DEF RInv, RType, Represents
  <2> QED BY <1>1, <2>1, RamWriteInv DEF RWrite
<1>2. ASSUME NEW n \in 1 .. MaxCount, NEW c \in Caps \union {fcap},
             NEW buf \in [0 .. n - 1 -> Data], RWriteEntire(n, buf, c)
      PROVE  RInv'
  <2>1. n \in Nat \ {0} /\ 0 \in Nat
    BY SMTT(30), RamAssumption
  <2> QED BY <1>2, <2>1, RamWriteInv DEF RWriteEntire
<1>3. CASE RTruncate
  BY SMTT(30), <1>3 DEF RTruncate, RInv, RType, Represents
<1>4. CASE UNCHANGED rvars
  BY <1>4 DEF rvars, RInv, RType, Represents
<1> QED BY <1>1, <1>2, <1>3, <1>4 DEF RNext, RNoRoom

\* A ramfs file reads back as written, through truncation, growth of its buffer
\* and writes past its end (ramfs_write, vfs_open, vfs_write_entire).
THEOREM FileReadsBack == RSpec => []Represents
<1>1. RInit => RInv
  BY SMTT(30), RamAssumption DEF RInit, RInv, RType, Represents
<1>2. RInv => Represents
  BY DEF RInv
<1> QED BY <1>1, <1>2, RNextInv, PTL DEF RSpec

-----------------------------------------------------------------------------
(* The page allocator and the tables.                                      *)

LEMMA FrameFacts ==
  Foreign \notin Frames /\ NoFrame \notin Frames /\ Frames \in SUBSET Nat
BY SMTT(30), SpacesAssumption DEF Foreign, NoFrame, Frames

\* The least element of a set of numbers.
LEMMA LeastInSet ==
  ASSUME NEW S \in SUBSET Nat, S # {} PROVE Min(S) \in S /\ \A y \in S : Min(S) <= y
<1>1. PICK x \in S : \A y \in S : ~(<<y, x>> \in OpToRel(<, Nat))
  BY NatLessThanWellFounded, WFMin
<1>2. ASSUME NEW y \in S PROVE x <= y
  <2>1. ~(<<y, x>> \in {ss \in Nat \X Nat : ss[1] < ss[2]})
    BY <1>1 DEF OpToRel
  <2>2. <<y, x>> \in Nat \X Nat /\ <<y, x>>[1] = y /\ <<y, x>>[2] = x
    OBVIOUS
  <2>3. ~(y < x)
    BY <2>1, <2>2
  <2> QED BY SMTT(30), <2>3
<1> QED BY <1>2 DEF Min

WorkFields == {"used", "cur", "data", "tab", "map", "ok", "f"}

\* Tables and pages are frames of U, or foreign memory, no frame twice.
Sep(tab, map, U) ==
  /\ \A t \in DOMAIN tab : tab[t] \in U
  /\ \A v \in DOMAIN map : map[v] \in U \union {Foreign}
  /\ \A t, w \in DOMAIN tab : tab[t] = tab[w] => t = w
  /\ \A v, w \in DOMAIN map : map[v] = map[w] /\ map[v] # Foreign => v = w
  /\ \A t \in DOMAIN tab, v \in DOMAIN map : tab[t] # map[v]

\* The framebuffer is never the allocator's.
FbForeign(map) == \A v \in DOMAIN map : v[1] = "fb" => map[v] = Foreign

\* The space under work in m takes its frames from outside of B.
Own(m, B) ==
  /\ WorkFields \subseteq DOMAIN m /\ m.ok \in BOOLEAN
  /\ m.used \subseteq Frames /\ B \subseteq m.used /\ DOMAIN m.data = Frames
  /\ Sep(m.tab, m.map, m.used \ B)
  /\ IsFiniteSet(DOMAIN m.map) /\ FbForeign(m.map)

\* From m to r no frame was freed, and none that was in use was written.
Grew(m, r) == m.used \subseteq r.used /\ \A f \in m.used : r.data[f] = m.data[f]

\* a is m after pmm_alloc_page.
Allocated(m, a) ==
  /\ WorkFields \subseteq DOMAIN a /\ a.tab = m.tab /\ a.map = m.map /\ a.ok = m.ok
  /\ a.f = NoFrame => a.used = m.used /\ a.data = m.data
  /\ a.f # NoFrame => /\ a.f \in Frames \ m.used /\ a.used = m.used \union {a.f}
                      /\ a.data = [m.data EXCEPT ![a.f] = 0]

LEMMA AllocFrame ==
  ASSUME NEW m, NEW B, Own(m, B), NEW a, a = PmmAlloc(m) PROVE Allocated(m, a)
<1> DEFINE from == {f \in Frames \ m.used : f >= m.cur}
           f == IF from # {} THEN Min(from) ELSE Min(Frames \ m.used)
<1>1. WorkFields \subseteq DOMAIN m
  BY DEF Own
<1>2. CASE m.used = Frames
  <2>1. a = [m EXCEPT !.f = NoFrame]
    BY <1>2 DEF PmmAlloc
  <2> QED BY <1>1, <2>1 DEF Allocated, WorkFields
<1>3. CASE m.used # Frames
  <2>1. f \in Frames \ m.used
    <3>1. from \in SUBSET Nat /\ Frames \ m.used \in SUBSET Nat /\ Frames \ m.used # {}
      BY <1>3, FrameFacts DEF Own
    <3> HIDE DEF from
    <3>2. from # {} => Min(from) \in from
      BY <3>1, LeastInSet
    <3>3. Min(Frames \ m.used) \in Frames \ m.used
      BY <3>1, LeastInSet
    <3> QED BY <3>2, <3>3 DEF from
  <2>2. a = [m EXCEPT !.f = f, !.used = @ \union {f}, !.data = [@ EXCEPT ![f] = 0],
                      !.cur = (f % NFrames) + 1]
    BY <1>3 DEF PmmAlloc
  <2> HIDE DEF f
  <2>3. /\ WorkFields \subseteq DOMAIN a /\ a.tab = m.tab /\ a.map = m.map /\ a.ok = m.ok
        /\ a.f = f /\ a.used = m.used \union {f} /\ a.data = [m.data EXCEPT ![f] = 0]
    BY <1>1, <2>2 DEF WorkFields
  <2> QED BY <2>1, <2>3, FrameFacts DEF Allocated
<1> QED BY <1>2, <1>3

\* A frame that is in no table and no page gets its one use.
LEMMA SepTable ==
  ASSUME NEW tab, NEW map, NEW U, Sep(tab, map, U), NEW f, f \notin U, f # Foreign, NEW t
  PROVE  Sep(WithEntry(tab, t, f), map, U \union {f})
BY SMTT(30) DEF Sep, WithEntry

LEMMA SepPage ==
  ASSUME NEW tab, NEW map, NEW U, Sep(tab, map, U), NEW f, f \notin U, f # Foreign, NEW v
  PROVE  Sep(tab, WithEntry(map, v, f), U \union {f})
BY SMTT(30) DEF Sep, WithEntry

LEMMA SepForeign ==
  ASSUME NEW tab, NEW map, NEW U, Sep(tab, map, U), NEW v, Foreign \notin U
  PROVE  Sep(tab, WithEntry(map, v, Foreign), U)
BY SMTT(30) DEF Sep, WithEntry

LEMMA SepMore ==
  ASSUME NEW tab, NEW map, NEW U, Sep(tab, map, U), NEW V, U \subseteq V
  PROVE  Sep(tab, map, V)
BY DEF Sep

LEMMA EntryFinite ==
  ASSUME NEW map, NEW v, NEW f, IsFiniteSet(DOMAIN map)
  PROVE  IsFiniteSet(DOMAIN WithEntry(map, v, f))
<1>1. DOMAIN WithEntry(map, v, f) = DOMAIN map \union {v}
  BY DEF WithEntry
<1> QED BY <1>1, FS_AddElement
-----------------------------------------------------------------------------
(* Mapping a page.                                                         *)

\* r is m after a table was needed.
Tabled(m, r, B) ==
  /\ Own(r, B) /\ Grew(m, r) /\ r.map = m.map /\ (r.ok => m.ok)
  /\ DOMAIN m.tab \subseteq DOMAIN r.tab

LEMMA TableNeeded ==
  ASSUME NEW m, NEW B, Own(m, B), NEW t, NEW r, r = NeedTable(m, t)
  PROVE  Tabled(m, r, B) /\ (r.ok => t \in DOMAIN r.tab)
<1>1. WorkFields \subseteq DOMAIN m /\ m.ok \in BOOLEAN
  BY DEF Own
<1>2. CASE ~m.ok \/ t \in DOMAIN m.tab
  BY <1>2 DEF NeedTable, Tabled, Grew
<1>3. CASE m.ok /\ t \notin DOMAIN m.tab
  <2> DEFINE a == PmmAlloc(m)
  <2>1. Allocated(m, a)
    BY AllocFrame
  <2>2. r = IF a.f = NoFrame THEN [m EXCEPT !.ok = FALSE]
            ELSE [a EXCEPT !.tab = WithEntry(@, t, a.f)]
    BY <1>3 DEF NeedTable, NewTable
  <2> HIDE DEF a
  <2>3. CASE a.f = NoFrame
    <3>1. /\ WorkFields \subseteq DOMAIN r /\ r.used = m.used /\ r.data = m.data /\ r.tab = m.tab
          /\ r.map = m.map /\ r.ok = FALSE
      BY <1>1, <2>2, <2>3 DEF WorkFields
    <3> QED BY <3>1 DEF Tabled, Own, Grew
  <2>4. CASE a.f # NoFrame
    <3>1. /\ a.f \in Frames \ m.used /\ a.used = m.used \union {a.f}
          /\ a.data = [m.data EXCEPT ![a.f] = 0]
      BY <2>1, <2>4 DEF Allocated
    <3>2. /\ WorkFields \subseteq DOMAIN r /\ r.used = m.used \union {a.f} /\ r.data = a.data
          /\ r.tab = WithEntry(m.tab, t, a.f) /\ r.map = m.map /\ r.ok = m.ok
      BY <2>1, <2>2, <2>4, <3>1 DEF WorkFields, Allocated
    <3>3. Sep(r.tab, r.map, r.used \ B)
      <4>1. Sep(m.tab, m.map, m.used \ B) /\ a.f \notin m.used \ B /\ a.f # Foreign
        BY <3>1, FrameFacts DEF Own
      <4>2. Sep(r.tab, r.map, (m.used \ B) \union {a.f})
        BY SMTT(30), <3>2, <4>1, SepTable
      <4>3. (m.used \ B) \union {a.f} \subseteq r.used \ B
        BY <3>1, <3>2 DEF Own
      <4> QED BY <4>2, <4>3, SepMore
    <3>4. DOMAIN r.data = Frames /\ \A f \in m.used : r.data[f] = m.data[f]
      BY <3>1, <3>2 DEF Own
    <3>5. DOMAIN m.tab \subseteq DOMAIN r.tab /\ t \in DOMAIN r.tab
      BY <3>2 DEF WithEntry
    <3> QED BY <3>1, <3>2, <3>3, <3>4, <3>5 DEF Tabled, Own, Grew
  <2> QED BY <2>3, <2>4
<1> QED BY <1>1, <1>2, <1>3

LEMMA TwoTables ==
  ASSUME NEW m, NEW B, Own(m, B), NEW t, NEW u, NEW r, r = NeedTable(NeedTable(m, t), u)
  PROVE  Tabled(m, r, B)
<1> DEFINE n == NeedTable(m, t)
<1>1. Tabled(m, n, B)
  BY TableNeeded
<1>2. Tabled(n, r, B)
  <2>1. Own(n, B) /\ r = NeedTable(n, u)
    BY <1>1 DEF Tabled
  <2> HIDE DEF n
  <2> QED BY <2>1, TableNeeded
<1> HIDE DEF n
<1> QED BY <1>1, <1>2 DEF Tabled, Grew

\* A page of other memory is mapped.
LEMMA ForeignMapped ==
  ASSUME NEW m, NEW B, Own(m, B), NEW v, NEW r, r = MapPage(m, Foreign, v)
  PROVE  Own(r, B) /\ Grew(m, r)
<1> DEFINE n == NeedTable(NeedTable(m, <<"pd", v[1]>>), <<"pt", v[1]>>)
<1>1. Tabled(m, n, B)
  BY TwoTables
<1>2. r = IF n.ok THEN [n EXCEPT !.map = WithEntry(@, v, Foreign)] ELSE n
  BY DEF MapPage, Entered
<1> HIDE DEF n
<1>3. CASE ~n.ok
  BY <1>1, <1>2, <1>3 DEF Tabled
<1>4. CASE n.ok
  <2>1. /\ WorkFields \subseteq DOMAIN r /\ r.used = n.used /\ r.data = n.data /\ r.tab = n.tab
        /\ r.map = WithEntry(n.map, v, Foreign) /\ r.ok = n.ok
    BY <1>1, <1>2, <1>4 DEF Tabled, Own, WorkFields
  <2>2. Sep(r.tab, r.map, r.used \ B)
    <3>1. Sep(n.tab, n.map, n.used \ B) /\ Foreign \notin n.used \ B
      BY <1>1, FrameFacts DEF Tabled, Own
    <3> QED BY SMTT(30), <2>1, <3>1, SepForeign
  <2>3. IsFiniteSet(DOMAIN r.map)
    BY <1>1, <2>1, EntryFinite DEF Tabled, Own
  <2>4. FbForeign(r.map)
    BY <1>1, <2>1 DEF Tabled, Own, FbForeign, WithEntry
  <2> QED BY <1>1, <2>1, <2>2, <2>3, <2>4 DEF Tabled, Own, Grew
<1> QED BY <1>3, <1>4

\* r is m after a new page at v that holds x; when it failed, nothing is mapped.
Paged(m, r, v, x) ==
  /\ Grew(m, r) /\ (~r.ok => r.map = m.map)
  /\ r.ok => /\ m.ok /\ DOMAIN r.map = DOMAIN m.map \union {v}
             /\ r.map[v] \in r.used /\ r.data[r.map[v]] = x
             /\ \A w \in DOMAIN m.map \ {v} : r.map[w] = m.map[w]

LEMMA PageMade ==
  ASSUME NEW m, NEW B, Own(m, B), NEW v, v[1] # "fb", NEW x, NEW r, r = NewPage(m, v, x)
  PROVE  Own(r, B) /\ Paged(m, r, v, x)
<1>1. WorkFields \subseteq DOMAIN m /\ m.ok \in BOOLEAN
  BY DEF Own
<1>2. CASE ~m.ok
  BY <1>2 DEF NewPage, Paged, Grew
<1>3. CASE m.ok
  <2> DEFINE a == PmmAlloc(m)
             f == a.f
             b == [a EXCEPT !.data = [@ EXCEPT ![f] = x]]
             n == NeedTable(NeedTable(b, <<"pd", v[1]>>), <<"pt", v[1]>>)
  <2>1. Allocated(m, a)
    BY AllocFrame
  <2>2. r = IF f = NoFrame THEN [m EXCEPT !.ok = FALSE] ELSE GiveBack(Entered(n, f, v), f)
    BY <1>3 DEF NewPage, FillPage, MapPage
  <2> HIDE DEF a
  <2>3. CASE f = NoFrame
    <3>1. /\ WorkFields \subseteq DOMAIN r /\ r.used = m.used /\ r.data = m.data /\ r.tab = m.tab
          /\ r.map = m.map /\ r.ok = FALSE
      BY <1>1, <2>2, <2>3 DEF WorkFields
    <3> QED BY <3>1 DEF Paged, Own, Grew
  <2>4. CASE f # NoFrame
    <3>1. /\ f \in Frames \ m.used /\ a.used = m.used \union {f}
          /\ a.data = [m.data EXCEPT ![f] = 0]
      BY <2>1, <2>4 DEF Allocated
    <3>2. /\ WorkFields \subseteq DOMAIN b /\ b.used = m.used \union {f} /\ b.tab = m.tab
          /\ b.map = m.map /\ b.ok = m.ok
          /\ b.data = [a.data EXCEPT ![f] = x]
      BY <2>1, <3>1 DEF WorkFields, Allocated
    <3> HIDE DEF f, b
    <3>3. DOMAIN b.data = Frames /\ b.data[f] = x /\ \A g \in m.used : b.data[g] = m.data[g]
      BY <3>1, <3>2 DEF Own
    <3>4. Own(b, B \union {f})
      <4>1. b.used \ (B \union {f}) = m.used \ B
        BY <3>1, <3>2
      <4> QED BY <3>1, <3>2, <3>3, <4>1 DEF Own
    <3>5. Tabled(b, n, B \union {f})
      BY <3>4, TwoTables
    <3> HIDE DEF n
    <3>6. n.data[f] = x /\ f \in n.used /\ Grew(m, n)
      BY <3>2, <3>3, <3>5 DEF Tabled, Grew
    <3>7. /\ WorkFields \subseteq DOMAIN n /\ n.ok \in BOOLEAN
          /\ n.used \subseteq Frames /\ B \subseteq n.used /\ DOMAIN n.data = Frames
          /\ Sep(n.tab, n.map, n.used \ (B \union {f}))
          /\ IsFiniteSet(DOMAIN n.map) /\ FbForeign(n.map) /\ n.map = m.map
      BY <3>2, <3>5 DEF Tabled, Own
    <3>8. f \notin B
      BY <3>1 DEF Own
    <3>9. CASE n.ok
      <4>1. r = [n EXCEPT !.map = WithEntry(@, v, f)]
        BY <2>2, <2>4, <3>7, <3>9 DEF Entered, GiveBack, WorkFields
      <4>2. /\ WorkFields \subseteq DOMAIN r /\ r.used = n.used /\ r.data = n.data
            /\ r.tab = n.tab /\ r.map = WithEntry(n.map, v, f) /\ r.ok = n.ok
        BY <3>7, <4>1 DEF WorkFields
      <4>3. Sep(r.tab, r.map, r.used \ B)
        <5>1. f \notin n.used \ (B \union {f}) /\ f # Foreign
          BY <3>1, FrameFacts
        <5>2. Sep(r.tab, r.map, (n.used \ (B \union {f})) \union {f})
          BY SMTT(30), <3>7, <4>2, <5>1, SepPage
        <5>3. (n.used \ (B \union {f})) \union {f} \subseteq r.used \ B
          BY <3>6, <3>8, <4>2
        <5> QED BY <5>2, <5>3, SepMore
      <4>4. IsFiniteSet(DOMAIN r.map)
        BY <3>7, <4>2, EntryFinite
      <4>5. FbForeign(r.map)
        BY <3>7, <4>2 DEF FbForeign, WithEntry
      <4>6. /\ DOMAIN r.map = DOMAIN m.map \union {v} /\ r.map[v] = f
            /\ \A w \in DOMAIN m.map \ {v} : r.map[w] = m.map[w]
        BY <3>7, <4>2 DEF WithEntry
      <4> QED BY <1>3, <3>6, <3>7, <3>9, <4>2, <4>3, <4>4, <4>5, <4>6 DEF Own, Paged, Grew
    <3>10. CASE ~n.ok
      <4>1. r = [n EXCEPT !.used = @ \ {f}]
        BY <2>2, <2>4, <3>10 DEF Entered, GiveBack
      <4>2. /\ WorkFields \subseteq DOMAIN r /\ r.used = n.used \ {f} /\ r.data = n.data
            /\ r.tab = n.tab /\ r.map = n.map /\ r.ok = n.ok
        BY <3>7, <4>1 DEF WorkFields
      <4>3. r.used \ B = n.used \ (B \union {f})
        BY <4>2
      <4>4. Grew(m, r)
        BY <3>1, <3>6, <4>2 DEF Grew
      <4> QED BY <3>7, <3>8, <3>10, <4>2, <4>3, <4>4 DEF Own, Paged
    <3> QED BY <3>7, <3>9, <3>10
  <2> QED BY <2>3, <2>4
<1> QED BY <1>1, <1>2, <1>3
-----------------------------------------------------------------------------
(* Page after page.                                                        *)

LEMMA CountUp ==
  ASSUME NEW N \in Nat, NEW S, 0 \in S, \A n \in 1 .. N : n - 1 \in S => n \in S
  PROVE  \A n \in 0 .. N : n \in S
<1> DEFINE B == {n \in 0 .. N : n \notin S}
<1> SUFFICES ASSUME B # {} PROVE FALSE
  OBVIOUS
<1>1. B \in SUBSET Nat
  BY SMTT(30)
<1>2. PICK m : m \in B /\ \A y \in B : m <= y
  <2> HIDE DEF B
  <2> QED BY <1>1, LeastInSet
<1>3. m \in 1 .. N /\ m - 1 \in 0 .. N /\ m - 1 \notin B
  BY SMTT(30), <1>2
<1> QED BY <1>2, <1>3

\* The loop over pages, as the values it goes through.
LEMMA PagesInTurn ==
  ASSUME NEW m, NEW vs, NEW xs, Len(vs) \in Nat
  PROVE  \E h : /\ h[0] = m
                /\ \A i \in 1 .. Len(vs) : h[i] = NewPage(h[i - 1], vs[i], xs[i])
                /\ NewPages(m, vs, xs) = h[Len(vs)]
<1> DEFINE Good(h, n) == h = [i \in 0 .. n |-> IF i = 0 THEN m ELSE NewPage(h[i - 1], vs[i], xs[i])]
           S == {n \in 0 .. Len(vs) : \E h : Good(h, n)}
           g == CHOOSE h : Good(h, Len(vs))
<1>1. NewPages(m, vs, xs) = g[Len(vs)]
  BY DEF NewPages
<1>2. 0 \in S
  <2> DEFINE h == [i \in 0 .. 0 |-> m]
  <2>1. Good(h, 0)
    BY SMTT(30)
  <2> HIDE DEF h, Good
  <2> QED BY SMTT(30), <2>1
<1>3. ASSUME NEW n \in 1 .. Len(vs), n - 1 \in S PROVE n \in S
  <2>1. PICK h : Good(h, n - 1)
    BY <1>3
  <2> DEFINE e == [i \in 0 .. n |-> IF i = n THEN NewPage(h[n - 1], vs[n], xs[n]) ELSE h[i]]
  <2>2. \A i \in 0 .. n - 1 : h[i] = IF i = 0 THEN m ELSE NewPage(h[i - 1], vs[i], xs[i])
    BY <2>1
  <2>3. \A i \in 0 .. n : e[i] = IF i = 0 THEN m ELSE NewPage(e[i - 1], vs[i], xs[i])
    BY SMTT(30), <2>2
  <2>4. e = [i \in 0 .. n |-> e[i]]
    OBVIOUS
  <2>5. Good(e, n)
    <3> HIDE DEF e
    <3> QED BY <2>3, <2>4
  <2> HIDE DEF e, Good
  <2> QED BY SMTT(30), <2>5
<1>4. \A n \in 0 .. Len(vs) : n \in S
  <2> HIDE DEF S
  <2> QED BY <1>2, <1>3, CountUp
<1>5. Good(g, Len(vs))
  <2> HIDE DEF Good
  <2>1. \E h : Good(h, Len(vs))
    BY SMTT(30), <1>4
  <2> QED BY <2>1
<1> HIDE DEF g
<1>6. g[0] = m /\ \A i \in 1 .. Len(vs) : g[i] = NewPage(g[i - 1], vs[i], xs[i])
  <2>1. \A i \in 0 .. Len(vs) : g[i] = IF i = 0 THEN m ELSE NewPage(g[i - 1], vs[i], xs[i])
    BY <1>5
  <2> HIDE DEF Good
  <2> QED BY SMTT(30), <2>1
<1> QED BY <1>1, <1>6

\* The loop of sys_mmap.
LEMMA ForeignInTurn ==
  ASSUME NEW m, NEW vs, Len(vs) \in Nat
  PROVE  \E h : /\ h[0] = m
                /\ \A i \in 1 .. Len(vs) : h[i] = MapPage(h[i - 1], Foreign, vs[i])
                /\ MapForeign(m, vs) = h[Len(vs)]
<1> DEFINE Good(h, n) == h = [i \in 0 .. n |-> IF i = 0 THEN m ELSE MapPage(h[i - 1], Foreign, vs[i])]
           S == {n \in 0 .. Len(vs) : \E h : Good(h, n)}
           g == CHOOSE h : Good(h, Len(vs))
<1>1. MapForeign(m, vs) = g[Len(vs)]
  BY DEF MapForeign
<1>2. 0 \in S
  <2> DEFINE h == [i \in 0 .. 0 |-> m]
  <2>1. Good(h, 0)
    BY SMTT(30)
  <2> HIDE DEF h, Good
  <2> QED BY SMTT(30), <2>1
<1>3. ASSUME NEW n \in 1 .. Len(vs), n - 1 \in S PROVE n \in S
  <2>1. PICK h : Good(h, n - 1)
    BY <1>3
  <2> DEFINE e == [i \in 0 .. n |-> IF i = n THEN MapPage(h[n - 1], Foreign, vs[n]) ELSE h[i]]
  <2>2. \A i \in 0 .. n - 1 : h[i] = IF i = 0 THEN m ELSE MapPage(h[i - 1], Foreign, vs[i])
    BY <2>1
  <2>3. \A i \in 0 .. n : e[i] = IF i = 0 THEN m ELSE MapPage(e[i - 1], Foreign, vs[i])
    BY SMTT(30), <2>2
  <2>4. e = [i \in 0 .. n |-> e[i]]
    OBVIOUS
  <2>5. Good(e, n)
    <3> HIDE DEF e
    <3> QED BY <2>3, <2>4
  <2> HIDE DEF e, Good
  <2> QED BY SMTT(30), <2>5
<1>4. \A n \in 0 .. Len(vs) : n \in S
  <2> HIDE DEF S
  <2> QED BY <1>2, <1>3, CountUp
<1>5. Good(g, Len(vs))
  <2> HIDE DEF Good
  <2>1. \E h : Good(h, Len(vs))
    BY SMTT(30), <1>4
  <2> QED BY <2>1
<1> HIDE DEF g
<1>6. g[0] = m /\ \A i \in 1 .. Len(vs) : g[i] = MapPage(g[i - 1], Foreign, vs[i])
  <2>1. \A i \in 0 .. Len(vs) : g[i] = IF i = 0 THEN m ELSE MapPage(g[i - 1], Foreign, vs[i])
    BY <1>5
  <2> HIDE DEF Good
  <2> QED BY SMTT(30), <2>1
<1> QED BY <1>1, <1>6

\* After the first n pages of a loop that began at m.
Stage(m, r, vs, n) ==
  /\ Grew(m, r)
  /\ r.ok => /\ m.ok /\ DOMAIN m.map \subseteq DOMAIN r.map
             /\ \A i \in 1 .. n : vs[i] \in DOMAIN r.map

\* The pages hold what was put there, if no two are the same.
PagesHold(r, vs, xs, n) ==
  r.ok => \A i \in 1 .. n : r.map[vs[i]] \in r.used /\ r.data[r.map[vs[i]]] = xs[i]

Distinct(vs) == \A i, j \in 1 .. Len(vs) : vs[i] = vs[j] => i = j

Done(m, r, vs, xs, n, B) ==
  Own(r, B) /\ Stage(m, r, vs, n) /\ (Distinct(vs) => PagesHold(r, vs, xs, n))

LEMMA PagesMade ==
  ASSUME NEW m, NEW B, Own(m, B), NEW vs, NEW xs, Len(vs) \in Nat,
         \A i \in 1 .. Len(vs) : vs[i][1] # "fb", NEW r, r = NewPages(m, vs, xs)
  PROVE  Done(m, r, vs, xs, Len(vs), B)
<1>1. PICK h : /\ h[0] = m
               /\ \A i \in 1 .. Len(vs) : h[i] = NewPage(h[i - 1], vs[i], xs[i])
               /\ r = h[Len(vs)]
  BY SMTT(30), PagesInTurn
<1> DEFINE S == {n \in 0 .. Len(vs) : Done(m, h[n], vs, xs, n, B)}
<1>2. 0 \in S
  <2>1. 1 .. 0 = {} /\ 0 \in 0 .. Len(vs)
    BY SMTT(30)
  <2>2. Stage(m, m, vs, 0) /\ PagesHold(m, vs, xs, 0)
    BY <2>1 DEF Stage, PagesHold, Grew
  <2> QED BY <1>1, <2>1, <2>2 DEF Done
<1>3. ASSUME NEW n \in 1 .. Len(vs), n - 1 \in S PROVE n \in S
  <2> DEFINE a == h[n - 1]
             b == h[n]
  <2>0. Done(m, a, vs, xs, n - 1, B)
    BY <1>3
  <2>1. Own(a, B) /\ Stage(m, a, vs, n - 1) /\ (Distinct(vs) => PagesHold(a, vs, xs, n - 1))
    BY <2>0 DEF Done
  <2>2. b = NewPage(a, vs[n], xs[n]) /\ vs[n][1] # "fb"
    BY <1>1
  <2> HIDE DEF a, b
  <2>3. Own(b, B) /\ Paged(a, b, vs[n], xs[n])
    BY <2>1, <2>2, PageMade
  <2>4. /\ n \in 0 .. Len(vs)
        /\ \A i \in 1 .. n : i \in 1 .. n - 1 \/ i = n
        /\ \A i \in 1 .. n - 1 : i # n /\ i \in 1 .. Len(vs)
    BY SMTT(30)
  <2>5. Stage(m, b, vs, n)
    <3>1. Grew(m, b)
      BY <2>1, <2>3 DEF Stage, Paged, Grew
    <3>2. ASSUME b.ok
          PROVE  /\ m.ok /\ DOMAIN m.map \subseteq DOMAIN b.map
                 /\ \A i \in 1 .. n : vs[i] \in DOMAIN b.map
      <4>1. a.ok /\ DOMAIN b.map = DOMAIN a.map \union {vs[n]}
        BY <2>3, <3>2 DEF Paged
      <4> QED BY <2>1, <2>4, <4>1 DEF Stage
    <3> QED BY <3>1, <3>2 DEF Stage
  <2>6. ASSUME Distinct(vs) PROVE PagesHold(b, vs, xs, n)
    <3> SUFFICES ASSUME b.ok, NEW i \in 1 .. n
                 PROVE  b.map[vs[i]] \in b.used /\ b.data[b.map[vs[i]]] = xs[i]
      BY DEF PagesHold
    <3>1. CASE i = n
      BY <2>3, <3>1 DEF Paged
    <3>2. CASE i \in 1 .. n - 1
      <4>1. a.ok /\ vs[i] # vs[n]
        BY <2>3, <2>4, <2>6, <3>2 DEF Paged, Distinct
      <4>2. vs[i] \in DOMAIN a.map
        BY <2>1, <3>2, <4>1 DEF Stage
      <4>3. b.map[vs[i]] = a.map[vs[i]]
        BY <2>3, <4>1, <4>2 DEF Paged
      <4>4. a.map[vs[i]] \in a.used /\ a.data[a.map[vs[i]]] = xs[i]
        BY <2>1, <2>6, <3>2, <4>1 DEF PagesHold
      <4>5. Grew(a, b)
        BY <2>3 DEF Paged
      <4> QED BY <4>3, <4>4, <4>5 DEF Grew
    <3> QED BY <2>4, <3>1, <3>2
  <2> QED BY <2>3, <2>4, <2>5, <2>6 DEF b, Done
<1>4. \A n \in 0 .. Len(vs) : n \in S
  <2> HIDE DEF S
  <2> QED BY <1>2, <1>3, CountUp
<1>5. Len(vs) \in S
  <2>1. Len(vs) \in 0 .. Len(vs)
    BY SMTT(30)
  <2> QED BY <1>4, <2>1
<1> QED BY <1>1, <1>5

LEMMA ForeignMade ==
  ASSUME NEW m, NEW B, Own(m, B), NEW vs, Len(vs) \in Nat, NEW r, r = MapForeign(m, vs)
  PROVE  Own(r, B) /\ Grew(m, r)
<1>1. PICK h : /\ h[0] = m
               /\ \A i \in 1 .. Len(vs) : h[i] = MapPage(h[i - 1], Foreign, vs[i])
               /\ r = h[Len(vs)]
  BY SMTT(30), ForeignInTurn
<1> DEFINE S == {n \in 0 .. Len(vs) : Own(h[n], B) /\ Grew(m, h[n])}
<1>2. 0 \in S
  <2>1. 0 \in 0 .. Len(vs)
    BY SMTT(30)
  <2> QED BY <1>1, <2>1 DEF Grew
<1>3. ASSUME NEW n \in 1 .. Len(vs), n - 1 \in S PROVE n \in S
  <2> DEFINE a == h[n - 1]
             b == h[n]
  <2>1. Own(a, B) /\ Grew(m, a) /\ b = MapPage(a, Foreign, vs[n])
    BY <1>1, <1>3
  <2> HIDE DEF a, b
  <2>2. Own(b, B) /\ Grew(a, b)
    BY <2>1, ForeignMapped
  <2>3. Grew(m, b) /\ n \in 0 .. Len(vs)
    <3>1. n \in 0 .. Len(vs)
      BY SMTT(30)
    <3> QED BY <2>1, <2>2, <3>1 DEF Grew
  <2> QED BY <2>2, <2>3 DEF b
<1>4. \A n \in 0 .. Len(vs) : n \in S
  <2> HIDE DEF S
  <2> QED BY <1>2, <1>3, CountUp
<1>5. Len(vs) \in S
  <2>1. Len(vs) \in 0 .. Len(vs)
    BY SMTT(30)
  <2> QED BY <1>4, <2>1
<1> QED BY <1>1, <1>5
-----------------------------------------------------------------------------
(* A new space, and giving it back.                                        *)

\* What every call keeps, done or failed.
Safe(m, r) == Grew(m, r) /\ r.used \subseteq Frames /\ DOMAIN r.data = Frames

LEMMA EmptyOwn ==
  ASSUME NEW m, WorkFields \subseteq DOMAIN m, m.ok = TRUE, m.used \subseteq Frames,
         DOMAIN m.data = Frames, m.tab = NoEntries, m.map = NoEntries
  PROVE  Own(m, m.used)
<1>1. DOMAIN NoEntries = {}
  BY DEF NoEntries
<1>2. IsFiniteSet({})
  BY FS_EmptySet
<1>3. Sep(m.tab, m.map, m.used \ m.used)
  BY <1>1 DEF Sep
<1>4. FbForeign(m.map)
  BY <1>1 DEF FbForeign
<1> QED BY <1>1, <1>2, <1>3, <1>4 DEF Own

LEMMA SpaceMade ==
  ASSUME NEW m, Own(m, m.used), m.ok = TRUE, NEW r, r = CreateSpace(m)
  PROVE  Safe(m, r) /\ (r.ok => Own(r, m.used))
<1> DEFINE e == [m EXCEPT !.tab = NoEntries, !.map = NoEntries]
           a == NeedTable(e, <<"pml4", "all">>)
           b == NeedTable(a, <<"pdpt", "all">>)
           c == MapPage(b, Foreign, <<"fb", 1>>)
<1>1. r = IF ~a.ok THEN a
          ELSE IF ~b.ok THEN [b EXCEPT !.used = @ \ {b.tab[<<"pml4", "all">>]}]
          ELSE [c EXCEPT !.ok = TRUE]
  BY DEF CreateSpace
<1>2. /\ WorkFields \subseteq DOMAIN e /\ e.ok = TRUE /\ e.used = m.used /\ e.data = m.data
      /\ e.tab = NoEntries /\ e.map = NoEntries
  BY DEF Own, WorkFields
<1>3. Own(e, m.used)
  <2>1. m.used \subseteq Frames /\ DOMAIN m.data = Frames
    BY DEF Own
  <2> HIDE DEF e
  <2>2. Own(e, e.used)
    BY <1>2, <2>1, EmptyOwn
  <2> QED BY <1>2, <2>2
<1> HIDE DEF e
<1>4. Tabled(e, a, m.used) /\ (a.ok => <<"pml4", "all">> \in DOMAIN a.tab)
  BY <1>3, TableNeeded
<1> HIDE DEF a
<1>5. Own(a, m.used) /\ Grew(m, a)
  BY <1>2, <1>4 DEF Tabled, Grew
<1>6. Tabled(a, b, m.used)
  BY <1>5, TableNeeded
<1> HIDE DEF b
<1>7. Own(b, m.used) /\ Grew(m, b)
  BY <1>5, <1>6 DEF Tabled, Grew
<1>8. Own(c, m.used) /\ Grew(b, c)
  BY <1>7, ForeignMapped
<1> HIDE DEF c
<1>9. Grew(m, c)
  BY <1>7, <1>8 DEF Grew
<1>10. CASE ~a.ok
  BY <1>1, <1>5, <1>10 DEF Safe, Own
<1>11. CASE a.ok /\ ~b.ok
  <2> DEFINE f == b.tab[<<"pml4", "all">>]
  <2>1. f \notin m.used
    <3>1. <<"pml4", "all">> \in DOMAIN b.tab
      BY <1>4, <1>6, <1>11 DEF Tabled
    <3> QED BY <1>7, <3>1 DEF Own, Sep
  <2>2. r = [b EXCEPT !.used = @ \ {f}]
    BY <1>1, <1>11
  <2>3. r.used = b.used \ {f} /\ r.data = b.data /\ r.ok = b.ok
    BY <1>7, <2>2 DEF Own, WorkFields
  <2> HIDE DEF f
  <2> QED BY <1>7, <1>11, <2>1, <2>3 DEF Safe, Grew, Own
<1>12. CASE a.ok /\ b.ok
  <2>1. r = [c EXCEPT !.ok = TRUE]
    BY <1>1, <1>12
  <2>2. /\ WorkFields \subseteq DOMAIN r /\ r.used = c.used /\ r.data = c.data /\ r.tab = c.tab
        /\ r.map = c.map /\ r.ok = TRUE
    BY <1>8, <2>1 DEF Own, WorkFields
  <2>3. Own(r, m.used)
    BY <1>8, <2>2 DEF Own
  <2>4. Safe(m, r)
    BY <1>8, <1>9, <2>2 DEF Safe, Grew, Own
  <2> QED BY <2>3, <2>4
<1> QED BY <1>10, <1>11, <1>12

\* free_address_space frees nothing but what the space owns.
LEMMA FreesOwn ==
  ASSUME NEW tab, NEW map, NEW U, Sep(tab, map, U)
  PROVE  FramesToFree(tab, map) \subseteq U
<1>1. Foreign \notin Frames
  BY FrameFacts
<1> QED BY SMTT(30), <1>1 DEF Sep, FramesToFree

LEMMA GivenBack ==
  ASSUME NEW m, NEW n, Own(n, m.used), Grew(m, n), NEW r, r = Give(n)
  PROVE  Safe(m, r) /\ ~r.ok
<1>1. r.used = n.used \ FramesToFree(n.tab, n.map) /\ r.data = n.data /\ r.ok = FALSE
  BY DEF Give, Own, WorkFields
<1>2. FramesToFree(n.tab, n.map) \subseteq n.used \ m.used
  BY FreesOwn DEF Own
<1> QED BY <1>1, <1>2 DEF Safe, Grew, Own

LEMMA LoadMade ==
  ASSUME NEW m, Own(m, m.used), m.ok = TRUE, NEW image \in Nat, NEW r, r = Load(m, image)
  PROVE  Safe(m, r) /\ (r.ok => Own(r, m.used))
<1> DEFINE a == CreateSpace(m)
           b == NewPages(a, Low(0, image), [i \in 1 .. image |-> 1])
           c == NewPages(b, UserStack, Zeros(UserStack))
           d == NewPage(c, Guard, 0)
<1>1. r = IF ~a.ok THEN a ELSE IF ~c.ok THEN Give(c) ELSE IF d.ok THEN d ELSE [d EXCEPT !.ok = TRUE]
  BY DEF Load
<1>2. Safe(m, a) /\ (a.ok => Own(a, m.used))
  BY SpaceMade
<1> HIDE DEF a
<1>3. CASE ~a.ok
  BY <1>1, <1>2, <1>3
<1>4. CASE a.ok
  <2>1. /\ Len(Low(0, image)) \in Nat /\ \A i \in 1 .. Len(Low(0, image)) : Low(0, image)[i][1] # "fb"
    BY SMTT(30) DEF Low
  <2>2. /\ Len(UserStack) \in Nat /\ \A i \in 1 .. Len(UserStack) : UserStack[i][1] # "fb"
    BY SMTT(30), SpacesAssumption DEF UserStack
  <2>3. Own(b, m.used) /\ Grew(a, b)
    BY <1>2, <1>4, <2>1, PagesMade DEF Done, Stage
  <2> HIDE DEF b
  <2>4. Own(c, m.used) /\ Grew(b, c)
    BY <2>2, <2>3, PagesMade DEF Done, Stage
  <2> HIDE DEF c
  <2>5. Own(d, m.used) /\ Grew(c, d)
    <3>1. Guard[1] # "fb"
      BY SMTT(30) DEF Guard
    <3> QED BY <2>4, <3>1, PageMade DEF Paged
  <2> HIDE DEF d
  <2>6. Grew(m, c) /\ Grew(m, d)
    <3>1. Grew(m, a)
      BY <1>2 DEF Safe
    <3> QED BY <2>3, <2>4, <2>5, <3>1 DEF Grew
  <2>7. CASE ~c.ok
    BY <1>1, <1>4, <2>4, <2>6, <2>7, GivenBack
  <2>8. CASE c.ok /\ d.ok
    BY <1>1, <1>4, <2>5, <2>6, <2>8 DEF Safe, Own
  <2>9. CASE c.ok /\ ~d.ok
    <3>1. r = [d EXCEPT !.ok = TRUE]
      BY <1>1, <1>4, <2>9
    <3>2. /\ WorkFields \subseteq DOMAIN r /\ r.used = d.used /\ r.data = d.data /\ r.tab = d.tab
          /\ r.map = d.map /\ r.ok = TRUE
      BY <2>5, <3>1 DEF Own, WorkFields
    <3>3. Own(r, m.used)
      BY <2>5, <3>2 DEF Own
    <3>4. Safe(m, r)
      BY <2>5, <2>6, <3>2 DEF Safe, Grew, Own
    <3> QED BY <3>3, <3>4
  <2> QED BY <2>7, <2>8, <2>9
<1> QED BY <1>3, <1>4

LEMMA ListedAll ==
  ASSUME NEW S, IsFiniteSet(S), NEW vs, vs = Listed(S)
  PROVE  /\ Len(vs) \in Nat /\ DOMAIN vs = 1 .. Len(vs) /\ Distinct(vs)
         /\ \A i \in 1 .. Len(vs) : vs[i] \in S
         /\ \A v \in S : \E i \in 1 .. Len(vs) : vs[i] = v
<1> DEFINE n == Cardinality(S)
<1>1. n \in Nat /\ ExistsBijection(1 .. n, S)
  BY FS_CardinalityType
<1>2. IsFiniteSet(1 .. n) /\ Cardinality(1 .. n) = n
  <2>1. 1 \in Int /\ n \in Int
    BY SMTT(30), <1>1
  <2>2. /\ IsFiniteSet(1 .. n)
        /\ Cardinality(1 .. n) = IF 1 > n THEN 0 ELSE n - 1 + 1
    BY <2>1, FS_Interval
  <2> QED BY SMTT(30), <1>1, <2>2
<1> HIDE DEF n
<1>3. \E f \in [1 .. n -> S] : IsInjective(f)
  BY <1>1 DEF ExistsBijection, Bijection, Injection
<1>4. vs \in [1 .. n -> S] /\ IsInjective(vs)
  BY <1>3 DEF Listed, n
<1>5. vs \in Injection(1 .. n, S)
  BY <1>4 DEF Injection
<1>6. vs \in Surjection(1 .. n, S)
  BY <1>2, <1>5, FS_Injection DEF n
<1>7. Len(vs) = n
  BY SMTT(30), <1>1, <1>4
<1> QED BY <1>1, <1>4, <1>6, <1>7 DEF Surjection, IsInjective, Distinct

\* The pages of a copy hold what those of s hold.
CopyOf(r, s) ==
  \A v \in PagesToCopy(s) :
     /\ v \in DOMAIN r.map /\ r.map[v] \in r.used
     /\ s.map[v] # Foreign => r.data[r.map[v]] = phys[s.map[v]]

LEMMA CopyMade ==
  ASSUME NEW m, Own(m, m.used), m.ok = TRUE, NEW s, IsFiniteSet(DOMAIN s.map), NEW r, r = Copy(m, s)
  PROVE  Safe(m, r) /\ (r.ok => Own(r, m.used) /\ CopyOf(r, s))
<1> DEFINE a == CreateSpace(m)
           vs == Listed(PagesToCopy(s))
           xs == [i \in DOMAIN vs |-> IF s.map[vs[i]] = Foreign THEN 0 ELSE phys[s.map[vs[i]]]]
           b == NewPages(a, vs, xs)
<1>1. r = IF ~a.ok THEN a ELSE IF b.ok THEN b ELSE Give(b)
  BY DEF Copy
<1>2. Safe(m, a) /\ (a.ok => Own(a, m.used))
  BY SpaceMade
<1>3. IsFiniteSet(PagesToCopy(s))
  BY FS_Subset DEF PagesToCopy
<1>4. /\ Len(vs) \in Nat /\ DOMAIN vs = 1 .. Len(vs) /\ Distinct(vs)
      /\ \A i \in 1 .. Len(vs) : vs[i] \in PagesToCopy(s)
      /\ \A v \in PagesToCopy(s) : \E i \in 1 .. Len(vs) : vs[i] = v
  BY <1>3, ListedAll
<1> HIDE DEF a, vs
<1>5. CASE ~a.ok
  BY <1>1, <1>2, <1>5
<1>6. CASE a.ok
  <2>1. \A i \in 1 .. Len(vs) : vs[i][1] # "fb"
    BY <1>4 DEF PagesToCopy
  <2>2. \A i \in 1 .. Len(vs) : s.map[vs[i]] # Foreign => xs[i] = phys[s.map[vs[i]]]
    BY <1>4
  <2> HIDE DEF xs
  <2>3. Done(a, b, vs, xs, Len(vs), m.used)
    BY <1>2, <1>4, <1>6, <2>1, PagesMade
  <2> HIDE DEF b
  <2>4. Own(b, m.used) /\ Grew(a, b) /\ Stage(a, b, vs, Len(vs)) /\ PagesHold(b, vs, xs, Len(vs))
    BY <1>4, <2>3 DEF Done, Stage
  <2>5. Grew(m, b)
    BY <1>2, <2>4 DEF Grew, Safe
  <2>6. CASE ~b.ok
    BY <1>1, <1>6, <2>4, <2>5, <2>6, GivenBack
  <2>7. CASE b.ok
    <3>1. r = b
      BY <1>1, <1>6, <2>7
    <3>2. CopyOf(b, s)
      <4> SUFFICES ASSUME NEW v \in PagesToCopy(s)
                   PROVE  /\ v \in DOMAIN b.map /\ b.map[v] \in b.used
                          /\ s.map[v] # Foreign => b.data[b.map[v]] = phys[s.map[v]]
        BY DEF CopyOf
      <4>1. PICK i \in 1 .. Len(vs) : vs[i] = v
        BY <1>4
      <4>2. v \in DOMAIN b.map
        BY <2>4, <2>7, <4>1 DEF Stage
      <4>3. b.map[v] \in b.used /\ b.data[b.map[v]] = xs[i]
        BY <2>4, <2>7, <4>1 DEF PagesHold
      <4> QED BY <2>2, <4>1, <4>2, <4>3
    <3>3. Safe(m, b)
      BY <2>4, <2>5 DEF Safe, Own
    <3> QED BY <2>4, <3>1, <3>2, <3>3
  <2> QED BY <2>6, <2>7
<1> QED BY <1>5, <1>6

-----------------------------------------------------------------------------
(* All spaces together.                                                    *)

FramesOf(s) == {s.tab[t] : t \in DOMAIN s.tab} \union
               ({s.map[v] : v \in DOMAIN s.map} \ {Foreign})

SpaceFields == {"tab", "map", "start", "end"}

SpaceOk(s, U) ==
  /\ SpaceFields \subseteq DOMAIN s /\ s.end \in Nat
  /\ Sep(s.tab, s.map, U) /\ IsFiniteSet(DOMAIN s.map) /\ FbForeign(s.map)

\* Each space is sound by itself and no two share a frame.
SpacesInv ==
  /\ used \subseteq Frames /\ DOMAIN phys = Frames
  /\ DOMAIN space = Pids /\ DOMAIN life = Pids /\ DOMAIN dying = Pids
  /\ \A o \in Owners : SpaceOk(SpaceOf(o), used)
  /\ \A o, r \in Owners : o # r => FramesOf(SpaceOf(o)) \cap FramesOf(SpaceOf(r)) = {}

LEMMA SepFrames ==
  ASSUME NEW s, NEW U, U \subseteq Frames, Sep(s.tab, s.map, U)
  PROVE  FramesOf(s) \subseteq U /\ Sep(s.tab, s.map, FramesOf(s))
<1>1. Foreign \notin U
  BY FrameFacts
<1> QED BY SMTT(30), <1>1 DEF Sep, FramesOf

\* One space changes: it stays clear of the frames of the others, which stay in use.
LEMMA Placed ==
  ASSUME SpacesInv, NEW o \in Owners, used' \subseteq Frames, DOMAIN phys' = Frames,
         DOMAIN space' = Pids, DOMAIN life' = Pids, DOMAIN dying' = Pids,
         \A r \in Owners \ {o} : SpaceOf(r)' = SpaceOf(r),
         \A r \in Owners \ {o} : FramesOf(SpaceOf(r)) \subseteq used',
         SpaceOk(SpaceOf(o)', used'),
         \A r \in Owners \ {o} : FramesOf(SpaceOf(r)) \cap FramesOf(SpaceOf(o)') = {}
  PROVE  SpacesInv'
<1>1. ASSUME NEW r \in Owners PROVE SpaceOk(SpaceOf(r)', used')
  <2>1. CASE r = o
    BY <2>1
  <2>2. CASE r # o
    <3> DEFINE s == SpaceOf(r)
    <3>1. SpaceOk(s, used) /\ FramesOf(s) \subseteq used' /\ SpaceOf(r)' = s
      BY <2>2 DEF SpacesInv
    <3> HIDE DEF s
    <3>2. Sep(s.tab, s.map, FramesOf(s))
      BY <3>1, SepFrames DEF SpaceOk, SpacesInv
    <3>3. Sep(s.tab, s.map, used')
      BY <3>1, <3>2, SepMore
    <3> QED BY <3>1, <3>3 DEF SpaceOk
  <2> QED BY <2>1, <2>2
<1>2. ASSUME NEW q \in Owners, NEW r \in Owners, q # r
      PROVE  FramesOf(SpaceOf(q)') \cap FramesOf(SpaceOf(r)') = {}
  <2>1. CASE q = o
    <3>1. FramesOf(SpaceOf(r)) \cap FramesOf(SpaceOf(o)') = {} /\ SpaceOf(r)' = SpaceOf(r)
      BY <1>2, <2>1
    <3> QED BY <2>1, <3>1
  <2>2. CASE r = o
    <3>1. FramesOf(SpaceOf(q)) \cap FramesOf(SpaceOf(o)') = {} /\ SpaceOf(q)' = SpaceOf(q)
      BY <1>2, <2>2
    <3> QED BY <2>2, <3>1
  <2>3. CASE q # o /\ r # o
    <3>1. SpaceOf(q)' = SpaceOf(q) /\ SpaceOf(r)' = SpaceOf(r)
      BY <2>3
    <3>2. FramesOf(SpaceOf(q)) \cap FramesOf(SpaceOf(r)) = {}
      BY <1>2 DEF SpacesInv
    <3> QED BY <3>1, <3>2
  <2> QED BY <2>1, <2>2, <2>3
<1>3. Owners' = Owners
  BY DEF Owners
<1> QED BY <1>1, <1>2, <1>3 DEF SpacesInv

\* Nothing changes hands.
LEMMA SpacesKept ==
  ASSUME SpacesInv, used \subseteq used', used' \subseteq Frames, DOMAIN phys' = Frames,
         space' = space, dying' = dying, DOMAIN life' = Pids
  PROVE  SpacesInv'
<1>1. \A o : SpaceOf(o)' = SpaceOf(o)
  BY DEF SpaceOf
<1>2. ASSUME NEW o \in Owners PROVE SpaceOk(SpaceOf(o), used')
  <2>1. SpaceOk(SpaceOf(o), used)
    BY DEF SpacesInv
  <2> QED BY <2>1, SepMore DEF SpaceOk
<1>3. Owners' = Owners
  BY DEF Owners
<1> QED BY <1>1, <1>2, <1>3 DEF SpacesInv

LEMMA TheOwners ==
  ASSUME NEW p \in Pids
  PROVE  /\ <<p, "own">> \in Owners /\ SpaceOf(<<p, "own">>) = space[p]
         /\ <<p, "reaped">> \in Owners /\ SpaceOf(<<p, "reaped">>) = dying[p]
         /\ SpaceOf(<<p, "own">>)' = space'[p] /\ SpaceOf(<<p, "reaped">>)' = dying'[p]
BY SMTT(30) DEF Owners, SpaceOf

\* The process p is given another space, or its own changed.
LEMMA OthersKept ==
  ASSUME NEW p \in Pids, dying' = dying, NEW s, DOMAIN space = Pids,
         space' = [space EXCEPT ![p] = s]
  PROVE  \A r \in Owners \ {<<p, "own">>} : SpaceOf(r)' = SpaceOf(r)
<1> SUFFICES ASSUME NEW r \in Owners, r # <<p, "own">> PROVE SpaceOf(r)' = SpaceOf(r)
  OBVIOUS
<1>1. PICK q \in Pids, k \in {"own", "reaped"} : r = <<q, k>>
  BY SMTT(30) DEF Owners
<1>2. CASE k = "reaped"
  BY <1>1, <1>2, TheOwners
<1>3. CASE k = "own"
  <2>1. q # p
    BY <1>1, <1>3
  <2> QED BY <1>1, <1>3, <2>1, TheOwners
<1> QED BY <1>2, <1>3

LEMMA PutSpace ==
  ASSUME SpacesInv, NEW p \in Pids, NEW m, NEW B, Own(m, B), NEW start, NEW end \in Nat,
         Put(p, m, start, end), dying' = dying, DOMAIN life' = Pids,
         used' \subseteq Frames, DOMAIN phys' = Frames, m.used \ B \subseteq used',
         \A r \in Owners \ {<<p, "own">>} : FramesOf(SpaceOf(r)) \subseteq B \cap used'
  PROVE  SpacesInv'
<1> DEFINE s == [tab |-> m.tab, map |-> m.map, start |-> start, end |-> end]
           o == <<p, "own">>
<1>1. space' = [space EXCEPT ![p] = s] /\ DOMAIN space = Pids
  BY DEF Put, SpacesInv
<1>2. SpaceFields \subseteq DOMAIN s /\ s.tab = m.tab /\ s.map = m.map /\ s.end = end
  BY DEF SpaceFields
<1> HIDE DEF s
<1>3. \A r \in Owners \ {o} : SpaceOf(r)' = SpaceOf(r)
  BY <1>1, OthersKept
<1>4. o \in Owners /\ SpaceOf(o)' = s /\ DOMAIN space' = Pids /\ DOMAIN dying' = Pids
  <2>1. space'[p] = s /\ DOMAIN space' = Pids
    BY <1>1
  <2>2. DOMAIN dying' = Pids
    BY DEF SpacesInv
  <2> QED BY <2>1, <2>2, TheOwners
<1>5. Sep(s.tab, s.map, m.used \ B) /\ m.used \ B \subseteq Frames
  BY <1>2 DEF Own
<1>6. FramesOf(s) \subseteq m.used \ B
  BY <1>5, SepFrames
<1>7. SpaceOk(s, used')
  <2>1. Sep(s.tab, s.map, used')
    BY <1>5, SepMore
  <2> QED BY <1>2, <2>1 DEF SpaceOk, Own
<1> HIDE DEF o
<1>8. /\ \A r \in Owners \ {o} : FramesOf(SpaceOf(r)) \subseteq used'
      /\ \A r \in Owners \ {o} : FramesOf(SpaceOf(r)) \cap FramesOf(s) = {}
  BY <1>6 DEF o
<1> QED BY <1>3, <1>4, <1>7, <1>8, Placed

-----------------------------------------------------------------------------
(* What others see.                                                        *)

LEMMA ViewKept ==
  ASSUME NEW q \in Pids, space'[q] = space[q],
         \A f \in FramesOf(space[q]) : phys'[f] = phys[f]
  PROVE  View(q)' = View(q)
<1>1. \A v \in {v \in DOMAIN space[q].map : space[q].map[v] # Foreign} :
         phys'[space[q].map[v]] = phys[space[q].map[v]]
  BY DEF FramesOf
<1> QED BY <1>1 DEF View

OthersSee(p) == \A q \in Pids \ {p} : View(q)' = View(q)

\* A process that comes to life reads what a live one read.
BornAsCopy ==
  \A q \in Pids :
     life[q] = "none" /\ life'[q] = "live" =>
        \E p \in Pids : /\ life[p] = "live"
                        /\ DOMAIN View(p) \subseteq DOMAIN View(q)'
                        /\ \A v \in DOMAIN View(p) \ {Guard} : View(q)'[v] = View(p)[v]

StepSafe == SpacesInv' /\ (\E p \in Pids : OthersSee(p)) /\ BornAsCopy

LEMMA SpaceFrames ==
  ASSUME SpacesInv, NEW p \in Pids
  PROVE  /\ SpaceOk(space[p], used) /\ FramesOf(space[p]) \subseteq used
         /\ SpaceOk(dying[p], used) /\ FramesOf(dying[p]) \subseteq used
<1>1. SpaceOk(space[p], used) /\ SpaceOk(dying[p], used)
  BY TheOwners DEF SpacesInv
<1> QED BY <1>1, SepFrames DEF SpaceOk, SpacesInv

\* Where the space of at most p changes and no frame in use is written, others

\* see no difference.
LEMMA Unseen ==
  ASSUME SpacesInv, NEW p \in Pids, \A q \in Pids \ {p} : space'[q] = space[q],
         \A f \in used : phys'[f] = phys[f]
  PROVE  OthersSee(p)
<1> SUFFICES ASSUME NEW q \in Pids \ {p} PROVE View(q)' = View(q)
  BY DEF OthersSee
<1>1. FramesOf(space[q]) \subseteq used
  BY SpaceFrames
<1> QED BY <1>1, ViewKept

LEMMA WorkOnNone == ASSUME SpacesInv PROVE Own(Work(NoSpace), used) /\ Work(NoSpace).ok = TRUE
<1> DEFINE w == Work(NoSpace)
<1>1. /\ WorkFields \subseteq DOMAIN w /\ w.ok = TRUE /\ w.used = used /\ w.data = phys
      /\ w.tab = NoEntries /\ w.map = NoEntries
  BY DEF Work, NoSpace, WorkFields
<1> HIDE DEF w
<1>2. Own(w, w.used)
  BY <1>1, EmptyOwn DEF SpacesInv
<1> QED BY <1>1, <1>2 DEF w

\* At work on the space of p, the frames of all others are out of reach.
LEMMA WorkOnOwn ==
  ASSUME SpacesInv, NEW p \in Pids, NEW w, w = Work(space[p])
  PROVE  /\ Own(w, used \ FramesOf(space[p])) /\ w.used = used /\ w.data = phys
         /\ \A r \in Owners \ {<<p, "own">>} :
               FramesOf(SpaceOf(r)) \subseteq used \ FramesOf(space[p])
<1> DEFINE F == FramesOf(space[p])
<1>1. /\ WorkFields \subseteq DOMAIN w /\ w.ok = TRUE /\ w.used = used /\ w.data = phys
      /\ w.tab = space[p].tab /\ w.map = space[p].map
  BY DEF Work, WorkFields
<1>2. SpaceOk(space[p], used) /\ F \subseteq used
  BY SpaceFrames
<1>3. Sep(w.tab, w.map, F)
  BY <1>1, <1>2, SepFrames DEF SpaceOk, SpacesInv
<1>4. ASSUME NEW r \in Owners \ {<<p, "own">>} PROVE FramesOf(SpaceOf(r)) \subseteq used \ F
  <2>1. SpaceOk(SpaceOf(r), used)
    BY DEF SpacesInv
  <2>2. FramesOf(SpaceOf(r)) \subseteq used
    BY <2>1, SepFrames DEF SpaceOk, SpacesInv
  <2>3. FramesOf(SpaceOf(r)) \cap F = {}
    BY <1>4, TheOwners DEF SpacesInv
  <2> QED BY <2>2, <2>3
<1> HIDE DEF F
<1>5. used \ (used \ F) = F
  BY <1>2
<1>6. Own(w, used \ F)
  BY <1>1, <1>2, <1>3, <1>5 DEF Own, SpaceOk, SpacesInv
<1> QED BY <1>1, <1>4, <1>6 DEF F
-----------------------------------------------------------------------------
(* The calls.                                                              *)

\* A call that fails before it has touched any space.
LEMMA FailsSafely ==
  ASSUME SpacesInv, NEW m, Safe(Work(NoSpace), m), Settle(m), UNCHANGED <<space, life, dying>>,
         NEW p \in Pids
  PROVE  StepSafe
<1>1. used' = m.used /\ phys' = m.data /\ space' = space /\ life' = life /\ dying' = dying
  BY DEF Settle
<1>2. Work(NoSpace).used = used /\ Work(NoSpace).data = phys
  BY DEF Work
<1>3. used \subseteq used' /\ used' \subseteq Frames /\ DOMAIN phys' = Frames
  BY <1>1, <1>2 DEF Safe, Grew
<1>4. \A f \in used : phys'[f] = phys[f]
  BY <1>1, <1>2 DEF Safe, Grew
<1>5. SpacesInv'
  BY <1>1, <1>3, SpacesKept DEF SpacesInv
<1>6. OthersSee(p)
  BY <1>1, <1>4, Unseen
<1>7. BornAsCopy
  BY <1>1 DEF BornAsCopy
<1> QED BY <1>5, <1>6, <1>7 DEF StepSafe

LEMMA ExecSafe ==
  ASSUME SpacesInv, NEW p \in Pids, NEW image \in Images, SysExec(p, image)
  PROVE  StepSafe
<1> DEFINE w == Work(NoSpace)
           m == Load(w, image)
           gone == FramesToFree(space[p].tab, space[p].map)
<1>1. Own(w, used) /\ w.ok = TRUE /\ w.used = used /\ w.data = phys
  <2>1. w.used = used /\ w.data = phys
    BY DEF Work
  <2> QED BY <2>1, WorkOnNone
<1>2. /\ IF m.ok THEN Settle([m EXCEPT !.used = @ \ gone]) /\ Put(p, m, image, image)
         ELSE Settle(m) /\ UNCHANGED space
      /\ UNCHANGED <<life, dying>>
  BY DEF SysExec
<1>3. image \in Nat
  BY SpacesAssumption
<1>4. Safe(w, m) /\ (m.ok => Own(m, used))
  <2> HIDE DEF w
  <2> QED BY <1>1, <1>3, LoadMade
<1> HIDE DEF m
<1>5. CASE ~m.ok
  BY <1>2, <1>4, <1>5, FailsSafely
<1>6. CASE m.ok
  <2>1. Own(m, used)
    BY <1>4, <1>6
  <2>2. used' = m.used \ gone /\ phys' = m.data /\ Put(p, m, image, image)
    BY <1>2, <1>6, <2>1 DEF Settle, Own, WorkFields
  <2>3. life' = life /\ dying' = dying
    BY <1>2
  <2>4. gone \subseteq FramesOf(space[p]) /\ FramesOf(space[p]) \subseteq used
    BY SpaceFrames, SepFrames, FreesOwn DEF SpaceOk, SpacesInv
  <2> HIDE DEF gone, w
  <2>5. /\ used \subseteq m.used /\ \A f \in used : phys'[f] = phys[f]
        /\ used' \subseteq Frames /\ DOMAIN phys' = Frames
    BY <1>1, <1>4, <2>2 DEF Safe, Grew
  <2>6. m.used \ used \subseteq used'
    BY <2>2, <2>4
  <2>7. ASSUME NEW r \in Owners \ {<<p, "own">>}
        PROVE  FramesOf(SpaceOf(r)) \subseteq used \cap used'
    <3>1. FramesOf(SpaceOf(r)) \subseteq used \ FramesOf(space[p])
      BY WorkOnOwn
    <3> QED BY <2>2, <2>4, <2>5, <3>1
  <2>8. SpacesInv'
    <3>1. DOMAIN life' = Pids
      BY <2>3 DEF SpacesInv
    <3> QED BY <1>3, <2>1, <2>2, <2>3, <2>5, <2>6, <2>7, <3>1, PutSpace
  <2>9. OthersSee(p)
    <3>1. \A q \in Pids \ {p} : space'[q] = space[q]
      BY <2>2 DEF Put, SpacesInv
    <3> QED BY <2>5, <3>1, Unseen
  <2>10. BornAsCopy
    BY <2>3 DEF BornAsCopy
  <2> QED BY <2>8, <2>9, <2>10 DEF StepSafe
<1> QED BY <1>5, <1>6

\* The space of p has grown in place.
LEMMA GrownSafe ==
  ASSUME SpacesInv, NEW p \in Pids, NEW m, Own(m, used \ FramesOf(space[p])),
         Grew(Work(space[p]), m), Settle(m), NEW start, NEW end \in Nat, Put(p, m, start, end),
         UNCHANGED <<life, dying>>
  PROVE  StepSafe
<1> DEFINE w == Work(space[p])
           B == used \ FramesOf(space[p])
<1>1. used' = m.used /\ phys' = m.data /\ life' = life /\ dying' = dying
  BY DEF Settle
<1>2. /\ w.used = used /\ w.data = phys
      /\ \A r \in Owners \ {<<p, "own">>} : FramesOf(SpaceOf(r)) \subseteq B
  BY WorkOnOwn
<1> HIDE DEF w
<1>3. used \subseteq used' /\ \A f \in used : phys'[f] = phys[f]
  BY <1>1, <1>2 DEF Grew, w
<1>4. used' \subseteq Frames /\ DOMAIN phys' = Frames
  BY <1>1 DEF Own
<1>5. \A r \in Owners \ {<<p, "own">>} : FramesOf(SpaceOf(r)) \subseteq B \cap used'
  BY <1>2, <1>3
<1>6. m.used \ B \subseteq used' /\ Own(m, B)
  BY <1>1
<1> HIDE DEF B
<1>7. SpacesInv'
  <2>1. DOMAIN life' = Pids
    BY <1>1 DEF SpacesInv
  <2> QED BY <1>1, <1>4, <1>5, <1>6, <2>1, PutSpace
<1>8. OthersSee(p)
  <2>1. \A q \in Pids \ {p} : space'[q] = space[q]
    BY DEF Put, SpacesInv
  <2> QED BY <1>3, <2>1, Unseen
<1>9. BornAsCopy
  BY <1>1 DEF BornAsCopy
<1> QED BY <1>7, <1>8, <1>9 DEF StepSafe

LEMMA LowPages ==
  ASSUME NEW e \in Nat, NEW n \in Nat
  PROVE  Len(Low(e, n)) \in Nat /\ \A i \in 1 .. Len(Low(e, n)) : Low(e, n)[i][1] # "fb"
BY SMTT(30) DEF Low

LEMMA BrkSafe ==
  ASSUME SpacesInv, NEW p \in Pids, NEW end \in 1 .. HeapLimit, SysBrk(p, end)
  PROVE  StepSafe
<1> DEFINE s == space[p]
           vs == Low(s.end, end - s.end)
           w == Work(s)
           m == NewPages(w, vs, Zeros(vs))
<1>1. SpaceOk(s, used) /\ s.end \in Nat /\ end \in Nat
  <2>1. SpaceOk(s, used)
    BY SpaceFrames
  <2>2. end \in Nat
    BY SMTT(30)
  <2> QED BY <2>1, <2>2 DEF SpaceOk
<1>2. CASE end > s.end
  <2>1. Settle(m) /\ Put(p, m, s.start, IF m.ok THEN end ELSE s.end) /\ UNCHANGED <<life, dying>>
    BY <1>2 DEF SysBrk
  <2>2. end - s.end \in Nat
    BY SMTT(30), <1>1, <1>2
  <2>3. Len(vs) \in Nat /\ \A i \in 1 .. Len(vs) : vs[i][1] # "fb"
    BY <1>1, <2>2, LowPages
  <2> HIDE DEF vs
  <2>4. Own(w, used \ FramesOf(s))
    BY WorkOnOwn
  <2>5. Own(m, used \ FramesOf(s)) /\ Grew(w, m)
    <3> HIDE DEF w
    <3> QED BY <2>3, <2>4, PagesMade DEF Done, Stage
  <2>6. (IF m.ok THEN end ELSE s.end) \in Nat
    BY <1>1
  <2> HIDE DEF m
  <2> QED BY <2>1, <2>5, <2>6, GrownSafe
<1>3. CASE ~(end > s.end)
  <2>1. /\ space' = [space EXCEPT ![p].end = end] /\ UNCHANGED <<used, cursor, phys, life, dying>>
    BY <1>3 DEF SysBrk
  <2> DEFINE t == space'[p]
  <2>2. /\ SpaceFields \subseteq DOMAIN t /\ t.tab = s.tab /\ t.map = s.map /\ t.end = end
        /\ DOMAIN space' = Pids /\ space' = [space EXCEPT ![p] = t]
    BY <1>1, <2>1 DEF SpaceOk, SpaceFields, SpacesInv
  <2> HIDE DEF t
  <2>3. SpaceOk(t, used') /\ FramesOf(t) = FramesOf(s)
    BY SMTT(30), <1>1, <2>1, <2>2 DEF SpaceOk, FramesOf
  <2>4. /\ \A r \in Owners \ {<<p, "own">>} : SpaceOf(r)' = SpaceOf(r)
        /\ SpaceOf(<<p, "own">>)' = t /\ <<p, "own">> \in Owners
    <3>1. SpaceOf(<<p, "own">>)' = t
      BY TheOwners DEF t
    <3> QED BY <2>1, <2>2, <3>1, OthersKept, TheOwners DEF SpacesInv
  <2>5. \A r \in Owners \ {<<p, "own">>} : FramesOf(SpaceOf(r)) \subseteq used \ FramesOf(s)
    BY WorkOnOwn
  <2>6. SpacesInv'
    <3>1. /\ \A r \in Owners \ {<<p, "own">>} : FramesOf(SpaceOf(r)) \subseteq used'
          /\ \A r \in Owners \ {<<p, "own">>} : FramesOf(SpaceOf(r)) \cap FramesOf(t) = {}
      BY <2>1, <2>3, <2>5
    <3>2. /\ used' \subseteq Frames /\ DOMAIN phys' = Frames /\ DOMAIN life' = Pids
          /\ DOMAIN dying' = Pids
      BY <2>1 DEF SpacesInv
    <3> QED BY <2>2, <2>3, <2>4, <3>1, <3>2, Placed
  <2>7. OthersSee(p)
    <3>1. \A q \in Pids \ {p} : space'[q] = space[q]
      BY <2>2 DEF SpacesInv
    <3> QED BY <2>1, <3>1, Unseen
  <2>8. BornAsCopy
    BY <2>1 DEF BornAsCopy
  <2> QED BY <2>6, <2>7, <2>8 DEF StepSafe
<1> QED BY <1>2, <1>3

LEMMA MmapSafe ==
  ASSUME SpacesInv, NEW p \in Pids, NEW n \in 1 .. 2, SysMmap(p, n) PROVE StepSafe
<1> DEFINE s == space[p]
           vs == Low(s.end, n)
           w == Work(s)
           m == MapForeign(w, vs)
<1>1. SpaceOk(s, used) /\ s.end \in Nat /\ n \in Nat
  <2>1. SpaceOk(s, used)
    BY SpaceFrames
  <2>2. n \in Nat
    BY SMTT(30)
  <2> QED BY <2>1, <2>2 DEF SpaceOk
<1>2. Settle(m) /\ Put(p, m, s.start, IF m.ok THEN s.end + n ELSE s.end) /\ UNCHANGED <<life, dying>>
  BY DEF SysMmap
<1>3. Len(vs) \in Nat
  BY <1>1, LowPages
<1> HIDE DEF vs
<1>4. Own(w, used \ FramesOf(s))
  BY WorkOnOwn
<1>5. Own(m, used \ FramesOf(s)) /\ Grew(w, m)
  <2> HIDE DEF w
  <2> QED BY <1>3, <1>4, ForeignMade
<1>6. (IF m.ok THEN s.end + n ELSE s.end) \in Nat
  <2>1. s.end + n \in Nat
    BY SMTT(30), <1>1
  <2> QED BY <1>1, <2>1
<1> HIDE DEF m
<1> QED BY <1>2, <1>5, <1>6, GrownSafe

\* The pages of a copy after sched_clone has mapped the guard page once more.
LikeParent(g, s) ==
  \A v \in PagesToCopy(s) :
     /\ v \in DOMAIN g.map /\ g.map[v] \in g.used
     /\ s.map[v] # Foreign /\ v # Guard => g.data[g.map[v]] = phys[s.map[v]]

LEMMA GuardAgain ==
  ASSUME NEW m, Own(m, used), NEW s, CopyOf(m, s), NEW clone \in BOOLEAN,
         NEW g, g = IF clone THEN NewPage(m, Guard, 0) ELSE m
  PROVE  Own(g, used) /\ Grew(m, g) /\ LikeParent(g, s)
<1>1. CASE ~clone
  BY <1>1 DEF Grew, CopyOf, LikeParent
<1>2. CASE clone
  <2>1. Guard[1] # "fb"
    BY DEF Guard
  <2>2. Own(g, used) /\ Paged(m, g, Guard, 0)
    BY <1>2, <2>1, PageMade
  <2>3. Grew(m, g) /\ g.ok \in BOOLEAN
    BY <2>2 DEF Paged, Own
  <2>4. ASSUME NEW v \in PagesToCopy(s)
        PROVE  /\ v \in DOMAIN g.map /\ g.map[v] \in g.used
               /\ s.map[v] # Foreign /\ v # Guard => g.data[g.map[v]] = phys[s.map[v]]
    <3>1. /\ v \in DOMAIN m.map /\ m.map[v] \in m.used
          /\ s.map[v] # Foreign => m.data[m.map[v]] = phys[s.map[v]]
      BY DEF CopyOf
    <3>2. m.map[v] \in g.used /\ g.data[m.map[v]] = m.data[m.map[v]]
      BY <2>3, <3>1 DEF Grew
    <3>3. CASE v = Guard /\ g.ok
      BY <2>2, <3>3 DEF Paged
    <3>4. CASE ~(v = Guard /\ g.ok)
      <4>1. v \in DOMAIN g.map /\ g.map[v] = m.map[v]
        BY <2>2, <2>3, <3>1, <3>4 DEF Paged
      <4> QED BY <3>1, <3>2, <4>1
    <3> QED BY <3>3, <3>4
  <2> QED BY <2>2, <2>3, <2>4 DEF LikeParent
<1> QED BY <1>1, <1>2

LEMMA ForkSafe ==
  ASSUME SpacesInv, NEW p \in Pids, NEW q \in Pids, NEW clone \in BOOLEAN, NEW stack \in BOOLEAN,
         SysFork(p, q, clone, stack)
  PROVE  StepSafe
<1> DEFINE s == space[p]
           w == Work(NoSpace)
           m == Copy(w, s)
           g == IF clone THEN NewPage(m, Guard, 0) ELSE m
<1>1. /\ life[p] = "live" /\ life[q] = "none" /\ dying' = dying
      /\ ~m.ok => Settle(m) /\ UNCHANGED <<space, life>>
      /\ m.ok /\ ~stack => Settle(Give(m)) /\ UNCHANGED <<space, life>>
      /\ m.ok /\ stack => /\ Settle(g) /\ Put(q, g, s.start, s.end)
                          /\ life' = [life EXCEPT ![q] = "live"]
  BY DEF SysFork
<1>2. Own(w, used) /\ w.ok = TRUE /\ w.used = used /\ w.data = phys
  <2>1. w.used = used /\ w.data = phys
    BY DEF Work
  <2> QED BY <2>1, WorkOnNone
<1>3. SpaceOk(s, used) /\ IsFiniteSet(DOMAIN s.map) /\ FbForeign(s.map) /\ s.end \in Nat
  BY SpaceFrames DEF SpaceOk
<1>4. Safe(w, m) /\ (m.ok => Own(m, used) /\ CopyOf(m, s))
  <2> HIDE DEF w, s
  <2> QED BY <1>2, <1>3, CopyMade
<1> HIDE DEF m
<1>5. CASE ~m.ok
  BY <1>1, <1>4, <1>5, FailsSafely
<1>6. CASE m.ok /\ ~stack
  <2>1. Own(m, w.used) /\ Grew(w, m)
    BY <1>2, <1>4, <1>6 DEF Safe
  <2>2. Safe(w, Give(m))
    BY <2>1, GivenBack
  <2> QED BY <1>1, <1>6, <2>2, FailsSafely
<1>7. CASE m.ok /\ stack
  <2>1. Own(g, used) /\ Grew(m, g) /\ LikeParent(g, s)
    <3> HIDE DEF s
    <3> QED BY <1>4, <1>7, GuardAgain
  <2>2. /\ used' = g.used /\ phys' = g.data /\ Put(q, g, s.start, s.end)
        /\ life' = [life EXCEPT ![q] = "live"]
    BY <1>1, <1>7 DEF Settle
  <2> HIDE DEF g, w
  <2>3. /\ used \subseteq used' /\ \A f \in used : phys'[f] = phys[f]
        /\ used' \subseteq Frames /\ DOMAIN phys' = Frames
    BY <1>2, <1>4, <2>1, <2>2 DEF Safe, Grew, Own
  <2>4. DOMAIN life' = Pids /\ DOMAIN life = Pids /\ DOMAIN space = Pids
    BY <2>2 DEF SpacesInv
  <2>5. SpacesInv'
    <3>1. ASSUME NEW r \in Owners \ {<<q, "own">>}
          PROVE  FramesOf(SpaceOf(r)) \subseteq used \cap used'
      <4>1. FramesOf(SpaceOf(r)) \subseteq used \ FramesOf(space[q])
        BY WorkOnOwn
      <4> QED BY <2>3, <4>1
    <3>2. g.used \ used \subseteq used'
      BY <2>2
    <3> HIDE DEF s
    <3> QED BY <1>1, <1>3, <2>1, <2>2, <2>3, <2>4, <3>1, <3>2, PutSpace
  <2>6. OthersSee(q)
    <3>1. \A r \in Pids \ {q} : space'[r] = space[r]
      BY <2>2, <2>4 DEF Put
    <3> QED BY <2>3, <3>1, Unseen
  <2>7. space'[q].map = g.map
    BY <2>2, <2>4 DEF Put
  <2>8. ASSUME NEW v \in DOMAIN View(p)
        PROVE  v \in DOMAIN View(q)' /\ (v # Guard => View(q)'[v] = View(p)[v])
    <3>1. v \in DOMAIN s.map /\ s.map[v] # Foreign /\ View(p)[v] = phys[s.map[v]]
      BY DEF View
    <3>2. v \in PagesToCopy(s)
      BY <1>3, <3>1 DEF FbForeign, PagesToCopy
    <3>3. /\ v \in DOMAIN g.map /\ g.map[v] \in g.used
          /\ v # Guard => g.data[g.map[v]] = phys[s.map[v]]
      BY <2>1, <3>1, <3>2 DEF LikeParent
    <3>4. g.map[v] # Foreign
      BY <2>2, <2>3, <3>3, FrameFacts
    <3>5. v \in DOMAIN View(q)' /\ View(q)'[v] = phys'[g.map[v]]
      BY <2>7, <3>3, <3>4 DEF View
    <3> QED BY <2>2, <3>1, <3>3, <3>5
  <2>9. BornAsCopy
    <3>1. /\ life[p] = "live" /\ DOMAIN View(p) \subseteq DOMAIN View(q)'
          /\ \A v \in DOMAIN View(p) \ {Guard} : View(q)'[v] = View(p)[v]
      BY <1>1, <2>8
    <3>2. ASSUME NEW r \in Pids, life[r] = "none", life'[r] = "live" PROVE r = q
      BY <2>2, <2>4, <3>2
    <3> QED BY <3>1, <3>2 DEF BornAsCopy
  <2> QED BY <2>5, <2>6, <2>9 DEF StepSafe
<1> QED BY <1>5, <1>6, <1>7

LEMMA ExitSafe == ASSUME SpacesInv, NEW p \in Pids, SysExit(p) PROVE StepSafe
<1>1. /\ UNCHANGED <<used, phys, space, dying>> /\ life' = [life EXCEPT ![p] = "zombie"]
      /\ DOMAIN life = Pids
  BY DEF SysExit, SpacesInv
<1>2. SpacesInv'
  <2>1. DOMAIN life' = Pids /\ used' = used /\ used \subseteq Frames /\ DOMAIN phys' = Frames
    BY <1>1 DEF SpacesInv
  <2> QED BY <1>1, <2>1, SpacesKept
<1>3. OthersSee(p)
  BY <1>1, Unseen
<1>4. BornAsCopy
  <2>1. \A r \in Pids : life[r] = "none" => life'[r] # "live"
    BY <1>1
  <2> QED BY <2>1 DEF BornAsCopy
<1> QED BY <1>2, <1>3, <1>4 DEF StepSafe
LEMMA NoSpaceOk == ASSUME NEW U PROVE SpaceOk(NoSpace, U) /\ FramesOf(NoSpace) = {}
<1>1. DOMAIN NoEntries = {} /\ IsFiniteSet({})
  BY FS_EmptySet DEF NoEntries
<1>2. NoSpace.tab = NoEntries /\ NoSpace.map = NoEntries /\ NoSpace.end = 0
  BY DEF NoSpace
<1>3. SpaceFields \subseteq DOMAIN NoSpace /\ 0 \in Nat
  BY SMTT(30) DEF NoSpace, SpaceFields
<1>4. Sep(NoSpace.tab, NoSpace.map, U) /\ FbForeign(NoSpace.map)
  BY <1>1, <1>2 DEF Sep, FbForeign
<1> QED BY <1>1, <1>2, <1>3, <1>4 DEF SpaceOk, FramesOf

LEMMA TwoOwners ==
  ASSUME NEW o \in Owners
  PROVE  \E q \in Pids : o = <<q, "own">> \/ o = <<q, "reaped">>
<1>1. PICK q \in Pids, k \in {"own", "reaped"} : o = <<q, k>>
  BY SMTT(30) DEF Owners
<1> QED BY <1>1

LEMMA ReapSafe ==
  ASSUME SpacesInv, NEW r \in Pids, NEW p \in Pids, ReapSpace(r, p) PROVE StepSafe
<1> DEFINE old == <<p, "own">>
           new == <<r, "reaped">>
<1>1. /\ life' = [life EXCEPT ![p] = "none", ![r] = "reaping"]
      /\ dying' = [dying EXCEPT ![r] = space[p]] /\ space' = [space EXCEPT ![p] = NoSpace]
      /\ used' = used /\ phys' = phys
  BY DEF ReapSpace
<1>2. /\ DOMAIN space = Pids /\ DOMAIN dying = Pids /\ DOMAIN life = Pids
      /\ used \subseteq Frames /\ DOMAIN phys = Frames
  BY DEF SpacesInv
<1>3. DOMAIN space' = Pids /\ DOMAIN dying' = Pids /\ DOMAIN life' = Pids
  BY <1>1, <1>2
<1>4. /\ old \in Owners /\ new \in Owners /\ old # new
      /\ SpaceOf(old)' = NoSpace /\ SpaceOf(new)' = SpaceOf(old)
  <2>1. space'[p] = NoSpace /\ dying'[r] = space[p]
    BY <1>1, <1>2
  <2>2. old # new
    BY SMTT(30)
  <2> QED BY <2>1, <2>2, TheOwners
<1>5. ASSUME NEW o \in Owners, o # old, o # new PROVE SpaceOf(o)' = SpaceOf(o)
  <2>1. PICK q \in Pids : o = <<q, "own">> \/ o = <<q, "reaped">>
    BY TwoOwners
  <2>2. CASE o = <<q, "own">>
    <3>1. space'[q] = space[q]
      BY <1>1, <1>2, <1>5, <2>2
    <3> QED BY <2>2, <3>1, TheOwners
  <2>3. CASE o = <<q, "reaped">>
    <3>1. dying'[q] = dying[q]
      BY <1>1, <1>2, <1>5, <2>3
    <3> QED BY <2>3, <3>1, TheOwners
  <2> QED BY <2>1, <2>2, <2>3
<1> HIDE DEF old, new
<1>6. ASSUME NEW o \in Owners PROVE SpaceOk(SpaceOf(o)', used)
  <2>1. CASE o = old
    BY <1>4, <2>1, NoSpaceOk
  <2>2. CASE o = new
    BY <1>4, <2>2 DEF SpacesInv
  <2>3. CASE o # old /\ o # new
    BY <1>5, <2>3 DEF SpacesInv
  <2> QED BY <2>1, <2>2, <2>3
<1>7. ASSUME NEW o \in Owners, NEW q \in Owners, o # q
      PROVE  FramesOf(SpaceOf(o)') \cap FramesOf(SpaceOf(q)') = {}
  <2>1. CASE o = old \/ q = old
    BY <1>4, <2>1, NoSpaceOk
  <2>2. CASE o # old /\ q # old
    <3>1. CASE o = new
      <4>1. SpaceOf(o)' = SpaceOf(old) /\ SpaceOf(q)' = SpaceOf(q)
        BY <1>4, <1>5, <1>7, <2>2, <3>1
      <4>2. FramesOf(SpaceOf(old)) \cap FramesOf(SpaceOf(q)) = {}
        BY <1>4, <2>2 DEF SpacesInv
      <4> QED BY <4>1, <4>2
    <3>2. CASE q = new
      <4>1. SpaceOf(q)' = SpaceOf(old) /\ SpaceOf(o)' = SpaceOf(o)
        BY <1>4, <1>5, <1>7, <2>2, <3>2
      <4>2. FramesOf(SpaceOf(o)) \cap FramesOf(SpaceOf(old)) = {}
        BY <1>4, <2>2 DEF SpacesInv
      <4> QED BY <4>1, <4>2
    <3>3. CASE o # new /\ q # new
      <4>1. SpaceOf(q)' = SpaceOf(q) /\ SpaceOf(o)' = SpaceOf(o)
        BY <1>5, <2>2, <3>3
      <4>2. FramesOf(SpaceOf(o)) \cap FramesOf(SpaceOf(q)) = {}
        BY <1>7 DEF SpacesInv
      <4> QED BY <4>1, <4>2
    <3> QED BY <3>1, <3>2, <3>3
  <2> QED BY <2>1, <2>2
<1>8. SpacesInv'
  <2>1. Owners' = Owners
    BY DEF Owners
  <2>2. used' \subseteq Frames /\ DOMAIN phys' = Frames
    BY <1>1, <1>2
  <2>3. \A o \in Owners : SpaceOk(SpaceOf(o)', used')
    BY <1>1, <1>6
  <2> QED BY <1>3, <1>7, <2>1, <2>2, <2>3 DEF SpacesInv
<1>9. OthersSee(p)
  <2>1. \A q \in Pids \ {p} : space'[q] = space[q]
    BY <1>1, <1>2
  <2> QED BY <1>1, <2>1, Unseen
<1>10. BornAsCopy
  <2>1. ASSUME NEW q \in Pids, life[q] = "none" PROVE life'[q] # "live"
    BY <1>1, <1>2, <2>1
  <2> QED BY <2>1 DEF BornAsCopy
<1> QED BY <1>8, <1>9, <1>10 DEF StepSafe

LEMMA FreeSafe == ASSUME SpacesInv, NEW r \in Pids, FreeSpace(r) PROVE StepSafe
<1> DEFINE o == <<r, "reaped">>
           gone == FramesToFree(dying[r].tab, dying[r].map)
<1>1. /\ life[r] = "reaping" /\ life' = [life EXCEPT ![r] = "live"] /\ used' = used \ gone
      /\ dying' = [dying EXCEPT ![r] = NoSpace] /\ phys' = phys /\ space' = space
  BY DEF FreeSpace
<1>2. /\ DOMAIN space = Pids /\ DOMAIN dying = Pids /\ DOMAIN life = Pids
      /\ used \subseteq Frames /\ DOMAIN phys = Frames
  BY DEF SpacesInv
<1>3. o \in Owners /\ SpaceOf(o)' = NoSpace /\ SpaceOf(o) = dying[r]
  <2>1. dying'[r] = NoSpace
    BY <1>1, <1>2
  <2> QED BY <2>1, TheOwners
<1>4. gone \subseteq FramesOf(SpaceOf(o))
  <2>1. Sep(dying[r].tab, dying[r].map, FramesOf(dying[r]))
    BY <1>2, SpaceFrames, SepFrames DEF SpaceOk
  <2> QED BY <1>3, <2>1, FreesOwn
<1>5. ASSUME NEW q \in Owners \ {o} PROVE SpaceOf(q)' = SpaceOf(q)
  <2>1. PICK x \in Pids : q = <<x, "own">> \/ q = <<x, "reaped">>
    BY TwoOwners
  <2>2. CASE q = <<x, "own">>
    BY <1>1, <2>2, TheOwners
  <2>3. CASE q = <<x, "reaped">>
    <3>1. dying'[x] = dying[x]
      BY <1>1, <1>2, <1>5, <2>3
    <3> QED BY <2>3, <3>1, TheOwners
  <2> QED BY <2>1, <2>2, <2>3
<1> HIDE DEF o, gone
<1>6. ASSUME NEW q \in Owners \ {o}
      PROVE  FramesOf(SpaceOf(q)) \subseteq used' /\ FramesOf(SpaceOf(q)) \cap FramesOf(SpaceOf(o)') = {}
  <2>1. FramesOf(SpaceOf(q)) \subseteq used
    BY <1>2, SepFrames DEF SpacesInv, SpaceOk
  <2>2. FramesOf(SpaceOf(q)) \cap FramesOf(SpaceOf(o)) = {}
    BY <1>3, <1>6 DEF SpacesInv
  <2>3. FramesOf(SpaceOf(q)) \cap FramesOf(NoSpace) = {}
    BY NoSpaceOk
  <2> QED BY <1>1, <1>3, <1>4, <2>1, <2>2, <2>3
<1>7. SpacesInv'
  <2>1. /\ used' \subseteq Frames /\ DOMAIN phys' = Frames /\ DOMAIN space' = Pids
        /\ DOMAIN life' = Pids /\ DOMAIN dying' = Pids
    BY <1>1, <1>2
  <2>2. SpaceOk(SpaceOf(o)', used')
    BY <1>3, NoSpaceOk
  <2> QED BY <1>3, <1>5, <1>6, <2>1, <2>2, Placed
<1>8. OthersSee(r)
  BY <1>1, Unseen
<1>9. BornAsCopy
  <2>1. ASSUME NEW q \in Pids, life[q] = "none" PROVE life'[q] # "live"
    BY <1>1, <1>2, <2>1
  <2> QED BY <2>1 DEF BornAsCopy
<1> QED BY <1>7, <1>8, <1>9 DEF StepSafe
LEMMA StoreSafe ==
  ASSUME SpacesInv, NEW p \in Pids, NEW v, NEW x, UserStore(p, v, x) PROVE StepSafe
<1> DEFINE f == space[p].map[v]
<1>1. /\ v \in DOMAIN space[p].map /\ f # Foreign /\ phys' = [phys EXCEPT ![f] = x]
      /\ used' = used /\ space' = space /\ life' = life /\ dying' = dying
  BY DEF UserStore
<1>2. f \in FramesOf(space[p])
  BY <1>1 DEF FramesOf
<1> HIDE DEF f
<1>3. SpacesInv'
  <2>1. used \subseteq Frames /\ DOMAIN phys' = Frames /\ DOMAIN life' = Pids
    BY <1>1 DEF SpacesInv
  <2> QED BY <1>1, <2>1, SpacesKept
<1>4. ASSUME NEW q \in Pids \ {p} PROVE View(q)' = View(q)
  <2>1. <<q, "own">> # <<p, "own">>
    BY <1>4
  <2>2. FramesOf(space[q]) \cap FramesOf(space[p]) = {}
    BY <2>1, TheOwners DEF SpacesInv
  <2>3. ASSUME NEW h \in FramesOf(space[q]) PROVE phys'[h] = phys[h]
    <3>1. h # f /\ h \in Frames
      BY <1>2, <2>2, SpaceFrames DEF SpacesInv
    <3> QED BY <1>1, <3>1 DEF SpacesInv
  <2> QED BY <1>1, <2>3, ViewKept
<1>5. OthersSee(p) /\ BornAsCopy
  BY <1>1, <1>4 DEF OthersSee, BornAsCopy
<1> QED BY <1>3, <1>5 DEF StepSafe

LEMMA NextSafe == SpacesInv /\ [ANext]_avars => StepSafe
<1> SUFFICES ASSUME SpacesInv, [ANext]_avars PROVE StepSafe
  OBVIOUS
<1>1. CASE UNCHANGED avars
  <2>1. UNCHANGED <<used, phys, space, life, dying>>
    BY <1>1 DEF avars
  <2>2. SpacesInv'
    BY <2>1, SpacesKept DEF SpacesInv
  <2>3. FirstPid \in Pids
    BY SpacesAssumption
  <2>4. OthersSee(FirstPid)
    BY <2>1, <2>3, Unseen
  <2> QED BY <2>1, <2>2, <2>3, <2>4 DEF StepSafe, BornAsCopy
<1>2. CASE ANext
  <2>1. PICK p \in Pids :
          \/ \E image \in Images : SysExec(p, image)
          \/ \E end \in 1 .. HeapLimit : SysBrk(p, end)
          \/ \E n \in 1 .. 2 : SysMmap(p, n)
          \/ \E q \in Pids, clone, stack \in BOOLEAN : SysFork(p, q, clone, stack)
          \/ SysExit(p)
          \/ \E q \in Pids : ReapSpace(p, q)
          \/ FreeSpace(p)
          \/ \E v \in DOMAIN space[p].map, x \in Values : UserStore(p, v, x)
    BY <1>2 DEF ANext
  <2>2. CASE \E image \in Images : SysExec(p, image)
    BY <2>2, ExecSafe
  <2>3. CASE \E end \in 1 .. HeapLimit : SysBrk(p, end)
    BY <2>3, BrkSafe
  <2>4. CASE \E n \in 1 .. 2 : SysMmap(p, n)
    BY <2>4, MmapSafe
  <2>5. CASE \E q \in Pids, clone, stack \in BOOLEAN : SysFork(p, q, clone, stack)
    BY <2>5, ForkSafe
  <2>6. CASE SysExit(p)
    BY <2>6, ExitSafe
  <2>7. CASE \E q \in Pids : ReapSpace(p, q)
    BY <2>7, ReapSafe
  <2>8. CASE FreeSpace(p)
    BY <2>8, FreeSafe
  <2>9. CASE \E v \in DOMAIN space[p].map, x \in Values : UserStore(p, v, x)
    BY <2>9, StoreSafe
  <2> QED BY <2>1, <2>2, <2>3, <2>4, <2>5, <2>6, <2>7, <2>8, <2>9
<1> QED BY <1>1, <1>2

LEMMA StartsSafe == AInit => SpacesInv
<1> SUFFICES ASSUME AInit PROVE SpacesInv
  OBVIOUS
<1> DEFINE w == [used |-> {}, cur |-> 1, data |-> [f \in Frames |-> 0], tab |-> NoEntries,
                 map |-> NoEntries, ok |-> TRUE, f |-> NoFrame]
<1>1. PICK image \in Images :
        LET m == Load(w, image)
        IN  /\ m.ok
            /\ used = m.used /\ cursor = m.cur /\ phys = m.data
            /\ space = [p \in Pids |-> IF p # FirstPid THEN NoSpace
                                       ELSE [tab |-> m.tab, map |-> m.map,
                                             start |-> image, end |-> image]]
            /\ life = [p \in Pids |-> IF p = FirstPid THEN "live" ELSE "none"]
            /\ dying = [p \in Pids |-> NoSpace]
  BY DEF AInit
<1> DEFINE m == Load(w, image)
           s == [tab |-> m.tab, map |-> m.map, start |-> image, end |-> image]
           o == <<FirstPid, "own">>
<1>2. image \in Nat /\ FirstPid \in Pids
  BY SpacesAssumption
<1>3. Own(w, w.used) /\ w.ok = TRUE /\ w.used = {}
  <2>1. /\ WorkFields \subseteq DOMAIN w /\ w.ok = TRUE /\ w.used = {} /\ DOMAIN w.data = Frames
        /\ w.tab = NoEntries /\ w.map = NoEntries
    BY DEF WorkFields
  <2> HIDE DEF w
  <2> QED BY <2>1, EmptyOwn
<1>4. m.ok => Own(m, w.used)
  <2> HIDE DEF w
  <2> QED BY <1>2, <1>3, LoadMade
<1>5. m.ok /\ used = m.used /\ phys = m.data
  BY <1>1
<1>6. /\ DOMAIN space = Pids /\ DOMAIN life = Pids /\ DOMAIN dying = Pids
      /\ space[FirstPid] = s
      /\ \A p \in Pids : (p # FirstPid => space[p] = NoSpace) /\ dying[p] = NoSpace
  BY <1>1, <1>2
<1> HIDE DEF m
<1>7. /\ SpaceFields \subseteq DOMAIN s /\ s.tab = m.tab /\ s.map = m.map /\ s.end = image
  BY DEF SpaceFields
<1> HIDE DEF s
<1>8. Own(m, {}) /\ used \subseteq Frames /\ DOMAIN phys = Frames
  <2>1. Own(m, {})
    BY <1>3, <1>4, <1>5
  <2> QED BY <1>5, <2>1 DEF Own
<1>9. SpaceOk(s, used)
  <2>1. Sep(m.tab, m.map, used \ {})
    BY <1>5, <1>8 DEF Own
  <2>2. Sep(m.tab, m.map, used)
    BY <2>1, SepMore
  <2> QED BY <1>2, <1>7, <1>8, <2>2 DEF SpaceOk, Own
<1>10. ASSUME NEW r \in Owners, r # o PROVE SpaceOf(r) = NoSpace
  <2>1. PICK q \in Pids : r = <<q, "own">> \/ r = <<q, "reaped">>
    BY TwoOwners
  <2>2. CASE r = <<q, "own">>
    <3>1. q # FirstPid
      BY <1>10, <2>2
    <3> QED BY <1>6, <2>2, <3>1, TheOwners
  <2>3. CASE r = <<q, "reaped">>
    BY <1>6, <2>3, TheOwners
  <2> QED BY <2>1, <2>2, <2>3
<1>11. SpaceOf(o) = s
  BY <1>2, <1>6, TheOwners
<1> HIDE DEF o
<1>12. \A r \in Owners : SpaceOk(SpaceOf(r), used)
  BY <1>9, <1>10, <1>11, NoSpaceOk
<1>13. \A q, r \in Owners : q # r => FramesOf(SpaceOf(q)) \cap FramesOf(SpaceOf(r)) = {}
  BY <1>10, NoSpaceOk
<1> QED BY <1>6, <1>8, <1>12, <1>13 DEF SpacesInv

LEMMA UseFrame ==
  ASSUME NEW s, NEW u \in Uses(s) PROVE FrameOf(s, u) \in FramesOf(s)
<1>1. \/ \E t \in DOMAIN s.tab : u = <<"table", t>>
      \/ \E v \in DOMAIN s.map : s.map[v] # Foreign /\ u = <<"page", v>>
  BY DEF Uses
<1> QED BY SMTT(30), <1>1 DEF FrameOf, FramesOf

LEMMA OneUse ==
  ASSUME NEW s, NEW U, Sep(s.tab, s.map, U), NEW u \in Uses(s), NEW w \in Uses(s),
         FrameOf(s, u) = FrameOf(s, w)
  PROVE  u = w
<1>1. \/ \E t \in DOMAIN s.tab : u = <<"table", t>>
      \/ \E v \in DOMAIN s.map : s.map[v] # Foreign /\ u = <<"page", v>>
  BY DEF Uses
<1>2. \/ \E t \in DOMAIN s.tab : w = <<"table", t>>
      \/ \E v \in DOMAIN s.map : s.map[v] # Foreign /\ w = <<"page", v>>
  BY DEF Uses
<1> QED BY SMTT(30), <1>1, <1>2 DEF FrameOf, Sep

LEMMA ApartFollows == SpacesInv => FramesApart
<1> SUFFICES ASSUME SpacesInv PROVE FramesApart
  OBVIOUS
<1>1. ASSUME NEW o \in Owners
      PROVE  Sep(SpaceOf(o).tab, SpaceOf(o).map, used) /\ FramesOf(SpaceOf(o)) \subseteq used
  <2>1. Sep(SpaceOf(o).tab, SpaceOf(o).map, used)
    BY DEF SpacesInv, SpaceOk
  <2> QED BY <2>1, SepFrames DEF SpacesInv
<1>2. \A o \in Owners : \A u \in Uses(SpaceOf(o)) : FrameOf(SpaceOf(o), u) \in used
  BY <1>1, UseFrame
<1>3. ASSUME NEW o \in Owners, NEW r \in Owners PROVE Apart(SpaceOf(o), SpaceOf(r), o = r)
  <2> SUFFICES ASSUME NEW u \in Uses(SpaceOf(o)), NEW w \in Uses(SpaceOf(r)),
                      FrameOf(SpaceOf(o), u) = FrameOf(SpaceOf(r), w)
               PROVE  o = r /\ u = w
    BY DEF Apart
  <2>1. o # r => FramesOf(SpaceOf(o)) \cap FramesOf(SpaceOf(r)) = {}
    BY DEF SpacesInv
  <2>2. o = r
    BY <2>1, UseFrame
  <2> QED BY <1>1, <2>2, OneUse
<1> QED BY <1>2, <1>3 DEF FramesApart

LEMMA SpacesAlways == ASpec => []SpacesInv
<1>1. SpacesInv /\ [ANext]_avars => SpacesInv'
  BY NextSafe DEF StepSafe
<1> QED BY <1>1, StartsSafe, PTL DEF ASpec

\* No frame has two uses, and none in use is free: through exec, brk, mmap, fork, clone,
\* exit and waitpid, whatever fails half way for want of a page, for any number of
\* processes and frames (pmm_alloc_page, paging_map_for_process, copy_address_space,
\* free_address_space).
THEOREM SpacesStayApart == ASpec => []FramesApart
BY SpacesAlways, ApartFollows, PTL

\* A step changes what at most one process reads in its own pages, and a process that
\* sched_fork or sched_clone brings to life reads what its parent read.
THEOREM MemoryStaysPrivate == ASpec => PrivateMemory
<1>1. ASSUME SpacesInv, [ANext]_avars
      PROVE  /\ \A p, q \in {r \in Pids : {life[r], life'[r]} \subseteq {"live", "reaping"}} :
                   View(p)' # View(p) /\ View(q)' # View(q) => p = q
             /\ BornAsCopy
  <2>1. PICK p \in Pids : OthersSee(p)
    BY <1>1, NextSafe DEF StepSafe
  <2>2. BornAsCopy
    BY <1>1, NextSafe DEF StepSafe
  <2> QED BY <2>1, <2>2 DEF OthersSee
<1> QED BY <1>1, SpacesAlways, PTL DEF ASpec, PrivateMemory, BornAsCopy
=============================================================================
