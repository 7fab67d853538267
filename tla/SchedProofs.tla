---------------------------- MODULE SchedProofs -----------------------------
(***************************************************************************)
(* The scheduler (Sched) for every size of the process table, every number *)
(* of stacks and address spaces, every slice, tick modulus and pid limit.  *)
(***************************************************************************)
EXTENDS SchedInv, TLAPS

USE ZenonT(30), SMTT(30)

LEMMA IdleInTable == Idle \in Slots
BY SMTT(30), ConstantsAssumption DEF Idle, Slots

-----------------------------------------------------------------------------
(* What keeps the invariant.                                               *)

LEMMA FrameKeeps ==
  ASSUME ListFacts, NEW s, NEW at, NEW rq, NEW sq, Sound(s, at, rq, sq),
         NEW t, NEW at2, NEW P \in SUBSET (Slots \ {Idle}),
         Framed(t, at2, s, at, rq, sq, P)
  PROVE  Sound(t, at2, rq, sq)
<1> USE DEF Framed
<1>1. Queues(s, rq, sq) /\ Listed(s, rq, sq) /\ Inside(s, at, rq, sq)
  BY DEF Sound
<1>2. Queues(t, rq, sq)
  BY <1>1 DEF Queues
<1>3. /\ \A i \in 1 .. Len(rq) : rq[i] \in Slots \ P
      /\ \A i \in 1 .. Len(sq) : sq[i] \in Slots \ P
  <2>1. /\ \A i \in 1 .. Len(rq) : rq[i] \in Slots
        /\ \A i \in 1 .. Len(sq) : sq[i] \in Slots
    BY ONLY Zenon, <1>1, ListFacts DEF Queues, ListFacts, ChainTypeFact
  <2> QED BY SMTT(30), <2>1
<1>4. Idle \in Slots \ P
  BY SMTT(30), ConstantsAssumption DEF Slots, Idle
<1>5. Listed(t, rq, sq)
  <2>1. \A i \in 1 .. Len(rq) : rq[i] = Idle \/ t.state[rq[i]] = "READY"
    BY SMTT(30), <1>1, <1>3 DEF Listed
  <2>2. \A p \in Slots \ {Idle} :
          t.state[p] = "READY" /\ t.pending[p] = {} => \E i \in 1 .. Len(rq) : rq[i] = p
    BY SMTT(30), <1>1 DEF Listed
  <2>3. \A i \in 1 .. Len(sq) :
          /\ sq[i] # Idle
          /\ t.state[sq[i]] = "SLEEPING" \/ (t.state[sq[i]] = "READY" /\ t.pending[sq[i]] # {})
    BY SMTT(30), <1>1, <1>3 DEF Listed
  <2>4. \A i, j \in 1 .. Len(sq) : i < j => t.until[sq[i]] <= t.until[sq[j]]
    BY SMTT(30), <1>1, <1>3 DEF Listed
  <2> QED BY <1>1, <1>4, <2>1, <2>2, <2>3, <2>4 DEF Listed
<1>6. Inside(t, at2, rq, sq)
  <2>1. ASSUME NEW p \in Slots, t.state[p] = "SLEEPING"
        PROVE  at2[p] = "marked" \/ \E i \in 1 .. Len(sq) : sq[i] = p
    BY SMTT(30), <1>1, <2>1 DEF Inside
  <2>2. ASSUME NEW p \in Slots, at2[p] = "marked"
        PROVE  /\ t.state[p] \in {"SLEEPING", "READY"}
               /\ \A i \in 1 .. Len(rq) : rq[i] # p
               /\ \A i \in 1 .. Len(sq) : sq[i] # p
    BY SMTT(30), <1>1, <2>2 DEF Inside
  <2>3. at2[Idle] = "user"
    BY <1>1, <1>4 DEF Inside
  <2> QED BY <2>1, <2>2, <2>3 DEF Inside
<1> QED BY <1>2, <1>5, <1>6 DEF Sound

LEMMA GrowKeeps ==
  ASSUME ListFacts, NEW s, NEW at, NEW rq, NEW sq, Sound(s, at, rq, sq),
         NEW t, NEW at2, NEW W \in SUBSET (Slots \ {Idle}), NEW rq2,
         Queues(t, rq2, sq), Grown(rq2, rq, W),
         Readied(t, at2, s, at, W)
  PROVE  Sound(t, at2, rq2, sq)
<1> USE DEF Readied
<1>1. Queues(s, rq, sq) /\ Listed(s, rq, sq) /\ Inside(s, at, rq, sq)
  BY DEF Sound
<1>2. /\ Len(rq) \in Nat /\ \A i \in 1 .. Len(rq) : rq[i] \in Slots
      /\ Len(sq) \in Nat /\ \A i \in 1 .. Len(sq) : sq[i] \in Slots
      /\ Len(rq2) \in Nat /\ \A i \in 1 .. Len(rq2) : rq2[i] \in Slots
  BY ONLY Zenon, <1>1, Queues(t, rq2, sq), ListFacts DEF Queues, ListFacts, ChainTypeFact
<1>3. Idle \in Slots \ W
  BY SMTT(30), ConstantsAssumption DEF Slots, Idle
<1>4. \A i \in 1 .. Len(rq2) : (i \in 1 .. Len(rq) /\ rq2[i] = rq[i]) \/ rq2[i] \in W
  BY SMTT(30), <1>2 DEF Grown
<1>5. \A i \in 1 .. Len(rq) : i \in 1 .. Len(rq2) /\ rq2[i] = rq[i]
  BY SMTT(30), <1>2 DEF Grown
<1>6. \A p \in W : \E i \in 1 .. Len(rq2) : rq2[i] = p
  BY SMTT(30), <1>2 DEF Grown
<1>7. \A i \in 1 .. Len(sq) : sq[i] \in Slots \ W
  BY SMTT(30), <1>2, <1>6 DEF Queues
<1>8. Listed(t, rq2, sq)
  <2>1. \A i \in 1 .. Len(rq2) : rq2[i] = Idle \/ t.state[rq2[i]] = "READY"
    BY SMTT(30), <1>1, <1>2, <1>4 DEF Listed
  <2>2. \A p \in Slots \ {Idle} :
          t.state[p] = "READY" /\ t.pending[p] = {} => \E i \in 1 .. Len(rq2) : rq2[i] = p
    BY SMTT(30), <1>1, <1>5, <1>6 DEF Listed
  <2>3. \A i \in 1 .. Len(sq) :
          /\ sq[i] # Idle
          /\ t.state[sq[i]] = "SLEEPING" \/ (t.state[sq[i]] = "READY" /\ t.pending[sq[i]] # {})
    BY SMTT(30), <1>1, <1>7 DEF Listed
  <2>4. \A i, j \in 1 .. Len(sq) : i < j => t.until[sq[i]] <= t.until[sq[j]]
    BY SMTT(30), <1>1, <1>7 DEF Listed
  <2> QED BY <1>1, <1>3, <2>1, <2>2, <2>3, <2>4 DEF Listed
<1>9. Inside(t, at2, rq2, sq)
  <2>1. ASSUME NEW p \in Slots, t.state[p] = "SLEEPING"
        PROVE  at2[p] = "marked" \/ \E i \in 1 .. Len(sq) : sq[i] = p
    BY SMTT(30), <1>1, <2>1 DEF Inside
  <2>2. ASSUME NEW p \in Slots, at2[p] = "marked"
        PROVE  /\ t.state[p] \in {"SLEEPING", "READY"}
               /\ \A i \in 1 .. Len(rq2) : rq2[i] # p
               /\ \A i \in 1 .. Len(sq) : sq[i] # p
    BY SMTT(30), <1>1, <1>4, <2>2 DEF Inside
  <2>3. at2[Idle] = "user"
    BY <1>1, <1>3 DEF Inside
  <2>4. \/ t.state[t.cur] = "RUNNING"
        \/ t.cur # Idle /\ at2[t.cur] \in {"int80", "exiting", "marked"}
    BY SMTT(30), <1>1 DEF Inside
  <2> QED BY <2>1, <2>2, <2>3, <2>4 DEF Inside
<1> QED BY <1>8, <1>9 DEF Sound

LEMMA InsertKeeps ==
  ASSUME ListFacts, NEW s, NEW at0, NEW rq, NEW sq, IsSch(s), Sound(s, at0, rq, sq),
         NEW c, NEW at, Linking(at, s, at0, c), NEW t, t = SleepInsert(s, c)
  PROVE  IsSch(t) /\ SameProcesses(t, s) /\ \E sq2 : Sound(t, at, rq, sq2)
<1> USE DEF Linking
<1>a. Queues(s, rq, sq) /\ Listed(s, rq, sq) /\ Inside(s, at0, rq, sq)
  BY DEF Sound
<1>b. /\ \A i \in 1 .. Len(rq) : rq[i] # c
      /\ \A i \in 1 .. Len(sq) : sq[i] # c
      /\ s.state[c] \in {"SLEEPING", "READY"}
  BY <1>a DEF Inside
<1>c. s.state[c] = "SLEEPING" \/ (s.state[c] = "READY" /\ s.pending[c] # {})
  BY <1>a, <1>b DEF Listed
<1>d. \A i, j \in 1 .. Len(sq) : i < j => s.until[sq[i]] <= s.until[sq[j]]
  BY <1>a DEF Listed
<1>1. PICK k \in 1 .. Len(sq) + 1 :
        /\ IsSch(t) /\ SameProcesses(t, s) /\ Queues(t, rq, Inserted(sq, k, c))
        /\ \A i \in 1 .. k - 1 : s.until[sq[i]] <= s.until[c]
        /\ k \in 1 .. Len(sq) => s.until[sq[k]] > s.until[c]
  BY ONLY Zenon, IsSch(s), <1>a, <1>b, c \in Slots \ {Idle}, t = SleepInsert(s, c), ListFacts DEF
     ListFacts, SleepInsertFact
<1> DEFINE r == Inserted(sq, k, c)
<1>2. t.state = s.state /\ t.until = s.until /\ t.pending = s.pending /\ t.pid = s.pid /\ t.cur = s.cur
  BY <1>1 DEF SameProcesses, SameRest
<1>3. Len(sq) \in Nat /\ \A i \in 1 .. Len(sq) : sq[i] \in Slots
  BY ONLY Zenon, <1>a, ListFacts DEF Queues, ListFacts, ChainTypeFact
<1>4. Len(r) = Len(sq) + 1
  BY SMTT(30), <1>3 DEF Inserted
<1>5. \A i \in 1 .. Len(r) : r[i] = IF i < k THEN sq[i] ELSE IF i = k THEN c ELSE sq[i - 1]
  BY <1>3, <1>4 DEF Inserted
<1> HIDE DEF r
<1>6. \A i \in 1 .. Len(r) : r[i] = c \/ \E j \in 1 .. Len(sq) : r[i] = sq[j]
  BY ONLY SMTT(30), <1>3, <1>4, <1>5, k \in 1 .. Len(sq) + 1
<1>7. \A j \in 1 .. Len(sq) : \E i \in 1 .. Len(r) : r[i] = sq[j]
  <2> TAKE j \in 1 .. Len(sq)
  <2>1. CASE j < k
    BY ONLY SMTT(30), <1>3, <1>4, <1>5, <2>1, j \in 1 .. Len(sq)
  <2>2. CASE j >= k
    <3>1. j + 1 \in 1 .. Len(r) /\ ~(j + 1 < k) /\ j + 1 # k /\ (j + 1) - 1 = j
      BY SMTT(30), <1>3, <1>4, <2>2
    <3> QED BY ONLY Zenon, <1>5, <3>1
  <2> QED BY SMTT(30), <2>1, <2>2
<1>8. \E i \in 1 .. Len(r) : r[i] = c
  BY ONLY SMTT(30), <1>3, <1>4, <1>5, k \in 1 .. Len(sq) + 1
<1>9. ASSUME NEW i \in 1 .. Len(r), NEW j \in 1 .. Len(r), i < j
      PROVE  s.until[r[i]] <= s.until[r[j]]
  <2>1. s.until \in [Slots -> Nat]
    BY DEF IsSch
  <2>2. s.until[c] \in Nat /\ \A m \in 1 .. Len(sq) : s.until[sq[m]] \in Nat
    BY <1>3, <2>1
  <2>3. CASE j < k
    BY ONLY SMTT(30), <1>3, <1>4, <1>5, <1>9, <1>d, <2>3, k \in 1 .. Len(sq) + 1, i \in 1 .. Len(r),
            j \in 1 .. Len(r)
  <2>4. CASE j = k
    BY ONLY SMTT(30), <1>1, <1>3, <1>4, <1>5, <1>9, <2>4, i \in 1 .. Len(r), k \in 1 .. Len(sq) + 1
  <2>5. CASE j > k
    <3>1. j - 1 \in 1 .. Len(sq) /\ r[j] = sq[j - 1] /\ k \in 1 .. Len(sq) /\ k <= j - 1
      BY ONLY SMTT(30), <1>3, <1>4, <1>5, <2>5, j \in 1 .. Len(r), k \in 1 .. Len(sq) + 1
    <3>2. s.until[c] <= s.until[sq[j - 1]]
      <4>1. s.until[sq[k]] > s.until[c]
        BY <1>1, <3>1
      <4>2. s.until[sq[k]] <= s.until[sq[j - 1]]
        <5>1. CASE k = j - 1
          BY SMTT(30), <2>2, <3>1, <5>1
        <5>2. CASE k < j - 1
          BY <1>d, <3>1, <5>2
        <5>3. k = j - 1 \/ k < j - 1
          BY ONLY SMTT(30), <3>1
        <5> QED BY ONLY Zenon, <5>1, <5>2, <5>3
      <4>3. s.until[sq[k]] \in Nat /\ s.until[sq[j - 1]] \in Nat /\ s.until[c] \in Nat
        BY <2>2, <3>1
      <4> QED BY ONLY SMTT(30), <4>1, <4>2, <4>3
    <3>3. CASE i = k
      BY ONLY SMTT(30), <1>5, <3>1, <3>2, <3>3, i \in 1 .. Len(r)
    <3>4. CASE i < k
      <4>1. i \in 1 .. Len(sq) /\ i < j - 1 /\ r[i] = sq[i]
        BY ONLY SMTT(30), <1>3, <1>5, <3>1, <3>4, i \in 1 .. Len(r)
      <4> QED BY <1>d, <3>1, <4>1
    <3>5. CASE i > k
      <4>1. i - 1 \in 1 .. Len(sq) /\ i - 1 < j - 1 /\ r[i] = sq[i - 1]
        BY ONLY SMTT(30), <1>3, <1>4, <1>5, <1>9, <3>5, i \in 1 .. Len(r), j \in 1 .. Len(r), k \in 1 .. Len(sq) + 1
      <4> QED BY <1>d, <3>1, <4>1
    <3> QED BY SMTT(30), <3>3, <3>4, <3>5
  <2> QED BY SMTT(30), <2>3, <2>4, <2>5
<1>10. Listed(t, rq, r)
  <2>1. \A i \in 1 .. Len(r) :
          /\ r[i] # Idle
          /\ t.state[r[i]] = "SLEEPING" \/ (t.state[r[i]] = "READY" /\ t.pending[r[i]] # {})
    BY SMTT(30), <1>2, <1>6, <1>a, <1>c DEF Listed
  <2>2. \A i, j \in 1 .. Len(r) : i < j => t.until[r[i]] <= t.until[r[j]]
    BY ONLY Zenon, <1>2, <1>9
  <2> QED BY ONLY ZenonT(60), <1>2, <1>a, <2>1, <2>2 DEF Listed
<1>11. Inside(t, at, rq, r)
  <2>1. ASSUME NEW p \in Slots, t.state[p] = "SLEEPING"
        PROVE  at[p] = "marked" \/ \E i \in 1 .. Len(r) : r[i] = p
    <3>1. CASE p = c
      BY ONLY Zenon, <1>8, <3>1
    <3>2. CASE p # c
      <4>1. at[p] = at0[p] /\ s.state[p] = "SLEEPING"
        BY <1>2, <2>1, <3>2
      <4>2. at0[p] = "marked" \/ \E j \in 1 .. Len(sq) : sq[j] = p
        BY <1>a, <4>1 DEF Inside
      <4> QED BY ONLY Zenon, <1>7, <4>1, <4>2
    <3> QED BY <3>1, <3>2
  <2>2. ASSUME NEW p \in Slots, at[p] = "marked"
        PROVE  /\ t.state[p] \in {"SLEEPING", "READY"}
               /\ \A i \in 1 .. Len(rq) : rq[i] # p
               /\ \A i \in 1 .. Len(r) : r[i] # p
    <3>1. p # c
      BY <2>2
    <3> QED BY SMTT(30), <1>2, <1>6, <1>a, <2>2, <3>1 DEF Inside
  <2>3. at[Idle] = "user" /\ t.cur # Idle /\ at[t.cur] = "int80"
    BY ONLY Zenon, Linking(at, s, at0, c), <1>2, <1>a, IdleInTable DEF Inside, Linking
  <2> QED BY <2>1, <2>2, <2>3 DEF Inside
<1> QED BY <1>1, <1>10, <1>11 DEF Sound, r

\* q has the queued, the first k sleepers and a current process that goes on.
Gathers(q, s, rq, sq, k) ==
  /\ q \in Seq(Slots) /\ Len(q) \in Nat
  /\ \A i \in 1 .. Len(q) : \/ \E j \in 1 .. Len(rq) : q[i] = rq[j]
                            \/ \E j \in 1 .. k : q[i] = sq[j]
                            \/ Requeued(s) /\ q[i] = s.cur
  /\ \A j \in 1 .. Len(rq) : \E i \in 1 .. Len(q) : q[i] = rq[j]
  /\ \A j \in 1 .. k : \E i \in 1 .. Len(q) : q[i] = sq[j]
  /\ Requeued(s) => \E i \in 1 .. Len(q) : q[i] = s.cur

LEMMA CandidatesAre ==
  ASSUME ListFacts, NEW s, NEW rq \in Seq(Slots), NEW sq \in Seq(Slots), NEW k \in 0 .. Len(sq),
         s.cur \in Slots, NEW q, q = Candidates(s, rq, sq, k)
  PROVE  Gathers(q, s, rq, sq, k)
<1> DEFINE a == Joined(rq, sq, k)
<1>1. /\ a \in Seq(Slots) /\ Len(a) = Len(rq) + k /\ \A i \in 1 .. Len(rq) : a[i] = rq[i]
      /\ \A i \in 1 .. k : a[Len(rq) + i] = sq[i]
  BY DEF ListFacts, JoinedFact
<1>2. Len(rq) \in Nat /\ Len(sq) \in Nat /\ Len(a) \in Nat
  BY SMTT(30), <1>1
<1> HIDE DEF a
<1>3. ASSUME NEW i \in 1 .. Len(a)
      PROVE  (\E j \in 1 .. Len(rq) : a[i] = rq[j]) \/ \E j \in 1 .. k : a[i] = sq[j]
  <2>1. CASE i <= Len(rq)
    BY SMTT(30), <1>1, <1>2, <2>1
  <2>2. CASE i > Len(rq)
    <3>1. i - Len(rq) \in 1 .. k /\ Len(rq) + (i - Len(rq)) = i
      BY SMTT(30), <1>1, <1>2, <2>2
    <3> QED BY ONLY Zenon, <1>1, <3>1
  <2> QED BY SMTT(30), <1>2, <2>1, <2>2
<1>4. /\ \A j \in 1 .. Len(rq) : \E i \in 1 .. Len(a) : a[i] = rq[j]
      /\ \A j \in 1 .. k : \E i \in 1 .. Len(a) : a[i] = sq[j]
  <2>1. /\ \A j \in 1 .. Len(rq) : j \in 1 .. Len(a)
        /\ \A j \in 1 .. k : Len(rq) + j \in 1 .. Len(a)
    BY SMTT(30), <1>1, <1>2
  <2> QED BY ONLY Zenon, <1>1, <2>1
<1>5. CASE ~Requeued(s)
  <2>1. q = a
    BY <1>5 DEF Candidates, a
  <2> QED BY ONLY Zenon, <1>1, <1>2, <1>3, <1>4, <1>5, <2>1 DEF Gathers
<1>6. CASE Requeued(s)
  <2>1. q = Append(a, s.cur)
    BY <1>6 DEF Candidates, a
  <2>2. /\ q \in Seq(Slots) /\ Len(q) = Len(a) + 1 /\ q[Len(a) + 1] = s.cur
        /\ \A i \in 1 .. Len(a) : q[i] = a[i]
    BY SMTT(30), <1>1, <2>1 DEF ListFacts, AppendFact
  <2>3. \A i \in 1 .. Len(q) : i \in 1 .. Len(a) \/ i = Len(a) + 1
    BY SMTT(30), <1>2, <2>2
  <2>4. \A i \in 1 .. Len(a) : i \in 1 .. Len(q)
    BY SMTT(30), <1>2, <2>2
  <2>5. \A i \in 1 .. Len(q) : \/ \E j \in 1 .. Len(rq) : q[i] = rq[j]
                               \/ \E j \in 1 .. k : q[i] = sq[j]
                               \/ q[i] = s.cur
    BY ONLY ZenonT(60), <1>3, <2>2, <2>3
  <2>6. /\ \A j \in 1 .. Len(rq) : \E i \in 1 .. Len(q) : q[i] = rq[j]
        /\ \A j \in 1 .. k : \E i \in 1 .. Len(q) : q[i] = sq[j]
    BY ONLY ZenonT(60), <1>4, <2>2, <2>4
  <2>7. Len(a) + 1 \in 1 .. Len(q) /\ Len(q) \in Nat
    BY SMTT(30), <1>2, <2>2
  <2> QED BY ONLY Zenon, <1>6, <2>2, <2>5, <2>6, <2>7 DEF Gathers
<1> QED BY <1>5, <1>6

\* All of them but the chosen one are behind.
LEMMA BehindIs ==
  ASSUME ListFacts, NEW q \in Seq(Slots)
  PROVE  /\ \A i \in 1 .. Len(Behind(q)) : i + 1 \in 1 .. Len(q) /\ Behind(q)[i] = q[i + 1]
         /\ \A i \in 1 .. Len(q) : q[i] # Chosen(q) => \E j \in 1 .. Len(Behind(q)) : Behind(q)[j] = q[i]
         /\ Len(q) # 0 => 1 \in 1 .. Len(q) /\ Chosen(q) = q[1]
<1>1. Len(q) \in Nat
  BY SMTT(30)
<1>2. CASE Len(q) = 0
  BY SMTT(30), <1>1, <1>2 DEF Behind
<1>3. CASE Len(q) # 0
  <2>1. q # <<>> /\ Behind(q) = Tail(q) /\ Chosen(q) = q[1]
    BY SMTT(30), <1>1, <1>3 DEF Behind, Chosen
  <2>2. Len(Tail(q)) = Len(q) - 1 /\ \A i \in 1 .. Len(q) - 1 : Tail(q)[i] = q[i + 1]
    BY <1>1, <2>1 DEF ListFacts, HeadTailFact
  <2>3. ASSUME NEW i \in 1 .. Len(q), q[i] # q[1]
        PROVE  \E j \in 1 .. Len(Tail(q)) : Tail(q)[j] = q[i]
    <3>1. i - 1 \in 1 .. Len(q) - 1 /\ (i - 1) + 1 = i
      BY SMTT(30), <1>1, <2>3
    <3> QED BY ONLY Zenon, <2>2, <3>1
  <2> QED BY SMTT(30), <1>1, <1>3, <2>1, <2>2, <2>3
<1> QED BY <1>2, <1>3

LEMMA SwitchKeeps ==
  ASSUME ListFacts, SwitchIsFact, NEW s, NEW at, NEW rq, NEW sq, IsSch(s), Sound(s, at, rq, sq),
         NEW now \in Nat, NEW t, t = DoSwitch(s, now), NEW at2,
         Resuming(at2, s, at)
  PROVE  IsSch(t) /\ \E rq2, sq2 : Sound(t, at2, rq2, sq2)
<1> USE DEF Resuming
<1>1. Queues(s, rq, sq) /\ Listed(s, rq, sq) /\ Inside(s, at, rq, sq)
  BY DEF Sound
<1>2. s.cur \in Slots
  BY DEF IsSch
<1>3. \A i, j \in 1 .. Len(sq) : i < j => s.until[sq[i]] <= s.until[sq[j]]
  BY <1>1 DEF Listed
<1>4. s.state[s.cur] = "RUNNING" => \A i \in 1 .. Len(sq) : sq[i] # s.cur
  BY <1>1 DEF Listed
<1>5. Requeued(s) => s.cur # Idle /\ s.state[s.cur] = "RUNNING"
  BY <1>1 DEF Requeued, Listed
<1>7. PICK k \in 0 .. Len(sq) : SwitchResult(t, s, rq, sq, now, k)
  BY DEF SwitchIsFact
<1> DEFINE q == Candidates(s, rq, sq, k)
           r == Rest(sq, k)
           b == Behind(q)
           n == Chosen(q)
<1>8. /\ IsSch(t) /\ Separate(q, r) /\ Queues(t, b, r) /\ n \in Slots
      /\ SwitchedTo(t, s, sq, k, n)
  BY <1>7 DEF SwitchResult
<1>9. rq \in Seq(Slots) /\ sq \in Seq(Slots) /\ Len(sq) \in Nat
  BY SMTT(30), <1>1 DEF Queues, IsChain
<1>q. q = Candidates(s, rq, sq, k)
  OBVIOUS
<1> HIDE DEF q
<1>g. Gathers(q, s, rq, sq, k)
  BY ONLY Zenon, <1>2, <1>9, <1>q, k \in 0 .. Len(sq), CandidatesAre, ListFacts
<1>10. /\ q \in Seq(Slots) /\ Len(q) \in Nat
       /\ \A i \in 1 .. Len(q) : \/ \E j \in 1 .. Len(rq) : q[i] = rq[j]
                                 \/ \E j \in 1 .. k : q[i] = sq[j]
                                 \/ Requeued(s) /\ q[i] = s.cur
  BY ONLY Zenon, <1>g DEF Gathers
<1>11. /\ \A j \in 1 .. Len(rq) : \E i \in 1 .. Len(q) : q[i] = rq[j]
       /\ \A j \in 1 .. k : \E i \in 1 .. Len(q) : q[i] = sq[j]
       /\ Requeued(s) => \E i \in 1 .. Len(q) : q[i] = s.cur
  BY ONLY Zenon, <1>g DEF Gathers
<1>12. /\ \A i \in 1 .. Len(b) : i + 1 \in 1 .. Len(q) /\ b[i] = q[i + 1]
       /\ \A i \in 1 .. Len(q) : q[i] # n => \E j \in 1 .. Len(b) : b[j] = q[i]
       /\ Len(q) # 0 => 1 \in 1 .. Len(q) /\ n = q[1]
  BY <1>10, BehindIs
<1>13. Len(r) = Len(sq) - k /\ \A i \in 1 .. Len(sq) - k : r[i] = sq[k + i]
  BY <1>9 DEF ListFacts, RestFact
<1>14. Len(q) = 0 => n = Idle
  BY DEF Chosen
<1> HIDE DEF b, n, r
<1>15. Len(b) \in Nat /\ \A i \in 1 .. Len(b) : b[i] \in Slots
  BY ONLY Zenon, <1>8, ListFacts DEF Queues, ListFacts, ChainTypeFact
<1>16. ASSUME NEW i \in 1 .. Len(b)
       PROVE  /\ b[i] # n
              /\ \/ \E j \in 1 .. Len(rq) : b[i] = rq[j]
                 \/ \E j \in 1 .. k : b[i] = sq[j]
                 \/ Requeued(s) /\ b[i] = s.cur
  <2>1. i + 1 \in 1 .. Len(q) /\ b[i] = q[i + 1] /\ i + 1 # 1 /\ Len(q) # 0
    BY SMTT(30), <1>10, <1>12, <1>15
  <2>2. q[i + 1] # q[1]
    BY <1>8, <1>12, <2>1 DEF Separate
  <2> QED BY ONLY SMTT(30), <1>10, <1>12, <2>1, <2>2
<1>17. ASSUME NEW i \in 1 .. Len(r)
       PROVE  /\ k + i \in 1 .. Len(sq) /\ r[i] = sq[k + i] /\ r[i] # n /\ r[i] \in Slots
              /\ ~(r[i] = s.cur /\ Requeued(s)) /\ ~\E j \in 1 .. k : sq[j] = r[i]
  <2>1. i \in 1 .. Len(sq) - k /\ k + i \in 1 .. Len(sq)
    BY SMTT(30), <1>9, <1>13
  <2>2. r[i] = sq[k + i] /\ r[i] \in Slots /\ r[i] # Idle
    BY SMTT(30), <1>1, <1>9, <1>13, <2>1 DEF Listed
  <2>3. r[i] # n
    BY SMTT(30), <1>8, <1>12, <1>14, <2>2 DEF Separate
  <2>4. ~(r[i] = s.cur /\ Requeued(s))
    BY <1>4, <1>5, <2>1, <2>2
  <2>5. ~\E j \in 1 .. k : sq[j] = r[i]
    BY SMTT(30), <1>8, <1>11 DEF Separate
  <2> QED BY <2>1, <2>2, <2>3, <2>4, <2>5
<1>18. /\ \A p \in Slots : t.state[p] =
            IF p = n THEN "RUNNING"
            ELSE IF (p = s.cur /\ Requeued(s)) \/ \E i \in 1 .. k : sq[i] = p THEN "READY"
            ELSE s.state[p]
       /\ \A p \in Slots : t.until[p] = IF \E i \in 1 .. k : sq[i] = p THEN 0 ELSE s.until[p]
       /\ t.pid = s.pid /\ t.pending = s.pending /\ t.cur = n
  BY ONLY SMTT(30), <1>8 DEF SwitchedTo
<1>19. Listed(t, b, r)
  <2>1. ASSUME NEW i \in 1 .. Len(b) PROVE b[i] = Idle \/ t.state[b[i]] = "READY"
    <3>1. b[i] \in Slots /\ b[i] # n
      BY <1>15, <1>16
    <3>2. \/ t.state[b[i]] = "READY"
          \/ t.state[b[i]] = s.state[b[i]] /\ ~\E j \in 1 .. k : sq[j] = b[i]
      BY ONLY Zenon, <1>18, <3>1
    <3>3. \/ \E j \in 1 .. Len(rq) : b[i] = rq[j]
          \/ \E j \in 1 .. k : sq[j] = b[i]
          \/ Requeued(s) /\ b[i] = s.cur
      BY ONLY Zenon, <1>16, i \in 1 .. Len(b)
    <3>4. CASE Requeued(s) /\ b[i] = s.cur
      BY ONLY Zenon, <1>18, <3>1, <3>4
    <3>5. CASE \E j \in 1 .. Len(rq) : b[i] = rq[j]
      BY <1>1, <3>2, <3>5 DEF Listed
    <3> QED BY ONLY Zenon, <3>2, <3>3, <3>4, <3>5
  <2>2. ASSUME NEW i \in 1 .. Len(r)
        PROVE  /\ r[i] # Idle
               /\ t.state[r[i]] = "SLEEPING" \/ (t.state[r[i]] = "READY" /\ t.pending[r[i]] # {})
    <3>1. t.state[r[i]] = s.state[r[i]] /\ t.pending[r[i]] = s.pending[r[i]]
      BY ONLY Zenon, <1>17, <1>18, i \in 1 .. Len(r)
    <3>2. k + i \in 1 .. Len(sq) /\ r[i] = sq[k + i]
      BY <1>17
    <3>3. /\ sq[k + i] # Idle
          /\ \/ s.state[sq[k + i]] = "SLEEPING"
             \/ s.state[sq[k + i]] = "READY" /\ s.pending[sq[k + i]] # {}
      BY <1>1, <3>2 DEF Listed
    <3> QED BY ONLY Zenon, <3>1, <3>2, <3>3
  <2>3. ASSUME NEW i \in 1 .. Len(r), NEW j \in 1 .. Len(r), i < j
        PROVE  t.until[r[i]] <= t.until[r[j]]
    <3>0. t.until[r[i]] = s.until[r[i]] /\ t.until[r[j]] = s.until[r[j]]
      BY ONLY Zenon, <1>17, <1>18, i \in 1 .. Len(r), j \in 1 .. Len(r)
    <3>1. t.until[r[i]] = s.until[sq[k + i]] /\ t.until[r[j]] = s.until[sq[k + j]]
      BY <1>17, <3>0
    <3>2. k + i < k + j /\ k + i \in 1 .. Len(sq) /\ k + j \in 1 .. Len(sq)
      BY SMTT(30), <1>9, <1>17, <2>3
    <3> QED BY ONLY Zenon, <1>3, <3>1, <3>2
  <2>4. t.state[Idle] = "RUNNING" /\ t.pid[Idle] = 0
    <3>1. Idle \in Slots
      BY IdleInTable
    <3>2. (\A i \in 1 .. Len(sq) : sq[i] # Idle) /\ \A i \in 1 .. k : i \in 1 .. Len(sq)
      <4>1. \A i \in 1 .. k : i \in 1 .. Len(sq)
        BY ONLY SMTT(30), <1>9, k \in 0 .. Len(sq)
      <4> QED BY ONLY Zenon, <1>1, <4>1 DEF Listed
    <3> QED BY <1>1, <1>5, <1>18, <3>1, <3>2 DEF Listed
  <2>5. ASSUME NEW p \in Slots \ {Idle}, t.state[p] = "READY", t.pending[p] = {}
        PROVE  \E i \in 1 .. Len(b) : b[i] = p
    <3>1. p # n
      BY <1>18, <2>5
    <3>2. \/ (p = s.cur /\ Requeued(s)) \/ \E j \in 1 .. k : sq[j] = p
          \/ s.state[p] = "READY" /\ s.pending[p] = {}
      BY ONLY Zenon, <1>18, <2>5, <3>1
    <3>3. s.state[p] = "READY" /\ s.pending[p] = {} => \E j \in 1 .. Len(rq) : rq[j] = p
      BY <1>1, p \in Slots \ {Idle} DEF Listed
    <3>4. \E i \in 1 .. Len(q) : q[i] = p
      BY ONLY Zenon, <1>11, <3>2, <3>3
    <3> QED BY ONLY Zenon, <1>12, <3>1, <3>4
  <2> QED BY <2>1, <2>2, <2>3, <2>4, <2>5 DEF Listed
<1>20. Inside(t, at2, b, r)
  <2>1. ASSUME NEW p \in Slots, t.state[p] = "SLEEPING"
        PROVE  at2[p] = "marked" \/ \E i \in 1 .. Len(r) : r[i] = p
    <3>1. s.state[p] = "SLEEPING" /\ ~\E i \in 1 .. k : sq[i] = p
      BY <1>18, <2>1
    <3>2. CASE at[p] = "marked"
      BY <3>2
    <3>3. CASE \E i \in 1 .. Len(sq) : sq[i] = p
      <4>1. PICK i \in 1 .. Len(sq) : sq[i] = p
        BY <3>3
      <4>2. i - k \in 1 .. Len(r) /\ i - k \in 1 .. Len(sq) - k /\ k + (i - k) = i
        BY SMTT(30), <1>9, <1>13, <3>1, <4>1
      <4> QED BY ONLY Zenon, <1>13, <4>1, <4>2
    <3> QED BY <1>1, <3>1, <3>2, <3>3 DEF Inside
  <2>2. ASSUME NEW p \in Slots, at2[p] = "marked"
        PROVE  /\ t.state[p] \in {"SLEEPING", "READY"}
               /\ \A i \in 1 .. Len(b) : b[i] # p
               /\ \A i \in 1 .. Len(r) : r[i] # p
    <3>1. at[p] = "marked"
      BY <2>2
    <3>2. /\ s.state[p] \in {"SLEEPING", "READY"}
          /\ \A i \in 1 .. Len(rq) : rq[i] # p
          /\ \A i \in 1 .. Len(sq) : sq[i] # p
      BY <1>1, <3>1 DEF Inside
    <3>3. ~(p = s.cur /\ Requeued(s)) /\ p # Idle
      BY <1>1, <1>5, <3>1, <3>2 DEF Inside
    <3>4. \A j \in 1 .. k : j \in 1 .. Len(sq)
      BY SMTT(30), <1>9
    <3>5. p # n
      <4>1. CASE Len(q) = 0
        BY <1>14, <3>3, <4>1
      <4>2. CASE Len(q) # 0
        <5>1. 1 \in 1 .. Len(q) /\ n = q[1]
          BY ONLY Zenon, <1>12, <4>2
        <5>2. \/ \E j \in 1 .. Len(rq) : n = rq[j]
              \/ \E j \in 1 .. k : n = sq[j]
              \/ Requeued(s) /\ n = s.cur
          BY ONLY Zenon, <1>10, <5>1
        <5> QED BY ONLY Zenon, <3>2, <3>3, <3>4, <5>2
      <4> QED BY <4>1, <4>2
    <3>6. \A i \in 1 .. Len(b) : b[i] # p
      BY <1>16, <3>2, <3>3, <3>4
    <3>7. \A i \in 1 .. Len(r) : r[i] # p
      BY ONLY Zenon, <1>17, <3>2
    <3> QED BY <1>18, <3>2, <3>3, <3>5, <3>6, <3>7
  <2>3. at2[Idle] = "user"
    <3>1. Idle \in Slots
      BY IdleInTable
    <3> QED BY <1>1, <3>1 DEF Inside
  <2>4. t.state[t.cur] = "RUNNING"
    BY <1>8, <1>18
  <2> QED BY <2>1, <2>2, <2>3, <2>4 DEF Inside
<1> QED BY <1>8, <1>19, <1>20 DEF Sound

LEMMA SwitchStates ==
  ASSUME ListFacts, SwitchIsFact, NEW s, NEW at, NEW rq, NEW sq, IsSch(s), Sound(s, at, rq, sq),
         NEW now \in Nat, NEW t, t = DoSwitch(s, now)
  PROVE  Switched(t, s)
<1>1. Queues(s, rq, sq) /\ Listed(s, rq, sq)
  BY DEF Sound
<1>2. s.cur \in Slots /\ s.state \in [Slots -> States]
  BY DEF IsSch
<1>3. PICK k \in 0 .. Len(sq) : SwitchResult(t, s, rq, sq, now, k)
  BY DEF SwitchIsFact
<1> DEFINE q == Candidates(s, rq, sq, k)
           n == Chosen(q)
<1>4. n \in Slots /\ SwitchedTo(t, s, sq, k, n)
  BY <1>3 DEF SwitchResult
<1>5. rq \in Seq(Slots) /\ sq \in Seq(Slots) /\ Len(sq) \in Nat
  BY SMTT(30), <1>1 DEF Queues, IsChain
<1>q. q = Candidates(s, rq, sq, k)
  OBVIOUS
<1> HIDE DEF q
<1>6. Gathers(q, s, rq, sq, k)
  BY ONLY Zenon, <1>2, <1>5, <1>q, k \in 0 .. Len(sq), CandidatesAre, ListFacts
<1>7. q \in Seq(Slots) /\ Len(q) \in Nat
  BY <1>6 DEF Gathers
<1>8. (Len(q) # 0 => 1 \in 1 .. Len(q) /\ n = q[1]) /\ (Len(q) = 0 => n = Idle)
  BY SMTT(30), <1>7 DEF Chosen
<1> HIDE DEF n
<1>9. \A i \in 1 .. k : i \in 1 .. Len(sq)
  BY SMTT(30), <1>5
<1>10. \A i \in 1 .. Len(sq) : s.state[sq[i]] \in {"READY", "SLEEPING"}
  BY <1>1 DEF Listed
<1>11. s.state[n] \in {"READY", "SLEEPING", "RUNNING"}
  <2>1. s.state[Idle] = "RUNNING" /\ \A i \in 1 .. Len(rq) : rq[i] = Idle \/ s.state[rq[i]] = "READY"
    BY <1>1 DEF Listed
  <2>2. \/ n = Idle
        \/ \E j \in 1 .. Len(rq) : n = rq[j]
        \/ \E j \in 1 .. k : n = sq[j]
        \/ Requeued(s) /\ n = s.cur
    <3>1. CASE Len(q) = 0
      BY <1>8, <3>1
    <3>2. CASE Len(q) # 0
      <4>1. 1 \in 1 .. Len(q) /\ n = q[1]
        BY ONLY Zenon, <1>8, <3>2
      <4>2. \A i \in 1 .. Len(q) : \/ \E j \in 1 .. Len(rq) : q[i] = rq[j]
                                   \/ \E j \in 1 .. k : q[i] = sq[j]
                                   \/ Requeued(s) /\ q[i] = s.cur
        BY ONLY Zenon, <1>6 DEF Gathers
      <4> QED BY ONLY Zenon, <4>1, <4>2
    <3> QED BY <3>1, <3>2
  <2> QED BY <1>9, <1>10, <2>1, <2>2 DEF Requeued
<1>12. ASSUME NEW p \in Slots, t.state[p] # s.state[p]
       PROVE  s.state[p] \in {"READY", "SLEEPING", "RUNNING"} /\ t.state[p] \in {"READY", "RUNNING"}
  BY SMTT(30), <1>4, <1>9, <1>10, <1>11, <1>12 DEF SwitchedTo, Requeued
<1>13. s.mmu = s.cr3[s.cur] => t.mmu = t.cr3[t.cur]
  BY SMTT(30), <1>4 DEF SwitchedTo
<1> QED BY <1>4, <1>12, <1>13 DEF SwitchedTo, Switched

LEMMA QueueFactsHold == ASSUME ListFacts, WakeChannelFact, SwitchIsFact PROVE QueueFacts
<1>1. FrameFact
  BY ONLY SMTT(30), ListFacts, FrameKeeps DEF FrameFact
<1>2. GrowFact
  BY ONLY SMTT(30), ListFacts, GrowKeeps DEF GrowFact
<1>3. InsertFact
  BY ONLY SMTT(30), ListFacts, InsertKeeps DEF InsertFact
<1>4. SwitchFact
  BY ONLY SMTT(30), ListFacts, SwitchIsFact, SwitchKeeps DEF SwitchFact
<1>5. SwitchStatesFact
  BY ONLY Zenon, ListFacts, SwitchIsFact, SwitchStates DEF SwitchStatesFact
<1> QED BY <1>1, <1>2, <1>3, <1>4, <1>5 DEF QueueFacts

-----------------------------------------------------------------------------
(* Every step keeps it.                                                    *)

\* The table stays sound, with the ready list rq.
KeptWith(rq) == IsSch(sch') /\ \E sq : Sound(sch', pc', rq, sq)

Kept == \E rq : KeptWith(rq)

\* The lists of the invariant are the ones the links lead along.
LEMMA Wrapped ==
  ASSUME QueueFacts, NEW s, NEW at, NEW rq, NEW sq, Sound(s, at, rq, sq)
  PROVE  Sound(s, at, ReadyChain(s), SleepChain(s))
<1>1. IsChain(s.next, s.head, rq) /\ IsChain(s.next, s.sleep, sq)
  BY DEF Sound, Queues
<1>2. ReadyChain(s) = rq /\ SleepChain(s) = sq
  BY ONLY Zenon, <1>1, QueueFacts DEF ReadyChain, SleepChain, QueueFacts, ListFacts, ChainIsFact
<1> QED BY <1>2

LEMMA Unlisted ==
  ASSUME NEW s, NEW at, NEW rq, NEW sq, Sound(s, at, rq, sq), NEW p \in Slots \ {Idle},
         s.state[p] \notin {"READY", "SLEEPING"}
  PROVE  /\ \A i \in 1 .. Len(rq) : rq[i] # p
         /\ \A i \in 1 .. Len(sq) : sq[i] # p
         /\ at[p] # "marked"
BY SMTT(30) DEF Sound, Listed, Inside

\* The process that executes, outside the stretches before a switch.
LEMMA Running ==
  ASSUME SInv, Me # Idle, pc[Me] \notin {"int80", "exiting", "marked"}
  PROVE  /\ Me \in Slots \ {Idle} /\ sch.state[Me] = "RUNNING"
         /\ \A i \in 1 .. Len(ReadyChain(sch)) : ReadyChain(sch)[i] # Me
         /\ \A i \in 1 .. Len(SleepChain(sch)) : SleepChain(sch)[i] # Me
<1>1. Me \in Slots
  BY DEF SInv, IsSch, Me
<1>2. sch.state[Me] = "RUNNING"
  BY DEF SInv, Sound, Inside, Me
<1> HIDE DEF Me
<1>3. Sound(sch, pc, ReadyChain(sch), SleepChain(sch))
  BY DEF SInv
<1>4. sch.state[Me] \notin {"READY", "SLEEPING"} /\ Me \in Slots \ {Idle}
  BY <1>1, <1>2
<1> QED BY ONLY SMTT(30), <1>2, <1>3, <1>4, Unlisted

-----------------------------------------------------------------------------
(* The interrupts.                                                         *)

LEMMA WakeIrqKeeps ==
  ASSUME QueueFacts, NEW s, NEW at, NEW rq, NEW sq, IsSch(s), Sound(s, at, rq, sq), NEW irq,
         NEW t, t = WakeIrq(s, irq)
  PROVE  IsSch(t) /\ Sound(t, at, rq, sq)
<1> DEFINE hit == {p \in Slots : s.state[p] \notin {"READY", "RUNNING"} /\ irq \in s.mask[p]}
<1>1. DOMAIN s = SchFields
  BY DEF IsSch
<1>2. t = [s EXCEPT
             !.pending = [p \in Slots |-> IF p \in hit THEN s.pending[p] \union {irq}
                                          ELSE s.pending[p]],
             !.state = [p \in Slots |-> IF p \in hit THEN "READY" ELSE s.state[p]],
             !.resched = s.resched \/ hit # {}]
  BY DEF WakeIrq
<1>3. /\ DOMAIN t = SchFields /\ t.pid = s.pid /\ t.next = s.next /\ t.until = s.until
      /\ t.chan = s.chan /\ t.ticks = s.ticks /\ t.kstack = s.kstack /\ t.cr3 = s.cr3
      /\ t.mask = s.mask /\ t.head = s.head /\ t.tail = s.tail /\ t.sleep = s.sleep
      /\ t.cur = s.cur /\ t.mmu = s.mmu
      /\ t.state = [p \in Slots |-> IF p \in hit THEN "READY" ELSE s.state[p]]
      /\ t.pending = [p \in Slots |-> IF p \in hit THEN s.pending[p] \union {irq} ELSE s.pending[p]]
      /\ t.resched = (s.resched \/ hit # {})
  BY SMTT(30), <1>1, <1>2 DEF SchFields
<1>4. IsSch(t)
  <2>1. t.pending \in [Slots -> SUBSET Irqs]
    BY SMTT(30), <1>3 DEF IsSch
  <2>2. t.state \in [Slots -> States] /\ t.resched \in BOOLEAN
    BY SMTT(30), <1>3 DEF IsSch, States
  <2> QED BY <1>3, <2>1, <2>2 DEF IsSch
<1>5. Queues(s, rq, sq) /\ Listed(s, rq, sq) /\ Inside(s, at, rq, sq)
  BY DEF Sound
<1>6. Queues(t, rq, sq)
  BY <1>3, <1>5 DEF Queues
<1>7. /\ \A i \in 1 .. Len(rq) : rq[i] \in Slots
      /\ \A i \in 1 .. Len(sq) : sq[i] \in Slots
  BY ONLY Zenon, <1>5, QueueFacts DEF Queues, QueueFacts, ListFacts, ChainTypeFact
<1>8. \A p \in Slots : \/ t.state[p] = s.state[p] /\ t.pending[p] = s.pending[p]
                       \/ /\ s.state[p] \notin {"READY", "RUNNING"}
                          /\ t.state[p] = "READY" /\ t.pending[p] # {}
  BY SMTT(30), <1>3
<1> HIDE DEF hit
<1>9. Idle \in Slots /\ s.cur \in Slots
  BY SMTT(30), ConstantsAssumption DEF Idle, Slots, IsSch
<1>10. Listed(t, rq, sq)
  <2>1. \A i \in 1 .. Len(rq) : rq[i] = Idle \/ t.state[rq[i]] = "READY"
    BY <1>5, <1>7, <1>8 DEF Listed
  <2>2. ASSUME NEW i \in 1 .. Len(sq)
        PROVE  /\ sq[i] # Idle
               /\ t.state[sq[i]] = "SLEEPING" \/ (t.state[sq[i]] = "READY" /\ t.pending[sq[i]] # {})
    BY SMTT(30), <1>5, <1>7, <1>8 DEF Listed
  <2>3. \A i, j \in 1 .. Len(sq) : i < j => t.until[sq[i]] <= t.until[sq[j]]
    BY <1>3, <1>5 DEF Listed
  <2>4. t.state[Idle] = "RUNNING" /\ t.pid[Idle] = 0
    BY <1>3, <1>5, <1>8, <1>9 DEF Listed
  <2>5. \A p \in Slots \ {Idle} :
          t.state[p] = "READY" /\ t.pending[p] = {} => \E i \in 1 .. Len(rq) : rq[i] = p
    BY <1>5, <1>8 DEF Listed
  <2> QED BY <2>1, <2>2, <2>3, <2>4, <2>5 DEF Listed
<1>11. Inside(t, at, rq, sq)
  <2>1. \A p \in Slots : t.state[p] = "SLEEPING" =>
          at[p] = "marked" \/ \E i \in 1 .. Len(sq) : sq[i] = p
    BY SMTT(30), <1>5, <1>8 DEF Inside
  <2>2. \A p \in Slots : at[p] = "marked" =>
          /\ t.state[p] \in {"SLEEPING", "READY"}
          /\ \A i \in 1 .. Len(rq) : rq[i] # p
          /\ \A i \in 1 .. Len(sq) : sq[i] # p
    BY <1>5, <1>8 DEF Inside
  <2>3. \/ t.state[t.cur] = "RUNNING"
        \/ t.cur # Idle /\ at[t.cur] \in {"int80", "exiting", "marked"}
    <3>1. CASE s.state[s.cur] = "RUNNING"
      <4>1. t.state[s.cur] = "RUNNING"
        BY ONLY Zenon, <1>8, <1>9, <3>1
      <4> QED BY <1>3, <4>1
    <3>2. CASE s.state[s.cur] # "RUNNING"
      BY <1>3, <1>5, <3>2 DEF Inside
    <3> QED BY <3>1, <3>2
  <2> QED BY <1>5, <2>1, <2>2, <2>3 DEF Inside
<1> QED BY <1>4, <1>6, <1>10, <1>11 DEF Sound

LEMMA TickKeeps ==
  ASSUME NEW s, NEW at, NEW rq, NEW sq, IsSch(s), Sound(s, at, rq, sq), NEW now,
         NEW t, t = Tick(s, now)
  PROVE  IsSch(t) /\ Sound(t, at, rq, sq)
<1>1. DOMAIN s = SchFields /\ s.ticks \in Nat /\ Slice \in Nat
  BY ConstantsAssumption DEF IsSch
<1> DEFINE left == IF s.ticks > 0 THEN s.ticks - 1 ELSE 0
           over == left = 0 /\ s.state[s.cur] = "RUNNING"
           due == \E p \in Range(SleepChain(s)) : s.until[p] <= now
<1>2. t = [s EXCEPT !.ticks = IF over THEN Slice ELSE left, !.resched = s.resched \/ over \/ due]
  BY DEF Tick
<1>3. left \in Nat
  BY SMTT(30), <1>1
<1> HIDE DEF left, over, due
<1>4. /\ DOMAIN t = SchFields /\ t.pid = s.pid /\ t.next = s.next /\ t.until = s.until
      /\ t.chan = s.chan /\ t.kstack = s.kstack /\ t.cr3 = s.cr3 /\ t.state = s.state
      /\ t.mask = s.mask /\ t.head = s.head /\ t.tail = s.tail /\ t.sleep = s.sleep
      /\ t.cur = s.cur /\ t.mmu = s.mmu /\ t.pending = s.pending
      /\ t.ticks = (IF over THEN Slice ELSE left) /\ t.resched = (s.resched \/ over \/ due)
  BY SMTT(30), <1>1, <1>2 DEF SchFields
<1>5. t.ticks \in Nat /\ t.resched \in BOOLEAN
  BY <1>1, <1>3, <1>4
<1>6. IsSch(t)
  BY <1>4, <1>5 DEF IsSch
<1>7. Sound(t, at, rq, sq)
  BY SMTT(30), <1>4 DEF Sound, Queues, Listed, Inside
<1> QED BY <1>6, <1>7

LEMMA IrqReturnKeeps ==
  ASSUME QueueFacts, NEW s, NEW at, NEW rq, NEW sq, IsSch(s), Sound(s, at, rq, sq), NEW now \in Nat,
         NEW t, t = IrqReturn(s, now)
  PROVE  IsSch(t) /\ \E rq2, sq2 : Sound(t, at, rq2, sq2)
<1>1. CASE s.resched
  <2>1. t = DoSwitch(s, now)
    BY <1>1 DEF IrqReturn
  <2>2. Resuming(at, s, at)
    BY DEF Resuming
  <2> QED BY ONLY SMTT(30), IsSch(s), Sound(s, at, rq, sq), now \in Nat, <2>1, <2>2, QueueFacts DEF
             QueueFacts, SwitchFact
<1>2. CASE ~s.resched
  BY <1>2 DEF IrqReturn
<1> QED BY <1>1, <1>2

LEMMA TimerIrqKeeps == ASSUME QueueFacts, SInv, TimerIrq PROVE Kept
<1> DEFINE now == (pit_ticks + 1) % TickMod
           rq == ReadyChain(sch)
           sq == SleepChain(sch)
           s1 == WakeIrq(sch, 0)
           s2 == Tick(s1, now)
<1>1. now \in Nat
  BY SMTT(30), ConstantsAssumption DEF SInv
<1>2. IsSch(sch) /\ Sound(sch, pc, rq, sq)
  BY DEF SInv
<1>3. sch' = IrqReturn(s2, now) /\ pc' = pc
  BY DEF TimerIrq
<1> HIDE DEF now, rq, sq
<1>4. IsSch(s1) /\ Sound(s1, pc, rq, sq)
  BY <1>2, WakeIrqKeeps
<1> HIDE DEF s1
<1>5. IsSch(s2) /\ Sound(s2, pc, rq, sq)
  BY <1>4, TickKeeps
<1> HIDE DEF s2
<1> QED BY <1>1, <1>3, <1>5, IrqReturnKeeps DEF Kept, KeptWith

LEMMA DeviceIrqKeeps == ASSUME QueueFacts, SInv, NEW i, DeviceIrq(i) PROVE Kept
<1> DEFINE rq == ReadyChain(sch)
           sq == SleepChain(sch)
           s1 == WakeIrq(sch, i)
<1>1. pit_ticks \in Nat
  BY DEF SInv
<1>2. IsSch(sch) /\ Sound(sch, pc, rq, sq)
  BY DEF SInv
<1>3. sch' = IrqReturn(s1, pit_ticks) /\ pc' = pc
  BY DEF DeviceIrq
<1> HIDE DEF rq, sq
<1>4. IsSch(s1) /\ Sound(s1, pc, rq, sq)
  BY <1>2, WakeIrqKeeps
<1> HIDE DEF s1
<1> QED BY <1>1, <1>3, <1>4, IrqReturnKeeps DEF Kept, KeptWith

-----------------------------------------------------------------------------
(* The operations that give up the processor.                              *)

LEMMA YieldKeeps == ASSUME QueueFacts, SInv, Yield PROVE Kept
<1>1. IsSch(sch) /\ Sound(sch, pc, ReadyChain(sch), SleepChain(sch)) /\ pit_ticks \in Nat
  BY DEF SInv
<1>2. sch' = DoSwitch(sch, pit_ticks) /\ pc' = pc
  BY DEF Yield
<1>3. Resuming(pc', sch, pc)
  BY <1>2 DEF Resuming
<1> QED BY ONLY SMTT(30), <1>1, <1>2, <1>3, QueueFacts DEF Kept, KeptWith, QueueFacts, SwitchFact
LEMMA Int80Keeps == ASSUME QueueFacts, SInv, Int80 PROVE Kept
<1>1. IsSch(sch) /\ Sound(sch, pc, ReadyChain(sch), SleepChain(sch)) /\ pit_ticks \in Nat
  BY DEF SInv
<1>2. /\ sch' = DoSwitch(sch, pit_ticks) /\ pc' = [pc EXCEPT ![sch.cur] = AfterInt80[pc[sch.cur]]]
      /\ pc[sch.cur] \in {"int80", "exiting", "yielding"}
  BY DEF Int80, AfterInt80, Me
<1>3. sch.cur \in Slots /\ pc \in [Slots -> PcType]
  BY DEF SInv, IsSch
<1>4. AfterInt80[pc[sch.cur]] \in {"user", "dead", "waiting"}
  BY SMTT(30), <1>2 DEF AfterInt80
<1>5. /\ \A p \in Slots \ {sch.cur} : pc'[p] = pc[p]
      /\ pc'[sch.cur] # "marked" /\ pc[sch.cur] # "marked" /\ pc[Idle] = "user"
  BY <1>1, <1>2, <1>3, <1>4 DEF Sound, Inside
<1>6. sch.cur # Idle
  BY <1>2, <1>5
<1>7. Resuming(pc', sch, pc)
  BY <1>5, <1>6 DEF Resuming
<1> QED BY ONLY SMTT(30), <1>1, <1>2, <1>7, QueueFacts DEF Kept, KeptWith, QueueFacts, SwitchFact
LEMMA MarkAsleepKeeps ==
  ASSUME QueueFacts, SInv, InUser, NEW n \in Nat, NEW at,
         at = [pc EXCEPT ![Me] = "marked"]
  PROVE  /\ IsSch(MarkAsleep(n)) /\ Sound(MarkAsleep(n), at, ReadyChain(sch), SleepChain(sch))
         /\ MarkAsleep(n).cur = sch.cur
<1> DEFINE t == MarkAsleep(n)
<1>1. Me # Idle /\ pc[Me] = "user" /\ pc \in [Slots -> PcType]
  BY DEF InUser, SInv
<1>2. /\ Me \in Slots \ {Idle} /\ sch.state[Me] = "RUNNING"
      /\ \A i \in 1 .. Len(ReadyChain(sch)) : ReadyChain(sch)[i] # Me
      /\ \A i \in 1 .. Len(SleepChain(sch)) : SleepChain(sch)[i] # Me
  BY <1>1, Running
<1>3. IsSch(sch) /\ DOMAIN sch = SchFields /\ Sound(sch, pc, ReadyChain(sch), SleepChain(sch))
  BY DEF SInv, IsSch
<1>4. (pit_ticks + n) % TickMod \in Nat
  BY SMTT(30), ConstantsAssumption DEF SInv
<1>5. /\ DOMAIN t = SchFields /\ t.pid = sch.pid /\ t.next = sch.next
      /\ t.chan = sch.chan /\ t.kstack = sch.kstack /\ t.cr3 = sch.cr3 /\ t.ticks = sch.ticks
      /\ t.mask = sch.mask /\ t.head = sch.head /\ t.tail = sch.tail /\ t.sleep = sch.sleep
      /\ t.cur = sch.cur /\ t.mmu = sch.mmu /\ t.pending = sch.pending /\ t.resched = sch.resched
      /\ t.state = [sch.state EXCEPT ![Me] = "SLEEPING"]
      /\ t.until = [sch.until EXCEPT ![Me] = (pit_ticks + n) % TickMod]
  BY <1>3 DEF MarkAsleep, SchFields
<1> HIDE DEF t
<1>6. /\ sch.state \in [Slots -> States] /\ sch.until \in [Slots -> Nat]
      /\ t.state \in [Slots -> States] /\ t.until \in [Slots -> Nat]
  BY ZenonT(60), <1>3, <1>4, <1>5 DEF IsSch, States
<1>7. IsSch(t)
  BY <1>3, <1>5, <1>6 DEF IsSch
<1>8. /\ t.state[Me] = "SLEEPING" /\ at[Me] = "marked" /\ Me = t.cur
      /\ \A p \in Slots \ {Me} : /\ t.state[p] = sch.state[p] /\ t.pending[p] = sch.pending[p]
                                 /\ t.until[p] = sch.until[p] /\ at[p] = pc[p]
  BY SMTT(30), <1>1, <1>2, <1>5, <1>6 DEF Me
<1>9. {Me} \in SUBSET (Slots \ {Idle})
  BY <1>2
<1>10. Sound(t, at, ReadyChain(sch), SleepChain(sch))
  <2>1. Framed(t, at, sch, pc, ReadyChain(sch), SleepChain(sch), {Me})
    BY SMTT(30), <1>2, <1>5, <1>8 DEF Framed
  <2> QED BY ONLY Zenon, <1>3, <1>9, <2>1, QueueFacts DEF QueueFacts, FrameFact
<1> QED BY <1>5, <1>7, <1>10 DEF t

LEMMA SleepKeeps == ASSUME QueueFacts, SInv, NEW n \in Nat, Sleep(n) PROVE KeptWith(ReadyChain(sch))
<1> DEFINE at0 == [pc EXCEPT ![Me] = "marked"]
           s == MarkAsleep(n)
<1>1. InUser /\ sch' = SleepInsert(s, Me) /\ pc' = [pc EXCEPT ![Me] = "int80"]
  BY DEF Sleep
<1>2. Me # Idle /\ Me \in Slots /\ pc \in [Slots -> PcType] /\ Me = sch.cur
  BY <1>1 DEF InUser, SInv, IsSch, Me
<1>3. /\ at0[Me] = "marked" /\ pc'[Me] = "int80"
      /\ \A p \in Slots \ {Me} : pc'[p] = at0[p]
  BY <1>1, <1>2
<1>4. IsSch(s) /\ Sound(s, at0, ReadyChain(sch), SleepChain(sch)) /\ s.cur = sch.cur
  BY <1>1, MarkAsleepKeeps
<1> HIDE DEF at0, s
<1>5. Me \in Slots \ {Idle} /\ Me = s.cur
  BY <1>2, <1>4
<1>6. Linking(pc', s, at0, Me)
  BY <1>3, <1>5 DEF Linking
<1> QED BY ONLY SMTT(30), <1>1, <1>4, <1>6, QueueFacts DEF KeptWith, QueueFacts, InsertFact
LEMMA SleepMarkKeeps == ASSUME QueueFacts, SInv, NEW n \in Nat, SleepMark(n) PROVE KeptWith(ReadyChain(sch))
<1>1. InUser /\ sch' = MarkAsleep(n) /\ pc' = [pc EXCEPT ![Me] = "marked"]
  BY DEF SleepMark
<1> QED BY <1>1, MarkAsleepKeeps DEF KeptWith

LEMMA SleepLinkKeeps == ASSUME QueueFacts, SInv, SleepLink PROVE KeptWith(ReadyChain(sch))
<1>1. pc[Me] = "marked" /\ sch' = SleepInsert(sch, Me) /\ pc' = [pc EXCEPT ![Me] = "int80"]
  BY DEF SleepLink
<1>2. IsSch(sch) /\ Sound(sch, pc, ReadyChain(sch), SleepChain(sch))
  BY DEF SInv
<1>3. Me \in Slots \ {Idle} /\ pc \in [Slots -> PcType] /\ Me = sch.cur
  BY <1>1, <1>2 DEF SInv, IsSch, Me, Sound, Inside
<1>4. pc'[Me] = "int80" /\ \A p \in Slots \ {Me} : pc'[p] = pc[p]
  BY <1>1, <1>3
<1>5. Linking(pc', sch, pc, Me)
  BY <1>1, <1>3, <1>4 DEF Linking
<1> QED BY ONLY SMTT(30), <1>1, <1>2, <1>5, QueueFacts DEF KeptWith, QueueFacts, InsertFact
-----------------------------------------------------------------------------
(* The operations that change the state or the place of a process that is  *)
(* on no list.                                                             *)

LEMMA BlockKeeps == ASSUME QueueFacts, SInv, NEW ch \in Channels, Block(ch) PROVE KeptWith(ReadyChain(sch))
<1>1. /\ InUser /\ sch' = [sch EXCEPT !.state[Me] = "BLOCKED", !.chan[Me] = ch]
      /\ pc' = [pc EXCEPT ![Me] = "int80"]
  BY DEF Block
<1>2. Me # Idle /\ pc[Me] = "user" /\ pc \in [Slots -> PcType] /\ Me = sch.cur
  BY <1>1 DEF InUser, SInv, Me
<1>3. /\ Me \in Slots \ {Idle} /\ sch.state[Me] = "RUNNING"
      /\ \A i \in 1 .. Len(ReadyChain(sch)) : ReadyChain(sch)[i] # Me
      /\ \A i \in 1 .. Len(SleepChain(sch)) : SleepChain(sch)[i] # Me
  BY <1>2, Running
<1>4. IsSch(sch) /\ DOMAIN sch = SchFields /\ Sound(sch, pc, ReadyChain(sch), SleepChain(sch))
  BY DEF SInv, IsSch
<1>5. /\ DOMAIN sch' = SchFields /\ sch'.pid = sch.pid /\ sch'.next = sch.next
      /\ sch'.kstack = sch.kstack /\ sch'.cr3 = sch.cr3 /\ sch'.ticks = sch.ticks
      /\ sch'.mask = sch.mask /\ sch'.head = sch.head /\ sch'.tail = sch.tail
      /\ sch'.sleep = sch.sleep /\ sch'.cur = sch.cur /\ sch'.mmu = sch.mmu
      /\ sch'.pending = sch.pending /\ sch'.resched = sch.resched /\ sch'.until = sch.until
      /\ sch'.state = [sch.state EXCEPT ![Me] = "BLOCKED"]
      /\ sch'.chan = [sch.chan EXCEPT ![Me] = ch]
  BY <1>1, <1>4 DEF SchFields
<1>6. IsSch(sch')
  <2>1. sch'.state \in [Slots -> States] /\ sch'.chan \in [Slots -> Channels \union {NULL}]
    <3>1. sch.state \in [Slots -> States] /\ sch.chan \in [Slots -> Channels \union {NULL}]
      BY <1>4 DEF IsSch
    <3>2. "BLOCKED" \in States /\ ch \in Channels \union {NULL}
      BY DEF States
    <3> QED BY ONLY Zenon, <1>5, <3>1, <3>2
  <2> QED BY <1>4, <1>5, <2>1 DEF IsSch
<1>7. Framed(sch', pc', sch, pc, ReadyChain(sch), SleepChain(sch), {Me})
  BY SMTT(30), <1>1, <1>2, <1>3, <1>4, <1>5 DEF Framed, IsSch
<1>8. {Me} \in SUBSET (Slots \ {Idle})
  BY <1>3
<1> QED BY ONLY Zenon, <1>4, <1>6, <1>7, <1>8, QueueFacts DEF KeptWith, QueueFacts, FrameFact
LEMMA ExitKeeps == ASSUME QueueFacts, SInv, Exit PROVE KeptWith(ReadyChain(sch))
<1>1. /\ InUser /\ sch' = [sch EXCEPT !.state[Me] = "ZOMBIE"]
      /\ pc' = [pc EXCEPT ![Me] = "exiting"]
  BY DEF Exit
<1>2. Me # Idle /\ pc[Me] = "user" /\ pc \in [Slots -> PcType] /\ Me = sch.cur
  BY <1>1 DEF InUser, SInv, Me
<1>3. /\ Me \in Slots \ {Idle} /\ sch.state[Me] = "RUNNING"
      /\ \A i \in 1 .. Len(ReadyChain(sch)) : ReadyChain(sch)[i] # Me
      /\ \A i \in 1 .. Len(SleepChain(sch)) : SleepChain(sch)[i] # Me
  BY <1>2, Running
<1>4. IsSch(sch) /\ DOMAIN sch = SchFields /\ Sound(sch, pc, ReadyChain(sch), SleepChain(sch))
  BY DEF SInv, IsSch
<1>5. /\ DOMAIN sch' = SchFields /\ sch'.state = [sch.state EXCEPT ![Me] = "ZOMBIE"]
      /\ \A f \in SchFields \ {"state"} : sch'[f] = sch[f]
  BY SMTT(30), <1>1, <1>4
<1>6. IsSch(sch')
  BY SMTT(30), <1>3, <1>4, <1>5 DEF IsSch, States, SchFields
<1>7. Framed(sch', pc', sch, pc, ReadyChain(sch), SleepChain(sch), {Me})
  BY SMTT(30), <1>1, <1>2, <1>3, <1>4, <1>5 DEF Framed, IsSch, SchFields
<1>8. {Me} \in SUBSET (Slots \ {Idle})
  BY <1>3
<1> QED BY ONLY Zenon, <1>4, <1>6, <1>7, <1>8, QueueFacts DEF KeptWith, QueueFacts, FrameFact
LEMMA ReapKeeps ==
  ASSUME QueueFacts, SInv, NEW id, pc[Me] \in {"user", "waiting"}, Me # Idle, WaitRound(id)
  PROVE  KeptWith(ReadyChain(sch))
<1>2. pc[Me] \notin {"int80", "exiting", "marked"} /\ pc \in [Slots -> PcType] /\ Me = sch.cur
  BY DEF SInv, Me
<1>3. /\ Me \in Slots \ {Idle} /\ sch.state[Me] = "RUNNING"
      /\ \A i \in 1 .. Len(ReadyChain(sch)) : ReadyChain(sch)[i] # Me
      /\ \A i \in 1 .. Len(SleepChain(sch)) : SleepChain(sch)[i] # Me
  BY <1>2, Running
<1>4. IsSch(sch) /\ DOMAIN sch = SchFields /\ Sound(sch, pc, ReadyChain(sch), SleepChain(sch))
  BY DEF SInv, IsSch
<1>5. CASE Zombies(id) = {}
  <2>1. sch' = [sch EXCEPT !.resched = TRUE] /\ pc' = [pc EXCEPT ![Me] = "yielding"]
    BY <1>5 DEF WaitRound
  <2>2. /\ DOMAIN sch' = SchFields /\ sch'.resched = TRUE
        /\ \A f \in SchFields \ {"resched"} : sch'[f] = sch[f]
    BY <1>4, <2>1 DEF SchFields
  <2>3. IsSch(sch')
    BY <1>4, <2>2 DEF IsSch, SchFields
  <2>4. Framed(sch', pc', sch, pc, ReadyChain(sch), SleepChain(sch), {Me})
    BY SMTT(30), <1>2, <1>3, <2>1, <2>2 DEF Framed, SchFields
  <2>5. {Me} \in SUBSET (Slots \ {Idle})
    BY <1>3
  <2> QED BY ONLY Zenon, <1>4, <2>3, <2>4, <2>5, QueueFacts DEF KeptWith, QueueFacts, FrameFact
<1>6. CASE Zombies(id) # {}
  <2> DEFINE z == Min(Zombies(id))
  <2>1. Zombies(id) \in SUBSET Nat
    BY SMTT(30), ConstantsAssumption DEF Zombies, Slots
  <2>2. z \in Zombies(id)
    BY <1>6, <2>1 DEF QueueFacts, ListFacts, MinFact
  <2>3. /\ sch' = [sch EXCEPT !.kstack[z] = NULL, !.cr3[z] = NULL, !.state[z] = "UNUSED"]
        /\ pc' = [pc EXCEPT ![Me] = "freeing"]
    BY <1>6 DEF WaitRound
  <2> HIDE DEF z
  <2>4. z \in Slots /\ sch.state[z] = "ZOMBIE"
    BY <2>2 DEF Zombies
  <2>5. z \in Slots \ {Idle} /\ z # Me
    BY <1>3, <1>4, <2>4 DEF Sound, Listed
  <2>6. /\ \A i \in 1 .. Len(ReadyChain(sch)) : ReadyChain(sch)[i] # z
        /\ \A i \in 1 .. Len(SleepChain(sch)) : SleepChain(sch)[i] # z
        /\ pc[z] # "marked"
    BY SMTT(30), <1>4, <2>4, <2>5, Unlisted
  <2>7. /\ DOMAIN sch' = SchFields /\ sch'.state = [sch.state EXCEPT ![z] = "UNUSED"]
        /\ sch'.kstack = [sch.kstack EXCEPT ![z] = NULL]
        /\ sch'.cr3 = [sch.cr3 EXCEPT ![z] = NULL]
        /\ \A f \in SchFields \ {"state", "kstack", "cr3"} : sch'[f] = sch[f]
    BY <1>4, <2>3 DEF SchFields
  <2>8. IsSch(sch')
    <3>1. /\ sch'.state \in [Slots -> States] /\ sch'.kstack \in [Slots -> Stacks \union {NULL}]
          /\ sch'.cr3 \in [Slots -> Spaces \union {KPML4, NULL}]
      <4>1. /\ sch.state \in [Slots -> States] /\ sch.kstack \in [Slots -> Stacks \union {NULL}]
            /\ sch.cr3 \in [Slots -> Spaces \union {KPML4, NULL}] /\ "UNUSED" \in States
        BY <1>4 DEF IsSch, States
      <4> QED BY ONLY SMTT(30), <2>4, <2>7, <4>1
    <3> QED BY <1>4, <2>7, <3>1 DEF IsSch, SchFields
  <2>9. Framed(sch', pc', sch, pc, ReadyChain(sch), SleepChain(sch), {Me, z})
    <3>1. /\ sch'.state[z] = "UNUSED" /\ sch'.state[Me] = "RUNNING"
          /\ \A p \in Slots \ {Me, z} : sch'.state[p] = sch.state[p]
      BY <1>3, <1>4, <2>4, <2>5, <2>7 DEF IsSch
    <3>2. pc'[Me] = "freeing" /\ pc'[z] = pc[z] /\ \A p \in Slots \ {Me, z} : pc'[p] = pc[p]
      BY <1>2, <1>3, <2>3, <2>5
    <3>3. /\ sch'.next = sch.next /\ sch'.head = sch.head /\ sch'.tail = sch.tail
          /\ sch'.sleep = sch.sleep /\ sch'.pid = sch.pid /\ sch'.pending = sch.pending
          /\ sch'.until = sch.until /\ sch'.cur = sch.cur
      BY <2>7 DEF SchFields
    <3> QED BY SMTT(30), <1>2, <1>3, <2>6, <3>1, <3>2, <3>3 DEF Framed
  <2>10. {Me, z} \in SUBSET (Slots \ {Idle})
    BY <1>3, <2>5
  <2> QED BY ONLY Zenon, <1>4, <2>8, <2>9, <2>10, QueueFacts DEF KeptWith, QueueFacts, FrameFact
<1> QED BY <1>5, <1>6

LEMMA FreeReapedKeeps == ASSUME QueueFacts, SInv, FreeReaped PROVE KeptWith(ReadyChain(sch))
<1>1. sch' = sch /\ pc' = [pc EXCEPT ![Me] = "user"] /\ pc[Me] = "freeing"
  BY DEF FreeReaped
<1>2. IsSch(sch) /\ Sound(sch, pc, ReadyChain(sch), SleepChain(sch)) /\ pc \in [Slots -> PcType]
  BY DEF SInv
<1>3. Me # Idle /\ Me = sch.cur
  BY <1>1, <1>2 DEF Sound, Inside, Me
<1>4. /\ Me \in Slots \ {Idle} /\ sch.state[Me] = "RUNNING"
      /\ \A i \in 1 .. Len(ReadyChain(sch)) : ReadyChain(sch)[i] # Me
      /\ \A i \in 1 .. Len(SleepChain(sch)) : SleepChain(sch)[i] # Me
  BY <1>1, <1>3, Running
<1>5. Framed(sch', pc', sch, pc, ReadyChain(sch), SleepChain(sch), {Me})
  BY <1>1, <1>2, <1>3, <1>4 DEF Framed
<1>6. {Me} \in SUBSET (Slots \ {Idle})
  BY <1>4
<1> QED BY ONLY Zenon, <1>1, <1>2, <1>5, <1>6, QueueFacts DEF KeptWith, QueueFacts, FrameFact
LEMMA KillKeeps ==
  ASSUME QueueFacts, SInv, KillStates \subseteq {"BLOCKED", "ZOMBIE"}, NEW id, Kill(id)
  PROVE  KeptWith(ReadyChain(sch))
<1> DEFINE z == Min(Named(id))
<1>1. Named(id) \in SUBSET Nat /\ Named(id) # {}
  BY SMTT(30), ConstantsAssumption DEF Named, Slots, Kill
<1>2. z \in Named(id)
  BY <1>1 DEF QueueFacts, ListFacts, MinFact
<1>3. /\ InUser /\ sch.state[z] \in {"BLOCKED", "ZOMBIE"}
      /\ sch' = [sch EXCEPT !.state[z] = "ZOMBIE"] /\ pc' = pc
  BY DEF Kill
<1> HIDE DEF z
<1>4. IsSch(sch) /\ DOMAIN sch = SchFields /\ Sound(sch, pc, ReadyChain(sch), SleepChain(sch))
  BY DEF SInv, IsSch
<1>5. z \in Slots \ {Idle}
  BY <1>2, <1>3, <1>4 DEF Named, Sound, Listed
<1>6. Me # Idle /\ pc[Me] = "user" /\ Me = sch.cur
  BY <1>3 DEF InUser, Me
<1>7. sch.state[Me] = "RUNNING" /\ Me \in Slots
  BY <1>6, Running
<1>8. /\ \A i \in 1 .. Len(ReadyChain(sch)) : ReadyChain(sch)[i] # z
      /\ \A i \in 1 .. Len(SleepChain(sch)) : SleepChain(sch)[i] # z
      /\ pc[z] # "marked"
  BY SMTT(30), <1>3, <1>4, <1>5, Unlisted
<1>9. /\ DOMAIN sch' = SchFields /\ sch'.state = [sch.state EXCEPT ![z] = "ZOMBIE"]
      /\ \A f \in SchFields \ {"state"} : sch'[f] = sch[f]
  BY <1>3, <1>4 DEF SchFields
<1>10. IsSch(sch')
  BY SMTT(30), <1>4, <1>5, <1>9 DEF IsSch, States, SchFields
<1>11. Framed(sch', pc', sch, pc, ReadyChain(sch), SleepChain(sch), {z})
  <2>1. /\ sch'.next = sch.next /\ sch'.head = sch.head /\ sch'.tail = sch.tail
        /\ sch'.sleep = sch.sleep /\ sch'.pid = sch.pid /\ sch'.pending = sch.pending
        /\ sch'.until = sch.until /\ sch'.cur = sch.cur
    BY <1>9 DEF SchFields
  <2>2. sch'.state[z] = "ZOMBIE" /\ \A p \in Slots \ {z} : sch'.state[p] = sch.state[p]
    BY <1>4, <1>5, <1>9 DEF IsSch
  <2>3. Me # z
    BY <1>3, <1>7
  <2> QED BY SMTT(30), <1>3, <1>6, <1>7, <1>8, <2>1, <2>2, <2>3 DEF Framed
<1>12. {z} \in SUBSET (Slots \ {Idle})
  BY <1>5
<1> QED BY ONLY Zenon, <1>4, <1>10, <1>11, <1>12, QueueFacts DEF KeptWith, QueueFacts, FrameFact
LEMMA AllocFromType ==
  ASSUME QueueFacts, NEW S \in SUBSET Nat PROVE AllocFrom(S) \in S \union {NULL}
BY DEF AllocFrom, QueueFacts, ListFacts, MinFact
LEMMA ExecKeeps == ASSUME QueueFacts, SInv, Exec PROVE KeptWith(ReadyChain(sch))
<1> DEFINE space == AllocFrom(Spaces \ heap)
<1>1. /\ InUser /\ space # NULL /\ sch' = [sch EXCEPT !.cr3[Me] = space, !.mmu = space]
      /\ pc' = pc
  BY DEF Exec
<1>2. space \in Spaces
  <2>1. (Spaces \ heap) \in SUBSET Nat
    BY SMTT(30), ConstantsAssumption DEF Spaces
  <2> QED BY <1>1, <2>1, AllocFromType
<1> HIDE DEF space
<1>3. Me # Idle /\ pc[Me] = "user" /\ Me = sch.cur
  BY <1>1 DEF InUser, Me
<1>4. Me \in Slots \ {Idle} /\ sch.state[Me] = "RUNNING"
  BY <1>3, Running
<1>5. IsSch(sch) /\ DOMAIN sch = SchFields /\ Sound(sch, pc, ReadyChain(sch), SleepChain(sch))
  BY DEF SInv, IsSch
<1>6. /\ DOMAIN sch' = SchFields /\ sch'.cr3 = [sch.cr3 EXCEPT ![Me] = space]
      /\ sch'.mmu = space /\ \A f \in SchFields \ {"cr3", "mmu"} : sch'[f] = sch[f]
  BY <1>1, <1>5 DEF SchFields
<1>7. IsSch(sch')
  <2>1. sch'.cr3 \in [Slots -> Spaces \union {KPML4, NULL}]
    BY ZenonT(60), <1>2, <1>5, <1>6 DEF IsSch
  <2> QED BY <1>2, <1>5, <1>6, <2>1 DEF IsSch, SchFields
<1>8. Framed(sch', pc', sch, pc, ReadyChain(sch), SleepChain(sch), {})
  BY <1>1, <1>3, <1>4, <1>6 DEF Framed, SchFields
<1>9. {} \in SUBSET (Slots \ {Idle})
  OBVIOUS
<1> QED BY ONLY Zenon, <1>5, <1>7, <1>8, <1>9, QueueFacts DEF KeptWith, QueueFacts, FrameFact
LEMMA IrqRegisterKeeps ==
  ASSUME QueueFacts, SInv, NEW i \in Irqs, IrqRegister(i) PROVE KeptWith(ReadyChain(sch))
<1>1. InUser /\ sch' = [sch EXCEPT !.mask[Me] = sch.mask[Me] \union {i}] /\ pc' = pc
  BY DEF IrqRegister
<1>2. Me # Idle /\ pc[Me] = "user" /\ Me = sch.cur
  BY <1>1 DEF InUser, Me
<1>3. Me \in Slots \ {Idle} /\ sch.state[Me] = "RUNNING"
  BY <1>2, Running
<1>4. IsSch(sch) /\ DOMAIN sch = SchFields /\ Sound(sch, pc, ReadyChain(sch), SleepChain(sch))
  BY DEF SInv, IsSch
<1>5. /\ DOMAIN sch' = SchFields /\ sch'.mask = [sch.mask EXCEPT ![Me] = sch.mask[Me] \union {i}]
      /\ \A f \in SchFields \ {"mask"} : sch'[f] = sch[f]
  BY <1>1, <1>4 DEF SchFields
<1>6. IsSch(sch')
  <2>1. sch.mask \in [Slots -> SUBSET Irqs]
    BY <1>4 DEF IsSch
  <2>2. sch'.mask \in [Slots -> SUBSET Irqs]
    BY SMTT(30), <1>3, <1>5, <2>1
  <2> QED BY <1>4, <1>5, <2>2 DEF IsSch, SchFields
<1>7. Framed(sch', pc', sch, pc, ReadyChain(sch), SleepChain(sch), {})
  BY <1>1, <1>2, <1>3, <1>5 DEF Framed, SchFields
<1>8. {} \in SUBSET (Slots \ {Idle})
  OBVIOUS
<1> QED BY ONLY Zenon, <1>4, <1>6, <1>7, <1>8, QueueFacts DEF KeptWith, QueueFacts, FrameFact
LEMMA IrqWaitKeeps ==
  ASSUME QueueFacts, SInv, NEW i, pc[Me] \in {"user", "irqwait"}, Me # Idle, IrqWaitRound(i)
  PROVE  Kept
<1>1. pc[Me] \notin {"int80", "exiting", "marked"} /\ pc \in [Slots -> PcType] /\ Me = sch.cur
  BY DEF SInv, Me
<1>2. /\ Me \in Slots \ {Idle} /\ sch.state[Me] = "RUNNING"
      /\ \A j \in 1 .. Len(ReadyChain(sch)) : ReadyChain(sch)[j] # Me
      /\ \A j \in 1 .. Len(SleepChain(sch)) : SleepChain(sch)[j] # Me
  BY <1>1, Running
<1>3. /\ IsSch(sch) /\ DOMAIN sch = SchFields
      /\ Sound(sch, pc, ReadyChain(sch), SleepChain(sch)) /\ pit_ticks \in Nat
  BY DEF SInv, IsSch
<1>4. CASE i \in sch.pending[Me]
  <2>1. /\ sch' = [sch EXCEPT !.pending[Me] = sch.pending[Me] \ {i}]
        /\ pc' = [pc EXCEPT ![Me] = "user"]
    BY <1>4 DEF IrqWaitRound
  <2>2. /\ DOMAIN sch' = SchFields
        /\ sch'.pending = [sch.pending EXCEPT ![Me] = sch.pending[Me] \ {i}]
        /\ \A f \in SchFields \ {"pending"} : sch'[f] = sch[f]
    BY <1>3, <2>1 DEF SchFields
  <2>3. sch.pending \in [Slots -> SUBSET Irqs]
    BY <1>3 DEF IsSch
  <2>4. IsSch(sch')
    <3>1. sch'.pending \in [Slots -> SUBSET Irqs]
      BY <1>2, <2>2, <2>3
    <3> QED BY <1>3, <2>2, <3>1 DEF IsSch, SchFields
  <2>5. Framed(sch', pc', sch, pc, ReadyChain(sch), SleepChain(sch), {Me})
    <3>1. /\ sch'.next = sch.next /\ sch'.head = sch.head /\ sch'.tail = sch.tail
          /\ sch'.sleep = sch.sleep /\ sch'.pid = sch.pid /\ sch'.state = sch.state
          /\ sch'.until = sch.until /\ sch'.cur = sch.cur
      BY <2>2 DEF SchFields
    <3>2. pc'[Me] = "user" /\ \A p \in Slots \ {Me} : pc'[p] = pc[p]
      BY <1>1, <1>2, <2>1
    <3>3. \A p \in Slots \ {Me} : sch'.pending[p] = sch.pending[p]
      BY <1>2, <2>2, <2>3
    <3> QED BY SMTT(30), <1>1, <1>2, <3>1, <3>2, <3>3 DEF Framed
  <2>6. {Me} \in SUBSET (Slots \ {Idle})
    BY <1>2
  <2> QED BY ONLY Zenon, <1>3, <2>4, <2>5, <2>6, QueueFacts DEF Kept, KeptWith, QueueFacts, FrameFact
<1>5. CASE i \notin sch.pending[Me]
  <2>1. sch' = DoSwitch(sch, pit_ticks) /\ pc' = [pc EXCEPT ![Me] = "irqwait"]
    BY <1>5 DEF IrqWaitRound
  <2>2. Resuming(pc', sch, pc)
    BY <1>1, <1>2, <2>1 DEF Resuming
  <2> QED BY ONLY SMTT(30), <1>3, <2>1, <2>2, QueueFacts DEF Kept, KeptWith, QueueFacts, SwitchFact
<1> QED BY <1>4, <1>5

LEMMA WakeupUnblocks ==
  ASSUME QueueFacts, SInv, NEW ch, Wakeup(ch)
  PROVE  ChannelStage(sch', sch, ReadyChain(sch), SleepChain(sch), Waiting(sch, ch))
<1> DEFINE rq == ReadyChain(sch)
           sq == SleepChain(sch)
           W == Waiting(sch, ch)
<1>1. sch' = WakeChannel(sch, ch)
  BY DEF Wakeup
<1>2. IsSch(sch) /\ Sound(sch, pc, rq, sq) /\ Queues(sch, rq, sq) /\ sch.state[Idle] = "RUNNING"
  BY DEF SInv, Sound, Listed
<1>3. \A p \in W : p \in Slots \ {Idle} /\ sch.state[p] \notin {"READY", "SLEEPING"}
  BY <1>2 DEF Waiting
<1> HIDE DEF rq, sq
<1>4. \A p \in W : /\ \A i \in 1 .. Len(rq) : rq[i] # p
                   /\ \A i \in 1 .. Len(sq) : sq[i] # p
  <2> SUFFICES ASSUME NEW p \in W
               PROVE  /\ \A i \in 1 .. Len(rq) : rq[i] # p
                      /\ \A i \in 1 .. Len(sq) : sq[i] # p
    OBVIOUS
  <2>1. p \in Slots \ {Idle} /\ sch.state[p] \notin {"READY", "SLEEPING"}
    BY <1>3
  <2> QED BY ONLY SMTT(30), <1>2, <2>1, Unlisted
<1>5. ChannelStage(sch', sch, rq, sq, W)
  BY <1>1, <1>2, <1>4 DEF QueueFacts, WakeChannelFact
<1> QED BY <1>5 DEF rq, sq

LEMMA WakeupKeeps == ASSUME QueueFacts, SInv, NEW ch, Wakeup(ch) PROVE Kept
<1> DEFINE rq == ReadyChain(sch)
           sq == SleepChain(sch)
           W == Waiting(sch, ch)
<1>1. InUser /\ pc' = pc
  BY DEF Wakeup
<1>2. Me # Idle /\ pc[Me] = "user" /\ Me = sch.cur
  BY <1>1 DEF InUser, Me
<1>3. Me \in Slots \ {Idle} /\ sch.state[Me] = "RUNNING"
  BY <1>2, Running
<1>4. IsSch(sch) /\ Sound(sch, pc, rq, sq) /\ Queues(sch, rq, sq) /\ sch.state[Idle] = "RUNNING"
  BY DEF SInv, Sound, Listed
<1> HIDE DEF rq, sq
<1>5. W \in SUBSET (Slots \ {Idle}) /\ Me \notin W /\ \A p \in W : sch.state[p] = "BLOCKED"
  BY <1>3, <1>4 DEF Waiting
<1>6. \A p \in W : /\ \A i \in 1 .. Len(rq) : rq[i] # p
                   /\ \A i \in 1 .. Len(sq) : sq[i] # p
                   /\ pc[p] # "marked"
  <2> SUFFICES ASSUME NEW p \in W
               PROVE  /\ \A i \in 1 .. Len(rq) : rq[i] # p
                      /\ \A i \in 1 .. Len(sq) : sq[i] # p
                      /\ pc[p] # "marked"
    OBVIOUS
  <2>1. p \in Slots \ {Idle} /\ sch.state[p] \notin {"READY", "SLEEPING"}
    BY <1>5
  <2> QED BY ONLY Zenon, <1>4, <2>1, Unlisted
<1>7. ChannelStage(sch', sch, rq, sq, W)
  BY WakeupUnblocks DEF rq, sq
<1>8. PICK rq2 : Queues(sch', rq2, sq) /\ Grown(rq2, rq, W)
  BY <1>7 DEF ChannelStage
<1>9. IsSch(sch') /\ Unblocked(sch', sch, W)
  BY <1>7 DEF ChannelStage
<1> HIDE DEF W
<1>10. Readied(sch', pc', sch, pc, W)
  BY SMTT(30), <1>1, <1>2, <1>3, <1>5, <1>6, <1>9 DEF Readied, Unblocked
<1>11. Sound(sch', pc', rq2, sq)
  BY ONLY Zenon, <1>4, <1>5, <1>8, <1>10, QueueFacts DEF QueueFacts, GrowFact
<1> QED BY <1>9, <1>11 DEF Kept, KeptWith

-----------------------------------------------------------------------------
(* The creation of processes.                                              *)

\* The links of a process that is on no list do not matter.
LEMMA CutKeeps ==
  ASSUME QueueFacts, NEW s, NEW at, NEW rq, NEW sq, IsSch(s), Sound(s, at, rq, sq), NEW p \in Slots,
         \A i \in 1 .. Len(rq) : rq[i] # p, \A i \in 1 .. Len(sq) : sq[i] # p,
         NEW t, t = [s EXCEPT !.next = [s.next EXCEPT ![p] = NULL]]
  PROVE  IsSch(t) /\ Sound(t, at, rq, sq)
<1>1. DOMAIN s = SchFields /\ s.next \in [Slots -> Slots \union {NULL}]
  BY DEF IsSch
<1>2. /\ DOMAIN t = SchFields /\ t.next = [s.next EXCEPT ![p] = NULL]
      /\ \A f \in SchFields \ {"next"} : t[f] = s[f]
  BY <1>1 DEF SchFields
<1>3. IsSch(t)
  BY <1>1, <1>2 DEF IsSch, SchFields
<1>4. Queues(s, rq, sq) /\ Listed(s, rq, sq) /\ Inside(s, at, rq, sq)
  BY DEF Sound
<1>5. IsChain(s.next, s.head, rq) /\ IsChain(s.next, s.sleep, sq)
  BY <1>4 DEF Queues
<1>6. /\ \A i \in 1 .. Len(rq) : t.next[rq[i]] = s.next[rq[i]]
      /\ \A i \in 1 .. Len(sq) : t.next[sq[i]] = s.next[sq[i]]
  <2>1. /\ \A i \in 1 .. Len(rq) : rq[i] \in Slots
        /\ \A i \in 1 .. Len(sq) : sq[i] \in Slots
    BY ONLY Zenon, <1>5, QueueFacts DEF QueueFacts, ListFacts, ChainTypeFact
  <2> QED BY SMTT(30), <1>1, <1>2, <2>1
<1>7. IsChain(t.next, s.head, rq) /\ IsChain(t.next, s.sleep, sq)
  BY ONLY Zenon, <1>5, <1>6, QueueFacts DEF QueueFacts, ListFacts, ChainFrameFact
<1>8. t.head = s.head /\ t.sleep = s.sleep /\ t.tail = s.tail
  BY <1>2 DEF SchFields
<1>9. Queues(t, rq, sq)
  BY <1>4, <1>7, <1>8 DEF Queues
<1>10. Listed(t, rq, sq) /\ Inside(t, at, rq, sq)
  BY SMTT(30), <1>2, <1>4 DEF Listed, Inside, SchFields
<1> QED BY <1>3, <1>9, <1>10 DEF Sound

\* What Fresh writes into the slot p, and that nothing else changes.
Initialised(t, s, p, state, stack, space) ==
  /\ DOMAIN t = SchFields
  /\ t.state = [s.state EXCEPT ![p] = state] /\ t.pid = [s.pid EXCEPT ![p] = next_pid]
  /\ t.kstack = [s.kstack EXCEPT ![p] = stack] /\ t.cr3 = [s.cr3 EXCEPT ![p] = space]
  /\ t.next = [s.next EXCEPT ![p] = NULL] /\ t.until = [s.until EXCEPT ![p] = 0]
  /\ t.chan = [s.chan EXCEPT ![p] = NULL] /\ t.mask = [s.mask EXCEPT ![p] = {}]
  /\ t.pending = [s.pending EXCEPT ![p] = {}]
  /\ t.ticks = s.ticks /\ t.head = s.head /\ t.tail = s.tail /\ t.sleep = s.sleep
  /\ t.cur = s.cur /\ t.resched = s.resched /\ t.mmu = s.mmu

LEMMA FreshIs ==
  ASSUME NEW s, IsSch(s), NEW p \in Slots, NEW state \in States, next_pid \in Nat,
         NEW stack \in Stacks \union {NULL}, NEW space \in Spaces \union {KPML4, NULL},
         NEW t, t = Fresh(s, p, state, stack, space)
  PROVE  IsSch(t) /\ Initialised(t, s, p, state, stack, space)
<1>1. DOMAIN s = SchFields
  BY DEF IsSch
<1>2. Initialised(t, s, p, state, stack, space)
  BY ZenonT(60), <1>1 DEF Initialised, Fresh, SchFields
<1>3. /\ t.state \in [Slots -> States] /\ t.pid \in [Slots -> Nat]
      /\ t.kstack \in [Slots -> Stacks \union {NULL}]
      /\ t.cr3 \in [Slots -> Spaces \union {KPML4, NULL}]
  BY SMTT(30), <1>2 DEF IsSch, Initialised
<1>4. /\ t.next \in [Slots -> Slots \union {NULL}] /\ t.until \in [Slots -> Nat]
      /\ t.chan \in [Slots -> Channels \union {NULL}]
      /\ t.mask \in [Slots -> SUBSET Irqs] /\ t.pending \in [Slots -> SUBSET Irqs]
  BY SMTT(30), <1>2 DEF IsSch, Initialised
<1>5. IsSch(t)
  BY <1>2, <1>3, <1>4 DEF IsSch, Initialised
<1> QED BY <1>2, <1>5

\* The same, slot by slot.
Entered(t, s, p, state, stack, space) ==
  /\ t.state[p] = state /\ t.pid[p] = next_pid /\ t.kstack[p] = stack /\ t.cr3[p] = space
  /\ \A r \in Slots \ {p} : /\ t.state[r] = s.state[r] /\ t.pid[r] = s.pid[r]
                            /\ t.kstack[r] = s.kstack[r] /\ t.cr3[r] = s.cr3[r]
                            /\ t.pending[r] = s.pending[r] /\ t.until[r] = s.until[r]
  /\ t.next = [s.next EXCEPT ![p] = NULL] /\ t.head = s.head /\ t.tail = s.tail
  /\ t.sleep = s.sleep /\ t.cur = s.cur /\ t.mmu = s.mmu

LEMMA EnteredIs ==
  ASSUME NEW s, IsSch(s), NEW p \in Slots, NEW state, NEW stack, NEW space, NEW t,
         Initialised(t, s, p, state, stack, space)
  PROVE  Entered(t, s, p, state, stack, space)
<1>1. /\ DOMAIN s.state = Slots /\ DOMAIN s.pid = Slots /\ DOMAIN s.kstack = Slots
      /\ DOMAIN s.cr3 = Slots /\ DOMAIN s.pending = Slots /\ DOMAIN s.until = Slots
  BY DEF IsSch
<1> QED BY SMTT(30), <1>1 DEF Entered, Initialised

\* The table has the new process p, behind all others; or no trace of it.
Created(p) ==
  /\ sch.state[p] = "UNUSED" /\ sch'.state = [sch.state EXCEPT ![p] = "READY"]
  /\ sch'.cur = sch.cur /\ KeptWith(Append(ReadyChain(sch), p))

NotCreated ==
  sch'.state = sch.state /\ sch'.cur = sch.cur /\ KeptWith(ReadyChain(sch))

LEMMA SpawnKeeps ==
  ASSUME QueueFacts, SInv, sch.state[Me] = "RUNNING", NEW shared, Spawn(shared)
  PROVE  NotCreated \/ \E p \in Slots : Created(p)
<1> DEFINE unused == {p \in Slots : sch.state[p] = "UNUSED"}
           p == Min(unused)
           space == IF shared THEN sch.cr3[Me] ELSE AllocFrom(Spaces \ heap)
           stack == IF space = NULL THEN NULL ELSE AllocFrom(Stacks \ heap)
           rq == ReadyChain(sch)
           sq == SleepChain(sch)
<1>1. /\ IsSch(sch) /\ Sound(sch, pc, rq, sq) /\ next_pid \in Nat /\ pc \in [Slots -> PcType]
      /\ sch.state[Idle] = "RUNNING" /\ Me = sch.cur /\ Me \in Slots
  BY DEF SInv, IsSch, Me, Sound, Listed
<1>2. /\ unused # {} /\ pc' = [pc EXCEPT ![p] = "user"]
      /\ IF stack = NULL THEN sch' = Fresh(sch, p, "UNUSED", NULL, space)
         ELSE sch' = Enqueue(Fresh(sch, p, "READY", stack, space), p)
  BY DEF Spawn
<1>3. unused \in SUBSET Nat
  BY SMTT(30), ConstantsAssumption DEF Slots
<1>4. p \in unused
  BY <1>2, <1>3 DEF QueueFacts, ListFacts, MinFact
<1>5. p \in Slots \ {Idle} /\ sch.state[p] = "UNUSED" /\ p # Me
  BY <1>1, <1>4
<1>0. sch.state[sch.cur] = "RUNNING" /\ sch.cur \in Slots \ {p}
  BY <1>1, <1>5
<1>6. space \in Spaces \union {KPML4, NULL} /\ stack \in Stacks \union {NULL}
  <2>1. (Spaces \ heap) \in SUBSET Nat /\ (Stacks \ heap) \in SUBSET Nat
    BY SMTT(30), ConstantsAssumption DEF Spaces, Stacks
  <2>2. /\ AllocFrom(Spaces \ heap) \in Spaces \union {NULL}
        /\ AllocFrom(Stacks \ heap) \in Stacks \union {NULL}
    BY <2>1, AllocFromType
  <2>3. sch.cr3[Me] \in Spaces \union {KPML4, NULL}
    BY <1>1 DEF IsSch
  <2> QED BY <2>2, <2>3
<1> HIDE DEF unused, p, space, stack, rq, sq
<1>7. sch.state[p] \notin {"READY", "SLEEPING"}
  BY <1>5
<1>8. /\ \A i \in 1 .. Len(rq) : rq[i] # p
      /\ \A i \in 1 .. Len(sq) : sq[i] # p
  BY ONLY SMTT(30), <1>1, <1>5, <1>7, Unlisted
<1> DEFINE cut == [sch EXCEPT !.next = [sch.next EXCEPT ![p] = NULL]]
<1>9. IsSch(cut) /\ Sound(cut, pc, rq, sq)
  BY ONLY Zenon, <1>1, <1>5, <1>8, CutKeeps, QueueFacts
<1>10. /\ cut.next = [sch.next EXCEPT ![p] = NULL]
       /\ \A f \in SchFields \ {"next"} : cut[f] = sch[f]
  BY ONLY Zenon, <1>1 DEF IsSch, SchFields, cut
<1> HIDE DEF cut
<1>11. {p} \in SUBSET (Slots \ {Idle}) /\ Idle \in Slots /\ p \in Slots
  BY SMTT(30), <1>5, ConstantsAssumption DEF Idle, Slots
<1>12. pc'[p] = "user" /\ \A r \in Slots \ {p} : pc'[r] = pc[r]
  BY <1>1, <1>2, <1>11
<1>13. CASE stack = NULL
  <2>1. /\ sch' = Fresh(sch, p, "UNUSED", NULL, space) /\ "UNUSED" \in States
        /\ NULL \in Stacks \union {NULL}
    BY <1>2, <1>13 DEF States
  <2>2. IsSch(sch') /\ Initialised(sch', sch, p, "UNUSED", NULL, space)
    BY ONLY ZenonT(60), <1>1, <1>6, <1>11, <2>1, FreshIs
  <2>3. Entered(sch', sch, p, "UNUSED", NULL, space)
    BY ONLY Zenon, <1>1, <1>11, <2>2, EnteredIs
  <2>4. Framed(sch', pc', cut, pc, rq, sq, {p})
    <3>1. /\ sch'.next = cut.next /\ sch'.head = cut.head /\ sch'.tail = cut.tail
          /\ sch'.sleep = cut.sleep /\ sch'.pid[Idle] = cut.pid[Idle]
      BY ONLY SMTT(30), <1>5, <1>10, <1>11, <2>3 DEF Entered, SchFields
    <3>2. sch'.state[p] = "UNUSED"
      BY ONLY Zenon, <2>3 DEF Entered
    <3>3. \A r \in Slots \ {p} : /\ sch'.state[r] = cut.state[r] /\ sch'.pending[r] = cut.pending[r]
                                 /\ sch'.until[r] = cut.until[r]
      BY ONLY SMTT(30), <1>10, <2>3 DEF Entered, SchFields
    <3>4. sch'.state[sch'.cur] = "RUNNING"
      BY ONLY SMTT(30), <1>0, <1>5, <2>3 DEF Entered
    <3> QED BY ONLY Zenon, <1>8, <1>12, <3>1, <3>2, <3>3, <3>4 DEF Framed
  <2>5. Sound(sch', pc', rq, sq)
    BY ONLY Zenon, <1>9, <1>11, <2>2, <2>4, QueueFacts DEF QueueFacts, FrameFact
  <2>6. sch'.state = sch.state /\ sch'.cur = sch.cur
    <3>1. sch'.state \in [Slots -> States] /\ sch.state \in [Slots -> States]
      BY ONLY Zenon, <1>1, <2>2 DEF IsSch
    <3> QED BY ONLY SMTT(30), <1>5, <2>3, <3>1 DEF Entered
  <2> QED BY <2>2, <2>5, <2>6 DEF NotCreated, KeptWith, rq
<1>14. CASE stack # NULL
  <2> DEFINE fr == Fresh(sch, p, "READY", stack, space)
  <2>1. sch' = Enqueue(fr, p) /\ "READY" \in States
    BY <1>2, <1>14 DEF States
  <2>2. IsSch(fr) /\ Initialised(fr, sch, p, "READY", stack, space)
    BY ONLY Zenon, <1>1, <1>6, <1>11, <2>1, FreshIs
  <2> HIDE DEF fr
  <2>0. Entered(fr, sch, p, "READY", stack, space)
    BY ONLY Zenon, <1>1, <1>11, <2>2, EnteredIs
  <2>3. fr.state[p] = "READY"
    BY ONLY Zenon, <2>0 DEF Entered
  <2>4. Queues(fr, rq, sq)
    <3>1. Queues(cut, rq, sq)
      BY <1>9 DEF Sound
    <3>2. fr.next = cut.next /\ fr.head = cut.head /\ fr.tail = cut.tail /\ fr.sleep = cut.sleep
      BY ONLY Zenon, <1>10, <2>0 DEF Entered, SchFields
    <3> QED BY ONLY Zenon, <3>1, <3>2 DEF Queues
  <2>5. /\ IsSch(sch') /\ SameProcesses(sch', fr) /\ Queues(sch', Append(rq, p), sq)
    BY ONLY Zenon, <1>8, <1>11, <2>1, <2>2, <2>3, <2>4, QueueFacts DEF QueueFacts, ListFacts,
       EnqueueFact
  <2>6. rq \in Seq(Slots)
    BY <1>1 DEF Sound, Queues, IsChain
  <2>7. Grown(Append(rq, p), rq, {p})
    BY SMTT(30), <1>11, <2>6 DEF Grown
  <2>8. Readied(sch', pc', sch, pc, {p})
    <3>1. sch'.state = fr.state /\ sch'.pid = fr.pid /\ sch'.cur = fr.cur /\ sch'.pending = fr.pending
          /\ sch'.until = fr.until
      BY ONLY Zenon, <2>5 DEF SameProcesses, SameRest
    <3>2. /\ fr.pid[Idle] = sch.pid[Idle] /\ fr.cur = sch.cur
          /\ \A r \in Slots \ {p} : /\ fr.state[r] = sch.state[r] /\ fr.pending[r] = sch.pending[r]
                                    /\ fr.until[r] = sch.until[r]
      BY ONLY Zenon, <1>5, <1>11, <2>0 DEF Entered
    <3> QED BY ONLY SMTT(30), <1>0, <1>5, <1>11, <1>12, <2>3, <3>1, <3>2 DEF Readied
  <2>9. Sound(sch', pc', Append(rq, p), sq)
    BY ONLY Zenon, <1>1, <1>11, <2>5, <2>7, <2>8, QueueFacts DEF QueueFacts, GrowFact
  <2>10. sch'.state = [sch.state EXCEPT ![p] = "READY"] /\ sch'.cur = sch.cur
    BY ONLY Zenon, <2>2, <2>5 DEF Initialised, SameProcesses, SameRest
  <2>11. Created(p)
    BY <1>5, <2>5, <2>9, <2>10 DEF Created, KeptWith, rq
  <2> QED BY <1>11, <2>11
<1> QED BY <1>13, <1>14

-----------------------------------------------------------------------------
(* The invariant.                                                          *)

LEMMA SInvInit == ASSUME QueueFacts PROVE Init => SInv
<1> SUFFICES ASSUME Init PROVE SInv
  OBVIOUS
<1>1. Idle \in Slots /\ 1 \in Stacks /\ Slice \in Nat /\ NULL \notin Slots
  BY SMTT(30), ConstantsAssumption DEF Idle, Slots, Stacks
<1>2. /\ DOMAIN sch = SchFields
      /\ sch.state = [p \in Slots |-> IF p = Idle THEN "RUNNING" ELSE "UNUSED"]
      /\ sch.pid = [p \in Slots |-> 0] /\ sch.next = [p \in Slots |-> NULL]
      /\ sch.until = [p \in Slots |-> 0] /\ sch.chan = [p \in Slots |-> NULL]
      /\ sch.ticks = Slice /\ sch.kstack = [p \in Slots |-> IF p = Idle THEN 1 ELSE NULL]
      /\ sch.cr3 = [p \in Slots |-> IF p = Idle THEN KPML4 ELSE NULL]
      /\ sch.mask = [p \in Slots |-> {}] /\ sch.pending = [p \in Slots |-> {}]
      /\ sch.head = Idle /\ sch.tail = Idle /\ sch.sleep = NULL /\ sch.cur = Idle
      /\ sch.resched = FALSE /\ sch.mmu = KPML4
  BY DEF Init, SchFields
<1>3. IsSch(sch)
  <2>1. /\ sch.state \in [Slots -> States] /\ sch.pid \in [Slots -> Nat]
        /\ sch.next \in [Slots -> Slots \union {NULL}] /\ sch.until \in [Slots -> Nat]
        /\ sch.chan \in [Slots -> Channels \union {NULL}]
        /\ sch.kstack \in [Slots -> Stacks \union {NULL}]
    BY SMTT(30), <1>1, <1>2 DEF States
  <2>2. /\ sch.cr3 \in [Slots -> Spaces \union {KPML4, NULL}]
        /\ sch.mask \in [Slots -> SUBSET Irqs] /\ sch.pending \in [Slots -> SUBSET Irqs]
    BY <1>2
  <2> QED BY <1>1, <1>2, <2>1, <2>2 DEF IsSch
<1>4. pc = [p \in Slots |-> "user"] /\ pit_ticks = 0 /\ next_pid = 1 /\ arg = [p \in Slots |-> {}]
  BY DEF Init
<1>5. Sound(sch, pc, <<Idle>>, <<>>)
  <2>1. IsChain(sch.next, sch.head, <<Idle>>)
    BY SMTT(30), <1>1, <1>2 DEF IsChain, At
  <2>2. IsChain(sch.next, sch.sleep, <<>>)
    BY SMTT(30), <1>1, <1>2 DEF IsChain, At
  <2>3. Queues(sch, <<Idle>>, <<>>)
    BY SMTT(30), <1>2, <2>1, <2>2 DEF Queues, At
  <2>4. Listed(sch, <<Idle>>, <<>>)
    BY SMTT(30), <1>1, <1>2 DEF Listed
  <2>5. Inside(sch, pc, <<Idle>>, <<>>)
    BY SMTT(30), <1>1, <1>2, <1>4 DEF Inside
  <2> QED BY <2>3, <2>4, <2>5 DEF Sound
<1>6. Sound(sch, pc, ReadyChain(sch), SleepChain(sch))
  BY ONLY Zenon, <1>5, Wrapped, QueueFacts
<1>7. pc \in [Slots -> PcType] /\ pit_ticks \in Nat /\ next_pid \in Nat \ {0} /\ DOMAIN arg = Slots
  BY SMTT(30), <1>4 DEF PcType
<1> QED BY <1>3, <1>6, <1>7 DEF SInv

\* The variables beside the table.
Counted ==
  /\ pit_ticks' \in Nat /\ next_pid' \in Nat \ {0}
  /\ pc' \in [Slots -> PcType] /\ DOMAIN arg' = Slots

LEMMA CountedNext == ASSUME SInv, Next PROVE Counted
<1>1. /\ pit_ticks \in Nat /\ next_pid \in Nat \ {0} /\ pc \in [Slots -> PcType] /\ DOMAIN arg = Slots
      /\ Me \in Slots /\ PidLimit \in Nat /\ TickMod \in Nat \ {0}
  BY ConstantsAssumption DEF SInv, IsSch, Me
<1> HIDE DEF Me
<1>2. ASSUME NEW shared, Spawn(shared) PROVE Counted
  <2>1. next_pid' \in Nat \ {0}
    BY SMTT(30), <1>1, <1>2 DEF Spawn, NextPid
  <2>2. pc' \in [Slots -> PcType]
    <3> DEFINE p == Min({r \in Slots : sch.state[r] = "UNUSED"})
    <3>1. pc' = [pc EXCEPT ![p] = "user"]
      BY <1>2 DEF Spawn
    <3> HIDE DEF p
    <3> QED BY <1>1, <3>1 DEF PcType
  <2> QED BY <1>1, <1>2, <2>1, <2>2 DEF Counted, Spawn
<1>3. ASSUME NEW id, WaitRound(id) PROVE Counted
  BY <1>1, <1>3 DEF Counted, WaitRound, PcType
<1>4. ASSUME NEW i, IrqWaitRound(i) PROVE Counted
  BY <1>1, <1>4 DEF Counted, IrqWaitRound, PcType
<1>5. CASE Exec \/ Yield
  BY <1>1, <1>5 DEF Exec, Yield, Counted
<1>6. ASSUME NEW n, Sleep(n) \/ SleepMark(n) PROVE Counted
  BY <1>1, <1>6 DEF Sleep, SleepMark, Counted, PcType
<1>7. ASSUME NEW ch, Block(ch) \/ Wakeup(ch) PROVE Counted
  BY <1>1, <1>7 DEF Block, Wakeup, Counted, PcType
<1>8. CASE Exit \/ SleepLink
  BY <1>1, <1>8 DEF Exit, SleepLink, Counted, PcType
<1>9. CASE Int80
  <2>1. pc' = [pc EXCEPT ![Me] = AfterInt80[pc[Me]]] /\ pc[Me] \in DOMAIN AfterInt80
    BY <1>9 DEF Int80
  <2>2. AfterInt80[pc[Me]] \in PcType
    BY SMTT(30), <2>1 DEF AfterInt80, PcType
  <2> QED BY <1>1, <1>9, <2>1, <2>2 DEF Int80, Counted
<1>10. CASE FreeReaped
  BY <1>1, <1>10 DEF FreeReaped, Counted, PcType
<1>11. ASSUME NEW i, (\E id : Kill(id)) \/ IrqRegister(i) \/ DeviceIrq(i) PROVE Counted
  BY <1>1, <1>11 DEF Kill, IrqRegister, DeviceIrq, Counted
<1>12. CASE TimerIrq
  BY SMTT(30), <1>1, <1>12 DEF TimerIrq, Counted
<1> QED
  BY <1>2, <1>3, <1>4, <1>5, <1>6, <1>7, <1>8, <1>9, <1>10, <1>11, <1>12
  DEF Next, CreateProcess, CreateKthread, SystemCall, KernelStep, Interrupt, Fork, Waitpid,
      WaitAgain, IrqWait, IrqWaitAgain

LEMMA KeptNext ==
  ASSUME QueueFacts, SInv, Next, KillStates \subseteq {"BLOCKED", "ZOMBIE"} PROVE Kept
<1>1. sch.state[Idle] = "RUNNING" /\ pc[Idle] = "user"
  BY DEF SInv, Sound, Listed, Inside
<1>2. ASSUME NEW shared, Spawn(shared), Me = Idle \/ InUser PROVE Kept
  <2>1. sch.state[Me] = "RUNNING"
    BY <1>1, <1>2, Running DEF InUser
  <2> QED BY <1>2, <2>1, SpawnKeeps DEF Created, NotCreated, Kept
<1>3. CASE CreateProcess \/ CreateKthread \/ Fork
  BY ZenonT(60), <1>2, <1>3 DEF CreateProcess, CreateKthread, Fork
<1>4. CASE Exec \/ Yield \/ Exit
  BY <1>4, ExecKeeps, YieldKeeps, ExitKeeps DEF Kept
<1>5. ASSUME NEW n \in 1 .. MaxSleep, Sleep(n) \/ SleepMark(n) PROVE Kept
  <2>1. n \in Nat
    BY SMTT(30), ConstantsAssumption
  <2> QED BY <1>5, <2>1, SleepKeeps, SleepMarkKeeps DEF Kept
<1>6. ASSUME NEW ch \in Channels, Block(ch) \/ Wakeup(ch) PROVE Kept
  BY <1>6, BlockKeeps, WakeupKeeps DEF Kept
<1>7. ASSUME NEW id, Waitpid(id) \/ Kill(id) PROVE Kept
  BY SMTT(30), <1>7, ReapKeeps, KillKeeps DEF Waitpid, InUser, Kept
<1>8. ASSUME NEW i \in Irqs, IrqRegister(i) \/ IrqWait(i) PROVE Kept
  BY SMTT(30), <1>8, IrqRegisterKeeps, IrqWaitKeeps DEF IrqWait, InUser, Kept
<1>9. CASE KernelStep
  <2>1. CASE WaitAgain
    BY SMTT(30), <1>1, <2>1, ReapKeeps DEF WaitAgain, Kept
  <2>2. CASE IrqWaitAgain
    BY SMTT(30), <1>1, <2>2, IrqWaitKeeps DEF IrqWaitAgain
  <2> QED BY <1>9, <2>1, <2>2, SleepLinkKeeps, Int80Keeps, FreeReapedKeeps DEF KernelStep, Kept
<1>10. CASE Interrupt
  BY <1>10, TimerIrqKeeps, DeviceIrqKeeps DEF Interrupt
<1> QED BY <1>3, <1>4, <1>5, <1>6, <1>7, <1>8, <1>9, <1>10 DEF Next, SystemCall

LEMMA SInvNext ==
  ASSUME QueueFacts, SInv, [Next]_vars, KillStates \subseteq {"BLOCKED", "ZOMBIE"} PROVE SInv'
<1>1. CASE Next
  <2>1. Kept /\ Counted
    BY <1>1, KeptNext, CountedNext
  <2>2. PICK rq, sq : Sound(sch', pc', rq, sq)
    BY <2>1 DEF Kept, KeptWith
  <2>3. Sound(sch', pc', ReadyChain(sch'), SleepChain(sch'))
    BY ONLY Zenon, <2>2, Wrapped, QueueFacts
  <2> QED BY <2>1, <2>3 DEF SInv, Kept, KeptWith, Counted
<1>2. CASE UNCHANGED vars
  BY <1>2 DEF vars, SInv
<1> QED BY <1>1, <1>2

LEMMA SInvQueues == ASSUME QueueFacts, SInv PROVE QueuesExact
<1> DEFINE rq == ReadyChain(sch)
           sq == SleepChain(sch)
<1>1. Sound(sch, pc, rq, sq) /\ Queues(sch, rq, sq) /\ Listed(sch, rq, sq) /\ Inside(sch, pc, rq, sq)
  BY DEF SInv, Sound
<1> HIDE DEF rq, sq
<1>2. IsChain(sch.next, sch.head, rq) /\ IsChain(sch.next, sch.sleep, sq)
  BY <1>1 DEF Queues
<1>3. /\ rq \in Seq(Slots) /\ sq \in Seq(Slots) /\ DOMAIN rq = 1 .. Len(rq) /\ DOMAIN sq = 1 .. Len(sq)
      /\ Len(rq) \in Nat /\ Len(sq) \in Nat
  BY SMTT(30), <1>2 DEF IsChain
<1>4. IsInjective(rq) /\ IsInjective(sq)
  BY <1>2, <1>3 DEF IsInjective, IsChain
<1>5. Range(rq) \intersect Range(sq) = {}
  BY <1>1, <1>3 DEF Range, Queues
<1>6. IF sch.head = NULL THEN sch.tail = NULL ELSE sch.tail = rq[Len(rq)]
  <2>1. sch.head = NULL <=> Len(rq) = 0
    BY ONLY Zenon, <1>2, QueueFacts DEF QueueFacts, ListFacts, ChainTypeFact
  <2>2. sch.tail = At(rq, Len(rq))
    BY <1>1 DEF Queues
  <2> QED BY SMTT(30), <1>3, <2>1, <2>2 DEF At
<1>7. \A p \in Range(rq) \ {Idle} : sch.state[p] = "READY"
  BY SMTT(30), <1>1, <1>3 DEF Range, Listed
<1>8. \A i, j \in DOMAIN sq : i < j => sch.until[sq[i]] <= sch.until[sq[j]]
  BY <1>1, <1>3 DEF Listed
<1>9. {p \in Slots \ {Idle} : sch.state[p] = "READY" /\ sch.pending[p] = {}} \subseteq Range(rq)
  BY SMTT(30), <1>1, <1>3 DEF Range, Listed
<1>10. {p \in Slots : sch.state[p] = "SLEEPING" /\ pc[p] # "marked"} \subseteq Range(sq)
  BY SMTT(30), <1>1, <1>3 DEF Range, Inside
<1> QED BY <1>4, <1>5, <1>6, <1>7, <1>8, <1>9, <1>10
        DEF QueuesExact, ListsWellFormed, NobodyLost, OnReady, OnSleep, rq, sq
=============================================================================
