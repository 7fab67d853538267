-------------------------- MODULE SchedListProofs ---------------------------
(***************************************************************************)
(* The two lists of the scheduler (Sched), for every size of the process   *)
(* table: what sched_enqueue, sched_dequeue, sched_sleep and the wake-up   *)
(* of the sleepers do to the links of the process table.                   *)
(***************************************************************************)
EXTENDS SchedInv, TLAPS

USE ZenonT(30), SMTT(30)

-----------------------------------------------------------------------------
(* Lists in general.                                                       *)

LEMMA ChainType ==
  ASSUME NEW nx, NEW h, NEW q, IsChain(nx, h, q)
  PROVE  /\ q \in Seq(Slots) /\ Len(q) \in Nat /\ q = [i \in 1 .. Len(q) |-> q[i]]
         /\ \A i \in 1 .. Len(q) : q[i] \in Slots /\ q[i] # NULL
         /\ h \in Slots \union {NULL} /\ (h = NULL <=> Len(q) = 0)
<1>1. q \in Seq(Slots)
  BY DEF IsChain
<1>2. Len(q) \in Nat /\ q = [i \in 1 .. Len(q) |-> q[i]] /\ \A i \in 1 .. Len(q) : q[i] \in Slots
  BY SMTT(30), <1>1
<1>3. \A i \in 1 .. Len(q) : q[i] # NULL
  BY <1>2, ConstantsAssumption
<1>4. h = At(q, 1)
  BY DEF IsChain
<1> QED BY SMTT(30), <1>1, <1>2, <1>3, <1>4 DEF At

\* Links outside the list do not matter to it.
LEMMA ChainFrame ==
  ASSUME NEW nx, NEW nx2, NEW h, NEW q, IsChain(nx, h, q),
         \A i \in 1 .. Len(q) : nx2[q[i]] = nx[q[i]]
  PROVE  IsChain(nx2, h, q)
BY DEF IsChain

LEMMA ChainAppend ==
  ASSUME NEW nx, NEW nx2, NEW h, NEW q, IsChain(nx, h, q), NEW p \in Slots,
         \A i \in 1 .. Len(q) : q[i] # p,
         nx2[p] = NULL,
         \A i \in 1 .. Len(q) : nx2[q[i]] = IF i = Len(q) THEN p ELSE nx[q[i]]
  PROVE  IsChain(nx2, IF Len(q) = 0 THEN p ELSE h, Append(q, p))
<1> DEFINE r == Append(q, p)
<1>1. q \in Seq(Slots) /\ Len(q) \in Nat
  BY SMTT(30) DEF IsChain
<1>2. r \in Seq(Slots) /\ Len(r) = Len(q) + 1
  BY SMTT(30), <1>1
<1>3. \A i \in 1 .. Len(r) : r[i] = IF i = Len(q) + 1 THEN p ELSE q[i]
  BY SMTT(30), <1>1
<1> HIDE DEF r
<1>4. \A i, j \in 1 .. Len(r) : r[i] = r[j] => i = j
  BY SMTT(30), <1>1, <1>2, <1>3 DEF IsChain
<1>5. (IF Len(q) = 0 THEN p ELSE h) = At(r, 1)
  BY SMTT(30), <1>1, <1>2, <1>3 DEF IsChain, At
<1>6. ASSUME NEW i \in 1 .. Len(r) PROVE nx2[r[i]] = At(r, i + 1)
  <2>1. CASE i = Len(q) + 1
    BY SMTT(30), <1>1, <1>2, <1>3, <2>1 DEF At
  <2>2. CASE i = Len(q)
    BY SMTT(30), <1>1, <1>2, <1>3, <2>2 DEF At
  <2>3. CASE i < Len(q)
    <3>1. nx[q[i]] = At(q, i + 1)
      BY SMTT(30), <1>1, <2>3 DEF IsChain
    <3> QED BY SMTT(30), <1>1, <1>2, <1>3, <2>3, <3>1 DEF At
  <2> QED BY SMTT(30), <1>1, <1>2, <2>1, <2>2, <2>3
<1>7. IsChain(nx2, IF Len(q) = 0 THEN p ELSE h, r)
  BY <1>2, <1>4, <1>5, <1>6 DEF IsChain
<1> QED BY <1>7 DEF r

LEMMA ChainTail ==
  ASSUME NEW nx, NEW h, NEW q, IsChain(nx, h, q), Len(q) > 0
  PROVE  /\ IsChain(nx, nx[h], Tail(q)) /\ h = q[1]
         /\ Len(Tail(q)) = Len(q) - 1
         /\ \A i \in 1 .. Len(q) - 1 : Tail(q)[i] = q[i + 1] /\ Tail(q)[i] # h
<1> DEFINE r == Tail(q)
<1>1. q \in Seq(Slots) /\ Len(q) \in Nat /\ q # <<>>
  BY SMTT(30) DEF IsChain
<1>2. r \in Seq(Slots) /\ Len(r) = Len(q) - 1 /\ \A i \in 1 .. Len(r) : r[i] = q[i + 1]
  BY SMTT(30), <1>1
<1>3. h = q[1]
  BY SMTT(30), <1>1 DEF IsChain, At
<1> HIDE DEF r
<1>4. \A i, j \in 1 .. Len(r) : r[i] = r[j] => i = j
  BY SMTT(30), <1>1, <1>2 DEF IsChain
<1>5. \A i \in 1 .. Len(r) : r[i] # h
  <2>1. \A i, j \in 1 .. Len(q) : q[i] = q[j] => i = j
    BY DEF IsChain
  <2> QED BY ONLY SMTT(30), <1>1, <1>2, <1>3, <2>1
<1>6. nx[h] = At(r, 1)
  BY SMTT(30), <1>1, <1>2, <1>3 DEF IsChain, At
<1>7. \A i \in 1 .. Len(r) : nx[r[i]] = At(r, i + 1)
  BY SMTT(30), <1>1, <1>2 DEF IsChain, At
<1>8. IsChain(nx, nx[h], r)
  BY <1>2, <1>4, <1>6, <1>7 DEF IsChain
<1> QED BY <1>2, <1>3, <1>5, <1>8 DEF r

LEMMA ChainInsert ==
  ASSUME NEW nx, NEW nx2, NEW h, NEW q, IsChain(nx, h, q), NEW p \in Slots,
         NEW k \in 1 .. Len(q) + 1,
         \A i \in 1 .. Len(q) : q[i] # p,
         nx2[p] = At(q, k),
         \A i \in 1 .. Len(q) : nx2[q[i]] = IF i = k - 1 THEN p ELSE nx[q[i]]
  PROVE  IsChain(nx2, IF k = 1 THEN p ELSE h, Inserted(q, k, p))
<1> DEFINE r == Inserted(q, k, p)
<1>1. q \in Seq(Slots) /\ Len(q) \in Nat /\ \A i \in 1 .. Len(q) : q[i] \in Slots
  BY SMTT(30) DEF IsChain
<1>2. r \in Seq(Slots) /\ Len(r) = Len(q) + 1
  BY SMTT(30), <1>1 DEF Inserted
<1>3. \A i \in 1 .. Len(r) : r[i] = IF i < k THEN q[i] ELSE IF i = k THEN p ELSE q[i - 1]
  BY <1>1, <1>2 DEF Inserted
<1> HIDE DEF r
<1> DEFINE old(i) == IF i < k THEN i ELSE i - 1
<1>a. \A i \in 1 .. Len(r) : i # k => old(i) \in 1 .. Len(q)
  BY SMTT(30), <1>1, <1>2
<1>b. \A i \in 1 .. Len(r) : i # k => r[i] = q[old(i)]
  BY <1>1, <1>2, <1>3
<1>c. r[k] = p /\ k \in 1 .. Len(r)
  BY SMTT(30), <1>1, <1>2, <1>3
<1>d. \A i, j \in 1 .. Len(r) : i # k /\ j # k /\ old(i) = old(j) => i = j
  BY SMTT(30), <1>1, <1>2
<1> HIDE DEF old
<1>4. ASSUME NEW i \in 1 .. Len(r), NEW j \in 1 .. Len(r), r[i] = r[j] PROVE i = j
  <2>1. \A m, n \in 1 .. Len(q) : q[m] = q[n] => m = n
    BY DEF IsChain
  <2>2. CASE i = k
    BY <1>4, <1>a, <1>b, <1>c, <2>2
  <2>3. CASE j = k
    BY <1>4, <1>a, <1>b, <1>c, <2>3
  <2>4. CASE i # k /\ j # k
    BY SMTT(30), <1>4, <1>a, <1>b, <1>d, <2>1, <2>4
  <2> QED BY <2>2, <2>3, <2>4
<1>5. (IF k = 1 THEN p ELSE h) = At(r, 1)
  BY SMTT(30), <1>1, <1>2, <1>3 DEF IsChain, At
<1>6. ASSUME NEW i \in 1 .. Len(r) PROVE nx2[r[i]] = At(r, i + 1)
  <2>1. CASE i = k
    <3>1. r[i] = p /\ (i + 1 \in 1 .. Len(r) <=> k \in 1 .. Len(q))
      BY SMTT(30), <1>1, <1>2, <1>3, <2>1
    <3>2. i + 1 \in 1 .. Len(r) => r[i + 1] = q[k]
      BY SMTT(30), <1>1, <1>3, <2>1
    <3> QED BY <3>1, <3>2 DEF At
  <2>2. CASE i = k - 1
    BY SMTT(30), <1>1, <1>2, <1>3, <2>2 DEF At
  <2>3. CASE i < k - 1
    <3>1. nx[q[i]] = At(q, i + 1)
      BY SMTT(30), <1>1, <2>3 DEF IsChain
    <3> QED BY SMTT(30), <1>1, <1>2, <1>3, <2>3, <3>1 DEF At
  <2>4. CASE i > k
    <3>a. i - 1 \in 1 .. Len(q) /\ i - 1 # k - 1 /\ (i - 1) + 1 = i
      BY SMTT(30), <1>1, <1>2, <2>4
    <3>b. nx[q[i - 1]] = At(q, (i - 1) + 1)
      BY <3>a DEF IsChain
    <3>1. nx[q[i - 1]] = At(q, i) /\ i - 1 \in 1 .. Len(q) /\ i - 1 # k - 1
      BY <3>a, <3>b
    <3>2. r[i] = q[i - 1] /\ (i + 1 \in 1 .. Len(r) <=> i \in 1 .. Len(q))
      BY SMTT(30), <1>1, <1>2, <1>3, <2>4
    <3>3. i + 1 \in 1 .. Len(r) => r[i + 1] = q[i]
      BY SMTT(30), <1>1, <1>3, <2>4
    <3> QED BY <3>1, <3>2, <3>3 DEF At
  <2> QED BY SMTT(30), <1>1, <1>2, <2>1, <2>2, <2>3, <2>4
<1>7. IsChain(nx2, IF k = 1 THEN p ELSE h, r)
  BY <1>2, <1>4, <1>5, <1>6 DEF IsChain
<1> QED BY <1>7 DEF r

\* Min picks an element of the set.
LEMMA MinInSet ==
  ASSUME MinFact, NEW S \in SUBSET Nat, S # {}
  PROVE  Min(S) \in S /\ \A y \in S : Min(S) <= y
  BY DEF MinFact

\* Induction from 0 up to N.
LEMMA Upwards ==
  ASSUME MinFact, NEW N \in Nat, NEW S, 0 \in S, \A n \in 1 .. N : n - 1 \in S => n \in S
  PROVE  \A n \in 0 .. N : n \in S
<1> DEFINE B == {n \in 0 .. N : n \notin S}
<1> SUFFICES ASSUME B # {} PROVE FALSE
  OBVIOUS
<1>1. B \in SUBSET Nat
  BY SMTT(30)
<1>2. PICK m : m \in B /\ \A y \in B : m <= y
  <2> HIDE DEF B
  <2> QED BY <1>1, MinInSet
<1>3. m \in 1 .. N /\ m - 1 \in 0 .. N /\ m - 1 \notin B
  BY SMTT(30), <1>2
<1> QED BY <1>2, <1>3

\* Two loops that start alike and go on alike end alike.
LEMMA SameLoop ==
  ASSUME MinFact, NEW N \in Nat, NEW g, NEW w, g[0] = w[0],
         \A n \in 1 .. N : g[n - 1] = w[n - 1] => g[n] = w[n]
  PROVE  \A n \in 0 .. N : g[n] = w[n]
<1> DEFINE S == {n \in 0 .. N : g[n] = w[n]}
<1>1. 0 \in S
  BY SMTT(30)
<1>2. \A n \in 1 .. N : n - 1 \in S => n \in S
  BY SMTT(30)
<1>3. \A n \in 0 .. N : n \in S
  <2> HIDE DEF S
  <2> QED BY <1>1, <1>2, Upwards
<1> QED BY <1>3

\* Sequences are what their length and their members say, and what Append and
\* Tail do to these.
LEMMA SeqEqual ==
  ASSUME NEW S, NEW p \in Seq(S), NEW q \in Seq(S), Len(p) = Len(q),
         \A i \in 1 .. Len(p) : p[i] = q[i]
  PROVE  p = q
BY SMTT(30)

LEMMA AppendProperties ==
  ASSUME NEW S, NEW q \in Seq(S), NEW e \in S
  PROVE  /\ Append(q, e) \in Seq(S) /\ Len(Append(q, e)) = Len(q) + 1
         /\ \A i \in 1 .. Len(q) : Append(q, e)[i] = q[i]
         /\ Append(q, e)[Len(q) + 1] = e
BY SMTT(30)

LEMMA HeadTailProperties ==
  ASSUME NEW S, NEW q \in Seq(S), q # <<>>
  PROVE  /\ Head(q) = q[1] /\ Tail(q) \in Seq(S) /\ Len(Tail(q)) = Len(q) - 1
         /\ \A i \in 1 .. Len(q) - 1 : Tail(q)[i] = q[i + 1]
BY SMTT(30)

\* n different numbers below m: n is at most m.
LEMMA Pigeonhole ==
  ASSUME MinFact, NEW N \in Nat, NEW n \in Nat, NEW f \in [1 .. n -> 0 .. N - 1],
         \A i, j \in 1 .. n : f[i] = f[j] => i = j
  PROVE  n <= N
<1> DEFINE Inj(g, k) == \A i, j \in 1 .. k : g[i] = g[j] => i = j
           T == {m \in 0 .. N : \A k \in Nat : \A g \in [1 .. k -> 0 .. m - 1] :
                                  Inj(g, k) => k <= m}
<1>1. 0 \in T
  <2> SUFFICES ASSUME NEW k \in Nat, NEW g \in [1 .. k -> 0 .. 0 - 1] PROVE k <= 0
    BY SMTT(30)
  <2>1. \A i \in 1 .. k : g[i] \in 0 .. 0 - 1
    OBVIOUS
  <2>2. ASSUME 1 \in 1 .. k PROVE FALSE
    <3>1. g[1] \in 0 .. 0 - 1
      BY <2>1, <2>2
    <3> QED BY ONLY SMTT(30), <3>1
  <2> QED BY SMTT(30), <2>2
<1>2. ASSUME NEW m \in 1 .. N, m - 1 \in T PROVE m \in T
  <2> SUFFICES ASSUME NEW k \in Nat, NEW g \in [1 .. k -> 0 .. m - 1], Inj(g, k)
               PROVE  k <= m
    BY SMTT(30)
  <2>1. \A l \in Nat : \A e \in [1 .. l -> 0 .. (m - 1) - 1] : Inj(e, l) => l <= m - 1
    BY <1>2
  <2>2. CASE \A i \in 1 .. k : g[i] # m - 1
    <3>1. g \in [1 .. k -> 0 .. (m - 1) - 1]
      BY SMTT(30), <2>2
    <3> HIDE DEF Inj
    <3>2. k <= m - 1
      BY ONLY Zenon, <2>1, <3>1, k \in Nat, Inj(g, k)
    <3> QED BY SMTT(30), <3>2
  <2>3. ASSUME NEW i \in 1 .. k, g[i] = m - 1 PROVE k <= m
    <3> DEFINE e == [j \in 1 .. k - 1 |-> IF j = i THEN g[k] ELSE g[j]]
    <3>1. k - 1 \in Nat /\ k \in 1 .. k /\ \A j \in 1 .. k - 1 : j \in 1 .. k /\ j # k
      BY SMTT(30)
    <3>2. \A j \in 1 .. k - 1 : e[j] \in 0 .. m - 1 /\ e[j] # m - 1
      BY <2>3, <3>1
    <3>3. e \in [1 .. k - 1 -> 0 .. (m - 1) - 1]
      <4>1. \A j \in 1 .. k - 1 : e[j] \in 0 .. (m - 1) - 1
        <5> HIDE DEF e
        <5>1. \A x \in 0 .. m - 1 : x # m - 1 => x \in 0 .. (m - 1) - 1
          BY SMTT(30)
        <5> QED BY ONLY Zenon, <3>2, <5>1
      <4>2. e = [j \in 1 .. k - 1 |-> e[j]]
        OBVIOUS
      <4> HIDE DEF e
      <4> QED BY ONLY Zenon, <4>1, <4>2
    <3>4. Inj(e, k - 1)
      BY <3>1
    <3> HIDE DEF e, Inj
    <3>5. k - 1 <= m - 1
      BY <2>1, <3>1, <3>3, <3>4
    <3> QED BY SMTT(30), <3>5
  <2> QED BY <2>2, <2>3
<1>3. \A m \in 0 .. N : m \in T
  <2> HIDE DEF T
  <2> QED BY <1>1, <1>2, Upwards
<1>4. N \in T
  <2> HIDE DEF T
  <2> QED BY ONLY SMTT(30), <1>3, N \in Nat
<1> QED BY <1>4

\* No list is longer than the table.
LEMMA ChainLength ==
  ASSUME MinFact, NEW nx, NEW h, NEW q, IsChain(nx, h, q) PROVE Len(q) \in 0 .. NSlots
<1>1. Len(q) \in Nat /\ NSlots \in Nat /\ q \in Seq(Slots)
  BY SMTT(30), ConstantsAssumption DEF IsChain
<1>2. q \in [1 .. Len(q) -> 0 .. NSlots - 1]
  BY SMTT(30), <1>1 DEF Slots
<1>3. \A i, j \in 1 .. Len(q) : q[i] = q[j] => i = j
  BY DEF IsChain
<1>4. Len(q) <= NSlots
  BY ONLY Zenon, MinFact, <1>1, <1>2, <1>3, Pigeonhole
<1> QED BY SMTT(30), <1>1, <1>4

LEMMA ChainIs ==
  ASSUME MinFact, NEW s, NEW h, NEW q, IsChain(s.next, h, q) PROVE Chain(s, h) = q
<1> DEFINE after(r) == IF r = <<>> THEN h ELSE s.next[r[Len(r)]]
           longer == [r \in Seq(Slots) |-> IF after(r) = NULL THEN r ELSE Append(r, after(r))]
           upto(n) == IF n <= Len(q) THEN n ELSE Len(q)
           w == [n \in 0 .. NSlots + 1 |-> SubSeq(q, 1, upto(n))]
           g == CHOOSE g : g = [n \in 0 .. NSlots + 1 |->
                                  IF n = 0 THEN <<>> ELSE longer[g[n - 1]]]
<1>1. Chain(s, h) = g[NSlots + 1]
  BY DEF Chain
<1>2. Len(q) \in 0 .. NSlots /\ NSlots \in Nat /\ q \in Seq(Slots)
  BY ChainLength, ConstantsAssumption DEF IsChain
<1>3. ASSUME NEW n \in 1 .. NSlots + 1 PROVE w[n] = longer[w[n - 1]]
  <2> DEFINE r == SubSeq(q, 1, upto(n - 1))
  <2>1. upto(n - 1) \in 0 .. Len(q) /\ upto(n - 1) \in Nat
    BY SMTT(30), <1>2
  <2>2. r \in Seq(Slots) /\ Len(r) = upto(n - 1) /\ \A i \in 1 .. Len(r) : r[i] = q[i]
    BY SMTT(30), <1>2, <2>1
  <2>3. after(r) = At(q, upto(n - 1) + 1)
    <3>1. CASE upto(n - 1) = 0
      <4>1. r = <<>>
        BY SMTT(30), <2>2, <3>1
      <4> QED BY SMTT(30), <3>1, <4>1 DEF IsChain
    <3>2. CASE upto(n - 1) # 0
      <4>1. r # <<>> /\ r[Len(r)] = q[upto(n - 1)] /\ upto(n - 1) \in 1 .. Len(q)
        BY SMTT(30), <2>1, <2>2, <3>2
      <4>2. s.next[q[upto(n - 1)]] = At(q, upto(n - 1) + 1)
        BY <4>1 DEF IsChain
      <4> QED BY <4>1, <4>2
    <3> QED BY <3>1, <3>2
  <2>4. w[n - 1] = r /\ w[n] = SubSeq(q, 1, upto(n))
    BY SMTT(30), <1>2
  <2>5. longer[r] = IF At(q, upto(n - 1) + 1) = NULL THEN r
                    ELSE Append(r, At(q, upto(n - 1) + 1))
    BY <2>2, <2>3
  <2>6. CASE n <= Len(q)
    <3>1. upto(n - 1) + 1 = n /\ upto(n) = n /\ n \in 1 .. Len(q)
      BY SMTT(30), <1>2, <2>6
    <3>2. At(q, n) = q[n] /\ q[n] # NULL /\ q[n] \in Slots
      BY SMTT(30), <3>1, ChainType DEF At
    <3>3. SubSeq(q, 1, n) = Append(r, q[n])
      BY SMTT(30), <1>2, <2>2, <3>1, <3>2
    <3> QED BY <2>4, <2>5, <3>1, <3>2, <3>3
  <2>7. CASE ~(n <= Len(q))
    <3>1. upto(n - 1) = Len(q) /\ upto(n) = Len(q)
      BY SMTT(30), <1>2, <2>7
    <3>2. At(q, upto(n - 1) + 1) = NULL
      BY SMTT(30), <1>2, <3>1 DEF At
    <3> QED BY <2>4, <2>5, <3>1, <3>2
  <2> QED BY <2>6, <2>7
<1>4. w[0] = <<>>
  BY SMTT(30), <1>2
<1> HIDE DEF longer
<1>5. w = [n \in 0 .. NSlots + 1 |-> IF n = 0 THEN <<>> ELSE longer[w[n - 1]]]
  <2>1. w = [n \in 0 .. NSlots + 1 |-> w[n]]
    OBVIOUS
  <2> HIDE DEF w
  <2>2. \A n \in 0 .. NSlots + 1 : w[n] = IF n = 0 THEN <<>> ELSE longer[w[n - 1]]
    <3> TAKE n \in 0 .. NSlots + 1
    <3>1. n = 0 \/ n \in 1 .. NSlots + 1
      BY SMTT(30), <1>2
    <3>2. n \in 1 .. NSlots + 1 => w[n] = longer[w[n - 1]]
      BY <1>3
    <3> QED BY <1>4, <3>1, <3>2
  <2> QED BY <2>1, <2>2
<1>6. g = [n \in 0 .. NSlots + 1 |-> IF n = 0 THEN <<>> ELSE longer[g[n - 1]]]
  BY <1>5
<1> HIDE DEF g, w
<1>7. \A n \in 0 .. NSlots + 1 : g[n] = w[n]
  <2>1. g[0] = w[0] /\ NSlots + 1 \in Nat
    BY SMTT(30), <1>2, <1>4, <1>6
  <2>2. \A n \in 1 .. NSlots + 1 : g[n - 1] = w[n - 1] => g[n] = w[n]
    BY SMTT(30), <1>2, <1>3, <1>6
  <2> QED BY SMTT(30), <2>1, <2>2, SameLoop
<1>8. w[NSlots + 1] = q
  BY SMTT(30), <1>2 DEF w
<1> QED BY SMTT(30), <1>1, <1>2, <1>7, <1>8

-----------------------------------------------------------------------------
(* The operations on the lists.                                            *)

LEMMA Relinked ==
  ASSUME NEW s, IsSch(s), NEW t, DOMAIN t = DOMAIN s, SameProcesses(t, s),
         t.next \in [Slots -> Slots \union {NULL}], t.head \in Slots \union {NULL},
         t.tail \in Slots \union {NULL}, t.sleep \in Slots \union {NULL}
  PROVE  IsSch(t)
BY DEF IsSch, SameProcesses, SameRest

\* The fields that waking changes keep their types, so the whole does.
LEMMA Retyped ==
  ASSUME NEW s, NEW t, IsSch(s), DOMAIN t = SchFields, SameRest(t, s),
         t.state \in [Slots -> States], t.until \in [Slots -> Nat],
         t.next \in [Slots -> Slots \union {NULL}], t.head \in Slots \union {NULL},
         t.tail \in Slots \union {NULL}, t.sleep \in Slots \union {NULL}
  PROVE  IsSch(t)
BY DEF IsSch, SameRest

\* sched_enqueue puts a process that is on no list at the end of the ready list.
LEMMA EnqueueQueues ==
  ASSUME NEW s, NEW rq, NEW sq, IsSch(s), Queues(s, rq, sq),
         NEW p \in Slots, s.state[p] = "READY",
         \A i \in 1 .. Len(rq) : rq[i] # p, \A i \in 1 .. Len(sq) : sq[i] # p,
         NEW t, t = Enqueue(s, p)
  PROVE  IsSch(t) /\ SameProcesses(t, s) /\ Queues(t, Append(rq, p), sq)
<1>1. /\ IsChain(s.next, s.head, rq) /\ IsChain(s.next, s.sleep, sq)
      /\ \A i \in 1 .. Len(rq), j \in 1 .. Len(sq) : rq[i] # sq[j]
      /\ s.tail = At(rq, Len(rq))
  BY DEF Queues
<1>2. /\ Len(rq) \in Nat /\ (s.head = NULL <=> Len(rq) = 0) /\ rq \in Seq(Slots)
      /\ \A i \in 1 .. Len(rq) : rq[i] \in Slots
      /\ Len(sq) \in Nat /\ \A i \in 1 .. Len(sq) : sq[i] \in Slots
  BY <1>1, ChainType
<1>3. DOMAIN s = SchFields /\ s.next \in [Slots -> Slots \union {NULL}] /\ s.sleep \in Slots \union {NULL}
  BY DEF IsSch
<1> DEFINE nx == IF Len(rq) = 0 THEN [s.next EXCEPT ![p] = NULL]
                 ELSE [s.next EXCEPT ![p] = NULL, ![s.tail] = p]
           h == IF Len(rq) = 0 THEN p ELSE s.head
<1>4. /\ DOMAIN t = SchFields /\ SameProcesses(t, s) /\ t.sleep = s.sleep
      /\ t.head = h /\ t.tail = p /\ t.next = nx
  <2>1. CASE Len(rq) = 0
    <3>1. t = [s EXCEPT !.next[p] = NULL, !.head = p, !.tail = p]
      BY <1>2, <2>1 DEF Enqueue
    <3> QED BY SMTT(30), <1>3, <2>1, <3>1 DEF SchFields, SameProcesses, SameRest
  <2>2. CASE Len(rq) # 0
    <3>1. t = [s EXCEPT !.next[p] = NULL, !.next[s.tail] = p, !.tail = p]
      BY <1>2, <2>2 DEF Enqueue
    <3> QED BY SMTT(30), <1>3, <2>2, <3>1 DEF SchFields, SameProcesses, SameRest
  <2> QED BY <2>1, <2>2
<1>5. Len(rq) > 0 => s.tail = rq[Len(rq)] /\ s.tail \in Slots /\ Len(rq) \in 1 .. Len(rq)
  BY SMTT(30), <1>1, <1>2 DEF At
<1>6. nx \in [Slots -> Slots \union {NULL}] /\ h \in Slots \union {NULL} /\ nx[p] = NULL
  BY SMTT(30), <1>1, <1>2, <1>3, <1>5, ChainType
<1>7. IsSch(t)
  BY <1>3, <1>4, <1>6, Relinked
<1>8. \A i \in 1 .. Len(rq) : nx[rq[i]] = IF i = Len(rq) THEN p ELSE s.next[rq[i]]
  BY SMTT(30), <1>1, <1>2, <1>3, <1>5 DEF IsChain
<1>9. \A i \in 1 .. Len(sq) : nx[sq[i]] = s.next[sq[i]]
  BY SMTT(30), <1>1, <1>2, <1>3, <1>5
<1> HIDE DEF nx
<1>10. IsChain(nx, h, Append(rq, p))
  BY <1>1, <1>6, <1>8, ChainAppend
<1>11. IsChain(nx, s.sleep, sq)
  BY <1>1, <1>9, ChainFrame
<1>12. /\ Len(Append(rq, p)) = Len(rq) + 1
       /\ \A i \in 1 .. Len(rq) + 1 : Append(rq, p)[i] = IF i = Len(rq) + 1 THEN p ELSE rq[i]
  BY SMTT(30), <1>2
<1>13. \A i \in 1 .. Len(rq) + 1, j \in 1 .. Len(sq) : Append(rq, p)[i] # sq[j]
  BY SMTT(30), <1>1, <1>2, <1>12
<1>14. At(Append(rq, p), Len(Append(rq, p))) = p
  BY SMTT(30), <1>2, <1>12 DEF At
<1> QED BY <1>4, <1>7, <1>10, <1>11, <1>12, <1>13, <1>14 DEF Queues

\* sched_dequeue takes the first of the ready list.
LEMMA DequeueQueues ==
  ASSUME NEW s, NEW rq, NEW sq, IsSch(s), Queues(s, rq, sq), Len(rq) > 0,
         NEW t, t = Dequeue(s)
  PROVE  IsSch(t) /\ SameProcesses(t, s) /\ Queues(t, Tail(rq), sq)
<1>1. /\ IsChain(s.next, s.head, rq) /\ IsChain(s.next, s.sleep, sq)
      /\ \A i \in 1 .. Len(rq), j \in 1 .. Len(sq) : rq[i] # sq[j]
      /\ s.tail = At(rq, Len(rq))
  BY DEF Queues
<1>2. /\ Len(rq) \in Nat /\ s.head # NULL /\ s.head \in Slots /\ rq \in Seq(Slots)
      /\ \A i \in 1 .. Len(rq) : rq[i] \in Slots /\ rq[i] # NULL
      /\ Len(sq) \in Nat /\ \A i \in 1 .. Len(sq) : sq[i] \in Slots
  BY SMTT(30), <1>1, ChainType
<1>3. /\ DOMAIN s = SchFields /\ s.next \in [Slots -> Slots \union {NULL}]
      /\ s.sleep \in Slots \union {NULL} /\ s.tail \in Slots \union {NULL}
  BY DEF IsSch
<1> DEFINE nx == [s.next EXCEPT ![s.head] = NULL]
           h == s.next[s.head]
           r == Tail(rq)
<1>4. /\ DOMAIN t = SchFields /\ SameProcesses(t, s) /\ t.sleep = s.sleep
      /\ t.head = h /\ t.tail = (IF h = NULL THEN NULL ELSE s.tail) /\ t.next = nx
  <2>1. t = [s EXCEPT !.head = h, !.tail = IF h = NULL THEN NULL ELSE s.tail, !.next[s.head] = NULL]
    BY <1>2 DEF Dequeue
  <2> QED BY SMTT(30), <1>3, <2>1 DEF SchFields, SameProcesses, SameRest
<1>5. nx \in [Slots -> Slots \union {NULL}] /\ h \in Slots \union {NULL}
  BY <1>2, <1>3
<1>6. IsSch(t)
  BY <1>3, <1>4, <1>5, Relinked
<1>7. /\ IsChain(s.next, h, r) /\ s.head = rq[1] /\ Len(r) = Len(rq) - 1
      /\ \A i \in 1 .. Len(rq) - 1 : r[i] = rq[i + 1] /\ r[i] # s.head
  BY SMTT(30), <1>1, ChainTail
<1> HIDE DEF r, h
<1>8. r \in Seq(Slots) /\ (h = NULL <=> Len(r) = 0) /\ \A i \in 1 .. Len(r) : r[i] \in Slots
  BY <1>7, ChainType
<1>9. \A i \in 1 .. Len(r) : nx[r[i]] = s.next[r[i]]
  BY <1>2, <1>3, <1>7, <1>8
<1>10. \A i \in 1 .. Len(sq) : nx[sq[i]] = s.next[sq[i]]
  BY SMTT(30), <1>1, <1>2, <1>3, <1>7
<1> HIDE DEF nx
<1>11. IsChain(nx, h, r) /\ IsChain(nx, s.sleep, sq)
  BY <1>1, <1>7, <1>9, <1>10, ChainFrame
<1>12. \A i \in 1 .. Len(r), j \in 1 .. Len(sq) : r[i] # sq[j]
  BY SMTT(30), <1>1, <1>2, <1>7
<1>13. (IF h = NULL THEN NULL ELSE s.tail) = At(r, Len(r))
  BY SMTT(30), <1>1, <1>2, <1>7, <1>8 DEF At
<1> QED BY <1>4, <1>6, <1>11, <1>12, <1>13 DEF Queues, r

\* sched_sleep puts a process that is on no list among the sleepers, behind all
\* that wake no later.
LEMMA SleepInsertQueues ==
  ASSUME MinFact, NEW s, NEW rq, NEW sq, IsSch(s), Queues(s, rq, sq), NEW p \in Slots,
         \A i \in 1 .. Len(rq) : rq[i] # p, \A i \in 1 .. Len(sq) : sq[i] # p,
         NEW t, t = SleepInsert(s, p)
  PROVE  /\ IsSch(t) /\ SameProcesses(t, s)
         /\ \E k \in 1 .. Len(sq) + 1 :
              /\ Queues(t, rq, Inserted(sq, k, p))
              /\ \A i \in 1 .. k - 1 : s.until[sq[i]] <= s.until[p]
              /\ k \in 1 .. Len(sq) => s.until[sq[k]] > s.until[p]
<1>1. /\ IsChain(s.next, s.head, rq) /\ IsChain(s.next, s.sleep, sq)
      /\ \A i \in 1 .. Len(rq), j \in 1 .. Len(sq) : rq[i] # sq[j]
      /\ s.tail = At(rq, Len(rq))
  BY DEF Queues
<1>2. /\ Len(rq) \in Nat /\ \A i \in 1 .. Len(rq) : rq[i] \in Slots
      /\ Len(sq) \in Nat /\ sq \in Seq(Slots)
      /\ \A i \in 1 .. Len(sq) : sq[i] \in Slots /\ sq[i] # NULL
  BY SMTT(30), <1>1, ChainType
<1>3. /\ DOMAIN s = SchFields /\ s.next \in [Slots -> Slots \union {NULL}]
      /\ s.head \in Slots \union {NULL} /\ s.tail \in Slots \union {NULL}
      /\ s.sleep \in Slots \union {NULL} /\ s.until \in [Slots -> Nat]
  BY DEF IsSch
<1>4. SleepChain(s) = sq
  BY <1>1, ChainIs DEF SleepChain
<1> DEFINE S == {i \in DOMAIN sq : s.until[sq[i]] > s.until[p]} \union {Len(sq) + 1}
           k == Min(S)
           prev == IF k = 1 THEN NULL ELSE sq[k - 1]
           at == IF k > Len(sq) THEN NULL ELSE sq[k]
<1>5. t = LinkSleeper(s, prev, at, p)
  BY <1>4 DEF SleepInsert
<1>6. k \in S /\ \A y \in S : k <= y
  <2>1. S \in SUBSET Nat /\ S # {}
    BY SMTT(30), <1>2
  <2> HIDE DEF S
  <2> QED BY <2>1, MinInSet
<1> HIDE DEF k
<1>7. /\ k \in 1 .. Len(sq) + 1
      /\ k \in 1 .. Len(sq) => s.until[sq[k]] > s.until[p]
  BY SMTT(30), <1>2, <1>6
<1>8. \A i \in 1 .. k - 1 : s.until[sq[i]] <= s.until[p]
  <2> TAKE i \in 1 .. k - 1
  <2>1. i \in DOMAIN sq /\ i < k /\ s.until[sq[i]] \in Nat /\ s.until[p] \in Nat
    BY SMTT(30), <1>2, <1>3, <1>7
  <2>2. ~(s.until[sq[i]] > s.until[p])
    BY SMTT(30), <1>6, <1>7, <2>1
  <2> QED BY SMTT(30), <2>1, <2>2
<1>9. at = At(sq, k) /\ at \in Slots \union {NULL}
  BY SMTT(30), <1>2, <1>7 DEF At
<1>10. k > 1 => prev = sq[k - 1] /\ prev \in Slots /\ prev # NULL /\ k - 1 \in 1 .. Len(sq)
  BY SMTT(30), <1>2, <1>7
<1> DEFINE nx == IF k = 1 THEN [s.next EXCEPT ![p] = at]
                 ELSE [s.next EXCEPT ![p] = at, ![sq[k - 1]] = p]
           h == IF k = 1 THEN p ELSE s.sleep
<1>11. /\ DOMAIN t = SchFields /\ SameProcesses(t, s)
       /\ t.head = s.head /\ t.tail = s.tail /\ t.sleep = h /\ t.next = nx
  <2> HIDE DEF at
  <2>1. CASE k = 1
    <3>1. t = [s EXCEPT !.next[p] = at, !.sleep = p]
      BY <1>5, <2>1 DEF LinkSleeper
    <3> QED BY SMTT(30), <1>3, <2>1, <3>1 DEF SchFields, SameProcesses, SameRest
  <2>2. CASE k # 1
    <3>1. prev = sq[k - 1] /\ prev # NULL
      BY SMTT(30), <1>7, <1>10, <2>2
    <3> HIDE DEF prev
    <3>2. t = [s EXCEPT !.next[p] = at, !.next[prev] = p]
      BY <1>5, <2>2, <3>1 DEF LinkSleeper
    <3> QED BY SMTT(30), <1>3, <2>2, <3>1, <3>2 DEF SchFields, SameProcesses, SameRest
  <2> QED BY <2>1, <2>2
<1> HIDE DEF S, at, prev
<1>12. nx \in [Slots -> Slots \union {NULL}] /\ h \in Slots \union {NULL}
  BY <1>2, <1>3, <1>7, <1>9, <1>10
<1>13. IsSch(t)
  <2> HIDE DEF nx, h
  <2> QED BY <1>3, <1>11, <1>12, Relinked
<1>14. nx[p] = At(sq, k)
  BY SMTT(30), <1>2, <1>3, <1>9, <1>10, <1>7
<1>15. \A i \in 1 .. Len(sq) : nx[sq[i]] = IF i = k - 1 THEN p ELSE s.next[sq[i]]
  <2>1. \A i, j \in 1 .. Len(sq) : sq[i] = sq[j] => i = j
    BY <1>1 DEF IsChain
  <2>2. ASSUME NEW i \in 1 .. Len(sq) PROVE nx[sq[i]] = IF i = k - 1 THEN p ELSE s.next[sq[i]]
    <3>1. sq[i] # p /\ sq[i] \in Slots
      BY <1>2
    <3>2. CASE k = 1
      <4>1. i # k - 1
        BY SMTT(30), <1>2, <3>2
      <4> QED BY <1>3, <3>1, <3>2, <4>1
    <3>3. CASE k # 1
      <4>1. k - 1 \in 1 .. Len(sq)
        BY SMTT(30), <1>7, <1>10, <3>3
      <4>2. sq[i] = sq[k - 1] <=> i = k - 1
        BY <2>1, <4>1
      <4>3. sq[k - 1] \in Slots
        BY <1>2, <4>1
      <4> QED BY <1>3, <3>1, <3>3, <4>2, <4>3
    <3> QED BY <3>2, <3>3
  <2> QED BY <2>2
<1>16. \A i \in 1 .. Len(rq) : nx[rq[i]] = s.next[rq[i]]
  BY SMTT(30), <1>1, <1>2, <1>3, <1>7, <1>10
<1> HIDE DEF nx
<1>17. IsChain(nx, h, Inserted(sq, k, p))
  BY <1>1, <1>7, <1>14, <1>15, ChainInsert
<1>18. IsChain(nx, s.head, rq)
  BY <1>1, <1>16, ChainFrame
<1>19. /\ Len(Inserted(sq, k, p)) = Len(sq) + 1
       /\ \A i \in 1 .. Len(sq) + 1 :
            Inserted(sq, k, p)[i] = IF i < k THEN sq[i] ELSE IF i = k THEN p ELSE sq[i - 1]
  BY SMTT(30), <1>2 DEF Inserted
<1>20. \A i \in 1 .. Len(rq), j \in 1 .. Len(sq) + 1 : rq[i] # Inserted(sq, k, p)[j]
  <2> TAKE i \in 1 .. Len(rq), j \in 1 .. Len(sq) + 1
  <2>1. \/ j = k /\ Inserted(sq, k, p)[j] = p
        \/ j < k /\ j \in 1 .. Len(sq) /\ Inserted(sq, k, p)[j] = sq[j]
        \/ j > k /\ j - 1 \in 1 .. Len(sq) /\ Inserted(sq, k, p)[j] = sq[j - 1]
    BY SMTT(30), <1>2, <1>7, <1>19
  <2> QED BY <1>1, <2>1
<1>21. Queues(t, rq, Inserted(sq, k, p))
  BY <1>1, <1>11, <1>17, <1>18, <1>19, <1>20 DEF Queues
<1> QED BY <1>7, <1>8, <1>11, <1>13, <1>21

-----------------------------------------------------------------------------
(* The sleepers whose time has come.                                       *)

\* One sleeper, the first of the list, goes to the end of the ready list.
LEMMA WakeFirst ==
  ASSUME NEW s, NEW rq, NEW sq, IsSch(s), Queues(s, rq, sq), Len(sq) > 0,
         NEW p, p = sq[1], NEW w, w = [s |-> s, prev |-> NULL],
         NEW v, v = WakeOne(w, p)
  PROVE  /\ v = [s |-> v.s, prev |-> NULL] /\ IsSch(v.s)
         /\ Queues(v.s, Append(rq, p), Tail(sq))
         /\ v.s.state = [s.state EXCEPT ![p] = "READY"]
         /\ v.s.until = [s.until EXCEPT ![p] = 0] /\ SameRest(v.s, s)
<1>1. /\ IsChain(s.next, s.head, rq) /\ IsChain(s.next, s.sleep, sq)
      /\ \A i \in 1 .. Len(rq), j \in 1 .. Len(sq) : rq[i] # sq[j]
      /\ s.tail = At(rq, Len(rq))
  BY DEF Queues
<1>2. /\ Len(rq) \in Nat /\ \A i \in 1 .. Len(rq) : rq[i] \in Slots
      /\ Len(sq) \in Nat /\ sq \in Seq(Slots)
      /\ \A i \in 1 .. Len(sq) : sq[i] \in Slots /\ sq[i] # NULL
  BY SMTT(30), <1>1, ChainType
<1>3. p \in Slots /\ s.sleep = p /\ 1 \in 1 .. Len(sq)
  BY SMTT(30), <1>1, <1>2 DEF IsChain, At
<1>4. /\ DOMAIN s = SchFields /\ s.next \in [Slots -> Slots \union {NULL}]
      /\ s.state \in [Slots -> States] /\ s.until \in [Slots -> Nat]
  BY DEF IsSch
<1> DEFINE r == Tail(sq)
           nx == [s.next EXCEPT ![p] = NULL]
           u == [[s EXCEPT !.sleep = s.next[p]]
                   EXCEPT !.next[p] = NULL, !.state[p] = "READY", !.until[p] = 0]
<1>5. v = [w EXCEPT !.s = Enqueue(u, p)]
  BY DEF WakeOne
<1>6. v = [s |-> Enqueue(u, p), prev |-> NULL]
  <2> HIDE DEF u
  <2> QED BY <1>5
<1>7. /\ DOMAIN u = SchFields /\ u.next = nx /\ u.sleep = s.next[p]
      /\ u.head = s.head /\ u.tail = s.tail
      /\ u.state = [s.state EXCEPT ![p] = "READY"] /\ u.until = [s.until EXCEPT ![p] = 0]
  BY <1>4 DEF SchFields
<1>8. SameRest(u, s)
  BY <1>4 DEF SchFields, SameRest
<1> HIDE DEF u
<1>a. "READY" \in States /\ 0 \in Nat
  BY DEF States
<1>b. nx \in [Slots -> Slots \union {NULL}] /\ s.next[p] \in Slots \union {NULL}
  BY <1>3, <1>4
<1>c. u.state \in [Slots -> States] /\ u.until \in [Slots -> Nat]
  BY SMTT(30), <1>3, <1>4, <1>7, <1>a
<1>d. s.head \in Slots \union {NULL} /\ s.tail \in Slots \union {NULL}
  BY DEF IsSch
<1>9. IsSch(u)
  BY <1>7, <1>8, <1>b, <1>c, <1>d, Retyped
<1>10. /\ IsChain(s.next, s.next[p], r) /\ Len(r) = Len(sq) - 1
       /\ \A i \in 1 .. Len(sq) - 1 : r[i] = sq[i + 1] /\ r[i] # p
  <2>a. IsChain(s.next, s.sleep, sq) /\ Len(sq) > 0
    BY <1>1
  <2>1. /\ IsChain(s.next, s.next[s.sleep], Tail(sq)) /\ Len(Tail(sq)) = Len(sq) - 1
        /\ \A i \in 1 .. Len(sq) - 1 : Tail(sq)[i] = sq[i + 1] /\ Tail(sq)[i] # s.sleep
    BY ONLY SMTT(30), <2>a, ChainTail
  <2> QED BY <1>3, <2>1, Zenon
<1> HIDE DEF r
<1>11. \A i \in 1 .. Len(r) : r[i] \in Slots
  BY <1>10, ChainType
<1>12. /\ \A i \in 1 .. Len(r) : nx[r[i]] = s.next[r[i]]
       /\ \A i \in 1 .. Len(rq) : nx[rq[i]] = s.next[rq[i]]
       /\ \A i \in 1 .. Len(rq) : rq[i] # p
  BY SMTT(30), <1>1, <1>2, <1>3, <1>4, <1>10, <1>11
<1> HIDE DEF nx
<1>13. IsChain(nx, s.next[p], r) /\ IsChain(nx, s.head, rq)
  BY SMTT(30), <1>1, <1>10, <1>12, ChainFrame
<1>14. \A i \in 1 .. Len(rq), j \in 1 .. Len(r) : rq[i] # r[j]
  BY SMTT(30), <1>1, <1>2, <1>10
<1>15. Queues(u, rq, r)
  BY <1>1, <1>7, <1>13, <1>14 DEF Queues
<1>16. u.state[p] = "READY" /\ \A i \in 1 .. Len(r) : r[i] # p
  BY <1>3, <1>4, <1>7, <1>10
<1>17. /\ IsSch(Enqueue(u, p)) /\ SameProcesses(Enqueue(u, p), u)
       /\ Queues(Enqueue(u, p), Append(rq, p), r)
  BY <1>3, <1>9, <1>12, <1>15, <1>16, EnqueueQueues
<1>18. v.s = Enqueue(u, p) /\ v = [s |-> v.s, prev |-> NULL]
  BY SMTT(30), <1>6
<1>19. v.s.state = u.state /\ v.s.until = u.until /\ SameRest(v.s, s)
  BY <1>8, <1>17, <1>18 DEF SameProcesses, SameRest
<1> QED BY <1>7, <1>17, <1>18, <1>19 DEF r

LEMMA FunctionIsSeq ==
  ASSUME NEW n \in Nat, NEW f \in [1 .. n -> Slots] PROVE f \in Seq(Slots) /\ Len(f) = n
<1> DEFINE g == [i \in 1 .. n |-> f[i]]
<1>1. g \in Seq(Slots) /\ Len(g) = n
  BY SMTT(30)
<1>2. f = g
  OBVIOUS
<1> HIDE DEF g
<1> QED BY <1>1, <1>2

LEMMA RestIs ==
  ASSUME NEW sq \in Seq(Slots), NEW n \in 0 .. Len(sq)
  PROVE  /\ Rest(sq, n) \in Seq(Slots) /\ Len(Rest(sq, n)) = Len(sq) - n
         /\ \A i \in 1 .. Len(sq) - n : Rest(sq, n)[i] = sq[n + i]
<1>1. Len(sq) \in Nat /\ Len(sq) - n \in Nat /\ \A i \in 1 .. Len(sq) : sq[i] \in Slots
  BY SMTT(30)
<1>2. Rest(sq, n) \in [1 .. Len(sq) - n -> Slots]
  BY SMTT(30), <1>1 DEF Rest
<1>3. Rest(sq, n) \in Seq(Slots) /\ Len(Rest(sq, n)) = Len(sq) - n
  BY <1>1, <1>2, FunctionIsSeq
<1>4. \A i \in 1 .. Len(sq) - n : Rest(sq, n)[i] = sq[n + i]
  BY SMTT(30), <1>1 DEF Rest
<1> QED BY <1>3, <1>4

LEMMA JoinedIs ==
  ASSUME NEW rq \in Seq(Slots), NEW sq \in Seq(Slots), NEW n \in 0 .. Len(sq)
  PROVE  /\ Joined(rq, sq, n) \in Seq(Slots) /\ Len(Joined(rq, sq, n)) = Len(rq) + n
         /\ \A i \in 1 .. Len(rq) : Joined(rq, sq, n)[i] = rq[i]
         /\ \A i \in 1 .. n : Joined(rq, sq, n)[Len(rq) + i] = sq[i]
<1>1. /\ Len(rq) \in Nat /\ \A i \in 1 .. Len(rq) : rq[i] \in Slots
      /\ Len(sq) \in Nat /\ \A i \in 1 .. Len(sq) : sq[i] \in Slots
  BY SMTT(30)
<1>2. \A i \in 1 .. Len(rq) + n : (IF i <= Len(rq) THEN rq[i] ELSE sq[i - Len(rq)]) \in Slots
  BY SMTT(30), <1>1
<1>3. Joined(rq, sq, n) \in [1 .. Len(rq) + n -> Slots]
  BY <1>2 DEF Joined
<1>4. Joined(rq, sq, n) \in Seq(Slots) /\ Len(Joined(rq, sq, n)) = Len(rq) + n
  BY SMTT(30), <1>1, <1>3, FunctionIsSeq
<1>5. /\ \A i \in 1 .. Len(rq) : Joined(rq, sq, n)[i] = rq[i]
      /\ \A i \in 1 .. n : Joined(rq, sq, n)[Len(rq) + i] = sq[i]
  BY SMTT(30), <1>1 DEF Joined
<1> QED BY <1>4, <1>5

\* The next sleeper moves over.
LEMMA JoinedNext ==
  ASSUME NEW rq \in Seq(Slots), NEW sq \in Seq(Slots), NEW n \in 0 .. Len(sq) - 1
  PROVE  /\ Append(Joined(rq, sq, n), sq[n + 1]) = Joined(rq, sq, n + 1)
         /\ Tail(Rest(sq, n)) = Rest(sq, n + 1)
<1> DEFINE a == Joined(rq, sq, n)
           b == Joined(rq, sq, n + 1)
           c == Rest(sq, n)
           d == Rest(sq, n + 1)
<1>1. Len(rq) \in Nat /\ Len(sq) \in Nat /\ sq[n + 1] \in Slots
  BY SMTT(30)
<1>a. n \in 0 .. Len(sq) /\ n + 1 \in 0 .. Len(sq)
  BY SMTT(30), <1>1
<1>b. /\ a \in Seq(Slots) /\ Len(a) = Len(rq) + n
      /\ c \in Seq(Slots) /\ Len(c) = Len(sq) - n
  BY <1>a, JoinedIs, RestIs
<1>c. /\ b \in Seq(Slots) /\ Len(b) = Len(rq) + (n + 1)
      /\ d \in Seq(Slots) /\ Len(d) = Len(sq) - (n + 1)
  BY SMTT(30), <1>a, JoinedIs, RestIs
<1>2. Len(b) = Len(a) + 1 /\ Len(d) = Len(c) - 1 /\ c # <<>>
  BY SMTT(30), <1>1, <1>b, <1>c
<1>3. \A i \in 1 .. Len(b) : b[i] = IF i <= Len(a) THEN a[i] ELSE sq[n + 1]
  BY SMTT(30), <1>1, <1>b, <1>c DEF Joined
<1>4. \A i \in 1 .. Len(d) : d[i] = c[i + 1]
  BY SMTT(30), <1>1, <1>c DEF Rest
<1> HIDE DEF a, b, c, d
<1>5. Append(a, sq[n + 1]) = b
  <2>1. Append(a, sq[n + 1]) \in Seq(Slots) /\ Len(Append(a, sq[n + 1])) = Len(b)
    BY ONLY Zenon, <1>1, <1>2, <1>b, AppendProperties
  <2>2. \A i \in 1 .. Len(b) : Append(a, sq[n + 1])[i] = b[i]
    <3>1. /\ \A i \in 1 .. Len(a) : Append(a, sq[n + 1])[i] = a[i]
          /\ Append(a, sq[n + 1])[Len(a) + 1] = sq[n + 1]
      <4>1. a \in Seq(Slots) /\ sq[n + 1] \in Slots
        BY <1>1, <1>b
      <4> QED BY ONLY SMTT(30), <4>1
    <3>2. Len(a) \in Nat
      BY ONLY SMTT(30), <1>b
    <3> QED BY ONLY SMTT(30), <1>2, <1>3, <3>1, <3>2
  <2> QED BY <1>c, <2>1, <2>2, SeqEqual
<1>6. Tail(c) = d
  <2>1. Tail(c) \in Seq(Slots) /\ Len(Tail(c)) = Len(d)
    BY ONLY Zenon, <1>2, <1>b, HeadTailProperties
  <2>2. \A i \in 1 .. Len(d) : Tail(c)[i] = d[i]
    BY SMTT(30), <1>2, <1>4, <1>b
  <2> QED BY <1>c, <2>1, <2>2, SeqEqual
<1> QED BY <1>5, <1>6 DEF a, b, c, d

\* The loop of sched_do_switch over the sleepers, as the values it goes through.
LEMMA VisitedSleepers ==
  ASSUME MinFact, NEW s, NEW now, NEW q, SleepChain(s) = q, Len(q) \in Nat
  PROVE  \E f : /\ f[0] = [s |-> s, prev |-> NULL]
                /\ \A n \in 1 .. Len(q) : f[n] = VisitSleeper(f[n - 1], q[n], now)
                /\ WakeSleepers(s, now) = f[Len(q)].s
<1> DEFINE start == [s |-> s, prev |-> NULL]
           Good(f, m) == f = [n \in 0 .. m |-> IF n = 0 THEN start
                                              ELSE VisitSleeper(f[n - 1], q[n], now)]
           S == {m \in 0 .. Len(q) : \E f : Good(f, m)}
           g == CHOOSE f : Good(f, Len(q))
<1>1. WakeSleepers(s, now) = g[Len(q)].s
  BY DEF WakeSleepers
<1> HIDE DEF start
<1>2. 0 \in S
  <2> DEFINE f == [n \in 0 .. 0 |-> start]
  <2>1. Good(f, 0)
    BY SMTT(30)
  <2> HIDE DEF f, Good
  <2> QED BY SMTT(30), <2>1
<1>3. ASSUME NEW m \in 1 .. Len(q), m - 1 \in S PROVE m \in S
  <2>1. PICK f : Good(f, m - 1)
    BY <1>3
  <2> DEFINE e == [n \in 0 .. m |-> IF n = m THEN VisitSleeper(f[m - 1], q[m], now) ELSE f[n]]
  <2>2. \A n \in 0 .. m - 1 :
          f[n] = IF n = 0 THEN start ELSE VisitSleeper(f[n - 1], q[n], now)
    BY <2>1
  <2>3. \A n \in 0 .. m : e[n] = IF n = 0 THEN start ELSE VisitSleeper(e[n - 1], q[n], now)
    BY SMTT(30), <2>2
  <2>4. e = [n \in 0 .. m |-> e[n]]
    OBVIOUS
  <2>5. Good(e, m)
    <3> HIDE DEF e
    <3> QED BY <2>3, <2>4
  <2> HIDE DEF e, Good
  <2> QED BY SMTT(30), <2>5
<1>4. \A m \in 0 .. Len(q) : m \in S
  <2> HIDE DEF S
  <2> QED BY <1>2, <1>3, Upwards
<1>5. Good(g, Len(q))
  <2> HIDE DEF Good
  <2>1. \E f : Good(f, Len(q))
    BY SMTT(30), <1>4
  <2> QED BY <2>1
<1>6. g[0] = start /\ \A n \in 1 .. Len(q) : g[n] = VisitSleeper(g[n - 1], q[n], now)
  <2> HIDE DEF g
  <2> QED BY SMTT(30), <1>5
<1> HIDE DEF g
<1> QED BY <1>1, <1>6 DEF start

LEMMA StageFirst ==
  ASSUME NEW s, NEW rq, NEW sq, IsSch(s), Queues(s, rq, sq) PROVE Stage(s, s, rq, sq, 0)
<1>1. rq \in Seq(Slots) /\ sq \in Seq(Slots)
  BY DEF Queues, IsChain
<1>2. Len(rq) \in Nat /\ Len(sq) \in Nat /\ 0 \in 0 .. Len(sq)
  BY SMTT(30), <1>1
<1>3. Joined(rq, sq, 0) = rq
  <2>1. /\ Joined(rq, sq, 0) \in Seq(Slots) /\ Len(Joined(rq, sq, 0)) = Len(rq) + 0
        /\ \A i \in 1 .. Len(rq) : Joined(rq, sq, 0)[i] = rq[i]
    BY <1>1, <1>2, JoinedIs
  <2>2. Len(Joined(rq, sq, 0)) = Len(rq)
    BY SMTT(30), <1>2, <2>1
  <2> QED BY <1>1, <2>1, <2>2, SeqEqual
<1>4. Rest(sq, 0) = sq
  <2>1. /\ Rest(sq, 0) \in Seq(Slots) /\ Len(Rest(sq, 0)) = Len(sq) - 0
        /\ \A i \in 1 .. Len(sq) - 0 : Rest(sq, 0)[i] = sq[0 + i]
    BY <1>1, <1>2, RestIs
  <2>2. Len(Rest(sq, 0)) = Len(sq) /\ \A i \in 1 .. Len(sq) : Rest(sq, 0)[i] = sq[i]
    BY SMTT(30), <1>2, <2>1
  <2> QED BY <1>1, <2>1, <2>2, SeqEqual
<1>5. Woken(s, s, sq, 0)
  <2>1. s.state \in [Slots -> States] /\ s.until \in [Slots -> Nat]
    BY DEF IsSch
  <2>2. \A p \in Slots : ~\E i \in 1 .. 0 : sq[i] = p
    BY SMTT(30)
  <2> QED BY <2>1, <2>2 DEF Woken, SameRest
<1> QED BY <1>3, <1>4, <1>5 DEF Stage

LEMMA StageNext ==
  ASSUME NEW s, NEW rq, NEW sq, IsSch(s), Queues(s, rq, sq),
         NEW n \in 0 .. Len(sq) - 1, NEW t, Stage(t, s, rq, sq, n),
         NEW v, v = WakeOne([s |-> t, prev |-> NULL], sq[n + 1])
  PROVE  v.prev = NULL /\ v = [s |-> v.s, prev |-> NULL] /\ Stage(v.s, s, rq, sq, n + 1)
<1> DEFINE p == sq[n + 1]
           a == Joined(rq, sq, n)
           c == Rest(sq, n)
           u == v.s
<1>1. rq \in Seq(Slots) /\ sq \in Seq(Slots) /\ Len(sq) \in Nat
  BY SMTT(30) DEF Queues, IsChain
<1>2. IsSch(t) /\ Queues(t, a, c) /\ Woken(t, s, sq, n)
  BY DEF Stage
<1>3. Len(c) > 0 /\ p = c[1] /\ p \in Slots
  <2>1. n \in 0 .. Len(sq) /\ 1 \in 1 .. Len(sq) - n /\ p \in Slots /\ Len(sq) - n > 0
    BY SMTT(30), <1>1
  <2>2. Len(c) = Len(sq) - n /\ \A i \in 1 .. Len(sq) - n : c[i] = sq[n + i]
    BY ONLY Zenon, <1>1, <2>1, RestIs
  <2> QED BY <2>1, <2>2
<1>4. /\ Append(a, p) = Joined(rq, sq, n + 1)
      /\ Tail(c) = Rest(sq, n + 1)
  BY <1>1, JoinedNext
<1> DEFINE w == [s |-> t, prev |-> NULL]
<1>a. v = WakeOne(w, p) /\ w = [s |-> t, prev |-> NULL]
  OBVIOUS
<1> HIDE DEF a, c, w, p
<1>5. /\ v = [s |-> u, prev |-> NULL] /\ IsSch(u)
      /\ Queues(u, Append(a, p), Tail(c))
      /\ u.state = [t.state EXCEPT ![p] = "READY"]
      /\ u.until = [t.until EXCEPT ![p] = 0] /\ SameRest(u, t)
  BY SMTT(30), <1>2, <1>3, <1>a, WakeFirst
<1> HIDE DEF u
<1>6. Woken(u, s, sq, n + 1)
  <2>1. /\ t.state = [x \in Slots |-> IF \E i \in 1 .. n : sq[i] = x THEN "READY" ELSE s.state[x]]
        /\ t.until = [x \in Slots |-> IF \E i \in 1 .. n : sq[i] = x THEN 0 ELSE s.until[x]]
        /\ SameRest(t, s)
    BY <1>2 DEF Woken
  <2>2. SameRest(u, s)
    BY <1>5, <2>1 DEF SameRest
  <2>3. \A x : (\E i \in 1 .. n + 1 : sq[i] = x) <=> (x = p \/ \E i \in 1 .. n : sq[i] = x)
    BY SMTT(30), <1>1 DEF p
  <2>4. u.state = [x \in Slots |-> IF \E i \in 1 .. n + 1 : sq[i] = x THEN "READY" ELSE s.state[x]]
    <3>1. u.state = [x \in Slots |-> IF x = p THEN "READY" ELSE t.state[x]]
      BY <1>5, <2>1
    <3>2. \A x \in Slots : (IF x = p THEN "READY" ELSE t.state[x])
                            = IF \E i \in 1 .. n + 1 : sq[i] = x THEN "READY" ELSE s.state[x]
      BY ONLY ZenonT(60), <2>1, <2>3
    <3> QED BY <3>1, <3>2
  <2>5. u.until = [x \in Slots |-> IF \E i \in 1 .. n + 1 : sq[i] = x THEN 0 ELSE s.until[x]]
    <3>1. u.until = [x \in Slots |-> IF x = p THEN 0 ELSE t.until[x]]
      BY <1>5, <2>1
    <3>2. \A x \in Slots : (IF x = p THEN 0 ELSE t.until[x])
                            = IF \E i \in 1 .. n + 1 : sq[i] = x THEN 0 ELSE s.until[x]
      BY ONLY ZenonT(60), <2>1, <2>3
    <3> QED BY <3>1, <3>2
  <2> QED BY <2>2, <2>4, <2>5 DEF Woken
<1>7. Stage(u, s, rq, sq, n + 1)
  BY <1>4, <1>5, <1>6 DEF Stage
<1> QED BY SMTT(30), <1>5, <1>7 DEF u, p

LEMMA DuePrefix ==
  ASSUME MinFact, NEW sq \in Seq(Slots), NEW until \in [Slots -> Nat], NEW now \in Nat,
         \A i, j \in 1 .. Len(sq) : i < j => until[sq[i]] <= until[sq[j]]
  PROVE  \E k \in 0 .. Len(sq) : DueFirst(sq, until, now, k)
<1> DEFINE D == {i \in 1 .. Len(sq) : until[sq[i]] > now} \union {Len(sq) + 1}
           m == Min(D)
<1>1. Len(sq) \in Nat /\ \A i \in 1 .. Len(sq) : until[sq[i]] \in Nat
  BY SMTT(30)
<1>2. D \in SUBSET Nat /\ D # {}
  BY SMTT(30), <1>1
<1>3. m \in D /\ \A y \in D : m <= y
  <2> HIDE DEF D
  <2> QED BY <1>2, MinInSet
<1> HIDE DEF m
<1>4. m \in 1 .. Len(sq) + 1 /\ m - 1 \in 0 .. Len(sq)
  BY SMTT(30), <1>1, <1>3
<1>5. ASSUME NEW i \in 1 .. Len(sq) PROVE i <= m - 1 <=> until[sq[i]] <= now
  <2>1. CASE i < m
    BY SMTT(30), <1>1, <1>3, <1>4, <2>1
  <2>2. CASE i >= m
    <3>1. m \in 1 .. Len(sq) /\ until[sq[m]] > now
      BY SMTT(30), <1>1, <1>3, <1>4, <2>2
    <3>2. until[sq[m]] <= until[sq[i]]
      BY SMTT(30), <1>1, <2>2, <3>1
    <3> QED BY SMTT(30), <1>1, <1>4, <2>2, <3>1, <3>2
  <2> QED BY SMTT(30), <1>4, <2>1, <2>2
<1> QED BY <1>4, <1>5 DEF DueFirst

\* The loop over the sleepers moves those whose time has come, in their order, to
\* the end of the ready list and leaves the others where they are.
LEMMA WakeSleepersQueues ==
  ASSUME MinFact, NEW s, NEW rq, NEW sq, IsSch(s), Queues(s, rq, sq), NEW now \in Nat,
         \A i, j \in 1 .. Len(sq) : i < j => s.until[sq[i]] <= s.until[sq[j]]
  PROVE  \E k \in 0 .. Len(sq) : /\ Stage(WakeSleepers(s, now), s, rq, sq, k)
                                 /\ DueFirst(sq, s.until, now, k)
<1>1. /\ sq \in Seq(Slots) /\ Len(sq) \in Nat /\ IsChain(s.next, s.sleep, sq)
      /\ \A i, j \in 1 .. Len(sq) : sq[i] = sq[j] => i = j
      /\ \A i \in 1 .. Len(sq) : sq[i] \in Slots
  BY SMTT(30) DEF Queues, IsChain
<1>2. SleepChain(s) = sq
  BY ONLY Zenon, MinFact, <1>1, ChainIs DEF SleepChain
<1>3. PICK f : /\ f[0] = [s |-> s, prev |-> NULL]
               /\ \A n \in 1 .. Len(sq) : f[n] = VisitSleeper(f[n - 1], sq[n], now)
               /\ WakeSleepers(s, now) = f[Len(sq)].s
  BY SMTT(30), <1>1, <1>2, VisitedSleepers
<1>4. s.until \in [Slots -> Nat]
  BY DEF IsSch
<1>5. PICK k \in 0 .. Len(sq) : DueFirst(sq, s.until, now, k)
  BY <1>1, <1>4, DuePrefix
<1> DEFINE T == {n \in 0 .. k : /\ f[n] = [s |-> f[n].s, prev |-> NULL]
                                /\ Stage(f[n].s, s, rq, sq, n)}
           U == {n \in 0 .. Len(sq) - k : f[k + n].s = f[k].s /\ DOMAIN f[k + n] = {"s", "prev"}}
<1>6. 0 \in T
  BY SMTT(30), <1>3, StageFirst
<1>7. ASSUME NEW n \in 1 .. k, n - 1 \in T PROVE n \in T
  <2> DEFINE m == n - 1
             t == f[m].s
             p == sq[n]
  <2>1. f[m] = [s |-> t, prev |-> NULL] /\ Stage(t, s, rq, sq, m)
    BY <1>7
  <2>2. m \in 0 .. Len(sq) - 1 /\ m + 1 = n /\ n \in 1 .. Len(sq) /\ p \in Slots
    BY SMTT(30), <1>1
  <2>3. s.until[p] <= now
    BY SMTT(30), <1>5, <2>2 DEF DueFirst
  <2>4. ~\E i \in 1 .. m : sq[i] = p
    BY SMTT(30), <1>1, <2>2
  <2>5. t.until[p] = s.until[p]
    <3> HIDE DEF p, m, t
    <3> QED BY <2>1, <2>2, <2>4 DEF Stage, Woken
  <2>6. f[n] = VisitSleeper(f[m], p, now) /\ f[m].s = t
    BY <1>3, <2>2
  <2>7. f[n] = WakeOne([s |-> t, prev |-> NULL], sq[m + 1])
    <3> HIDE DEF t
    <3> QED BY <2>1, <2>2, <2>3, <2>5, <2>6 DEF VisitSleeper
  <2>8. f[n] = [s |-> f[n].s, prev |-> NULL] /\ Stage(f[n].s, s, rq, sq, m + 1)
    <3> HIDE DEF t, m
    <3> QED BY SMTT(30), <2>1, <2>2, <2>7, StageNext
  <2> QED BY SMTT(30), <2>2, <2>8
<1>8. k \in T
  <2>1. k \in Nat /\ k \in 0 .. k
    BY SMTT(30), <1>1
  <2> HIDE DEF T
  <2> QED BY <1>6, <1>7, <2>1, Upwards
<1>9. Stage(f[k].s, s, rq, sq, k) /\ DOMAIN f[k] = {"s", "prev"}
  BY <1>8
<1>10. Len(sq) - k \in Nat /\ k + (Len(sq) - k) = Len(sq) /\ k + 0 = k
  BY SMTT(30), <1>1
<1>11. 0 \in U
  BY SMTT(30), <1>9, <1>10
<1>12. ASSUME NEW n \in 1 .. Len(sq) - k, n - 1 \in U PROVE n \in U
  <2> DEFINE m == k + n
             p == sq[m]
             t == f[k].s
  <2>1. f[m - 1].s = t /\ DOMAIN f[m - 1] = {"s", "prev"}
    <3>1. k + (n - 1) = m - 1
      BY SMTT(30), <1>1
    <3> QED BY <1>12, <3>1
  <2>2. m \in 1 .. Len(sq) /\ ~(m <= k) /\ p \in Slots /\ ~\E i \in 1 .. k : i = m
    BY SMTT(30), <1>1
  <2>3. ~(s.until[p] <= now)
    BY <1>5, <2>2 DEF DueFirst
  <2>4. ~\E i \in 1 .. k : sq[i] = p
    BY SMTT(30), <1>1, <2>2
  <2>5. t.until[p] = s.until[p]
    <3> HIDE DEF p, m, t
    <3> QED BY <1>9, <2>2, <2>4 DEF Stage, Woken, t
  <2>6. f[m] = VisitSleeper(f[m - 1], p, now)
    BY <1>3, <2>2
  <2>7. f[m] = [f[m - 1] EXCEPT !.prev = p]
    <3> HIDE DEF t, m, p
    <3> QED BY <2>1, <2>3, <2>5, <2>6 DEF VisitSleeper
  <2>8. f[m].s = t /\ DOMAIN f[m] = {"s", "prev"}
    <3> HIDE DEF t, m, p
    <3> QED BY <2>1, <2>7
  <2> QED BY SMTT(30), <2>8
<1>13. f[Len(sq)].s = f[k].s
  <2>1. Len(sq) - k \in U
    <3> DEFINE N == Len(sq) - k
    <3>1. N \in Nat /\ N \in 0 .. N
      BY SMTT(30), <1>10
    <3>2. \A n \in 1 .. N : n - 1 \in U => n \in U
      BY <1>12
    <3> HIDE DEF U, N
    <3>3. N \in U
      BY <1>11, <3>1, <3>2, Upwards
    <3> QED BY <3>3 DEF N
  <2> QED BY <1>10, <2>1
<1> QED BY <1>3, <1>5, <1>9, <1>13

LEMMA ListFactsHold == ASSUME MinFact PROVE ListFacts
<1>1. MinFact
  OBVIOUS
<1>2. UpwardsFact
  BY ONLY Zenon, <1>1, Upwards DEF UpwardsFact
<1>3. AppendFact
  BY ONLY Zenon, AppendProperties DEF AppendFact
<1>4. HeadTailFact
  BY ONLY Zenon, HeadTailProperties DEF HeadTailFact
<1>5. ChainTypeFact
  BY ONLY Zenon, ChainType DEF ChainTypeFact
<1>6. ChainFrameFact
  BY ONLY Zenon, ChainFrame DEF ChainFrameFact
<1>7. ChainIsFact
  BY ONLY Zenon, <1>1, ChainIs DEF ChainIsFact
<1>8. RestFact
  BY ONLY Zenon, RestIs DEF RestFact
<1>9. JoinedFact
  BY ONLY Zenon, JoinedIs DEF JoinedFact
<1>10. EnqueueFact
  BY ONLY ZenonT(60), EnqueueQueues DEF EnqueueFact
<1>11. DequeueFact
  BY ONLY Zenon, DequeueQueues DEF DequeueFact
<1>12. SleepInsertFact
  <2> USE DEF SleepInsertFact
  <2> TAKE s, rq, sq
  <2> TAKE p \in Slots
  <2> TAKE t
  <2> HAVE /\ IsSch(s) /\ Queues(s, rq, sq)
           /\ \A i \in 1 .. Len(rq) : rq[i] # p
           /\ \A i \in 1 .. Len(sq) : sq[i] # p
           /\ t = SleepInsert(s, p)
  <2> QED BY SleepInsertQueues
<1>13. WakeSleepersFact
  BY ONLY Zenon, <1>1, WakeSleepersQueues DEF WakeSleepersFact
<1> QED BY ONLY ZenonT(60), <1>1, <1>2, <1>3, <1>4, <1>5, <1>6, <1>7, <1>8, <1>9, <1>10, <1>11, <1>12,
               <1>13
        DEF ListFacts

-----------------------------------------------------------------------------
(* sched_wakeup.                                                           *)

LEMMA IdleSlot == Idle \in Slots
BY SMTT(30), ConstantsAssumption DEF Idle, Slots

\* The loop of sched_wakeup over the table, as the values it goes through.
LEMMA VisitedSlots ==
  ASSUME ListFacts, NEW s, NEW ch
  PROVE  \E f : /\ f[0] = s
                /\ \A n \in 1 .. NSlots : f[n] = VisitSlot(f[n - 1], n - 1, ch)
                /\ WakeChannel(s, ch) = f[NSlots]
<1> DEFINE Good(f, m) == f = [n \in 0 .. m |-> IF n = 0 THEN s
                                              ELSE VisitSlot(f[n - 1], n - 1, ch)]
           S == {m \in 0 .. NSlots : \E f : Good(f, m)}
           g == CHOOSE f : Good(f, NSlots)
<1>1. WakeChannel(s, ch) = g[NSlots]
  BY DEF WakeChannel
<1>a. NSlots \in Nat
  BY ConstantsAssumption
<1>2. 0 \in S
  <2> DEFINE f == [n \in 0 .. 0 |-> s]
  <2>1. Good(f, 0)
    BY SMTT(30)
  <2> HIDE DEF f, Good
  <2> QED BY SMTT(30), <1>a, <2>1
<1>3. ASSUME NEW m \in 1 .. NSlots, m - 1 \in S PROVE m \in S
  <2>1. PICK f : Good(f, m - 1)
    BY <1>3
  <2> DEFINE e == [n \in 0 .. m |-> IF n = m THEN VisitSlot(f[m - 1], m - 1, ch) ELSE f[n]]
  <2>2. \A n \in 0 .. m - 1 : f[n] = IF n = 0 THEN s ELSE VisitSlot(f[n - 1], n - 1, ch)
    BY <2>1
  <2>3. \A n \in 0 .. m : e[n] = IF n = 0 THEN s ELSE VisitSlot(e[n - 1], n - 1, ch)
    BY SMTT(30), <2>2
  <2>4. e = [n \in 0 .. m |-> e[n]]
    OBVIOUS
  <2>5. Good(e, m)
    <3> HIDE DEF e
    <3> QED BY <2>3, <2>4
  <2> HIDE DEF e, Good
  <2> QED BY SMTT(30), <2>5
<1>4. \A m \in 0 .. NSlots : m \in S
  <2> HIDE DEF S
  <2> QED BY <1>a, <1>2, <1>3 DEF ListFacts, UpwardsFact
<1>5. Good(g, NSlots)
  <2> HIDE DEF Good
  <2>1. \E f : Good(f, NSlots)
    BY SMTT(30), <1>a, <1>4
  <2> QED BY <2>1
<1>6. g[0] = s /\ \A n \in 1 .. NSlots : g[n] = VisitSlot(g[n - 1], n - 1, ch)
  <2> HIDE DEF g
  <2> QED BY SMTT(30), <1>a, <1>5
<1> HIDE DEF g
<1> QED BY <1>1, <1>6

LEMMA VisitSlotStage ==
  ASSUME ListFacts, NEW s, NEW rq \in Seq(Slots), NEW sq, NEW ch, IsSch(s),
         NEW W \in SUBSET Slots, NEW p \in Slots \ W,
         NEW t, ChannelStage(t, s, rq, sq, W),
         s.state[p] = "BLOCKED" => /\ \A i \in 1 .. Len(rq) : rq[i] # p
                                   /\ \A i \in 1 .. Len(sq) : sq[i] # p,
         NEW v, v = VisitSlot(t, p, ch)
  PROVE  ChannelStage(v, s, rq, sq, IF p \in Waiting(s, ch) THEN W \union {p} ELSE W)
<1>1. IsSch(t) /\ Unblocked(t, s, W)
  BY DEF ChannelStage
<1>2. PICK rq2 : Queues(t, rq2, sq) /\ Grown(rq2, rq, W)
  BY DEF ChannelStage
<1>3. t.state[p] = s.state[p] /\ t.chan[p] = s.chan[p]
  BY <1>1 DEF Unblocked
<1>4. CASE p \notin Waiting(s, ch)
  BY <1>3, <1>4 DEF VisitSlot, Waiting
<1>5. CASE p \in Waiting(s, ch)
  <2> DEFINE u == [t EXCEPT !.state[p] = "READY", !.chan[p] = NULL, !.resched = TRUE]
             W2 == W \union {p}
             rq3 == Append(rq2, p)
  <2>1. v = Enqueue(u, p) /\ s.state[p] = "BLOCKED"
    BY <1>3, <1>5 DEF VisitSlot, Waiting
  <2>2. /\ DOMAIN t = SchFields
        /\ t.state \in [Slots -> States] /\ t.chan \in [Slots -> Channels \union {NULL}]
    BY <1>1 DEF IsSch
  <2>3. /\ DOMAIN u = SchFields /\ u.state = [t.state EXCEPT ![p] = "READY"]
        /\ u.chan = [t.chan EXCEPT ![p] = NULL] /\ u.resched = TRUE
        /\ u.next = t.next /\ u.head = t.head /\ u.tail = t.tail /\ u.sleep = t.sleep
    BY <2>2 DEF SchFields
  <2>4. /\ u.pid = t.pid /\ u.until = t.until /\ u.ticks = t.ticks /\ u.kstack = t.kstack
        /\ u.cr3 = t.cr3 /\ u.mask = t.mask /\ u.pending = t.pending /\ u.cur = t.cur
        /\ u.mmu = t.mmu
    BY <2>2 DEF SchFields
  <2> HIDE DEF u
  <2>5. "READY" \in States
    BY DEF States
  <2>6. u.state \in [Slots -> States] /\ u.chan \in [Slots -> Channels \union {NULL}]
    BY SMTT(30), <2>2, <2>3, <2>5
  <2>7. IsSch(u)
    BY ONLY Zenon, <1>1, <2>3, <2>4, <2>6 DEF IsSch
  <2>8. Queues(u, rq2, sq)
    BY ONLY Zenon, <1>2, <2>3 DEF Queues
  <2>9. u.state[p] = "READY"
    BY SMTT(30), <2>2, <2>3
  <2>10. rq2 \in Seq(Slots) /\ Len(rq2) \in Nat /\ Len(rq) \in Nat
    BY SMTT(30), <1>2 DEF Queues, IsChain
  <2>11. \A i \in 1 .. Len(rq2) : rq2[i] # p
    <3>1. \A i \in 1 .. Len(rq) : rq[i] # p
      BY <2>1
    <3>2. \A i \in 1 .. Len(rq2) : i \in 1 .. Len(rq) \/ i \in Len(rq) + 1 .. Len(rq2)
      BY SMTT(30), <2>10
    <3> QED BY <1>2, <3>1, <3>2 DEF Grown
  <2>12. \A i \in 1 .. Len(sq) : sq[i] # p
    BY <2>1
  <2>13. IsSch(v) /\ SameProcesses(v, u) /\ Queues(v, rq3, sq)
    BY ONLY Zenon, <2>1, <2>7, <2>8, <2>9, <2>11, <2>12, ListFacts DEF ListFacts, EnqueueFact
  <2>14. Unblocked(v, s, W2)
    <3>1. v.state = [x \in Slots |-> IF x \in W2 THEN "READY" ELSE s.state[x]]
      <4>1. v.state = [t.state EXCEPT ![p] = "READY"]
        BY <2>3, <2>13 DEF SameProcesses
      <4> QED BY ONLY SMTT(30), <1>1, <4>1 DEF Unblocked
    <3>2. v.chan = [x \in Slots |-> IF x \in W2 THEN NULL ELSE s.chan[x]]
      <4>1. v.chan = [t.chan EXCEPT ![p] = NULL]
        BY <2>3, <2>13 DEF SameProcesses, SameRest
      <4> QED BY ONLY SMTT(30), <1>1, <4>1 DEF Unblocked
    <3> QED BY ONLY Zenon, <1>1, <2>4, <2>13, <3>1, <3>2 DEF Unblocked, SameProcesses, SameRest
  <2>15. Grown(rq3, rq, W2)
    <3>1. Len(rq3) = Len(rq2) + 1 /\ rq3[Len(rq3)] = p
          /\ \A i \in 1 .. Len(rq2) : rq3[i] = rq2[i]
      BY ONLY SMTT(30), <2>10, p \in Slots, ListFacts DEF ListFacts, AppendFact
    <3>2. Len(rq) <= Len(rq3) /\ \A i \in 1 .. Len(rq) : rq3[i] = rq[i]
      BY ONLY SMTT(30), <1>2, <2>10, <3>1 DEF Grown
    <3>3. \A i \in Len(rq) + 1 .. Len(rq3) : rq3[i] \in W2
      BY ONLY SMTT(30), <1>2, <2>10, <3>1 DEF Grown
    <3>4. \A x \in W2 : \E i \in Len(rq) + 1 .. Len(rq3) : rq3[i] = x
      BY ONLY SMTT(30), <1>2, <2>10, <3>1 DEF Grown
    <3> QED BY ONLY Zenon, <3>2, <3>3, <3>4 DEF Grown
  <2> HIDE DEF W2, rq3
  <2>16. ChannelStage(v, s, rq, sq, W2)
    BY ONLY Zenon, <2>13, <2>14, <2>15 DEF ChannelStage
  <2> QED BY <1>5, <2>16 DEF W2
<1> QED BY <1>4, <1>5

\* sched_wakeup appends exactly the processes blocked on the channel.
LEMMA WakeChannelQueues ==
  ASSUME ListFacts, NEW s, NEW rq, NEW sq, NEW ch, IsSch(s), Queues(s, rq, sq),
         \A p \in Waiting(s, ch) : /\ \A i \in 1 .. Len(rq) : rq[i] # p
                                   /\ \A i \in 1 .. Len(sq) : sq[i] # p
  PROVE  ChannelStage(WakeChannel(s, ch), s, rq, sq, Waiting(s, ch))
<1>1. PICK f : /\ f[0] = s
               /\ \A n \in 1 .. NSlots : f[n] = VisitSlot(f[n - 1], n - 1, ch)
               /\ WakeChannel(s, ch) = f[NSlots]
  BY SMTT(30), VisitedSlots
<1> DEFINE W(n) == {p \in Waiting(s, ch) : p < n}
           T == {n \in 0 .. NSlots : ChannelStage(f[n], s, rq, sq, W(n))}
<1>2. rq \in Seq(Slots) /\ Len(rq) \in Nat /\ NSlots \in Nat
  BY SMTT(30), ConstantsAssumption DEF Queues, IsChain
<1>3. 0 \in T
  <2>1. W(0) = {}
    BY SMTT(30) DEF Waiting, Slots
  <2>2. s.state \in [Slots -> States] /\ s.chan \in [Slots -> Channels \union {NULL}]
    BY DEF IsSch
  <2>3. Unblocked(s, s, {})
    BY <2>2 DEF Unblocked
  <2>4. Grown(rq, rq, {})
    BY SMTT(30), <1>2 DEF Grown
  <2>5. ChannelStage(s, s, rq, sq, {})
    BY <2>3, <2>4 DEF ChannelStage
  <2> HIDE DEF W
  <2>6. ChannelStage(f[0], s, rq, sq, W(0))
    BY <1>1, <2>1, <2>5
  <2> QED BY SMTT(30), <1>2, <2>6
<1>4. ASSUME NEW n \in 1 .. NSlots, n - 1 \in T PROVE n \in T
  <2> DEFINE p == n - 1
  <2>1. p \in Slots /\ p \notin W(p) /\ W(p) \in SUBSET Slots
    BY SMTT(30), <1>2 DEF Slots, Waiting
  <2>2. W(n) = IF p \in Waiting(s, ch) THEN W(p) \union {p} ELSE W(p)
    BY SMTT(30), <1>2 DEF Slots, Waiting
  <2>3. ChannelStage(f[p], s, rq, sq, W(p)) /\ f[n] = VisitSlot(f[p], p, ch)
    BY <1>1, <1>4
  <2> HIDE DEF p, W, T
  <2> SUFFICES ChannelStage(f[n], s, rq, sq, W(n))
    BY SMTT(30) DEF T
  <2>4. CASE p \in Waiting(s, ch)
    <3>1. /\ \A i \in 1 .. Len(rq) : rq[i] # p
          /\ \A i \in 1 .. Len(sq) : sq[i] # p
      BY <2>4
    <3>2. p \in Slots \ W(p) /\ IsSch(s)
      BY <2>1
    <3>3. ChannelStage(f[n], s, rq, sq, IF p \in Waiting(s, ch) THEN W(p) \union {p} ELSE W(p))
      BY ONLY Zenon, <1>2, <2>1, <2>3, <3>1, <3>2, VisitSlotStage, ListFacts
    <3> QED BY <2>2, <3>3
  <2>5. CASE p \notin Waiting(s, ch)
    <3>1. IsSch(f[p]) /\ Unblocked(f[p], s, W(p))
      BY <2>3 DEF ChannelStage
    <3>2. f[p].state[p] = s.state[p] /\ f[p].chan[p] = s.chan[p]
      BY <2>1, <3>1 DEF Unblocked
    <3>3. f[n] = f[p]
      BY <2>1, <2>3, <2>5, <3>2 DEF VisitSlot, Waiting
    <3> QED BY <2>2, <2>3, <2>5, <3>3
  <2> QED BY <2>4, <2>5
<1>5. NSlots \in T
  <2> HIDE DEF T
  <2>1. \A n \in 1 .. NSlots : n - 1 \in T => n \in T
    BY ONLY Zenon, <1>4
  <2>2. \A n \in 0 .. NSlots : n \in T
    BY ONLY Zenon, <1>2, <1>3, <2>1, ListFacts DEF ListFacts, UpwardsFact
  <2>3. NSlots \in 0 .. NSlots
    BY ONLY SMTT(30), <1>2
  <2> QED BY ONLY Zenon, <2>2, <2>3
<1>6. W(NSlots) = Waiting(s, ch)
  BY SMTT(30), <1>2 DEF Waiting, Slots
<1> QED BY <1>1, <1>5, <1>6

-----------------------------------------------------------------------------
(* sched_do_switch.                                                        *)

\* The steps of sched_do_switch after the loop over the sleepers.
Requeue(s, w) ==
  IF w.state[s.cur] = "RUNNING" /\ w.pid[s.cur] # 0
  THEN Enqueue([w EXCEPT !.state[s.cur] = "READY"], s.cur) ELSE w

HeadOrIdle(d) == IF d.head = NULL THEN Idle ELSE d.head

Dispatch(d, n) == [Dequeue(d) EXCEPT !.state[n] = "RUNNING", !.resched = FALSE]

Load(s, e, n) ==
  IF n = s.cur THEN e
  ELSE [e EXCEPT !.ticks = Slice,
                 !.mmu = IF s.cr3[s.cur] # s.cr3[n] THEN s.cr3[n] ELSE @,
                 !.cur = n]

\* Up to the choice of the next process.
LEMMA RequeueQueues ==
  ASSUME ListFacts, NEW s, NEW rq, NEW sq, IsSch(s), Queues(s, rq, sq),
         NEW k \in 0 .. Len(sq), NEW w, Stage(w, s, rq, sq, k),
         s.state[s.cur] = "RUNNING" => \A i \in 1 .. Len(sq) : sq[i] # s.cur,
         Requeued(s) => \A i \in 1 .. Len(rq) : rq[i] # s.cur,
         NEW d, d = Requeue(s, w)
  PROVE  /\ IsSch(d) /\ Queues(d, Candidates(s, rq, sq, k), Rest(sq, k))
         /\ d.state = [p \in Slots |->
                         IF (p = s.cur /\ Requeued(s)) \/ \E i \in 1 .. k : sq[i] = p
                         THEN "READY" ELSE s.state[p]]
         /\ d.until = w.until /\ SameRest(d, s)
<1> DEFINE c == s.cur
           a == Joined(rq, sq, k)
           r == Rest(sq, k)
<1>1. c \in Slots /\ s.state \in [Slots -> States]
  BY DEF IsSch
<1>2. IsSch(w) /\ Queues(w, a, r) /\ Woken(w, s, sq, k)
  BY DEF Stage
<1>3. rq \in Seq(Slots) /\ sq \in Seq(Slots) /\ Len(rq) \in Nat /\ Len(sq) \in Nat
  BY SMTT(30) DEF Queues, IsChain
<1>4. /\ w.state = [p \in Slots |-> IF \E i \in 1 .. k : sq[i] = p THEN "READY" ELSE s.state[p]]
      /\ SameRest(w, s)
  BY <1>2 DEF Woken
<1>5. w.pid = s.pid
  BY <1>4 DEF SameRest
<1>6. w.state[c] = "RUNNING" <=> s.state[c] = "RUNNING"
  BY SMTT(30), <1>1, <1>3, <1>4
<1>7. (w.state[c] = "RUNNING" /\ w.pid[c] # 0) <=> Requeued(s)
  BY <1>5, <1>6 DEF Requeued
<1>8. CASE ~Requeued(s)
  <2>1. d = w
    BY <1>7, <1>8 DEF Requeue
  <2> QED BY ONLY Zenon, <1>2, <1>4, <1>8, <2>1 DEF Candidates
<1>9. CASE Requeued(s)
  <2> DEFINE u == [w EXCEPT !.state[c] = "READY"]
  <2>1. d = Enqueue(u, c)
    BY <1>7, <1>9 DEF Requeue
  <2>2. DOMAIN w = SchFields /\ w.state \in [Slots -> States]
    BY ONLY Zenon, <1>2 DEF IsSch
  <2>3. /\ DOMAIN u = SchFields /\ u.state = [w.state EXCEPT ![c] = "READY"]
        /\ u.next = w.next /\ u.head = w.head /\ u.tail = w.tail /\ u.sleep = w.sleep
        /\ u.until = w.until /\ SameRest(u, w)
    BY <2>2 DEF SchFields, SameRest
  <2> HIDE DEF u
  <2>4. "READY" \in States
    BY DEF States
  <2>5. u.state \in [Slots -> States] /\ u.state[c] = "READY"
    BY <1>1, <2>2, <2>3, <2>4
  <2>6. IsSch(u)
    BY ONLY Zenon, <1>2, <2>3, <2>5 DEF IsSch, SameRest
  <2>7. Queues(u, a, r)
    BY ONLY Zenon, <1>2, <2>3 DEF Queues
  <2>8. /\ \A i \in 1 .. Len(rq) : rq[i] # c
        /\ \A i \in 1 .. Len(sq) : sq[i] # c
    BY <1>9 DEF Requeued
  <2>9. /\ Len(a) = Len(rq) + k /\ \A i \in 1 .. Len(rq) : a[i] = rq[i]
        /\ \A i \in 1 .. k : a[Len(rq) + i] = sq[i]
    BY ONLY Zenon, <1>3, k \in 0 .. Len(sq), ListFacts DEF ListFacts, JoinedFact
  <2>a. Len(r) = Len(sq) - k /\ \A i \in 1 .. Len(sq) - k : r[i] = sq[k + i]
    BY ONLY Zenon, <1>3, k \in 0 .. Len(sq), ListFacts DEF ListFacts, RestFact
  <2>10. ASSUME NEW i \in 1 .. Len(a) PROVE a[i] # c
    <3>1. CASE i <= Len(rq)
      BY SMTT(30), <1>3, <2>8, <2>9, <3>1
    <3>2. CASE i > Len(rq)
      <4>1. i - Len(rq) \in 1 .. k /\ Len(rq) + (i - Len(rq)) = i /\ i - Len(rq) \in 1 .. Len(sq)
        BY SMTT(30), <1>3, <2>9, <3>2
      <4> QED BY ONLY Zenon, <2>8, <2>9, <4>1
    <3> QED BY SMTT(30), <1>3, <2>9, <3>1, <3>2
  <2>11. ASSUME NEW i \in 1 .. Len(r) PROVE r[i] # c
    <3>1. i \in 1 .. Len(sq) - k /\ k + i \in 1 .. Len(sq)
      BY SMTT(30), <1>3, <2>a
    <3> QED BY ONLY Zenon, <2>8, <2>a, <3>1
  <2> HIDE DEF a, r, c
  <2>12. IsSch(d) /\ SameProcesses(d, u) /\ Queues(d, Append(a, c), r)
    BY ONLY Zenon, <1>1, <2>1, <2>5, <2>6, <2>7, <2>10, <2>11, ListFacts DEF ListFacts, EnqueueFact
  <2>13. d.state = [w.state EXCEPT ![c] = "READY"] /\ d.until = w.until
    BY <2>3, <2>12 DEF SameProcesses
  <2>14. d.state = [p \in Slots |-> IF p = c \/ \E i \in 1 .. k : sq[i] = p
                                    THEN "READY" ELSE s.state[p]]
    BY ONLY Zenon, <1>1, <1>4, <2>13
  <2>15. SameRest(d, s)
    BY ONLY Zenon, <1>4, <2>3, <2>12 DEF SameProcesses, SameRest
  <2> QED BY ONLY Zenon, <1>9, <2>12, <2>13, <2>14, <2>15 DEF Candidates, a, r, c
<1> QED BY <1>8, <1>9

Dispatched(t, s, d, n) ==
  /\ t.state = [d.state EXCEPT ![n] = "RUNNING"] /\ t.until = d.until
  /\ t.pid = s.pid /\ t.chan = s.chan /\ t.kstack = s.kstack /\ t.cr3 = s.cr3
  /\ t.mask = s.mask /\ t.pending = s.pending /\ t.cur = n
  /\ t.mmu = IF n = s.cur \/ s.cr3[s.cur] = s.cr3[n] THEN s.mmu ELSE s.cr3[n]

\* From there on: the first of the list, or the idle process, runs.
LEMMA DispatchQueues ==
  ASSUME ListFacts, NEW s, NEW d, NEW q, NEW r, IsSch(s), IsSch(d), Queues(d, q, r), SameRest(d, s),
         NEW n, n = HeadOrIdle(d), NEW e, e = Dispatch(d, n), NEW t, t = Load(s, e, n)
  PROVE  /\ n = Chosen(q) /\ n \in Slots /\ IsSch(t) /\ Queues(t, Behind(q), r)
         /\ Dispatched(t, s, d, n)
<1> DEFINE g == Dequeue(d)
<1>1. IsChain(d.next, d.head, q)
  BY DEF Queues
<1>2. /\ Len(q) \in Nat /\ (d.head = NULL <=> Len(q) = 0)
      /\ \A i \in 1 .. Len(q) : q[i] \in Slots
  BY ONLY Zenon, <1>1, ListFacts DEF ListFacts, ChainTypeFact
<1>3. Len(q) # 0 => d.head = q[1]
  BY <1>1, <1>2 DEF IsChain, At
<1>4. Idle \in Slots
  BY IdleSlot
<1>5. n = Chosen(q) /\ n \in Slots
  BY SMTT(30), <1>2, <1>3, <1>4 DEF Chosen, HeadOrIdle
<1>6. IsSch(g) /\ SameProcesses(g, d) /\ Queues(g, Behind(q), r)
  <2>1. CASE Len(q) = 0
    <3>1. g = d /\ Behind(q) = q
      BY <1>2, <2>1 DEF Dequeue, Behind
    <3> QED BY <3>1 DEF SameProcesses, SameRest
  <2>2. CASE Len(q) # 0
    <3>1. Len(q) > 0 /\ Behind(q) = Tail(q)
      BY SMTT(30), <1>2, <2>2 DEF Behind
    <3> QED BY <3>1 DEF ListFacts, DequeueFact
  <2> QED BY <2>1, <2>2
<1>7. e = [g EXCEPT !.state[n] = "RUNNING", !.resched = FALSE]
  BY DEF Dispatch
<1> HIDE DEF g
<1>8. DOMAIN g = SchFields /\ g.state \in [Slots -> States]
  BY <1>6 DEF IsSch
<1>9. /\ DOMAIN e = SchFields /\ e.state = [g.state EXCEPT ![n] = "RUNNING"]
      /\ e.resched = FALSE /\ e.next = g.next /\ e.head = g.head /\ e.tail = g.tail
      /\ e.sleep = g.sleep /\ e.until = g.until /\ e.ticks = g.ticks /\ e.cur = g.cur
      /\ e.mmu = g.mmu
  BY ONLY Zenon, <1>7, <1>8 DEF SchFields
<1>10. /\ e.pid = g.pid /\ e.chan = g.chan /\ e.kstack = g.kstack /\ e.cr3 = g.cr3
       /\ e.mask = g.mask /\ e.pending = g.pending
  BY ONLY Zenon, <1>7, <1>8 DEF SchFields
<1>11. /\ DOMAIN t = SchFields /\ t.state = e.state /\ t.resched = e.resched
       /\ t.next = e.next /\ t.head = e.head /\ t.tail = e.tail /\ t.sleep = e.sleep
       /\ t.until = e.until /\ t.pid = e.pid /\ t.chan = e.chan
       /\ t.kstack = e.kstack /\ t.cr3 = e.cr3 /\ t.mask = e.mask /\ t.pending = e.pending
  <2>1. CASE n = s.cur
    BY <1>9, <2>1 DEF Load
  <2>2. CASE n # s.cur
    <3>1. t = [e EXCEPT !.ticks = Slice,
                        !.mmu = IF s.cr3[s.cur] # s.cr3[n] THEN s.cr3[n] ELSE @,
                        !.cur = n]
      BY <2>2 DEF Load
    <3> QED BY ONLY Zenon, <1>9, <3>1 DEF SchFields
  <2> QED BY <2>1, <2>2
<1>12. /\ g.cur = s.cur /\ g.mmu = s.mmu /\ g.pid = s.pid /\ g.chan = s.chan
       /\ g.kstack = s.kstack /\ g.cr3 = s.cr3 /\ g.mask = s.mask /\ g.pending = s.pending
       /\ g.state = d.state /\ g.until = d.until
  BY <1>6 DEF SameProcesses, SameRest
<1>13. /\ t.cur = n /\ t.ticks \in Nat
       /\ t.mmu = IF n = s.cur \/ s.cr3[s.cur] = s.cr3[n] THEN s.mmu ELSE s.cr3[n]
  <2>1. Slice \in Nat /\ g.ticks \in Nat
    BY <1>6, ConstantsAssumption DEF IsSch
  <2>2. CASE n = s.cur
    BY <1>9, <1>12, <2>1, <2>2 DEF Load
  <2>3. CASE n # s.cur
    <3>1. t = [e EXCEPT !.ticks = Slice,
                        !.mmu = IF s.cr3[s.cur] # s.cr3[n] THEN s.cr3[n] ELSE @,
                        !.cur = n]
      BY <2>3 DEF Load
    <3>2. /\ t.cur = n /\ t.ticks = Slice
          /\ t.mmu = IF s.cr3[s.cur] # s.cr3[n] THEN s.cr3[n] ELSE e.mmu
      BY ONLY Zenon, <1>9, <3>1 DEF SchFields
    <3> QED BY ONLY Zenon, <1>9, <1>12, <2>1, <2>3, <3>2
  <2> QED BY <2>2, <2>3
<1>14. "RUNNING" \in States
  BY DEF States
<1>15. e.state \in [Slots -> States]
  BY ONLY Zenon, <1>5, <1>8, <1>9, <1>14
<1>16. t.mmu \in Spaces \union {KPML4, NULL}
  <2>1. s.cr3 \in [Slots -> Spaces \union {KPML4, NULL}] /\ s.mmu \in Spaces \union {KPML4, NULL}
    BY DEF IsSch
  <2>2. s.cr3[n] \in Spaces \union {KPML4, NULL}
    BY ONLY Zenon, <1>5, <2>1
  <2> QED BY ONLY Zenon, <1>13, <2>1, <2>2
<1>17. IsSch(t)
  BY ONLY ZenonT(60), <1>5, <1>6, <1>9, <1>10, <1>11, <1>13, <1>15, <1>16 DEF IsSch
<1>18. Queues(t, Behind(q), r)
  BY ONLY Zenon, <1>6, <1>9, <1>11 DEF Queues
<1>19. Dispatched(t, s, d, n)
  BY ONLY Zenon, <1>9, <1>10, <1>11, <1>12, <1>13 DEF Dispatched
<1> QED BY <1>5, <1>17, <1>18, <1>19

LEMMA DoSwitchQueues ==
  ASSUME ListFacts, NEW s, NEW rq, NEW sq, IsSch(s), Queues(s, rq, sq), NEW now \in Nat,
         \A i, j \in 1 .. Len(sq) : i < j => s.until[sq[i]] <= s.until[sq[j]],
         s.state[s.cur] = "RUNNING" => \A i \in 1 .. Len(sq) : sq[i] # s.cur,
         Requeued(s) => \A i \in 1 .. Len(rq) : rq[i] # s.cur,
         NEW t, t = DoSwitch(s, now)
  PROVE  \E k \in 0 .. Len(sq) : SwitchResult(t, s, rq, sq, now, k)
<1> DEFINE w == WakeSleepers(s, now)
           d == Requeue(s, w)
           n == HeadOrIdle(d)
           e == Dispatch(d, n)
<1>1. PICK k \in 0 .. Len(sq) : Stage(w, s, rq, sq, k) /\ DueFirst(sq, s.until, now, k)
  BY DEF ListFacts, WakeSleepersFact
<1> DEFINE q == Candidates(s, rq, sq, k)
           r == Rest(sq, k)
<1>2. t = Load(s, e, n)
  BY DEF DoSwitch, Load, Dispatch, HeadOrIdle, Requeue
<1> HIDE DEF w
<1>3. /\ IsSch(d) /\ Queues(d, q, r)
      /\ d.state = [p \in Slots |->
                      IF (p = s.cur /\ Requeued(s)) \/ \E i \in 1 .. k : sq[i] = p
                      THEN "READY" ELSE s.state[p]]
      /\ d.until = w.until /\ SameRest(d, s)
  BY <1>1, RequeueQueues
<1>4. n = HeadOrIdle(d) /\ e = Dispatch(d, n)
  OBVIOUS
<1> HIDE DEF d, n, e, q, r
<1>5. /\ n = Chosen(q) /\ n \in Slots /\ IsSch(t) /\ Queues(t, Behind(q), r)
      /\ Dispatched(t, s, d, n)
  <2>1. IsSch(s) /\ IsSch(d) /\ Queues(d, q, r) /\ SameRest(d, s)
    BY <1>3
  <2> QED BY ONLY SMTT(30), <1>2, <1>4, <2>1, DispatchQueues, ListFacts
<1>6. t.until = [p \in Slots |-> IF \E i \in 1 .. k : sq[i] = p THEN 0 ELSE s.until[p]]
  BY <1>1, <1>3, <1>5 DEF Stage, Woken, Dispatched
<1>7. t.state = [p \in Slots |->
        IF p = n THEN "RUNNING"
        ELSE IF (p = s.cur /\ Requeued(s)) \/ \E i \in 1 .. k : sq[i] = p THEN "READY"
        ELSE s.state[p]]
  BY ONLY SMTT(30), <1>3, <1>5 DEF Dispatched
<1>8. SwitchedTo(t, s, sq, k, n)
  BY ONLY Zenon, <1>5, <1>6, <1>7 DEF SwitchedTo, Dispatched
<1>a. Separate(q, r)
  BY ONLY Zenon, <1>3 DEF Separate, Queues, IsChain
<1>9. SwitchResult(t, s, rq, sq, now, k)
  BY ONLY Zenon, <1>1, <1>5, <1>8, <1>a DEF SwitchResult, q, r
<1> QED BY <1>9

\* What sched_do_switch does where the invariant holds.
LEMMA SwitchIs ==
  ASSUME ListFacts, NEW s, NEW at, NEW rq, NEW sq, IsSch(s), Sound(s, at, rq, sq),
         NEW now \in Nat, NEW t, t = DoSwitch(s, now)
  PROVE  \E k \in 0 .. Len(sq) : SwitchResult(t, s, rq, sq, now, k)
<1>1. Queues(s, rq, sq) /\ Listed(s, rq, sq) /\ Inside(s, at, rq, sq)
  BY DEF Sound
<1>3. \A i, j \in 1 .. Len(sq) : i < j => s.until[sq[i]] <= s.until[sq[j]]
  BY <1>1 DEF Listed
<1>4. s.state[s.cur] = "RUNNING" => \A i \in 1 .. Len(sq) : sq[i] # s.cur
  BY <1>1 DEF Listed
<1>5. Requeued(s) => s.cur # Idle /\ s.state[s.cur] = "RUNNING"
  BY <1>1 DEF Requeued, Listed
<1>6. Requeued(s) => \A i \in 1 .. Len(rq) : rq[i] # s.cur
  BY <1>1, <1>5 DEF Listed
<1> QED BY <1>1, <1>3, <1>4, <1>6, DoSwitchQueues

LEMMA LoopFactsHold == ASSUME ListFacts PROVE WakeChannelFact /\ SwitchIsFact
<1>1. WakeChannelFact
  BY ONLY Zenon, ListFacts, WakeChannelQueues DEF WakeChannelFact
<1>2. SwitchIsFact
  BY ONLY Zenon, ListFacts, SwitchIs DEF SwitchIsFact
<1> QED BY <1>1, <1>2
=============================================================================
