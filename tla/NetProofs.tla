----------------------------- MODULE NetProofs ------------------------------
(***************************************************************************)
(* The network: the receive ring of a TCP connection, what ARP and ping    *)
(* say, and what a process that waits on a UNIX socket may have missed,    *)
(* for any number and size of them.                                        *)
(***************************************************************************)
EXTENDS Tcp, Net, UnixSock, TLAPS, WellFoundedInduction

USE ZenonT(30), SMTT(30)

\* Min picks an element of the set.
LEMMA MinInSet ==
  ASSUME NEW S \in SUBSET Nat, S # {} PROVE Min(S) \in S /\ \A y \in S : Min(S) <= y
<1>1. PICK x \in S : \A y \in S : ~(<<y, x>> \in OpToRel(<, Nat))
  BY NatLessThanWellFounded, WFMin
<1>2. ASSUME NEW y \in S PROVE x <= y
  <2>1. ~(<<y, x>> \in {ss \in Nat \X Nat : ss[1] < ss[2]})
    BY <1>1 DEF OpToRel
  <2>2. <<y, x>> \in Nat \X Nat /\ <<y, x>>[1] = y /\ <<y, x>>[2] = x
    OBVIOUS
  <2>3. ~(y < x)
    BY <2>1, <2>2
  <2> QED BY SMTT(30), <2>3
<1> QED BY <1>2 DEF Min

LEMMA MinOfTwo ==
  ASSUME NEW a \in Nat, NEW b \in Nat
  PROVE  Min({a, b}) \in Nat /\ Min({a, b}) <= a /\ Min({a, b}) <= b
<1>1. {a, b} \in SUBSET Nat /\ {a, b} # {}
  OBVIOUS
<1>2. Min({a, b}) \in {a, b} /\ \A y \in {a, b} : Min({a, b}) <= y
  BY <1>1, MinInSet
<1> QED BY <1>2

LEMMA AdvancedInside ==
  ASSUME NEW r \in Nat, NEW t \in 0 .. r, NEW n \in 0 .. r,
         NEW u, u = IF t + n <= r THEN t + n ELSE t + n - r
  PROVE  u \in 0 .. r
  BY SMTT(10)

\* The k-th place after c of a ring of n.
RingPos(c, k, n) == IF c + k < n THEN c + k ELSE c + k - n

\* The tail t of a ring of n that has c bytes from h on is after them; it may be
\* at the end of the buffer for its start.
TailAt(t, h, c, n) == t = RingPos(h, c, n) \/ (t = n /\ RingPos(h, c, n) = 0)

-----------------------------------------------------------------------------
(* TCP. A socket of the table and where its process is in a call.          *)

TcpFields == {"used", "state", "lport", "rport", "snd_nxt", "snd_una", "rcv_nxt", "age",
              "retries", "buf", "head", "tail", "count", "q", "want", "torn"}

TcpType(k) ==
  /\ TcpFields \subseteq DOMAIN k
  /\ k.used \in BOOLEAN /\ k.torn \in BOOLEAN
  /\ k.count \in 0 .. RingSize /\ k.head \in 0 .. RingSize - 1 /\ k.tail \in 0 .. RingSize
  /\ DOMAIN k.buf = 0 .. RingSize - 1
  /\ k.q \in Seq(Int)

\* From head on, the ring has the bytes accepted and not read.
RingOf(buf, head, tail, count, q) ==
  /\ count = Len(q)
  /\ TailAt(tail, head, count, RingSize)
  /\ \A i \in 1 .. count : buf[RingPos(head, i - 1, RingSize)] = q[i]

RingOk(k) == RingOf(k.buf, k.head, k.tail, k.count, k.q)

\* Where a call of tcp_recv is, its numbers fit the ring.
RecvAt(k, l) ==
  /\ l.pc = "copied" => l.n \in 0 .. k.count /\ l.len \in Nat
  /\ l.pc = "loaded" => /\ l.n \in 0 .. RingSize /\ l.c \in 0 .. RingSize
                        /\ l.n + l.c <= RingSize /\ l.len \in Nat
                        /\ ~k.torn => k.count = l.n + l.c

SockOk(k, l) ==
  /\ TcpType(k)
  /\ ~k.torn => RingOk(k)
  /\ ~k.used \/ k.state = "SYN_RCVD" => l = AtUser /\ k.count = 0
  /\ RecvAt(k, l)

TcpInv ==
  /\ DOMAIN tsk = TSocks /\ DOMAIN top = TSocks
  /\ \A s \in TSocks : SockOk(tsk[s], top[s])

\* j is k but for what the ring does not depend on.
SameRing(k, j) ==
  /\ TcpFields \subseteq DOMAIN j
  /\ j.used = k.used /\ j.torn = k.torn
  /\ j.buf = k.buf /\ j.head = k.head /\ j.tail = k.tail /\ j.count = k.count /\ j.q = k.q
  /\ j.state = "SYN_RCVD" => k.state = "SYN_RCVD"

LEMMA SameRingOk == ASSUME NEW k, NEW j, NEW l, SockOk(k, l), SameRing(k, j) PROVE SockOk(j, l)
<1>1. TcpType(j)
  BY DEF SockOk, SameRing, TcpType
<1>2. ~j.torn => RingOk(j)
  BY DEF SockOk, SameRing, RingOk
<1>3. RecvAt(j, l)
  BY DEF SockOk, SameRing, RecvAt
<1> QED BY <1>1, <1>2, <1>3 DEF SockOk, SameRing

LEMMA SameRingTrans ==
  ASSUME NEW i, NEW j, NEW k, SameRing(i, j), SameRing(j, k) PROVE SameRing(i, k)
BY DEF SameRing

LEMMA AtUserOk == ASSUME NEW k, NEW l, SockOk(k, l) PROVE SockOk(k, AtUser)
BY DEF SockOk, RecvAt, AtUser

LEMMA ElsewhereOk ==
  ASSUME NEW k, NEW l, SockOk(k, l), l # AtUser \/ (k.used /\ k.state # "SYN_RCVD"),
         NEW m, m.pc \notin {"copied", "loaded"}
  PROVE  SockOk(k, m)
BY DEF SockOk, RecvAt

LEMMA NewTcpOk == SockOk(NewTcp, AtUser)
<1>1. NewTcp.count = 0 /\ NewTcp.head = 0 /\ NewTcp.tail = 0 /\ NewTcp.q = <<>>
      /\ NewTcp.buf = [i \in 0 .. RingSize - 1 |-> 0] /\ NewTcp.used = FALSE
      /\ NewTcp.torn = FALSE /\ TcpFields \subseteq DOMAIN NewTcp
  BY DEF NewTcp, TcpFields
<1>2. 0 \in 0 .. RingSize /\ 0 \in 0 .. RingSize - 1 /\ RingPos(0, 0, RingSize) = 0
  BY SMTT(10), TcpAssumption DEF RingPos
<1>3. <<>> \in Seq(Int) /\ Len(<<>>) = 0 /\ 1 .. 0 = {}
  BY SMTT(10)
<1>4. DOMAIN NewTcp.buf = 0 .. RingSize - 1
  BY <1>1
<1>5. TcpType(NewTcp)
  BY <1>1, <1>2, <1>3, <1>4 DEF TcpType
<1>6. RingOk(NewTcp)
  BY <1>1, <1>2, <1>3 DEF RingOk, RingOf, TailAt
<1>7. RecvAt(NewTcp, AtUser)
  BY DEF RecvAt, AtUser
<1> QED BY <1>1, <1>5, <1>6, <1>7 DEF SockOk

\* A socket just given out.
LEMMA FreshOk ==
  ASSUME NEW k, TcpFields \subseteq DOMAIN k, k.used = TRUE,
         k.torn = NewTcp.torn, k.buf = NewTcp.buf, k.head = NewTcp.head,
         k.tail = NewTcp.tail, k.count = NewTcp.count, k.q = NewTcp.q
  PROVE  SockOk(k, AtUser)
<1>1. TcpType(k)
  BY NewTcpOk DEF SockOk, TcpType
<1>2. RingOk(k) /\ RecvAt(k, AtUser)
  BY NewTcpOk DEF SockOk, RingOk, RecvAt, AtUser, NewTcp
<1>3. k.count = 0
  BY DEF NewTcp
<1> QED BY <1>1, <1>2, <1>3 DEF SockOk

\* tcp_send_packet does not touch the ring.
LEMMA MaySendSame ==
  ASSUME NEW k, TcpFields \subseteq DOMAIN k, NEW n, NEW j \in MaySend(k, n)
  PROVE  SameRing(k, j) /\ j.state = k.state /\ j.lport = k.lport
<1>1. CASE j = k
  BY <1>1 DEF SameRing
<1>2. CASE j = Sent(k, n)
  BY <1>2 DEF SameRing, Sent, TcpFields
<1> QED BY <1>1, <1>2 DEF MaySend

\* tcp_timer does not either.
LEMMA RetriedSame ==
  ASSUME NEW k, TcpFields \subseteq DOMAIN k, NEW j \in Retried(Aged(k)) PROVE SameRing(k, j)
<1> DEFINE a == Aged(k)
           b == [a EXCEPT !.retries = @ + 1, !.age = 0]
           c == [a EXCEPT !.state = "CLOSED"]
<1>1. SameRing(k, a)
  BY DEF SameRing, Aged, TcpFields
<1>2. TcpFields \subseteq DOMAIN a
  BY <1>1 DEF SameRing
<1> HIDE DEF a
<1>3. SameRing(a, b) /\ SameRing(a, c)
  BY <1>2 DEF SameRing, TcpFields
<1>4. TcpFields \subseteq DOMAIN b
  BY <1>3 DEF SameRing
<1>5. j = a \/ j = c \/ \E n : j \in MaySend(b, n)
  BY DEF Retried, a
<1> HIDE DEF b, c
<1>6. ASSUME NEW n, j \in MaySend(b, n) PROVE SameRing(b, j)
  BY <1>4, <1>6, MaySendSame
<1> QED BY SMTT(30), <1>1, <1>3, <1>5, <1>6, SameRingTrans

\* The switch on the state does not, and never goes back to SYN_RCVD.
LEMMA SwitchSame ==
  ASSUME NEW k, TcpFields \subseteq DOMAIN k, NEW g, NEW ack
  PROVE  /\ SameRing(k, Switch(k, g, ack))
         /\ "ACK" \in g.flags => Switch(k, g, ack).state # "SYN_RCVD"
<1> DEFINE w == Switch(k, g, ack)
           fin(state) == Sent([k EXCEPT !.state = state, !.rcv_nxt = g.seq + 1], 0)
           st(state) == [k EXCEPT !.state = state]
           est == Sent([k EXCEPT !.state = "ESTABLISHED", !.rcv_nxt = g.seq + 1,
                                 !.snd_una = ack, !.want = g.seq + 1], 0)
           States == {"ESTABLISHED", "CLOSE_WAIT", "CLOSING", "FIN_WAIT_2", "TIME_WAIT",
                      "LAST_ACK", "CLOSED"}
<1>1. ASSUME NEW z \in States PROVE SameRing(k, st(z)) /\ st(z).state # "SYN_RCVD"
  BY <1>1 DEF SameRing, TcpFields
<1>2. ASSUME NEW z \in States PROVE SameRing(k, fin(z)) /\ fin(z).state # "SYN_RCVD"
  BY <1>2 DEF SameRing, TcpFields, Sent
<1>3. SameRing(k, est) /\ est.state # "SYN_RCVD"
  BY DEF SameRing, TcpFields, Sent
<1>4. SameRing(k, k)
  BY DEF SameRing
<1>5. \/ \E z \in States : w = st(z) \/ w = fin(z)
      \/ w = est
      \/ w = k /\ ~(k.state = "SYN_RCVD" /\ "ACK" \in g.flags)
  BY DEF Switch
<1> HIDE DEF w, st, fin, est, States
<1> QED BY <1>1, <1>2, <1>3, <1>4, <1>5 DEF w

LEMMA TcpInitInv == TInit => TcpInv
BY NewTcpOk DEF TInit, TcpInv

\* One socket and its process change, the others do not.
LEMMA OneSocket ==
  ASSUME TcpInv, NEW s \in TSocks, NEW k, NEW l, SockOk(k, l),
         tsk' = [tsk EXCEPT ![s] = k], top' = [top EXCEPT ![s] = l]
  PROVE  TcpInv'
BY DEF TcpInv

LEMMA OneKept ==
  ASSUME TcpInv, NEW s \in TSocks, NEW k, SockOk(k, top[s]),
         tsk' = [tsk EXCEPT ![s] = k], UNCHANGED top
  PROVE  TcpInv'
BY DEF TcpInv

LEMMA OneMoved ==
  ASSUME TcpInv, NEW s \in TSocks, NEW l, SockOk(tsk[s], l),
         UNCHANGED tsk, TGoto(s, l)
  PROVE  TcpInv'
BY DEF TcpInv, TGoto

\* A socket that is not in use has no process in a call.
LEMMA FreeSock ==
  ASSUME TcpInv, FreeSocks # {}
  PROVE  /\ Min(FreeSocks) \in TSocks /\ ~tsk[Min(FreeSocks)].used
         /\ top[Min(FreeSocks)] = AtUser
<1>1. FreeSocks \in SUBSET Nat
  BY SMTT(10), TcpAssumption DEF FreeSocks, TSocks
<1>2. Min(FreeSocks) \in FreeSocks
  BY <1>1, MinInSet
<1> QED BY <1>2 DEF FreeSocks, TcpInv, SockOk

LEMMA TSocketInv == ASSUME TcpInv, TSocket PROVE TcpInv'
<1> DEFINE k == [NewTcp EXCEPT !.used = TRUE, !.lport = tport]
<1>1. SockOk(k, AtUser)
  <2>1. /\ TcpFields \subseteq DOMAIN k /\ k.used = TRUE /\ k.torn = NewTcp.torn
        /\ k.buf = NewTcp.buf /\ k.head = NewTcp.head /\ k.tail = NewTcp.tail
        /\ k.count = NewTcp.count /\ k.q = NewTcp.q
    BY DEF NewTcp, TcpFields
  <2> HIDE DEF k
  <2> QED BY <2>1, FreshOk
<1> HIDE DEF k
<1>2. FreeSocks # {} /\ tsk' = [tsk EXCEPT ![Min(FreeSocks)] = k] /\ UNCHANGED top
  BY DEF TSocket, k
<1> QED BY <1>1, <1>2, FreeSock, OneKept

LEMMA TBindInv == ASSUME TcpInv, NEW s \in TSocks, NEW port, TBind(s, port) PROVE TcpInv'
<1> DEFINE k == [tsk[s] EXCEPT !.lport = port]
<1>1. TcpFields \subseteq DOMAIN tsk[s] /\ SockOk(tsk[s], top[s])
  BY DEF TcpInv, SockOk, TcpType
<1>2. SameRing(tsk[s], k)
  BY <1>1 DEF SameRing, TcpFields
<1>3. SockOk(k, top[s])
  BY <1>1, <1>2, SameRingOk
<1>4. tsk' = [tsk EXCEPT ![s] = k] /\ UNCHANGED top
  BY DEF TBind
<1> QED BY <1>3, <1>4, OneKept

LEMMA TListenInv == ASSUME TcpInv, NEW s \in TSocks, TListen(s) PROVE TcpInv'
<1> DEFINE k == [tsk[s] EXCEPT !.state = "LISTEN"]
<1>1. TcpFields \subseteq DOMAIN tsk[s] /\ SockOk(tsk[s], top[s])
  BY DEF TcpInv, SockOk, TcpType
<1>2. SameRing(tsk[s], k)
  BY <1>1 DEF SameRing, TcpFields
<1>3. SockOk(k, top[s])
  BY <1>1, <1>2, SameRingOk
<1>4. tsk' = [tsk EXCEPT ![s] = k] /\ UNCHANGED top
  BY DEF TListen
<1> QED BY <1>3, <1>4, OneKept

LEMMA TConnectInv == ASSUME TcpInv, NEW s \in TSocks, NEW rport, TConnect(s, rport) PROVE TcpInv'
<1> DEFINE c == [tsk[s] EXCEPT !.rport = rport, !.state = "SYN_SENT",
                   !.snd_nxt = s, !.rcv_nxt = 0, !.age = 0, !.retries = 0]
<1>1. TcpFields \subseteq DOMAIN tsk[s] /\ SockOk(tsk[s], top[s])
  BY DEF TcpInv, SockOk, TcpType
<1>2. SameRing(tsk[s], c)
  BY <1>1 DEF SameRing, TcpFields
<1>3. PICK k \in MaySend(c, 1) : tsk' = [tsk EXCEPT ![s] = k]
  BY DEF TConnect
<1> HIDE DEF c
<1>4. SameRing(c, k)
  BY SMTT(30), <1>2, MaySendSame DEF SameRing
<1>5. SockOk(k, top[s])
  BY <1>1, <1>2, <1>4, SameRingOk, SameRingTrans
<1>6. UNCHANGED top
  BY DEF TConnect
<1> QED BY <1>3, <1>5, <1>6, OneKept

LEMMA TAcceptInv == ASSUME TcpInv, NEW s \in TSocks, TAccept(s) PROVE TcpInv'
<1>1. /\ tsk[s].used \in BOOLEAN
      /\ SockOk(tsk[s], top[s])
  BY DEF TcpInv, SockOk, TcpType
<1>2. top[s] # AtUser \/ (tsk[s].used /\ tsk[s].state # "SYN_RCVD")
  BY SMTT(30) DEF TAccept, TCalls, AtUser
<1>3. CASE Waiting(s) = {}
  <2>1. UNCHANGED tsk /\ TGoto(s, [pc |-> "accept"])
    BY <1>3 DEF TAccept
  <2>2. SockOk(tsk[s], [pc |-> "accept"])
    BY SMTT(30), <1>1, <1>2, ElsewhereOk
  <2> QED BY <2>1, <2>2, OneMoved
<1>4. CASE Waiting(s) # {} /\ FreeSocks = {}
  <2>1. UNCHANGED tsk /\ TGoto(s, AtUser)
    BY <1>4 DEF TAccept
  <2> QED BY <1>1, <2>1, OneMoved, AtUserOk
<1>5. CASE Waiting(s) # {} /\ FreeSocks # {}
  <2> DEFINE r == Min(Waiting(s))
             f == Min(FreeSocks)
             n == [NewTcp EXCEPT !.used = TRUE, !.state = "ESTABLISHED",
                     !.lport = tsk[r].lport, !.rport = tsk[r].rport,
                     !.snd_nxt = tsk[r].snd_nxt, !.rcv_nxt = tsk[r].rcv_nxt,
                     !.want = tsk[r].rcv_nxt]
  <2>1. r \in TSocks /\ tsk[r].state = "SYN_RCVD"
    <3>1. Waiting(s) \in SUBSET Nat
      BY SMTT(10), TcpAssumption DEF Waiting, TSocks
    <3>2. r \in Waiting(s)
      BY <1>5, <3>1, MinInSet
    <3> QED BY <3>2 DEF Waiting
  <2>2. f \in TSocks /\ ~tsk[f].used /\ top[f] = AtUser
    BY <1>5, FreeSock
  <2>3. SockOk(n, AtUser)
    <3>1. /\ TcpFields \subseteq DOMAIN n /\ n.used = TRUE /\ n.torn = NewTcp.torn
          /\ n.buf = NewTcp.buf /\ n.head = NewTcp.head /\ n.tail = NewTcp.tail
          /\ n.count = NewTcp.count /\ n.q = NewTcp.q
      BY DEF NewTcp, TcpFields
    <3> HIDE DEF n
    <3> QED BY <3>1, FreshOk
  <2>4. tsk' = [tsk EXCEPT ![r] = NewTcp, ![f] = n] /\ top' = [top EXCEPT ![s] = AtUser]
    BY <1>5 DEF TAccept, TGoto
  <2>5. top[r] = AtUser
    BY <2>1 DEF TcpInv, SockOk
  <2> HIDE DEF r, f, n
  <2>6. ASSUME NEW x \in TSocks PROVE SockOk(tsk'[x], top'[x])
    <3>1. top'[x] = top[x] \/ top'[x] = AtUser
      BY <2>4 DEF TcpInv
    <3>2. CASE x = f
      <4>1. tsk'[x] = n
        BY <2>2, <2>4, <3>2 DEF TcpInv
      <4> QED BY <2>2, <2>3, <3>1, <3>2, <4>1
    <3>3. CASE x # f /\ x = r
      <4>1. tsk'[x] = NewTcp
        BY <2>1, <2>4, <3>3 DEF TcpInv
      <4> QED BY <2>5, <3>1, <3>3, <4>1, NewTcpOk
    <3>4. CASE x # f /\ x # r
      <4>1. tsk'[x] = tsk[x] /\ SockOk(tsk[x], top[x])
        BY <2>4, <3>4 DEF TcpInv
      <4> QED BY <3>1, <4>1, AtUserOk
    <3> QED BY <3>2, <3>3, <3>4
  <2>7. DOMAIN tsk' = TSocks /\ DOMAIN top' = TSocks
    BY <2>4 DEF TcpInv
  <2> QED BY <2>6, <2>7 DEF TcpInv
<1> QED BY <1>3, <1>4, <1>5

-----------------------------------------------------------------------------
(* The ring of tcp_recv and tcp_handle_packet.                             *)

LEMMA ModOnce ==
  ASSUME NEW R \in Nat \ {0}, NEW x \in Int, -R <= x, x < 2 * R
  PROVE  x % R = IF x < 0 THEN x + R ELSE IF x < R THEN x ELSE x - R
<1>1. CASE x < 0
  BY SMTT(10), <1>1
<1>2. CASE 0 <= x /\ x < R
  BY SMTT(10), <1>2
<1>3. CASE R <= x
  BY SMTT(10), <1>3
<1> QED BY SMTT(10), <1>1, <1>2, <1>3

\* How far a place of the ring is from the tail.
GapAt(t, h, c, n, j) ==
  /\ RingPos(h, j, n) \in 0 .. n - 1
  /\ (RingPos(h, j, n) - t) % n = IF j < c THEN n + j - c ELSE j - c

LEMMA RingGap ==
  ASSUME NEW R \in Nat \ {0}, NEW h \in 0 .. R - 1, NEW c \in 0 .. R, NEW t \in 0 .. R,
         NEW j \in 0 .. R - 1, TailAt(t, h, c, R)
  PROVE  GapAt(t, h, c, R, j)
<1> USE DEF TailAt
<1> DEFINE x == RingPos(h, j, R) - t
<1>1. RingPos(h, j, R) \in 0 .. R - 1
  BY SMTT(10) DEF RingPos
<1>2. x \in Int /\ -R <= x /\ x < R /\ x < 2 * R
  BY SMTT(10), <1>1
<1>3. CASE j < c
  <2>1. IF x < 0 THEN x + R = R + j - c ELSE x = R + j - c
    <3>1. CASE h + c < R
      BY SMTT(10), <1>3, <3>1 DEF RingPos
    <3>2. CASE ~(h + c < R) /\ h + j < R
      BY SMTT(10), <1>3, <3>2 DEF RingPos
    <3>3. CASE ~(h + c < R) /\ ~(h + j < R)
      BY SMTT(10), <1>3, <3>3 DEF RingPos
    <3> QED BY <3>1, <3>2, <3>3
  <2> HIDE DEF x
  <2> QED BY <1>1, <1>2, <1>3, <2>1, ModOnce DEF x, GapAt
<1>4. CASE ~(j < c)
  <2>1. IF x < 0 THEN x + R = j - c ELSE x = j - c
    <3>1. CASE h + j < R
      BY SMTT(10), <1>4, <3>1 DEF RingPos
    <3>2. CASE ~(h + c < R) /\ ~(h + j < R)
      BY SMTT(10), <1>4, <3>2 DEF RingPos
    <3>3. CASE h + c < R /\ ~(h + j < R)
      BY SMTT(10), <1>4, <3>3 DEF RingPos
    <3> QED BY <3>1, <3>2, <3>3
  <2> HIDE DEF x
  <2> QED BY <1>1, <1>2, <1>4, <2>1, ModOnce DEF x, GapAt
<1> QED BY <1>3, <1>4

\* Where the tail is n bytes later.
LEMMA RingEnd ==
  ASSUME NEW R \in Nat \ {0}, NEW h \in 0 .. R - 1, NEW c \in 0 .. R, NEW t \in 0 .. R,
         NEW n \in 0 .. R - c, NEW u, u = (IF t + n <= R THEN t + n ELSE t + n - R),
         TailAt(t, h, c, R)
  PROVE  TailAt(u, h, c + n, R)
<1>1. CASE h + c < R
  BY SMTT(10), <1>1 DEF RingPos, TailAt
<1>2. CASE ~(h + c < R)
  BY SMTT(10), <1>2 DEF RingPos, TailAt
<1> QED BY <1>1, <1>2

\* tcp_recv takes n bytes from the head.
LEMMA RingDrop ==
  ASSUME NEW buf, NEW head \in 0 .. RingSize - 1, NEW tail \in 0 .. RingSize,
         NEW count \in 0 .. RingSize, NEW q \in Seq(Int),
         RingOf(buf, head, tail, count, q), NEW n \in 0 .. count
  PROVE  /\ (head + n) % RingSize \in 0 .. RingSize - 1
         /\ SubSeq(q, n + 1, Len(q)) \in Seq(Int)
         /\ RingOf(buf, (head + n) % RingSize, tail, count - n, SubSeq(q, n + 1, Len(q)))
<1> DEFINE h == (head + n) % RingSize
           r == SubSeq(q, n + 1, Len(q))
<1>1. RingSize \in Nat \ {0} /\ count = Len(q) /\ n \in Nat /\ count \in Nat
  BY SMTT(10), TcpAssumption DEF RingOf
<1>2. h = IF head + n < RingSize THEN head + n ELSE (head + n) - RingSize
  <2> DEFINE x == head + n
  <2>1. x \in Int /\ -RingSize <= x /\ x < 2 * RingSize /\ ~(x < 0)
    BY SMTT(10), <1>1
  <2> HIDE DEF x
  <2>2. x % RingSize = IF x < RingSize THEN x ELSE x - RingSize
    BY <1>1, <2>1, ModOnce
  <2> QED BY ONLY Zenon, <2>2 DEF h, x
<1> HIDE DEF h
<1>3. h \in 0 .. RingSize - 1
  BY SMTT(10), <1>1, <1>2
<1>4. r \in Seq(Int) /\ Len(r) = count - n /\ \A i \in 1 .. count - n : r[i] = q[n + i]
  BY SMTT(10), <1>1
<1>5. \A i \in 0 .. count - n : RingPos(h, i, RingSize) = RingPos(head, n + i, RingSize)
  BY SMTT(10), <1>1, <1>2 DEF RingPos
<1>6. count - n \in 0 .. count - n /\ n + (count - n) = count
  BY SMTT(10), <1>1
<1>7. ASSUME NEW i \in 1 .. count - n PROVE buf[RingPos(h, i - 1, RingSize)] = r[i]
  <2>1. i - 1 \in 0 .. count - n /\ n + i \in 1 .. count /\ n + (i - 1) = (n + i) - 1
    BY SMTT(10), <1>1
  <2>2. buf[RingPos(head, (n + i) - 1, RingSize)] = q[n + i]
    BY <2>1 DEF RingOf
  <2> QED BY <1>4, <1>5, <2>1, <2>2
<1> HIDE DEF r
<1>8. RingPos(h, count - n, RingSize) = RingPos(head, count, RingSize)
  BY <1>5, <1>6
<1>9. RingOf(buf, h, tail, count - n, r)
  BY <1>4, <1>7, <1>8 DEF RingOf, TailAt
<1> QED BY <1>3, <1>4, <1>9 DEF h, r

\* tcp_handle_packet puts n bytes at the tail.
Bytes(seq, n) == [i \in 1 .. n |-> seq + i - 1]

Filled(buf, tail, seq, n) ==
  [i \in 0 .. RingSize - 1 |-> IF (i - tail) % RingSize < n
                               THEN seq + ((i - tail) % RingSize) ELSE buf[i]]

Advanced(tail, n) == IF tail + n <= RingSize THEN tail + n ELSE tail + n - RingSize

LEMMA RingAdd ==
  ASSUME NEW buf, NEW head \in 0 .. RingSize - 1, NEW tail \in 0 .. RingSize,
         NEW count \in 0 .. RingSize, NEW q \in Seq(Int),
         RingOf(buf, head, tail, count, q), NEW n \in 0 .. RingSize - count, NEW seq \in Int
  PROVE  /\ q \o Bytes(seq, n) \in Seq(Int)
         /\ RingOf(Filled(buf, tail, seq, n), head, Advanced(tail, n), count + n,
                   q \o Bytes(seq, n))
<1> DEFINE b == Bytes(seq, n)
           r == q \o b
           buf2 == Filled(buf, tail, seq, n)
           tail2 == Advanced(tail, n)
           P(i) == RingPos(head, i, RingSize)
<1>1. RingSize \in Nat \ {0} /\ count = Len(q) /\ n \in Nat /\ count \in Nat
  BY SMTT(10), TcpAssumption DEF RingOf
<1>2. b \in Seq(Int) /\ Len(b) = n /\ b = [i \in 1 .. n |-> seq + i - 1]
  BY SMTT(10), <1>1 DEF Bytes
<1>3. r \in Seq(Int) /\ Len(r) = count + n
  BY SMTT(10), <1>1, <1>2
<1>4. ASSUME NEW i \in 1 .. count + n
      PROVE  r[i] = IF i <= count THEN q[i] ELSE seq + (i - count) - 1
  BY SMTT(10), <1>1, <1>2
<1>5. TailAt(tail, head, count, RingSize)
  BY DEF RingOf
<1>6. ASSUME NEW i \in 1 .. count + n
      PROVE  /\ P(i - 1) \in 0 .. RingSize - 1
             /\ (P(i - 1) - tail) % RingSize = IF i - 1 < count THEN RingSize + (i - 1) - count
                                               ELSE (i - 1) - count
  <2>1. i - 1 \in 0 .. RingSize - 1
    BY SMTT(10), <1>1
  <2>2. GapAt(tail, head, count, RingSize, i - 1)
    BY <1>1, <1>5, <2>1, RingGap
  <2> QED BY <2>2 DEF GapAt
<1>7. ASSUME NEW i \in 1 .. count + n PROVE buf2[P(i - 1)] = r[i]
  <2> HIDE DEF r, P
  <2>1. CASE i <= count
    <3>1. i \in 1 .. count /\ i - 1 < count /\ ~(RingSize + (i - 1) - count < n)
      BY SMTT(10), <1>1, <2>1
    <3>2. buf[P(i - 1)] = q[i]
      BY <3>1 DEF RingOf, P
    <3> QED BY <1>4, <1>6, <2>1, <3>1, <3>2 DEF Filled
  <2>2. CASE ~(i <= count)
    <3>1. /\ ~(i - 1 < count) /\ (i - 1) - count < n
          /\ seq + ((i - 1) - count) = seq + (i - count) - 1
      BY SMTT(10), <1>1, <2>2
    <3> QED BY <1>4, <1>6, <2>2, <3>1 DEF Filled
  <2> QED BY <2>1, <2>2
<1>8. TailAt(tail2, head, count + n, RingSize)
  BY <1>1, <1>5, RingEnd DEF Advanced
<1> HIDE DEF r
<1>9. RingOf(buf2, head, tail2, count + n, r)
  BY <1>3, <1>7, <1>8 DEF RingOf
<1> QED BY <1>3, <1>9 DEF r

-----------------------------------------------------------------------------
(* Segments that arrive.                                                   *)

LEMMA SegmentType ==
  ASSUME NEW g \in Segments
  PROVE  g.seq \in Nat /\ g.len \in Nat /\ (g.len # 0 => "ACK" \in g.flags)
<1>1. CASE \E f : g = [flags |-> f, seq |-> 0, len |-> 0]
  BY SMTT(30), <1>1
<1>2. CASE \E i \in (1 .. StreamLen) \X (0 .. 2) : g = [flags |-> {"ACK"}, seq |-> i[1], len |-> i[2]]
  <2>1. PICK i \in (1 .. StreamLen) \X (0 .. 2) : g = [flags |-> {"ACK"}, seq |-> i[1], len |-> i[2]]
    BY <1>2
  <2>2. i[1] \in Nat /\ i[2] \in Nat
    BY SMTT(10), TcpAssumption
  <2> QED BY <2>1, <2>2
<1>3. CASE g = [flags |-> {"FIN", "ACK"}, seq |-> StreamLen + 1, len |-> 0]
  <2>1. StreamLen + 1 \in Nat
    BY SMTT(10), TcpAssumption
  <2> QED BY <1>3, <2>1
<1> QED BY <1>1, <1>2, <1>3 DEF Segments

\* The ring after the data of a segment that finds the process at l.
DataAt(k, g, l) == Data(k, g, l.pc = "loaded")

\* What the data of a segment may do to a socket.
Taken(k, l, d) ==
  /\ TcpType(d) /\ (~d.torn => RingOk(d)) /\ RecvAt(d, l)
  /\ d.used = k.used /\ d.state = k.state

LEMMA DataRing ==
  ASSUME NEW k, NEW l, SockOk(k, l), NEW g \in Segments, g.len # 0, g.seq = k.rcv_nxt,
         NEW d, d = DataAt(k, g, l)
  PROVE  Taken(k, l, d)
<1> DEFINE n == Min({g.len, RingSize - k.count})
           loaded == l.pc = "loaded"
           t == Stored(k, g.seq, n)
           add == Bytes(g.seq, n)
           u == [t EXCEPT !.count = @ + n, !.rcv_nxt = @ + n, !.want = @ + n,
                          !.q = IF k.torn \/ (loaded /\ n > 0) THEN <<>> ELSE @ \o add,
                          !.torn = @ \/ (loaded /\ n > 0)]
<1>1. TcpType(k) /\ (~k.torn => RingOk(k)) /\ RecvAt(k, l)
  BY DEF SockOk
<1>2. g.seq \in Nat /\ g.len \in Nat /\ RingSize \in Nat \ {0} /\ k.count \in 0 .. RingSize
  BY <1>1, SegmentType, TcpAssumption DEF TcpType
<1>3. n \in 0 .. RingSize - k.count
  <2>1. RingSize - k.count \in Nat
    BY SMTT(10), <1>2
  <2>2. n \in Nat /\ n <= RingSize - k.count
    BY <1>2, <2>1, MinOfTwo
  <2> HIDE DEF n
  <2> QED BY SMTT(10), <1>2, <2>2
<1>4. d = Sent(u, 0)
  BY DEF DataAt, Data, Bytes
<1> HIDE DEF n, loaded, add
<1>5. /\ DOMAIN t = DOMAIN k /\ t.head = k.head /\ t.count = k.count /\ t.q = k.q
      /\ t.torn = k.torn /\ t.used = k.used /\ t.state = k.state
      /\ t.buf = Filled(k.buf, k.tail, g.seq, n) /\ t.tail = Advanced(k.tail, n)
  BY ZenonT(20), <1>1 DEF Stored, TcpType, TcpFields, Filled, Advanced
<1> HIDE DEF t
<1>6. TcpFields \subseteq DOMAIN t
  BY <1>1, <1>5 DEF TcpType
<1>7. /\ DOMAIN u = DOMAIN t /\ u.head = t.head /\ u.buf = t.buf /\ u.tail = t.tail
      /\ u.used = t.used /\ u.state = t.state /\ u.count = t.count + n
      /\ u.q = (IF k.torn \/ (loaded /\ n > 0) THEN <<>> ELSE t.q \o add)
      /\ u.torn = (t.torn \/ (loaded /\ n > 0))
  BY <1>6 DEF TcpFields
<1> HIDE DEF u
<1>8. /\ DOMAIN d = DOMAIN u /\ d.head = u.head /\ d.buf = u.buf /\ d.tail = u.tail
      /\ d.used = u.used /\ d.state = u.state /\ d.count = u.count /\ d.q = u.q /\ d.torn = u.torn
  BY <1>4, <1>6, <1>7 DEF TcpFields, Sent
<1>9. /\ TcpFields \subseteq DOMAIN d /\ d.head = k.head
      /\ d.count = k.count + n /\ d.used = k.used /\ d.state = k.state
      /\ d.torn = (k.torn \/ (loaded /\ n > 0))
      /\ d.q = IF d.torn THEN <<>> ELSE k.q \o add
      /\ d.buf = t.buf /\ d.tail = t.tail
  BY <1>5, <1>6, <1>7, <1>8
<1>10. k.tail \in 0 .. RingSize /\ k.head \in 0 .. RingSize - 1 /\ k.q \in Seq(Int)
       /\ k.torn \in BOOLEAN /\ DOMAIN k.buf = 0 .. RingSize - 1 /\ k.used \in BOOLEAN
  BY <1>1 DEF TcpType
<1>11. d.count \in 0 .. RingSize /\ d.tail \in 0 .. RingSize
  <2>1. d.count \in 0 .. RingSize
    BY SMTT(10), <1>2, <1>3, <1>9
  <2>2. d.tail = IF k.tail + n <= RingSize THEN k.tail + n ELSE k.tail + n - RingSize
    BY <1>5, <1>9 DEF Advanced
  <2>3. RingSize \in Nat /\ n \in 0 .. RingSize /\ k.tail \in 0 .. RingSize
    BY SMTT(10), <1>2, <1>3, <1>10
  <2>4. d.tail \in 0 .. RingSize
    BY <2>2, <2>3, AdvancedInside
  <2> QED BY <2>1, <2>4
<1>12. ASSUME ~d.torn PROVE RingOk(d) /\ d.q \in Seq(Int)
  <2>1. RingOf(k.buf, k.head, k.tail, k.count, k.q)
    BY <1>1, <1>9, <1>12 DEF RingOk
  <2>2. g.seq \in Int
    BY SMTT(10), <1>2
  <2>3. /\ k.q \o Bytes(g.seq, n) \in Seq(Int)
        /\ RingOf(Filled(k.buf, k.tail, g.seq, n), k.head, Advanced(k.tail, n), k.count + n,
                  k.q \o Bytes(g.seq, n))
    BY ONLY ZenonT(20), <1>2, <1>3, <1>10, <2>1, <2>2, RingAdd
  <2> QED BY <1>5, <1>9, <1>12, <2>3 DEF RingOk, add
<1>13. TcpType(d)
  <2>1. <<>> \in Seq(Int)
    BY SMTT(10)
  <2>2. d.q \in Seq(Int)
    BY <1>9, <1>12, <2>1
  <2>3. d.torn \in BOOLEAN
    BY <1>9, <1>10
  <2>4. DOMAIN d.buf = 0 .. RingSize - 1
    BY <1>5, <1>9 DEF Filled
  <2> QED BY <1>9, <1>10, <1>11, <2>2, <2>3, <2>4 DEF TcpType
<1>14. RecvAt(d, l)
  <2>1. 0 .. k.count \subseteq 0 .. d.count
    BY SMTT(10), <1>2, <1>3, <1>9
  <2>2. ASSUME loaded, ~d.torn PROVE ~k.torn /\ d.count = k.count
    <3>1. ~k.torn /\ ~(n > 0)
      BY <1>9, <2>2
    <3> QED BY ONLY SMTT(10), <1>2, <1>3, <1>9, <3>1
  <2> QED BY <1>1, <2>1, <2>2 DEF RecvAt, loaded
<1> QED BY <1>9, <1>12, <1>13, <1>14 DEF Taken

LEMMA THandleInv ==
  ASSUME TcpInv, NEW lport, NEW rport, NEW g \in Segments, THandle(lport, rport, g)
  PROVE  TcpInv'
<1> DEFINE s == Min(Conn(lport, rport))
           l == top[s]
<1>1. s \in TSocks /\ tsk[s].used
  <2>1. Conn(lport, rport) \in SUBSET Nat /\ Conn(lport, rport) # {}
    BY SMTT(10), TcpAssumption DEF Conn, TSocks, THandle
  <2>2. s \in Conn(lport, rport)
    BY <2>1, MinInSet
  <2> QED BY <2>2 DEF Conn
<1>2. PICK ack : tsk' = [tsk EXCEPT ![s] =
             Switch(Data(IF "ACK" \in g.flags /\ ack > tsk[s].snd_una /\ ack <= tsk[s].snd_nxt
                         THEN [tsk[s] EXCEPT !.snd_una = ack] ELSE tsk[s],
                         g, top[s].pc = "loaded"), g, ack)]
  BY DEF THandle
<1> DEFINE a == IF "ACK" \in g.flags /\ ack > tsk[s].snd_una /\ ack <= tsk[s].snd_nxt
                THEN [tsk[s] EXCEPT !.snd_una = ack] ELSE tsk[s]
           d == Data(a, g, l.pc = "loaded")
           w == Switch(d, g, ack)
<1>3. SockOk(tsk[s], l) /\ TcpFields \subseteq DOMAIN tsk[s]
  BY <1>1 DEF TcpInv, SockOk, TcpType
<1> HIDE DEF s
<1>4. SameRing(tsk[s], a)
  BY <1>3 DEF SameRing, TcpFields
<1>5. SockOk(a, l) /\ a.used
  BY <1>1, <1>3, <1>4, SameRingOk DEF SameRing
<1>6. tsk' = [tsk EXCEPT ![s] = w] /\ UNCHANGED top
  BY <1>2 DEF THandle
<1> HIDE DEF a
<1>7. /\ TcpType(d) /\ (~d.torn => RingOk(d)) /\ RecvAt(d, l)
      /\ d.used = a.used /\ d.state = a.state
      /\ d = a \/ "ACK" \in g.flags
  <2>1. CASE g.len = 0 \/ g.seq # a.rcv_nxt
    <3>1. d = a
      BY <2>1 DEF Data
    <3> QED BY <1>5, <3>1 DEF SockOk
  <2>2. CASE g.len # 0 /\ g.seq = a.rcv_nxt
    <3>1. d = DataAt(a, g, l)
      BY DEF DataAt
    <3> HIDE DEF l, d
    <3>2. Taken(a, l, d)
      BY <1>5, <2>2, <3>1, DataRing
    <3> QED BY <2>2, <3>2, SegmentType DEF Taken
  <2> QED BY <2>1, <2>2
<1> HIDE DEF d
<1>8. SameRing(d, w) /\ ("ACK" \in g.flags => w.state # "SYN_RCVD")
  BY <1>7, SwitchSame DEF TcpType
<1> HIDE DEF w
<1>9. TcpType(w) /\ (~w.torn => RingOk(w)) /\ RecvAt(w, l)
  BY <1>7, <1>8 DEF SameRing, TcpType, RingOk, RecvAt
<1>10. ASSUME w.state = "SYN_RCVD" PROVE l = AtUser /\ w.count = 0
  <2>1. d = a /\ a.state = "SYN_RCVD"
    BY <1>7, <1>8, <1>10 DEF SameRing
  <2> QED BY <1>5, <1>8, <2>1 DEF SockOk, SameRing
<1>11. w.used
  BY <1>5, <1>7, <1>8 DEF SameRing
<1>12. SockOk(w, l)
  BY <1>9, <1>10, <1>11 DEF SockOk
<1> QED BY <1>1, <1>6, <1>12, OneKept

LEMMA THandleSynInv ==
  ASSUME TcpInv, NEW lport, NEW rport, NEW g, THandleSyn(lport, rport, g)
  PROVE  TcpInv'
<1> DEFINE r == Min(FreeSocks)
           c == [NewTcp EXCEPT !.used = TRUE, !.state = "SYN_RCVD",
                   !.lport = lport, !.rport = rport, !.snd_nxt = r,
                   !.rcv_nxt = g.seq + 1, !.want = g.seq + 1]
<1>1. PICK k \in MaySend(c, 1) : tsk' = [tsk EXCEPT ![r] = k]
  BY DEF THandleSyn
<1>2. FreeSocks # {} /\ UNCHANGED top
  BY DEF THandleSyn
<1>3. r \in TSocks /\ top[r] = AtUser
  BY <1>2, FreeSock
<1> HIDE DEF r
<1>4. /\ TcpFields \subseteq DOMAIN c /\ c.used = TRUE /\ c.torn = NewTcp.torn
      /\ c.buf = NewTcp.buf /\ c.head = NewTcp.head /\ c.tail = NewTcp.tail
      /\ c.count = NewTcp.count /\ c.q = NewTcp.q
  BY DEF NewTcp, TcpFields
<1> HIDE DEF c
<1>5. SockOk(c, AtUser) /\ SameRing(c, k)
  BY <1>4, FreshOk, MaySendSame
<1>6. SockOk(k, top[r])
  BY <1>3, <1>5, SameRingOk
<1> QED BY <1>1, <1>2, <1>3, <1>6, OneKept

-----------------------------------------------------------------------------
(* tcp_recv, tcp_send, tcp_close and tcp_timer.                            *)

LEMMA TTimeoutInv == ASSUME TcpInv, NEW s \in TSocks, TTimeout(s) PROVE TcpInv'
<1>1. SockOk(tsk[s], AtUser)
  BY AtUserOk DEF TcpInv
<1> QED BY <1>1, OneMoved DEF TTimeout

LEMMA TRecvInv == ASSUME TcpInv, NEW s \in TSocks, NEW len \in Nat, TRecv(s, len) PROVE TcpInv'
<1> DEFINE k == tsk[s]
           l == top[s]
<1>1. SockOk(k, l) /\ k.count \in 0 .. RingSize /\ UNCHANGED tsk
  BY DEF TcpInv, SockOk, TcpType, TRecv
<1>2. CASE k.count = 0 /\ k.state = "ESTABLISHED" /\ TGoto(s, [pc |-> "recv", len |-> len])
  <2>1. l # AtUser \/ (k.used /\ k.state # "SYN_RCVD")
    BY SMTT(30), <1>2 DEF TRecv, AtUser
  <2>2. SockOk(k, [pc |-> "recv", len |-> len])
    BY SMTT(30), <1>1, <2>1, ElsewhereOk
  <2> QED BY <1>1, <1>2, <2>2, OneMoved
<1>3. CASE TGoto(s, AtUser)
  BY <1>1, <1>3, AtUserOk, OneMoved
<1>4. CASE k.count > 0 /\ TGoto(s, [pc |-> "copied", len |-> len, n |-> Min({len, k.count})])
  <2> DEFINE m == [pc |-> "copied", len |-> len, n |-> Min({len, k.count})]
  <2>1. k.count \in Nat /\ k.count # 0
    BY SMTT(10), <1>1, <1>4
  <2>2. Min({len, k.count}) \in Nat /\ Min({len, k.count}) <= k.count
    BY <2>1, MinOfTwo
  <2>3. Min({len, k.count}) \in 0 .. k.count
    BY SMTT(10), <2>1, <2>2
  <2>4. RecvAt(k, m)
    BY <2>3 DEF RecvAt
  <2> HIDE DEF m
  <2>5. SockOk(k, m)
    BY <1>1, <2>1, <2>4 DEF SockOk
  <2> QED BY <1>1, <1>4, <2>5, OneMoved DEF m
<1> QED BY <1>2, <1>3, <1>4 DEF TRecv

LEMMA TRecvLoadInv == ASSUME TcpInv, NEW s \in TSocks, TRecvLoad(s) PROVE TcpInv'
<1> DEFINE k == tsk[s]
           l == top[s]
           j == [k EXCEPT !.rcv_nxt = @ + l.n]
           m == [pc |-> "loaded", len |-> l.len, n |-> l.n, c |-> k.count - l.n]
<1>1. SockOk(k, l) /\ TcpFields \subseteq DOMAIN k /\ l.pc = "copied" /\ k.count \in 0 .. RingSize
  BY DEF TcpInv, SockOk, TcpType, TRecvLoad
<1>2. tsk' = [tsk EXCEPT ![s] = j] /\ top' = [top EXCEPT ![s] = m]
  BY DEF TRecvLoad, TGoto
<1> HIDE DEF k, l
<1>3. SameRing(k, j)
  BY <1>1 DEF SameRing, TcpFields
<1> HIDE DEF j
<1>4. l.n \in 0 .. k.count /\ l.len \in Nat
  BY <1>1 DEF SockOk, RecvAt
<1>5. /\ l.n \in 0 .. RingSize /\ k.count - l.n \in 0 .. RingSize
      /\ l.n + (k.count - l.n) <= RingSize /\ k.count = l.n + (k.count - l.n)
  BY SMTT(10), <1>1, <1>4, TcpAssumption
<1>6. RecvAt(k, m)
  BY <1>4, <1>5 DEF RecvAt
<1>7. k.used /\ k.state # "SYN_RCVD"
  BY SMTT(30), <1>1 DEF SockOk, TcpType, AtUser
<1> HIDE DEF m
<1>8. SockOk(j, m)
  BY <1>1, <1>3, <1>6, <1>7, SameRingOk DEF SockOk
<1> QED BY <1>2, <1>8, OneSocket

LEMMA TRecvStoreInv == ASSUME TcpInv, NEW s \in TSocks, TRecvStore(s) PROVE TcpInv'
<1> DEFINE o == tsk[s]
           l == top[s]
           k == [o EXCEPT !.count = l.c, !.head = (@ + l.n) % RingSize,
                          !.q = SubSeq(@, l.n + 1, Len(@))]
           m == [pc |-> "copied", len |-> l.len - l.n, n |-> Min({l.len - l.n, l.c})]
<1>1. SockOk(o, l) /\ TcpType(o) /\ l.pc = "loaded"
  BY DEF TcpInv, SockOk, TRecvStore
<1>2. \/ l.len > l.n /\ tsk' = [tsk EXCEPT ![s] = k] /\ top' = [top EXCEPT ![s] = m]
      \/ (\E j \in MaySend(k, 0) : tsk' = [tsk EXCEPT ![s] = j]) /\ top' = [top EXCEPT ![s] = AtUser]
  BY DEF TRecvStore, TGoto
<1> HIDE DEF o, l
<1>3. /\ l.n \in 0 .. RingSize /\ l.c \in 0 .. RingSize /\ l.n + l.c <= RingSize /\ l.len \in Nat
      /\ ~o.torn => o.count = l.n + l.c
  BY <1>1 DEF SockOk, RecvAt
<1>4. /\ DOMAIN k = DOMAIN o /\ k.count = l.c /\ k.head = (o.head + l.n) % RingSize
      /\ k.q = SubSeq(o.q, l.n + 1, Len(o.q)) /\ k.buf = o.buf /\ k.tail = o.tail
      /\ k.torn = o.torn /\ k.used = o.used /\ k.state = o.state
  BY <1>1 DEF TcpType, TcpFields
<1> HIDE DEF k
<1>5. k.head \in 0 .. RingSize - 1
  <2> DEFINE x == o.head + l.n
  <2>1. o.head \in 0 .. RingSize - 1 /\ RingSize \in Nat \ {0}
    BY <1>1, TcpAssumption DEF TcpType
  <2>2. x \in Nat
    BY SMTT(10), <1>3, <2>1
  <2>3. k.head = x % RingSize
    BY <1>4
  <2> HIDE DEF x
  <2> QED BY ONLY SMTT(10), <2>1, <2>2, <2>3
<1>6. k.q \in Seq(Int)
  <2>1. o.q \in Seq(Int) /\ l.n \in Nat
    BY SMTT(10), <1>1, <1>3 DEF TcpType
  <2> QED BY ONLY SMTT(10), <1>4, <2>1
<1>7. TcpType(k)
  BY <1>1, <1>3, <1>4, <1>5, <1>6 DEF TcpType
<1>8. ASSUME ~k.torn PROVE RingOk(k)
  <2>1. o.count = l.n + l.c /\ RingOf(o.buf, o.head, o.tail, o.count, o.q)
    BY <1>1, <1>3, <1>4, <1>8 DEF SockOk, RingOk
  <2>2. l.n \in 0 .. o.count /\ l.c = o.count - l.n
    BY SMTT(10), <1>3, <2>1
  <2>3. /\ o.head \in 0 .. RingSize - 1 /\ o.tail \in 0 .. RingSize /\ o.count \in 0 .. RingSize
        /\ o.q \in Seq(Int)
    BY <1>1 DEF TcpType
  <2>4. RingOf(o.buf, (o.head + l.n) % RingSize, o.tail, o.count - l.n,
               SubSeq(o.q, l.n + 1, Len(o.q)))
    BY ONLY ZenonT(20), <2>1, <2>2, <2>3, RingDrop
  <2> QED BY <1>4, <2>2, <2>4 DEF RingOk
<1>9. k.used /\ k.state # "SYN_RCVD"
  BY SMTT(30), <1>1, <1>4 DEF SockOk, TcpType, AtUser
<1>10. SockOk(k, AtUser)
  BY <1>7, <1>8, <1>9 DEF SockOk, RecvAt, AtUser
<1>11. CASE l.len > l.n /\ tsk' = [tsk EXCEPT ![s] = k] /\ top' = [top EXCEPT ![s] = m]
  <2>1. l.len - l.n \in Nat /\ l.c \in Nat
    BY SMTT(10), <1>3, <1>11
  <2>2. Min({l.len - l.n, l.c}) \in Nat /\ Min({l.len - l.n, l.c}) <= l.c
    BY <2>1, MinOfTwo
  <2>3. Min({l.len - l.n, l.c}) \in 0 .. k.count
    BY SMTT(10), <1>4, <2>1, <2>2
  <2>4. RecvAt(k, m)
    BY <2>1, <2>3 DEF RecvAt
  <2> HIDE DEF m
  <2>5. SockOk(k, m)
    BY <1>9, <1>10, <2>4 DEF SockOk
  <2> QED BY <1>11, <2>5, OneSocket
<1>12. CASE /\ \E j \in MaySend(k, 0) : tsk' = [tsk EXCEPT ![s] = j]
            /\ top' = [top EXCEPT ![s] = AtUser]
  <2>1. PICK j \in MaySend(k, 0) : tsk' = [tsk EXCEPT ![s] = j]
    BY <1>12
  <2>2. SameRing(k, j)
    BY <1>7, MaySendSame DEF TcpType
  <2>3. SockOk(j, AtUser)
    BY <1>10, <2>2, SameRingOk
  <2> QED BY <1>12, <2>1, <2>3, OneSocket
<1> QED BY <1>2, <1>11, <1>12

LEMMA SendChunkInv ==
  ASSUME TcpInv, NEW s \in TSocks, NEW left, SendChunk(s, left),
         top[s] # AtUser \/ (tsk[s].used /\ tsk[s].state # "SYN_RCVD")
  PROVE  TcpInv'
<1>1. PICK k \in MaySend(tsk[s], 1) :
        /\ tsk' = [tsk EXCEPT ![s] = k]
        /\ TGoto(s, IF k = tsk[s] THEN AtUser ELSE [pc |-> "send", left |-> left])
  BY DEF SendChunk
<1>2. SockOk(tsk[s], top[s]) /\ TcpFields \subseteq DOMAIN tsk[s]
  BY DEF TcpInv, SockOk, TcpType
<1>3. SameRing(tsk[s], k)
  BY <1>2, MaySendSame
<1>4. SockOk(k, top[s]) /\ (top[s] # AtUser \/ (k.used /\ k.state # "SYN_RCVD"))
  BY <1>2, <1>3, SameRingOk DEF SameRing
<1>5. SockOk(k, AtUser) /\ SockOk(k, [pc |-> "send", left |-> left])
  BY SMTT(30), <1>4, AtUserOk, ElsewhereOk
<1> QED BY <1>1, <1>5, OneSocket DEF TGoto

LEMMA TWriteInv == ASSUME TcpInv, TWrite PROVE TcpInv'
<1>1. ASSUME NEW s \in TSocks, NEW n, TSend(s, n) PROVE TcpInv'
  BY <1>1, SendChunkInv DEF TSend, TCalls
<1>2. ASSUME NEW s \in TSocks, TSendNext(s) PROVE TcpInv'
  <2>1. top[s] # AtUser
    BY SMTT(30), <1>2 DEF TSendNext, AtUser
  <2>2. SockOk(tsk[s], AtUser)
    BY AtUserOk DEF TcpInv
  <2> QED BY <1>2, <2>1, <2>2, SendChunkInv, OneMoved DEF TSendNext
<1> QED BY <1>1, <1>2 DEF TWrite

LEMMA TShutInv == ASSUME TcpInv, TShut PROVE TcpInv'
<1>1. ASSUME NEW s \in TSocks, TClose(s), tsk[s].state = "ESTABLISHED" PROVE TcpInv'
  <2> DEFINE c == [tsk[s] EXCEPT !.state = "FIN_WAIT_1"]
  <2>1. PICK k \in MaySend(c, 1) : tsk' = [tsk EXCEPT ![s] = k]
    BY <1>1 DEF TClose
  <2>2. SockOk(tsk[s], top[s]) /\ TcpFields \subseteq DOMAIN tsk[s] /\ tsk[s].used
    BY <1>1 DEF TcpInv, SockOk, TcpType, TClose
  <2>3. SameRing(tsk[s], c) /\ c.state = "FIN_WAIT_1"
    BY <2>2 DEF SameRing, TcpFields
  <2> HIDE DEF c
  <2>4. SameRing(c, k) /\ k.state = "FIN_WAIT_1"
    BY SMTT(30), <2>3, MaySendSame DEF SameRing
  <2>5. SockOk(k, top[s]) /\ k.used
    BY <2>2, <2>3, <2>4, SameRingOk, SameRingTrans DEF SameRing
  <2>6. SockOk(k, [pc |-> "close"])
    BY SMTT(30), <2>4, <2>5, ElsewhereOk
  <2> QED BY <1>1, <2>1, <2>6, OneSocket DEF TClose, TGoto
<1>2. ASSUME NEW s \in TSocks, TClose(s), tsk[s].state # "ESTABLISHED" PROVE TcpInv'
  BY <1>2, NewTcpOk, OneKept DEF TClose
<1>3. ASSUME NEW s \in TSocks, TCloseEnd(s) PROVE TcpInv'
  BY <1>3, NewTcpOk, OneSocket DEF TCloseEnd, TGoto
<1> QED BY <1>1, <1>2, <1>3 DEF TShut

LEMMA TTimerInv == ASSUME TcpInv, TTimer PROVE TcpInv'
<1>1. /\ DOMAIN tsk' = TSocks /\ UNCHANGED top
      /\ \A s \in TSocks : tsk'[s] \in Retried(Aged(tsk[s]))
  BY DEF TTimer
<1>2. ASSUME NEW s \in TSocks PROVE SockOk(tsk'[s], top[s])
  <2>1. SockOk(tsk[s], top[s]) /\ TcpFields \subseteq DOMAIN tsk[s]
    BY DEF TcpInv, SockOk, TcpType
  <2>2. SameRing(tsk[s], tsk'[s])
    BY <1>1, <2>1, RetriedSame
  <2> QED BY <2>1, <2>2, SameRingOk
<1> QED BY <1>1, <1>2 DEF TcpInv

LEMMA TcpNextInv == ASSUME TcpInv, [TNext]_tvars PROVE TcpInv'
<1>1. CASE UNCHANGED tvars
  BY <1>1 DEF TcpInv, tvars
<1>2. CASE TOpen
  BY <1>2, TSocketInv, TBindInv, TConnectInv, TListenInv, TAcceptInv DEF TOpen
<1>3. CASE TRead
  <2>1. 1 .. 2 \subseteq Nat
    BY SMTT(10)
  <2> QED BY <1>3, <2>1, TRecvInv, TRecvLoadInv, TRecvStoreInv, TTimeoutInv DEF TRead
<1>4. ASSUME NEW g \in Segments, TArrive(g) PROVE TcpInv'
  BY <1>4, THandleInv, THandleSynInv DEF TArrive
<1> QED BY <1>1, <1>2, <1>3, <1>4, TWriteInv, TShutInv, TTimerInv DEF TNext

\* The ring's places are counted without %.
LEMMA TcpInvRing == ASSUME TcpInv PROVE RingHoldsAccepted
<1>1. ASSUME NEW s \in TSocks
      PROVE  /\ tsk[s].count \in 0 .. RingSize
             /\ ~tsk[s].torn =>
                  /\ tsk[s].count = Len(tsk[s].q)
                  /\ \A i \in 1 .. tsk[s].count :
                       tsk[s].buf[(tsk[s].head + i - 1) % RingSize] = tsk[s].q[i]
  <2> DEFINE k == tsk[s]
  <2>1. TcpType(k) /\ (~k.torn => RingOk(k))
    BY DEF TcpInv, SockOk
  <2> HIDE DEF k
  <2>2. k.count \in 0 .. RingSize /\ k.head \in 0 .. RingSize - 1 /\ RingSize \in Nat \ {0}
    BY <2>1, TcpAssumption DEF TcpType
  <2>3. ASSUME ~k.torn, NEW i \in 1 .. k.count PROVE k.buf[(k.head + i - 1) % RingSize] = k.q[i]
    <3> DEFINE x == k.head + i - 1
    <3>1. /\ x \in Int /\ -RingSize <= x /\ x < 2 * RingSize /\ ~(x < 0)
          /\ RingPos(k.head, i - 1, RingSize) = IF x < RingSize THEN x ELSE x - RingSize
      BY SMTT(10), <2>2 DEF RingPos
    <3> HIDE DEF x
    <3>2. x % RingSize = RingPos(k.head, i - 1, RingSize)
      BY <2>2, <3>1, ModOnce
    <3>3. k.buf[RingPos(k.head, i - 1, RingSize)] = k.q[i]
      BY <2>1, <2>3 DEF RingOk, RingOf
    <3> QED BY <3>2, <3>3 DEF x
  <2>4. ~k.torn => k.count = Len(k.q)
    BY <2>1 DEF RingOk, RingOf
  <2> QED BY <2>2, <2>3, <2>4 DEF k
<1> QED BY <1>1 DEF RingHoldsAccepted

\* As long as no segment is accepted between tcp_recv's load of rcv_buf_count and
\* its store, the ring that tcp_handle_packet fills and tcp_recv empties holds the
\* accepted bytes that were not read, in order, and its count never passes its
\* size, for any number of sockets and any ring.
THEOREM RingKeepsAccepted == TSpec => []RingHoldsAccepted
BY TcpInitInv, TcpNextInv, TcpInvRing, PTL DEF TSpec

-----------------------------------------------------------------------------
(* The network. What the cache says was heard.                             *)

ArpType == arp \in Seq(UNION {[ip : Hosts, mac : Macs[h]] : h \in Hosts})

ArpHeard == \A i \in DOMAIN arp : <<arp[i].ip, arp[i].mac>> \in heard

\* A ping between its call and its return: the answers that count are to it.
Pinging == client.pc \in {"resolve", "wait", "failed"} /\ client.job.kind = "ping"

PingInv ==
  /\ {"target", "got"} \subseteq DOMAIN ping
  /\ client.pc = "resolve" => {"pc", "hop", "tries", "job"} \subseteq DOMAIN client
  /\ client.pc = "ping" => ping.target = client.dst
  /\ Pinging => /\ ping.target = client.job.dst
                /\ ping.got => client.job.dst \in answered
  /\ PingIsTrue

NetInv == ArpType /\ ArpHeard /\ SentToNextHop /\ PingInv

LEMMA NetInitInv == NInit => NetInv
<1> SUFFICES ASSUME NInit PROVE NetInv
  OBVIOUS
<1>1. ArpType /\ ArpHeard
  <2>1. arp = <<>> /\ DOMAIN arp = {}
    BY SMTT(10) DEF NInit
  <2>2. ArpType
    BY SMTT(10), <2>1 DEF ArpType
  <2> QED BY <2>1, <2>2 DEF ArpHeard
<1>2. SentToNextHop
  BY DEF NInit, SentToNextHop
<1>3. PingInv
  BY DEF NInit, PingInv, Pinging, PingIsTrue, NIdle
<1> QED BY <1>1, <1>2, <1>3 DEF NetInv

\* What arp_lookup finds was heard of.
LEMMA LookupHeard ==
  ASSUME ArpType, ArpHeard, NEW ip, ArpLookup(ip) # Nobody
  PROVE  <<ip, ArpLookup(ip)>> \in heard
<1> DEFINE hits == {i \in DOMAIN arp : arp[i].ip = ip}
<1>1. hits \in SUBSET Nat
  BY SMTT(10) DEF ArpType
<1>2. hits # {} /\ ArpLookup(ip) = arp[Min(hits)].mac
  BY DEF ArpLookup
<1>3. Min(hits) \in hits
  BY <1>1, <1>2, MinInSet
<1>4. Min(hits) \in DOMAIN arp /\ arp[Min(hits)].ip = ip
  BY <1>3
<1> HIDE DEF hits
<1> QED BY <1>2, <1>4 DEF ArpHeard

\* arp_cache_add: the entries that stay were heard before, the new one just now.
LEMMA ArpArriveInv ==
  ASSUME ArpType, ArpHeard, NEW h \in Hosts, NEW m \in Macs[h], ArpArrive(h, m)
  PROVE  ArpType' /\ ArpHeard'
<1> DEFINE E == UNION {[ip : Hosts, mac : Macs[g]] : g \in Hosts}
           r == [ip |-> h, mac |-> m]
           old == IF Len(arp) < ArpSize THEN arp ELSE Tail(arp)
<1>1. arp \in Seq(E)
  BY DEF ArpType
<1>2. r \in E
  BY SMTT(30)
<1> HIDE DEF E
<1>3. old \in Seq(E) /\ \A i \in DOMAIN old : \E j \in DOMAIN arp : old[i] = arp[j]
  <2>1. CASE Len(arp) < ArpSize
    BY <1>1, <2>1
  <2>2. CASE ~(Len(arp) < ArpSize)
    <3>1. arp # <<>>
      BY SMTT(10), <1>1, <2>2, NetAssumption
    <3>2. /\ Tail(arp) \in Seq(E)
          /\ \A i \in DOMAIN Tail(arp) : i + 1 \in DOMAIN arp /\ Tail(arp)[i] = arp[i + 1]
      BY SMTT(10), <1>1, <3>1
    <3> QED BY <2>2, <3>2
  <2> QED BY <2>1, <2>2
<1>4. arp' = Append(old, r) /\ heard' = heard \union {<<h, m>>}
  BY DEF ArpArrive, ArpAdd
<1> HIDE DEF old
<1>5. ArpType'
  <2>1. arp' \in Seq(E)
    BY SMTT(10), <1>2, <1>3, <1>4
  <2> QED BY <2>1 DEF ArpType, E
<1>6. ASSUME NEW i \in DOMAIN arp' PROVE <<arp'[i].ip, arp'[i].mac>> \in heard'
  <2>1. \/ i \in DOMAIN old /\ arp'[i] = old[i]
        \/ arp'[i] = r
    <3> HIDE DEF r
    <3> QED BY SMTT(10), <1>3, <1>4, <1>6
  <2> QED BY SMTT(30), <1>3, <1>4, <2>1 DEF ArpHeard
<1> QED BY <1>5, <1>6 DEF ArpHeard

\* A step that sends uses what arp_lookup found.
LEMMA SendToInv ==
  ASSUME ArpType, ArpHeard, NEW hop, ArpLookup(hop) # Nobody, SendTo(hop), UNCHANGED heard
  PROVE  SentToNextHop'
BY LookupHeard DEF SendTo, SentToNextHop

LEMMA SameArp == ASSUME ArpType, ArpHeard, UNCHANGED <<arp, heard>> PROVE ArpType' /\ ArpHeard'
BY DEF ArpType, ArpHeard

LEMMA SameWire == ASSUME SentToNextHop, wire' = wire, heard \subseteq heard' PROVE SentToNextHop'
BY DEF SentToNextHop

\* A client that is not in a ping.
LEMMA OtherClient ==
  ASSUME PingInv, UNCHANGED <<ping, answered>>,
         \/ client'.pc \in {"idle", "done"}
         \/ \E dst, job : NSend(dst, job) /\ job.kind # "ping"
  PROVE  PingInv'
<1>1. CASE client'.pc \in {"idle", "done"}
  BY <1>1 DEF PingInv, Pinging, PingIsTrue
<1>2. CASE \E dst, job : NSend(dst, job) /\ job.kind # "ping"
  <2>1. /\ client'.pc = "resolve" /\ client'.job.kind # "ping"
        /\ {"pc", "hop", "tries", "job"} \subseteq DOMAIN client'
    BY SMTT(30), <1>2 DEF NSend
  <2> QED BY <2>1 DEF PingInv, Pinging, PingIsTrue
<1> QED BY <1>1, <1>2

LEMMA SameClient == ASSUME PingInv, UNCHANGED <<ping, answered, client>> PROVE PingInv'
BY DEF PingInv, Pinging, PingIsTrue

LEMMA IpArriveInv == ASSUME NetInv, NEW dst, IpArrive(dst) PROVE NetInv'
<1> USE DEF NetInv
<1>1. ASSUME NEW h \in Hosts, EchoRequest(h) PROVE NetInv'
  BY <1>1, SendToInv, SameArp, SameClient DEF EchoRequest
<1>2. ASSUME NEW h \in Hosts, EchoReply(h) PROVE NetInv'
  <2>1. ArpType' /\ ArpHeard' /\ SentToNextHop'
    BY <1>2, SameArp, SameWire DEF EchoReply
  <2>2. /\ {"target", "got"} \subseteq DOMAIN ping'
        /\ ping'.target = ping.target
        /\ ping'.got => ping.got \/ ping.target \in answered'
    BY <1>2 DEF EchoReply, PingInv
  <2>3. client' = client /\ answered \subseteq answered'
    BY <1>2 DEF EchoReply
  <2>4. PingInv'
    BY <2>2, <2>3 DEF PingInv, Pinging, PingIsTrue
  <2> QED BY <2>1, <2>4
<1>3. ASSUME NEW p, NEW d, UdpArrive(p, d) PROVE NetInv'
  BY <1>3, SameArp, SameWire, SameClient DEF UdpArrive
<1> QED BY <1>1, <1>2, <1>3 DEF IpArrive

LEMMA NetArriveInv == ASSUME NetInv, NetArrive PROVE NetInv'
<1>1. ASSUME NEW h \in Hosts, NEW m \in Macs[h], ArpArrive(h, m) PROVE NetInv'
  <2>1. ArpType' /\ ArpHeard'
    BY <1>1, ArpArriveInv DEF NetInv
  <2>2. SentToNextHop' /\ PingInv'
    BY <1>1, SameWire, SameClient DEF NetInv, ArpArrive
  <2> QED BY <2>1, <2>2 DEF NetInv
<1> QED BY <1>1, IpArriveInv DEF NetArrive

LEMMA PingStepsInv ==
  ASSUME NetInv, (\E h \in Hosts : PingStart(h)) \/ PingClear \/ PingEnd \/ NReturn
  PROVE  NetInv'
<1>1. ArpType' /\ ArpHeard' /\ SentToNextHop'
  BY SameArp, SameWire DEF NetInv, PingStart, PingClear, PingEnd, NReturn
<1>2. ASSUME NEW h \in Hosts, PingStart(h) PROVE PingInv'
  <2>1. client' = [pc |-> "ping", dst |-> h] /\ answered' = answered
    BY <1>2 DEF PingStart
  <2>2. client'.pc = "ping" /\ client'.dst = h
    BY <2>1
  <2>3. {"target", "got"} \subseteq DOMAIN ping' /\ ping'.target = h
    BY <1>2 DEF PingStart, NetInv, PingInv
  <2> QED BY <2>2, <2>3 DEF PingInv, Pinging, PingIsTrue
<1>3. ASSUME PingClear PROVE PingInv'
  <2>1. /\ client'.pc = "resolve" /\ client'.job = [kind |-> "ping", dst |-> client.dst]
        /\ {"pc", "hop", "tries", "job"} \subseteq DOMAIN client'
    BY <1>3 DEF PingClear, NSend
  <2>2. client'.job.dst = client.dst
    BY SMTT(30), <2>1
  <2>3. {"target", "got"} \subseteq DOMAIN ping' /\ ping'.target = client.dst /\ ~ping'.got
    BY <1>3 DEF PingClear, NetInv, PingInv
  <2> QED BY <2>1, <2>2, <2>3 DEF PingInv, Pinging, PingIsTrue
<1>4. ASSUME PingEnd PROVE PingInv'
  <2>1. Pinging /\ client' = [pc |-> "pinged", dst |-> client.job.dst, ok |-> ping.got]
    BY <1>4 DEF PingEnd, Pinging
  <2>2. client'.pc = "pinged" /\ client'.dst = client.job.dst /\ client'.ok = ping.got
    BY <2>1
  <2>3. UNCHANGED <<ping, answered>>
    BY <1>4 DEF PingEnd
  <2>4. PingIsTrue'
    BY <2>1, <2>2, <2>3 DEF NetInv, PingInv, PingIsTrue
  <2> QED BY <2>2, <2>3, <2>4 DEF NetInv, PingInv, Pinging
<1>5. ASSUME NReturn PROVE PingInv'
  BY <1>5, OtherClient DEF NetInv, NReturn, NIdle
<1> QED BY <1>1, <1>2, <1>3, <1>4, <1>5 DEF NetInv

LEMMA ResolveInv == ASSUME NetInv, Resolve PROVE NetInv'
<1>1. ArpType' /\ ArpHeard'
  BY SameArp DEF NetInv, Resolve
<1>2. SentToNextHop'
  BY SendToInv, SameWire DEF NetInv, Resolve
<1>3. PingInv'
  <2>1. \/ client'.pc \in {"wait", "failed"} /\ client'.job = client.job
        \/ /\ client'.pc = "resolve" /\ client'.job = client.job
           /\ DOMAIN client' = DOMAIN client
    BY SMTT(30) DEF NetInv, PingInv, Resolve
  <2> QED BY <2>1 DEF NetInv, PingInv, Pinging, PingIsTrue, Resolve
<1> QED BY <1>1, <1>2, <1>3 DEF NetInv

\* dhcp_request and dns_lookup: neither touches icmp_ping's state.
LEMMA LookupsInv ==
  ASSUME NetInv, DhcpStart \/ DhcpRecv \/ NTimeout \/ DnsStart \/ DnsRecv
  PROVE  NetInv'
<1>1. ArpType' /\ ArpHeard' /\ SentToNextHop'
  BY SameArp, SameWire DEF NetInv, DhcpStart, DhcpRecv, NTimeout, DnsStart, DnsRecv
<1>2. UNCHANGED <<ping, answered>>
  BY DEF DhcpStart, DhcpRecv, NTimeout, DnsStart, DnsRecv
<1>3. ASSUME NEW n, DnsSend(n) PROVE \E dst, job : NSend(dst, job) /\ job.kind # "ping"
  BY SMTT(30), <1>3 DEF DnsSend
<1>4. ASSUME DhcpSend PROVE \E dst, job : NSend(dst, job) /\ job.kind # "ping"
  BY SMTT(30), <1>4 DEF DhcpSend
<1>5. \/ client' = client
      \/ client'.pc = "done"
      \/ \E dst, job : NSend(dst, job) /\ job.kind # "ping"
  BY SMTT(30), <1>3, <1>4 DEF DhcpStart, DhcpRecv, NTimeout, DnsStart, DnsRecv
<1>6. PingInv'
  BY <1>2, <1>5, OtherClient, SameClient DEF NetInv
<1> QED BY <1>1, <1>6 DEF NetInv

LEMMA NetNextInv == ASSUME NetInv, [NNext]_nvars PROVE NetInv'
<1>1. CASE UNCHANGED nvars
  BY <1>1, SameArp, SameWire, SameClient DEF NetInv, nvars
<1> QED BY <1>1, NetArriveInv, PingStepsInv, ResolveInv, LookupsInv DEF NNext

\* ip_send_packet's frames go to a hardware address their next hop announced,
\* for a cache of any size and any traffic of arp_cache_add.
THEOREM FramesGoWhereHeard == NSpec => []SentToNextHop
<1>1. NetInv => SentToNextHop
  BY DEF NetInv
<1> QED BY <1>1, NetInitInv, NetNextInv, PTL DEF NSpec

\* icmp_ping's success means that the host has answered since the ping began.
THEOREM PingReportsTrue == NSpec => []PingIsTrue
<1>1. NetInv => PingIsTrue
  BY DEF NetInv, PingInv
<1> QED BY <1>1, NetInitInv, NetNextInv, PTL DEF NSpec

-----------------------------------------------------------------------------
(* UNIX sockets. One step of a process p leaves the rest of the processes   *)
(* where they are, at most awake, and changes how much a socket holds only  *)
(* if the socket is its own, new, or one whose sleepers it wakes.           *)

Holds(t, x) == <<t[x].len, t[x].count>>

Waits(p) == blocked[p] # 0 /\ "then" \notin DOMAIN at[p] /\ at[p].pc \in {"accept", "recv"}

NothingMissed(p) ==
  /\ blocked[p] = at[p].s
  /\ IF at[p].pc = "recv" THEN sk[at[p].s].len = 0 ELSE sk[at[p].s].count = 0

\* Where a call is, it is with a socket of its process.
Place(p) ==
  /\ at[p].pc # "user" => at[p].s \in owns[p] /\ {"pc", "s"} \subseteq DOMAIN at[p]
  /\ at[p].pc = "again" => "then" \in DOMAIN at[p]
  /\ Waits(p) => NothingMissed(p)

SockType ==
  /\ DOMAIN sk = Sock /\ \A x \in Sock : {"len", "count"} \subseteq DOMAIN sk[x]
  /\ used \in 0 .. NSock
  /\ DOMAIN owns = UProcs /\ \A p \in UProcs : owns[p] \subseteq 1 .. used
  /\ DOMAIN at = UProcs /\ DOMAIN blocked = UProcs

SockInv ==
  /\ SockType
  /\ \A p, q \in UProcs : p # q => owns[p] \intersect owns[q] = {}
  /\ \A p \in UProcs : Place(p)

Others(p) ==
  \A q \in UProcs \ {p} :
    at'[q] = at[q] /\ owns'[q] = owns[q] /\ blocked'[q] \in {0, blocked[q]}

Changes(p) ==
  \A x \in 1 .. used : \/ Holds(sk', x) = Holds(sk, x)
                       \/ x \in owns[p]
                       \/ \A q \in UProcs \ {p} : blocked'[q] # x

Grows(p) ==
  \/ used' = used /\ owns'[p] \subseteq owns[p]
  \/ used < NSock /\ used' = used + 1 /\ owns'[p] \subseteq owns[p] \union {used + 1}

Steps(p) == SockType' /\ Others(p) /\ Changes(p) /\ Grows(p) /\ Place(p)'

LEMMA StepsKeep == ASSUME SockInv, NEW p \in UProcs, Steps(p) PROVE SockInv'
<1>1. ASSUME NEW q \in UProcs, NEW r \in UProcs, q # r
      PROVE  owns'[q] \intersect owns'[r] = {}
  BY SMTT(30), <1>1 DEF SockInv, SockType, Steps, Others, Grows
<1>2. ASSUME NEW q \in UProcs \ {p} PROVE Place(q)'
  <2>1. at'[q] = at[q] /\ owns'[q] = owns[q] /\ blocked'[q] \in {0, blocked[q]}
    BY DEF Steps, Others
  <2>2. Place(q)
    BY DEF SockInv
  <2>3. ASSUME Waits(q)' PROVE NothingMissed(q)'
    <3>1. Waits(q) /\ blocked'[q] = blocked[q]
      BY <2>1, <2>3 DEF Waits
    <3>2. NothingMissed(q) /\ at[q].s \in owns[q]
      BY <2>2, <3>1 DEF Place, Waits
    <3>3. at[q].s \in 1 .. used /\ at[q].s \notin owns[p]
      BY <3>2 DEF SockInv, SockType
    <3>4. Holds(sk', at[q].s) = Holds(sk, at[q].s)
      BY <3>1, <3>2, <3>3 DEF Steps, Changes, NothingMissed
    <3> QED BY <2>1, <3>1, <3>2, <3>4 DEF NothingMissed, Holds
  <2> QED BY <2>1, <2>2, <2>3 DEF Place
<1> QED BY <1>1, <1>2 DEF SockInv, Steps

\* Only the sockets of S may hold more or less after the step.
Only(S) ==
  /\ DOMAIN sk' = Sock
  /\ \A x \in Sock : /\ {"len", "count"} \subseteq DOMAIN sk'[x]
                     /\ x \notin S => Holds(sk', x) = Holds(sk, x)

\* p goes to l, and everybody else stays, asleep or woken.
Moved(p, l) ==
  /\ DOMAIN at' = UProcs /\ at'[p] = l /\ DOMAIN blocked' = UProcs
  /\ \A q \in UProcs \ {p} : at'[q] = at[q] /\ blocked'[q] \in {0, blocked[q]}

\* p may change what the sockets of S hold: they are its own, or nobody sleeps on them.
May(p, S) == \A x \in S : x \in owns[p] \/ \A q \in UProcs \ {p} : blocked'[q] # x

\* p may go to l, with a socket of its own.
Aims(p, l) ==
  /\ l.pc # "user" => l.s \in owns[p] /\ {"pc", "s"} \subseteq DOMAIN l
  /\ l.pc = "again" => "then" \in DOMAIN l

Heeds(p) == Waits(p)' => NothingMissed(p)'

LEMMA MayOwn == ASSUME NEW p, NEW s \in owns[p] PROVE May(p, {s})
BY DEF May

LEMMA MayNone == ASSUME NEW p PROVE May(p, {})
BY DEF May

LEMMA UserAims == ASSUME NEW p PROVE Aims(p, User)
<1>1. User.pc = "user"
  BY DEF User
<1> QED BY <1>1 DEF Aims

\* A step that takes no new socket.
LEMMA PlainSteps ==
  ASSUME SockInv, NEW p \in UProcs, NEW S, Only(S), used' = used, owns' = owns,
         NEW l, Moved(p, l), May(p, S), Aims(p, l), Heeds(p)
  PROVE  Steps(p)
<1>1. SockType'
  BY DEF SockInv, SockType, Only, Moved
<1>2. Others(p) /\ Grows(p)
  BY DEF Others, Grows, Moved
<1>3. Changes(p)
  <2> SUFFICES ASSUME NEW x \in 1 .. used
               PROVE  Holds(sk', x) = Holds(sk, x) \/ x \in owns[p]
                      \/ \A q \in UProcs \ {p} : blocked'[q] # x
    BY DEF Changes
  <2>1. x \in Sock
    BY SMTT(30), UnixAssumption DEF SockInv, SockType, Sock
  <2> QED BY <2>1 DEF Only, May
<1>4. Place(p)'
  BY DEF Place, Moved, Aims, Heeds
<1> QED BY <1>1, <1>2, <1>3, <1>4 DEF Steps

\* The next entry of a table of n that has u of them in use.
LEMMA NextEntry ==
  ASSUME NEW n \in Nat, NEW u \in 0 .. n, u # n
  PROVE  /\ u \in Nat /\ u < n /\ u + 1 \in 1 .. n /\ u + 1 \in 0 .. n /\ u + 1 \notin 1 .. u
         /\ 1 .. u \subseteq 1 .. n /\ 1 .. u \subseteq 1 .. (u + 1) /\ u + 1 \in 1 .. (u + 1)
  BY SMTT(10)

LEMMA SocketSteps == ASSUME SockInv, NEW p \in UProcs, SysSocket(p) PROVE Steps(p)
<1>1. /\ used < NSock /\ used' = used + 1 /\ sk' = [sk EXCEPT ![used + 1] = NewSock]
      /\ owns' \in {owns, [owns EXCEPT ![p] = @ \union {used + 1}]}
      /\ at' = at /\ blocked' = blocked /\ at[p] = User /\ Runs(p)
  BY DEF SysSocket, Create
<1>2. NSock \in Nat /\ used \in 0 .. NSock /\ used # NSock
  BY SMTT(10), <1>1, UnixAssumption DEF SockInv, SockType
<1>a. {"len", "count"} \subseteq DOMAIN NewSock
  BY DEF NewSock
<1>b. /\ used + 1 \in Sock /\ used + 1 \in 0 .. NSock /\ used + 1 \notin 1 .. used
      /\ 1 .. used \subseteq Sock /\ 1 .. used \subseteq 1 .. (used + 1)
      /\ used + 1 \in 1 .. (used + 1)
  BY <1>2, NextEntry DEF Sock
<1>3. SockType'
  <2>1. DOMAIN sk' = Sock /\ \A x \in Sock : {"len", "count"} \subseteq DOMAIN sk'[x]
    BY <1>1, <1>a, <1>b DEF SockInv, SockType
  <2>2. DOMAIN owns' = UProcs /\ \A q \in UProcs : owns'[q] \subseteq 1 .. (used + 1)
    BY SMTT(10), <1>1, <1>b DEF SockInv, SockType
  <2> QED BY <1>1, <1>b, <2>1, <2>2 DEF SockInv, SockType
<1>4. Others(p) /\ Changes(p) /\ Grows(p)
  <2>1. Others(p)
    BY <1>1 DEF SockInv, SockType, Others
  <2>2. Changes(p)
    BY <1>1, <1>b DEF SockInv, SockType, Changes, Holds
  <2>3. Grows(p)
    BY <1>1 DEF SockInv, SockType, Grows
  <2> QED BY <2>1, <2>2, <2>3
<1>5. Place(p)'
  BY SMTT(30), <1>1 DEF Place, Waits, User, Runs
<1> QED BY <1>3, <1>4, <1>5 DEF Steps

LEMMA OwnSteps ==
  ASSUME SockInv, NEW p \in UProcs,
         NEW s \in owns[p], SysListen(p, s) \/ \E path \in UPaths : SysBind(p, s, path)
  PROVE  Steps(p)
<1>1. /\ owns' = owns /\ used' = used /\ at' = at /\ blocked' = blocked
      /\ at[p] = User /\ Runs(p)
  BY DEF SysListen, SysBind, UCalls, Listen, Bind
<1>2. Only({s})
  <2>1. CASE \E path \in UPaths : SysBind(p, s, path)
    <3>1. PICK path : sk' = [sk EXCEPT ![s].path = path]
      BY <2>1 DEF SysBind, Bind
    <3> QED BY <3>1 DEF Only, Holds, SockInv, SockType
  <2>2. CASE SysListen(p, s)
    <3>1. sk' = [sk EXCEPT ![s].listening = TRUE, ![s].count = 0, ![s].head = 0, ![s].tail = 0]
      BY <2>2 DEF SysListen, Listen
    <3> QED BY <3>1 DEF Only, Holds, SockInv, SockType
  <2> QED BY <2>1, <2>2
<1>3. Moved(p, User)
  BY <1>1 DEF Moved, SockInv, SockType
<1>4. Heeds(p)
  BY <1>1 DEF Heeds, Waits, Runs
<1> QED BY <1>1, <1>2, <1>3, <1>4, MayOwn, UserAims, PlainSteps

LEMMA WakeupIs ==
  ASSUME SockInv, NEW p \in UProcs, NEW ch, NEW l, Wakeup(ch, p, l), Runs(p)
  PROVE  /\ Moved(p, l)
         /\ ch # 0 => \A q \in UProcs : blocked'[q] # ch
         /\ blocked'[p] = 0
  BY DEF SockInv, SockType, Wakeup, Goto, Runs, Moved

LEMMA BlockOnIs ==
  ASSUME SockInv, NEW p \in UProcs, NEW ch, NEW l, BlockOn(ch, p, l)
  PROVE  /\ Moved(p, l)
         /\ blocked'[p] = ch /\ at'[p] = l
  BY DEF SockInv, SockType, BlockOn, Goto, Moved

\* The table t is that of the sockets but for what s holds.
Near(t, s) ==
  /\ DOMAIN t = Sock
  /\ \A x \in Sock : /\ {"len", "count"} \subseteq DOMAIN t[x]
                     /\ x # s => Holds(t, x) = Holds(sk, x)

LEMMA AdoptSteps ==
  ASSUME SockInv, NEW p \in UProcs, NEW s \in owns[p], NEW c, NEW t, Near(t, s), Runs(p),
         Adopt(p, s, c, t)
  PROVE  Steps(p)
<1> DEFINE n == used + 1
           linked == [t EXCEPT ![n] = [NewSock EXCEPT !.connected = TRUE, !.peer = c],
                               ![c].peer = n, ![c].connected = TRUE]
<1>1. CASE used = NSock
  <2>1. sk' = t /\ Goto(p, User) /\ used' = used /\ owns' = owns /\ blocked' = blocked
    BY <1>1 DEF Adopt
  <2>2. Only({s}) /\ Moved(p, User)
    BY <2>1 DEF Only, Near, Moved, Goto, SockInv, SockType
  <2>3. Heeds(p)
    BY <2>1 DEF Heeds, Waits, Runs
  <2> QED BY <2>1, <2>2, <2>3, MayOwn, UserAims, PlainSteps
<1>2. CASE used # NSock
  <2>1. /\ used' = n /\ n \in Sock /\ used \in Nat /\ used < NSock
        /\ sk' \in {linked, [linked EXCEPT ![n].closed = TRUE]}
        /\ owns' \in {owns, [owns EXCEPT ![p] = @ \union {n}]}
        /\ Wakeup(c, p, User) \/ (Goto(p, User) /\ blocked' = blocked)
    <3>1. NSock \in Nat /\ used \in 0 .. NSock
      BY UnixAssumption DEF SockInv, SockType
    <3>2. n \in Sock /\ used \in Nat /\ used < NSock
      BY <1>2, <3>1, NextEntry DEF Sock
    <3> QED BY <1>2, <3>2 DEF Adopt
  <2>2. Moved(p, User) /\ blocked'[p] = 0
    BY SMTT(30), <2>1, WakeupIs DEF Moved, Goto, SockInv, SockType, Runs
  <2>3. /\ DOMAIN linked = Sock
        /\ \A x \in Sock : /\ {"len", "count"} \subseteq DOMAIN linked[x]
                           /\ x # n => Holds(linked, x) = Holds(t, x)
    <3>1. {"len", "count"} \subseteq DOMAIN [NewSock EXCEPT !.connected = TRUE, !.peer = c]
      BY DEF NewSock
    <3> HIDE DEF n
    <3>2. ASSUME NEW x \in Sock
          PROVE  /\ {"len", "count"} \subseteq DOMAIN linked[x]
                 /\ x # n => Holds(linked, x) = Holds(t, x)
      <4>1. /\ DOMAIN linked = Sock
            /\ x # n /\ x # c => linked[x] = t[x]
            /\ x # n /\ x = c => linked[x] = [t[x] EXCEPT !.peer = n, !.connected = TRUE]
            /\ x = n /\ x # c => linked[x] = [NewSock EXCEPT !.connected = TRUE, !.peer = c]
            /\ x = n /\ x = c => linked[x] = [[NewSock EXCEPT !.connected = TRUE, !.peer = c]
                                              EXCEPT !.peer = n, !.connected = TRUE]
        BY <2>1 DEF Near
      <4> HIDE DEF linked
      <4>2. {"len", "count"} \subseteq DOMAIN t[x]
        BY DEF Near
      <4> QED BY <3>1, <4>1, <4>2 DEF Holds
    <3> QED BY <3>2 DEF Near
  <2> HIDE DEF linked
  <2>4. /\ DOMAIN sk' = Sock
        /\ \A x \in Sock : /\ {"len", "count"} \subseteq DOMAIN sk'[x]
                           /\ x # n => Holds(sk', x) = Holds(t, x)
    BY <2>1, <2>3 DEF Holds
  <2>5. SockType'
    BY SMTT(30), <2>1, <2>2, <2>4, UnixAssumption DEF SockInv, SockType, Moved, Sock
  <2>o. Others(p)
    <3>1. \A q \in UProcs \ {p} : owns'[q] = owns[q]
      BY <2>1 DEF SockInv, SockType
    <3> QED BY <2>2, <3>1 DEF Others, Moved
  <2>6. Grows(p)
    <3>1. owns'[p] \subseteq owns[p] \union {n}
      BY <2>1 DEF SockInv, SockType
    <3> QED BY <2>1, <3>1 DEF Grows
  <2>7. Changes(p)
    <3> USE DEF Changes
    <3> TAKE x \in 1 .. used
    <3>1. x \in Sock /\ x # n
      <4>1. used \in Nat /\ used < NSock
        BY <2>1
      <4> QED BY ONLY SMTT(10), <4>1, x \in 1 .. used, UnixAssumption DEF Sock
    <3>2. CASE x = s
      BY <3>2
    <3>3. CASE x # s
      BY <2>4, <3>1, <3>3 DEF Near
    <3> QED BY <3>2, <3>3
  <2>8. Place(p)'
    BY SMTT(30), <2>2 DEF Place, Waits, Moved, User
  <2> QED BY <2>5, <2>o, <2>6, <2>7, <2>8 DEF Steps
<1> QED BY <1>1, <1>2

LEMMA AcceptSteps ==
  ASSUME SockInv, NEW p \in UProcs, NEW s \in owns[p], SysAccept(p, s) PROVE Steps(p)
<1>0. Runs(p) /\ Accept(p, s)
  BY DEF SysAccept, UCalls
<1>1. CASE sk[s].count = 0
  <2> DEFINE l == [pc |-> "accept", s |-> s]
  <2>1. BlockOn(s, p, l) /\ sk' = sk /\ used' = used /\ owns' = owns
    BY <1>0, <1>1 DEF Accept
  <2>2. Moved(p, l) /\ blocked'[p] = s /\ at'[p] = l
    BY <2>1, BlockOnIs
  <2>3. Only({})
    BY <2>1 DEF Only, SockInv, SockType
  <2>4. Aims(p, l) /\ l.s = s /\ l.pc = "accept"
    BY DEF Aims
  <2> HIDE DEF l
  <2>5. Heeds(p)
    BY <1>1, <2>1, <2>2, <2>4 DEF Heeds, NothingMissed
  <2> QED BY <2>1, <2>2, <2>3, <2>4, <2>5, MayNone, PlainSteps
<1>2. CASE sk[s].count # 0
  <2> DEFINE t == [sk EXCEPT ![s].head = (@ + 1) % Backlog, ![s].count = @ - 1]
  <2>1. Adopt(p, s, sk[s].backlog[sk[s].head], t)
    BY <1>0, <1>2 DEF Accept
  <2>2. Near(t, s)
    BY DEF Near, Holds, SockInv, SockType
  <2> HIDE DEF t
  <2> QED BY <1>0, <2>1, <2>2, AdoptSteps
<1> QED BY <1>1, <1>2
\* A step that changes nothing but where its process is.
LEMMA GotoSteps ==
  ASSUME SockInv, NEW p \in UProcs, NEW t, Near(t, at[p].s), sk' = t, used' = used, owns' = owns,
         blocked' = blocked, Runs(p), NEW l, Goto(p, l), at[p].pc # "user",
         l.pc # "user" => l.s = at[p].s /\ {"pc", "s"} \subseteq DOMAIN l,
         l.pc = "again" => "then" \in DOMAIN l
  PROVE  Steps(p)
<1>1. at[p].s \in owns[p]
  BY DEF SockInv, Place
<1>2. Only({at[p].s})
  BY DEF Only, Near
<1>3. Moved(p, l)
  BY DEF Moved, Goto, SockInv, SockType
<1>4. Heeds(p)
  BY DEF Heeds, Waits, Runs
<1>5. Aims(p, l)
  BY <1>1 DEF Aims
<1> QED BY <1>1, <1>2, <1>3, <1>4, <1>5, MayOwn, PlainSteps

LEMMA SameNear == ASSUME SockInv, NEW s PROVE Near(sk, s)
BY DEF Near, SockInv, SockType

LEMMA LoadSteps ==
  ASSUME SockInv, NEW p \in UProcs, AcceptLoad(p) \/ ConnectCheck(p) \/ SendLoad(p)
  PROVE  Steps(p)
<1>1. CASE AcceptLoad(p)
  <2> DEFINE s == at[p].s
             l == IF sk[s].count # 0 THEN [pc |-> "take", s |-> s, n |-> sk[s].count]
                  ELSE IF sk[s].closed THEN User
                  ELSE [pc |-> "again", then |-> "accept", s |-> s]
  <2>1. /\ Goto(p, l) /\ sk' = sk /\ used' = used /\ owns' = owns /\ blocked' = blocked
        /\ Runs(p) /\ at[p].pc # "user"
    BY <1>1 DEF AcceptLoad, In
  <2>2. /\ l.pc # "user" => l.s = s /\ {"pc", "s"} \subseteq DOMAIN l
        /\ l.pc = "again" => "then" \in DOMAIN l
    BY DEF User
  <2> HIDE DEF l
  <2> QED BY <2>1, <2>2, SameNear, GotoSteps
<1>2. CASE ConnectCheck(p)
  <2> DEFINE s == at[p].s
             l == IF sk[s].connected \/ sk[s].closed THEN User
                  ELSE [pc |-> "again", then |-> "connect", s |-> s]
  <2>1. /\ Goto(p, l) /\ sk' = sk /\ used' = used /\ owns' = owns /\ blocked' = blocked
        /\ Runs(p) /\ at[p].pc # "user"
    BY <1>2 DEF ConnectCheck, In
  <2>2. /\ l.pc # "user" => l.s = s /\ {"pc", "s"} \subseteq DOMAIN l
        /\ l.pc = "again" => "then" \in DOMAIN l
    BY DEF User
  <2> HIDE DEF l
  <2> QED BY <2>1, <2>2, SameNear, GotoSteps
<1>3. CASE SendLoad(p)
  <2> DEFINE a == at[p]
             l == IF sk[a.d].len < BufSize
                  THEN [pc |-> "copied", s |-> a.s, d |-> a.d, left |-> a.left, n |-> sk[a.d].len]
                  ELSE IF sk[a.d].closed \/ sk[a.s].closed THEN User
                  ELSE [pc |-> "again", then |-> "send", s |-> a.s, d |-> a.d, left |-> a.left]
  <2>1. /\ Goto(p, l) /\ sk' = sk /\ used' = used /\ owns' = owns /\ blocked' = blocked
        /\ Runs(p) /\ at[p].pc # "user"
    BY <1>3 DEF SendLoad, In
  <2>2. /\ l.pc # "user" => l.s = a.s /\ {"pc", "s"} \subseteq DOMAIN l
        /\ l.pc = "again" => "then" \in DOMAIN l
    BY DEF User
  <2> HIDE DEF l
  <2> QED BY <2>1, <2>2, SameNear, GotoSteps
<1> QED BY <1>1, <1>2, <1>3

LEMMA OwnSocket ==
  ASSUME SockInv, NEW p \in UProcs, NEW s \in owns[p] PROVE s \in Sock
<1>1. s \in 1 .. used /\ used \in 0 .. NSock
  BY DEF SockInv, SockType
<1> QED BY ONLY SMTT(10), <1>1, UnixAssumption DEF Sock

LEMMA TakeSteps ==
  ASSUME SockInv, NEW p \in UProcs, AcceptStore(p) \/ AcceptAdopt(p)
  PROVE  Steps(p)
<1> DEFINE s == at[p].s
<1>1. /\ at[p].pc \in {"take", "adopt"} /\ Runs(p)
  BY DEF AcceptStore, AcceptAdopt, In
<1>2. s \in owns[p]
  BY <1>1 DEF SockInv, Place
<1>3. CASE AcceptStore(p)
  <2> DEFINE t == [sk EXCEPT ![s].count = at[p].n - 1]
             l == [pc |-> "adopt", s |-> s, h |-> sk[s].head]
  <2>1. sk' = t /\ Goto(p, l) /\ used' = used /\ owns' = owns /\ blocked' = blocked
    BY <1>3 DEF AcceptStore
  <2>2. Near(t, s)
    BY DEF Near, Holds, SockInv, SockType
  <2>3. l.pc = "adopt" /\ l.s = s /\ {"pc", "s"} \subseteq DOMAIN l
    OBVIOUS
  <2> HIDE DEF t, l
  <2> QED BY <1>1, <2>1, <2>2, <2>3, GotoSteps
<1>4. CASE AcceptAdopt(p)
  <2> DEFINE t == [sk EXCEPT ![s].head = (at[p].h + 1) % Backlog]
  <2>1. Adopt(p, s, sk[s].backlog[at[p].h], t)
    BY <1>4 DEF AcceptAdopt
  <2>2. Near(t, s)
    BY DEF Near, Holds, SockInv, SockType
  <2> HIDE DEF t
  <2> QED BY <1>1, <1>2, <2>1, <2>2, AdoptSteps
<1> QED BY <1>3, <1>4

\* Whoever fills or empties the socket d of another process wakes those who sleep on it.
LEMMA WakingSteps ==
  ASSUME SockInv, NEW p \in UProcs, Runs(p), NEW d, NEW l, Wakeup(d, p, l), used' = used, owns' = owns,
         NEW t, Near(t, d), sk' = t,
         l.pc # "user" => l.s \in owns[p] /\ {"pc", "s"} \subseteq DOMAIN l, l.pc # "again"
  PROVE  Steps(p)
<1>1. /\ Moved(p, l) /\ blocked'[p] = 0
      /\ d # 0 => \A q \in UProcs : blocked'[q] # d
  BY WakeupIs
<1>2. Only({d} \intersect Sock) /\ 0 \notin Sock
  BY SMTT(10) DEF Only, Near, Sock
<1>3. Heeds(p)
  BY <1>1 DEF Heeds, Waits
<1>4. May(p, {d} \intersect Sock) /\ Aims(p, l)
  BY <1>1, <1>2 DEF May, Aims
<1> QED BY <1>1, <1>2, <1>3, <1>4, PlainSteps

LEMMA ConnectSteps ==
  ASSUME SockInv, NEW p \in UProcs, NEW s \in owns[p], NEW path, SysConnect(p, s, path)
  PROVE  Steps(p)
<1> DEFINE v == FindByPath(path)
           t == [sk EXCEPT ![v].backlog[sk[v].tail] = s,
                           ![v].tail = (@ + 1) % Backlog, ![v].count = @ + 1]
           l == [pc |-> "connect", s |-> s]
<1>1. Runs(p) /\ sk' = t /\ Wakeup(v, p, l) /\ used' = used /\ owns' = owns
  BY DEF SysConnect, UCalls, Connect
<1>2. Near(t, v)
  <2> HIDE DEF v
  <2> QED BY DEF Near, Holds, SockInv, SockType
<1>3. l.pc = "connect" /\ l.s = s /\ {"pc", "s"} \subseteq DOMAIN l
  OBVIOUS
<1> HIDE DEF v, t, l
<1> QED BY <1>1, <1>2, <1>3, WakingSteps

LEMMA AgainSteps == ASSUME SockInv, NEW p \in UProcs, BlockAgain(p) PROVE Steps(p)
<1> DEFINE l == [at[p] EXCEPT !.pc = at[p].then]
           ch == IF at[p].then = "send" THEN at[p].d ELSE at[p].s
<1>1. /\ at[p].pc = "again" /\ BlockOn(ch, p, l)
      /\ sk' = sk /\ used' = used /\ owns' = owns
  BY DEF BlockAgain
<1>2. {"pc", "then", "s"} \subseteq DOMAIN at[p] /\ at[p].s \in owns[p]
  BY SMTT(30), <1>1 DEF SockInv, Place
<1>3. l.s \in owns[p] /\ {"pc", "then", "s"} \subseteq DOMAIN l
  BY <1>2
<1> HIDE DEF l, ch
<1>4. Moved(p, l)
  BY <1>1, BlockOnIs
<1>5. Only({})
  BY <1>1 DEF Only, SockInv, SockType
<1>6. Heeds(p)
  BY <1>3, <1>4 DEF Heeds, Waits, Moved
<1>7. Aims(p, l)
  BY <1>3 DEF Aims
<1> QED BY <1>1, <1>4, <1>5, <1>6, <1>7, MayNone, PlainSteps

LEMMA DeliveredSteps ==
  ASSUME SockInv, NEW p \in UProcs, Runs(p), NEW s \in owns[p], NEW d, NEW n, NEW left,
         Delivered(p, s, d, n, left), used' = used, owns' = owns
  PROVE  Steps(p)
<1> DEFINE t == [sk EXCEPT ![d].len = n + Room(n, left)]
           l == IF left > Room(n, left)
                THEN [pc |-> "send", s |-> s, d |-> d, left |-> left - Room(n, left)]
                ELSE User
<1>1. sk' = t /\ Wakeup(d, p, l)
  BY DEF Delivered
<1>2. Near(t, d)
  BY DEF Near, Holds, SockInv, SockType
<1>3. l.pc # "again" /\ (l.pc # "user" => l.s \in owns[p] /\ {"pc", "s"} \subseteq DOMAIN l)
  BY DEF User
<1> HIDE DEF t, l
<1> QED BY <1>1, <1>2, <1>3, WakingSteps

LEMMA SendSteps ==
  ASSUME SockInv, NEW p \in UProcs,
         SendStore(p) \/ \E s \in owns[p], len \in 1 .. MaxLen : SysSend(p, s, len)
  PROVE  Steps(p)
<1>1. CASE SendStore(p)
  <2>1. /\ at[p].pc = "copied" /\ Runs(p) /\ used' = used /\ owns' = owns
        /\ Delivered(p, at[p].s, at[p].d, at[p].n, at[p].left)
    BY <1>1 DEF SendStore, In
  <2>2. at[p].s \in owns[p]
    BY <2>1 DEF SockInv, Place
  <2> QED BY <2>1, <2>2, DeliveredSteps
<1>2. CASE \E s \in owns[p], len \in 1 .. MaxLen : SysSend(p, s, len)
  <2>1. PICK s \in owns[p], len \in 1 .. MaxLen : SysSend(p, s, len)
    BY <1>2
  <2> DEFINE d == sk[s].peer
             l == [pc |-> "send", s |-> s, d |-> d, left |-> len]
  <2>2. Runs(p) /\ used' = used /\ owns' = owns
    BY <2>1 DEF SysSend, UCalls, Send
  <2>3. CASE sk[d].len >= BufSize
    <3>1. BlockOn(d, p, l) /\ sk' = sk
      BY <2>1, <2>3 DEF SysSend, Send
    <3>2. l.pc = "send" /\ l.s = s /\ {"pc", "s"} \subseteq DOMAIN l
      OBVIOUS
    <3> HIDE DEF l, d
    <3>3. Moved(p, l)
      BY <3>1, BlockOnIs
    <3>4. Only({})
      BY <3>1 DEF Only, SockInv, SockType
    <3>5. Heeds(p)
      BY <3>2, <3>3 DEF Heeds, Waits, Moved
    <3>6. Aims(p, l)
      BY <3>2 DEF Aims
    <3> QED BY <2>2, <3>3, <3>4, <3>5, <3>6, MayNone, PlainSteps
  <2>4. CASE ~(sk[d].len >= BufSize)
    <3>1. Delivered(p, s, d, sk[d].len, len)
      BY <2>1, <2>4 DEF SysSend, Send
    <3> QED BY <2>2, <3>1, DeliveredSteps
  <2> QED BY <2>3, <2>4
<1> QED BY <1>1, <1>2

LEMMA ReceivedSteps ==
  ASSUME SockInv, NEW p \in UProcs, Runs(p), NEW s \in owns[p], NEW t, Near(t, s),
         Received(p, s, t), used' = used, owns' = owns
  PROVE  Steps(p)
<1>1. sk' = t /\ (Wakeup(t[s].peer, p, User) \/ (Goto(p, User) /\ blocked' = blocked))
  BY DEF Received
<1>2. Moved(p, User) /\ blocked'[p] = 0
  <2>1. CASE Wakeup(t[s].peer, p, User)
    BY <2>1, WakeupIs
  <2>2. CASE Goto(p, User) /\ blocked' = blocked
    BY <2>2 DEF Moved, Goto, SockInv, SockType, Runs
  <2> QED BY <1>1, <2>1, <2>2
<1>3. Only({s})
  BY <1>1 DEF Only, Near
<1>4. Heeds(p)
  BY <1>2 DEF Heeds, Waits
<1> QED BY <1>2, <1>3, <1>4, MayOwn, UserAims, PlainSteps

LEMMA RecvSteps ==
  ASSUME SockInv, NEW p \in UProcs,
         \/ RecvLoad(p) \/ RecvStore(p)
         \/ \E s \in owns[p], len \in 1 .. MaxLen : SysRecv(p, s, len)
  PROVE  Steps(p)
<1>1. CASE RecvLoad(p)
  <2> DEFINE a == at[p]
             t == [sk EXCEPT ![a.s].pos = (@ + 1) % BufSize]
             l1 == [pc |-> "taken", s |-> a.s, left |-> a.left, n |-> sk[a.s].len]
             l2 == [pc |-> "again", then |-> "recv", s |-> a.s, left |-> a.left]
  <2>1. /\ a.pc # "user" /\ Runs(p) /\ used' = used /\ owns' = owns /\ blocked' = blocked
        /\ \/ sk' = t /\ Goto(p, l1)
           \/ sk' = sk /\ (Goto(p, User) \/ Goto(p, l2))
    BY <1>1 DEF RecvLoad, In
  <2>2. Near(t, a.s) /\ Near(sk, a.s)
    BY SameNear DEF Near, Holds, SockInv, SockType
  <2>3. /\ l1.pc = "taken" /\ l1.s = a.s /\ {"pc", "s"} \subseteq DOMAIN l1
        /\ l2.pc = "again" /\ l2.s = a.s /\ {"pc", "s"} \subseteq DOMAIN l2 /\ "then" \in DOMAIN l2
        /\ User.pc = "user"
    BY DEF User
  <2> HIDE DEF t, l1, l2
  <2>4. CASE sk' = t /\ Goto(p, l1)
    BY <2>1, <2>2, <2>3, <2>4, GotoSteps
  <2>5. CASE sk' = sk /\ Goto(p, User)
    BY <2>1, <2>2, <2>3, <2>5, GotoSteps
  <2>6. CASE sk' = sk /\ Goto(p, l2)
    BY <2>1, <2>2, <2>3, <2>6, GotoSteps
  <2> QED BY <2>1, <2>4, <2>5, <2>6
<1>2. CASE RecvStore(p)
  <2> DEFINE a == at[p]
             t == [sk EXCEPT ![a.s].len = a.n - 1]
             u == [t EXCEPT ![a.s].pos = (@ + 1) % BufSize]
             l == [a EXCEPT !.left = @ - 1, !.n = a.n - 1]
  <2>1. /\ a.pc = "taken" /\ Runs(p) /\ used' = used /\ owns' = owns
        /\ \/ sk' = u /\ Goto(p, l) /\ blocked' = blocked
           \/ Received(p, a.s, t)
    BY <1>2 DEF RecvStore, In
  <2>2. Near(t, a.s)
    BY DEF Near, Holds, SockInv, SockType
  <2>3. Near(u, a.s)
    <3> HIDE DEF t
    <3> QED BY <2>2 DEF Near, Holds
  <2>4. a.s \in owns[p] /\ {"pc", "s"} \subseteq DOMAIN a
    BY <2>1 DEF SockInv, Place
  <2>5. l.pc = "taken" /\ l.s = a.s /\ {"pc", "s"} \subseteq DOMAIN l
    BY <2>1, <2>4
  <2> HIDE DEF t, u, l
  <2>6. CASE sk' = u /\ Goto(p, l) /\ blocked' = blocked
    BY <2>1, <2>3, <2>5, <2>6, GotoSteps
  <2>7. CASE Received(p, a.s, t)
    BY <2>1, <2>2, <2>4, <2>7, ReceivedSteps
  <2> QED BY <2>1, <2>6, <2>7
<1>3. CASE \E s \in owns[p], len \in 1 .. MaxLen : SysRecv(p, s, len)
  <2>1. PICK s \in owns[p], len \in 1 .. MaxLen : SysRecv(p, s, len)
    BY <1>3
  <2> DEFINE n == Min({len, sk[s].len})
             t == [sk EXCEPT ![s].pos = (@ + n) % BufSize, ![s].len = @ - n]
             l == [pc |-> "recv", s |-> s, left |-> len]
  <2>2. Runs(p) /\ used' = used /\ owns' = owns
    BY <2>1 DEF SysRecv, UCalls, Recv
  <2>3. CASE sk[s].len = 0
    <3>1. BlockOn(s, p, l) /\ sk' = sk
      BY <2>1, <2>3 DEF SysRecv, Recv
    <3>2. l.pc = "recv" /\ l.s = s /\ {"pc", "s"} \subseteq DOMAIN l
      OBVIOUS
    <3> HIDE DEF l
    <3>3. Moved(p, l) /\ blocked'[p] = s /\ at'[p] = l
      BY <3>1, BlockOnIs
    <3>4. Only({})
      BY <3>1 DEF Only, SockInv, SockType
    <3>5. Heeds(p)
      BY <2>3, <3>1, <3>2, <3>3 DEF Heeds, NothingMissed
    <3>6. Aims(p, l)
      BY <3>2 DEF Aims
    <3> QED BY <2>2, <3>3, <3>4, <3>5, <3>6, MayNone, PlainSteps
  <2>4. CASE sk[s].len # 0
    <3>1. Received(p, s, t)
      BY <2>1, <2>4 DEF SysRecv, Recv
    <3> HIDE DEF n
    <3>2. Near(t, s)
      BY DEF Near, Holds, SockInv, SockType
    <3> HIDE DEF t
    <3> QED BY <2>2, <3>1, <3>2, ReceivedSteps
  <2> QED BY <2>3, <2>4
<1> QED BY <1>1, <1>2, <1>3

LEMMA CloseSteps ==
  ASSUME SockInv, NEW p \in UProcs, CloseRest(p) \/ \E s \in owns[p] : SysClose(p, s)
  PROVE  Steps(p)
<1>1. CASE \E s \in owns[p] : SysClose(p, s)
  <2>1. PICK s \in owns[p] : SysClose(p, s)
    BY <1>1
  <2> DEFINE t == [sk EXCEPT ![s].closed = TRUE]
             l == [pc |-> "close", s |-> s]
  <2>2. Runs(p) /\ sk' = t /\ Wakeup(s, p, l) /\ used' = used /\ owns' = owns
    BY <2>1 DEF SysClose, UCalls, UClose
  <2>3. Near(t, s)
    BY DEF Near, Holds, SockInv, SockType
  <2>4. l.pc = "close" /\ l.s = s /\ {"pc", "s"} \subseteq DOMAIN l
    OBVIOUS
  <2> HIDE DEF t, l
  <2> QED BY <2>2, <2>3, <2>4, WakingSteps
<1>2. CASE CloseRest(p)
  <2> DEFINE s == at[p].s
             d == sk[s].peer
  <2>1. /\ Runs(p) /\ used' = used /\ owns' = [owns EXCEPT ![p] = @ \ {s}]
        /\ \/ Goto(p, User) /\ sk' = sk /\ blocked' = blocked
           \/ sk' = [sk EXCEPT ![d].peer = 0] /\ Wakeup(d, p, User)
    BY <1>2 DEF CloseRest, In
  <2> HIDE DEF d, s
  <2>2. Moved(p, User) /\ blocked'[p] = 0
    <3>1. CASE Wakeup(d, p, User)
      BY <2>1, <3>1, WakeupIs
    <3>2. CASE Goto(p, User) /\ blocked' = blocked
      BY <2>1, <3>2 DEF Moved, Goto, SockInv, SockType, Runs
    <3> QED BY <2>1, <3>1, <3>2
  <2>3. Only({})
    BY SMTT(30), <2>1 DEF Only, Holds, SockInv, SockType
  <2>4. /\ DOMAIN owns' = UProcs /\ owns'[p] \subseteq owns[p]
        /\ \A q \in UProcs \ {p} : owns'[q] = owns[q]
    BY <2>1 DEF SockInv, SockType
  <2>5. SockType'
    BY <2>1, <2>2, <2>3, <2>4 DEF SockInv, SockType, Moved, Only
  <2>6. Changes(p)
    <3> USE DEF Changes
    <3> TAKE x \in 1 .. used
    <3>1. x \in Sock
      <4>1. used \in 0 .. NSock
        BY DEF SockInv, SockType
      <4> QED BY ONLY SMTT(10), <4>1, x \in 1 .. used, UnixAssumption DEF Sock
    <3> QED BY <2>3, <3>1 DEF Only
  <2>7. Others(p) /\ Grows(p)
    BY <2>1, <2>2, <2>4 DEF Others, Grows, Moved
  <2>8. Place(p)'
    BY SMTT(30), <2>2 DEF Place, Waits, Moved, User
  <2> QED BY <2>5, <2>6, <2>7, <2>8 DEF Steps
<1> QED BY <1>1, <1>2

LEMMA SockInvInit == UInit => SockInv
<1> SUFFICES ASSUME UInit PROVE SockInv
  OBVIOUS
<1>1. /\ sk = [s \in Sock |-> NewSock] /\ used = 0 /\ owns = [p \in UProcs |-> {}]
      /\ at = [p \in UProcs |-> User] /\ blocked = [p \in UProcs |-> 0]
  BY DEF UInit
<1>2. used \in 0 .. NSock
  BY SMTT(10), <1>1, UnixAssumption
<1>3. {"len", "count"} \subseteq DOMAIN NewSock
  BY DEF NewSock
<1>4. SockType
  BY <1>1, <1>2, <1>3 DEF SockType
<1>5. ASSUME NEW p \in UProcs PROVE Place(p)
  BY <1>1 DEF Place, Waits, User
<1> QED BY <1>1, <1>4, <1>5 DEF SockInv

LEMMA SockInvNext == ASSUME SockInv, [UNext]_uvars PROVE SockInv'
<1>1. CASE UNCHANGED uvars
  BY <1>1 DEF uvars, SockInv, SockType, Place, Waits, NothingMissed
<1>2. CASE UNext
  <2>1. PICK p \in UProcs :
          \/ SysSocket(p)
          \/ \E s \in owns[p] :
               \/ \E path \in UPaths : SysBind(p, s, path) \/ SysConnect(p, s, path)
               \/ SysListen(p, s) \/ SysAccept(p, s) \/ SysClose(p, s)
               \/ \E len \in 1 .. MaxLen : SysSend(p, s, len) \/ SysRecv(p, s, len)
          \/ AcceptLoad(p) \/ AcceptStore(p) \/ AcceptAdopt(p)
          \/ ConnectCheck(p)
          \/ BlockAgain(p)
          \/ SendLoad(p) \/ SendStore(p)
          \/ RecvLoad(p) \/ RecvStore(p)
          \/ CloseRest(p)
    BY <1>2 DEF UNext
  <2>2. Steps(p)
    BY <2>1, SocketSteps, OwnSteps, AcceptSteps, LoadSteps, TakeSteps, ConnectSteps, AgainSteps,
       SendSteps, RecvSteps, CloseSteps
  <2> QED BY <2>2, StepsKeep
<1> QED BY <1>1, <1>2

\* The first time a call of unix.c waits (sched_block_on) there is nothing yet
\* of what it waits for, for any number of sockets, processes and any buffer.
THEOREM FirstWaitSafe == USpec => []FirstWaitMissesNothing
<1>1. SockInv => FirstWaitMissesNothing
  BY DEF SockInv, Place, Waits, NothingMissed, FirstWaitMissesNothing
<1> QED BY <1>1, SockInvInit, SockInvNext, PTL DEF USpec
=============================================================================
