-------------------------------- MODULE Tcp ---------------------------------
(***************************************************************************)
(* The TCP of net/tcp.c, with a peer that follows the protocol over a      *)
(* network that loses, repeats and reorders: any segment of the peer's     *)
(* stream may arrive at any time, any number of times. tcp_handle_packet   *)
(* and tcp_timer run in interrupts and are one step each; a call of a      *)
(* program is cut where it sleeps, and tcp_recv also between the load and  *)
(* the store of rcv_buf_count, as gcc -O2 compiles "rcv_buf_count -=".     *)
(*                                                                         *)
(* A byte of the stream is its sequence number; the peer starts at 0.      *)
(* Sequence numbers do not wrap here (MaxSeq is far below 2^32); checksums *)
(* and the unused send buffer are left out. One process uses a socket.     *)
(***************************************************************************)
EXTENDS Integers, Sequences, FiniteSets, FiniteSetsExt

CONSTANTS NTcp,        \* MAX_SOCKETS
          RingSize,    \* rcv_buf_size
          StreamLen,   \* bound: bytes the peer sends
          MaxSeq,      \* bound: snd_nxt
          MaxPort,     \* bound: next_port
          Retries,     \* TCP_RETRIES
          Retransmit,  \* TCP_RETRANSMIT_MS, in ticks
          TimeWait,    \* 2000, in ticks
          BindPorts, FirstPort, RPorts

ASSUME TcpAssumption == NTcp \in Nat /\ RingSize \in Nat \ {0} /\ StreamLen \in Nat

VARIABLES tsk,    \* sockets[]
          tport,  \* next_port
          top     \* top[s]: where the process that uses s is in a call

tvars == <<tsk, tport, top>>

TSocks == 1 .. NTcp

\* After memset. age is tcp_ticks - timestamp. Observers: q, the bytes accepted
\* and not yet read; want, the byte that would continue them; torn, a segment
\* was accepted between a load of rcv_buf_count and its store.
NewTcp == [used |-> FALSE, state |-> "CLOSED", lport |-> 0, rport |-> 0,
           snd_nxt |-> 0, snd_una |-> 0, rcv_nxt |-> 0, age |-> 0, retries |-> 0,
           buf |-> [i \in 0 .. RingSize - 1 |-> 0],
           head |-> 0, tail |-> 0, count |-> 0,
           q |-> <<>>, want |-> 0, torn |-> FALSE]

AtUser == [pc |-> "user"]

TInit ==
    /\ tsk = [s \in TSocks |-> NewTcp]
    /\ tport = FirstPort
    /\ top = [s \in TSocks |-> AtUser]

FreeSocks == {s \in TSocks : ~tsk[s].used}

TCalls(s, states) == tsk[s].used /\ top[s] = AtUser /\ tsk[s].state \in states

TGoto(s, l) == top' = [top EXCEPT ![s] = l]

\* tcp_send_packet: k with snd_nxt moved on by n when the packet is sent. It is
\* not when ARP does not answer or the heap is full.
Sent(k, n) == [k EXCEPT !.snd_nxt = @ + n, !.age = 0, !.retries = 0]

MaySend(k, n) == {k} \union (IF k.snd_nxt + n <= MaxSeq THEN {Sent(k, n)} ELSE {})

-----------------------------------------------------------------------------
(* tcp_socket, tcp_bind, tcp_connect, tcp_listen.                          *)

TSocket ==
    /\ FreeSocks # {} /\ tport < MaxPort
    /\ tsk' = [tsk EXCEPT ![Min(FreeSocks)] = [NewTcp EXCEPT !.used = TRUE, !.lport = tport]]
    /\ tport' = tport + 1
    /\ UNCHANGED top

TBind(s, port) ==
    /\ TCalls(s, {"CLOSED"})
    /\ \A r \in TSocks \ {s} : tsk[r].used => tsk[r].lport # port
    /\ tsk' = [tsk EXCEPT ![s].lport = port]
    /\ UNCHANGED <<tport, top>>

\* The first sequence number is the socket's address: its index, here.
TConnect(s, rport) ==
    /\ TCalls(s, {"CLOSED"})
    /\ \E k \in MaySend([tsk[s] EXCEPT !.rport = rport, !.state = "SYN_SENT",
                           !.snd_nxt = s, !.rcv_nxt = 0, !.age = 0, !.retries = 0], 1) :
         tsk' = [tsk EXCEPT ![s] = k]
    /\ UNCHANGED <<tport, top>>

TListen(s) ==
    /\ TCalls(s, {"CLOSED"})
    /\ tsk' = [tsk EXCEPT ![s].state = "LISTEN"]
    /\ UNCHANGED <<tport, top>>

-----------------------------------------------------------------------------
(* tcp_accept: the half-open socket that the handler made is replaced by   *)
(* one of its own, which is ESTABLISHED at once; what the old one had      *)
(* received goes with it.                                                  *)

Waiting(s) == {r \in TSocks : /\ tsk[r].used /\ tsk[r].state = "SYN_RCVD"
                              /\ tsk[r].lport = tsk[s].lport}

TAccept(s) ==
    /\ TCalls(s, {"LISTEN"}) \/ top[s].pc = "accept"
    /\ tport < MaxPort
    /\ IF Waiting(s) = {} THEN TGoto(s, [pc |-> "accept"]) /\ UNCHANGED <<tsk, tport>>
       ELSE /\ TGoto(s, AtUser)
            /\ IF FreeSocks = {} THEN UNCHANGED <<tsk, tport>>
               ELSE LET r == Min(Waiting(s))
                        k == tsk[r]
                    IN  /\ tsk' = [tsk EXCEPT ![r] = NewTcp,
                              ![Min(FreeSocks)] = [NewTcp EXCEPT
                                 !.used = TRUE, !.state = "ESTABLISHED",
                                 !.lport = k.lport, !.rport = k.rport,
                                 !.snd_nxt = k.snd_nxt, !.rcv_nxt = k.rcv_nxt,
                                 !.want = k.rcv_nxt]]
                        /\ tport' = tport + 1

\* A wait of tcp_accept, tcp_send (between two chunks) or tcp_recv times out.
TTimeout(s) ==
    /\ \/ top[s].pc = "accept"
       \/ top[s].pc = "recv" /\ tsk[s].count = 0
    /\ TGoto(s, AtUser)
    /\ UNCHANGED <<tsk, tport>>

-----------------------------------------------------------------------------
(* tcp_send: a chunk, then a wait until it is acknowledged or 10 s are up, *)
(* whatever came first; the chunk is not sent again.                       *)

SendChunk(s, left) ==
    \E k \in MaySend(tsk[s], 1) :
        /\ tsk' = [tsk EXCEPT ![s] = k]
        /\ TGoto(s, IF k = tsk[s] THEN AtUser ELSE [pc |-> "send", left |-> left])

TSend(s, chunks) ==
    /\ TCalls(s, {"ESTABLISHED"})
    /\ SendChunk(s, chunks - 1)
    /\ UNCHANGED tport

TSendNext(s) ==
    /\ top[s].pc = "send"
    /\ IF top[s].left = 0 THEN TGoto(s, AtUser) /\ UNCHANGED tsk
       ELSE SendChunk(s, top[s].left - 1)
    /\ UNCHANGED tport

-----------------------------------------------------------------------------
(* tcp_recv.                                                               *)

\* The wait; then as much as there is, or as the program wants.
TRecv(s, len) ==
    /\ \/ tsk[s].used /\ top[s] = AtUser
       \/ top[s].pc = "recv" /\ top[s].len = len
    /\ LET k == tsk[s]
       IN  \/ /\ k.count = 0 /\ k.state = "ESTABLISHED"
              /\ TGoto(s, [pc |-> "recv", len |-> len])
           \/ /\ k.count = 0 /\ k.state # "ESTABLISHED" /\ top[s].pc = "recv"
              /\ TGoto(s, AtUser)
           \/ /\ k.count > 0
              /\ TGoto(s, [pc |-> "copied", len |-> len, n |-> Min({len, k.count})])
    /\ UNCHANGED <<tsk, tport>>

\* Loads rcv_buf_count again, and moves rcv_nxt over bytes that were counted
\* when they arrived.
TRecvLoad(s) ==
    /\ top[s].pc = "copied"
    /\ LET n == top[s].n
       IN  /\ tsk' = [tsk EXCEPT ![s].rcv_nxt = @ + n]
           /\ TGoto(s, [pc |-> "loaded", len |-> top[s].len, n |-> n,
                        c |-> tsk[s].count - n])
    /\ UNCHANGED tport

TRecvStore(s) ==
    /\ top[s].pc = "loaded"
    /\ LET l == top[s]
           k == [tsk[s] EXCEPT !.count = l.c, !.head = (@ + l.n) % RingSize,
                               !.q = SubSeq(@, l.n + 1, Len(@))]
       IN  IF l.c > 0 /\ l.len > l.n
           THEN /\ tsk' = [tsk EXCEPT ![s] = k]
                /\ TGoto(s, [pc |-> "copied", len |-> l.len - l.n,
                             n |-> Min({l.len - l.n, l.c})])
           ELSE /\ \E j \in MaySend(k, 0) : tsk' = [tsk EXCEPT ![s] = j]
                /\ TGoto(s, AtUser)
    /\ UNCHANGED tport

-----------------------------------------------------------------------------
(* tcp_close.                                                              *)

TClose(s) ==
    /\ tsk[s].used /\ top[s] = AtUser
    /\ IF tsk[s].state = "ESTABLISHED"
       THEN /\ \E k \in MaySend([tsk[s] EXCEPT !.state = "FIN_WAIT_1"], 1) :
                 tsk' = [tsk EXCEPT ![s] = k]
            /\ TGoto(s, [pc |-> "close"])
       ELSE tsk' = [tsk EXCEPT ![s] = NewTcp] /\ UNCHANGED top
    /\ UNCHANGED tport

\* CLOSED, or 10 s are up.
TCloseEnd(s) ==
    /\ top[s].pc = "close"
    /\ tsk' = [tsk EXCEPT ![s] = NewTcp]
    /\ TGoto(s, AtUser)
    /\ UNCHANGED tport

-----------------------------------------------------------------------------
(* tcp_timer: a SYN goes out again as a new one, with the next number.     *)

Aged(k) == [k EXCEPT !.age = Min({@ + 1, TimeWait + 1})]

Retried(k) ==
    IF /\ k.used /\ k.state \in {"SYN_SENT", "ESTABLISHED"}
       /\ k.snd_una < k.snd_nxt /\ k.age > Retransmit
    THEN IF k.retries < Retries
         THEN MaySend([k EXCEPT !.retries = @ + 1, !.age = 0],
                      IF k.state = "SYN_SENT" THEN 1 ELSE 0)
         ELSE {[k EXCEPT !.state = "CLOSED"]}
    ELSE {k}

TTimer ==
    /\ tsk' \in {f \in [TSocks -> UNION {Retried(Aged(tsk[s])) : s \in TSocks}] :
                   \A s \in TSocks : f[s] \in Retried(Aged(tsk[s]))}
    /\ UNCHANGED <<tport, top>>

-----------------------------------------------------------------------------
(* tcp_handle_packet.                                                      *)

\* What a peer that follows the protocol may send: its SYN, bytes of its
\* stream, an acknowledgement, its FIN.
Segments ==
    {[flags |-> f, seq |-> 0, len |-> 0] : f \in {{"SYN"}, {"SYN", "ACK"}}}
    \union {[flags |-> {"ACK"}, seq |-> i[1], len |-> i[2]] :
              i \in {j \in (1 .. StreamLen) \X (0 .. 2) : j[1] + j[2] <= StreamLen + 1}}
    \union {[flags |-> {"FIN", "ACK"}, seq |-> StreamLen + 1, len |-> 0]}

Conn(lport, rport) ==
    {s \in TSocks : tsk[s].used /\ tsk[s].lport = lport /\ tsk[s].rport = rport}

\* Faulty variant: a segment that ends at the end of the buffer wraps too soon.
StoredEarly(k, seq, n) ==
    [k EXCEPT !.buf = [i \in 0 .. RingSize - 1 |->
                         IF (i - k.tail) % RingSize < n
                         THEN seq + ((i - k.tail) % RingSize) ELSE k.buf[i]],
              !.tail = IF k.tail + n < RingSize THEN k.tail + n ELSE k.tail + n - RingSize + 1]

\* n bytes go in at the tail, which may stay at the very end of the buffer.
Stored(k, seq, n) ==
    [k EXCEPT !.buf = [i \in 0 .. RingSize - 1 |->
                         IF (i - k.tail) % RingSize < n
                         THEN seq + ((i - k.tail) % RingSize) ELSE k.buf[i]],
              !.tail = IF k.tail + n <= RingSize THEN k.tail + n ELSE k.tail + n - RingSize]

\* Data in order. What does not fit is dropped; an ACK goes out either way.
Data(k, g, loaded) ==
    LET n == Min({g.len, RingSize - k.count})
    IN  IF g.len = 0 \/ g.seq # k.rcv_nxt THEN k
        ELSE Sent([Stored(k, g.seq, n) EXCEPT
                     !.count = @ + n, !.rcv_nxt = @ + n, !.want = @ + n,
                     !.q = IF k.torn \/ (loaded /\ n > 0) THEN <<>>
                           ELSE @ \o [i \in 1 .. n |-> g.seq + i - 1],
                     !.torn = @ \/ (loaded /\ n > 0)], 0)

\* The switch on the state, after acknowledgement and data.
Switch(k, g, ack) ==
    LET fin(state) == Sent([k EXCEPT !.state = state, !.rcv_nxt = g.seq + 1], 0)
        acks == "ACK" \in g.flags
        ours == acks /\ ack = k.snd_nxt
        hasfin == "FIN" \in g.flags
    IN  CASE k.state = "SYN_SENT" /\ g.flags = {"SYN", "ACK"} ->
                 Sent([k EXCEPT !.state = "ESTABLISHED", !.rcv_nxt = g.seq + 1,
                                !.snd_una = ack, !.want = g.seq + 1], 0)
          [] k.state = "SYN_RCVD" /\ acks -> [k EXCEPT !.state = "ESTABLISHED"]
          [] k.state = "ESTABLISHED" /\ hasfin -> fin("CLOSE_WAIT")
          [] k.state = "FIN_WAIT_1" /\ hasfin -> fin("CLOSING")
          [] k.state = "FIN_WAIT_1" /\ ~hasfin /\ ours -> [k EXCEPT !.state = "FIN_WAIT_2"]
          [] k.state = "FIN_WAIT_2" /\ hasfin -> fin("TIME_WAIT")
          [] k.state = "CLOSE_WAIT" /\ hasfin -> fin("LAST_ACK")
          [] k.state = "LAST_ACK" /\ ours -> [k EXCEPT !.state = "CLOSED"]
          [] k.state = "TIME_WAIT" /\ k.age > TimeWait -> [k EXCEPT !.state = "CLOSED"]
          [] OTHER -> k

\* A segment for a socket. The peer acknowledges what it has been sent.
THandle(lport, rport, g) ==
    /\ Conn(lport, rport) # {}
    /\ LET s == Min(Conn(lport, rport))
       IN  \E ack \in {tsk[s].snd_una, tsk[s].snd_nxt} :
             LET k == tsk[s]
                 a == IF "ACK" \in g.flags /\ ack > k.snd_una /\ ack <= k.snd_nxt
                      THEN [k EXCEPT !.snd_una = ack] ELSE k
             IN  tsk' = [tsk EXCEPT ![s] = Switch(Data(a, g, top[s].pc = "loaded"), g, ack)]
    /\ UNCHANGED <<tport, top>>

\* tcp_find_listener.
Listener(port) ==
    {s \in TSocks : tsk[s].used /\ tsk[s].state = "LISTEN" /\ tsk[s].lport = port}

\* A SYN for a listener makes a half-open socket.
THandleSyn(lport, rport, g) ==
    /\ Conn(lport, rport) = {} /\ "SYN" \in g.flags
    /\ Listener(lport) # {}
    /\ FreeSocks # {}
    /\ LET r == Min(FreeSocks)
       IN  \E k \in MaySend([NewTcp EXCEPT !.used = TRUE, !.state = "SYN_RCVD",
                               !.lport = lport, !.rport = rport, !.snd_nxt = r,
                               !.rcv_nxt = g.seq + 1, !.want = g.seq + 1], 1) :
             tsk' = [tsk EXCEPT ![r] = k]
    /\ UNCHANGED <<tport, top>>

TOpen ==
    \/ TSocket
    \/ \E s \in TSocks :
         \/ \E p \in BindPorts : TBind(s, p)
         \/ \E p \in RPorts : TConnect(s, p)
         \/ TListen(s) \/ TAccept(s)

TRead ==
    \E s \in TSocks :
        \/ \E n \in 1 .. 2 : TRecv(s, n)
        \/ TRecvLoad(s) \/ TRecvStore(s)
        \/ TTimeout(s)

TWrite == \E s \in TSocks : TSendNext(s) \/ \E n \in 1 .. 2 : TSend(s, n)

TShut == \E s \in TSocks : TClose(s) \/ TCloseEnd(s)

TArrive(g) ==
    \E lport \in {tsk[s].lport : s \in TSocks \ FreeSocks}, rport \in RPorts :
        THandle(lport, rport, g) \/ THandleSyn(lport, rport, g)

TNext == TOpen \/ TRead \/ TWrite \/ TShut \/ TTimer \/ \E g \in Segments : TArrive(g)

TSpec == TInit /\ [][TNext]_tvars

-----------------------------------------------------------------------------
(* Properties.                                                             *)

\* The receive ring of a connection holds the bytes that were accepted and not
\* read, in order, wherever the ring wraps and however segments and reads fall,
\* as long as no segment was accepted between tcp_recv's load of rcv_buf_count
\* and its store; and even then the count stays inside of the buffer.
RingHoldsAccepted ==
    \A s \in TSocks :
        LET k == tsk[s]
        IN  /\ k.count \in 0 .. RingSize
            /\ k.used /\ ~k.torn /\ top[s].pc # "loaded" =>
                 /\ k.count = Len(k.q)
                 /\ \A i \in 1 .. k.count : k.buf[(k.head + i - 1) % RingSize] = k.q[i]

\* tcp.h:57 calls rcv_nxt "the next expected number": on an established
\* connection it is the number after the last byte accepted.
RcvNxtIsExpected ==
    \A s \in TSocks :
        tsk[s].used /\ tsk[s].state = "ESTABLISHED" => tsk[s].rcv_nxt = tsk[s].want
=============================================================================
