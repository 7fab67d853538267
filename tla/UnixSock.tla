------------------------------ MODULE UnixSock ------------------------------
(***************************************************************************)
(* The Unix sockets of kernel/core/unix.c. A system call runs with         *)
(* interrupts off until it first blocks or wakes somebody: sched_block_on  *)
(* and sched_wakeup end in "sti", and from there on a timer tick may put   *)
(* another process between any two instructions. The first part of a call  *)
(* is therefore one action (Accept, Connect, Send, Recv, UClose), and the   *)
(* rest goes by pc, a load and the store that depends on it being two      *)
(* steps, as gcc -O2 compiles "write_len--" and "backlog_count--".         *)
(*                                                                         *)
(* Bytes are counted, not kept. Slots are never given back (alloc_socket   *)
(* looks for id 0, which nothing restores).                                *)
(***************************************************************************)
EXTENDS Integers, Sequences, FiniteSets, FiniteSetsExt

CONSTANTS UProcs,
          NSock,      \* MAX_UNIX_SOCKETS
          UFds,       \* sockets one process can hold open
          BufSize,    \* UNIX_BUF_SIZE
          Backlog,    \* 16
          MaxLen,     \* bound: bytes of one send or recv
          UPaths

ASSUME UnixAssumption == NSock \in Nat

VARIABLES sk,      \* sockets[]
          used,    \* how many slots are taken: the first ones
          owns,    \* owns[p]: the sockets of p's descriptors
          at,      \* at[p]: where p is in a call
          blocked  \* blocked[p]: the channel p sleeps on, 0 if it does not

uvars == <<sk, used, owns, at, blocked>>

Sock == 1 .. NSock

NewSock == [path |-> "none", listening |-> FALSE, connected |-> FALSE,
            closed |-> FALSE, peer |-> 0, pos |-> 0, len |-> 0,
            backlog |-> [i \in 0 .. Backlog - 1 |-> 0],
            count |-> 0, head |-> 0, tail |-> 0]

User == [pc |-> "user"]

UInit ==
    /\ sk = [s \in Sock |-> NewSock]
    /\ used = 0
    /\ owns = [p \in UProcs |-> {}]
    /\ at = [p \in UProcs |-> User]
    /\ blocked = [p \in UProcs |-> 0]

-----------------------------------------------------------------------------
(* Moves.                                                                  *)

Goto(p, l) == at' = [at EXCEPT ![p] = l]

\* sched_wakeup(ch), with p moving to l.
Wakeup(ch, p, l) ==
    /\ blocked' = [q \in UProcs |-> IF blocked[q] = ch THEN 0 ELSE blocked[q]]
    /\ Goto(p, l)

\* sched_block_on(ch); p finds itself at l when it is woken.
BlockOn(ch, p, l) ==
    /\ blocked' = [blocked EXCEPT ![p] = ch]
    /\ Goto(p, l)

Runs(p) == blocked[p] = 0

UCalls(p, s) == Runs(p) /\ at[p] = User /\ s \in owns[p]

In(p, pc) == Runs(p) /\ at[p].pc = pc

FindByPath(path) ==
    LET hits == {s \in 1 .. used : ~sk[s].closed /\ sk[s].path = path}
    IN  IF hits = {} THEN 0 ELSE Min(hits)

-----------------------------------------------------------------------------
(* unix_socket_create, unix_bind, unix_listen. A socket for which there is *)
(* no descriptor is allocated and lost.                                    *)

Create(p) ==
    /\ used < NSock
    /\ used' = used + 1
    /\ sk' = [sk EXCEPT ![used + 1] = NewSock]
    /\ owns' = IF Cardinality(owns[p]) < UFds
               THEN [owns EXCEPT ![p] = @ \union {used + 1}] ELSE owns
    /\ UNCHANGED <<at, blocked>>

Bind(p, s, path) ==
    /\ ~sk[s].closed
    /\ FindByPath(path) = 0
    /\ sk' = [sk EXCEPT ![s].path = path]
    /\ UNCHANGED <<used, owns, at, blocked>>

\* Listening again forgets who was waiting.
Listen(p, s) ==
    /\ ~sk[s].closed /\ sk[s].path # "none"
    /\ sk' = [sk EXCEPT ![s].listening = TRUE, ![s].count = 0, ![s].head = 0,
                        ![s].tail = 0]
    /\ UNCHANGED <<used, owns, at, blocked>>

-----------------------------------------------------------------------------
(* unix_accept.                                                            *)

\* From alloc_socket to the end: the new socket and the client become peers.
Adopt(p, s, c, table) ==
    LET n == used + 1
        linked == [table EXCEPT ![n] = [NewSock EXCEPT !.connected = TRUE, !.peer = c],
                                ![c].peer = n, ![c].connected = TRUE]
    IN  IF used = NSock
        THEN sk' = table /\ Goto(p, User) /\ UNCHANGED <<used, owns, blocked>>
        ELSE /\ used' = n
             /\ IF Cardinality(owns[p]) < UFds
                THEN /\ sk' = linked
                     /\ owns' = [owns EXCEPT ![p] = @ \union {n}]
                     /\ Wakeup(c, p, User)
                ELSE /\ sk' = [linked EXCEPT ![n].closed = TRUE]
                     /\ Goto(p, User) /\ UNCHANGED <<owns, blocked>>

Accept(p, s) ==
    /\ ~sk[s].closed /\ sk[s].listening
    /\ IF sk[s].count = 0
       THEN BlockOn(s, p, [pc |-> "accept", s |-> s]) /\ UNCHANGED <<sk, used, owns>>
       ELSE Adopt(p, s, sk[s].backlog[sk[s].head],
                  [sk EXCEPT ![s].head = (@ + 1) % Backlog, ![s].count = @ - 1])

\* Woken: load backlog_count.
AcceptLoad(p) ==
    /\ In(p, "accept")
    /\ LET s == at[p].s
       IN  Goto(p, IF sk[s].count # 0 THEN [pc |-> "take", s |-> s, n |-> sk[s].count]
                   ELSE IF sk[s].closed THEN User
                   ELSE [pc |-> "again", then |-> "accept", s |-> s])
    /\ UNCHANGED <<sk, used, owns, blocked>>

\* Store it, less one.
AcceptStore(p) ==
    /\ In(p, "take")
    /\ LET s == at[p].s
       IN  /\ sk' = [sk EXCEPT ![s].count = at[p].n - 1]
           /\ Goto(p, [pc |-> "adopt", s |-> s, h |-> sk[s].head])
    /\ UNCHANGED <<used, owns, blocked>>

AcceptAdopt(p) ==
    /\ In(p, "adopt")
    /\ LET s == at[p].s
           h == at[p].h
       IN  Adopt(p, s, sk[s].backlog[h], [sk EXCEPT ![s].head = (h + 1) % Backlog])

-----------------------------------------------------------------------------
(* unix_connect.                                                           *)

Connect(p, s, path) ==
    /\ ~sk[s].closed
    /\ LET v == FindByPath(path)
       IN  /\ v # 0 /\ sk[v].listening /\ sk[v].count < Backlog
           /\ sk' = [sk EXCEPT ![v].backlog[sk[v].tail] = s,
                               ![v].tail = (@ + 1) % Backlog, ![v].count = @ + 1]
           /\ Wakeup(v, p, [pc |-> "connect", s |-> s])
    /\ UNCHANGED <<used, owns>>

ConnectCheck(p) ==
    /\ In(p, "connect")
    /\ LET s == at[p].s
       IN  Goto(p, IF sk[s].connected \/ sk[s].closed THEN User
                   ELSE [pc |-> "again", then |-> "connect", s |-> s])
    /\ UNCHANGED <<sk, used, owns, blocked>>

\* sched_block_on after the check that led to it: a wakeup in between is lost.
BlockAgain(p) ==
    /\ Runs(p) /\ at[p].pc = "again"
    /\ BlockOn(IF at[p].then = "send" THEN at[p].d ELSE at[p].s, p,
               [at[p] EXCEPT !.pc = at[p].then])
    /\ UNCHANGED <<sk, used, owns>>

-----------------------------------------------------------------------------
(* unix_send: left bytes to go into the buffer of the peer d.              *)

Room(n, left) == Min({left, BufSize - n})

\* Faulty variant: nobody is woken.
DeliveredQuietly(p, s, d, n, left) ==
    /\ sk' = [sk EXCEPT ![d].len = n + Room(n, left)]
    /\ Goto(p, User) /\ UNCHANGED blocked

Delivered(p, s, d, n, left) ==
    /\ sk' = [sk EXCEPT ![d].len = n + Room(n, left)]
    /\ Wakeup(d, p, IF left > Room(n, left)
                    THEN [pc |-> "send", s |-> s, d |-> d, left |-> left - Room(n, left)]
                    ELSE User)

Send(p, s, len) ==
    /\ ~sk[s].closed /\ sk[s].connected
    /\ LET d == sk[s].peer
       IN  /\ d # 0 /\ ~sk[d].closed
           /\ IF sk[d].len >= BufSize
              THEN /\ BlockOn(d, p, [pc |-> "send", s |-> s, d |-> d, left |-> len])
                   /\ UNCHANGED sk
              ELSE Delivered(p, s, d, sk[d].len, len)
    /\ UNCHANGED <<used, owns>>

SendLoad(p) ==
    /\ In(p, "send")
    /\ LET a == at[p]
       IN  Goto(p, IF sk[a.d].len < BufSize
                   THEN [pc |-> "copied", s |-> a.s, d |-> a.d, left |-> a.left,
                         n |-> sk[a.d].len]
                   ELSE IF sk[a.d].closed \/ sk[a.s].closed THEN User
                   ELSE [pc |-> "again", then |-> "send", s |-> a.s, d |-> a.d, left |-> a.left])
    /\ UNCHANGED <<sk, used, owns, blocked>>

SendStore(p) ==
    /\ In(p, "copied")
    /\ Delivered(p, at[p].s, at[p].d, at[p].n, at[p].left)
    /\ UNCHANGED <<used, owns>>

-----------------------------------------------------------------------------
(* unix_recv.                                                              *)

Gone(s) == sk[s].closed \/ (sk[s].peer # 0 /\ sk[sk[s].peer].closed)

\* The end: wake a sender that waits for room.
Received(p, s, table) ==
    /\ sk' = table
    /\ IF table[s].peer # 0 /\ table[s].len < BufSize
       THEN Wakeup(table[s].peer, p, User)
       ELSE Goto(p, User) /\ UNCHANGED blocked

Recv(p, s, len) ==
    /\ ~sk[s].closed
    /\ LET n == Min({len, sk[s].len})
       IN  IF sk[s].len = 0
           THEN /\ ~Gone(s)
                /\ BlockOn(s, p, [pc |-> "recv", s |-> s, left |-> len])
                /\ UNCHANGED sk
           ELSE Received(p, s, [sk EXCEPT ![s].pos = (@ + n) % BufSize,
                                          ![s].len = @ - n])
    /\ UNCHANGED <<used, owns>>

\* Woken: read a byte, move write_pos and load write_len.
RecvLoad(p) ==
    /\ In(p, "recv")
    /\ LET a == at[p]
       IN  IF sk[a.s].len > 0
           THEN /\ sk' = [sk EXCEPT ![a.s].pos = (@ + 1) % BufSize]
                /\ Goto(p, [pc |-> "taken", s |-> a.s, left |-> a.left, n |-> sk[a.s].len])
           ELSE /\ Goto(p, IF Gone(a.s) THEN User ELSE [pc |-> "again", then |-> "recv", s |-> a.s, left |-> a.left])
                /\ UNCHANGED sk
    /\ UNCHANGED <<used, owns, blocked>>

\* Store write_len, less one, and go on with the next byte or end.
RecvStore(p) ==
    /\ In(p, "taken")
    /\ LET a == at[p]
           table == [sk EXCEPT ![a.s].len = a.n - 1]
       IN  IF a.left > 1 /\ a.n > 1
           THEN /\ sk' = [table EXCEPT ![a.s].pos = (@ + 1) % BufSize]
                /\ Goto(p, [a EXCEPT !.left = @ - 1, !.n = a.n - 1])
                /\ UNCHANGED blocked
           ELSE Received(p, a.s, table)
    /\ UNCHANGED <<used, owns>>

-----------------------------------------------------------------------------
(* unix_close: the peer forgets the closed socket, which is why a reader   *)
(* that waits on the other end goes on waiting.                            *)

UClose(p, s) ==
    /\ sk' = [sk EXCEPT ![s].closed = TRUE]
    /\ Wakeup(s, p, [pc |-> "close", s |-> s])
    /\ UNCHANGED <<used, owns>>

CloseRest(p) ==
    /\ In(p, "close")
    /\ LET s == at[p].s
           d == sk[s].peer
       IN  /\ IF d = 0 THEN Goto(p, User) /\ UNCHANGED <<sk, blocked>>
              ELSE sk' = [sk EXCEPT ![d].peer = 0] /\ Wakeup(d, p, User)
           /\ owns' = [owns EXCEPT ![p] = @ \ {s}]
    /\ UNCHANGED used

-----------------------------------------------------------------------------
(* The system calls: a descriptor of the caller that is a Unix socket. A   *)
(* call that is turned down, or whose address or buffer cannot be copied,  *)
(* changes nothing.                                                        *)

SysSocket(p) == Runs(p) /\ at[p] = User /\ Create(p)

SysBind(p, s, path) == UCalls(p, s) /\ Bind(p, s, path)

SysListen(p, s) == UCalls(p, s) /\ Listen(p, s)

SysAccept(p, s) == UCalls(p, s) /\ Accept(p, s)

SysConnect(p, s, path) == UCalls(p, s) /\ Connect(p, s, path)

SysSend(p, s, len) == UCalls(p, s) /\ Send(p, s, len)

SysRecv(p, s, len) == UCalls(p, s) /\ Recv(p, s, len)

SysClose(p, s) == UCalls(p, s) /\ UClose(p, s)

UNext ==
    \E p \in UProcs :
        \/ SysSocket(p)
        \/ \E s \in owns[p] :
             \/ \E path \in UPaths : SysBind(p, s, path) \/ SysConnect(p, s, path)
             \/ SysListen(p, s) \/ SysAccept(p, s) \/ SysClose(p, s)
             \/ \E len \in 1 .. MaxLen : SysSend(p, s, len) \/ SysRecv(p, s, len)
        \/ AcceptLoad(p) \/ AcceptStore(p) \/ AcceptAdopt(p)
        \/ ConnectCheck(p)
        \/ BlockAgain(p)
        \/ SendLoad(p) \/ SendStore(p)
        \/ RecvLoad(p) \/ RecvStore(p)
        \/ CloseRest(p)

USpec == UInit /\ [][UNext]_uvars

-----------------------------------------------------------------------------
(* Properties.                                                             *)

\* A process that waits for the first time in a call (then is set by BlockAgain)
\* has not missed what it waits for: a reader sleeps on an empty buffer and a
\* server on an empty backlog, because the check and sched_block_on are then one
\* step, with interrupts off, and whoever fills the buffer or the backlog wakes
\* that channel afterwards.
FirstWaitMissesNothing ==
    \A p \in UProcs :
        /\ blocked[p] # 0 /\ "then" \notin DOMAIN at[p] /\ at[p].pc \in {"accept", "recv"}
        => IF at[p].pc = "recv" THEN sk[at[p].s].len = 0 ELSE sk[at[p].s].count = 0
=============================================================================
