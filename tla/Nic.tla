-------------------------------- MODULE Nic ---------------------------------
(***************************************************************************)
(* The network adapters' drivers, net/e1000.c and net/rtl8139.c, and their *)
(* use by net_init and net_eth_send of net/net.c: the rings shared with    *)
(* the adapter and the frames that pass through them.                      *)
(*                                                                         *)
(* A frame is its number, in the order of arrival or of sending. The       *)
(* adapter is external: it fills receive descriptors from its head up to   *)
(* the tail the driver wrote, drops frames when it has none, transmits     *)
(* what lies before the transmit tail, and interrupts when it likes.       *)
(***************************************************************************)
EXTENDS Integers, Sequences

CONSTANTS NDesc,     \* RX_DESC_COUNT and TX_DESC_COUNT of e1000.c
          NTsd,      \* 4, the transmit descriptors of an RTL8139
          MaxFrames  \* bound: frames that arrive, and frames that are sent

ASSUME NicConstants == NDesc \in Nat \ {0, 1} /\ NTsd \in Nat \ {0}

VARIABLES nicType,  \* nic_type; "none" also when network_ready is 0
          rxring,   \* rx_desc with rx_buf, rx_cur, and the RDH and RDT registers
          txring,   \* tx_desc with tx_buf and tx_cur, or txbuf and tx_idx;
                    \* TDH and TDT, or the TSD registers still to be transmitted
          isr,      \* RTL8139: the receive bit of its interrupt status
          arrived,  \* observer: how many frames the adapter has stored
          handed,   \* observer: what net_handle_packet was given
          queued,   \* observer: what a send put into the ring
          onwire,   \* observer: what the adapter transmitted
          overrun   \* observer: a send has reused a descriptor not yet transmitted

nicvars == <<nicType, rxring, txring, isr, arrived, handed, queued, onwire, overrun>>
rxvars == <<rxring, isr, arrived, handed>>
txvars == <<txring, queued, onwire, overrun>>

TxSlots == 0 .. (IF nicType = "e1000" THEN NDesc ELSE NTsd) - 1

Wrapped(i, n) == (i + 1) % n

\* net_init takes the first adapter that is there and starts: an e1000, else an
\* RTL8139.
NetInit(found, starts) ==
    IF "e1000" \in found \intersect starts THEN "e1000"
    ELSE IF "rtl8139" \in found \intersect starts THEN "rtl8139"
    ELSE "none"

\* e1000_init and rtl8139_init: empty rings; of the receive descriptors the
\* adapter may use all but one.
NicInit ==
    /\ \E found, starts \in SUBSET {"e1000", "rtl8139"} : nicType = NetInit(found, starts)
    /\ rxring = [dd |-> [i \in 0 .. NDesc - 1 |-> FALSE],
                 buf |-> [i \in 0 .. NDesc - 1 |-> 0],
                 cur |-> 0, head |-> 0, tail |-> NDesc - 1]
    /\ txring = [buf |-> [i \in TxSlots |-> 0], cur |-> 0, head |-> 0, tail |-> 0,
                 due |-> {}]
    /\ isr = FALSE
    /\ arrived = 0 /\ handed = <<>> /\ queued = <<>> /\ onwire = <<>>
    /\ overrun = FALSE

-----------------------------------------------------------------------------
(* Receiving.                                                              *)

\* Faulty variant: the descriptor is given back with its status bit.
E1000RecvKeepsStatus(r) ==
    [r EXCEPT !.cur = Wrapped(@, NDesc), !.tail = Wrapped(r.cur, NDesc)]

\* e1000_recv on a descriptor that holds a frame.
E1000Recv(r) ==
    [r EXCEPT !.dd[r.cur] = FALSE,
              !.cur = Wrapped(@, NDesc), !.tail = Wrapped(r.cur, NDesc)]

\* e1000_handle_irq: one frame for an interrupt, however many there are.
E1000HandleIrq ==
    /\ nicType = "e1000" /\ rxring.dd[rxring.cur]
    /\ handed' = Append(handed, rxring.buf[rxring.cur])
    /\ rxring' = E1000Recv(rxring)
    /\ UNCHANGED <<nicType, isr, arrived, txvars>>

\* rtl8139_handle_irq. The status is cleared, and rtl8139_recv then finds it
\* clear, or finds the "received" bit of the frame's header set: it hands
\* nothing on either way.
Rtl8139HandleIrq ==
    /\ nicType = "rtl8139" /\ isr
    /\ isr' = FALSE
    /\ UNCHANGED <<nicType, rxring, arrived, handed, txvars>>

-----------------------------------------------------------------------------
(* Sending, by net_eth_send. System calls and the interrupts that answer   *)
(* packets run with interrupts off: a send is one step.                    *)

\* e1000_send. The bit it waits for is clear: its own store, and the adapter
\* writes no status that it was not asked for.
E1000Send(f) ==
    /\ nicType = "e1000"
    /\ txring' = [txring EXCEPT !.buf[txring.cur] = f, !.cur = Wrapped(@, NDesc),
                                !.tail = Wrapped(txring.cur, NDesc)]
    /\ overrun' = (overrun \/ Wrapped(txring.cur, NDesc) = txring.head)

\* rtl8139_send. It waits for a bit to go away that says the last frame is out,
\* and goes on without it.
Rtl8139Send(f) ==
    /\ nicType = "rtl8139"
    /\ txring' = [txring EXCEPT !.buf[txring.cur] = f, !.cur = Wrapped(@, NTsd),
                                !.due = @ \union {txring.cur}]
    /\ overrun' = (overrun \/ txring.cur \in txring.due)

NetEthSend ==
    /\ Len(queued) < MaxFrames
    /\ LET f == Len(queued) + 1
       IN  /\ E1000Send(f) \/ Rtl8139Send(f)
           /\ queued' = Append(queued, f)
    /\ UNCHANGED <<nicType, rxvars, onwire>>

-----------------------------------------------------------------------------
(* The adapter (external).                                                 *)

\* A frame is stored; without a descriptor it is lost.
DevReceives ==
    /\ arrived < MaxFrames
    /\ \/ /\ nicType = "e1000" /\ rxring.head # rxring.tail
          /\ rxring' = [rxring EXCEPT !.dd[rxring.head] = TRUE,
                                      !.buf[rxring.head] = arrived + 1,
                                      !.head = Wrapped(@, NDesc)]
          /\ UNCHANGED isr
       \/ nicType = "rtl8139" /\ isr' = TRUE /\ UNCHANGED rxring
    /\ arrived' = arrived + 1
    /\ UNCHANGED <<nicType, handed, txvars>>

DevTransmits ==
    /\ \/ nicType = "e1000" /\ txring.head # txring.tail
       \/ nicType = "rtl8139" /\ txring.head \in txring.due
    /\ onwire' = Append(onwire, txring.buf[txring.head])
    /\ txring' = [txring EXCEPT !.due = @ \ {txring.head},
                                !.head = (@ + 1) % (IF nicType = "e1000" THEN NDesc ELSE NTsd)]
    /\ UNCHANGED <<nicType, rxvars, queued, overrun>>

NicNext ==
    \/ E1000HandleIrq \/ Rtl8139HandleIrq
    \/ NetEthSend
    \/ DevReceives \/ DevTransmits

NicSpec == NicInit /\ [][NicNext]_nicvars

-----------------------------------------------------------------------------
(* Properties.                                                             *)

\* The stack is handed the frames the adapter stored, each once and in the
\* order of arrival, however the ring wraps and however far the one-frame
\* interrupt handler is behind; and as long as no send has come round to a
\* descriptor that is still waiting, the frames on the wire are those sent, in
\* order (e1000_recv, e1000_send, rtl8139_send).
FramesInOrder ==
    /\ Len(handed) <= arrived /\ \A i \in DOMAIN handed : handed[i] = i
    /\ ~overrun => /\ Len(onwire) <= Len(queued)
                   /\ \A i \in DOMAIN onwire : onwire[i] = queued[i]
=============================================================================
