------------------------------- MODULE MCNet --------------------------------
(***************************************************************************)
(* Sockets for TLC, in scenarios that share no state: "data", one TCP      *)
(* connection that receives; "states", one that sends, closes and times    *)
(* out; "serve", a listener and its clients; "hosts", the protocols below  *)
(* and beside TCP; "nic", the rings of a network adapter; "local", two     *)
(* processes with UNIX sockets.                                            *)
(***************************************************************************)
EXTENDS Tcp, Net, Nic, UnixSock, TLC

VARIABLE which

\* The resolver is behind the gateway.
MCMacs == [h \in Hosts |-> CASE h = "g" -> {"m1"} [] h = "h" -> {"m2"}
                             [] OTHER -> {}]

MCResolvers == <<"r">>

\* Processes are only ever compared for equality.
ProcSymmetry == Permutations(UProcs)

\* One socket, which connects.
OneClient ==
    \/ tport = FirstPort /\ TSocket
    \/ \E s \in TSocks, p \in RPorts : TConnect(s, p)

Server ==
    \/ TSocket
    \/ \E s \in TSocks : TListen(s) \/ TAccept(s) \/ TTimeout(s)

TcpStep ==
    \/ which \in {"data", "states"} /\ OneClient
    \/ which = "data" /\ TRead
    \/ which = "data" /\ \E g \in Segments : TArrive(g)
    \/ which = "serve" /\ \E g \in Segments : g.seq * g.len <= 1 /\ TArrive(g)
    \/ which = "states" /\ (TWrite \/ TTimer)
    \/ which = "states" /\ \E s \in TSocks, p \in BindPorts : TBind(s, p)
    \/ which = "states" /\ \E g \in Segments : g.len = 0 /\ TArrive(g)
    \/ which = "serve" /\ Server
    \/ which \in {"states", "serve"} /\ TShut

MCInit ==
    /\ TInit /\ NInit /\ NicInit /\ UInit
    /\ which \in {"data", "states", "serve", "hosts", "nic", "local"}
    /\ which = "nic" \/ nicType = "none"

MCNext ==
    \/ TcpStep /\ UNCHANGED <<nvars, nicvars, uvars, which>>
    \/ which = "hosts" /\ NNext /\ UNCHANGED <<tvars, nicvars, uvars, which>>
    \/ which = "nic" /\ NicNext /\ UNCHANGED <<tvars, nvars, uvars, which>>
    \/ which = "local" /\ UNext /\ UNCHANGED <<tvars, nvars, nicvars, which>>

MCSpec == MCInit /\ [][MCNext]_<<tvars, nvars, nicvars, uvars, which>>
=============================================================================
