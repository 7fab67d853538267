-------------------------------- MODULE Net ---------------------------------
(***************************************************************************)
(* The network below and beside TCP: net/arp.c, ip.c, icmp.c, udp.c and    *)
(* the clients dhcp.c and dns.c. Frames arrive in the adapter's interrupt  *)
(* (net_handle_packet, one step); one kernel thread runs a client, which   *)
(* is interrupted wherever it waits and, in icmp_ping, between its stores. *)
(*                                                                         *)
(* An address is a host; Link says who is on our network. A datagram is    *)
(* its meaning: a DHCP message, a DNS answer or something else. Timeouts   *)
(* may run out at any time.                                                *)
(***************************************************************************)
EXTENDS Integers, Sequences, FiniteSetsExt

CONSTANTS Hosts, Link, Macs,
          Gateway, StaticIp, \* net_config_set_default
          Leases,            \* addresses the DHCP server has to give
          Resolvers,         \* dns_servers[], in order
          ArpSize,           \* ARP_CACHE_SIZE
          NUdp,              \* UDP_MAX_PORTS
          Ports              \* udp ports a datagram may be sent to

ASSUME NetAssumption == ArpSize \in Nat \ {0}

VARIABLES arp,      \* arp_cache, the valid entries: they come first
          usock,    \* socks[], the used ones: <<port, datagram>>
          conf,     \* our_ip and our_gateway
          ping,     \* ping_target and icmp_ping_received
          client,   \* what the client thread is doing
          heard,    \* observer: <<host, mac>> of every ARP packet
          answered, \* observer: hosts whose echo replies arrived since the ping began
          wire      \* observer: the last IP frame handed to the adapter

nvars == <<arp, usock, conf, ping, client, heard, answered, wire>>

Broadcast == "broadcast"

Nobody == "nobody"

NoDgram == [kind |-> "none"]

NIdle == [pc |-> "idle"]

\* net_init, before dhcp_request: the static configuration, which stays when
\* no lease is given.
Static == [ip |-> StaticIp, gw |-> Gateway]

NInit ==
    /\ arp = <<>> /\ usock = <<>>
    /\ conf = Static
    /\ ping = [target |-> Nobody, got |-> FALSE]
    /\ client = NIdle
    /\ heard = {} /\ answered = {}
    /\ wire = [hop |-> Nobody, mac |-> Nobody]

-----------------------------------------------------------------------------
(* arp.c. Entries are never replaced: a host that answers twice is there   *)
(* twice, and the older entry is the one that is found.                    *)

ArpLookup(ip) ==
    LET hits == {i \in DOMAIN arp : arp[i].ip = ip}
    IN  IF hits = {} THEN Nobody ELSE arp[Min(hits)].mac

\* Faulty variant: the addresses are moved up, the hardware addresses not.
ArpAddShiftsHalf(ip, mac) ==
    IF Len(arp) < ArpSize THEN Append(arp, [ip |-> ip, mac |-> mac])
    ELSE [i \in 1 .. ArpSize |->
            IF i = ArpSize THEN [ip |-> ip, mac |-> mac]
            ELSE [ip |-> arp[i + 1].ip, mac |-> arp[i].mac]]

ArpAdd(ip, mac) ==
    Append(IF Len(arp) < ArpSize THEN arp ELSE Tail(arp), [ip |-> ip, mac |-> mac])

\* arp_handle_packet; an answer to a request for our address is not kept here.
ArpArrive(ip, mac) ==
    /\ arp' = ArpAdd(ip, mac)
    /\ heard' = heard \union {<<ip, mac>>}
    /\ UNCHANGED <<usock, conf, ping, client, answered, wire>>

-----------------------------------------------------------------------------
(* ip_send_packet.                                                         *)

\* A broadcast is not on the link either: it goes to the gateway, if there is one.
NextHop(dst) == IF dst \in Link \/ conf.gw = Nobody THEN dst ELSE conf.gw

SendTo(hop) == wire' = [hop |-> hop, mac |-> ArpLookup(hop)]

\* The client wants to send to dst, and to go on with job.
NSend(dst, job) == client' = [pc |-> "resolve", hop |-> NextHop(dst), tries |-> 0, job |-> job]

\* One turn of the loop: the address is known and the packet leaves, or a
\* request goes out, the answer to which may arrive before the next turn. The
\* third miss is the end.
Resolve ==
    /\ client.pc = "resolve"
    /\ IF ArpLookup(client.hop) # Nobody
       THEN SendTo(client.hop) /\ client' = [pc |-> "wait", job |-> client.job]
       ELSE /\ client' = IF client.tries < 2 THEN [client EXCEPT !.tries = @ + 1]
                         ELSE [pc |-> "failed", job |-> client.job]
            /\ UNCHANGED wire
    /\ UNCHANGED <<arp, usock, conf, ping, heard, answered>>

-----------------------------------------------------------------------------
(* icmp.c.                                                                 *)

\* icmp_handle_packet, an echo request. It is answered in the interrupt, where
\* no ARP answer can arrive: only if the address is known already.
EchoRequest(src) ==
    /\ ArpLookup(NextHop(src)) # Nobody
    /\ SendTo(NextHop(src))
    /\ UNCHANGED <<arp, usock, conf, ping, client, heard, answered>>

EchoReply(src) ==
    /\ ping' = IF src = ping.target THEN [ping EXCEPT !.got = TRUE] ELSE ping
    /\ answered' = answered \union {src}
    /\ UNCHANGED <<arp, usock, conf, client, heard, wire>>

\* icmp_ping: ping_target first ...
PingStart(dst) ==
    /\ client = NIdle
    /\ ping' = [ping EXCEPT !.target = dst]
    /\ client' = [pc |-> "ping", dst |-> dst]
    /\ UNCHANGED <<arp, usock, conf, heard, answered, wire>>

\* Faulty variant: the flag of the last ping is left as it is.
PingClearForgets ==
    /\ client.pc = "ping"
    /\ NSend(client.dst, [kind |-> "ping", dst |-> client.dst])
    /\ answered' = {}
    /\ UNCHANGED <<arp, usock, conf, ping, heard, wire>>

\* ... then the flag, then the request.
PingClear ==
    /\ client.pc = "ping"
    /\ ping' = [ping EXCEPT !.got = FALSE]
    /\ NSend(client.dst, [kind |-> "ping", dst |-> client.dst])
    /\ answered' = {}
    /\ UNCHANGED <<arp, usock, conf, heard, wire>>

\* Whether or not the request left, the answer is waited for.
PingEnd ==
    /\ client.pc \in {"wait", "failed"} /\ client.job.kind = "ping"
    /\ client' = [pc |-> "pinged", dst |-> client.job.dst, ok |-> ping.got]
    /\ UNCHANGED <<arp, usock, conf, ping, heard, answered, wire>>

NReturn ==
    /\ client.pc \in {"pinged", "done"}
    /\ client' = NIdle
    /\ UNCHANGED <<arp, usock, conf, ping, heard, answered, wire>>

-----------------------------------------------------------------------------
(* udp.c: a socket has room for one datagram, and the next one replaces    *)
(* it; udp_recv takes from the first socket that has one, whoever asks.    *)

\* udp_bind: the first free place. None is ever given back.
UdpBind(port) ==
    /\ Len(usock) < NUdp
    /\ usock' = Append(usock, [port |-> port, dgram |-> NoDgram])

UdpArrive(port, d) ==
    LET hits == {i \in DOMAIN usock : usock[i].port = port}
    IN  /\ hits # {}
        /\ usock' = [usock EXCEPT ![Min(hits)].dgram = d]
        /\ UNCHANGED <<arp, conf, ping, client, heard, answered, wire>>

Pending == {i \in DOMAIN usock : usock[i].dgram # NoDgram}

UdpTaken == [usock EXCEPT ![Min(Pending)].dgram = NoDgram]

-----------------------------------------------------------------------------
(* dhcp_request and dhcp_handle_packet. Nothing ties an answer to the      *)
(* request: not the transaction, not the server.                           *)

\* dhcp_send_discover and dhcp_send_request: whether the packet left is not looked at.
DhcpSend == NSend(Broadcast, [kind |-> "dhcp"])

DhcpStart ==
    /\ client = NIdle
    /\ UdpBind(68)
    /\ DhcpSend
    /\ UNCHANGED <<arp, conf, ping, heard, answered, wire>>

DhcpRecv ==
    /\ client.pc \in {"wait", "failed"} /\ client.job.kind = "dhcp" /\ Pending # {}
    /\ usock' = UdpTaken
    /\ LET d == usock[Min(Pending)].dgram
       IN  CASE d.kind = "offer" -> DhcpSend /\ UNCHANGED conf
             [] d.kind = "ack" -> /\ conf' = [ip |-> d.ip, gw |-> IF d.gw = Nobody THEN conf.gw ELSE d.gw]
                                  /\ client' = [pc |-> "done"]
             [] OTHER -> UNCHANGED <<conf, client>>
    /\ UNCHANGED <<arp, ping, heard, answered, wire>>

\* dns_lookup's n-th attempt: two for each server.
DnsSend(n) == NSend(Resolvers[((n - 1) \div 2) + 1], [kind |-> "dns", n |-> n])

\* A client's time is up; dns_lookup goes on with the next attempt.
NTimeout ==
    /\ client.pc \in {"wait", "failed"} /\ client.job.kind # "ping"
    /\ IF client.job.kind = "dhcp" \/ client.job.n = 2 * Len(Resolvers)
       THEN client' = [pc |-> "done"]
       ELSE DnsSend(client.job.n + 1)
    /\ UNCHANGED <<arp, usock, conf, ping, heard, answered, wire>>

-----------------------------------------------------------------------------
(* dns_lookup. No socket is bound for the answer.                          *)

DnsStart ==
    /\ client = NIdle
    /\ DnsSend(1)
    /\ UNCHANGED <<arp, usock, conf, ping, heard, answered, wire>>

DnsRecv ==
    /\ client.pc = "wait" /\ client.job.kind = "dns" /\ Pending # {}
    /\ usock' = UdpTaken
    /\ client' = IF usock[Min(Pending)].dgram.kind = "answer" THEN [pc |-> "done"] ELSE client
    /\ UNCHANGED <<arp, conf, ping, heard, answered, wire>>

Datagrams ==
    {[kind |-> "offer", ip |-> h] : h \in Leases}
    \union {[kind |-> "ack", ip |-> h, gw |-> g] : h \in Leases, g \in {Nobody, Gateway}}
    \union {[kind |-> "answer"]}

-----------------------------------------------------------------------------
\* ip_handle_packet: the address we have now, which a lease changes, or everybody's.
IpArrive(dst) ==
    /\ dst \in {conf.ip, Broadcast}
    /\ \/ \E h \in Hosts : EchoRequest(h) \/ EchoReply(h)
       \/ \E p \in Ports, d \in Datagrams : UdpArrive(p, d)

\* net_handle_packet: a frame of the adapter's.
NetArrive ==
    \/ \E h \in Hosts : \E m \in Macs[h] : ArpArrive(h, m)
    \/ \E dst \in Leases \union {StaticIp, Broadcast} : IpArrive(dst)

NNext ==
    \/ NetArrive
    \/ \E h \in Hosts : PingStart(h)
    \/ Resolve \/ PingClear \/ PingEnd \/ NReturn
    \/ DhcpStart \/ DhcpRecv \/ NTimeout \/ DnsStart \/ DnsRecv

NSpec == NInit /\ [][NNext]_nvars

-----------------------------------------------------------------------------
(* Properties.                                                             *)

\* A frame goes to a hardware address that its next hop has announced, also
\* after the cache was full and its oldest entry made room (arp_cache_add).
SentToNextHop == wire.hop # Nobody => <<wire.hop, wire.mac>> \in heard

\* icmp_ping reports success only for a host that has answered since it cleared
\* icmp_ping_received, whatever late answers to an earlier ping, of this host or
\* another, arrive while it starts.
PingIsTrue == client.pc = "pinged" /\ client.ok => client.dst \in answered
=============================================================================
