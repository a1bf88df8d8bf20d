------------------------------ MODULE Forwarding ------------------------------
(***************************************************************************)
(* One packet on its way through the daemons: read from a TUN device, sent *)
(* from daemon to daemon, written to a TUN device and there taken by the   *)
(* kernel, which may hand it back.  Daemons keep nothing of a packet, so   *)
(* packets do not disturb each other and one at a time is enough.          *)
(*                                                                         *)
(* Which peers a daemon can send to (encrypt_and_send: in its table, with  *)
(* an endpoint, connected) is Session's and PeerDaemon's matter: here any  *)
(* set of other daemons, chosen anew each time a packet is handled.  A     *)
(* daemon is never in its own table.                                       *)
(***************************************************************************)
EXTENDS Routes

CONSTANTS
  Dest,      \* destinations of packets
  Gateways,  \* nodes with gateway = true
  Lan,       \* addresses the kernel of a node reaches by other devices
  HostBits,  \* bits of an address below its /24: 8
  MaxTtl     \* IP time to live when a packet is sent: 64

ASSUME DestAssumption == Dest \subseteq Addr \cup Addr6
ASSUME GatewayAssumption == Gateways \subseteq Node
ASSUME LanAssumption == Lan \in [Node -> SUBSET ((Addr \cup Addr6) \ (Node \cup Container))]
ASSUME HostAssumption == HostBits \in 0 .. Width
ASSUME TtlAssumption == MaxTtl \in Nat

VARIABLE pkt

vars == <<routeVars, pkt>>

\* "tun": read from the TUN device of at; "udp": decrypted there; "kernel":
\* written to its TUN device; "dropped": for want of a route.
InFlight == pkt.place \in {"tun", "udp", "kernel"}

Packet == [dest : Dest, at : Node, ttl : 0 .. MaxTtl, place : {"tun", "udp", "kernel"}]
          \cup [place : {"arrived", "lost", "dropped"}]

TypeOK == RoutesTypeOK /\ pkt \in Packet

\* 255.255.255.255, and the last address of the node's /24, whatever its subnet.
Broadcasts(n) == {2^Width - 1, Masked(n, Width - HostBits) + 2^HostBits - 1}

Unicast(n) == pkt.dest \in Addr \ Broadcasts(n)

Local(n, d) == d = n \/ d \in Lan[n] \/ (d \in Container /\ home[d] = n)

SendTo(m) == pkt' = [pkt EXCEPT !.at = m, !.place = "udp"]
WriteTun == pkt' = [pkt EXCEPT !.place = "kernel"]
End(how) == pkt' = [place |-> how]

\* with_peer_by_ip and encrypt_and_send, the result of the latter not looked at.
TrySend(m, reachable) == IF m \in reachable THEN SendTo(m) ELSE End("lost")

-----------------------------------------------------------------------------
(* TUN to UDP. *)

Handling(n, place) == pkt.place = place /\ pkt.at = n

\* The peers tried one after the other: the destination, the host of the
\* container, the gateway of the subnet.
Candidates(n) == <<pkt.dest, FindRoute(n, pkt.dest), FindSubnetMatch(n, pkt.dest)>>

FirstOf(list, reachable) ==
  list[CHOOSE i \in DOMAIN list :
         list[i] \in reachable /\ \A j \in 1 .. i - 1 : list[j] \notin reachable]

NoneOf(list, reachable) == \A i \in DOMAIN list : list[i] \notin reachable

OutboundRouted(n, reachable) ==
  /\ ~NoneOf(Candidates(n), reachable)
  /\ SendTo(FirstOf(Candidates(n), reachable))

\* find_relay_for: a peer not connected, known by the exchange of another one.
OutboundRelayed(n, reachable) ==
  /\ NoneOf(Candidates(n), reachable)
  /\ pkt.dest \in Node \ {n}
  /\ \E relay \in Node \ {n, pkt.dest} : TrySend(relay, reachable)

OutboundGateway(n, reachable) ==
  /\ NoneOf(Candidates(n), reachable)
  /\ \E gw \in Gateways \cap reachable : SendTo(gw)

OutboundDropped(n, reachable) ==
  /\ NoneOf(Candidates(n), reachable)
  /\ Gateways \cap reachable = {}
  /\ End("dropped")

\* Every connected peer is sent a copy, and so is the relay of every other one,
\* which is a connected peer too if the copy gets anywhere: one copy is followed.
OutboundBroadcast(n, reachable) ==
  /\ pkt.dest \in Broadcasts(n)
  /\ IF reachable = {} THEN End("dropped") ELSE \E m \in reachable : SendTo(m)

\* IPv6: the gateway of the subnet or nobody.
Outbound6(n, reachable) ==
  LET gw == FindSubnetMatchV6(n, pkt.dest)
  IN /\ pkt.dest \in Addr6
     /\ IF gw = None THEN End("dropped") ELSE TrySend(gw, reachable)

Outbound(n) ==
  /\ Handling(n, "tun")
  /\ \E reachable \in SUBSET (Node \ {n}) :
       \/ OutboundBroadcast(n, reachable)
       \/ /\ Unicast(n)
          /\ \/ OutboundRouted(n, reachable)
             \/ OutboundRelayed(n, reachable)
             \/ OutboundGateway(n, reachable)
             \/ OutboundDropped(n, reachable)
       \/ Outbound6(n, reachable)
  /\ UNCHANGED routeVars

-----------------------------------------------------------------------------
(* UDP to TUN, or on to another daemon. *)

\* A route that names this node ends here.
Via(n, m, reachable) == IF m = n THEN WriteTun ELSE TrySend(m, reachable)

\* A broadcast ends here, too.
InboundForUs(n) == pkt.dest \in {n} \cup Broadcasts(n) /\ WriteTun

InboundDirect(n, reachable) ==
  pkt.dest # n /\ pkt.dest \in reachable /\ SendTo(pkt.dest)

\* What if the subnets were looked at before the containers.
RoutesSubnetFirst(n) == <<FindSubnetMatch(n, pkt.dest), FindRoute(n, pkt.dest)>>

RoutesOf(n) == <<FindRoute(n, pkt.dest), FindSubnetMatch(n, pkt.dest)>>

InboundRouted(n, reachable) ==
  LET routes == RoutesOf(n)
  IN /\ pkt.dest \notin {n} \cup reachable
     /\ \/ routes[1] # None /\ Via(n, routes[1], reachable)
        \/ routes[1] = None /\ routes[2] # None /\ Via(n, routes[2], reachable)

\* What if a packet without a route went to a relay or gateway, as outbound ones.
PassOn(n, reachable) ==
  /\ pkt.dest \notin {n} \cup reachable
  /\ \A i \in 1 .. 2 : RoutesOf(n)[i] = None
  /\ IF reachable = {} THEN End("dropped") ELSE \E m \in reachable : SendTo(m)

InboundDropped(n, reachable) ==
  /\ pkt.dest \notin {n} \cup reachable
  /\ \A i \in 1 .. 2 : RoutesOf(n)[i] = None
  /\ End("dropped")

Inbound6(n, reachable) ==
  LET gw == FindSubnetMatchV6(n, pkt.dest)
  IN /\ pkt.dest \in Addr6
     /\ IF gw = None THEN End("dropped") ELSE Via(n, gw, reachable)

Inbound(n) ==
  /\ Handling(n, "udp")
  /\ \/ InboundForUs(n)
     \/ \E reachable \in SUBSET (Node \ {n}) :
          \/ /\ Unicast(n)
             /\ \/ InboundDirect(n, reachable)
                \/ InboundRouted(n, reachable)
                \/ InboundDropped(n, reachable)
          \/ Inbound6(n, reachable)
  /\ UNCHANGED routeVars

-----------------------------------------------------------------------------
(* Around the daemons. *)

\* What does not belong to the node or its other devices belongs to the mesh:
\* the kernel routes it back to wolfnet0.
Kernel(n) ==
  LET arrives == Local(n, pkt.dest) \/ pkt.dest \in Broadcasts(n)
  IN /\ Handling(n, "kernel")
     /\ \/ arrives /\ End("arrived")
        \/ ~arrives /\ pkt.ttl = 0 /\ End("lost")
        \/ ~arrives /\ pkt.ttl > 0 /\ pkt' = [pkt EXCEPT !.place = "tun", !.ttl = @ - 1]
     /\ UNCHANGED routeVars

Send(n, d) ==
  /\ ~InFlight /\ ~Local(n, d)
  /\ pkt' = [dest |-> d, at |-> n, ttl |-> MaxTtl, place |-> "tun"]
  /\ UNCHANGED routeVars

Lose == pkt.place = "udp" /\ End("lost") /\ UNCHANGED routeVars

Init ==
  /\ InitRoutes
  /\ pkt = [place |-> "lost"]

Handle == \E n \in Node : Outbound(n) \/ Inbound(n) \/ Kernel(n)

Next ==
  \/ Handle
  \/ \E n \in Node, d \in Dest : Send(n, d)
  \/ Lose
  \/ NextRoutes /\ UNCHANGED pkt

Spec == Init /\ [][Next]_vars

\* The main loop handles what it reads, and its 15 s timer never stops.  A handled
\* packet changes its place, a reload that matters the tables.
Fairness == WF_pkt(Handle) /\ \A n \in Node : WF_<<exact, cidrs, cidrs6>>(Reload(n))

FairSpec == Spec /\ Fairness

-----------------------------------------------------------------------------
(* Properties. *)

\* A packet for a container, once in the mesh while all tables know its home,
\* goes there and to no other node, and no daemon drops it or writes it to the
\* wrong TUN device: a subnet around the container does not get in the way.
ContainerFound ==
  [][ /\ pkt.place = "udp" /\ pkt.dest \in Container /\ (\A n \in Node : exact[n] = home)
      => /\ pkt'.place # "dropped"
         /\ pkt'.place \in {"udp", "kernel"} => pkt'.at \in {pkt.at, home[pkt.dest]}
         /\ pkt'.place = "kernel" => pkt'.at = home[pkt.dest] ]_vars

\* Daemons that disagree about a route send a packet in circles, and no daemon
\* counts hops.  Once the files stay as they are, and can be read, every packet
\* comes to an end: arrives, is lost or dropped.
Settled == exactFile \notin {Missing, Torn} /\ cidrFile # Torn

CirclesEnd ==
  (<>[][UNCHANGED <<exactFile, cidrFile>>]_vars /\ <>[]Settled) => []<>(~InFlight)

\* Where daemon n sends a packet that it can not send to d itself.
Toward(n, d) ==
  CASE d \in Addr6 -> FindSubnetMatchV6(n, d)
    [] d \notin Addr6 /\ FindRoute(n, d) # None -> FindRoute(n, d)
    [] OTHER -> FindSubnetMatch(n, d)

Agreed(d) == \A m, n \in Node : Toward(m, d) = Toward(n, d)

\* How many steps a packet is from its end at most: back in the kernel, it may go
\* round again as often as its time to live says.
Stage(p) ==
  CASE p.place = "tun" -> 4
    [] p.place = "udp" /\ p.at \notin {p.dest, Toward(p.at, p.dest)} -> 3
    [] p.place = "udp" /\ p.at # p.dest /\ p.at = Toward(p.at, p.dest) -> 2
    [] p.place = "udp" /\ p.at = p.dest -> 1
    [] OTHER -> 0

Distance(p) == 5 * p.ttl + Stage(p)

\* There is no hop count in a mesh packet, and a daemon passes on what is not for it.
\* While the daemons agree about a destination, though, be their tables right or wrong,
\* every step brings a packet for it closer to its end: it is with three daemons at most
\* before a kernel has it, which counts its time to live down.
EveryHopCloser ==
  [][ InFlight /\ Agreed(pkt.dest) /\ pkt' # pkt /\ InFlight'
      => Distance(pkt') < Distance(pkt) ]_vars

\* What config.rs:45 and gateway.rs:3 say of a gateway: other nodes reach the
\* internet through it.  A packet for an address that is the gateway's to reach
\* is not dropped by the gateway.
GatewayPasses ==
  [][ pkt.place = "udp" /\ pkt.at \in Gateways /\ pkt.dest \in Lan[pkt.at]
      => pkt'.place # "dropped" ]_vars

=============================================================================
