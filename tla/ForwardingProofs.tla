-------------------------- MODULE ForwardingProofs ---------------------------
(***************************************************************************)
(* Theorems about Forwarding, for every width, set of nodes, files and     *)
(* tables: the types, that a packet for a container finds it, that packets *)
(* end where the tables agree, and that the most specific route wins.      *)
(***************************************************************************)
EXTENDS Forwarding, FiniteSetTheorems, NaturalSets

-----------------------------------------------------------------------------
(* The tables. *)

\* The table sorted out of a part of a file is a sequence of its entries
\* (load_subnet_routes).
LEMMA TableType ==
  ASSUME NEW file \in CidrFiles, NEW family \in {Addr, Addr6},
         NEW t \in SortedTables[Entries(file, family)]
  PROVE  t \in Seq(Cidr)
<1> DEFINE part == Entries(file, family)
<1>1. part \in Parts
  BY DEF Parts
<1>2. t \in Orders(part)
  BY <1>1 DEF SortedTables
<1>3. part \subseteq Cidr /\ part \subseteq file /\ IsFiniteSet(file)
  BY FilesAssumption DEF Entries
<1>4. IsFiniteSet(part)
  BY <1>3, FS_Subset
<1>5. Cardinality(part) \in Nat
  BY <1>4, FS_CardinalityType
<1> HIDE DEF part
<1>6. t \in [1 .. Cardinality(part) -> Cidr]
  BY <1>2, <1>3 DEF Orders
<1>7. QED
  BY <1>5, <1>6

LEMMA LoadRoutesType ==
  ASSUME RoutesTypeOK, NEW n \in Node, LoadRoutes(n)
  PROVE  exact' \in [Node -> [Container -> Maybe(Hosts)]]
  BY DEF RoutesTypeOK, LoadRoutes, Maybe

LEMMA LoadSubnetRoutesType ==
  ASSUME RoutesTypeOK, NEW n \in Node, LoadSubnetRoutes(n)
  PROVE  cidrs' \in [Node -> Seq(Cidr)] /\ cidrs6' \in [Node -> Seq(Cidr)]
<1>1. cidrs \in [Node -> Seq(Cidr)] /\ cidrs6 \in [Node -> Seq(Cidr)]
  BY DEF RoutesTypeOK
<1>2. CASE /\ cidrs' = [cidrs EXCEPT ![n] = <<>>] /\ cidrs6' = [cidrs6 EXCEPT ![n] = <<>>]
  BY <1>1, <1>2
<1>3. CASE UNCHANGED <<cidrs, cidrs6>>
  BY <1>1, <1>3
<1>4. CASE /\ cidrFile \notin {Missing, Torn}
           /\ \E t \in SortedTables[Entries(cidrFile, Addr)] : cidrs' = [cidrs EXCEPT ![n] = t]
           /\ \E t \in SortedTables[Entries(cidrFile, Addr6)] : cidrs6' = [cidrs6 EXCEPT ![n] = t]
  <2>1. cidrFile \in CidrFiles
    BY <1>4 DEF RoutesTypeOK
  <2>2. PICK t \in Seq(Cidr) : cidrs' = [cidrs EXCEPT ![n] = t]
    BY <1>4, <2>1, TableType
  <2>3. PICK t6 \in Seq(Cidr) : cidrs6' = [cidrs6 EXCEPT ![n] = t6]
    BY <1>4, <2>1, TableType
  <2>4. QED
    BY <1>1, <2>2, <2>3
<1>5. QED
  BY <1>2, <1>3, <1>4 DEF LoadSubnetRoutes

\* Reloads, restarts and what WolfStack does keep the types.
LEMMA RoutesStep ==
  ASSUME RoutesTypeOK, NextRoutes
  PROVE  RoutesTypeOK'
<1>1. ASSUME NEW n \in Node, Reload(n)
      PROVE  RoutesTypeOK'
  BY <1>1, LoadRoutesType, LoadSubnetRoutesType DEF Reload, RoutesTypeOK
<1>2. ASSUME NEW n \in Node, Restart(n)
      PROVE  RoutesTypeOK'
  <2>1. exact' \in [Node -> [Container -> Maybe(Hosts)]]
    BY <1>2 DEF Restart, RoutesTypeOK, Maybe
  <2>2. cidrs' \in [Node -> Seq(Cidr)] /\ cidrs6' \in [Node -> Seq(Cidr)]
    <3>1. CASE LoadSubnetRoutes(n)
      BY <3>1, LoadSubnetRoutesType
    <3>2. CASE cidrs' = [cidrs EXCEPT ![n] = <<>>] /\ cidrs6' = [cidrs6 EXCEPT ![n] = <<>>]
      BY <3>2 DEF RoutesTypeOK
    <3>3. QED
      BY <1>2, <3>1, <3>2 DEF Restart
  <2>3. QED
    BY <1>2, <2>1, <2>2 DEF Restart, RoutesTypeOK
<1>3. ASSUME NEW c \in Container, NEW m \in Hosts, Move(c, m)
      PROVE  RoutesTypeOK'
  BY <1>3 DEF Move, RoutesTypeOK
<1>4. CASE PublishRoutes \/ PublishSubnetRoutes
  BY <1>4 DEF PublishRoutes, PublishSubnetRoutes, RoutesTypeOK
<1>5. QED
  BY <1>1, <1>2, <1>3, <1>4 DEF NextRoutes

-----------------------------------------------------------------------------
(* The packet. *)

Flying == [dest : Dest, at : Node, ttl : 0 .. MaxTtl, place : {"tun", "udp", "kernel"}]

\* A packet that is somewhere is one.
LEMMA FlyingPacket ==
  ASSUME TypeOK, pkt.place \in {"tun", "udp", "kernel"}
  PROVE  pkt \in Flying
  BY DEF TypeOK, Packet, Flying

\* What a daemon may do with a packet it has.
LEMMA Handled ==
  ASSUME pkt \in Flying,
         \/ \E m \in Node : SendTo(m)
         \/ WriteTun
         \/ \E how \in {"arrived", "lost", "dropped"} : End(how)
  PROVE  pkt' \in Packet
<1>1. ASSUME NEW m \in Node, SendTo(m) PROVE pkt' \in Packet
  <2>1. PICK p \in Flying : p = [pkt EXCEPT !.at = m]
    BY DEF Flying
  <2>2. [p EXCEPT !.place = "udp"] \in Flying
    BY DEF Flying
  <2>3. pkt' \in Flying
    BY <1>1, <2>1, <2>2, Zenon DEF SendTo
  <2>4. QED
    BY <2>3 DEF Flying, Packet
<1>2. CASE WriteTun
  BY <1>2 DEF WriteTun, Flying, Packet
<1>3. CASE \E how \in {"arrived", "lost", "dropped"} : End(how)
  BY <1>3 DEF End, Packet
<1>4. QED
  BY <1>1, <1>2, <1>3

\* A packet tried with a peer is sent there or lost (encrypt_and_send).
LEMMA Tried ==
  ASSUME NEW m, NEW reachable \in SUBSET Node, pkt \in Flying, TrySend(m, reachable)
  PROVE  pkt' \in Packet
  BY Handled DEF TrySend

LEMMA OutboundType ==
  ASSUME TypeOK, NEW n \in Node, Outbound(n)
  PROVE  pkt' \in Packet
<1>1. pkt \in Flying
  BY FlyingPacket DEF Outbound, Handling
<1>2. PICK reachable \in SUBSET (Node \ {n}) :
        \/ OutboundBroadcast(n, reachable)
        \/ OutboundRouted(n, reachable)
        \/ OutboundRelayed(n, reachable)
        \/ OutboundGateway(n, reachable)
        \/ OutboundDropped(n, reachable)
        \/ Outbound6(n, reachable)
  BY DEF Outbound
<1>3. CASE OutboundRouted(n, reachable)
  <2> DEFINE list == Candidates(n)
  <2>1. DOMAIN list = 1 .. 3
    BY DEF Candidates
  <2>2. \E i \in 1 .. 3 : list[i] \in reachable /\ \A j \in 1 .. i - 1 : list[j] \notin reachable
    <3>1. PICK i \in 1 .. 3 : list[i] \in reachable
      BY <1>3, <2>1 DEF OutboundRouted, NoneOf
    <3>2. CASE list[1] \in reachable
      BY <3>2
    <3>3. CASE list[1] \notin reachable /\ list[2] \in reachable
      BY <3>3
    <3>4. CASE list[1] \notin reachable /\ list[2] \notin reachable
      <4>1. list[3] \in reachable
        BY <3>1, <3>4
      <4>2. \A j \in 1 .. 3 - 1 : list[j] \notin reachable
        BY <3>4
      <4>3. QED
        BY <4>1, <4>2
    <3>5. QED
      BY <3>2, <3>3, <3>4
  <2> HIDE DEF list
  <2>3. FirstOf(list, reachable) \in reachable
    BY <2>1, <2>2 DEF FirstOf
  <2>4. QED
    BY <1>1, <1>3, <2>3, Handled DEF OutboundRouted, list
<1>4. CASE OutboundBroadcast(n, reachable) \/ OutboundGateway(n, reachable)
           \/ OutboundDropped(n, reachable)
  BY <1>1, <1>4, Handled DEF OutboundBroadcast, OutboundGateway, OutboundDropped
<1>5. CASE OutboundRelayed(n, reachable) \/ Outbound6(n, reachable)
  BY <1>1, <1>5, Handled, Tried DEF OutboundRelayed, Outbound6
<1>6. QED
  BY <1>2, <1>3, <1>4, <1>5

LEMMA InboundType ==
  ASSUME TypeOK, NEW n \in Node, Inbound(n)
  PROVE  pkt' \in Packet
<1>1. pkt \in Flying
  BY FlyingPacket DEF Inbound, Handling
<1>2. CASE InboundForUs(n)
  BY <1>1, <1>2, Handled DEF InboundForUs
<1>3. ASSUME NEW m, NEW reachable \in SUBSET (Node \ {n}), Via(n, m, reachable)
      PROVE  pkt' \in Packet
  BY <1>1, <1>3, Handled, Tried DEF Via
<1>4. ASSUME NEW reachable \in SUBSET (Node \ {n}),
             InboundDirect(n, reachable) \/ InboundDropped(n, reachable)
      PROVE  pkt' \in Packet
  BY <1>1, <1>4, Handled DEF InboundDirect, InboundDropped
<1>5. ASSUME NEW reachable \in SUBSET (Node \ {n}),
             InboundRouted(n, reachable) \/ Inbound6(n, reachable)
      PROVE  pkt' \in Packet
  BY <1>1, <1>3, <1>5, Handled DEF InboundRouted, Inbound6
<1>6. QED
  BY <1>2, <1>4, <1>5 DEF Inbound

LEMMA KernelType ==
  ASSUME TypeOK, NEW n \in Node, Kernel(n)
  PROVE  pkt' \in Packet
<1>1. pkt \in Flying
  BY FlyingPacket DEF Kernel, Handling
<1>2. CASE End("arrived") \/ End("lost")
  BY <1>1, <1>2, Handled
<1>3. CASE pkt.ttl > 0 /\ pkt' = [pkt EXCEPT !.place = "tun", !.ttl = @ - 1]
  <2>1. pkt.ttl - 1 \in 0 .. MaxTtl
    BY <1>1, <1>3, TtlAssumption DEF Flying
  <2>2. QED
    BY <1>1, <1>3, <2>1 DEF Flying, Packet
<1>4. QED
  BY <1>2, <1>3 DEF Kernel

LEMMA ForwardingStep == TypeOK /\ [Next]_vars => TypeOK'
<1> SUFFICES ASSUME TypeOK, [Next]_vars PROVE TypeOK'
  OBVIOUS
<1>1. ASSUME UNCHANGED routeVars PROVE RoutesTypeOK'
  BY <1>1 DEF TypeOK, RoutesTypeOK, routeVars
<1>2. ASSUME NEW n \in Node, Outbound(n) \/ Inbound(n) \/ Kernel(n)
      PROVE  TypeOK'
  <2>1. UNCHANGED routeVars
    BY <1>2 DEF Outbound, Inbound, Kernel
  <2>2. QED
    BY <1>1, <1>2, <2>1, OutboundType, InboundType, KernelType DEF TypeOK
<1>3. ASSUME NEW n \in Node, NEW d \in Dest, Send(n, d)
      PROVE  TypeOK'
  <2>1. pkt' \in Packet
    BY <1>3, TtlAssumption DEF Send, Packet
  <2>2. QED
    BY <1>1, <1>3, <2>1 DEF Send, TypeOK
<1>4. CASE Lose
  BY <1>1, <1>4, FlyingPacket, Handled DEF Lose, TypeOK
<1>5. CASE NextRoutes /\ UNCHANGED pkt
  BY <1>5, RoutesStep DEF TypeOK
<1>6. CASE UNCHANGED vars
  BY <1>1, <1>6 DEF vars, TypeOK
<1>7. QED
  BY <1>2, <1>3, <1>4, <1>5, <1>6 DEF Next, Handle

LEMMA ForwardingInit == Init => TypeOK
  BY DEF Init, InitRoutes, TypeOK, RoutesTypeOK, Packet, Maybe

\* Files, tables and the packet keep their types, whatever is in the files: what is
\* looked up is a node or nobody (load_subnet_routes, find_subnet_match).
THEOREM ForwardingTypeCorrect == Spec => []TypeOK
  BY ForwardingInit, ForwardingStep, PTL DEF Spec

-----------------------------------------------------------------------------
(* Containers. *)

\* No container has the last address of a node's /24, or 255.255.255.255.
ContainersUnicast == \A n \in Node : Container \cap Broadcasts(n) = {}

\* What ContainerFound says of a step.
FoundNext ==
  /\ pkt'.place # "dropped"
  /\ pkt'.place \in {"udp", "kernel"} => pkt'.at \in {pkt.at, home[pkt.dest]}
  /\ pkt'.place = "kernel" => pkt'.at = home[pkt.dest]

LEMMA InboundFinds ==
  ASSUME ContainersUnicast, TypeOK, NEW n \in Node, Inbound(n),
         pkt.dest \in Container, \A m \in Node : exact[m] = home
  PROVE  FoundNext
<1>1. pkt \in Flying /\ pkt.at = n
  BY FlyingPacket DEF Inbound, Handling
<1>2. pkt.dest \in Addr /\ pkt.dest \notin Node /\ pkt.dest \notin Addr6
  BY WidthAssumption, NodeAssumption DEF Addr, Addr6
<1>3. FindRoute(n, pkt.dest) = home[pkt.dest] /\ home[pkt.dest] \in Node /\ home[pkt.dest] # None
  <2>1. home[pkt.dest] \in Hosts
    BY DEF TypeOK, RoutesTypeOK
  <2>2. QED
    BY <2>1, HostsAssumption, NodeAssumption, NoneAssumption DEF FindRoute
<1>4. PICK reachable \in SUBSET (Node \ {n}) :
        InboundRouted(n, reachable) \/ InboundDropped(n, reachable)
  <2>1. ~InboundForUs(n)
    BY <1>2 DEF InboundForUs, ContainersUnicast
  <2>2. \A reachable \in SUBSET (Node \ {n}) :
          ~InboundDirect(n, reachable) /\ ~Inbound6(n, reachable)
    BY <1>2 DEF InboundDirect, Inbound6
  <2>3. QED
    BY <2>1, <2>2 DEF Inbound
<1>5. RoutesOf(n)[1] = home[pkt.dest]
  BY <1>3 DEF RoutesOf
<1>6. Via(n, home[pkt.dest], reachable)
  BY <1>3, <1>4, <1>5 DEF InboundRouted, InboundDropped
<1>7. CASE home[pkt.dest] = n /\ WriteTun
  BY <1>1, <1>7 DEF WriteTun, Flying, FoundNext
<1>8. CASE SendTo(home[pkt.dest])
  <2>1. pkt'.at = home[pkt.dest] /\ pkt'.place = "udp"
    BY <1>1, <1>8 DEF SendTo, Flying
  <2>2. QED
    BY <2>1 DEF FoundNext
<1>9. CASE End("lost")
  BY <1>9 DEF End, FoundNext
<1>10. QED
  BY <1>6, <1>7, <1>8, <1>9 DEF Via, TrySend

\* A packet for a container, in the mesh while all tables know its home, goes there
\* and to no other node, for any subnets around the container (the order of the
\* lookups in main.rs), if the container's address is no broadcast address.
THEOREM ContainerAlwaysFound == ASSUME ContainersUnicast PROVE Spec => ContainerFound
<1>1. TypeOK /\ [Next]_vars =>
        [ /\ pkt.place = "udp" /\ pkt.dest \in Container /\ (\A n \in Node : exact[n] = home)
          => /\ pkt'.place # "dropped"
             /\ pkt'.place \in {"udp", "kernel"} => pkt'.at \in {pkt.at, home[pkt.dest]}
             /\ pkt'.place = "kernel" => pkt'.at = home[pkt.dest] ]_vars
  <2> SUFFICES ASSUME TypeOK, Next, pkt.place = "udp", pkt.dest \in Container,
                      \A n \in Node : exact[n] = home
               PROVE  FoundNext
    BY DEF FoundNext
  <2>1. CASE \E n \in Node : Inbound(n)
    BY <2>1, InboundFinds
  <2>2. ASSUME NEW n \in Node PROVE ~Outbound(n) /\ ~Kernel(n)
    BY DEF Outbound, Kernel, Handling
  <2>3. ASSUME NEW n \in Node, NEW d \in Dest PROVE ~Send(n, d)
    BY DEF Send, InFlight
  <2>4. CASE Lose
    BY <2>4 DEF Lose, End, FoundNext
  <2>5. CASE UNCHANGED pkt
    BY <2>5 DEF FoundNext
  <2>6. QED
    BY <2>1, <2>2, <2>3, <2>4, <2>5 DEF Next, Handle
<1>2. QED
  BY <1>1, ForwardingTypeCorrect, PTL DEF Spec, ContainerFound

-----------------------------------------------------------------------------
(* Longest-prefix match. *)

\* Blocks have a positive size: there are 2^k subsets of a set of k.
LEMMA PowerOfTwo ==
  ASSUME NEW k \in Nat
  PROVE  2^k \in Nat \ {0}
<1>. DEFINE S == 1 .. k
<1>1. IsFiniteSet(S) /\ Cardinality(S) = k
  BY FS_Interval
<1>. HIDE DEF S
<1>2. IsFiniteSet(SUBSET S) /\ Cardinality(SUBSET S) = 2^k
  BY <1>1, FS_SUBSET
<1>3. SUBSET S # {}
  BY Zenon
<1>4. QED
  BY <1>2, <1>3, FS_CardinalityType, FS_EmptySet

\* Division with remainder.
LEMMA Division ==
  ASSUME NEW x \in Nat, NEW size \in Nat \ {0}
  PROVE  /\ x = size * (x \div size) + (x % size)
         /\ x % size \in 0 .. size - 1 /\ x \div size \in Nat
  OBVIOUS

\* Two addresses are in one block if they are equal beyond its size.
LEMMA SameBlock ==
  ASSUME NEW x \in Nat, NEW y \in Nat, NEW size \in Nat \ {0}
  PROVE  x - (x % size) = y - (y % size)
           <=> x \in size * (y \div size) .. size * (y \div size) + size - 1
<1>. DEFINE q == x \div size
            r == y \div size
<1>1. x - (x % size) = size * q /\ y - (y % size) = size * r /\ q \in Nat /\ r \in Nat
  BY Division
<1>2. x \in size * q .. size * q + size - 1
  BY Division
<1>3. ASSUME x \in size * r .. size * r + size - 1
      PROVE  q = r
  <2>1. ASSUME q < r PROVE FALSE
    <3>1. size * q + size <= size * r
      BY <1>1, <2>1
    <3>2. QED
      BY <1>1, <1>2, <1>3, <3>1
  <2>2. ASSUME r < q PROVE FALSE
    <3>1. size * r + size <= size * q
      BY <1>1, <2>2
    <3>2. QED
      BY <1>1, <1>2, <1>3, <3>1
  <2>3. QED
    BY <1>1, <2>1, <2>2
<1>4. size * q = size * r => q = r
  BY <1>1
<1>5. QED
  BY <1>1, <1>2, <1>3, <1>4

\* A mask tells the addresses of a CIDR from the others.
LEMMA MatchesBlock ==
  ASSUME NEW e \in Cidr, NEW d \in Nat
  PROVE  Matches(e, d) <=> d \in Block(e)
<1>1. e.net \in Nat /\ Width - e.len \in Nat
  <2>1. 2^Width \in Nat /\ e.net \in Addr \cup Addr6 /\ e.len \in 0 .. Width
    BY PowerOfTwo, WidthAssumption DEF Cidr
  <2>2. QED
    BY <2>1, WidthAssumption DEF Addr, Addr6
<1>2. 2^(Width - e.len) \in Nat \ {0}
  BY <1>1, PowerOfTwo
<1>3. QED
  BY <1>1, <1>2, SameBlock DEF Matches, Masked, Block

Sorted(t) == \A i, j \in DOMAIN t : i < j => t[j].len <= t[i].len

\* The first hit of a sorted table is a most specific one.
LEMMA FirstIsMostSpecific ==
  ASSUME NEW table \in Seq(Cidr), Sorted(table), NEW d \in Nat
  PROVE  Right(table, d, FirstMatch(table, d))
<1>. DEFINE hits == {i \in DOMAIN table : Matches(table[i], d)}
<1>1. hits = {i \in DOMAIN table : d \in Block(table[i])}
  BY MatchesBlock
<1>2. CASE hits = {}
  BY <1>1, <1>2 DEF Right, FirstMatch
<1>3. CASE hits # {}
  <2>. DEFINE first == CHOOSE i \in hits : \A j \in hits : i <= j
  <2>1. first \in hits /\ \A j \in hits : first <= j
    <3>1. hits \subseteq Nat
      OBVIOUS
    <3>. HIDE DEF hits
    <3>2. \E i \in hits : \A j \in hits : i <= j
      BY <1>3, <3>1, LeastNatural
    <3>3. QED
      BY <3>2
  <2>2. FirstMatch(table, d) = table[first].gw
    BY <1>3 DEF FirstMatch
  <2>. HIDE DEF first
  <2>3. ASSUME NEW j \in hits
        PROVE  table[j].len <= table[first].len
    <3>1. first < j \/ first = j
      BY <2>1
    <3>2. table[j] \in Cidr /\ table[j].len \in Nat
      <4>1. j \in DOMAIN table
        OBVIOUS
      <4>. HIDE DEF hits
      <4>2. table[j] \in Cidr
        BY <4>1
      <4>3. table[j].len \in 0 .. Width
        BY <4>2 DEF Cidr
      <4>4. QED
        BY <4>2, <4>3, WidthAssumption
    <3>3. QED
      BY <2>1, <3>1, <3>2 DEF Sorted
  <2>4. QED
    BY <1>1, <1>3, <2>1, <2>2, <2>3 DEF Right
<1>4. QED
  BY <1>2, <1>3

TablesSorted == \A n \in Node : Sorted(cidrs[n]) /\ Sorted(cidrs6[n])

LEMMA TableSorted ==
  ASSUME NEW file \in CidrFiles, NEW family \in {Addr, Addr6},
         NEW t \in SortedTables[Entries(file, family)]
  PROVE  Sorted(t)
<1>1. Entries(file, family) \in Parts
  BY DEF Parts
<1>2. QED
  BY <1>1 DEF SortedTables, Sorted

\* Every load sorts.
LEMMA LoadSorts ==
  ASSUME RoutesTypeOK, TablesSorted, NEW n \in Node,
         \/ LoadSubnetRoutes(n)
         \/ cidrs' = [cidrs EXCEPT ![n] = <<>>] /\ cidrs6' = [cidrs6 EXCEPT ![n] = <<>>]
  PROVE  TablesSorted'
<1>1. Sorted(<<>>)
  BY DEF Sorted
<1>2. /\ cidrs \in [Node -> Seq(Cidr)] /\ cidrs6 \in [Node -> Seq(Cidr)]
      /\ cidrFile \in CidrFiles \cup {Missing, Torn}
  BY DEF RoutesTypeOK
<1>3. CASE cidrs' = [cidrs EXCEPT ![n] = <<>>] /\ cidrs6' = [cidrs6 EXCEPT ![n] = <<>>]
  BY <1>1, <1>2, <1>3 DEF TablesSorted
<1>4. CASE UNCHANGED <<cidrs, cidrs6>>
  BY <1>4 DEF TablesSorted
<1>5. CASE /\ cidrFile \notin {Missing, Torn}
           /\ \E t \in SortedTables[Entries(cidrFile, Addr)] : cidrs' = [cidrs EXCEPT ![n] = t]
           /\ \E t \in SortedTables[Entries(cidrFile, Addr6)] : cidrs6' = [cidrs6 EXCEPT ![n] = t]
  <2>1. PICK t : Sorted(t) /\ cidrs' = [cidrs EXCEPT ![n] = t]
    BY <1>2, <1>5, TableSorted
  <2>2. PICK t6 : Sorted(t6) /\ cidrs6' = [cidrs6 EXCEPT ![n] = t6]
    BY <1>2, <1>5, TableSorted
  <2>3. QED
    BY <1>2, <2>1, <2>2 DEF TablesSorted
<1>6. QED
  BY <1>3, <1>4, <1>5 DEF LoadSubnetRoutes

LEMMA SortedStep == TypeOK /\ TablesSorted /\ [Next]_vars => TablesSorted'
<1> SUFFICES ASSUME TypeOK, TablesSorted, [Next]_vars PROVE TablesSorted'
  OBVIOUS
<1>1. ASSUME UNCHANGED <<cidrs, cidrs6>> PROVE TablesSorted'
  BY <1>1 DEF TablesSorted
<1>2. CASE Handle \/ (\E n \in Node, d \in Dest : Send(n, d)) \/ Lose \/ UNCHANGED vars
  BY <1>1, <1>2 DEF Handle, Outbound, Inbound, Kernel, Send, Lose, vars, routeVars
<1>3. CASE NextRoutes
  <2>1. ASSUME NEW n \in Node, Reload(n) \/ Restart(n)
        PROVE  TablesSorted'
    BY <2>1, LoadSorts DEF Reload, Restart, TypeOK
  <2>2. ASSUME NEW c \in Container, NEW m \in Hosts, Move(c, m)
        PROVE  TablesSorted'
    BY <1>1, <2>2 DEF Move
  <2>3. CASE PublishRoutes \/ PublishSubnetRoutes
    BY <1>1, <2>3 DEF PublishRoutes, PublishSubnetRoutes
  <2>4. QED
    BY <1>3, <2>1, <2>2, <2>3 DEF NextRoutes
<1>4. QED
  BY <1>2, <1>3 DEF Next

\* For addresses of any width and any contents of the files, the first hit of a table
\* is the gateway of a most specific CIDR around the address, found with masks; and
\* there is a hit where there is such a CIDR (find_subnet_match, load_subnet_routes).
THEOREM AlwaysMostSpecific == Spec => []MostSpecific
<1>1. Init => TablesSorted
  BY DEF Init, InitRoutes, TablesSorted, Sorted
<1>2. TypeOK /\ TablesSorted => MostSpecific
  <2>1. \A d \in Addr \cup Addr6 : d \in Nat
    BY PowerOfTwo, WidthAssumption DEF Addr, Addr6
  <2>2. QED
    BY <2>1, FirstIsMostSpecific
    DEF MostSpecific, TablesSorted, FindSubnetMatch, FindSubnetMatchV6, TypeOK, RoutesTypeOK
<1>3. QED
  BY <1>1, <1>2, SortedStep, ForwardingTypeCorrect, PTL DEF Spec

-----------------------------------------------------------------------------
(* Hops. *)

LEMMA StageOf ==
  ASSUME NEW p
  PROVE  /\ p.place = "tun" => Stage(p) = 4
         /\ p.place = "kernel" => Stage(p) = 0
         /\ p.place = "udp" /\ p.at = p.dest => Stage(p) = 1
         /\ p.place = "udp" /\ p.at # p.dest /\ p.at = Toward(p.at, p.dest) => Stage(p) = 2
         /\ p.place = "udp" /\ p.at \notin {p.dest, Toward(p.at, p.dest)} => Stage(p) = 3
  BY DEF Stage

LEMMA StageType ==
  ASSUME NEW p, p.place \in {"tun", "udp", "kernel"}
  PROVE  Stage(p) \in 0 .. 4
  BY StageOf

\* A step that does not go round a kernel is closer if its stage is.
LEMMA CloserByStage ==
  ASSUME pkt \in Flying, pkt'.ttl = pkt.ttl, pkt'.place \in {"tun", "udp", "kernel"},
         Stage(pkt') < Stage(pkt)
  PROVE  Distance(pkt') < Distance(pkt)
<1>1. Stage(pkt) \in Nat /\ Stage(pkt') \in Nat
  BY StageType DEF Flying
<1>2. pkt.ttl \in Nat
  BY TtlAssumption DEF Flying
<1>3. QED
  BY <1>1, <1>2 DEF Distance

\* A packet written to a TUN device is closer to its end.
LEMMA WrittenCloser ==
  ASSUME pkt \in Flying, pkt.place = "udp", WriteTun
  PROVE  Distance(pkt') < Distance(pkt)
<1>1. pkt'.place = "kernel" /\ pkt'.ttl = pkt.ttl
  BY DEF WriteTun, Flying
<1>2. Stage(pkt') = 0 /\ Stage(pkt) \in 1 .. 3
  BY <1>1, StageOf
<1>3. QED
  BY <1>1, <1>2, CloserByStage

\* What a packet sent to a daemon is like.
LEMMA SentOn ==
  ASSUME pkt \in Flying, NEW m, SendTo(m)
  PROVE  /\ pkt'.place = "udp" /\ pkt'.at = m
         /\ pkt'.dest = pkt.dest /\ pkt'.ttl = pkt.ttl
  BY DEF SendTo, Flying

\* A daemon that is neither the destination nor where all send what is for it, sends
\* there; one that is, writes to its TUN device.
LEMMA ViaCloser ==
  ASSUME pkt \in Flying, NEW n \in Node, pkt.place = "udp", pkt.at = n, pkt.dest # n,
         NEW reachable \in SUBSET (Node \ {n}), Agreed(pkt.dest),
         Via(n, Toward(n, pkt.dest), reachable), InFlight'
  PROVE  Distance(pkt') < Distance(pkt)
<1> DEFINE m == Toward(n, pkt.dest)
<1>1. CASE m = n
  BY <1>1, WrittenCloser DEF Via
<1>2. CASE m # n
  <2> HIDE DEF m
  <2>1. m \in reachable /\ SendTo(m)
    BY <1>2 DEF Via, TrySend, End, InFlight, m
  <2>2. pkt'.place = "udp" /\ pkt'.at = m /\ pkt'.dest = pkt.dest /\ pkt'.ttl = pkt.ttl
    BY <2>1, SentOn
  <2>3. Toward(m, pkt.dest) = m
    BY <2>1 DEF Agreed, m
  <2>4. Stage(pkt') \in {1, 2}
    BY <2>2, <2>3, StageOf
  <2>5. Stage(pkt) = 3
    BY <1>2, StageOf DEF m
  <2>6. QED
    BY <2>2, <2>4, <2>5, CloserByStage
<1>3. QED
  BY <1>1, <1>2

LEMMA OutboundCloser ==
  ASSUME TypeOK, NEW n \in Node, Outbound(n), InFlight'
  PROVE  Distance(pkt') < Distance(pkt)
<1>1. pkt \in Flying /\ pkt.place = "tun"
  BY FlyingPacket DEF Outbound, Handling
<1>2. PICK m : SendTo(m)
  BY DEF Outbound, OutboundBroadcast, OutboundRouted, OutboundRelayed, OutboundGateway,
         OutboundDropped, Outbound6, TrySend, End, InFlight
<1>3. pkt'.place = "udp" /\ pkt'.ttl = pkt.ttl
  BY <1>1, <1>2, SentOn
<1>4. Stage(pkt) = 4 /\ Stage(pkt') \in 1 .. 3
  BY <1>1, <1>3, StageOf
<1>5. QED
  BY <1>1, <1>3, <1>4, CloserByStage

LEMMA InboundCloser ==
  ASSUME TypeOK, NEW n \in Node, Inbound(n), Agreed(pkt.dest), InFlight'
  PROVE  Distance(pkt') < Distance(pkt)
<1>1. pkt \in Flying /\ pkt.place = "udp" /\ pkt.at = n
  BY FlyingPacket DEF Inbound, Handling
<1>2. CASE InboundForUs(n)
  BY <1>1, <1>2, WrittenCloser DEF InboundForUs
<1>3. ASSUME NEW reachable \in SUBSET (Node \ {n}), InboundDirect(n, reachable)
      PROVE  Distance(pkt') < Distance(pkt)
  <2>1. pkt'.place = "udp" /\ pkt'.at = pkt'.dest /\ pkt'.ttl = pkt.ttl
    BY <1>1, <1>3, SentOn DEF InboundDirect
  <2>2. Stage(pkt') = 1 /\ Stage(pkt) \in {2, 3}
    BY <1>1, <1>3, <2>1, StageOf DEF InboundDirect
  <2>3. QED
    BY <1>1, <2>1, <2>2, CloserByStage
<1>4. ASSUME NEW reachable \in SUBSET (Node \ {n}), Unicast(n), InboundRouted(n, reachable)
      PROVE  Distance(pkt') < Distance(pkt)
  <2>1. pkt.dest \notin Addr6 /\ pkt.dest # n
    <3>1. 2^Width \in Nat
      BY PowerOfTwo, WidthAssumption
    <3>2. QED
      BY <1>4, <3>1 DEF Unicast, InboundRouted, Addr, Addr6
  <2>2. Via(n, Toward(n, pkt.dest), reachable)
    BY <1>4, <2>1 DEF InboundRouted, RoutesOf, Toward
  <2>3. QED
    BY <1>1, <2>1, <2>2, ViaCloser
<1>5. ASSUME NEW reachable \in SUBSET (Node \ {n}), InboundDropped(n, reachable)
      PROVE  FALSE
  BY <1>5 DEF InboundDropped, End, InFlight
<1>6. ASSUME NEW reachable \in SUBSET (Node \ {n}), Inbound6(n, reachable)
      PROVE  Distance(pkt') < Distance(pkt)
  <2>1. Via(n, Toward(n, pkt.dest), reachable)
    BY <1>6 DEF Inbound6, End, InFlight, Toward
  <2>2. pkt.dest # n
    <3>1. 2^Width \in Nat
      BY PowerOfTwo, WidthAssumption
    <3>2. QED
      BY <1>6, <3>1, NodeAssumption DEF Inbound6, Addr, Addr6
  <2>3. QED
    BY <1>1, <2>1, <2>2, ViaCloser
<1>7. QED
  BY <1>2, <1>3, <1>4, <1>5, <1>6 DEF Inbound

LEMMA KernelCloser ==
  ASSUME TypeOK, NEW n \in Node, Kernel(n), InFlight'
  PROVE  Distance(pkt') < Distance(pkt)
<1>1. pkt \in Flying /\ pkt.place = "kernel"
  BY FlyingPacket DEF Kernel, Handling
<1>2. pkt.ttl > 0 /\ pkt' = [pkt EXCEPT !.place = "tun", !.ttl = @ - 1]
  BY DEF Kernel, End, InFlight
<1>3. pkt'.place = "tun" /\ pkt'.ttl = pkt.ttl - 1
  BY <1>1, <1>2 DEF Flying
<1>4. Stage(pkt) = 0 /\ Stage(pkt') = 4
  BY <1>1, <1>3, StageOf
<1>5. pkt.ttl \in Nat
  BY <1>1, TtlAssumption DEF Flying
<1>6. QED
  BY <1>3, <1>4, <1>5 DEF Distance

\* For any tables, any sets of peers that can be sent to and any time to live: while the
\* daemons agree about a destination, every step of a packet for it is a step towards
\* its end, at most 5 * MaxTtl + 4 from where it was sent (the branches of main.rs that
\* send on what they receive).
THEOREM EveryHopAlwaysCloser == Spec => EveryHopCloser
<1>1. TypeOK /\ [Next]_vars =>
        [ InFlight /\ Agreed(pkt.dest) /\ pkt' # pkt /\ InFlight'
          => Distance(pkt') < Distance(pkt) ]_vars
  <2> SUFFICES ASSUME TypeOK, Next, InFlight, Agreed(pkt.dest), pkt' # pkt, InFlight'
               PROVE  Distance(pkt') < Distance(pkt)
    OBVIOUS
  <2>1. ASSUME NEW n \in Node, NEW d \in Dest PROVE ~Send(n, d)
    BY DEF Send
  <2>2. ~Lose
    BY DEF Lose, End, InFlight
  <2>3. PICK n \in Node : Outbound(n) \/ Inbound(n) \/ Kernel(n)
    BY <2>1, <2>2 DEF Next, Handle
  <2>4. QED
    BY <2>3, OutboundCloser, InboundCloser, KernelCloser
<1>2. QED
  BY <1>1, ForwardingTypeCorrect, PTL DEF Spec, EveryHopCloser

=============================================================================
