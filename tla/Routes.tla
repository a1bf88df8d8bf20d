-------------------------------- MODULE Routes --------------------------------
(***************************************************************************)
(* The route tables of the daemons (src/peer.rs) and the two files they    *)
(* load them from, /var/run/wolfnet/routes.json and subnet-routes.json,    *)
(* written on every node by WolfStack, which is not part of this           *)
(* repository.  A daemon reloads both every 15 s and on SIGHUP, each in    *)
(* its own time: the tables lag behind the files, and differ meanwhile.    *)
(***************************************************************************)
EXTENDS Naturals, FiniteSets, Sequences

CONSTANTS
  Width,      \* bits of an address: 32, or 128
  Node,       \* the daemons, by WolfNet address
  Container,  \* addresses of containers and VMs
  Hosts,      \* nodes that run them
  CidrFiles,  \* what WolfStack may write into subnet-routes.json
  None, Missing, Torn  \* no node; no such file; a file that does not parse

\* An IPv6 address has one more bit in front, which is 1: no mask takes it away, and
\* no address of one family matches a CIDR of the other.
Addr == 0 .. 2^Width - 1
Addr6 == 2^Width .. 2^(Width + 1) - 1
Maybe(S) == S \cup {None}
Cidr == [net : Addr \cup Addr6, len : 0 .. Width, gw : Node]

ASSUME WidthAssumption == Width \in Nat
ASSUME NodeAssumption == Node \cup Container \subseteq Addr /\ Node \cap Container = {}
ASSUME HostsAssumption == Hosts \subseteq Node
ASSUME NoneAssumption == None \notin Addr \cup Addr6
ASSUME FilesAssumption == \A f \in CidrFiles : f \subseteq Cidr /\ IsFiniteSet(f)
ASSUME FileStates == {Missing, Torn} \cap (CidrFiles \cup [Container -> Hosts]) = {}

VARIABLES
  home,       \* where each container runs
  exactFile,  \* routes.json
  cidrFile,   \* subnet-routes.json
  exact,      \* subnet_routes of each daemon
  cidrs,      \* subnet_routes_cidrs of each daemon
  cidrs6      \* subnet_routes_cidrs_v6 of each daemon

routeVars == <<home, exactFile, cidrFile, exact, cidrs, cidrs6>>

RoutesTypeOK ==
  /\ home \in [Container -> Hosts]
  /\ exactFile \in [Container -> Hosts] \cup {Missing, Torn}
  /\ cidrFile \in CidrFiles \cup {Missing, Torn}
  /\ exact \in [Node -> [Container -> Maybe(Hosts)]]
  /\ cidrs \in [Node -> Seq(Cidr)]
  /\ cidrs6 \in [Node -> Seq(Cidr)]

-----------------------------------------------------------------------------
(* Longest-prefix match. *)

\* x & mask, the mask being Width bits of which the first len are set.
Masked(x, len) == x - (x % 2^(Width - len))

Matches(e, d) == Masked(d, e.len) = Masked(e.net, e.len)

FirstMatch(table, d) ==
  LET hits == {i \in DOMAIN table : Matches(table[i], d)} IN
  IF hits = {} THEN None
  ELSE table[CHOOSE i \in hits : \A j \in hits : i <= j].gw

FindSubnetMatch(n, d) == FirstMatch(cidrs[n], d)
FindSubnetMatchV6(n, d) == FirstMatch(cidrs6[n], d)

FindRoute(n, d) == IF d \in Container THEN exact[n][d] ELSE None

-----------------------------------------------------------------------------
(* Loading. *)

Orders(S) == {t \in [1 .. Cardinality(S) -> S] : \A e \in S : \E i \in DOMAIN t : t[i] = e}

Entries(file, family) == {e \in file : e.net \in family}
Parts == {Entries(f, family) : f \in CidrFiles, family \in {Addr, Addr6}}

\* What if a table stayed in the order of the hash map.
UnsortedTables == [part \in Parts |-> Orders(part)]

\* The entries come out of a hash map: those of one length in any order.
SortedTables ==
  [part \in Parts |->
     {t \in Orders(part) : \A i, j \in DOMAIN t : i < j => t[j].len <= t[i].len}]

\* What if only a missing file were told from one that holds routes.
LoadUnparsed(n) ==
  exact' = IF exactFile = Missing THEN exact ELSE [exact EXCEPT ![n] = exactFile]

\* load_routes: a file that is not there, or not JSON, leaves the table alone.
LoadRoutes(n) ==
  exact' = IF exactFile \in {Missing, Torn} THEN exact
           ELSE [exact EXCEPT ![n] = exactFile]

LoadSubnetRoutes(n) ==
  \/ /\ cidrFile = Missing
     /\ cidrs' = [cidrs EXCEPT ![n] = <<>>] /\ cidrs6' = [cidrs6 EXCEPT ![n] = <<>>]
  \/ cidrFile = Torn /\ UNCHANGED <<cidrs, cidrs6>>
  \/ /\ cidrFile \notin {Missing, Torn}
     /\ \E t \in SortedTables[Entries(cidrFile, Addr)] : cidrs' = [cidrs EXCEPT ![n] = t]
     /\ \E t \in SortedTables[Entries(cidrFile, Addr6)] : cidrs6' = [cidrs6 EXCEPT ![n] = t]

\* The 15 s timer, and the end of a SIGHUP reload.
Reload(n) ==
  /\ LoadRoutes(n) /\ LoadSubnetRoutes(n)
  /\ UNCHANGED <<home, exactFile, cidrFile>>

\* A daemon begins with empty tables and loads the files once.
Restart(n) ==
  /\ exact' = [exact EXCEPT ![n] = IF exactFile \in {Missing, Torn}
                                   THEN [c \in Container |-> None] ELSE exactFile]
  /\ IF cidrFile \in {Missing, Torn}
     THEN cidrs' = [cidrs EXCEPT ![n] = <<>>] /\ cidrs6' = [cidrs6 EXCEPT ![n] = <<>>]
     ELSE LoadSubnetRoutes(n)
  /\ UNCHANGED <<home, exactFile, cidrFile>>

-----------------------------------------------------------------------------
(* WolfStack. *)

Move(c, m) ==
  /\ home' = [home EXCEPT ![c] = m]
  /\ UNCHANGED <<exactFile, cidrFile, exact, cidrs, cidrs6>>

PublishRoutes ==
  /\ exactFile' \in {home, Missing, Torn}
  /\ UNCHANGED <<home, cidrFile, exact, cidrs, cidrs6>>

PublishSubnetRoutes ==
  /\ cidrFile' \in CidrFiles \cup {Missing, Torn}
  /\ UNCHANGED <<home, exactFile, exact, cidrs, cidrs6>>

InitRoutes ==
  /\ home \in [Container -> Hosts]
  /\ exactFile = Missing /\ cidrFile = Missing
  /\ exact = [n \in Node |-> [c \in Container |-> None]]
  /\ cidrs = [n \in Node |-> <<>>]
  /\ cidrs6 = [n \in Node |-> <<>>]

NextRoutes ==
  \/ \E n \in Node : Reload(n) \/ Restart(n)
  \/ \E c \in Container, m \in Hosts : Move(c, m)
  \/ PublishRoutes
  \/ PublishSubnetRoutes

-----------------------------------------------------------------------------
\* The addresses of a CIDR, without masks.
Block(e) ==
  LET size == 2^(Width - e.len)
      first == size * (e.net \div size)
  IN first .. first + size - 1

Right(table, d, found) ==
  LET around == {i \in DOMAIN table : d \in Block(table[i])}
  IN IF around = {} THEN found = None
     ELSE \E i \in around : /\ found = table[i].gw
                            /\ \A j \in around : table[j].len <= table[i].len

\* A table says what the set of its entries says: an address goes to the gateway
\* of a most specific CIDR around it, and nowhere if there is none.  The code stops
\* at the first hit of a table that every load has sorted (src/peer.rs:576-582).
MostSpecific ==
  \A n \in Node :
    /\ \A d \in Addr : Right(cidrs[n], d, FindSubnetMatch(n, d))
    /\ \A d \in Addr6 : Right(cidrs6[n], d, FindSubnetMatchV6(n, d))

=============================================================================
