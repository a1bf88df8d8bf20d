------------------------------ MODULE PeerTable ------------------------------
(***************************************************************************)
(* The peer table of one daemon (PeerManager, src/peer.rs): the peers by   *)
(* WolfNet address, the two indexes that find the peer of a packet, and    *)
(* the addresses purged on reload.  Each operator below is what one method *)
(* of PeerManager does under the write lock of the table; the module       *)
(* PeerDaemon says which thread calls it when.                             *)
(*                                                                         *)
(* A peer id (four bytes of a hash of the key) stands for its key: ids of  *)
(* different keys are taken to differ.                                     *)
(***************************************************************************)
EXTENDS Naturals

CONSTANTS
  Ip,        \* WolfNet addresses of peers, our own not among them
  Key,       \* public keys
  Ep,        \* socket addresses
  Host,      \* host:port endpoint lines that name a host
  Routable,  \* the socket addresses is_routable_endpoint accepts
  None

ASSUME NoneAssumption == None \notin Ip \cup Key \cup Ep \cup Host
\* A line that names a host is not a literal address.
ASSUME HostAssumption == Ep \cap Host = {}
ASSUME RoutableAssumption == Routable \subseteq Ep

VARIABLES
  peers,     \* peers_by_ip
  idMap,     \* id_to_ip
  epMap,     \* endpoint_to_ip
  purged     \* purged_ips

tableVars == <<peers, idMap, epMap, purged>>

Maybe(S) == S \cup {None}

\* How far the session with a peer is: no cipher yet, a cipher and 120 s of
\* silence, or connected.
Link == {"new", "idle", "live"}

\* "pinned" is configured_endpoint; the entry without a key stands for no entry.
PeerEntry == [key : Maybe(Key), ep : Maybe(Ep), pinned : Maybe(Ep \cup Host),
              relay : Maybe(Ip), link : Link]

Absent == [key |-> None, ep |-> None, pinned |-> None, relay |-> None, link |-> "new"]

TableTypeOK ==
  /\ peers \in [Ip -> PeerEntry]
  /\ idMap \in [Key -> Maybe(Ip)]
  /\ epMap \in [Ep -> Maybe(Ip)]
  /\ purged \subseteq Ip

Present(ip) == peers[ip].key # None
PresentIps == {ip \in Ip : Present(ip)}
Live(ip) == peers[ip].link = "live"

\* HashMap::insert and HashMap::remove on an index; no key None is ever there.
Put(index, x, ip) == [y \in DOMAIN index |-> IF y = x THEN ip ELSE index[y]]
Drop(index, x) == Put(index, x, None)

InitTable ==
  /\ peers = [ip \in Ip |-> Absent]
  /\ idMap = [k \in Key |-> None]
  /\ epMap = [e \in Ep |-> None]
  /\ purged = {}

-----------------------------------------------------------------------------
(* Endpoints. *)

\* PeerManager::find_ip_by_endpoint_or_id
Found(src, key) == IF epMap[src] # None THEN epMap[src] ELSE idMap[key]

SetEndpoint(ip, e) ==
  /\ peers' = [peers EXCEPT ![ip].ep = e]
  /\ epMap' = Put(Drop(epMap, peers[ip].ep), e, ip)

UpdateEndpoint(ip, e) ==
  IF Present(ip) THEN SetEndpoint(ip, e) ELSE UNCHANGED <<peers, epMap>>

\* What if roaming did not respect a configured endpoint.
RoamAlways(ip, e) == UpdateEndpoint(ip, e)

\* What if roaming left the mapping of the old endpoint behind.
RoamKeepsOld(ip, e) ==
  IF Present(ip) /\ peers[ip].pinned = None
  THEN /\ peers' = [peers EXCEPT ![ip].ep = e]
       /\ epMap' = Put(epMap, e, ip)
  ELSE UNCHANGED <<peers, epMap>>

UpdateEndpointIfRoaming(ip, e) ==
  IF Present(ip) /\ peers[ip].pinned = None
  THEN SetEndpoint(ip, e)
  ELSE UNCHANGED <<peers, epMap>>

ClearEndpoint(ip) ==
  /\ peers' = [peers EXCEPT ![ip].ep = None, ![ip].pinned = None]
  /\ epMap' = Drop(epMap, peers[ip].ep)

-----------------------------------------------------------------------------
(* Peers come and go. *)

RemovePeer(ip) ==
  /\ peers' = [peers EXCEPT ![ip] = Absent]
  /\ idMap' = Drop(idMap, peers[ip].key)
  /\ epMap' = Drop(epMap, peers[ip].ep)

PurgePeer(ip) == RemovePeer(ip) /\ purged' = purged \cup {ip}

\* add_peer takes the three locks one after the other: these are its sections.
AddEndpoint(ip, e) == epMap' = Put(epMap, e, ip)

\* What if a peer whose address was purged before were not indexed again.
AddIdUnlessPurged(ip, key) ==
  idMap' = IF ip \in purged THEN idMap ELSE Put(idMap, key, ip)

AddId(ip, key) == idMap' = Put(idMap, key, ip)
AddEntry(ip, entry) == peers' = [peers EXCEPT ![ip] = entry]

\* update_from_discovery, the announcing peer known under this address.
Rediscover(key, e, ip) ==
  /\ peers[ip].key = key
  /\ peers' = [peers EXCEPT ![ip].relay = None,
                            ![ip].ep = IF peers[ip].pinned = None THEN e ELSE @]
  /\ epMap' = IF peers[ip].pinned = None
              THEN Put(Drop(epMap, peers[ip].ep), e, ip) ELSE epMap
  /\ UNCHANGED idMap

\* ... known under another address: its entry moves.
Migrate(key, e, ip) ==
  /\ peers[ip].key # key
  /\ \E old \in Ip :
       /\ peers[old].key = key
       /\ peers' = [peers EXCEPT ![old] = Absent,
                                 ![ip] = [peers[old] EXCEPT !.ep = e, !.relay = None]]
       /\ epMap' = Put(Drop(epMap, peers[old].ep), e, ip)
  /\ idMap' = Put(idMap, key, ip)

\* ... not known: it replaces whoever holds the address.
Meet(key, e, ip) ==
  /\ \A i \in Ip : peers[i].key # key
  /\ peers' = [peers EXCEPT ![ip] = [Absent EXCEPT !.key = key, !.ep = e]]
  /\ idMap' = Put(Drop(idMap, peers[ip].key), key, ip)
  /\ epMap' = Put(Drop(epMap, peers[ip].ep), e, ip)

UpdateFromDiscovery(key, e, ip) ==
  /\ Rediscover(key, e, ip) \/ Migrate(key, e, ip) \/ Meet(key, e, ip)
  /\ UNCHANGED purged

-----------------------------------------------------------------------------
(* Peer exchange: an entry, from the peer at sender.                       *)

\* What if only a connected peer counted as known directly.
DirectlyKnownIfLive(ip) == Present(ip) /\ Live(ip)

\* What if only a peer without relay counted as known directly.
DirectlyKnownIfUnrelayed(ip) == Present(ip) /\ peers[ip].relay = None

DirectlyKnown(ip) == Present(ip) /\ (Live(ip) \/ peers[ip].relay = None)

\* What if peer exchange did not look at the purged addresses.
NeverBlocked(ip) == FALSE

Blocked(ip) == ip \in purged

KnownElsewhere(key, ip) == \E i \in Ip \ {ip} : peers[i].key = key

\* The code also skips entries with an invalid address, its own, or one outside
\* its /24 (src/peer.rs:693): the first two are not in Ip, and of the third the
\* model takes in what the code would not.
PexIgnores(ip, key) ==
  \/ Blocked(ip)
  \/ DirectlyKnown(ip)
  \/ KnownElsewhere(key, ip)

\* The peer is known through another relay: only the relay changes.
PexRelays(ip, key, sender) ==
  /\ ~Blocked(ip) /\ ~DirectlyKnown(ip)
  /\ peers[ip].key = key \/ ~KnownElsewhere(key, ip)
  /\ Present(ip)
  /\ peers' = [peers EXCEPT ![ip].relay = sender]
  /\ UNCHANGED <<idMap, epMap>>

\* A new peer: reached through the sender, with a session, and with its
\* endpoint if that can be dialled from outside its LAN.
PexAdds(ip, key, e, sender) ==
  /\ ~Blocked(ip) /\ ~Present(ip) /\ ~KnownElsewhere(key, ip)
  /\ LET ep == IF e \in Routable THEN e ELSE None IN
     /\ peers' = [peers EXCEPT ![ip] = [key |-> key, ep |-> ep, pinned |-> None,
                                        relay |-> sender, link |-> "idle"]]
     /\ epMap' = Put(epMap, ep, ip)
  /\ idMap' = Put(idMap, key, ip)

AddFromPex(ip, key, e, sender) ==
  /\ \/ PexIgnores(ip, key) /\ UNCHANGED <<peers, idMap, epMap>>
     \/ PexRelays(ip, key, sender)
     \/ PexAdds(ip, key, e, sender)
  /\ UNCHANGED purged

=============================================================================
