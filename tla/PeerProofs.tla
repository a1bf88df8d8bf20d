----------------------------- MODULE PeerProofs ------------------------------
(***************************************************************************)
(* Theorems about PeerDaemon, for any number of peers, addresses and        *)
(* configurations, with and without the discovery listener: about its      *)
(* states, and about its steps.                                            *)
(***************************************************************************)
EXTENDS PeerDaemon, TLAPS

CONSTANT home   \* the address of its own that every key keeps to

\* No two keys share an address, no daemon announces another one than its own,
\* and config.toml gives every peer the one it announces.
OwnAddress ==
  /\ home \in [Key -> Ip]
  /\ \A k, l \in Key : home[k] = home[l] => k = l
  /\ \A claim \in Announced : claim[2] = home[claim[1]]
  /\ \A config \in Configs : \A j \in DOMAIN config : config[j].ip = home[config[j].key]

\* Every entry of the table is at home.
AtHome == \A ip \in Ip : Present(ip) => home[peers[ip].key] = ip

\* So is every entry of a configuration yet to be read.
TodoAtHome ==
  task.at \in {"peer", "pin", "addId", "addEntry"} =>
    \A j \in DOMAIN task.todo : task.todo[j].ip = home[task.todo[j].key]

\* Between the sections of add_peer, or of the update of an endpoint, there is
\* a peer in hand.
PeerInHand == task.at \in {"pin", "addId", "addEntry"} => task.todo # <<>>

\* A peer to purge has been judged.
DropTarget == task.at = "drop" => task.ip # None

\* The last section of add_peer finds the id indexed.
IdAdded == task.at = "addEntry" => idMap[Current.key] = Current.ip

\* Who sent the payload in hand is in the table, and connected.
SenderLive == task.at \in {"roam", "payload"} => Present(task.ip) /\ Live(task.ip)

-----------------------------------------------------------------------------
(* Types. *)

\* HashMap::insert and remove keep an index an index.
LEMMA PutType ==
  ASSUME NEW S, NEW index \in [S -> Maybe(Ip)], NEW x, NEW ip \in Maybe(Ip)
  PROVE  Put(index, x, ip) \in [S -> Maybe(Ip)] /\ Drop(index, x) \in [S -> Maybe(Ip)]
  BY DEF Put, Drop, Maybe

\* What the main loop holds on to, by the step it is at.
LEMMA TaskKinds ==
  ASSUME NEW t \in Task
  PROVE  /\ t.at = "idle" => t = Idle
         /\ t.at = "establish" => t \in Establishing
         /\ t.at = "decrypt" => t \in Decrypting
         /\ t.at \in {"roam", "payload", "keepalive", "touch"} => t \in Following
         /\ t.at \in {"peer", "pin", "addId", "addEntry"} => t \in Configuring
         /\ t.at \in {"purge", "drop"} => t \in Purging
         /\ t.at = "resolve" => t \in Resolving
  BY DEF Task, Idle, Establishing, Decrypting, Following, Configuring, Purging, Resolving

\* update_endpoint, update_endpoint_if_roaming and clear_endpoint keep the types.
LEMMA EndpointType ==
  ASSUME TableTypeOK, NEW ip \in Ip, NEW e \in Ep,
         \/ UpdateEndpoint(ip, e)
         \/ UpdateEndpointIfRoaming(ip, e)
         \/ ClearEndpoint(ip)
  PROVE  peers' \in [Ip -> PeerEntry] /\ epMap' \in [Ep -> Maybe(Ip)]
<1>1. Maybe(Ip) # {} /\ ip \in Maybe(Ip) /\ None \in Maybe(Ep) /\ e \in Maybe(Ep)
  BY DEF Maybe
<1>2. None \in Maybe(Ep \cup Host)
  BY DEF Maybe
<1>3. ASSUME SetEndpoint(ip, e)
      PROVE  peers' \in [Ip -> PeerEntry] /\ epMap' \in [Ep -> Maybe(Ip)]
  <2>1. peers' \in [Ip -> PeerEntry]
    BY <1>1, <1>3 DEF SetEndpoint, TableTypeOK, PeerEntry
  <2>2. epMap' \in [Ep -> Maybe(Ip)]
    BY <1>1, <1>3, PutType DEF SetEndpoint, TableTypeOK
  <2>3. QED
    BY <2>1, <2>2
<1>4. ASSUME ClearEndpoint(ip)
      PROVE  peers' \in [Ip -> PeerEntry] /\ epMap' \in [Ep -> Maybe(Ip)]
  <2>1. peers' \in [Ip -> PeerEntry]
    BY <1>1, <1>2, <1>4 DEF ClearEndpoint, TableTypeOK, PeerEntry
  <2>2. epMap' \in [Ep -> Maybe(Ip)]
    BY <1>1, <1>4, PutType DEF ClearEndpoint, TableTypeOK
  <2>3. QED
    BY <2>1, <2>2
<1>5. QED
  BY <1>3, <1>4 DEF UpdateEndpoint, UpdateEndpointIfRoaming, TableTypeOK

\* What update_from_discovery does to the table, in the terms of the properties:
\* no entry is given a relay, and the entries other than that at the announced
\* address stay or go.
LEMMA DiscoveryStep ==
  ASSUME TableTypeOK, NEW key \in Key, NEW e \in Ep, NEW ip \in Ip,
         UpdateFromDiscovery(key, e, ip)
  PROVE  /\ TableTypeOK'
         /\ \A i \in Ip : peers'[i].relay \in {peers[i].relay, None}
         /\ \A i \in Ip \ {ip} : peers'[i] \in {peers[i], Absent}
         /\ UNCHANGED purged
<1>1. /\ ip \in Maybe(Ip) /\ None \in Maybe(Ip) /\ e \in Maybe(Ep) /\ key \in Maybe(Key)
      /\ Absent \in PeerEntry
  BY DEF Maybe, Absent, PeerEntry, Link
<1>2. UNCHANGED purged
  BY DEF UpdateFromDiscovery
<1>3. CASE Rediscover(key, e, ip)
  <2>1. /\ peers' \in [Ip -> PeerEntry]
        /\ \A i \in Ip : peers'[i].relay \in {peers[i].relay, None}
        /\ \A i \in Ip \ {ip} : peers'[i] = peers[i]
    BY <1>1, <1>3 DEF Rediscover, TableTypeOK, PeerEntry
  <2>2. epMap' \in [Ep -> Maybe(Ip)] /\ idMap' \in [Key -> Maybe(Ip)]
    BY <1>1, <1>3, PutType DEF Rediscover, TableTypeOK
  <2>3. QED
    BY <1>2, <2>1, <2>2 DEF TableTypeOK
<1>4. CASE Migrate(key, e, ip)
  <2>1. PICK old \in Ip :
          /\ peers[old].key = key
          /\ peers' = [peers EXCEPT ![old] = Absent,
                                    ![ip] = [peers[old] EXCEPT !.ep = e, !.relay = None]]
          /\ epMap' = Put(Drop(epMap, peers[old].ep), e, ip)
    BY <1>4 DEF Migrate
  <2>2. peers[old] \in PeerEntry
    BY DEF TableTypeOK
  <2>3. [peers[old] EXCEPT !.ep = e, !.relay = None] \in PeerEntry
    BY <1>1, <2>2 DEF PeerEntry
  <2>4. /\ peers' \in [Ip -> PeerEntry]
        /\ \A i \in Ip : peers'[i].relay \in {peers[i].relay, None}
        /\ \A i \in Ip \ {ip} : peers'[i] \in {peers[i], Absent}
    <3>1. [peers[old] EXCEPT !.ep = e, !.relay = None].relay = None /\ Absent.relay = None
      BY <2>2 DEF PeerEntry, Absent
    <3>2. QED
      BY <1>1, <2>1, <2>3, <3>1 DEF TableTypeOK
  <2>5. epMap' \in [Ep -> Maybe(Ip)] /\ idMap' \in [Key -> Maybe(Ip)]
    BY <1>1, <1>4, <2>1, PutType DEF Migrate, TableTypeOK
  <2>6. QED
    BY <1>2, <2>4, <2>5 DEF TableTypeOK
<1>5. CASE Meet(key, e, ip)
  <2>1. [Absent EXCEPT !.key = key, !.ep = e] \in PeerEntry
        /\ [Absent EXCEPT !.key = key, !.ep = e].relay = None
    BY <1>1 DEF PeerEntry, Absent
  <2>2. /\ peers' \in [Ip -> PeerEntry]
        /\ \A i \in Ip : peers'[i].relay \in {peers[i].relay, None}
        /\ \A i \in Ip \ {ip} : peers'[i] = peers[i]
    BY <1>5, <2>1 DEF Meet, TableTypeOK
  <2>3. epMap' \in [Ep -> Maybe(Ip)] /\ idMap' \in [Key -> Maybe(Ip)]
    BY <1>1, <1>5, PutType DEF Meet, TableTypeOK
  <2>4. QED
    BY <1>2, <2>2, <2>3 DEF TableTypeOK
<1>6. QED
  BY <1>3, <1>4, <1>5 DEF UpdateFromDiscovery

\* What a peer exchange entry does to the table: at most the entry at its
\* address changes, and that only where the address was not purged.
LEMMA PexStep ==
  ASSUME TableTypeOK, NEW key \in Key, NEW e \in Maybe(Ep), NEW ip \in Ip,
         NEW sender \in Ip, AddFromPex(ip, key, e, sender)
  PROVE  /\ TableTypeOK'
         /\ \A i \in Ip : i # ip \/ i \in purged => peers'[i] = peers[i]
         /\ UNCHANGED purged
<1>1. /\ ip \in Maybe(Ip) /\ sender \in Maybe(Ip) /\ key \in Maybe(Key)
      /\ None \in Maybe(Ep) /\ None \in Maybe(Ep \cup Host)
  BY DEF Maybe
<1>2. UNCHANGED purged
  BY DEF AddFromPex
<1>3. CASE PexRelays(ip, key, sender)
  <2>1. ip \notin purged /\ UNCHANGED <<idMap, epMap>>
    BY <1>3 DEF PexRelays, Blocked
  <2>2. peers' \in [Ip -> PeerEntry] /\ \A i \in Ip \ {ip} : peers'[i] = peers[i]
    BY <1>1, <1>3 DEF PexRelays, TableTypeOK, PeerEntry
  <2>3. QED
    BY <1>2, <2>1, <2>2 DEF TableTypeOK
<1>4. CASE PexAdds(ip, key, e, sender)
  <2> DEFINE ep == IF e \in Routable THEN e ELSE None
             entry == [key |-> key, ep |-> ep, pinned |-> None,
                       relay |-> sender, link |-> "idle"]
  <2>1. entry \in PeerEntry
    BY <1>1 DEF PeerEntry, Link
  <2>2. ip \notin purged /\ peers' = [peers EXCEPT ![ip] = entry]
    BY <1>4 DEF PexAdds, Blocked
  <2>3. epMap' \in [Ep -> Maybe(Ip)] /\ idMap' \in [Key -> Maybe(Ip)]
    BY <1>1, <1>4, PutType DEF PexAdds, TableTypeOK
  <2>4. peers' \in [Ip -> PeerEntry] /\ \A i \in Ip \ {ip} : peers'[i] = peers[i]
    BY <2>1, <2>2 DEF TableTypeOK
  <2>5. QED
    BY <1>2, <2>2, <2>3, <2>4 DEF TableTypeOK
<1>5. QED
  BY <1>2, <1>3, <1>4 DEF AddFromPex, TableTypeOK

-----------------------------------------------------------------------------
(* Types, and no relay at a purged address. *)

TableInv == TypeOK /\ PeerInHand /\ DropTarget /\ PurgedNotRelayed

\* run_daemon starts with an empty table and the configuration to go through.
LEMMA InitTableInv == Init => TableInv
<1> SUFFICES ASSUME Init PROVE TableInv
  OBVIOUS
<1>1. Absent \in PeerEntry /\ None \in Maybe(Ip) /\ None \in Maybe(Ep)
  BY DEF Absent, PeerEntry, Maybe, Link
<1>2. TableTypeOK /\ PurgedNotRelayed
  BY <1>1 DEF Init, InitTable, TableTypeOK, PurgedNotRelayed
<1>3. PICK config \in Configs : task = Reading("peer", config, config, {}, None, TRUE)
  BY DEF Init
<1>4. config \in Seq(PeerConfig)
  BY ConfigsAssumption
<1>5. task \in Configuring
  BY <1>1, <1>3, <1>4 DEF Reading, Configuring
<1>6. QED
  BY <1>2, <1>3, <1>5 DEF TableInv, TypeOK, PeerInHand, DropTarget, Reading, Task

\* The peer in hand while a configuration is read, and the step to the next.
LEMMA CurrentPeer ==
  ASSUME TypeOK, task.at \in {"peer", "pin", "addId", "addEntry"}, task.todo # <<>>
  PROVE  /\ Current \in PeerConfig
         /\ Tail(task.todo) \in Seq(PeerConfig)
         /\ NextPeer => task' \in Configuring
<1>1. task \in Configuring
  BY TaskKinds DEF TypeOK
<1>2. task.todo \in Seq(PeerConfig)
  BY <1>1 DEF Configuring
<1>3. Current \in PeerConfig /\ Tail(task.todo) \in Seq(PeerConfig)
  BY <1>2 DEF Current
<1>4. QED
  BY <1>1, <1>3 DEF NextPeer, Configuring

\* Whatever an endpoint line resolves to is an address or nothing.
LEMMA ResolveType ==
  ASSUME NEW target, NEW e \in Resolve(target)
  PROVE  e \in Maybe(Ep)
  BY DEF Resolve, Maybe

\* Every step of the main loop and of the listener keeps them.
LEMMA TableStep == TableInv /\ [Next]_vars => TableInv'
<1> SUFFICES ASSUME TableInv, [Next]_vars
             PROVE  TableInv'
  OBVIOUS
<1> USE DEF TableInv, TypeOK, PeerInHand, DropTarget
<1>0. /\ TableTypeOK /\ task \in Task /\ Idle \in Task /\ Idle.at = "idle"
      /\ Absent \in PeerEntry /\ Absent.relay = None
  BY DEF Task, Idle, Absent, PeerEntry, Maybe, Link
<1>1. ASSUME NEW claim \in Announced, NEW e \in Ep, HearBroadcast(claim[1], claim[2], e)
      PROVE  TableInv'
  <2>1. claim[1] \in Key /\ claim[2] \in Ip
    BY AnnouncedAssumption
  <2>2. QED
    BY <1>1, <2>1, DiscoveryStep DEF HearBroadcast, PurgedNotRelayed, TableTypeOK
<1>2. ASSUME NEW claim \in Announced, NEW e \in Ep, ReceiveHandshake(claim[1], claim[2], e)
      PROVE  TableInv'
  <2>1. claim[1] \in Key /\ claim[2] \in Ip
    BY AnnouncedAssumption
  <2>2. task' \in Task
    BY <1>2, <2>1 DEF ReceiveHandshake, Task, Establishing
  <2>3. QED
    BY <1>2, <2>1, <2>2, DiscoveryStep DEF ReceiveHandshake, PurgedNotRelayed, TableTypeOK
<1>3. ASSUME NEW claim \in Announced, NEW e \in Maybe(Ep), ReceivePex(claim[1], claim[2], e)
      PROVE  TableInv'
  <2>1. claim[1] \in Key /\ claim[2] \in Ip
    BY AnnouncedAssumption
  <2>2. task.ip \in Ip
    BY <1>3, TaskKinds DEF ReceivePex, Following
  <2>3. QED
    BY <1>0, <1>3, <2>1, <2>2, PexStep DEF ReceivePex, PurgedNotRelayed, TableTypeOK
<1>4. ASSUME NEW key \in Key, NEW src \in Ep, ReceiveData(key, src)
      PROVE  TableInv'
  <2>1. Found(src, key) \in Ip
    BY <1>4 DEF ReceiveData, Found, TableTypeOK, Maybe
  <2>2. task' \in Task
    BY <1>4, <2>1 DEF ReceiveData, Task, Decrypting
  <2>3. QED
    BY <1>4, <2>2 DEF ReceiveData, tableVars, TableTypeOK, PeerEntry, PurgedNotRelayed
<1>5. ASSUME NEW key \in Key, NEW src \in Ep, ReceiveKeepalive(key, src)
      PROVE  TableInv'
  <2>1. Found(src, key) \in Ip
    BY <1>5 DEF ReceiveKeepalive, Found, TableTypeOK, Maybe
  <2>2. task' \in Task
    BY <1>5, <2>1 DEF ReceiveKeepalive, Task, Following
  <2>3. QED
    BY <1>5, <2>2 DEF ReceiveKeepalive, tableVars, TableTypeOK, PeerEntry, PurgedNotRelayed
<1>6. ASSUME NEW ip \in Ip, Expire(ip)
      PROVE  TableInv'
  BY <1>0, <1>6 DEF Expire, TableTypeOK, PeerEntry, Link, PurgedNotRelayed
<1>7. ASSUME NEW ip \in Ip, Judge(ip)
      PROVE  TableInv'
  <2>1. task' \in Task /\ PeerInHand' /\ DropTarget'
    BY <1>7, TaskKinds, NoneAssumption DEF Judge, Purging, Task, Maybe
  <2>2. QED
    BY <1>7, <2>1 DEF Judge, tableVars, TableTypeOK, PurgedNotRelayed
<1>8. ASSUME NEW ip \in Ip, ResolveAgain(ip)
      PROVE  TableInv'
  BY <1>8 DEF ResolveAgain, Resolving, Task, tableVars, TableTypeOK, PurgedNotRelayed
<1>9. ASSUME NEW config \in Configs, Reload(config)
      PROVE  TableInv'
  <2>1. config \in Seq(PeerConfig) /\ None \in Maybe(Ep) /\ PresentIps \subseteq Ip
    BY ConfigsAssumption DEF Maybe, PresentIps
  <2>2. task' \in Task /\ PeerInHand' /\ DropTarget'
    BY <1>9, <2>1 DEF Reload, Reading, Task, Configuring
  <2>3. QED
    BY <1>9, <2>2 DEF Reload, tableVars, TableTypeOK, PurgedNotRelayed
<1>10. ASSUME EstablishSession
       PROVE  TableInv'
  BY <1>0, <1>10 DEF EstablishSession, TableTypeOK, PeerEntry, Link, PurgedNotRelayed
<1>11. ASSUME Decrypt
       PROVE  TableInv'
  <2>1. task' \in Task /\ PeerInHand' /\ DropTarget'
    BY <1>0, <1>11, TaskKinds DEF Decrypt, Decrypting, Following, Task
  <2>2. QED
    BY <1>0, <1>11, <2>1 DEF Decrypt, TableTypeOK, PeerEntry, Link, PurgedNotRelayed
<1>12. ASSUME Roam
       PROVE  TableInv'
  <2>1. task \in Following
    BY <1>12, TaskKinds DEF Roam
  <2>2. task' \in Task /\ PeerInHand' /\ DropTarget' /\ task.ip \in Ip /\ task.src \in Ep
    BY <1>12, <2>1 DEF Roam, Following, Task
  <2>3. UpdateEndpointIfRoaming(task.ip, task.src)
    BY <1>12 DEF Roam
  <2>4. peers' \in [Ip -> PeerEntry] /\ epMap' \in [Ep -> Maybe(Ip)]
    BY <2>2, <2>3, EndpointType
  <2>5. \A i \in Ip : peers'[i].relay = peers[i].relay
    BY <1>0, <2>2, <2>3 DEF UpdateEndpointIfRoaming, SetEndpoint, TableTypeOK, PeerEntry
  <2>6. QED
    BY <1>0, <1>12, <2>2, <2>4, <2>5 DEF Roam, TableTypeOK, PurgedNotRelayed
<1>13. ASSUME ForwardPayload
       PROVE  TableInv'
  BY <1>0, <1>13 DEF ForwardPayload, Idle, tableVars, TableTypeOK, PurgedNotRelayed
<1>14. ASSUME KeepaliveRoam
       PROVE  TableInv'
  <2>1. task \in Following
    BY <1>14, TaskKinds DEF KeepaliveRoam
  <2>2. task' \in Task /\ PeerInHand' /\ DropTarget' /\ task.ip \in Ip /\ task.src \in Ep
    BY <1>14, <2>1 DEF KeepaliveRoam, Following, Task
  <2>3. CASE UpdateEndpointIfRoaming(task.ip, task.src)
    <3>1. peers' \in [Ip -> PeerEntry] /\ epMap' \in [Ep -> Maybe(Ip)]
      BY <2>2, <2>3, EndpointType
    <3>2. \A i \in Ip : peers'[i].relay = peers[i].relay
      BY <1>0, <2>2, <2>3 DEF UpdateEndpointIfRoaming, SetEndpoint, TableTypeOK, PeerEntry
    <3>3. QED
      BY <1>0, <1>14, <2>2, <3>1, <3>2 DEF KeepaliveRoam, TableTypeOK, PurgedNotRelayed
  <2>4. CASE UNCHANGED <<peers, epMap>>
    BY <1>14, <2>2, <2>4 DEF KeepaliveRoam, TableTypeOK, PurgedNotRelayed
  <2>5. QED
    BY <1>14, <2>3, <2>4 DEF KeepaliveRoam
<1>15. ASSUME KeepaliveTouch
       PROVE  TableInv'
  <2>1. task.ip \in Ip
    BY <1>15, TaskKinds DEF KeepaliveTouch, Following
  <2>2. QED
    BY <1>0, <1>15, <2>1
    DEF KeepaliveTouch, Idle, TableTypeOK, PeerEntry, Link, PurgedNotRelayed
<1>16. ASSUME ReloadEndpoint
       PROVE  TableInv'
  <2>1. /\ task.at = "peer" /\ task.todo # <<>> /\ UNCHANGED <<idMap, purged>>
        /\ \E e \in Resolve(Current.target) :
             \/ NextPeer /\ UNCHANGED tableVars
             \/ /\ e # None
                /\ UpdateEndpoint(Current.ip, e)
                /\ task' = [task EXCEPT !.at = "pin"]
    BY <1>16 DEF ReloadEndpoint, tableVars
  <2>2. task \in Configuring /\ Current \in PeerConfig /\ (NextPeer => task' \in Configuring)
    BY <2>1, TaskKinds, CurrentPeer
  <2>3. CASE NextPeer /\ UNCHANGED tableVars
    BY <2>1, <2>2, <2>3 DEF NextPeer, Configuring, tableVars, Task, TableTypeOK, PurgedNotRelayed
  <2>4. CASE \E e \in Resolve(Current.target) :
               /\ e # None
               /\ UpdateEndpoint(Current.ip, e)
               /\ task' = [task EXCEPT !.at = "pin"]
    <3>1. PICK e \in Ep : /\ UpdateEndpoint(Current.ip, e)
                          /\ task' = [task EXCEPT !.at = "pin"]
      BY <2>4, ResolveType DEF Maybe
    <3>2. Current.ip \in Ip
      BY <2>2 DEF PeerConfig
    <3>3. peers' \in [Ip -> PeerEntry] /\ epMap' \in [Ep -> Maybe(Ip)]
      BY <3>1, <3>2, EndpointType
    <3>4. \A i \in Ip : peers'[i].relay = peers[i].relay
      BY <1>0, <3>1, <3>2 DEF UpdateEndpoint, SetEndpoint, TableTypeOK, PeerEntry
    <3>5. task' \in Task /\ PeerInHand' /\ DropTarget'
      BY <2>1, <2>2, <3>1 DEF Configuring, Task
    <3>6. QED
      BY <1>0, <2>1, <3>3, <3>4, <3>5 DEF TableTypeOK, PurgedNotRelayed
  <2>5. QED
    BY <2>1, <2>3, <2>4
<1>17. ASSUME ReloadPin
       PROVE  TableInv'
  <2>1. Current \in PeerConfig /\ task' \in Task /\ PeerInHand' /\ DropTarget'
    BY <1>17, TaskKinds, CurrentPeer DEF ReloadPin, NextPeer, Configuring, Task
  <2>2. Current.ip \in Ip /\ Current.target \in Maybe(Ep \cup Host)
    BY <2>1 DEF PeerConfig
  <2>3. QED
    BY <1>0, <1>17, <2>1, <2>2 DEF ReloadPin, TableTypeOK, PeerEntry, PurgedNotRelayed
<1>18. ASSUME ReloadClear
       PROVE  TableInv'
  <2>1. Current \in PeerConfig /\ task' \in Task /\ PeerInHand' /\ DropTarget' /\ Current.ip \in Ip
    BY <1>18, TaskKinds, CurrentPeer
    DEF ReloadClear, NextPeer, Configuring, Task, PeerConfig
  <2>2. epMap' \in [Ep -> Maybe(Ip)]
    BY <1>0, <1>18, PutType DEF ReloadClear, ClearEndpoint, TableTypeOK, Drop, Maybe
  <2>3. None \in Maybe(Ep) /\ None \in Maybe(Ep \cup Host)
    BY DEF Maybe
  <2>4. peers' \in [Ip -> PeerEntry] /\ \A i \in Ip : peers'[i].relay = peers[i].relay
    BY <1>0, <1>18, <2>1, <2>3 DEF ReloadClear, ClearEndpoint, TableTypeOK, PeerEntry
  <2>5. QED
    BY <1>0, <1>18, <2>1, <2>2, <2>4 DEF ReloadClear, TableTypeOK, PurgedNotRelayed
<1>19. ASSUME AddPeerEndpoint
       PROVE  TableInv'
  <2>1. task \in Configuring /\ Current \in PeerConfig /\ Current.ip \in Ip
    BY <1>19, TaskKinds, CurrentPeer DEF AddPeerEndpoint, PeerConfig
  <2>2. PICK e \in Maybe(Ep) : /\ AddEndpoint(Current.ip, e)
                               /\ task' = [task EXCEPT !.at = "addId", !.ep = e]
    BY <1>19, ResolveType DEF AddPeerEndpoint
  <2>3. task' \in Task /\ PeerInHand' /\ DropTarget'
    BY <1>19, <2>1, <2>2 DEF AddPeerEndpoint, Configuring, Task
  <2>4. epMap' \in [Ep -> Maybe(Ip)]
    BY <1>0, <2>1, <2>2, PutType DEF AddEndpoint, TableTypeOK, Maybe
  <2>5. QED
    BY <1>19, <2>3, <2>4 DEF AddPeerEndpoint, TableTypeOK, PurgedNotRelayed
<1>20. ASSUME AddPeerId
       PROVE  TableInv'
  <2>1. task \in Configuring /\ Current.ip \in Ip /\ Current \in PeerConfig
    BY <1>20, TaskKinds, CurrentPeer DEF AddPeerId, PeerConfig
  <2>2. task' \in Task /\ PeerInHand' /\ DropTarget'
    BY <1>20, <2>1 DEF AddPeerId, Configuring, Task
  <2>3. idMap' \in [Key -> Maybe(Ip)]
    BY <1>0, <1>20, <2>1, PutType DEF AddPeerId, AddId, TableTypeOK, Maybe
  <2>4. QED
    BY <1>20, <2>2, <2>3 DEF AddPeerId, TableTypeOK, PurgedNotRelayed
<1>21. ASSUME AddPeerEntry
       PROVE  TableInv'
  <2> DEFINE entry == [key |-> Current.key, ep |-> task.ep, pinned |-> Current.target,
                       relay |-> None, link |-> "idle"]
  <2>1. task \in Configuring /\ Current \in PeerConfig /\ task' \in Task /\ PeerInHand' /\ DropTarget'
    BY <1>21, TaskKinds, CurrentPeer DEF AddPeerEntry, NextPeer, Configuring, Task
  <2>2. entry \in PeerEntry /\ entry.relay = None /\ Current.ip \in Ip
    BY <2>1 DEF Configuring, PeerConfig, PeerEntry, Maybe, Link
  <2>3. peers' = [peers EXCEPT ![Current.ip] = entry]
    BY <1>21 DEF AddPeerEntry, AddEntry
  <2>4. peers' \in [Ip -> PeerEntry] /\ PurgedNotRelayed'
    BY <1>0, <1>21, <2>2, <2>3 DEF AddPeerEntry, TableTypeOK, PurgedNotRelayed
  <2>5. QED
    BY <1>21, <2>1, <2>4 DEF AddPeerEntry, TableTypeOK
<1>22. ASSUME ConfigRead
       PROVE  TableInv'
  <2>1. task \in Configuring /\ UNCHANGED tableVars
    BY <1>22, TaskKinds DEF ConfigRead
  <2>2. CASE task' = Idle
    BY <1>0, <2>1, <2>2 DEF Idle, tableVars, TableTypeOK, PurgedNotRelayed
  <2>3. ASSUME NEW ep \in [DOMAIN task.config -> Maybe(Ep)],
               task' = [at |-> "purge", config |-> task.config,
                        dialled |-> {ep[j] : j \in DOMAIN ep} \ {None},
                        pending |-> PresentIps \ ConfiguredIps(task.config),
                        ip |-> None]
        PROVE  TableInv'
    <3>1. {ep[j] : j \in DOMAIN ep} \ {None} \subseteq Ep
      BY DEF Maybe
    <3>2. PresentIps \ ConfiguredIps(task.config) \subseteq Ip
      BY DEF PresentIps
    <3>3. task' \in Purging
      BY <2>1, <2>3, <3>1, <3>2 DEF Configuring, Purging, Maybe
    <3>4. task' \in Task /\ PeerInHand' /\ DropTarget'
      BY <2>3, <3>3 DEF Task
    <3>5. QED
      BY <2>1, <3>4 DEF tableVars, TableTypeOK, PurgedNotRelayed
  <2>4. QED
    BY <1>22, <2>2, <2>3 DEF ConfigRead
<1>23. ASSUME PurgeDone
       PROVE  TableInv'
  BY <1>0, <1>23 DEF PurgeDone, Idle, tableVars, TableTypeOK, PurgedNotRelayed
<1>24. ASSUME Purge
       PROVE  TableInv'
  <2>1. task' \in Task /\ PeerInHand' /\ DropTarget'
    BY <1>24, TaskKinds DEF Purge, Purging, Task
  <2>2. PurgePeer(task.ip) /\ task.ip \in Maybe(Ip)
    BY <1>24, TaskKinds DEF Purge, Purging
  <2>3. task.ip \in Ip
    BY <1>24, <2>2 DEF Purge, Maybe
  <2>4. TableTypeOK'
    BY <1>0, <2>2, <2>3, PutType DEF PurgePeer, RemovePeer, TableTypeOK, Drop, Maybe
  <2>5. PurgedNotRelayed'
    BY <1>0, <2>2, <2>3 DEF PurgePeer, RemovePeer, TableTypeOK, PurgedNotRelayed
  <2>6. QED
    BY <2>1, <2>4, <2>5
<1>25. ASSUME NEW e \in Maybe(Ep), Resolved(e)
       PROVE  TableInv'
  <2>1. task.ip \in Ip /\ task' \in Task /\ PeerInHand' /\ DropTarget'
    BY <1>0, <1>25, TaskKinds DEF Resolved, Resolving
  <2>2. CASE UNCHANGED <<peers, epMap>>
    BY <1>25, <2>1, <2>2 DEF Resolved, TableTypeOK, PurgedNotRelayed
  <2>3. CASE e \in Ep /\ UpdateEndpoint(task.ip, e)
    <3>1. peers' \in [Ip -> PeerEntry] /\ epMap' \in [Ep -> Maybe(Ip)]
      BY <2>1, <2>3, EndpointType
    <3>2. \A i \in Ip : peers'[i].relay = peers[i].relay
      BY <1>0, <2>1, <2>3 DEF UpdateEndpoint, SetEndpoint, TableTypeOK, PeerEntry
    <3>3. QED
      BY <1>0, <1>25, <2>1, <3>1, <3>2 DEF Resolved, TableTypeOK, PurgedNotRelayed
  <2>4. QED
    BY <1>25, <2>2, <2>3 DEF Resolved, Maybe
<1>26. CASE UNCHANGED vars
  BY <1>26 DEF vars, tableVars, TableTypeOK, PurgedNotRelayed
<1>27. QED
  BY <1>1, <1>2, <1>3, <1>4, <1>5, <1>6, <1>7, <1>8, <1>9, <1>10, <1>11, <1>12, <1>13,
     <1>14, <1>15, <1>16, <1>17, <1>18, <1>19, <1>20, <1>21, <1>22, <1>23, <1>24, <1>25,
     <1>26
  DEF Next

\* The table, its indexes and the state of the main loop keep their types, at
\* whatever point of a packet or a reload the listener steps in.
THEOREM TableTypeCorrect == Spec => []TypeOK
<1>1. Init => TableInv
  BY InitTableInv
<1>2. TableInv /\ [Next]_vars => TableInv'
  BY TableStep
<1>3. TableInv => TypeOK
  BY DEF TableInv
<1>4. QED
  BY <1>1, <1>2, <1>3, PTL DEF Spec

\* Peer exchange never brings back an address that a reload purged
\* (PeerManager::purged_ips), with any announcements and configurations.
THEOREM PurgedStayUnrelayed == Spec => []PurgedNotRelayed
<1>1. Init => TableInv
  BY InitTableInv
<1>2. TableInv /\ [Next]_vars => TableInv'
  BY TableStep
<1>3. TableInv => PurgedNotRelayed
  BY DEF TableInv
<1>4. QED
  BY <1>1, <1>2, <1>3, PTL DEF Spec

-----------------------------------------------------------------------------
(* The id index, and relays, where every key keeps to an address of its own. *)

HomeInv ==
  /\ AtHome
  /\ IdIndexComplete
  /\ NoSelfRelay
  /\ TodoAtHome
  /\ IdAdded
  /\ SenderLive

\* What an operation leaves of a table at home: whoever was there still is, with
\* its id indexed.
Keeps ==
  /\ AtHome'
  /\ IdIndexComplete'
  /\ \A i \in Ip : Present(i) => peers'[i].key = peers[i].key
  /\ \A k \in Key : idMap[k] = home[k] => idMap'[k] = home[k]

\* An operation that touches no key and no id, such as every change of an
\* endpoint or of last_seen, keeps the table at home.
LEMMA KeysKept ==
  ASSUME AtHome, IdIndexComplete, UNCHANGED idMap,
         \A i \in Ip : peers'[i].key = peers[i].key
  PROVE  Keeps
  BY DEF Keeps, AtHome, IdIndexComplete, Present

\* update_from_discovery of a peer at home: it meets the peer at its address or
\* finds the address free.
LEMMA DiscoveryHome ==
  ASSUME OwnAddress, TableTypeOK, AtHome, IdIndexComplete,
         NEW claim \in Announced, NEW e \in Ep,
         UpdateFromDiscovery(claim[1], e, claim[2])
  PROVE  /\ Keeps
         /\ \A i \in Ip : Present(i) => peers'[i].link = peers[i].link
<1> DEFINE key == claim[1]
           ip  == claim[2]
<1>1. /\ key \in Key /\ ip \in Ip /\ ip = home[key]
      /\ home \in [Key -> Ip]
      /\ \A k, l \in Key : home[k] = home[l] => k = l
      /\ None \notin Key
  BY AnnouncedAssumption, NoneAssumption DEF OwnAddress
<1>2. \A i \in Ip : Present(i) => /\ peers[i].key \in Key
                                 /\ home[peers[i].key] = i
                                 /\ idMap[peers[i].key] = i
  BY DEF TableTypeOK, PeerEntry, Maybe, AtHome, IdIndexComplete, Present
<1>3. CASE Rediscover(key, e, ip)
  <2>1. /\ UNCHANGED idMap
        /\ \A i \in Ip : peers'[i].key = peers[i].key /\ peers'[i].link = peers[i].link
    BY <1>1, <1>3 DEF Rediscover, TableTypeOK, PeerEntry
  <2>2. QED
    BY <2>1, KeysKept
<1>4. CASE Migrate(key, e, ip)
  <2>1. PICK old \in Ip : peers[old].key = key
    BY <1>4 DEF Migrate
  <2>2. old = ip
    BY <1>1, <1>2, <2>1 DEF Present
  <2>3. QED
    BY <1>4, <2>1, <2>2 DEF Migrate
<1>5. CASE Meet(key, e, ip)
  <2>1. ~Present(ip)
    BY <1>1, <1>2, <1>5 DEF Meet
  <2> DEFINE entry == [Absent EXCEPT !.key = key, !.ep = e]
  <2>2. entry.key = key
    BY DEF Absent
  <2>3. /\ peers'[ip].key = key
        /\ \A i \in Ip \ {ip} : peers'[i] = peers[i]
    BY <1>1, <1>5, <2>2 DEF Meet, TableTypeOK
  <2>4. /\ idMap'[key] = ip
        /\ \A k \in Key \ {key} : idMap'[k] = idMap[k]
    BY <1>1, <1>5, <2>1 DEF Meet, Put, Drop, Present, TableTypeOK
  <2>5. /\ AtHome'
        /\ \A i \in Ip : Present(i) => peers'[i] = peers[i]
        /\ \A k \in Key : idMap[k] = home[k] => idMap'[k] = home[k]
    BY <1>1, <1>2, <2>1, <2>3, <2>4 DEF AtHome, Present
  <2>6. IdIndexComplete'
    BY <1>1, <1>2, <2>3, <2>4 DEF IdIndexComplete, Present
  <2>7. QED
    BY <2>5, <2>6 DEF Keeps
<1>6. QED
  BY <1>3, <1>4, <1>5 DEF UpdateFromDiscovery

\* A peer exchange entry of a peer at home, from a connected peer.
LEMMA PexHome ==
  ASSUME OwnAddress, TableTypeOK, AtHome, IdIndexComplete, NoSelfRelay,
         NEW claim \in Announced, NEW e \in Maybe(Ep),
         NEW sender \in Ip, Present(sender), Live(sender),
         AddFromPex(claim[2], claim[1], e, sender)
  PROVE  Keeps /\ NoSelfRelay'
<1> DEFINE key == claim[1]
           ip  == claim[2]
<1>1. /\ key \in Key /\ ip \in Ip /\ ip = home[key]
      /\ home \in [Key -> Ip]
      /\ \A k, l \in Key : home[k] = home[l] => k = l
  BY AnnouncedAssumption DEF OwnAddress
<1>2. CASE PexIgnores(ip, key) /\ UNCHANGED <<peers, idMap, epMap>>
  BY <1>2, KeysKept DEF NoSelfRelay
<1>3. CASE PexRelays(ip, key, sender)
  <2>1. sender # ip
    BY <1>3 DEF PexRelays, DirectlyKnown
  <2>2. /\ \A i \in Ip : peers'[i].key = peers[i].key
        /\ \A i \in Ip : peers'[i].relay = IF i = ip THEN sender ELSE peers[i].relay
        /\ UNCHANGED idMap
    BY <1>1, <1>3 DEF PexRelays, TableTypeOK, PeerEntry
  <2>3. QED
    BY <2>1, <2>2, KeysKept DEF NoSelfRelay
<1>4. CASE PexAdds(ip, key, e, sender)
  <2>1. sender # ip /\ ~Present(ip)
    BY <1>4 DEF PexAdds
  <2>2. /\ peers'[ip].key = key /\ peers'[ip].relay = sender
        /\ \A i \in Ip \ {ip} : peers'[i] = peers[i]
        /\ idMap'[key] = ip
        /\ \A k \in Key \ {key} : idMap'[k] = idMap[k]
    BY <1>1, <1>4 DEF PexAdds, Put, TableTypeOK
  <2>3. \A i \in Ip \ {ip} : Present(i) => peers[i].key # key
    BY <1>4 DEF PexAdds, KnownElsewhere
  <2>4. AtHome' /\ NoSelfRelay'
    BY <1>1, <2>1, <2>2 DEF AtHome, NoSelfRelay, Present
  <2>5. IdIndexComplete'
    <3> SUFFICES ASSUME NEW i \in Ip, Present(i)'
                 PROVE  idMap'[peers'[i].key] = i
      BY DEF IdIndexComplete
    <3>1. CASE i = ip
      BY <2>2, <3>1
    <3>2. CASE i # ip
      BY <1>1, <2>2, <2>3, <3>2
      DEF IdIndexComplete, Present, TableTypeOK, PeerEntry, Maybe
    <3>3. QED
      BY <3>1, <3>2
  <2>6. /\ \A i \in Ip : Present(i) => peers'[i].key = peers[i].key
        /\ \A k \in Key : idMap[k] = home[k] => idMap'[k] = home[k]
    BY <1>1, <2>1, <2>2
  <2>7. QED
    BY <2>4, <2>5, <2>6 DEF Keeps
<1>5. QED
  BY <1>2, <1>3, <1>4 DEF AddFromPex

\* The peer in hand is at home, and so are those after it.
LEMMA CurrentHome ==
  ASSUME TypeOK, TodoAtHome, task.at \in {"peer", "pin", "addId", "addEntry"},
         task.todo # <<>>
  PROVE  /\ Current.ip = home[Current.key]
         /\ NextPeer => TodoAtHome' /\ IdAdded' /\ SenderLive'
<1>1. task \in Configuring /\ task.todo \in Seq(PeerConfig)
  BY TaskKinds DEF TypeOK, Configuring
<1>2. 1 \in DOMAIN task.todo /\ Current = task.todo[1]
  BY <1>1 DEF Current
<1>3. \A j \in DOMAIN Tail(task.todo) :
        j + 1 \in DOMAIN task.todo /\ Tail(task.todo)[j] = task.todo[j + 1]
  BY <1>1
<1>4. ASSUME NextPeer
      PROVE  task'.at = "peer" /\ task'.todo = Tail(task.todo)
  BY <1>1, <1>4 DEF NextPeer, Configuring
<1>5. \A j \in DOMAIN task.todo : task.todo[j].ip = home[task.todo[j].key]
  BY DEF TodoAtHome
<1>6. ASSUME NextPeer
      PROVE  TodoAtHome' /\ IdAdded' /\ SenderLive'
  <2> SUFFICES ASSUME NEW j \in DOMAIN Tail(task.todo)
               PROVE  Tail(task.todo)[j].ip = home[Tail(task.todo)[j].key]
    BY <1>4, <1>6 DEF TodoAtHome, IdAdded, SenderLive
  <2>1. task.todo[j + 1].ip = home[task.todo[j + 1].key]
    BY <1>3, <1>5
  <2>2. QED
    BY <1>3, <2>1, Zenon
<1>7. QED
  BY <1>2, <1>5, <1>6

\* The daemon starts with an empty table and a configuration at home.
LEMMA InitHomeInv == OwnAddress /\ Init => HomeInv
<1> SUFFICES ASSUME OwnAddress, Init PROVE HomeInv
  OBVIOUS
<1>1. PICK config \in Configs : task = Reading("peer", config, config, {}, None, TRUE)
  BY DEF Init
<1>2. TodoAtHome /\ IdAdded /\ SenderLive
  BY <1>1 DEF Reading, OwnAddress, TodoAtHome, IdAdded, SenderLive
<1>3. \A i \in Ip : ~Present(i) /\ peers[i].relay = None
  BY DEF Init, InitTable, Present, Absent
<1>4. AtHome /\ IdIndexComplete /\ NoSelfRelay
  BY <1>3, NoneAssumption DEF AtHome, IdIndexComplete, NoSelfRelay
<1>5. QED
  BY <1>2, <1>4 DEF HomeInv

\* Every step keeps the table at home.
LEMMA HomeStep == OwnAddress /\ TableInv /\ HomeInv /\ [Next]_vars => HomeInv'
<1> SUFFICES ASSUME OwnAddress, TableInv, HomeInv, [Next]_vars
             PROVE  HomeInv'
  OBVIOUS
<1> USE DEF TableInv, TypeOK, HomeInv
<1>0. /\ TableTypeOK /\ task \in Task /\ Idle.at = "idle" /\ PeerInHand
      /\ \A i \in Ip : peers[i] \in PeerEntry
      /\ None \notin Ip
  BY NoneAssumption DEF Idle, TableTypeOK
<1>1. ASSUME NEW claim \in Announced, NEW e \in Ep, HearBroadcast(claim[1], claim[2], e)
      PROVE  HomeInv'
  <2>1. /\ Keeps
        /\ \A i \in Ip : Present(i) => peers'[i].link = peers[i].link
        /\ \A i \in Ip : peers'[i].relay \in {peers[i].relay, None}
        /\ UNCHANGED task
    BY <1>1, DiscoveryHome, DiscoveryStep, AnnouncedAssumption DEF HearBroadcast
  <2>2. NoSelfRelay' /\ TodoAtHome'
    BY <1>0, <2>1 DEF NoSelfRelay, TodoAtHome
  <2>3. IdAdded'
    <3>1. CASE task.at = "addEntry"
      <4>1. Current.key \in Key /\ Current.ip = home[Current.key]
        BY <3>1, <1>0, CurrentPeer, CurrentHome DEF PeerInHand, PeerConfig
      <4>2. QED
        BY <2>1, <3>1, <4>1 DEF Keeps, IdAdded, Current
    <3>2. CASE task.at # "addEntry"
      BY <2>1, <3>2 DEF IdAdded
    <3>3. QED
      BY <3>1, <3>2
  <2>4. SenderLive'
    <3>1. CASE task.at \in {"roam", "payload"}
      <4>1. task.ip \in Ip
        BY <3>1, TaskKinds DEF Following
      <4>2. QED
        BY <2>1, <3>1, <4>1 DEF Keeps, SenderLive, Present, Live
    <3>2. CASE task.at \notin {"roam", "payload"}
      BY <2>1, <3>2 DEF SenderLive
    <3>3. QED
      BY <3>1, <3>2
  <2>5. QED
    BY <2>1, <2>2, <2>3, <2>4 DEF Keeps
<1>2. ASSUME NEW claim \in Announced, NEW e \in Ep, ReceiveHandshake(claim[1], claim[2], e)
      PROVE  HomeInv'
  <2>1. /\ Keeps
        /\ \A i \in Ip : peers'[i].relay \in {peers[i].relay, None}
        /\ task'.at = "establish"
    BY <1>2, DiscoveryHome, DiscoveryStep, AnnouncedAssumption DEF ReceiveHandshake
  <2>2. QED
    BY <1>0, <2>1 DEF Keeps, NoSelfRelay, TodoAtHome, IdAdded, SenderLive
<1>3. ASSUME NEW claim \in Announced, NEW e \in Maybe(Ep), ReceivePex(claim[1], claim[2], e)
      PROVE  HomeInv'
  <2>1. task.ip \in Ip /\ Present(task.ip) /\ Live(task.ip)
    BY <1>3, TaskKinds DEF ReceivePex, Following, SenderLive
  <2>2. Keeps /\ NoSelfRelay'
    BY <1>3, <2>1, PexHome DEF ReceivePex
  <2>3. QED
    BY <1>0, <1>3, <2>2 DEF ReceivePex, Keeps, TodoAtHome, IdAdded, SenderLive
<1>4. ASSUME NEW key \in Key, NEW src \in Ep, ReceiveData(key, src)
      PROVE  HomeInv'
  BY <1>4 DEF ReceiveData, tableVars, AtHome, IdIndexComplete, NoSelfRelay, Present,
             TodoAtHome, IdAdded, SenderLive
<1>5. ASSUME NEW key \in Key, NEW src \in Ep, ReceiveKeepalive(key, src)
      PROVE  HomeInv'
  BY <1>5 DEF ReceiveKeepalive, tableVars, AtHome, IdIndexComplete, NoSelfRelay, Present,
             TodoAtHome, IdAdded, SenderLive
<1>6. ASSUME NEW ip \in Ip, Expire(ip)
      PROVE  HomeInv'
  <2>1. /\ \A i \in Ip : peers'[i].key = peers[i].key /\ peers'[i].relay = peers[i].relay
        /\ \A i \in Ip \ {ip} : peers'[i] = peers[i]
        /\ UNCHANGED <<idMap, task>>
    BY <1>0, <1>6 DEF Expire, TableTypeOK, PeerEntry
  <2>2. Keeps /\ NoSelfRelay' /\ TodoAtHome' /\ IdAdded'
    BY <2>1, KeysKept DEF NoSelfRelay, TodoAtHome, IdAdded, Current
  <2>3. SenderLive'
    <3>1. CASE task.at \in {"roam", "payload"}
      <4>1. task.ip \in Ip \ {ip}
        BY <1>6, <3>1, TaskKinds DEF Expire, Following
      <4>2. QED
        BY <2>1, <3>1, <4>1 DEF SenderLive, Present, Live
    <3>2. CASE task.at \notin {"roam", "payload"}
      BY <2>1, <3>2 DEF SenderLive
    <3>3. QED
      BY <3>1, <3>2
  <2>4. QED
    BY <2>2, <2>3 DEF Keeps
<1>7. ASSUME NEW ip \in Ip, Judge(ip)
      PROVE  HomeInv'
  <2>1. task'.at \in {"purge", "drop"}
    BY <1>7, TaskKinds DEF Judge, Purging
  <2>2. QED
    BY <1>7, <2>1 DEF Judge, tableVars, AtHome, IdIndexComplete, NoSelfRelay, Present,
                      TodoAtHome, IdAdded, SenderLive
<1>8. ASSUME NEW ip \in Ip, ResolveAgain(ip)
      PROVE  HomeInv'
  BY <1>8 DEF ResolveAgain, tableVars, AtHome, IdIndexComplete, NoSelfRelay, Present,
              TodoAtHome, IdAdded, SenderLive
<1>9. ASSUME NEW config \in Configs, Reload(config)
      PROVE  HomeInv'
  BY <1>9 DEF Reload, Reading, OwnAddress, tableVars, AtHome, IdIndexComplete, NoSelfRelay,
             Present, TodoAtHome, IdAdded, SenderLive
<1>10. ASSUME EstablishSession
       PROVE  HomeInv'
  <2>1. /\ \A i \in Ip : peers'[i].key = peers[i].key /\ peers'[i].relay = peers[i].relay
        /\ UNCHANGED idMap /\ task'.at = "idle"
    BY <1>0, <1>10 DEF EstablishSession, TableTypeOK, PeerEntry
  <2>2. QED
    BY <2>1, KeysKept DEF Keeps, NoSelfRelay, TodoAtHome, IdAdded, SenderLive
<1>11. ASSUME Decrypt
       PROVE  HomeInv'
  <2>1. task.ip \in Ip /\ task.key \in Key
    BY <1>11, TaskKinds DEF Decrypt, Decrypting
  <2>2. /\ \A i \in Ip : peers'[i].key = peers[i].key /\ peers'[i].relay = peers[i].relay
        /\ UNCHANGED idMap
    BY <1>0, <1>11, <2>1 DEF Decrypt, TableTypeOK, PeerEntry
  <2>3. SenderLive' /\ task'.at \in {"idle", "roam", "payload"}
    BY <1>0, <1>11, <2>1, NoneAssumption
    DEF Decrypt, SenderLive, Present, Live, TableTypeOK, PeerEntry
  <2>4. QED
    BY <2>2, <2>3, KeysKept DEF Keeps, NoSelfRelay, TodoAtHome, IdAdded
<1>12. ASSUME Roam
       PROVE  HomeInv'
  <2>1. task \in Following
    BY <1>12, TaskKinds DEF Roam
  <2>2. task.ip \in Ip /\ task'.at = "payload" /\ task'.ip = task.ip
    BY <1>12, <2>1 DEF Roam, Following
  <2>3. /\ \A i \in Ip : /\ peers'[i].key = peers[i].key
                         /\ peers'[i].relay = peers[i].relay
                         /\ peers'[i].link = peers[i].link
        /\ UNCHANGED idMap
    BY <1>0, <1>12, <2>2
    DEF Roam, UpdateEndpointIfRoaming, SetEndpoint, TableTypeOK, PeerEntry
  <2>4. SenderLive'
    BY <1>12, <2>2, <2>3 DEF Roam, SenderLive, Present, Live
  <2>5. QED
    BY <2>2, <2>3, <2>4, KeysKept DEF Keeps, NoSelfRelay, TodoAtHome, IdAdded
<1>13. ASSUME ForwardPayload
       PROVE  HomeInv'
  BY <1>0, <1>13 DEF ForwardPayload, tableVars, AtHome, IdIndexComplete, NoSelfRelay,
                   Present, TodoAtHome, IdAdded, SenderLive
<1>14. ASSUME KeepaliveRoam
       PROVE  HomeInv'
  <2>1. task \in Following
    BY <1>14, TaskKinds DEF KeepaliveRoam
  <2>2. task.ip \in Ip /\ task'.at = "touch"
    BY <1>14, <2>1 DEF KeepaliveRoam, Following
  <2>3. /\ \A i \in Ip : peers'[i].key = peers[i].key /\ peers'[i].relay = peers[i].relay
        /\ UNCHANGED idMap
    BY <1>0, <1>14, <2>2
    DEF KeepaliveRoam, UpdateEndpointIfRoaming, SetEndpoint, TableTypeOK, PeerEntry
  <2>4. QED
    BY <2>2, <2>3, KeysKept DEF Keeps, NoSelfRelay, TodoAtHome, IdAdded, SenderLive
<1>15. ASSUME KeepaliveTouch
       PROVE  HomeInv'
  <2>1. task.ip \in Ip
    BY <1>15, TaskKinds DEF KeepaliveTouch, Following
  <2>2. /\ \A i \in Ip : peers'[i].key = peers[i].key /\ peers'[i].relay = peers[i].relay
        /\ UNCHANGED idMap /\ task'.at = "idle"
    BY <1>0, <1>15, <2>1 DEF KeepaliveTouch, TableTypeOK, PeerEntry
  <2>3. QED
    BY <2>2, KeysKept DEF Keeps, NoSelfRelay, TodoAtHome, IdAdded, SenderLive
<1>16. ASSUME ReloadEndpoint
       PROVE  HomeInv'
  <2>1. /\ task.at = "peer" /\ task.todo # <<>> /\ UNCHANGED idMap
        /\ \/ NextPeer /\ UNCHANGED peers
           \/ \E e : /\ UpdateEndpoint(Current.ip, e)
                     /\ task' = [task EXCEPT !.at = "pin"]
    BY <1>16 DEF ReloadEndpoint, tableVars
  <2>2. task \in Configuring /\ Current.ip \in Ip
    BY <2>1, TaskKinds, CurrentPeer DEF PeerConfig
  <2>3. /\ \A i \in Ip : peers'[i].key = peers[i].key /\ peers'[i].relay = peers[i].relay
    <3>1. CASE UNCHANGED peers
      BY <3>1
    <3>2. ASSUME NEW e, UpdateEndpoint(Current.ip, e)
          PROVE  \A i \in Ip : /\ peers'[i].key = peers[i].key
                             /\ peers'[i].relay = peers[i].relay
      BY <1>0, <2>2, <3>2 DEF UpdateEndpoint, SetEndpoint, TableTypeOK, PeerEntry
    <3>3. QED
      BY <2>1, <3>1, <3>2
  <2>4. TodoAtHome' /\ IdAdded' /\ SenderLive'
    <3>1. CASE NextPeer
      BY <2>1, <3>1, CurrentHome
    <3>2. CASE task' = [task EXCEPT !.at = "pin"]
      BY <2>1, <2>2, <3>2 DEF Configuring, TodoAtHome, IdAdded, SenderLive
    <3>3. QED
      BY <2>1, <3>1, <3>2
  <2>5. QED
    BY <2>1, <2>3, <2>4, KeysKept DEF Keeps, NoSelfRelay
<1>17. ASSUME ReloadPin
       PROVE  HomeInv'
  <2>1. Current.ip \in Ip /\ TodoAtHome' /\ IdAdded' /\ SenderLive'
    BY <1>0, <1>17, CurrentPeer, CurrentHome DEF ReloadPin, PeerInHand, PeerConfig
  <2>2. /\ \A i \in Ip : peers'[i].key = peers[i].key /\ peers'[i].relay = peers[i].relay
        /\ UNCHANGED idMap
    BY <1>0, <1>17, <2>1 DEF ReloadPin, TableTypeOK, PeerEntry
  <2>3. QED
    BY <2>1, <2>2, KeysKept DEF Keeps, NoSelfRelay
<1>18. ASSUME ReloadClear
       PROVE  HomeInv'
  <2>1. Current.ip \in Ip /\ TodoAtHome' /\ IdAdded' /\ SenderLive'
    BY <1>18, CurrentPeer, CurrentHome DEF ReloadClear, PeerConfig
  <2>2. /\ \A i \in Ip : peers'[i].key = peers[i].key /\ peers'[i].relay = peers[i].relay
        /\ UNCHANGED idMap
    BY <1>0, <1>18, <2>1 DEF ReloadClear, ClearEndpoint, TableTypeOK, PeerEntry
  <2>3. QED
    BY <2>1, <2>2, KeysKept DEF Keeps, NoSelfRelay
<1>19. ASSUME AddPeerEndpoint
       PROVE  HomeInv'
  <2>1. task \in Configuring
    BY <1>19, TaskKinds DEF AddPeerEndpoint
  <2>2. /\ task'.at = "addId" /\ task'.todo = task.todo
        /\ UNCHANGED <<peers, idMap>>
    BY <1>19, <2>1 DEF AddPeerEndpoint, Configuring
  <2>3. QED
    BY <1>19, <2>2, KeysKept
    DEF AddPeerEndpoint, Keeps, NoSelfRelay, TodoAtHome, IdAdded, SenderLive
<1>20. ASSUME AddPeerId
       PROVE  HomeInv'
  <2>1. /\ task \in Configuring /\ Current.key \in Key
        /\ Current.ip = home[Current.key]
    BY <1>0, <1>20, TaskKinds, CurrentPeer, CurrentHome DEF AddPeerId, PeerInHand, PeerConfig
  <2>2. task'.at = "addEntry" /\ task'.todo = task.todo
    BY <1>20, <2>1 DEF AddPeerId, Configuring
  <2>3. /\ idMap'[Current.key] = Current.ip
        /\ \A k \in Key \ {Current.key} : idMap'[k] = idMap[k]
        /\ UNCHANGED peers
    BY <1>0, <1>20, <2>1 DEF AddPeerId, AddId, Put, TableTypeOK
  <2>4. IdIndexComplete'
    BY <1>0, <2>1, <2>3 DEF IdIndexComplete, AtHome, Present, PeerEntry, Maybe
  <2>5. Current' = Current
    BY <2>2 DEF Current
  <2>6. IdAdded' /\ AtHome' /\ NoSelfRelay'
    BY <2>3, <2>5 DEF IdAdded, AtHome, NoSelfRelay, Present
  <2>7. TodoAtHome' /\ SenderLive'
    BY <1>20, <2>2 DEF AddPeerId, TodoAtHome, SenderLive
  <2>8. QED
    BY <2>4, <2>6, <2>7
<1>21. ASSUME AddPeerEntry
       PROVE  HomeInv'
  <2>1. /\ Current.ip \in Ip /\ Current.key \in Key
        /\ Current.ip = home[Current.key] /\ idMap[Current.key] = Current.ip
        /\ TodoAtHome' /\ IdAdded' /\ SenderLive'
    BY <1>0, <1>21, CurrentPeer, CurrentHome DEF AddPeerEntry, PeerInHand, PeerConfig, IdAdded
  <2>2. /\ peers'[Current.ip].key = Current.key /\ peers'[Current.ip].relay = None
        /\ \A i \in Ip \ {Current.ip} : peers'[i] = peers[i]
        /\ UNCHANGED idMap
    BY <1>0, <1>21, <2>1 DEF AddPeerEntry, AddEntry, TableTypeOK
  <2>3. AtHome' /\ IdIndexComplete' /\ NoSelfRelay'
    BY <1>0, <2>1, <2>2 DEF AtHome, IdIndexComplete, NoSelfRelay, Present
  <2>4. QED
    BY <2>1, <2>3
<1>22. ASSUME ConfigRead
       PROVE  HomeInv'
  <2>1. task'.at \in {"idle", "purge"} /\ UNCHANGED <<peers, idMap>>
    BY <1>0, <1>22 DEF ConfigRead, tableVars
  <2>2. QED
    BY <2>1, KeysKept DEF Keeps, NoSelfRelay, TodoAtHome, IdAdded, SenderLive
<1>23. ASSUME PurgeDone
       PROVE  HomeInv'
  BY <1>0, <1>23, KeysKept
  DEF PurgeDone, tableVars, Keeps, NoSelfRelay, TodoAtHome, IdAdded, SenderLive
<1>24. ASSUME Purge
       PROVE  HomeInv'
  <2>0. PICK ip \in Ip : ip = task.ip
    BY <1>0, <1>24, TaskKinds DEF Purge, Purging, DropTarget, Maybe
  <2>1. task'.at = "purge"
    BY <1>24, TaskKinds DEF Purge, Purging
  <2>2. peers' = [peers EXCEPT ![ip] = Absent] /\ idMap' = Drop(idMap, peers[ip].key)
    BY <1>24, <2>0 DEF Purge, PurgePeer, RemovePeer
  <2>3. /\ \A i \in Ip \ {ip} : peers'[i] = peers[i]
        /\ ~Present(ip)' /\ peers'[ip].relay = None
    BY <1>0, <2>1, <2>2 DEF TableTypeOK, Present, Absent
  <2>4. AtHome' /\ NoSelfRelay'
    BY <1>0, <2>1, <2>3 DEF AtHome, NoSelfRelay, Present
  <2>5. \A i \in Ip \ {ip} : Present(i) => /\ peers[i].key \in Key
                                         /\ peers[i].key # peers[ip].key
    BY <1>0, <2>1 DEF AtHome, Present, PeerEntry, Maybe
  <2>6. IdIndexComplete'
    BY <1>0, <2>1, <2>2, <2>3, <2>5 DEF IdIndexComplete, Present, Drop, Put, TableTypeOK
  <2>7. QED
    BY <2>1, <2>4, <2>6 DEF TodoAtHome, IdAdded, SenderLive
<1>25. ASSUME NEW e \in Maybe(Ep), Resolved(e)
       PROVE  HomeInv'
  <2>1. task.ip \in Ip /\ task'.at = "idle" /\ UNCHANGED idMap
    BY <1>0, <1>25, TaskKinds DEF Resolved, Resolving
  <2>2. \A i \in Ip : peers'[i].key = peers[i].key /\ peers'[i].relay = peers[i].relay
    BY <1>0, <1>25, <2>1 DEF Resolved, UpdateEndpoint, SetEndpoint, TableTypeOK, PeerEntry
  <2>3. QED
    BY <2>1, <2>2, KeysKept DEF Keeps, NoSelfRelay, TodoAtHome, IdAdded, SenderLive
<1>26. CASE UNCHANGED vars
  BY <1>26 DEF vars, tableVars, AtHome, IdIndexComplete, NoSelfRelay, Present, TodoAtHome,
              IdAdded, Current, SenderLive, Live
<1>27. QED
  BY <1>1, <1>2, <1>3, <1>4, <1>5, <1>6, <1>7, <1>8, <1>9, <1>10, <1>11, <1>12, <1>13,
     <1>14, <1>15, <1>16, <1>17, <1>18, <1>19, <1>20, <1>21, <1>22, <1>23, <1>24, <1>25,
     <1>26
  DEF Next

LEMMA HomeHolds == ASSUME OwnAddress PROVE Spec => []HomeInv
<1>1. Init => TableInv /\ HomeInv
  BY InitTableInv, InitHomeInv
<1>2. TableInv /\ HomeInv /\ [Next]_vars => TableInv' /\ HomeInv'
  BY TableStep, HomeStep
<1>3. QED
  BY <1>1, <1>2, PTL DEF Spec

\* Where every key keeps to an address of its own, a peer in the table is found
\* by its id, also while the listener steps into a reload
\* (PeerManager::find_ip_by_endpoint_or_id).
THEOREM IdsIndexed == ASSUME OwnAddress PROVE Spec => []IdIndexComplete
<1>1. HomeInv => IdIndexComplete
  BY DEF HomeInv
<1>2. QED
  BY <1>1, HomeHolds, PTL

\* There, too, no peer becomes its own relay (PeerManager::add_from_pex), with
\* the listener running and with any peer exchange.
THEOREM RelaysAreOthers == ASSUME OwnAddress PROVE Spec => []NoSelfRelay
<1>1. HomeInv => NoSelfRelay
  BY DEF HomeInv
<1>2. QED
  BY <1>1, HomeHolds, PTL

-----------------------------------------------------------------------------
(* What no step does, with and without the discovery listener. *)

\* What is not in the table has no configured endpoint.
Unpinned == \A ip \in Ip : ~Present(ip) => peers[ip].pinned = None

StepInv == TableInv /\ Unpinned

\* What a step does to the peer at ip.
PinKept(ip) ==
  peers[ip].pinned # None /\ peers'[ip].key = peers[ip].key =>
    peers'[ip].ep = peers[ip].ep /\ peers'[ip].pinned = peers[ip].pinned

RelayKept(ip) ==
  Present(ip) /\ peers'[ip].relay # peers[ip].relay /\ peers'[ip].relay # None =>
    peers[ip].relay # None /\ ~Live(ip)

UnpinnedAfter(ip) == peers'[ip].key = None => peers'[ip].pinned = None

\* The endpoint line is being used: the steps PinnedSticks excepts.
UsesLine == task.at \in {"peer", "pin", "addEntry", "resolve"} /\ task' # task

Keeping == \A ip \in Ip : (PinKept(ip) \/ UsesLine) /\ RelayKept(ip) /\ UnpinnedAfter(ip)

\* What Keeping gives, and where it comes from if only sessions change.
LEMMA LinksOnly ==
  ASSUME Unpinned,
         \A i \in Ip : /\ peers'[i].key = peers[i].key /\ peers'[i].ep = peers[i].ep
                       /\ peers'[i].pinned = peers[i].pinned /\ peers'[i].relay = peers[i].relay
  PROVE  Keeping
  BY DEF Keeping, PinKept, RelayKept, UnpinnedAfter, Unpinned, Present

\* A handshake or a broadcast keeps the endpoint of a pinned peer and gives nobody a
\* relay (update_from_discovery).
LEMMA DiscoveryKeeps ==
  ASSUME TableTypeOK, Unpinned, NEW key \in Key, NEW e \in Ep, NEW ip \in Ip,
         UpdateFromDiscovery(key, e, ip)
  PROVE  Keeping
<1>1. key # None /\ peers \in [Ip -> PeerEntry]
  BY NoneAssumption DEF TableTypeOK
<1>2. Absent.key = None /\ Absent.relay = None /\ Absent.pinned = None
  BY DEF Absent
<1>3. CASE Rediscover(key, e, ip)
  <2>1. ASSUME NEW i \in Ip
        PROVE  /\ peers'[i].key = peers[i].key /\ peers'[i].pinned = peers[i].pinned
               /\ peers[i].pinned # None => peers'[i].ep = peers[i].ep
               /\ peers'[i].relay \in {None, peers[i].relay}
    BY <1>1, <1>3 DEF Rediscover, PeerEntry
  <2>2. QED
    BY <2>1 DEF Keeping, PinKept, RelayKept, UnpinnedAfter, Unpinned, Present
<1>4. CASE Migrate(key, e, ip)
  <2>1. PICK old \in Ip : /\ peers[old].key = key
                          /\ peers' = [peers EXCEPT ![old] = Absent,
                                 ![ip] = [peers[old] EXCEPT !.ep = e, !.relay = None]]
    BY <1>4 DEF Migrate
  <2>2. peers[ip].key # key /\ ip # old
    BY <1>4, <2>1 DEF Migrate
  <2>3. /\ peers'[old] = Absent
        /\ peers'[ip] = [peers[old] EXCEPT !.ep = e, !.relay = None]
        /\ \A i \in Ip \ {ip, old} : peers'[i] = peers[i]
    BY <1>1, <2>1, <2>2
  <2>4. peers'[ip].key = key /\ peers'[ip].relay = None
    BY <1>1, <2>1, <2>3 DEF PeerEntry
  <2>5. QED
    BY <1>1, <1>2, <2>1, <2>2, <2>3, <2>4
    DEF Keeping, PinKept, RelayKept, UnpinnedAfter, Unpinned, Present
<1>5. CASE Meet(key, e, ip)
  <2>1. /\ peers'[ip].key = key /\ peers'[ip].relay = None
        /\ \A i \in Ip \ {ip} : peers'[i] = peers[i]
        /\ peers[ip].key # key
    BY <1>1, <1>2, <1>5 DEF Meet, Absent
  <2>2. QED
    BY <1>1, <2>1 DEF Keeping, PinKept, RelayKept, UnpinnedAfter, Unpinned, Present
<1>6. QED
  BY <1>3, <1>4, <1>5 DEF UpdateFromDiscovery

\* Peer exchange gives a relay only to a peer it brings in, or to one relayed and
\* silent (add_from_pex).
LEMMA PexKeeps ==
  ASSUME TableTypeOK, Unpinned, NEW key \in Key, NEW e \in Maybe(Ep), NEW ip \in Ip,
         NEW sender \in Ip, AddFromPex(ip, key, e, sender)
  PROVE  Keeping
<1>1. key # None /\ peers \in [Ip -> PeerEntry]
  BY NoneAssumption DEF TableTypeOK
<1>2. CASE UNCHANGED peers
  BY <1>2, LinksOnly
<1>3. CASE PexRelays(ip, key, sender)
  <2>1. /\ peers[ip].relay # None /\ ~Live(ip)
        /\ \A i \in Ip : /\ peers'[i].key = peers[i].key /\ peers'[i].ep = peers[i].ep
                         /\ peers'[i].pinned = peers[i].pinned
                         /\ i # ip => peers'[i].relay = peers[i].relay
    BY <1>1, <1>3 DEF PexRelays, DirectlyKnown, PeerEntry
  <2>2. QED
    BY <2>1 DEF Keeping, PinKept, RelayKept, UnpinnedAfter, Unpinned, Present
<1>4. CASE \E ep \in Maybe(Ep) : peers' = [peers EXCEPT
             ![ip] = [key |-> key, ep |-> ep, pinned |-> None, relay |-> sender, link |-> "idle"]]
           /\ ~Present(ip)
  <2>1. /\ peers'[ip].key = key /\ ~Present(ip)
        /\ \A i \in Ip \ {ip} : peers'[i] = peers[i]
    BY <1>1, <1>4
  <2>2. QED
    BY <1>1, <2>1 DEF Keeping, PinKept, RelayKept, UnpinnedAfter, Unpinned, Present
<1>5. CASE PexAdds(ip, key, e, sender)
  BY <1>4, <1>5 DEF PexAdds, Maybe
<1>6. QED
  BY <1>2, <1>3, <1>5 DEF AddFromPex

\* A roaming packet leaves a pinned peer alone (update_endpoint_if_roaming); the
\* other updates of an endpoint come from an endpoint line.
LEMMA EndpointKeeps ==
  ASSUME TableTypeOK, Unpinned, NEW ip \in Ip, NEW e \in Ep,
         \/ UpdateEndpointIfRoaming(ip, e)
         \/ UpdateEndpoint(ip, e) /\ UsesLine
         \/ ClearEndpoint(ip) /\ UsesLine
  PROVE  Keeping
<1>1. ASSUME NEW i \in Ip
      PROVE  /\ peers'[i].key = peers[i].key /\ peers'[i].relay = peers[i].relay
             /\ peers'[i].pinned \in {None, peers[i].pinned}
             /\ \/ UsesLine
                \/ peers'[i].pinned = peers[i].pinned
                   /\ (peers[i].pinned # None => peers'[i].ep = peers[i].ep)
  BY DEF UpdateEndpointIfRoaming, UpdateEndpoint, ClearEndpoint, SetEndpoint,
         TableTypeOK, PeerEntry
<1>2. QED
  BY <1>1 DEF Keeping, PinKept, RelayKept, UnpinnedAfter, Unpinned, Present

\* A step to the next peer of a configuration is one of the main loop.
LEMMA NextPeerMoves ==
  ASSUME task \in Configuring, task.todo # <<>>, NextPeer
  PROVE  task' # task
<1>1. task'.todo = Tail(task.todo) /\ task.todo \in Seq(PeerConfig)
  BY DEF NextPeer, Configuring
<1>2. Len(Tail(task.todo)) # Len(task.todo)
  BY <1>1
<1>3. QED
  BY <1>1, <1>2

LEMMA ReloadKeeps ==
  ASSUME StepInv,
         \/ ReloadEndpoint \/ ReloadPin \/ ReloadClear
         \/ AddPeerEndpoint \/ AddPeerId \/ AddPeerEntry
  PROVE  Keeping
<1> USE DEF StepInv, TableInv, TypeOK
<1>1. /\ task.at \in {"peer", "pin", "addId", "addEntry"} /\ task \in Configuring
      /\ task.todo # <<>> /\ Current \in PeerConfig /\ Current.ip \in Ip /\ Current.key # None
  <2>1. task.at \in {"peer", "pin", "addId", "addEntry"} /\ task.todo # <<>>
    BY DEF ReloadEndpoint, ReloadPin, ReloadClear, AddPeerEndpoint, AddPeerId, AddPeerEntry,
           PeerInHand
  <2>2. task \in Configuring /\ Current \in PeerConfig
    BY <2>1, TaskKinds, CurrentPeer
  <2>3. QED
    BY <2>1, <2>2, NoneAssumption DEF PeerConfig
<1>2. NextPeer => task' # task
  BY <1>1, NextPeerMoves
<1>3. ASSUME UNCHANGED peers PROVE Keeping
  BY <1>3, LinksOnly
<1>4. CASE ReloadEndpoint
  <2>1. PICK e \in Maybe(Ep) :
          \/ UNCHANGED peers
          \/ e \in Ep /\ UpdateEndpoint(Current.ip, e) /\ task' = [task EXCEPT !.at = "pin"]
    <3>1. Resolve(Current.target) \subseteq Maybe(Ep)
      BY <1>1, ResolveType
    <3>2. QED
      BY <1>4, <3>1 DEF ReloadEndpoint, tableVars, Maybe
  <2>2. ASSUME task' = [task EXCEPT !.at = "pin"] PROVE UsesLine
    BY <1>1, <1>4, <2>2 DEF ReloadEndpoint, UsesLine, Configuring
  <2>3. QED
    BY <1>1, <1>3, <2>1, <2>2, EndpointKeeps
<1>5. CASE ReloadPin
  <2>1. UsesLine
    BY <1>2, <1>5 DEF ReloadPin, UsesLine
  <2>2. \A i \in Ip : /\ peers'[i].key = peers[i].key /\ peers'[i].relay = peers[i].relay
                      /\ ~Present(i) => peers'[i].pinned = peers[i].pinned
    BY <1>1, <1>5 DEF ReloadPin, TableTypeOK, PeerEntry
  <2>3. QED
    BY <2>1, <2>2 DEF Keeping, RelayKept, UnpinnedAfter, Unpinned, Present
<1>6. CASE ReloadClear
  <2>1. UsesLine
    BY <1>2, <1>6 DEF ReloadClear, UsesLine
  <2>2. \A i \in Ip : /\ peers'[i].key = peers[i].key /\ peers'[i].relay = peers[i].relay
                      /\ peers'[i].pinned \in {None, peers[i].pinned}
    BY <1>1, <1>6 DEF ReloadClear, ClearEndpoint, TableTypeOK, PeerEntry
  <2>3. QED
    BY <2>1, <2>2 DEF Keeping, RelayKept, UnpinnedAfter, Unpinned, Present
<1>7. CASE AddPeerEndpoint \/ AddPeerId
  BY <1>3, <1>7 DEF AddPeerEndpoint, AddPeerId
<1>8. CASE AddPeerEntry
  <2>1. UsesLine
    BY <1>2, <1>8 DEF AddPeerEntry, UsesLine
  <2>2. /\ peers'[Current.ip].key = Current.key /\ peers'[Current.ip].relay = None
        /\ \A i \in Ip \ {Current.ip} : peers'[i] = peers[i]
    BY <1>1, <1>8 DEF AddPeerEntry, AddEntry, TableTypeOK
  <2>3. QED
    BY <1>1, <2>1, <2>2 DEF Keeping, RelayKept, UnpinnedAfter, Unpinned, Present
<1>9. QED
  BY <1>4, <1>5, <1>6, <1>7, <1>8

\* Every step keeps endpoint lines, relays and what is not in the table.
LEMMA StepsKeep == StepInv /\ [Next]_vars => Keeping
<1> SUFFICES ASSUME StepInv, [Next]_vars PROVE Keeping
  OBVIOUS
<1> USE DEF StepInv, TableInv, TypeOK
<1>1. ASSUME NEW claim \in Announced, NEW e \in Ep,
             HearBroadcast(claim[1], claim[2], e) \/ ReceiveHandshake(claim[1], claim[2], e)
      PROVE  Keeping
  <2>1. claim[1] \in Key /\ claim[2] \in Ip
    BY AnnouncedAssumption
  <2>2. QED
    BY <1>1, <2>1, DiscoveryKeeps DEF HearBroadcast, ReceiveHandshake
<1>2. ASSUME NEW claim \in Announced, NEW e \in Maybe(Ep), ReceivePex(claim[1], claim[2], e)
      PROVE  Keeping
  <2>1. claim[1] \in Key /\ claim[2] \in Ip
    BY AnnouncedAssumption
  <2>2. task.ip \in Ip
    BY <1>2, TaskKinds DEF ReceivePex, Following
  <2>3. QED
    BY <1>2, <2>1, <2>2, PexKeeps DEF ReceivePex
<1>3. ASSUME UNCHANGED peers PROVE Keeping
  BY <1>3, LinksOnly
<1>4. ASSUME NEW key \in Key, NEW src \in Ep, ReceiveData(key, src) \/ ReceiveKeepalive(key, src)
      PROVE  Keeping
  BY <1>3, <1>4 DEF ReceiveData, ReceiveKeepalive, tableVars
<1>5. ASSUME NEW ip \in Ip, Expire(ip) \/ ResolveAgain(ip) \/ Judge(ip)
      PROVE  Keeping
  <2>1. CASE Expire(ip)
    BY <2>1, LinksOnly DEF Expire, TableTypeOK, PeerEntry
  <2>2. QED
    BY <1>3, <1>5, <2>1 DEF ResolveAgain, Judge, tableVars
<1>6. ASSUME NEW e \in Maybe(Ep), Resolved(e)
      PROVE  Keeping
  <2>1. task.ip \in Ip
    BY <1>6, TaskKinds DEF Resolved, Resolving
  <2>2. UsesLine
    BY <1>6 DEF Resolved, UsesLine, Idle
  <2>3. QED
    BY <1>3, <1>6, <2>1, <2>2, EndpointKeeps DEF Resolved, Maybe
<1>7. CASE EstablishSession \/ Decrypt \/ KeepaliveTouch
  BY <1>7, LinksOnly DEF EstablishSession, Decrypt, KeepaliveTouch, TableTypeOK, PeerEntry
<1>8. CASE Roam \/ KeepaliveRoam
  <2>1. task.ip \in Ip /\ task.src \in Ep
    BY <1>8, TaskKinds DEF Roam, KeepaliveRoam, Following
  <2>2. QED
    BY <1>3, <1>8, <2>1, EndpointKeeps DEF Roam, KeepaliveRoam
<1>9. CASE (\E config \in Configs : Reload(config)) \/ ForwardPayload \/ ConfigRead \/ PurgeDone
  BY <1>3, <1>9 DEF Reload, ForwardPayload, ConfigRead, PurgeDone, tableVars
<1>10. CASE Purge
  <2>1. task.ip \in Ip
    BY <1>10, TaskKinds DEF Purge, Purging, DropTarget, Maybe
  <2>2. peers'[task.ip] = Absent /\ \A i \in Ip \ {task.ip} : peers'[i] = peers[i]
    BY <1>10, <2>1 DEF Purge, PurgePeer, RemovePeer, TableTypeOK
  <2>3. QED
    BY <2>1, <2>2 DEF Absent, Keeping, PinKept, RelayKept, UnpinnedAfter, Unpinned, Present
<1>11. CASE UNCHANGED vars
  BY <1>3, <1>11 DEF vars, tableVars
<1>12. QED
  BY <1>1, <1>2, <1>4, <1>5, <1>6, <1>7, <1>8, <1>9, <1>10, <1>11, ReloadKeeps DEF Next

LEMMA StepInvHolds == Spec => []StepInv
<1>1. Init => StepInv
  <2>1. ASSUME Init PROVE Unpinned
    BY <2>1 DEF Init, InitTable, Absent, Unpinned
  <2>2. QED
    BY <2>1, InitTableInv DEF StepInv
<1>2. StepInv /\ [Next]_vars => StepInv'
  <2>1. ASSUME Keeping PROVE Unpinned'
    BY <2>1 DEF Keeping, UnpinnedAfter, Unpinned, Present
  <2>2. QED
    BY <2>1, StepsKeep, TableStep DEF StepInv
<1>3. QED
  BY <1>1, <1>2, PTL DEF Spec

\* The endpoint of a configured peer changes only where its endpoint line is resolved
\* or reloaded (update_endpoint_if_roaming, update_from_discovery).
THEOREM PinnedAlwaysSticks == Spec => PinnedSticks
<1>1. StepInv /\ [Next]_vars =>
        [\A ip \in Ip :
           /\ peers[ip].pinned # None /\ peers'[ip].key = peers[ip].key
           /\ ~(task.at \in {"peer", "pin", "addEntry", "resolve"} /\ task' # task)
           => peers'[ip].ep = peers[ip].ep /\ peers'[ip].pinned = peers[ip].pinned]_vars
  BY StepsKeep DEF Keeping, PinKept, UsesLine
<1>2. QED
  BY <1>1, StepInvHolds, PTL DEF Spec, PinnedSticks

\* A peer known directly never becomes a relayed one in a step (add_from_pex,
\* update_from_discovery).
THEOREM DirectAlwaysStaysDirect == Spec => DirectStaysDirect
<1>1. StepInv /\ [Next]_vars =>
        [\A ip \in Ip :
           /\ Present(ip) /\ peers'[ip].relay # peers[ip].relay
           /\ peers'[ip].relay # None
           => peers[ip].relay # None /\ ~Live(ip)]_vars
  BY StepsKeep DEF Keeping, RelayKept
<1>2. QED
  BY <1>1, StepInvHolds, PTL DEF Spec, DirectStaysDirect

-----------------------------------------------------------------------------
(* The endpoint index, where only the main loop touches the table.         *)

\* config.toml lists no key twice: Config::load has collapsed those that did.
KeysOnce ==
  \A config \in Configs : \A i, j \in DOMAIN config : config[i].key = config[j].key => i = j

\* The index sends no packet to another peer, and what is not in the table has no
\* endpoint.
Indexed == \A e \in Ep : epMap[e] # None => peers[epMap[e]].ep = e
NoGhost == \A ip \in Ip : ~Present(ip) => peers[ip].ep = None

\* The peers that a configuration is yet to add are in it once, and not in the table.
TodoNew ==
  task.at \in {"peer", "pin", "addId", "addEntry"} =>
    /\ \A i, j \in DOMAIN task.todo : task.todo[i].ip = task.todo[j].ip => i = j
    /\ \A j \in DOMAIN task.todo :
         task.todo[j].ip \notin task.existing => ~Present(task.todo[j].ip)

Adding == task.at \in {"addId", "addEntry"}
AddsNew == Adding => Current.ip \notin task.existing

EpInv == EpIndexSound /\ NoGhost /\ TodoNew /\ AddsNew

LEMMA SoundOrAdding ==
  /\ EpInv /\ ~Adding => Indexed
  /\ Indexed => EpIndexSound
  BY DEF EpInv, EpIndexSound, Indexed, Adding

\* No endpoint and no key changes, nor the index.
LEMMA IndexStays ==
  ASSUME TableTypeOK, Indexed, NoGhost, UNCHANGED epMap,
         \A i \in Ip : peers'[i].ep = peers[i].ep /\ peers'[i].key = peers[i].key
  PROVE  Indexed' /\ NoGhost'
<1>1. \A e \in Ep : epMap[e] # None => epMap[e] \in Ip
  BY DEF TableTypeOK, Maybe
<1>2. QED
  BY <1>1 DEF Indexed, NoGhost, Present

\* The endpoint of one peer becomes e, or none, and the index follows: its old
\* mapping goes and its new one takes over.
LEMMA IndexMoves ==
  ASSUME TableTypeOK, Indexed, NoGhost, NEW ip \in Ip, NEW e \in Maybe(Ep),
         \A f \in Ep : epMap'[f] = IF f = e THEN ip
                                   ELSE IF f = peers[ip].ep THEN None ELSE epMap[f],
         peers'[ip].ep = e, peers'[ip].key = None => e = None,
         \A i \in Ip \ {ip} : peers'[i].ep = peers[i].ep /\ peers'[i].key = peers[i].key
  PROVE  Indexed' /\ NoGhost'
<1>1. \A f \in Ep : epMap[f] # None => epMap[f] \in Ip
  BY DEF TableTypeOK, Maybe
<1>2. ASSUME NEW f \in Ep, epMap'[f] # None
      PROVE  peers'[epMap'[f]].ep = f
  <2>1. CASE f = e
    BY <2>1
  <2>2. CASE f # e
    <3>1. f # peers[ip].ep /\ epMap'[f] = epMap[f]
      BY <1>2, <2>2
    <3>2. epMap[f] \in Ip /\ peers[epMap[f]].ep = f
      BY <1>1, <1>2, <3>1 DEF Indexed
    <3>3. QED
      BY <3>1, <3>2
  <2>3. QED
    BY <2>1, <2>2
<1>3. QED
  BY <1>2 DEF Indexed, NoGhost, Present

\* update_endpoint, update_endpoint_if_roaming, clear_endpoint and remove_peer.
LEMMA EndpointIndex ==
  ASSUME TableTypeOK, Indexed, NoGhost, NEW ip \in Ip, NEW e \in Maybe(Ep),
         \/ UpdateEndpoint(ip, e)
         \/ UpdateEndpointIfRoaming(ip, e)
         \/ ClearEndpoint(ip)
         \/ RemovePeer(ip)
  PROVE  Indexed' /\ NoGhost'
<1>1. DOMAIN epMap = Ep /\ None \notin Ep /\ None \in Maybe(Ep)
  BY NoneAssumption DEF TableTypeOK, Maybe
<1>2. CASE UNCHANGED <<peers, epMap>>
  BY <1>2, IndexStays
<1>3. CASE Present(ip) /\ SetEndpoint(ip, e)
  <2>1. /\ peers'[ip].ep = e /\ peers'[ip].key # None
        /\ \A i \in Ip \ {ip} : peers'[i] = peers[i]
    BY <1>3 DEF SetEndpoint, TableTypeOK, PeerEntry, Present
  <2>2. \A f \in Ep : epMap'[f] = IF f = e THEN ip
                                  ELSE IF f = peers[ip].ep THEN None ELSE epMap[f]
    BY <1>1, <1>3 DEF SetEndpoint, Put, Drop
  <2>3. QED
    BY <1>1, <2>1, <2>2, IndexMoves
<1>4. CASE ClearEndpoint(ip) \/ RemovePeer(ip)
  <2>1. /\ peers'[ip].ep = None
        /\ \A i \in Ip \ {ip} : peers'[i] = peers[i]
    BY <1>4 DEF ClearEndpoint, RemovePeer, Absent, TableTypeOK, PeerEntry
  <2>2. \A f \in Ep : epMap'[f] = IF f = None THEN ip
                                  ELSE IF f = peers[ip].ep THEN None ELSE epMap[f]
    BY <1>1, <1>4 DEF ClearEndpoint, RemovePeer, Put, Drop
  <2>3. QED
    BY <1>1, <2>1, <2>2, IndexMoves
<1>5. QED
  BY <1>2, <1>3, <1>4 DEF UpdateEndpoint, UpdateEndpointIfRoaming

\* update_from_discovery, where no peer has another address than its own.
LEMMA DiscoveryIndex ==
  ASSUME TableTypeOK, OwnAddress, AtHome, Indexed, NoGhost,
         NEW claim \in Announced, NEW e \in Ep, UpdateFromDiscovery(claim[1], e, claim[2])
  PROVE  Indexed' /\ NoGhost'
<1> DEFINE key == claim[1]
           ip  == claim[2]
<1>1. /\ key \in Key /\ ip \in Ip /\ ip = home[key] /\ key # None
      /\ DOMAIN epMap = Ep /\ None \notin Ep /\ e \in Maybe(Ep)
  BY AnnouncedAssumption, NoneAssumption DEF OwnAddress, TableTypeOK, Maybe
<1> HIDE DEF key, ip
<1>2. CASE Rediscover(key, e, ip) /\ peers[ip].pinned # None
  <2>1. /\ \A i \in Ip : peers'[i].ep = peers[i].ep /\ peers'[i].key = peers[i].key
        /\ UNCHANGED epMap
    BY <1>1, <1>2 DEF Rediscover, TableTypeOK, PeerEntry
  <2>2. QED
    BY <2>1, IndexStays
<1>3. CASE \/ Rediscover(key, e, ip) /\ peers[ip].pinned = None
           \/ Meet(key, e, ip)
  <2>1. /\ peers'[ip].ep = e /\ peers'[ip].key # None
        /\ \A i \in Ip \ {ip} : peers'[i] = peers[i]
    <3>1. CASE Rediscover(key, e, ip) /\ peers[ip].pinned = None
      BY <1>1, <3>1 DEF Rediscover, TableTypeOK, PeerEntry
    <3>2. CASE Meet(key, e, ip)
      BY <1>1, <3>2 DEF Meet, TableTypeOK, Absent
    <3>3. QED
      BY <1>3, <3>1, <3>2
  <2>2. \A f \in Ep : epMap'[f] = IF f = e THEN ip
                                  ELSE IF f = peers[ip].ep THEN None ELSE epMap[f]
    BY <1>1, <1>3 DEF Rediscover, Meet, Put, Drop
  <2>3. QED
    BY <1>1, <2>1, <2>2, IndexMoves
<1>4. ~Migrate(key, e, ip)
  BY <1>1 DEF Migrate, AtHome, Present
<1>5. QED
  BY <1>2, <1>3, <1>4 DEF UpdateFromDiscovery, key, ip

\* add_from_pex: a peer it adds was not there, so nothing maps to its address.
LEMMA PexIndex ==
  ASSUME TableTypeOK, Indexed, NoGhost, NEW key \in Key, NEW ip \in Ip,
         NEW e \in Maybe(Ep), NEW sender \in Ip, AddFromPex(ip, key, e, sender)
  PROVE  Indexed' /\ NoGhost'
<1>1. CASE UNCHANGED <<peers, epMap>>
  BY <1>1, IndexStays
<1>2. CASE PexRelays(ip, key, sender)
  <2>1. /\ \A i \in Ip : peers'[i].ep = peers[i].ep /\ peers'[i].key = peers[i].key
        /\ UNCHANGED epMap
    BY <1>2 DEF PexRelays, TableTypeOK, PeerEntry
  <2>2. QED
    BY <2>1, IndexStays
<1>3. CASE PexAdds(ip, key, e, sender)
  <2> DEFINE ep == IF e \in Routable THEN e ELSE None
  <2>1. /\ ep \in Maybe(Ep) /\ DOMAIN epMap = Ep /\ None \notin Ep /\ key # None
        /\ peers[ip].ep = None
    BY <1>3, NoneAssumption, RoutableAssumption DEF TableTypeOK, Maybe, PexAdds, NoGhost
  <2>2. /\ peers'[ip].ep = ep /\ peers'[ip].key # None
        /\ \A i \in Ip \ {ip} : peers'[i] = peers[i]
    BY <1>3, <2>1 DEF PexAdds, TableTypeOK
  <2>3. epMap' = Put(epMap, ep, ip)
    BY <1>3 DEF PexAdds
  <2> HIDE DEF ep
  <2>4. \A f \in Ep : epMap'[f] = IF f = ep THEN ip
                                  ELSE IF f = peers[ip].ep THEN None ELSE epMap[f]
    BY <2>1, <2>3 DEF Put
  <2>5. QED
    BY <2>1, <2>2, <2>4, IndexMoves
<1>4. QED
  BY <1>1, <1>2, <1>3 DEF AddFromPex

LEMMA PeersOfList ==
  ASSUME NEW list \in Seq(PeerConfig), NEW j \in DOMAIN list
  PROVE  list[j].key \in Key /\ list[j].ip \in Ip
<1>1. list[j] \in PeerConfig
  OBVIOUS
<1>2. QED
  BY <1>1 DEF PeerConfig

\* The peer in hand is new if it was not in the snapshot, and the step to the next one.
LEMMA NextPeerNew ==
  ASSUME TypeOK, TodoNew, task.at \in {"peer", "pin", "addId", "addEntry"},
         task.todo # <<>>
  PROVE  /\ Current.ip \notin task.existing => ~Present(Current.ip)
         /\ NextPeer /\ (\A i \in Ip \ {Current.ip} : peers'[i].key = peers[i].key)
              => TodoNew' /\ ~Adding' /\ AddsNew'
<1>1. task \in Configuring /\ task.todo \in Seq(PeerConfig)
  BY TaskKinds DEF TypeOK, Configuring
<1>2. 1 \in DOMAIN task.todo /\ Current = task.todo[1]
  BY <1>1 DEF Current
<1>3. \A j \in DOMAIN Tail(task.todo) :
        /\ j + 1 \in DOMAIN task.todo /\ j + 1 # 1 /\ Tail(task.todo)[j] = task.todo[j + 1]
        /\ task.todo[j + 1] \in PeerConfig
  BY <1>1
<1>4. ASSUME NextPeer
      PROVE  /\ task'.at = "peer" /\ task'.todo = Tail(task.todo)
             /\ task'.existing = task.existing
  BY <1>1, <1>4 DEF NextPeer, Configuring
<1>5. /\ \A i, j \in DOMAIN task.todo : task.todo[i].ip = task.todo[j].ip => i = j
      /\ \A j \in DOMAIN task.todo :
           task.todo[j].ip \notin task.existing => ~Present(task.todo[j].ip)
  BY DEF TodoNew
<1>6. ASSUME NextPeer, \A i \in Ip \ {Current.ip} : peers'[i].key = peers[i].key
      PROVE  TodoNew' /\ ~Adding' /\ AddsNew'
  <2>1. ~Adding' /\ AddsNew'
    BY <1>4, <1>6 DEF Adding, AddsNew
  <2>2. \A i, j \in DOMAIN Tail(task.todo) :
          Tail(task.todo)[i].ip = Tail(task.todo)[j].ip => i = j
    BY <1>1, <1>3, <1>5
  <2>3. ASSUME NEW j \in DOMAIN Tail(task.todo), Tail(task.todo)[j].ip \notin task.existing
        PROVE  peers'[Tail(task.todo)[j].ip].key = None
    <3>1. task.todo[j + 1].ip \in Ip \ {Current.ip} /\ ~Present(task.todo[j + 1].ip)
      BY <1>2, <1>3, <1>5, <2>3 DEF PeerConfig
    <3>2. QED
      BY <1>3, <1>6, <3>1 DEF Present
  <2>4. QED
    BY <1>4, <1>6, <2>1, <2>2, <2>3 DEF TodoNew, Present
<1>7. QED
  BY <1>2, <1>5, <1>6

\* The steps of a reload, or of a start.
LEMMA ReloadIndex ==
  ASSUME TableInv, EpInv,
         \/ ReloadEndpoint \/ ReloadPin \/ ReloadClear
         \/ AddPeerEndpoint \/ AddPeerId \/ AddPeerEntry
  PROVE  EpInv'
<1> USE DEF TableInv, TypeOK
<1>1. /\ task.at \in {"peer", "pin", "addId", "addEntry"} /\ task \in Configuring
      /\ task.todo # <<>> /\ Current \in PeerConfig /\ Current.ip \in Ip /\ Current.key # None
      /\ TodoNew /\ NoGhost
  <2>1. task.at \in {"peer", "pin", "addId", "addEntry"} /\ task.todo # <<>>
    BY DEF ReloadEndpoint, ReloadPin, ReloadClear, AddPeerEndpoint, AddPeerId, AddPeerEntry,
           PeerInHand
  <2>2. task \in Configuring /\ Current \in PeerConfig
    BY <2>1, TaskKinds, CurrentPeer
  <2>3. QED
    BY <2>1, <2>2, NoneAssumption DEF PeerConfig, EpInv
<1>2. ASSUME NextPeer, \A i \in Ip \ {Current.ip} : peers'[i].key = peers[i].key,
             Indexed', NoGhost'
      PROVE  EpInv'
  <2>1. TodoNew' /\ AddsNew'
    BY <1>1, <1>2, NextPeerNew
  <2>2. EpIndexSound'
    BY <1>2 DEF Indexed, EpIndexSound
  <2>3. QED
    BY <1>2, <2>1, <2>2 DEF EpInv
<1>3. CASE ReloadEndpoint
  <2>1. Indexed
    BY <1>3, SoundOrAdding DEF ReloadEndpoint, Adding
  <2>2. PICK e \in Maybe(Ep) :
          \/ NextPeer /\ UNCHANGED tableVars
          \/ UpdateEndpoint(Current.ip, e) /\ task' = [task EXCEPT !.at = "pin"]
    BY <1>3, ResolveType DEF ReloadEndpoint
  <2>3. CASE NextPeer /\ UNCHANGED tableVars
    BY <1>1, <1>2, <2>1, <2>3 DEF tableVars, Indexed, NoGhost, Present
  <2>4. CASE UpdateEndpoint(Current.ip, e) /\ task' = [task EXCEPT !.at = "pin"]
    <3>1. Indexed' /\ NoGhost'
      BY <1>1, <2>1, <2>4, EndpointIndex
    <3>2. \A i \in Ip : peers'[i].key = peers[i].key
      BY <1>1, <2>4 DEF UpdateEndpoint, SetEndpoint, TableTypeOK, PeerEntry
    <3>3. task'.at = "pin" /\ task'.todo = task.todo /\ task'.existing = task.existing
      BY <1>1, <2>4 DEF Configuring
    <3>4. \A j \in DOMAIN task.todo : task.todo[j].ip \in Ip
      BY <1>1, PeersOfList DEF Configuring
    <3>5. TodoNew'
      BY <1>1, <3>2, <3>3, <3>4 DEF TodoNew, Present
    <3>6. QED
      BY <3>1, <3>3, <3>5 DEF EpInv, Indexed, EpIndexSound, AddsNew, Adding
  <2>5. QED
    BY <2>2, <2>3, <2>4
<1>4. CASE ReloadPin
  <2>1. Indexed
    BY <1>4, SoundOrAdding DEF ReloadPin, Adding
  <2>2. /\ \A i \in Ip : peers'[i].ep = peers[i].ep /\ peers'[i].key = peers[i].key
        /\ UNCHANGED epMap /\ NextPeer
    BY <1>1, <1>4 DEF ReloadPin, TableTypeOK, PeerEntry
  <2>3. QED
    BY <1>1, <1>2, <2>1, <2>2, IndexStays
<1>5. CASE ReloadClear
  <2>1. Indexed
    BY <1>5, SoundOrAdding DEF ReloadClear, Adding
  <2>2. NextPeer /\ \A i \in Ip \ {Current.ip} : peers'[i].key = peers[i].key
    BY <1>1, <1>5 DEF ReloadClear, ClearEndpoint, TableTypeOK, PeerEntry
  <2>3. None \in Maybe(Ep)
    BY DEF Maybe
  <2>4. Indexed' /\ NoGhost'
    BY <1>1, <1>5, <2>1, <2>3, EndpointIndex DEF ReloadClear
  <2>5. QED
    BY <1>2, <2>2, <2>4
<1>6. CASE AddPeerEndpoint
  <2>1. PICK e \in Maybe(Ep) :
          /\ epMap' = Put(epMap, e, Current.ip)
          /\ task' = [task EXCEPT !.at = "addId", !.ep = e]
    BY <1>6, ResolveType DEF AddPeerEndpoint, AddEndpoint
  <2>2. Indexed /\ UNCHANGED peers /\ Current.ip \notin task.existing
    BY <1>6, SoundOrAdding DEF AddPeerEndpoint, Adding
  <2>3. /\ task'.at = "addId" /\ task'.todo = task.todo /\ task'.existing = task.existing
        /\ task'.ep = e /\ Current' = Current
    BY <1>1, <2>1 DEF Configuring, Current
  <2>4. \A f \in Ep : epMap'[f] = IF f = e THEN Current.ip ELSE epMap[f]
    BY <2>1 DEF Put, TableTypeOK
  <2>5. EpIndexSound'
    BY <2>2, <2>3, <2>4 DEF EpIndexSound, Indexed
  <2>6. QED
    BY <1>1, <2>2, <2>3, <2>5 DEF EpInv, NoGhost, TodoNew, AddsNew, Present
<1>7. CASE AddPeerId
  <2>1. /\ task'.at = "addEntry" /\ task'.todo = task.todo /\ task'.existing = task.existing
        /\ task'.ep = task.ep /\ Current' = Current
        /\ task.at = "addId" /\ UNCHANGED <<peers, epMap>>
    BY <1>1, <1>7 DEF AddPeerId, Configuring, Current
  <2>2. QED
    BY <2>1 DEF EpInv, EpIndexSound, NoGhost, TodoNew, AddsNew, Adding, Present
<1>8. CASE AddPeerEntry
  <2>1. Current.ip \notin task.existing
    BY <1>8 DEF AddPeerEntry, EpInv, AddsNew, Adding
  <2>2. peers[Current.ip].ep = None
    BY <1>1, <2>1, NextPeerNew DEF NoGhost
  <2>3. /\ peers'[Current.ip].key # None /\ peers'[Current.ip].ep = task.ep
        /\ \A i \in Ip \ {Current.ip} : peers'[i] = peers[i]
        /\ UNCHANGED epMap /\ NextPeer
    BY <1>1, <1>8 DEF AddPeerEntry, AddEntry, TableTypeOK
  <2>4. ASSUME NEW f \in Ep, epMap[f] # None
        PROVE  peers'[epMap[f]].ep = f
    <3>1. epMap[f] \in Ip /\ f # None
      BY <2>4, NoneAssumption DEF TableTypeOK, Maybe
    <3>2. peers[epMap[f]].ep = f \/ (Current.ip = epMap[f] /\ task.ep = f)
      BY <2>4 DEF EpInv, EpIndexSound
    <3>3. QED
      BY <2>2, <2>3, <3>1, <3>2
  <2>5. Indexed' /\ NoGhost'
    BY <1>1, <2>3, <2>4 DEF Indexed, NoGhost, Present
  <2>6. QED
    BY <1>2, <2>3, <2>5
<1>9. QED
  BY <1>3, <1>4, <1>5, <1>6, <1>7, <1>8

\* With an address of its own for every key, no address is listed twice either.
LEMMA AddressesOnce ==
  ASSUME OwnAddress, KeysOnce, NEW config \in Configs
  PROVE  \A i, j \in DOMAIN config : config[i].ip = config[j].ip => i = j
<1>1. \A j \in DOMAIN config : config[j].key \in Key /\ config[j].ip = home[config[j].key]
  BY ConfigsAssumption, PeersOfList DEF OwnAddress
<1>2. QED
  BY <1>1 DEF OwnAddress, KeysOnce

\* The other steps leave every configuration behind, or the table alone.
LEMMA IndexStep ==
  ~Discovery /\ OwnAddress /\ KeysOnce /\ TableInv /\ HomeInv /\ EpInv /\ [Next]_vars => EpInv'
<1> SUFFICES ASSUME ~Discovery, OwnAddress, KeysOnce, TableInv, HomeInv, EpInv, [Next]_vars
             PROVE  EpInv'
  OBVIOUS
<1> USE DEF TableInv, TypeOK
<1>0. /\ TableTypeOK /\ task \in Task /\ NoGhost /\ AtHome /\ Idle.at = "idle"
      /\ task.at \notin {"addId", "addEntry"} => Indexed
  BY SoundOrAdding DEF EpInv, HomeInv, Idle, Adding
<1>1. ASSUME Indexed', NoGhost', task'.at \notin {"peer", "pin", "addId", "addEntry"}
      PROVE  EpInv'
  BY <1>1 DEF EpInv, Indexed, EpIndexSound, TodoNew, AddsNew, Adding
<1>2. ASSUME Indexed, UNCHANGED tableVars,
             task'.at \notin {"peer", "pin", "addId", "addEntry"}
      PROVE  EpInv'
  BY <1>0, <1>1, <1>2 DEF tableVars, Indexed, NoGhost, Present
<1>3. ASSUME NEW claim \in Announced, NEW e \in Ep,
             HearBroadcast(claim[1], claim[2], e) \/ ReceiveHandshake(claim[1], claim[2], e)
      PROVE  EpInv'
  BY <1>0, <1>1, <1>3, DiscoveryIndex DEF HearBroadcast, ReceiveHandshake
<1>4. ASSUME NEW claim \in Announced, NEW e \in Maybe(Ep), ReceivePex(claim[1], claim[2], e)
      PROVE  EpInv'
  <2>1. claim[1] \in Key /\ claim[2] \in Ip
    BY AnnouncedAssumption
  <2>2. task.ip \in Ip
    BY <1>4, TaskKinds DEF ReceivePex, Following
  <2>3. QED
    BY <1>0, <1>1, <1>4, <2>1, <2>2, PexIndex DEF ReceivePex
<1>5. ASSUME NEW key \in Key, NEW src \in Ep, ReceiveData(key, src) \/ ReceiveKeepalive(key, src)
      PROVE  EpInv'
  BY <1>0, <1>2, <1>5 DEF ReceiveData, ReceiveKeepalive
<1>6. ASSUME NEW ip \in Ip, Expire(ip)
      PROVE  EpInv'
  <2>1. /\ \A i \in Ip : peers'[i].ep = peers[i].ep /\ peers'[i].key = peers[i].key
        /\ UNCHANGED <<epMap, task>>
    BY <1>6 DEF Expire, TableTypeOK, PeerEntry
  <2>2. \A e \in Ep : epMap[e] # None => epMap[e] \in Ip
    BY DEF TableTypeOK, Maybe
  <2>3. EpIndexSound' /\ NoGhost' /\ AddsNew'
    BY <2>1, <2>2 DEF EpInv, EpIndexSound, NoGhost, AddsNew, Adding, Current, Present
  <2>4. TodoNew'
    <3>1. CASE task.at \in {"peer", "pin", "addId", "addEntry"}
      <4>1. \A j \in DOMAIN task.todo : task.todo[j].ip \in Ip
        BY <3>1, TaskKinds, PeersOfList DEF Configuring
      <4>2. QED
        BY <2>1, <4>1 DEF EpInv, TodoNew, Present
    <3>2. CASE task.at \notin {"peer", "pin", "addId", "addEntry"}
      BY <2>1, <3>2 DEF TodoNew
    <3>3. QED
      BY <3>1, <3>2
  <2>5. QED
    BY <2>3, <2>4 DEF EpInv
<1>7. ASSUME NEW ip \in Ip, ResolveAgain(ip) \/ Judge(ip)
      PROVE  EpInv'
  <2>1. task.at \in {"idle", "purge"} /\ task'.at \in {"resolve", "purge", "drop"}
    <3>1. CASE ResolveAgain(ip)
      BY <1>0, <3>1 DEF ResolveAgain
    <3>2. CASE Judge(ip)
      BY <3>2, TaskKinds DEF Judge, Purging
    <3>3. QED
      BY <1>7, <3>1, <3>2
  <2>2. QED
    BY <1>0, <1>2, <1>7, <2>1 DEF ResolveAgain, Judge
<1>8. ASSUME NEW e \in Maybe(Ep), Resolved(e)
      PROVE  EpInv'
  <2>1. task.ip \in Ip /\ Indexed /\ task'.at = "idle"
    BY <1>0, <1>8, TaskKinds DEF Resolved, Resolving
  <2>2. Indexed' /\ NoGhost'
    BY <1>0, <1>8, <2>1, EndpointIndex, IndexStays DEF Resolved
  <2>3. QED
    BY <1>1, <2>1, <2>2
<1>9. CASE EstablishSession \/ Decrypt \/ KeepaliveTouch
  <2>1. /\ \A i \in Ip : peers'[i].ep = peers[i].ep /\ peers'[i].key = peers[i].key
        /\ UNCHANGED epMap
    BY <1>9 DEF EstablishSession, Decrypt, KeepaliveTouch, TableTypeOK, PeerEntry
  <2>2. Indexed /\ task'.at \in {"idle", "roam", "payload"}
    BY <1>0, <1>9 DEF EstablishSession, Decrypt, KeepaliveTouch
  <2>3. QED
    BY <1>0, <1>1, <2>1, <2>2, IndexStays
<1>10. CASE Roam \/ KeepaliveRoam
  <2>1. task.ip \in Ip /\ task.src \in Maybe(Ep) /\ Indexed
    BY <1>0, <1>10, TaskKinds DEF Roam, KeepaliveRoam, Following, Maybe
  <2>2. task'.at \in {"payload", "touch"}
    BY <1>0, <1>10, TaskKinds DEF Roam, KeepaliveRoam, Following
  <2>3. Indexed' /\ NoGhost'
    BY <1>0, <1>10, <2>1, EndpointIndex, IndexStays DEF Roam, KeepaliveRoam
  <2>4. QED
    BY <1>1, <2>2, <2>3
<1>11. CASE ForwardPayload \/ ConfigRead \/ PurgeDone
  <2>1. Indexed /\ UNCHANGED tableVars /\ task'.at \in {"idle", "purge"}
    BY <1>0, <1>11 DEF ForwardPayload, ConfigRead, PurgeDone
  <2>2. QED
    BY <1>2, <2>1
<1>12. CASE Purge
  <2>1. task.ip \in Ip /\ Indexed /\ task'.at = "purge" /\ None \in Maybe(Ep)
    BY <1>0, <1>12, TaskKinds DEF Purge, Purging, DropTarget, Maybe
  <2>2. Indexed' /\ NoGhost'
    BY <1>0, <1>12, <2>1, EndpointIndex DEF Purge, PurgePeer
  <2>3. QED
    BY <1>1, <2>1, <2>2
<1>13. ASSUME NEW config \in Configs, Reload(config)
       PROVE  EpInv'
  <2>1. /\ Indexed /\ UNCHANGED tableVars
        /\ task'.at = "peer" /\ task'.todo = config /\ task'.existing = PresentIps
    BY <1>0, <1>13 DEF Reload, Reading
  <2>2. \A i, j \in DOMAIN config : config[i].ip = config[j].ip => i = j
    BY AddressesOnce
  <2>3. \A j \in DOMAIN config : config[j].ip \in Ip
    BY ConfigsAssumption, PeersOfList
  <2>4. TodoNew'
    BY <2>1, <2>2, <2>3 DEF TodoNew, PresentIps, Present, tableVars
  <2>5. QED
    BY <1>0, <2>1, <2>4
    DEF EpInv, Indexed, EpIndexSound, NoGhost, AddsNew, Adding, Present, tableVars
<1>14. CASE UNCHANGED vars
  BY <1>14
  DEF vars, tableVars, EpInv, EpIndexSound, NoGhost, TodoNew, AddsNew, Adding, Current, Present
<1>15. QED
  BY <1>3, <1>4, <1>5, <1>6, <1>7, <1>8, <1>9, <1>10, <1>11, <1>12, <1>13, <1>14, ReloadIndex
  DEF Next

\* Where only the main loop touches the table and every key keeps to an address of
\* its own, endpoint_to_ip sends no packet to a peer that is gone or has another
\* endpoint (update_endpoint, remove_peer, add_peer, update_from_discovery).
THEOREM IndexAlwaysSound ==
  ASSUME ~Discovery, OwnAddress, KeysOnce
  PROVE  Spec => []EpIndexSound
<1>1. Init => EpInv
  <2> SUFFICES ASSUME Init PROVE EpInv
    OBVIOUS
  <2>1. PICK config \in Configs : task = Reading("peer", config, config, {}, None, TRUE)
    BY DEF Init
  <2>2. \A ip \in Ip : peers[ip] = Absent
    BY DEF Init, InitTable
  <2>3. \A e \in Ep : epMap[e] = None
    BY DEF Init, InitTable
  <2>4. \A j \in DOMAIN config : config[j].ip \in Ip
    BY ConfigsAssumption, PeersOfList
  <2>5. \A i, j \in DOMAIN config : config[i].ip = config[j].ip => i = j
    BY AddressesOnce
  <2>6. task.at = "peer" /\ task.todo = config
    BY <2>1 DEF Reading
  <2>7. TodoNew
    BY <2>2, <2>4, <2>5, <2>6 DEF TodoNew, Present, Absent
  <2>8. QED
    BY <2>2, <2>3, <2>6, <2>7 DEF EpInv, EpIndexSound, NoGhost, AddsNew, Adding, Absent
<1>2. TableInv /\ HomeInv /\ EpInv /\ [Next]_vars => EpInv'
  BY IndexStep
<1>3. Spec => []TableInv
  BY InitTableInv, TableStep, PTL DEF Spec
<1>4. EpInv => EpIndexSound
  BY DEF EpInv
<1>5. QED
  BY <1>1, <1>2, <1>3, <1>4, HomeHolds, PTL DEF Spec

-----------------------------------------------------------------------------
(* What a reload leaves, where only the main loop touches the table.       *)

\* The entry of config.toml is in force.
Applied(pc) ==
  /\ peers[pc.ip].key = pc.key
  /\ pc.target \in Maybe(Ep) => peers[pc.ip].ep = pc.target

\* The peers that were there are there, and what is not in force is yet to be read.
PartlyApplied ==
  task.at \in {"peer", "pin", "addId", "addEntry"} =>
    /\ task.existing \subseteq PresentIps
    /\ \A i \in DOMAIN task.todo : \E j \in DOMAIN task.config : task.todo[i] = task.config[j]
    /\ \A j \in DOMAIN task.config :
         Applied(task.config[j]) \/ \E i \in DOMAIN task.todo : task.todo[i] = task.config[j]

\* The peer in hand is in force before it is pinned, and resolved before it is added.
InHandApplied ==
  /\ task.at = "pin" => Applied(Current)
  /\ Adding /\ Current.target \in Maybe(Ep) => task.ep = Current.target

\* No ghost: neither relayed nor at an endpoint of a configured peer.
Genuine(ip) == peers[ip].relay = None /\ peers[ip].ep \notin task.dialled

\* During the purge, all of it is in force, and of the others a peer is genuine or still
\* to be judged or dropped.
PurgeApplied ==
  task.at \in {"purge", "drop"} =>
    /\ \A j \in DOMAIN task.config : Applied(task.config[j])
    /\ \A ip \in ConfiguredIps(task.config) :
         ip \notin task.pending /\ ~(task.at = "drop" /\ ip = task.ip)
    /\ \A ip \in PresentIps \ ConfiguredIps(task.config) :
         ip \in task.pending \/ (task.at = "drop" /\ ip = task.ip) \/ Genuine(ip)

ReloadInv == PartlyApplied /\ InHandApplied /\ PurgeApplied

\* The peer in hand is one of the configuration, and a peer at its address is that peer.
LEMMA CurrentInConfig ==
  ASSUME OwnAddress, KeysOnce, TableInv, HomeInv, PartlyApplied,
         task.at \in {"peer", "pin", "addId", "addEntry"}, task.todo # <<>>
  PROVE  /\ Present(Current.ip) => peers[Current.ip].key = Current.key
         /\ \A j \in DOMAIN task.config :
              task.config[j].ip = Current.ip => task.config[j] = Current
         /\ \A j \in DOMAIN task.config : task.config[j].ip \in Ip
         /\ Current \in PeerConfig /\ Current.ip \in Ip /\ Current.key # None
<1>1. task \in Configuring /\ task.todo \in Seq(PeerConfig) /\ TypeOK /\ TodoAtHome /\ AtHome
  BY TaskKinds DEF TableInv, TypeOK, Configuring, HomeInv
<1>2. Current \in PeerConfig /\ Current.ip = home[Current.key]
  BY <1>1, CurrentPeer, CurrentHome
<1>3. Current.ip \in Ip /\ Current.key \in Key /\ Current.key # None
  BY <1>2, NoneAssumption DEF PeerConfig
<1>4. Present(Current.ip) => peers[Current.ip].key = Current.key
  <2> SUFFICES ASSUME Present(Current.ip) PROVE peers[Current.ip].key = Current.key
    OBVIOUS
  <2>1. peers[Current.ip].key \in Key
    BY <1>3 DEF TableInv, TypeOK, TableTypeOK, PeerEntry, Maybe, Present
  <2>2. home[peers[Current.ip].key] = Current.ip
    BY <1>1, <1>3 DEF AtHome
  <2>3. QED
    BY <1>2, <1>3, <2>1, <2>2 DEF OwnAddress
<1>5. 1 \in DOMAIN task.todo /\ Current = task.todo[1]
  BY <1>1 DEF Current
<1>6. PICK c \in DOMAIN task.config : Current = task.config[c]
  BY <1>5 DEF PartlyApplied
<1>7. task.config \in Configs /\ \A j \in DOMAIN task.config : task.config[j].ip \in Ip
  BY <1>1, ConfigsAssumption, PeersOfList DEF Configuring
<1>8. \A j \in DOMAIN task.config : task.config[j].ip = Current.ip => task.config[j] = Current
  BY <1>6, <1>7, AddressesOnce
<1>9. QED
  BY <1>2, <1>3, <1>4, <1>7, <1>8

\* The step to the next peer, with the one in hand in force.
LEMMA NextPeerApplied ==
  ASSUME OwnAddress, KeysOnce, TableInv, HomeInv, ReloadInv,
         task.at \in {"peer", "pin", "addId", "addEntry"}, task.todo # <<>>, NextPeer,
         \A i \in Ip \ {Current.ip} :
           peers'[i].key = peers[i].key /\ peers'[i].ep = peers[i].ep,
         peers'[Current.ip].key = Current.key,
         Current.target \in Maybe(Ep) => peers'[Current.ip].ep = Current.target
  PROVE  ReloadInv'
<1>1. task \in Configuring /\ task.todo \in Seq(PeerConfig) /\ PartlyApplied
  BY TaskKinds DEF TableInv, TypeOK, Configuring, ReloadInv
<1>2. /\ task'.at = "peer" /\ task'.todo = Tail(task.todo)
      /\ task'.existing = task.existing /\ task'.config = task.config
  BY <1>1 DEF NextPeer, Configuring
<1>3. /\ \A j \in DOMAIN task.config :
           task.config[j].ip = Current.ip => task.config[j] = Current
      /\ \A j \in DOMAIN task.config : task.config[j].ip \in Ip
      /\ Current.ip \in Ip /\ Current.key # None
  BY <1>1, CurrentInConfig
<1>4. /\ \A i \in DOMAIN Tail(task.todo) :
           i + 1 \in DOMAIN task.todo /\ Tail(task.todo)[i] = task.todo[i + 1]
      /\ \A i \in DOMAIN task.todo : i # 1 =>
           i - 1 \in DOMAIN Tail(task.todo) /\ Tail(task.todo)[i - 1] = task.todo[i]
      /\ Current = task.todo[1]
  BY <1>1 DEF Current
<1>5. task.existing \subseteq PresentIps'
  BY <1>1, <1>3 DEF PartlyApplied, PresentIps, Present
<1>6. ASSUME NEW j \in DOMAIN task.config
      PROVE  Applied(task.config[j])'
               \/ \E i \in DOMAIN Tail(task.todo) : Tail(task.todo)[i] = task.config[j]
  <2>1. CASE task.config[j].ip = Current.ip
    BY <1>2, <1>3, <2>1 DEF Applied
  <2>2. CASE task.config[j].ip # Current.ip /\ Applied(task.config[j])
    BY <1>2, <1>3, <2>2 DEF Applied
  <2>3. ASSUME NEW i \in DOMAIN task.todo, task.todo[i] = task.config[j],
               task.config[j].ip # Current.ip
        PROVE  \E h \in DOMAIN Tail(task.todo) : Tail(task.todo)[h] = task.config[j]
    BY <1>4, <2>3
  <2>4. QED
    BY <1>1, <2>1, <2>2, <2>3 DEF PartlyApplied
<1>7. \A i \in DOMAIN Tail(task.todo) :
        \E j \in DOMAIN task.config : Tail(task.todo)[i] = task.config[j]
  BY <1>1, <1>4 DEF PartlyApplied
<1>8. QED
  BY <1>2, <1>5, <1>6, <1>7 DEF ReloadInv, PartlyApplied, InHandApplied, PurgeApplied, Adding

\* A literal address resolves to itself, no endpoint line to no address.
LEMMA ResolveLiteral ==
  ASSUME NEW target \in Maybe(Ep), NEW e \in Resolve(target)
  PROVE  e = target
<1>1. CASE target \in Ep
  BY <1>1, HostAssumption DEF Resolve
<1>2. CASE target = None
  <2>1. target \notin Ep /\ target \notin Host
    BY <1>2, NoneAssumption
  <2>2. Resolve(target) = {None}
    BY <2>1 DEF Resolve
  <2>3. QED
    BY <1>2, <2>2
<1>3. QED
  BY <1>1, <1>2 DEF Maybe

\* Between two peers of the configuration, with the one in hand untouched but for its
\* endpoint.
LEMMA SamePeerApplied ==
  ASSUME OwnAddress, KeysOnce, TableInv, HomeInv, PartlyApplied,
         task.at \in {"peer", "pin", "addId", "addEntry"}, task.todo # <<>>,
         task'.todo = task.todo, task'.existing = task.existing, task'.config = task.config,
         \A i \in Ip : peers'[i].key = peers[i].key,
         \A i \in Ip \ {Current.ip} : peers'[i].ep = peers[i].ep
  PROVE  PartlyApplied'
<1>1. task \in Configuring /\ task.todo \in Seq(PeerConfig)
  BY TaskKinds DEF TableInv, TypeOK, Configuring
<1>2. /\ \A j \in DOMAIN task.config :
           task.config[j].ip = Current.ip => task.config[j] = Current
      /\ \A j \in DOMAIN task.config : task.config[j].ip \in Ip
      /\ 1 \in DOMAIN task.todo /\ Current = task.todo[1]
  BY <1>1, CurrentInConfig DEF Current
<1>3. task.existing \subseteq PresentIps'
  BY DEF PartlyApplied, PresentIps, Present
<1>4. ASSUME NEW j \in DOMAIN task.config
      PROVE  Applied(task.config[j])' \/ \E i \in DOMAIN task.todo : task.todo[i] = task.config[j]
  <2>1. CASE task.config[j].ip = Current.ip
    BY <1>2, <2>1
  <2>2. CASE task.config[j].ip # Current.ip /\ Applied(task.config[j])
    BY <1>2, <2>2 DEF Applied
  <2>3. QED
    BY <2>1, <2>2 DEF PartlyApplied
<1>5. QED
  BY <1>3, <1>4 DEF PartlyApplied

\* The steps of a reload up to its purge.
LEMMA ReloadAppliedStep ==
  ASSUME OwnAddress, KeysOnce, TableInv, HomeInv, ReloadInv,
         \/ ReloadEndpoint \/ ReloadPin \/ ReloadClear
         \/ AddPeerEndpoint \/ AddPeerId \/ AddPeerEntry
  PROVE  ReloadInv'
<1>1. /\ task.at \in {"peer", "pin", "addId", "addEntry"} /\ task \in Configuring
      /\ task.todo # <<>> /\ PartlyApplied /\ InHandApplied /\ TableTypeOK
  <2>1. task.at \in {"peer", "pin", "addId", "addEntry"} /\ task.todo # <<>>
    BY DEF ReloadEndpoint, ReloadPin, ReloadClear, AddPeerEndpoint, AddPeerId, AddPeerEntry,
           TableInv, PeerInHand
  <2>2. QED
    BY <2>1, TaskKinds DEF TableInv, TypeOK, ReloadInv
<1>2. /\ Present(Current.ip) => peers[Current.ip].key = Current.key
      /\ Current \in PeerConfig /\ Current.ip \in Ip /\ Current.key # None
      /\ Current.ip \in task.existing => Present(Current.ip)
  BY <1>1, CurrentInConfig DEF PartlyApplied, PresentIps
<1>3. ASSUME task'.at \in {"pin", "addId", "addEntry"}, task'.todo = task.todo,
             task'.existing = task.existing, task'.config = task.config,
             \A i \in Ip : peers'[i].key = peers[i].key,
             \A i \in Ip \ {Current.ip} : peers'[i].ep = peers[i].ep,
             InHandApplied'
      PROVE  ReloadInv'
  BY <1>1, <1>3, SamePeerApplied DEF ReloadInv, PurgeApplied
<1>4. CASE ReloadEndpoint
  <2>1. PICK e \in Resolve(Current.target) :
          \/ e \in {None, peers[Current.ip].ep} /\ NextPeer /\ UNCHANGED tableVars
          \/ /\ UpdateEndpoint(Current.ip, e)
             /\ task' = [task EXCEPT !.at = "pin"]
    BY <1>4 DEF ReloadEndpoint
  <2>2. /\ Present(Current.ip) /\ Current.target # None
        /\ Current.target \in Maybe(Ep) => e = Current.target
    BY <1>2, <1>4, ResolveLiteral DEF ReloadEndpoint
  <2>3. CASE e \in {None, peers[Current.ip].ep} /\ NextPeer /\ UNCHANGED tableVars
    <3>1. Current.target \in Maybe(Ep) => peers'[Current.ip].ep = Current.target
      BY <2>2, <2>3 DEF tableVars
    <3>2. UNCHANGED peers /\ NextPeer
      BY <2>3 DEF tableVars
    <3>3. QED
      BY <1>1, <1>2, <2>2, <3>1, <3>2, NextPeerApplied
  <2>4. CASE UpdateEndpoint(Current.ip, e) /\ task' = [task EXCEPT !.at = "pin"]
    <3>1. /\ peers'[Current.ip].ep = e
          /\ \A i \in Ip : peers'[i].key = peers[i].key
          /\ \A i \in Ip \ {Current.ip} : peers'[i].ep = peers[i].ep
      BY <1>1, <1>2, <2>2, <2>4 DEF UpdateEndpoint, SetEndpoint, TableTypeOK, PeerEntry
    <3>2. /\ task'.at = "pin" /\ task'.todo = task.todo
          /\ task'.existing = task.existing /\ task'.config = task.config /\ Current' = Current
      BY <1>1, <2>4 DEF Configuring, Current
    <3>3. InHandApplied'
      BY <1>2, <2>2, <3>1, <3>2 DEF InHandApplied, Applied, Adding
    <3>4. QED
      BY <1>3, <3>1, <3>2, <3>3
  <2>5. QED
    BY <2>1, <2>3, <2>4
<1>5. CASE ReloadPin
  <2>1. \A i \in Ip : peers'[i].ep = peers[i].ep /\ peers'[i].key = peers[i].key
    BY <1>1, <1>2, <1>5 DEF ReloadPin, TableTypeOK, PeerEntry
  <2>2. NextPeer /\ Applied(Current)
    BY <1>1, <1>5 DEF ReloadPin, InHandApplied
  <2>3. QED
    BY <1>1, <1>2, <2>1, <2>2, NextPeerApplied DEF Applied
<1>6. CASE ReloadClear
  <2>1. /\ NextPeer /\ Present(Current.ip) /\ Current.target = None
        /\ peers'[Current.ip].ep = None /\ peers'[Current.ip].key = peers[Current.ip].key
        /\ \A i \in Ip \ {Current.ip} : peers'[i] = peers[i]
    BY <1>1, <1>2, <1>6 DEF ReloadClear, ClearEndpoint, TableTypeOK, PeerEntry
  <2>2. QED
    BY <1>1, <1>2, <2>1, NextPeerApplied
<1>7. CASE AddPeerEndpoint
  <2>1. PICK e \in Resolve(Current.target) : task' = [task EXCEPT !.at = "addId", !.ep = e]
    BY <1>7 DEF AddPeerEndpoint
  <2>2. /\ task'.at = "addId" /\ task'.todo = task.todo /\ task'.ep = e
        /\ task'.existing = task.existing /\ task'.config = task.config /\ Current' = Current
    BY <1>1, <2>1 DEF Configuring, Current
  <2>3. Current.target \in Maybe(Ep) => e = Current.target
    BY ResolveLiteral
  <2>4. InHandApplied' /\ UNCHANGED peers
    BY <1>7, <2>2, <2>3 DEF AddPeerEndpoint, InHandApplied, Adding
  <2>5. QED
    BY <1>3, <2>2, <2>4
<1>8. CASE AddPeerId
  <2>1. /\ task'.at = "addEntry" /\ task'.todo = task.todo /\ task'.ep = task.ep
        /\ task'.existing = task.existing /\ task'.config = task.config /\ Current' = Current
        /\ task.at = "addId" /\ UNCHANGED peers
    BY <1>1, <1>8 DEF AddPeerId, Configuring, Current
  <2>2. InHandApplied'
    BY <1>1, <2>1 DEF InHandApplied, Adding
  <2>3. QED
    BY <1>3, <2>1, <2>2
<1>9. CASE AddPeerEntry
  <2>1. /\ NextPeer
        /\ peers'[Current.ip].ep = task.ep /\ peers'[Current.ip].key = Current.key
        /\ \A i \in Ip \ {Current.ip} : peers'[i] = peers[i]
    BY <1>1, <1>2, <1>9 DEF AddPeerEntry, AddEntry, TableTypeOK
  <2>2. Current.target \in Maybe(Ep) => task.ep = Current.target
    BY <1>1, <1>9 DEF AddPeerEntry, InHandApplied, Adding
  <2>3. QED
    BY <1>1, <2>1, <2>2, NextPeerApplied
<1>10. QED
  BY <1>4, <1>5, <1>6, <1>7, <1>8, <1>9

\* Time passing takes neither a key nor an endpoint nor a relay.
LEMMA ExpireApplied ==
  ASSUME NEW ip \in Ip, TableTypeOK, OwnAddress, KeysOnce, TableInv, HomeInv, ReloadInv,
         Expire(ip)
  PROVE  ReloadInv'
<1>1. /\ UNCHANGED task
      /\ \A i : i \in Ip => peers'[i].key = peers[i].key /\ peers'[i].ep = peers[i].ep
                              /\ peers'[i].relay = peers[i].relay
  BY DEF Expire, TableTypeOK, PeerEntry
<1>2. task \in Configuring \cup Purging => task.config \in Configs
  BY DEF Configuring, Purging
<1>3. task.at \in {"peer", "pin", "addId", "addEntry", "purge", "drop"} =>
        /\ \A j \in DOMAIN task.config : task.config[j].ip \in Ip
        /\ task.at \notin {"purge", "drop"} => task \in Configuring
  BY <1>2, TaskKinds, ConfigsAssumption, PeersOfList DEF TableInv, TypeOK
<1>4. PresentIps' = PresentIps
  BY <1>1 DEF PresentIps, Present
<1>5. PartlyApplied'
  BY <1>1, <1>3, <1>4 DEF ReloadInv, PartlyApplied, Applied
<1>6. InHandApplied'
  <2>1. ASSUME task.at = "pin" PROVE Applied(Current)'
    <3>1. task.todo # <<>> /\ PartlyApplied
      BY <2>1 DEF TableInv, PeerInHand, ReloadInv
    <3>2. Current.ip \in Ip
      BY <2>1, <3>1, CurrentInConfig
    <3>3. Applied(Current) /\ Current' = Current
      BY <1>1, <2>1 DEF ReloadInv, InHandApplied, Current
    <3>4. QED
      BY <1>1, <3>2, <3>3 DEF Applied
  <2>2. QED
    BY <1>1, <2>1 DEF ReloadInv, InHandApplied, Adding, Current
<1>7. PurgeApplied'
  BY <1>1, <1>3, <1>4 DEF ReloadInv, PurgeApplied, Applied, Genuine, PresentIps, ConfiguredIps
<1>8. QED
  BY <1>5, <1>6, <1>7 DEF ReloadInv

\* The configuration is through: all of it is in force, and whoever else is there awaits
\* the purge.
LEMMA ConfigReadApplied ==
  ASSUME TableInv, ReloadInv, ConfigRead
  PROVE  ReloadInv'
<1>1. /\ task.at = "peer" /\ task.todo = <<>> /\ UNCHANGED peers
  BY DEF ConfigRead, tableVars
<1>2. \A j \in DOMAIN task.config : Applied(task.config[j])
  BY <1>1 DEF ReloadInv, PartlyApplied
<1>3. CASE task' = Idle
  BY <1>3 DEF Idle, ReloadInv, PartlyApplied, InHandApplied, Adding, PurgeApplied
<1>4. CASE task' # Idle
  <2>1. PICK ep \in [DOMAIN task.config -> Maybe(Ep)] :
          task' = [at |-> "purge", config |-> task.config,
                   dialled |-> {ep[j] : j \in DOMAIN ep} \ {None},
                   pending |-> PresentIps \ ConfiguredIps(task.config),
                   ip |-> None]
    BY <1>4 DEF ConfigRead
  <2>2. /\ task'.at = "purge" /\ task'.config = task.config
        /\ task'.pending = PresentIps \ ConfiguredIps(task.config)
        /\ PresentIps' = PresentIps
    BY <1>1, <2>1 DEF PresentIps, Present
  <2>3. PurgeApplied'
    BY <1>1, <1>2, <2>2 DEF PurgeApplied, Applied
  <2>4. QED
    BY <2>2, <2>3 DEF ReloadInv, PartlyApplied, InHandApplied, Adding
<1>5. QED
  BY <1>3, <1>4

\* A peer is judged: it is genuine, or in hand to be dropped.
LEMMA JudgeApplied ==
  ASSUME NEW ip \in Ip, TableInv, ReloadInv, Judge(ip)
  PROVE  ReloadInv'
<1>1. task \in Purging /\ task.at = "purge" /\ ip \in task.pending
  BY TaskKinds DEF Judge, TableInv, TypeOK
<1>2. /\ task'.at = IF Present(ip) /\ Spares(ip) THEN "purge" ELSE "drop"
      /\ task'.config = task.config /\ task'.dialled = task.dialled
      /\ task'.pending = task.pending \ {ip} /\ task'.ip = ip
      /\ UNCHANGED peers
  BY <1>1 DEF Judge, Purging, tableVars
<1>3. task'.at = "drop" \/ Genuine(ip)'
  BY <1>2 DEF Spares, Genuine
<1>4. PurgeApplied'
  BY <1>1, <1>2, <1>3 DEF ReloadInv, PurgeApplied, Applied, Genuine, PresentIps, Present
<1>5. QED
  BY <1>2, <1>4 DEF ReloadInv, PartlyApplied, InHandApplied, Adding

\* The peer in hand is dropped, and no peer of the configuration with it.
LEMMA PurgeStepApplied ==
  ASSUME TableInv, ReloadInv, Purge
  PROVE  ReloadInv'
<1>1. task \in Purging /\ task.at = "drop" /\ task.ip \in Maybe(Ip) /\ TableTypeOK
  BY TaskKinds DEF Purge, TableInv, TypeOK, Purging
<1>2. /\ task'.at = "purge" /\ task'.config = task.config
      /\ task'.dialled = task.dialled /\ task'.pending = task.pending
  BY <1>1 DEF Purge, Purging
<1>3. /\ \A i \in Ip \ {task.ip} : peers'[i] = peers[i]
      /\ task.ip \in Ip => peers'[task.ip] = Absent
  BY <1>1 DEF Purge, PurgePeer, RemovePeer, TableTypeOK
<1>4. \A j \in DOMAIN task.config : task.config[j].ip \in Ip
  BY <1>1, ConfigsAssumption, PeersOfList DEF Purging
<1>5. /\ \A j \in DOMAIN task.config : Applied(task.config[j]) /\ task.config[j].ip # task.ip
      /\ \A i \in ConfiguredIps(task.config) : i \notin task.pending
  BY <1>1 DEF ReloadInv, PurgeApplied, ConfiguredIps
<1>6. \A j \in DOMAIN task.config : Applied(task.config[j])'
  BY <1>2, <1>3, <1>4, <1>5 DEF Applied
<1>7. ASSUME NEW i \in PresentIps' \ ConfiguredIps(task.config)
      PROVE  i \in task.pending \/ Genuine(i)'
  <2>1. i \in Ip /\ i # task.ip /\ peers'[i] = peers[i]
    BY <1>3 DEF PresentIps, Present, Absent
  <2>2. i \in PresentIps
    BY <2>1 DEF PresentIps, Present
  <2>3. i \in task.pending \/ Genuine(i)
    BY <1>1, <2>1, <2>2 DEF ReloadInv, PurgeApplied
  <2>4. QED
    BY <1>2, <2>1, <2>3 DEF Genuine
<1>8. PurgeApplied'
  BY <1>2, <1>5, <1>6, <1>7 DEF PurgeApplied
<1>9. QED
  BY <1>2, <1>8 DEF ReloadInv, PartlyApplied, InHandApplied, Adding

\* A reload begins with all of the configuration to be read.
LEMMA BeginsApplied ==
  ASSUME NEW config \in Configs, NEW existing \in SUBSET Ip, NEW boot \in BOOLEAN,
         task = Reading("peer", config, config, existing, None, boot),
         existing \subseteq PresentIps
  PROVE  ReloadInv
<1>1. /\ task.at = "peer" /\ task.config = config /\ task.todo = config
      /\ task.existing = existing
  BY DEF Reading
<1>2. QED
  BY <1>1 DEF ReloadInv, PartlyApplied, InHandApplied, Adding, PurgeApplied

LEMMA ReloadStep ==
  ASSUME ~Discovery, OwnAddress, KeysOnce
  PROVE  TableInv /\ HomeInv /\ ReloadInv /\ [Next]_vars => ReloadInv'
<1> SUFFICES ASSUME TableInv, HomeInv, ReloadInv, [Next]_vars PROVE ReloadInv'
  OBVIOUS
<1>1. ASSUME task'.at \notin {"peer", "pin", "addId", "addEntry", "purge", "drop"}
      PROVE  ReloadInv'
  BY <1>1 DEF ReloadInv, PartlyApplied, InHandApplied, Adding, PurgeApplied
<1>2. CASE UNCHANGED vars
  BY <1>2 DEF vars, tableVars, ReloadInv, PartlyApplied, InHandApplied, Adding, Current,
              PurgeApplied, Applied, Genuine, PresentIps, Present
<1>3. ASSUME NEW claim \in Announced, NEW e \in Ep,
             \/ HearBroadcast(claim[1], claim[2], e) \/ ReceiveHandshake(claim[1], claim[2], e)
      PROVE  ReloadInv'
  BY <1>1, <1>3 DEF HearBroadcast, ReceiveHandshake
<1>4. ASSUME NEW claim \in Announced, NEW e \in Maybe(Ep), ReceivePex(claim[1], claim[2], e)
      PROVE  ReloadInv'
  BY <1>1, <1>4 DEF ReceivePex, Idle
<1>5. ASSUME NEW key \in Key, NEW src \in Ep, ReceiveData(key, src) \/ ReceiveKeepalive(key, src)
      PROVE  ReloadInv'
  BY <1>1, <1>5 DEF ReceiveData, ReceiveKeepalive
<1>6. ASSUME NEW ip \in Ip, Expire(ip) \/ ResolveAgain(ip) \/ Judge(ip)
      PROVE  ReloadInv'
  <2>1. CASE Expire(ip)
    BY <2>1, ExpireApplied DEF TableInv, TypeOK
  <2>2. CASE ResolveAgain(ip)
    BY <1>1, <2>2 DEF ResolveAgain
  <2>3. CASE Judge(ip)
    BY <2>3, JudgeApplied
  <2>4. QED
    BY <1>6, <2>1, <2>2, <2>3
<1>7. ASSUME NEW e \in Maybe(Ep), Resolved(e)
      PROVE  ReloadInv'
  BY <1>1, <1>7 DEF Resolved, Idle
<1>8. ASSUME NEW config \in Configs, Reload(config)
      PROVE  ReloadInv'
  <2>1. /\ task'.at = "peer" /\ task'.config = config /\ task'.todo = config
        /\ task'.existing = PresentIps /\ UNCHANGED peers
    BY <1>8 DEF Reload, Reading, tableVars
  <2>2. PresentIps' = PresentIps
    BY <2>1 DEF PresentIps, Present
  <2>3. QED
    BY <2>1, <2>2 DEF ReloadInv, PartlyApplied, InHandApplied, Adding, PurgeApplied
<1>9. CASE EstablishSession \/ ForwardPayload \/ KeepaliveTouch \/ PurgeDone
  BY <1>1, <1>9 DEF EstablishSession, ForwardPayload, KeepaliveTouch, PurgeDone, Idle
<1>10. CASE Decrypt \/ Roam \/ KeepaliveRoam
  <2>1. task \in Decrypting \cup Following
    BY <1>10, TaskKinds DEF Decrypt, Roam, KeepaliveRoam, TableInv, TypeOK
  <2>2. task'.at \in {"idle", "roam", "payload", "touch"}
    BY <1>10, <2>1 DEF Decrypt, Roam, KeepaliveRoam, Idle, Decrypting, Following
  <2>3. QED
    BY <1>1, <2>2
<1>11. CASE \/ ReloadEndpoint \/ ReloadPin \/ ReloadClear
            \/ AddPeerEndpoint \/ AddPeerId \/ AddPeerEntry
  BY <1>11, ReloadAppliedStep
<1>12. CASE ConfigRead
  BY <1>12, ConfigReadApplied
<1>13. CASE Purge
  BY <1>13, PurgeStepApplied
<1>14. QED
  BY <1>2, <1>3, <1>4, <1>5, <1>6, <1>7, <1>8, <1>9, <1>10, <1>11, <1>12, <1>13 DEF Next

\* ReloadApplied: what a reload leaves is what config.toml says.  At the last step of the
\* purge nothing is pending, and PurgeApplied is the property itself.
THEOREM ReloadAlwaysApplied ==
  ASSUME ~Discovery, OwnAddress, KeysOnce
  PROVE  Spec => ReloadApplied
<1>1. Init => ReloadInv
  <2> SUFFICES ASSUME Init PROVE ReloadInv
    OBVIOUS
  <2>1. PICK config \in Configs : task = Reading("peer", config, config, {}, None, TRUE)
    BY DEF Init
  <2>2. {} \in SUBSET Ip /\ {} \subseteq PresentIps /\ TRUE \in BOOLEAN
    OBVIOUS
  <2>3. QED
    BY <2>1, <2>2, BeginsApplied
<1>2. TableInv /\ HomeInv /\ ReloadInv /\ [Next]_vars => ReloadInv'
  BY ReloadStep
<1>3. Spec => []TableInv
  BY InitTableInv, TableStep, PTL DEF Spec
<1>4. ReloadInv /\ TableInv /\ [Next]_vars =>
        [task.at = "purge" /\ task' = Idle =>
           /\ \A j \in DOMAIN task.config : LET pc == task.config[j] IN
                /\ peers[pc.ip].key = pc.key
                /\ pc.target \in Maybe(Ep) => peers[pc.ip].ep = pc.target
           /\ \A ip \in PresentIps \ ConfiguredIps(task.config) :
                peers[ip].relay = None /\ peers[ip].ep \notin task.dialled]_vars
  <2> SUFFICES ASSUME ReloadInv, TableInv, [Next]_vars, task.at = "purge", task' = Idle
               PROVE  /\ \A j \in DOMAIN task.config : Applied(task.config[j])
                      /\ \A ip \in PresentIps \ ConfiguredIps(task.config) : Genuine(ip)
    BY DEF Applied, Genuine
  <2>1. task.pending = {}
    <3>1. task # Idle /\ task'.at = "idle"
      BY DEF Idle
    <3>2. task' # task
      BY <3>1
    <3>3. CASE \E ip \in Ip : Judge(ip)
      BY <3>1, <3>3, TaskKinds DEF Judge, TableInv, TypeOK, Purging
    <3>4. CASE PurgeDone
      BY <3>4 DEF PurgeDone
    <3>5. QED
      BY <3>1, <3>2, <3>3, <3>4 DEF Next, vars, HearBroadcast, ReceiveHandshake, ReceivePex,
         ReceiveData, ReceiveKeepalive, Expire, ResolveAgain, Resolved, Reload,
         EstablishSession, Decrypt, Roam, ForwardPayload, KeepaliveRoam, KeepaliveTouch,
         ReloadEndpoint, ReloadPin, ReloadClear, AddPeerEndpoint, AddPeerId, AddPeerEntry,
         ConfigRead, Purge
  <2>2. QED
    BY <2>1 DEF ReloadInv, PurgeApplied
<1>5. QED
  BY <1>1, <1>2, <1>3, <1>4, HomeHolds, PTL DEF Spec, ReloadApplied

=============================================================================
