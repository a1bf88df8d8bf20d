----------------------------- MODULE PeerDaemon ------------------------------
(***************************************************************************)
(* The threads of one daemon that change its peer table: the main loop     *)
(* (src/main.rs), which handles packets, re-resolves host names and reloads *)
(* the configuration on SIGHUP, and the LAN discovery listener             *)
(* (src/transport.rs).  The main loop takes and releases the locks of the  *)
(* table many times within one packet or reload; "task" is where it stands *)
(* between two of them, and there the listener may step in.                *)
(***************************************************************************)
EXTENDS PeerTable, Sequences

CONSTANTS
  Announced,  \* the <<key, ip>> pairs that peers announce of themselves
  Configs,    \* the [[peers]] lists config.toml may hold, keys not repeated
  Discovery   \* network.discovery: the listener thread runs

PeerConfig == [key : Key, ip : Ip, target : Maybe(Ep \cup Host)]

ASSUME AnnouncedAssumption == Announced \subseteq Key \X Ip
ASSUME ConfigsAssumption   == Configs \subseteq Seq(PeerConfig)
ASSUME DiscoveryAssumption == Discovery \in BOOLEAN

VARIABLE task

vars == <<tableVars, task>>

Idle == [at |-> "idle"]

\* What if an endpoint line were used without resolving it.
ResolveVerbatim(target) == {target}

\* resolve_endpoint: a literal address is itself; a name may resolve to any
\* address or fail, as does the absent endpoint line.
Resolve(target) == CASE target \in Ep   -> {target}
                     [] target \in Host -> Maybe(Ep)
                     [] OTHER           -> {None}

ConfiguredIps(config) == {config[j].ip : j \in DOMAIN config}

-----------------------------------------------------------------------------
(* Where the main loop stands. *)

\* Going through a configuration, at startup (boot) or on SIGHUP: "existing" is
\* the snapshot of all_ips taken before, "ep" what the endpoint of the peer in
\* hand resolved to.
Reading(at, config, todo, existing, ep, boot) ==
  [at |-> at, config |-> config, todo |-> todo, existing |-> existing,
   ep |-> ep, boot |-> boot]

\* Handling a packet: the peer's address as looked up, and where it came from.
Establishing == [at : {"establish"}, ip : Ip]
Decrypting   == [at : {"decrypt"}, ip : Ip, key : Key, src : Ep]
Following    == [at : {"roam", "payload", "keepalive", "touch"}, ip : Ip, src : Ep]

Configuring  == [at : {"peer", "pin", "addId", "addEntry"}, config : Configs,
                 todo : Seq(PeerConfig), existing : SUBSET Ip, ep : Maybe(Ep),
                 boot : BOOLEAN]
Purging      == [at : {"purge", "drop"}, config : Configs, dialled : SUBSET Ep,
                 pending : SUBSET Ip, ip : Maybe(Ip)]

\* Waiting for the name service, for the endpoint line of the peer at ip.
Resolving    == [at : {"resolve"}, ip : Ip]

Task == {Idle} \cup Establishing \cup Decrypting \cup Following \cup Configuring
        \cup Purging \cup Resolving

Booting == task.at \in {"peer", "pin", "addId", "addEntry"} /\ task.boot

Init ==
  /\ InitTable
  /\ \E config \in Configs : task = Reading("peer", config, config, {}, None, TRUE)

\* The peer of the configuration in hand, and the step to the one after it.
Current == Head(task.todo)
NextPeer == task' = [task EXCEPT !.at = "peer", !.todo = Tail(@)]

-----------------------------------------------------------------------------
(* The discovery listener. *)

\* A broadcast of another daemon, from the LAN address e.
HearBroadcast(key, ip, e) ==
  /\ Discovery /\ ~Booting
  /\ UpdateFromDiscovery(key, e, ip)
  /\ UNCHANGED task

-----------------------------------------------------------------------------
(* Handshakes: the table is updated, then the session is established with   *)
(* whoever is at the announced address by then.                             *)

ReceiveHandshake(key, ip, src) ==
  /\ task = Idle
  /\ UpdateFromDiscovery(key, src, ip)
  /\ task' = [at |-> "establish", ip |-> ip]

EstablishSession ==
  /\ task.at = "establish"
  /\ peers' = IF Present(task.ip) THEN [peers EXCEPT ![task.ip].link = "live"] ELSE peers
  /\ task' = Idle
  /\ UNCHANGED <<idMap, epMap, purged>>

-----------------------------------------------------------------------------
(* Data: look the sender up, decrypt, follow its endpoint, use the payload. *)

ReceiveData(key, src) ==
  /\ task = Idle
  /\ Found(src, key) # None
  /\ task' = [at |-> "decrypt", ip |-> Found(src, key), key |-> key, src |-> src]
  /\ UNCHANGED tableVars

\* Only the session with the sender's own key opens the packet.
Decrypt ==
  /\ task.at = "decrypt"
  /\ LET opened == peers[task.ip].key = task.key /\ peers[task.ip].link # "new"
         moved  == peers[task.ip].ep # task.src
     IN /\ peers' = IF opened THEN [peers EXCEPT ![task.ip].link = "live"] ELSE peers
        /\ task' = IF ~opened THEN Idle
                   ELSE [at |-> IF moved THEN "roam" ELSE "payload",
                         ip |-> task.ip, src |-> task.src]
  /\ UNCHANGED <<idMap, epMap, purged>>

Roam ==
  /\ task.at = "roam"
  /\ UpdateEndpointIfRoaming(task.ip, task.src)
  /\ task' = [task EXCEPT !.at = "payload"]
  /\ UNCHANGED <<idMap, purged>>

\* The payload is a packet to forward, which leaves the table alone, or ...
ForwardPayload ==
  /\ task.at = "payload"
  /\ task' = Idle
  /\ UNCHANGED tableVars

\* ... a peer exchange: one entry of it, of a peer of the sender.
ReceivePex(key, ip, e) ==
  /\ task.at = "payload"
  /\ AddFromPex(ip, key, e, task.ip)
  /\ task' = Idle

-----------------------------------------------------------------------------
(* Keepalives: look the sender up, follow its endpoint, refresh last_seen.  *)

ReceiveKeepalive(key, src) ==
  /\ task = Idle
  /\ Found(src, key) # None
  /\ task' = [at |-> "keepalive", ip |-> Found(src, key), src |-> src]
  /\ UNCHANGED tableVars

KeepaliveRoam ==
  /\ task.at = "keepalive"
  /\ IF epMap[task.src] = None
     THEN UpdateEndpointIfRoaming(task.ip, task.src)
     ELSE UNCHANGED <<peers, epMap>>
  /\ task' = [task EXCEPT !.at = "touch"]
  /\ UNCHANGED <<idMap, purged>>

KeepaliveTouch ==
  /\ task.at = "touch"
  /\ peers' = IF peers[task.ip].link = "idle"
              THEN [peers EXCEPT ![task.ip].link = "live"] ELSE peers
  /\ task' = Idle
  /\ UNCHANGED <<idMap, epMap, purged>>

-----------------------------------------------------------------------------
(* Timers. *)

\* 120 s without a packet from the peer; no such time passes while the loop is
\* handling a packet that has just refreshed it.
Expire(ip) ==
  /\ Live(ip)
  /\ ~(task.at \in {"roam", "payload"} /\ task.ip = ip)
  /\ peers' = [peers EXCEPT ![ip].link = "idle"]
  /\ UNCHANGED <<idMap, epMap, purged, task>>

\* Every 60 s: the endpoint line of a peer that names a host is resolved again,
\* and whoever is at its address by then gets the endpoint, if it differs.
ResolveAgain(ip) ==
  /\ task = Idle
  /\ peers[ip].pinned \in Host
  /\ task' = [at |-> "resolve", ip |-> ip]
  /\ UNCHANGED tableVars

Resolved(e) ==
  /\ task.at = "resolve"
  /\ IF e \in {None, peers[task.ip].ep}
     THEN UNCHANGED <<peers, epMap>>
     ELSE UpdateEndpoint(task.ip, e)
  /\ task' = Idle
  /\ UNCHANGED <<idMap, purged>>

-----------------------------------------------------------------------------
(* Startup and SIGHUP. *)

Reload(config) ==
  /\ task = Idle
  /\ task' = Reading("peer", config, config, PresentIps, None, FALSE)
  /\ UNCHANGED tableVars

\* A peer that was there before, with an endpoint line: its endpoint is set if
\* it differs, and pinned in a second step.
ReloadEndpoint ==
  /\ task.at = "peer" /\ task.todo # <<>>
  /\ Current.ip \in task.existing /\ Current.target # None
  /\ \E e \in Resolve(Current.target) :
       IF e \in {None, peers[Current.ip].ep}
       THEN NextPeer /\ UNCHANGED tableVars
       ELSE /\ UpdateEndpoint(Current.ip, e)
            /\ task' = [task EXCEPT !.at = "pin"]
            /\ UNCHANGED <<idMap, purged>>

ReloadPin ==
  /\ task.at = "pin"
  /\ peers' = IF Present(Current.ip)
              THEN [peers EXCEPT ![Current.ip].pinned = Current.target] ELSE peers
  /\ NextPeer
  /\ UNCHANGED <<idMap, epMap, purged>>

\* ... without one: the endpoint in memory is wiped.
ReloadClear ==
  /\ task.at = "peer" /\ task.todo # <<>>
  /\ Current.ip \in task.existing /\ Current.target = None
  /\ ClearEndpoint(Current.ip)
  /\ NextPeer
  /\ UNCHANGED <<idMap, purged>>

\* A peer that was not there: add_peer, lock by lock.
AddPeerEndpoint ==
  /\ task.at = "peer" /\ task.todo # <<>>
  /\ Current.ip \notin task.existing
  /\ \E e \in Resolve(Current.target) :
       /\ AddEndpoint(Current.ip, e)
       /\ task' = [task EXCEPT !.at = "addId", !.ep = e]
  /\ UNCHANGED <<peers, idMap, purged>>

AddPeerId ==
  /\ task.at = "addId"
  /\ AddId(Current.ip, Current.key)
  /\ task' = [task EXCEPT !.at = "addEntry"]
  /\ UNCHANGED <<peers, epMap, purged>>

AddPeerEntry ==
  /\ task.at = "addEntry"
  /\ AddEntry(Current.ip, [key |-> Current.key, ep |-> task.ep,
                           pinned |-> Current.target, relay |-> None, link |-> "idle"])
  /\ NextPeer
  /\ UNCHANGED <<idMap, epMap, purged>>

\* At startup the configuration is through; on SIGHUP the purge of the peers
\* that are not in it follows.  "dialled" is what its endpoint lines resolve to.
ConfigRead ==
  /\ task.at = "peer" /\ task.todo = <<>>
  /\ IF task.boot
     THEN task' = Idle
     ELSE \E ep \in [DOMAIN task.config -> Maybe(Ep)] :
            /\ \A j \in DOMAIN task.config : ep[j] \in Resolve(task.config[j].target)
            /\ task' = [at |-> "purge", config |-> task.config,
                        dialled |-> {ep[j] : j \in DOMAIN ep} \ {None},
                        pending |-> PresentIps \ ConfiguredIps(task.config),
                        ip |-> None]
  /\ UNCHANGED tableVars

\* What if a directly connected peer were never purged.
SparesConnected(ip) == peers[ip].relay = None /\ Live(ip)

\* A connected peer without relay is spared, unless its endpoint is one of the
\* configuration.
Spares(ip) ==
  /\ peers[ip].relay = None /\ Live(ip)
  /\ peers[ip].ep \notin task.dialled

\* One peer after the other is judged, under the lock, ...
Judge(ip) ==
  /\ task.at = "purge" /\ ip \in task.pending
  /\ task' = [task EXCEPT !.pending = @ \ {ip},
                          !.at = IF Present(ip) /\ Spares(ip) THEN "purge" ELSE "drop",
                          !.ip = ip]
  /\ UNCHANGED tableVars

\* ... and purged under the next one, whatever became of it in between.
Purge ==
  /\ task.at = "drop"
  /\ PurgePeer(task.ip)
  /\ task' = [task EXCEPT !.at = "purge"]

PurgeDone ==
  /\ task.at = "purge" /\ task.pending = {}
  /\ task' = Idle
  /\ UNCHANGED tableVars

-----------------------------------------------------------------------------
Next ==
  \/ \E claim \in Announced, e \in Ep :
       \/ HearBroadcast(claim[1], claim[2], e)
       \/ ReceiveHandshake(claim[1], claim[2], e)
  \/ \E claim \in Announced, e \in Maybe(Ep) : ReceivePex(claim[1], claim[2], e)
  \/ \E key \in Key, src \in Ep : ReceiveData(key, src) \/ ReceiveKeepalive(key, src)
  \/ \E ip \in Ip : Expire(ip) \/ ResolveAgain(ip) \/ Judge(ip)
  \/ \E e \in Maybe(Ep) : Resolved(e)
  \/ \E config \in Configs : Reload(config)
  \/ EstablishSession
  \/ Decrypt \/ Roam \/ ForwardPayload
  \/ KeepaliveRoam \/ KeepaliveTouch
  \/ ReloadEndpoint \/ ReloadPin \/ ReloadClear
  \/ AddPeerEndpoint \/ AddPeerId \/ AddPeerEntry
  \/ ConfigRead \/ Purge \/ PurgeDone

Spec == Init /\ [][Next]_vars

-----------------------------------------------------------------------------
(* Properties. *)

\* The table and its indexes have their types, and what the main loop holds on to
\* between two locks has the type of the step it is at.
TypeOK == TableTypeOK /\ task \in Task

\* Every peer in the table is found by its id, the fallback of
\* find_ip_by_endpoint_or_id, wherever the listener steps into a reload: a peer
\* whose endpoint changed, or whose endpoint maps to another, still reaches its
\* session.  It holds while every key keeps to an address of its own.
IdIndexComplete ==
  \A ip \in Ip : Present(ip) => idMap[peers[ip].key] = ip

\* Between two packets and reloads, a peer of the table is known under its id at
\* all ("Peer ID -> WolfNet IP mapping", src/peer.rs:149).  It fails when a
\* reload gives a peer another address: removing the old entry drops the id and
\* the endpoint that add_peer has just mapped to the new one.
IdKnown ==
  task = Idle => \A ip \in Ip : Present(ip) => idMap[peers[ip].key] # None

\* Where only the main loop touches the table and every key keeps to an address
\* of its own, endpoint_to_ip sends no packet to a peer that is gone or has
\* another endpoint; a peer being added, whose endpoint is mapped before its
\* entry is there, is the one exception.
EpIndexSound ==
  \A e \in Ep : epMap[e] # None =>
    \/ peers[epMap[e]].ep = e
    \/ task.at \in {"addId", "addEntry"} /\ Current.ip = epMap[e] /\ task.ep = e

\* Peer exchange never brings back, as a relayed peer, an address that a reload
\* purged ("blocked from PEX re-addition until daemon restart",
\* src/peer.rs:175), whoever restores the entry meanwhile.
PurgedNotRelayed == \A ip \in purged : peers[ip].relay = None

\* No peer is its own relay, whatever the peer exchanges say.
NoSelfRelay == \A ip \in Ip : peers[ip].relay # ip

\* The endpoint of a peer that the daemon has pinned changes only when its line
\* is resolved again or reloaded, while the peer keeps its address: handshakes,
\* broadcasts, roaming packets and peer exchange leave it alone ("the
\* operator's choice is sticky", src/peer.rs:317).  Pinned is what the table
\* says (configured_endpoint), not what config.toml does: a reload pins nothing
\* where the peer is at the address of its line already (src/main.rs:1020).
PinnedSticks ==
  [][\A ip \in Ip :
       /\ peers[ip].pinned # None /\ peers'[ip].key = peers[ip].key
       /\ ~(task.at \in {"peer", "pin", "addEntry", "resolve"} /\ task' # task)
       => peers'[ip].ep = peers[ip].ep /\ peers'[ip].pinned = peers[ip].pinned]_vars

\* A peer known directly does not become a relayed one: peer exchange gives a
\* relay only to a peer it brings in, or to one that is relayed and silent.
DirectStaysDirect ==
  [][\A ip \in Ip :
       /\ Present(ip) /\ peers'[ip].relay # peers[ip].relay
       /\ peers'[ip].relay # None
       => peers[ip].relay # None /\ ~Live(ip)]_vars

\* A reload leaves what config.toml says: every peer of it is there, with the
\* address of its endpoint line or with none, and what is left beside them is
\* neither relayed nor a ghost at the endpoint of a configured peer.  Whether the
\* endpoint is pinned too is not said: a peer that roamed to the address of its
\* line before the reload stays unpinned (src/main.rs:1020).  Where only
\* the main loop touches the table and every key keeps to an address of its own:
\* an entry that is there keeps its key, whatever key config.toml gives it.
ReloadApplied ==
  [][task.at = "purge" /\ task' = Idle =>
       /\ \A j \in DOMAIN task.config : LET pc == task.config[j] IN
            /\ peers[pc.ip].key = pc.key
            /\ pc.target \in Maybe(Ep) => peers[pc.ip].ep = pc.target
       /\ \A ip \in PresentIps \ ConfiguredIps(task.config) :
            peers[ip].relay = None /\ peers[ip].ep \notin task.dialled]_vars

=============================================================================
