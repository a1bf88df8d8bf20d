------------------------------- MODULE Session -------------------------------
(***************************************************************************)
(* One WolfNet tunnel: the two daemons at its ends, the peer entry each    *)
(* keeps for the other (src/peer.rs), the cipher of that entry             *)
(* (src/crypto.rs) and the main-loop handlers and timers that use them     *)
(* (src/main.rs, src/transport.rs), over UDP, which loses, duplicates and  *)
(* reorders packets.                                                       *)
(*                                                                         *)
(* The key of a tunnel is the static Diffie-Hellman secret of the two      *)
(* daemons, so a packet of any earlier session of the same two daemons     *)
(* still decrypts: only the counters tell sessions apart.  Payloads, keys  *)
(* and addresses are abstracted away.                                      *)
(***************************************************************************)
EXTENDS Integers, FiniteSets

CONSTANTS
  A, B,           \* the two daemons
  Configured,     \* the daemons whose config.toml lists the other
  Dialled,        \* those whose [[peers]] entry also has an endpoint line
  Discovering,    \* the daemons that hear the other's LAN broadcasts
  Talkers,        \* those with packets for the other: from the TUN device,
                  \* relayed, or peer exchanges
  Window,         \* how far below recv_counter a counter may be: 32
  RestartLimit,   \* the limit of the restart rule: 100
  MaxCounter,     \* bound: a daemon encrypts this many packets per session
  MaxData         \* bound: data packets in flight at once

Node == {A, B}

ASSUME NodeAssumption   == A # B
ASSUME ConfigAssumption == /\ Configured \subseteq Node
                           /\ Dialled \subseteq Configured
                           /\ Discovering \subseteq Node
                           /\ Talkers \subseteq Node
ASSUME LimitAssumption  == /\ Window \in Nat
                           /\ RestartLimit \in Nat
                           /\ Window < RestartLimit
ASSUME BoundAssumption  == /\ MaxCounter \in Nat
                           /\ MaxData \in Nat

VARIABLES
  known,     \* known[n]: n's peer table has an entry for the other daemon
  addr,      \* addr[n]: that entry has an endpoint
  cipher,    \* cipher[n]: that entry has a session cipher
  seen,      \* seen[n]: its last_seen is less than 120 s old
  send,      \* send[n]: send_counter of the cipher, 0 without one
  recv,      \* recv[n]: recv_counter of the cipher, 0 without one
  control,   \* handshakes and keepalives in flight
  data,      \* data packets in flight
  synced     \* history: recv[n] was set by a packet of the sender's current session

vars == <<known, addr, cipher, seen, send, recv, control, data, synced>>

Other(n) == IF n = A THEN B ELSE A

Handshake(n) == [type |-> "handshake", to |-> n]
Keepalive(n) == [type |-> "keepalive", to |-> n]

\* "current" is history: the packet belongs to its sender's present session.
DataPacket == [to : Node, counter : Nat, current : BOOLEAN]

TypeOK ==
  /\ known \in [Node -> BOOLEAN]
  /\ addr \in [Node -> BOOLEAN]
  /\ cipher \in [Node -> BOOLEAN]
  /\ seen \in [Node -> BOOLEAN]
  /\ send \in [Node -> Nat]
  /\ recv \in [Node -> Nat]
  /\ control \subseteq [type : {"handshake", "keepalive"}, to : Node]
  /\ data \subseteq DataPacket
  /\ synced \in [Node -> BOOLEAN]

-----------------------------------------------------------------------------
(* The counters of a session cipher. *)

\* SessionCipher::decrypt takes a low counter under a high recv_counter for a
\* restart of the sender.
LikelyRestart(counter, r) == counter < RestartLimit /\ r > RestartLimit

\* What if the test "counter <= recv_counter" went missing: in u64 the
\* difference then wraps for a new counter and exceeds the window.
AcceptsUnguarded(counter, r) ==
  r > 0 /\ ~LikelyRestart(counter, r) => counter <= r /\ r - counter <= Window

\* The counter passes the replay test of SessionCipher::decrypt.
Accepts(counter, r) ==
  counter <= r /\ r > 0 /\ ~LikelyRestart(counter, r) => r - counter <= Window

\* Peer::is_connected
Connected(n) == cipher[n] /\ seen[n]

-----------------------------------------------------------------------------
\* What if a daemon had counters only for a peer it can dial.
InitDialledRows ==
  /\ known = [n \in Node |-> n \in Configured]
  /\ addr = [n \in Node |-> n \in Dialled]
  /\ cipher = [n \in Node |-> n \in Configured]
  /\ seen = [n \in Node |-> FALSE]
  /\ send = [n \in Dialled |-> 0]
  /\ recv = [n \in Dialled |-> 0]
  /\ control = {}
  /\ data = {}
  /\ synced = [n \in Node |-> FALSE]

Init ==
  /\ known = [n \in Node |-> n \in Configured]
  /\ addr = [n \in Node |-> n \in Dialled]
  /\ cipher = [n \in Node |-> n \in Configured]
  /\ seen = [n \in Node |-> FALSE]
  /\ send = [n \in Node |-> 0]
  /\ recv = [n \in Node |-> 0]
  /\ control = {}
  /\ data = {}
  /\ synced = [n \in Node |-> FALSE]

\* n's cipher is made anew, its counters 0, or (established = FALSE) goes away.
\* What n sent before belongs to an old session.
NewCipher(n, established) ==
  /\ cipher' = [cipher EXCEPT ![n] = established]
  /\ send' = [send EXCEPT ![n] = 0]
  /\ recv' = [recv EXCEPT ![n] = 0]
  /\ data' = {IF p.to = n THEN p ELSE [p EXCEPT !.current = FALSE] : p \in data}
  /\ synced' = [m \in Node |-> FALSE]

\* The daemon of n stops and starts: the table is built from config.toml, with
\* a session for every configured peer.
Restart(n) ==
  /\ known' = [known EXCEPT ![n] = n \in Configured]
  /\ addr' = [addr EXCEPT ![n] = n \in Dialled]
  /\ seen' = [seen EXCEPT ![n] = FALSE]
  /\ NewCipher(n, n \in Configured)
  /\ UNCHANGED control

\* The discovery listener hears the other daemon: an entry with an endpoint,
\* and no session.
Discover(n) ==
  /\ n \in Discovering
  /\ known' = [known EXCEPT ![n] = TRUE]
  /\ addr' = [addr EXCEPT ![n] = TRUE]
  /\ UNCHANGED <<cipher, seen, send, recv, control, data, synced>>

\* What if the handshake timer skipped every peer that has a session.
SendHandshakeWithoutSession(n) ==
  /\ addr[n] /\ ~cipher[n]
  /\ control' = control \cup {Handshake(Other(n))}
  /\ UNCHANGED <<known, addr, cipher, seen, send, recv, data, synced>>

\* Periodic handshake, to a peer that is not connected.
SendHandshake(n) ==
  /\ addr[n] /\ ~Connected(n)
  /\ control' = control \cup {Handshake(Other(n))}
  /\ UNCHANGED <<known, addr, cipher, seen, send, recv, data, synced>>

\* Periodic keepalive, to a connected peer.
SendKeepalive(n) ==
  /\ addr[n] /\ Connected(n)
  /\ control' = control \cup {Keepalive(Other(n))}
  /\ UNCHANGED <<known, addr, cipher, seen, send, recv, data, synced>>

\* A packet from the TUN device, a relayed one or a periodic peer exchange is
\* encrypted under the next counter and sent.
SendData(n) ==
  /\ n \in Talkers /\ addr[n] /\ Connected(n)
  /\ send[n] < MaxCounter /\ Cardinality(data) < MaxData
  /\ data' = data \cup {[to |-> Other(n), counter |-> send[n], current |-> TRUE]}
  /\ send' = [send EXCEPT ![n] = @ + 1]
  /\ UNCHANGED <<known, addr, cipher, seen, recv, control, synced>>

\* What leaves the network when a packet of it is handed to a daemon: nothing
\* when the packet is duplicated.
Taken(packet, duplicated) == IF duplicated THEN {} ELSE {packet}

\* What if every handshake were answered.
AlwaysReply(n) == {Handshake(Other(n))}

\* The answer to a handshake, unless its sender was connected already.
Reply(n) == IF Connected(n) THEN {} ELSE {Handshake(Other(n))}

\* A handshake: the sender's entry and endpoint are recorded, the session is
\* established anew, and the reply goes out.
ReceiveHandshake(n, duplicated) ==
  /\ Handshake(n) \in control
  /\ control' = (control \ Taken(Handshake(n), duplicated)) \cup Reply(n)
  /\ known' = [known EXCEPT ![n] = TRUE]
  /\ addr' = [addr EXCEPT ![n] = TRUE]
  /\ seen' = [seen EXCEPT ![n] = TRUE]
  /\ NewCipher(n, TRUE)

\* A keepalive: found by its source address or peer id it refreshes last_seen,
\* and its source becomes the endpoint of a peer that has none.
ReceiveKeepalive(n, duplicated) ==
  /\ Keepalive(n) \in control
  /\ control' = control \ Taken(Keepalive(n), duplicated)
  /\ addr' = [addr EXCEPT ![n] = known[n]]
  /\ seen' = [seen EXCEPT ![n] = known[n]]
  /\ UNCHANGED <<known, cipher, send, recv, data, synced>>

\* What if recv_counter named the counter expected next.
DecryptExpectingNext(n, p) ==
  /\ cipher[n] /\ Accepts(p.counter, recv[n])
  /\ IF p.counter > recv[n] \/ LikelyRestart(p.counter, recv[n])
     THEN /\ recv' = [recv EXCEPT ![n] = p.counter + 1]
          /\ synced' = [synced EXCEPT ![n] = p.current]
     ELSE UNCHANGED <<recv, synced>>
  /\ addr' = [addr EXCEPT ![n] = TRUE]
  /\ seen' = [seen EXCEPT ![n] = TRUE]

\* A data packet, decrypted: recv_counter moves on a higher counter or on what
\* looks like a restart.
Decrypt(n, p) ==
  /\ cipher[n] /\ Accepts(p.counter, recv[n])
  /\ IF p.counter > recv[n] \/ LikelyRestart(p.counter, recv[n])
     THEN /\ recv' = [recv EXCEPT ![n] = p.counter]
          /\ synced' = [synced EXCEPT ![n] = p.current]
     ELSE UNCHANGED <<recv, synced>>
  /\ addr' = [addr EXCEPT ![n] = TRUE]
  /\ seen' = [seen EXCEPT ![n] = TRUE]

\* A data packet that finds no session or fails the replay test is dropped.
Reject(n, p) ==
  /\ ~(cipher[n] /\ Accepts(p.counter, recv[n]))
  /\ UNCHANGED <<recv, synced, addr, seen>>

ReceiveData(n, p, duplicated) ==
  /\ p \in data /\ p.to = n
  /\ data' = data \ Taken(p, duplicated)
  /\ Decrypt(n, p) \/ Reject(n, p)
  /\ UNCHANGED <<known, cipher, send, control>>

\* 120 s pass without a packet from the other daemon.
Expire(n) ==
  /\ seen[n]
  /\ seen' = [seen EXCEPT ![n] = FALSE]
  /\ UNCHANGED <<known, addr, cipher, send, recv, control, data, synced>>

LosePacket ==
  /\ \/ \E p \in control : control' = control \ {p} /\ UNCHANGED data
     \/ \E p \in data : data' = data \ {p} /\ UNCHANGED control
  /\ UNCHANGED <<known, addr, cipher, seen, send, recv, synced>>

Next ==
  \/ \E n \in Node :
       \/ Restart(n)
       \/ Discover(n)
       \/ SendHandshake(n)
       \/ SendKeepalive(n)
       \/ SendData(n)
       \/ Expire(n)
       \/ \E duplicated \in BOOLEAN :
            \/ ReceiveHandshake(n, duplicated)
            \/ ReceiveKeepalive(n, duplicated)
            \/ \E p \in data : ReceiveData(n, p, duplicated)
  \/ LosePacket

Spec == Init /\ [][Next]_vars

\* The timers of the main loop run as long as the daemon does, and a packet
\* sent again and again gets through: UDP loses packets, not every one.
Fairness(n) ==
  /\ WF_vars(Discover(n))
  /\ WF_vars(SendHandshake(n))
  /\ SF_vars(SendKeepalive(n))
  /\ SF_vars(SendData(n))
  /\ SF_vars(ReceiveHandshake(n, FALSE))
  /\ SF_vars(ReceiveKeepalive(n, FALSE))
  /\ SF_vars(\E p \in data : ReceiveData(n, p, FALSE))

FairSpec == Spec /\ \A n \in Node : Fairness(n)

-----------------------------------------------------------------------------
(* Safety. *)

\* Replay protection never turns on the live session: while recv_counter stems
\* from the sender's present session, and right after a reset, the next packet
\* the sender encrypts passes the replay test, whatever duplicated or earlier
\* packets arrived (SessionCipher::decrypt_into).  It promises nothing once a
\* packet of an old session has set recv_counter: StallsShrink and StallEnds do.
NextPacketAccepted ==
  \A n \in Node :
    cipher[n] /\ (synced[n] \/ recv[n] = 0) => Accepts(send[Other(n)], recv[n])

\* n drops what the other daemon sends next as a replay.
Stalled(n) ==
  cipher[n] /\ cipher[Other(n)] /\ ~Accepts(send[Other(n)], recv[n])

\* Packets to n of sessions that their sender has no more.
Late(n) == {p \in data : p.to = n /\ ~p.current}

\* A one-sided reset leaves a receiver behind, its counter far above its peer's
\* (SessionCipher::decrypt_into).  As long as the peer's session goes on, that gets no
\* worse: no more packets become late, and the receiver's counter rises to that of a
\* late one at most, so that the peer, counting up, closes the gap.
StallsShrink ==
  [][\A n \in Node :
       Stalled(n) /\ send'[Other(n)] >= send[Other(n)] =>
         /\ Late(n)' \subseteq Late(n)
         /\ recv'[n] <= recv[n] \/ \E p \in Late(n) : recv'[n] = p.counter]_vars

-----------------------------------------------------------------------------
(* Liveness, under FairSpec. *)

StaysConnected(n) == <>[]Connected(n)
RestartsEnd == <>[][\A n \in Node : ~Restart(n)]_vars

\* Every daemon without a live session gets one again, after restarts of either
\* daemon, silences of 120 s and lost packets: the handshake timer, the reply
\* rule and the keepalives of the other end suffice together.  It holds where
\* config.toml gives both daemons a session to begin with.
Reconnects == RestartsEnd => \A n \in Node : []<>Connected(n)

\* A receiver left behind by a one-sided reset does not reject its peer's data
\* forever: as the sender's counter climbs, by peer exchange if by nothing
\* else, its packets are accepted again.
StallEnds ==
  (\A n \in Node : StaysConnected(n)) => []<>(\A n \in Node : ~Stalled(n))

\* Two daemons do not bounce handshakes for ever (the comment at
\* src/main.rs:789): once both stay connected the handshakes die out.
HandshakesDieOut ==
  (\A n \in Node : StaysConnected(n)) => <>[](\A n \in Node : Handshake(n) \notin control)

=============================================================================
