---------------------------- MODULE SessionProofs ----------------------------
(***************************************************************************)
(* What Session guarantees for every window, restart limit, bound and      *)
(* configuration, proved.  The inductive invariant is SessionInv: besides  *)
(* the types, the counter of a packet of the present session lies below    *)
(* its sender's send_counter, and so does a recv_counter set by one.  From *)
(* it follows too that a receiver which drops what it is sent is not led   *)
(* further astray.                                                         *)
(***************************************************************************)
EXTENDS Session, TLAPS

\* A recv_counter that came from the sender's present session lies below what
\* the sender will use next.
SyncedBelow == \A n \in Node : synced[n] => recv[n] < send[Other(n)]

\* So does the counter of a packet of the sender's present session.
CurrentBelow ==
  \A p \in data : p.current => p.counter < send[Other(p.to)]

SessionInv == TypeOK /\ CurrentBelow /\ SyncedBelow

\* The other end of the tunnel is a daemon, not oneself, and its other end is
\* oneself (Other stands for the peer entry each daemon keeps for the other).
LEMMA OtherNode ==
  \A n \in Node : /\ Other(n) \in Node
                  /\ Other(n) # n
                  /\ Other(Other(n)) = n
  BY NodeAssumption DEF Node, Other

\* The daemons start with the invariant (run_daemon builds the peer table).
LEMMA InitInv == Init => SessionInv
  BY OtherNode, ConfigAssumption
  DEF Init, SessionInv, TypeOK, CurrentBelow, SyncedBelow, Node, DataPacket

\* Establishing or dropping n's session (Peer::establish_session, a restart)
\* keeps the counters typed and below.
LEMMA NewCipherInv ==
  ASSUME SessionInv, NEW n \in Node, NEW e \in BOOLEAN, NewCipher(n, e)
  PROVE  /\ cipher' \in [Node -> BOOLEAN]
         /\ send' \in [Node -> Nat]
         /\ recv' \in [Node -> Nat]
         /\ synced' \in [Node -> BOOLEAN]
         /\ data' \subseteq DataPacket
         /\ CurrentBelow'
         /\ SyncedBelow'
<1> USE DEF SessionInv
<1>1. /\ cipher' \in [Node -> BOOLEAN]
      /\ send' \in [Node -> Nat]
      /\ recv' \in [Node -> Nat]
      /\ synced' \in [Node -> BOOLEAN]
      /\ SyncedBelow'
  BY DEF NewCipher, TypeOK, SyncedBelow
<1>2. ASSUME NEW q \in data'
      PROVE  /\ q \in DataPacket
             /\ q.current => q.counter < send'[Other(q.to)]
  <2>1. PICK p \in data : q = IF p.to = n THEN p ELSE [p EXCEPT !.current = FALSE]
    BY DEF NewCipher
  <2>2. p \in DataPacket
    BY DEF TypeOK
  <2>3. CASE p.to = n
    <3>1. Other(n) # n /\ send'[Other(n)] = send[Other(n)]
      BY OtherNode DEF NewCipher, TypeOK
    <3>2. QED
      BY <2>1, <2>2, <2>3, <3>1 DEF CurrentBelow, DataPacket
  <2>4. CASE p.to # n
    BY <2>1, <2>2, <2>4 DEF DataPacket
  <2>5. QED
    BY <2>3, <2>4
<1>3. QED
  BY <1>1, <1>2 DEF CurrentBelow

\* Every step of the daemons and of the network keeps the invariant.
LEMMA StepInv == SessionInv /\ [Next]_vars => SessionInv'
<1> SUFFICES ASSUME SessionInv, [Next]_vars
             PROVE  SessionInv'
  OBVIOUS
<1> USE DEF SessionInv
<1>1. ASSUME NEW n \in Node, Restart(n)
      PROVE  SessionInv'
  <2>1. NewCipher(n, n \in Configured)
    BY <1>1 DEF Restart
  <2>2. (n \in Configured) \in BOOLEAN
    OBVIOUS
  <2>3. /\ known' \in [Node -> BOOLEAN]
        /\ addr' \in [Node -> BOOLEAN]
        /\ seen' \in [Node -> BOOLEAN]
    BY <1>1 DEF Restart, TypeOK
  <2>4. /\ cipher' \in [Node -> BOOLEAN]
        /\ send' \in [Node -> Nat]
        /\ recv' \in [Node -> Nat]
        /\ synced' \in [Node -> BOOLEAN]
        /\ data' \subseteq DataPacket
        /\ CurrentBelow' /\ SyncedBelow'
    BY <2>1, <2>2, NewCipherInv
  <2>5. control' \subseteq [type : {"handshake", "keepalive"}, to : Node]
    BY <1>1 DEF Restart, TypeOK
  <2>6. QED
    BY <2>3, <2>4, <2>5 DEF TypeOK
<1>2. ASSUME NEW n \in Node, Discover(n)
      PROVE  SessionInv'
  BY <1>2 DEF Discover, TypeOK, CurrentBelow, SyncedBelow
<1>3. ASSUME NEW n \in Node, SendHandshake(n)
      PROVE  SessionInv'
  BY <1>3, OtherNode DEF SendHandshake, Handshake, TypeOK, CurrentBelow, SyncedBelow
<1>4. ASSUME NEW n \in Node, SendKeepalive(n)
      PROVE  SessionInv'
  BY <1>4, OtherNode DEF SendKeepalive, Keepalive, TypeOK, CurrentBelow, SyncedBelow
<1>5. ASSUME NEW n \in Node, SendData(n)
      PROVE  SessionInv'
  <2>1. /\ send' = [send EXCEPT ![n] = send[n] + 1]
        /\ \A m \in Node : send[m] \in Nat /\ send[m] <= send'[m]
        /\ send[n] < send'[n]
    BY <1>5 DEF SendData, TypeOK
  <2>2. TypeOK'
    <3> DEFINE p == [to |-> Other(n), counter |-> send[n], current |-> TRUE]
    <3>1. p \in DataPacket
      BY <2>1, OtherNode DEF DataPacket
    <3>2. data' = data \cup {p}
      BY <1>5 DEF SendData
    <3>3. data' \subseteq DataPacket
      BY <3>1, <3>2 DEF TypeOK
    <3>4. send' \in [Node -> Nat]
      BY <2>1 DEF TypeOK
    <3>5. UNCHANGED <<known, addr, cipher, seen, recv, control, synced>>
      BY <1>5 DEF SendData
    <3>6. QED
      BY <3>3, <3>4, <3>5 DEF TypeOK
  <2>3. CurrentBelow'
    <3> SUFFICES ASSUME NEW q \in data', q.current
                 PROVE  q.counter < send'[Other(q.to)]
      BY DEF CurrentBelow
    <3>1. CASE q \in data
      <4>1. q.to \in Node /\ q.counter \in Nat /\ Other(q.to) \in Node
        BY <3>1, OtherNode DEF TypeOK, DataPacket
      <4>2. QED
        BY <2>1, <2>2, <3>1, <4>1 DEF CurrentBelow, TypeOK
    <3>2. CASE q = [to |-> Other(n), counter |-> send[n], current |-> TRUE]
      BY <2>1, <3>2, OtherNode
    <3>3. QED
      BY <1>5, <3>1, <3>2 DEF SendData
  <2>4. SyncedBelow'
    <3> SUFFICES ASSUME NEW m \in Node, synced'[m]
                 PROVE  recv'[m] < send'[Other(m)]
      BY DEF SyncedBelow
    <3>1. recv'[m] = recv[m] /\ recv[m] < send[Other(m)]
      BY <1>5 DEF SendData, SyncedBelow
    <3>2. Other(m) \in Node /\ recv[m] \in Nat
      BY OtherNode DEF TypeOK
    <3>3. QED
      BY <2>1, <2>2, <3>1, <3>2 DEF TypeOK
  <2>5. QED
    BY <2>2, <2>3, <2>4
<1>6. ASSUME NEW n \in Node, Expire(n)
      PROVE  SessionInv'
  BY <1>6 DEF Expire, TypeOK, CurrentBelow, SyncedBelow
<1>7. ASSUME NEW n \in Node, NEW d \in BOOLEAN, ReceiveHandshake(n, d)
      PROVE  SessionInv'
  <2>1. NewCipher(n, TRUE)
    BY <1>7 DEF ReceiveHandshake
  <2>2. control' \subseteq control \cup {Handshake(Other(n))}
    BY <1>7 DEF ReceiveHandshake, Reply
  <2>3. Handshake(Other(n)) \in [type : {"handshake", "keepalive"}, to : Node]
    BY OtherNode DEF Handshake
  <2>4. /\ known' \in [Node -> BOOLEAN]
        /\ addr' \in [Node -> BOOLEAN]
        /\ seen' \in [Node -> BOOLEAN]
    BY <1>7 DEF ReceiveHandshake, TypeOK
  <2>5. /\ cipher' \in [Node -> BOOLEAN]
        /\ send' \in [Node -> Nat]
        /\ recv' \in [Node -> Nat]
        /\ synced' \in [Node -> BOOLEAN]
        /\ data' \subseteq DataPacket
        /\ CurrentBelow' /\ SyncedBelow'
    BY <2>1, NewCipherInv
  <2>6. control' \subseteq [type : {"handshake", "keepalive"}, to : Node]
    BY <2>2, <2>3 DEF TypeOK
  <2>7. QED
    BY <2>4, <2>5, <2>6 DEF TypeOK
<1>8. ASSUME NEW n \in Node, NEW d \in BOOLEAN, ReceiveKeepalive(n, d)
      PROVE  SessionInv'
  BY <1>8 DEF ReceiveKeepalive, TypeOK, CurrentBelow, SyncedBelow
<1>9. ASSUME NEW n \in Node, NEW d \in BOOLEAN, NEW p \in data, ReceiveData(n, p, d)
      PROVE  SessionInv'
  <2>1. /\ data' \subseteq data
        /\ UNCHANGED <<known, cipher, send, control>>
        /\ p.to = n
    BY <1>9 DEF ReceiveData
  <2>2. p \in DataPacket /\ p.counter \in Nat /\ p.current \in BOOLEAN
    BY DEF TypeOK, DataPacket
  <2>3. CurrentBelow'
    BY <2>1 DEF CurrentBelow
  <2>4. CASE Reject(n, p)
    BY <2>1, <2>3, <2>4 DEF Reject, TypeOK, SyncedBelow
  <2>5. CASE Decrypt(n, p)
    <3>1. addr' \in [Node -> BOOLEAN] /\ seen' \in [Node -> BOOLEAN]
      BY <2>5 DEF Decrypt, TypeOK
    <3>2. CASE UNCHANGED <<recv, synced>>
      BY <2>1, <2>3, <3>1, <3>2 DEF TypeOK, SyncedBelow
    <3>3. CASE /\ recv' = [recv EXCEPT ![n] = p.counter]
               /\ synced' = [synced EXCEPT ![n] = p.current]
      <4>1. TypeOK'
        BY <2>1, <2>2, <3>1, <3>3 DEF TypeOK
      <4>2. p.current => p.counter < send[Other(n)]
        BY <2>1 DEF CurrentBelow
      <4>3. SyncedBelow'
        BY <2>1, <3>3, <4>2 DEF SyncedBelow, TypeOK
      <4>4. QED
        BY <2>3, <4>1, <4>3
    <3>4. QED
      BY <2>5, <3>2, <3>3 DEF Decrypt
  <2>6. QED
    BY <1>9, <2>4, <2>5 DEF ReceiveData
<1>10. CASE LosePacket
  BY <1>10 DEF LosePacket, TypeOK, CurrentBelow, SyncedBelow
<1>11. CASE UNCHANGED vars
  BY <1>11 DEF vars, TypeOK, CurrentBelow, SyncedBelow
<1>12. QED
  BY <1>1, <1>2, <1>3, <1>4, <1>5, <1>6, <1>7, <1>8, <1>9, <1>10, <1>11 DEF Next

\* The inductive invariant holds in every reachable state.
LEMMA InvHolds == Spec => []SessionInv
  BY InitInv, StepInv, PTL DEF Spec

\* Every counter, packet and flag of a tunnel keeps its type.
THEOREM TypeCorrect == Spec => []TypeOK
  BY InvHolds, PTL DEF SessionInv

\* The replay test never rejects what the live session sends next
\* (SessionCipher::decrypt_into), whatever the window and the restart limit.
THEOREM LiveSessionAccepted == Spec => []NextPacketAccepted
<1>1. SessionInv => NextPacketAccepted
  <2> SUFFICES ASSUME SessionInv, NEW n \in Node, synced[n] \/ recv[n] = 0
               PROVE  Accepts(send[Other(n)], recv[n])
    BY DEF NextPacketAccepted
  <2>1. recv[n] \in Nat /\ send[Other(n)] \in Nat
    BY OtherNode DEF SessionInv, TypeOK
  <2>2. CASE synced[n]
    BY <2>1, <2>2 DEF SessionInv, SyncedBelow, Accepts
  <2>3. CASE recv[n] = 0
    BY <2>1, <2>3 DEF Accepts
  <2>4. QED
    BY <2>2, <2>3
<1>2. QED
  BY InvHolds, <1>1, PTL

-----------------------------------------------------------------------------
(* Stalls. *)

\* What StallsShrink says of a step.
Shrinks(n) ==
  /\ Late(n)' \subseteq Late(n)
  /\ recv'[n] <= recv[n] \/ \E p \in Late(n) : recv'[n] = p.counter

\* A session made anew by either end makes no packet of the other end late, and none of
\* its own if its counter does not go back: then it has sent nothing.
LEMMA NewCipherShrinks ==
  ASSUME SessionInv, NEW n \in Node, NEW m \in Node, NEW e \in BOOLEAN, NewCipher(m, e),
         send'[Other(n)] >= send[Other(n)]
  PROVE  Shrinks(n)
<1>1. recv'[n] <= recv[n]
  BY DEF SessionInv, TypeOK, NewCipher
<1>2. ASSUME NEW q \in data', q.to = n, ~q.current
      PROVE  q \in Late(n)
  <2>1. PICK p \in data : q = IF p.to = m THEN p ELSE [p EXCEPT !.current = FALSE]
    BY DEF NewCipher
  <2>2. p \in DataPacket
    BY DEF SessionInv, TypeOK
  <2>3. CASE p.to = m
    BY <1>2, <2>1, <2>3 DEF Late
  <2>4. CASE p.to # m
    <3>1. q = [p EXCEPT !.current = FALSE] /\ p.to = n
      BY <1>2, <2>1, <2>2, <2>4 DEF DataPacket
    <3>2. m = Other(n)
      BY <2>4, <3>1 DEF Node, Other
    <3>3. send'[m] = 0 /\ send[m] \in Nat
      BY DEF NewCipher, SessionInv, TypeOK
    <3>4. send[m] = 0
      BY <3>2, <3>3
    <3>5. ~p.current
      BY <2>2, <3>1, <3>2, <3>4 DEF SessionInv, CurrentBelow, DataPacket
    <3>6. q = p
      BY <2>2, <3>1, <3>5 DEF DataPacket
    <3>7. QED
      BY <1>2, <3>6 DEF Late
  <2>5. QED
    BY <2>3, <2>4
<1>3. QED
  BY <1>1, <1>2 DEF Shrinks, Late

\* A receiver takes over the counter of a packet of the present session only if it is
\* higher, and there is none in a stall.
LEMMA ReceiveShrinks ==
  ASSUME SessionInv, NEW n \in Node, Stalled(n),
         NEW m \in Node, NEW p \in data, NEW d \in BOOLEAN, ReceiveData(m, p, d)
  PROVE  Shrinks(n)
<1>1. data' \subseteq data /\ p.to = m /\ p \in DataPacket
  BY DEF ReceiveData, SessionInv, TypeOK
<1>2. Late(n)' \subseteq Late(n)
  BY <1>1 DEF Late
<1>3. CASE recv'[n] = recv[n]
  BY <1>2, <1>3 DEF Shrinks, SessionInv, TypeOK
<1>4. CASE recv'[n] # recv[n]
  <2>1. m = n /\ recv'[n] = p.counter
    BY <1>4 DEF ReceiveData, Decrypt, Reject, SessionInv, TypeOK
  <2>2. CASE ~p.current
    BY <1>1, <1>2, <2>1, <2>2 DEF Shrinks, Late
  <2>3. CASE p.current
    <3>1. p.counter < send[Other(n)] /\ p.counter \in Nat
      BY <1>1, <2>1, <2>3 DEF SessionInv, CurrentBelow, DataPacket
    <3>2. send[Other(n)] <= recv[n] /\ send[Other(n)] \in Nat /\ recv[n] \in Nat
      BY OtherNode DEF Stalled, Accepts, SessionInv, TypeOK
    <3>3. recv'[n] <= recv[n]
      BY <2>1, <3>1, <3>2
    <3>4. QED
      BY <1>2, <3>3 DEF Shrinks
  <2>4. QED
    BY <1>1, <2>2, <2>3 DEF DataPacket
<1>5. QED
  BY <1>3, <1>4

LEMMA SendShrinks ==
  ASSUME SessionInv, NEW n \in Node, NEW m \in Node, SendData(m)
  PROVE  Shrinks(n)
<1> DEFINE p == [to |-> Other(m), counter |-> send[m], current |-> TRUE]
<1>1. data' = data \cup {p} /\ p.current /\ recv' = recv
  BY DEF SendData
<1> HIDE DEF p
<1>2. QED
  BY <1>1 DEF Shrinks, Late, SessionInv, TypeOK

\* For every window, restart limit and history of the tunnel: a receiver that is stalled is
\* led no further astray by the session of its peer, and by at most the late packets there
\* are by that of an earlier one (SessionCipher::decrypt_into). That a stall ends, given
\* that something is sent and received, is StallEnds.
THEOREM StallsAlwaysShrink == Spec => StallsShrink
<1>1. ASSUME SessionInv, Next, NEW n \in Node, Stalled(n), send'[Other(n)] >= send[Other(n)]
      PROVE  Shrinks(n)
  <2>1. ASSUME data' \subseteq data, recv' = recv PROVE Shrinks(n)
    BY <1>1, <2>1 DEF Shrinks, Late, SessionInv, TypeOK
  <2>2. ASSUME NEW m \in Node, Restart(m)
        PROVE  Shrinks(n)
    <3>1. NewCipher(m, m \in Configured) /\ (m \in Configured) \in BOOLEAN
      BY <2>2 DEF Restart
    <3>2. QED
      BY <1>1, <3>1, NewCipherShrinks
  <2>3. ASSUME NEW m \in Node, NEW d \in BOOLEAN, ReceiveHandshake(m, d)
        PROVE  Shrinks(n)
    <3>1. NewCipher(m, TRUE)
      BY <2>3 DEF ReceiveHandshake
    <3>2. QED
      BY <1>1, <3>1, NewCipherShrinks
  <2>4. ASSUME NEW m \in Node, SendData(m)
        PROVE  Shrinks(n)
    BY <1>1, <2>4, SendShrinks
  <2>5. ASSUME NEW m \in Node, NEW p \in data, NEW d \in BOOLEAN, ReceiveData(m, p, d)
        PROVE  Shrinks(n)
    BY <1>1, <2>5, ReceiveShrinks
  <2>6. ASSUME NEW m \in Node,
               \/ Discover(m) \/ SendHandshake(m) \/ SendKeepalive(m) \/ Expire(m)
               \/ \E d \in BOOLEAN : ReceiveKeepalive(m, d)
        PROVE  Shrinks(n)
    BY <2>1, <2>6 DEF Discover, SendHandshake, SendKeepalive, Expire, ReceiveKeepalive
  <2>7. CASE LosePacket
    BY <2>1, <2>7 DEF LosePacket
  <2>8. QED
    BY <1>1, <2>2, <2>3, <2>4, <2>5, <2>6, <2>7 DEF Next
<1>2. SessionInv /\ [Next]_vars =>
        [\A n \in Node :
           Stalled(n) /\ send'[Other(n)] >= send[Other(n)] =>
             /\ Late(n)' \subseteq Late(n)
             /\ recv'[n] <= recv[n] \/ \E p \in Late(n) : recv'[n] = p.counter]_vars
  BY <1>1 DEF Shrinks
<1>3. QED
  BY <1>2, InvHolds, PTL DEF Spec, StallsShrink

=============================================================================
