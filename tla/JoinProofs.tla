------------------------------ MODULE JoinProofs ------------------------------
(***************************************************************************)
(* What Join guarantees for every set of nodes, every size of the last     *)
(* octet and every way tokens may go, proved.  Types hold by themselves,   *)
(* and so does it that Join implements AddressBook.  That stored peers and *)
(* tokens stay true takes founders whose address is not the default one:   *)
(* the inductive invariant JoinInv says that no node with a configuration  *)
(* has the default address, so that none is renumbered, that a founder is  *)
(* at the address init gives it, however often, and that no key printed or *)
(* stored is newer than the one its node has, so that an old key never     *)
(* comes back.                                                             *)
(***************************************************************************)
EXTENDS Join, TLAPS

\* No operator gives init the address of Config::default.
FoundersSettled == \A n \in Founder : Chosen[n] # Default

Settled == \A n \in Node : Configured(n) => config[n].addr # Default
FoundersStay == \A n \in Founder : Configured(n) => config[n].addr = Chosen[n]

\* The key is the node's present one or an older one, and if it is the present one
\* the address is the node's.
Holds(pk, ip) ==
  /\ keyFile[pk.of] # None /\ pk.no <= keyFile[pk.of].no
  /\ keyFile[pk.of] = pk /\ ip # Default => Configured(pk.of) /\ config[pk.of].addr = ip

AllHold ==
  /\ \A t \in tokens : Holds(t.pk, t.ip)
  /\ \A n \in Node, k \in Key : Lists(n, k) => Holds(k, config[n].peers[k])

JoinInv == TypeOK /\ Settled /\ FoundersStay /\ AllHold

-----------------------------------------------------------------------------
(* What the parts of a command return. *)

\* The configuration a command starts from (load_config) is one, and lists nothing
\* if there is no file.
LEMMA LoadedType ==
  ASSUME TypeOK, NEW n \in Node
  PROVE  /\ Loaded(n) \in Config
         /\ Configured(n) => Loaded(n) = config[n]
         /\ ~Configured(n) => Loaded(n).addr = Default /\ \A k \in Key : Loaded(n).peers[k] = None
  BY AddressAssumption DEF TypeOK, Loaded, Configured, Config, Maybe

\* A fresh key (KeyPair::generate) is a key of the node.
LEMMA FreshType ==
  ASSUME NEW n \in Node, NEW k \in Fresh(n)
  PROVE  k \in Key /\ k.of = n
  BY DEF Fresh

\* load_or_generate returns a key of the node, the stored one if there is one.
LEMMA KeyType ==
  ASSUME TypeOK, NEW n \in Node, NEW k \in LoadOrGenerate(n)
  PROVE  /\ k \in Key /\ k.of = n
         /\ keyFile[n] # None => k = keyFile[n]
  BY FreshType DEF TypeOK, LoadOrGenerate, Maybe

\* The candidates of cmd_join are addresses, of the inviter's subnet.
LEMMA CandidateType ==
  ASSUME NEW ip \in Addr, NEW i \in Host
  PROVE  Candidate(ip, i) \in Addr
<1>1. ip.host + 1 + i \in Nat
  BY SizeAssumption DEF Addr, Host
<1>2. (ip.host + 1 + i) % Size \in Host
  BY <1>1, SizeAssumption DEF Host
<1> QED
  BY <1>2 DEF Candidate, Addr

\* cmd_join keeps an address that is not the default one, and never assigns that one.
LEMMA AddressType ==
  ASSUME TypeOK, NEW n \in Node, NEW ip \in Addr, NEW addr \in Addresses(n, ip)
  PROVE  /\ addr \in Addr
         /\ addr # Default
         /\ HasExistingAddress(n) => addr = config[n].addr
<1>1. CASE HasExistingAddress(n)
  BY <1>1, NoneAssumption DEF Addresses, HasExistingAddress, Configured, TypeOK, Config, Maybe
<1>2. CASE ~HasExistingAddress(n)
  <2>1. PICK i \in Host : addr = Candidate(ip, i) /\ Free(n, ip, Candidate(ip, i))
    BY <1>2 DEF Addresses, Assigned
  <2>2. Loaded(n).addr = Default
    BY <1>2, LoadedType DEF HasExistingAddress
  <2> QED
    BY <1>2, <2>1, <2>2, CandidateType DEF Free
<1> QED
  BY <1>1, <1>2

-----------------------------------------------------------------------------
(* Types. *)

\* Every command keeps the types (cmd_init, cmd_invite, cmd_join).
LEMMA TypeStep == TypeOK /\ [Next]_vars => TypeOK'
<1> SUFFICES ASSUME TypeOK, [Next]_vars PROVE TypeOK'
  OBVIOUS
<1>1. CASE \E n \in Founder : InitNode(n, Chosen[n])
  <2>1. PICK n \in Founder : InitNode(n, Chosen[n])
    BY <1>1
  <2>2. n \in Node /\ [addr |-> Chosen[n], peers |-> [k \in Key |-> None]] \in Config
    BY NodeAssumption, AddressAssumption DEF Config, Maybe
  <2>3. config' \in [Node -> Maybe(Config)]
    BY <2>1, <2>2 DEF InitNode, TypeOK, Maybe
  <2>4. /\ keyFile' \in [Node -> Maybe(Key)]
        /\ \A m \in Node : keyFile'[m] # None => keyFile'[m].of = m
    BY <2>1, <2>2, FreshType DEF InitNode, TypeOK, Maybe
  <2>5. QED
    BY <2>1, <2>3, <2>4 DEF InitNode, TypeOK
<1>2. CASE \E n \in Node : Invite(n)
  <2>0. PICK n \in Node : Invite(n)
    BY <1>2
  <2>1. PICK k \in LoadOrGenerate(n) :
          /\ keyFile' = [keyFile EXCEPT ![n] = k]
          /\ tokens' = tokens \cup {[pk |-> k, ip |-> Loaded(n).addr]}
          /\ UNCHANGED config
    BY <2>0 DEF Invite
  <2>2. [pk |-> k, ip |-> Loaded(n).addr] \in Token
    BY LoadedType, KeyType DEF Token, Config
  <2>3. QED
    BY <2>1, <2>2, KeyType DEF TypeOK, Maybe
<1>3. CASE \E n \in Node, token \in tokens : Offered(n, token) /\ Join(n, token)
  <2>1. PICK n \in Node, token \in tokens : Join(n, token)
    BY <1>3
  <2>2. token \in Token /\ token.ip \in Addr /\ token.pk \in Key
    BY DEF TypeOK, Token
  <2>3. PICK addr \in Addresses(n, token.ip), k \in LoadOrGenerate(n) :
          /\ keyFile' = [keyFile EXCEPT ![n] = k]
          /\ \/ /\ config' = [config EXCEPT ![n] =
                     [addr |-> addr, peers |-> MergePeer(Loaded(n).peers, token)]]
                /\ tokens' = tokens \cup {[pk |-> k, ip |-> addr]}
             \/ UNCHANGED <<config, tokens>>
    BY <2>1 DEF Join
  <2>4. addr \in Addr /\ k \in Key /\ k.of = n
    BY <2>2, <2>3, AddressType, KeyType
  <2>5. [addr |-> addr, peers |-> MergePeer(Loaded(n).peers, token)] \in Config
    BY <2>2, <2>4, LoadedType DEF MergePeer, Config, Maybe
  <2>6. [pk |-> k, ip |-> addr] \in Token
    BY <2>4 DEF Token
  <2>7. config' \in [Node -> Maybe(Config)] /\ tokens' \subseteq Token
    BY <2>3, <2>5, <2>6 DEF TypeOK, Maybe
  <2>8. /\ keyFile' \in [Node -> Maybe(Key)]
        /\ \A m \in Node : keyFile'[m] # None => keyFile'[m].of = m
    BY <2>3, <2>4 DEF TypeOK, Maybe
  <2>9. QED
    BY <2>7, <2>8 DEF TypeOK
<1>4. CASE UNCHANGED vars
  BY <1>4 DEF vars, TypeOK
<1>5. QED
  BY <1>1, <1>2, <1>3, <1>4 DEF Next

\* Configurations, keys and tokens keep their types, an address that goes round the
\* last octet included (cmd_join), whoever the founders are.
THEOREM JoinTypeCorrect == Spec => []TypeOK
<1>1. Init => TypeOK
  BY DEF Init, TypeOK, Maybe
<1>2. QED
  BY <1>1, TypeStep, PTL DEF Spec

-----------------------------------------------------------------------------
(* Tokens and links. *)

HoldsAfter(pk, ip) ==
  /\ keyFile'[pk.of] # None /\ pk.no <= keyFile'[pk.of].no
  /\ keyFile'[pk.of] = pk /\ ip # Default => config'[pk.of] # None /\ config'[pk.of].addr = ip

\* A node that has a configuration keeps its address, and a key goes only for a newer one.
Steady ==
  \A m \in Node :
    /\ Configured(m) => config'[m] # None /\ config'[m].addr = config[m].addr
    /\ keyFile[m] # None =>
         /\ keyFile'[m] # None
         /\ keyFile'[m] = keyFile[m] \/ keyFile[m].no < keyFile'[m].no

\* A generated key is newer than the one it replaces (KeyPair::generate).
LEMMA FreshNewer ==
  ASSUME TypeOK, NEW n \in Node, NEW k \in Fresh(n), keyFile[n] # None
  PROVE  keyFile[n].no < k.no
  BY DEF TypeOK, Fresh, Maybe, Key

\* init gives the founder its address again, and a new key if any; the others load the
\* key there is and preserve an address that is not the default one.
LEMMA NodesSteady ==
  TypeOK /\ TypeOK' /\ Settled /\ FoundersStay /\ [Next]_vars => Steady
<1> SUFFICES ASSUME TypeOK, TypeOK', Settled, FoundersStay, [Next]_vars PROVE Steady
  OBVIOUS
<1>1. CASE \E n \in Founder : InitNode(n, Chosen[n])
  <2>1. PICK n \in Founder : InitNode(n, Chosen[n])
    BY <1>1
  <2>2. n \in Node /\ [addr |-> Chosen[n], peers |-> [k \in Key |-> None]] \in Config
    BY NodeAssumption, AddressAssumption DEF Config, Maybe
  <2>3. config'[n] # None /\ config'[n].addr = Chosen[n]
    BY <2>1, <2>2, NoneAssumption DEF InitNode, TypeOK, Config
  <2>4. \A m \in Node \ {n} : config'[m] = config[m] /\ keyFile'[m] = keyFile[m]
    BY <2>1, <2>2 DEF InitNode, TypeOK
  <2>5. CASE UNCHANGED keyFile
    BY <2>3, <2>4, <2>5 DEF Steady, Configured, FoundersStay
  <2>6. CASE \E k \in Fresh(n) : keyFile' = [keyFile EXCEPT ![n] = k]
    <3>1. PICK k \in Fresh(n) : keyFile' = [keyFile EXCEPT ![n] = k]
      BY <2>6
    <3>2. keyFile'[n] = k /\ k # None /\ (keyFile[n] # None => keyFile[n].no < k.no)
      BY <2>2, <3>1, FreshType, FreshNewer, NoneAssumption DEF TypeOK
    <3>3. QED
      BY <2>3, <2>4, <3>2 DEF Steady, Configured, FoundersStay
  <2>7. QED
    BY <2>1, <2>5, <2>6 DEF InitNode
<1>2. CASE \E n \in Node : Invite(n)
  BY <1>2, KeyType DEF Invite, Steady, Configured, TypeOK
<1>3. CASE \E n \in Node, token \in tokens : Offered(n, token) /\ Join(n, token)
  <2>1. PICK n \in Node, token \in tokens : Join(n, token)
    BY <1>3
  <2>2. token.ip \in Addr
    BY DEF TypeOK, Token
  <2>3. PICK addr \in Addresses(n, token.ip), k \in LoadOrGenerate(n) :
          /\ keyFile' = [keyFile EXCEPT ![n] = k]
          /\ \/ config' = [config EXCEPT ![n] =
                  [addr |-> addr, peers |-> MergePeer(Loaded(n).peers, token)]]
             \/ UNCHANGED config
    BY <2>1 DEF Join
  <2>4. addr \in Addr /\ (Configured(n) => addr = config[n].addr)
    BY <2>2, AddressType DEF Settled, HasExistingAddress
  <2>5. keyFile[n] # None => k = keyFile[n]
    BY KeyType
  <2>6. [addr |-> addr, peers |-> MergePeer(Loaded(n).peers, token)] \in Config
    BY <2>1, <2>4, LoadedType DEF TypeOK, Token, MergePeer, Config, Maybe
  <2>7. [addr |-> addr, peers |-> MergePeer(Loaded(n).peers, token)] # None
    BY <2>6, NoneAssumption DEF Config
  <2>8. QED
    BY <2>3, <2>4, <2>5, <2>7 DEF Steady, Configured, TypeOK
<1>4. CASE UNCHANGED vars
  BY <1>4 DEF vars, Steady, Configured
<1>5. QED
  BY <1>1, <1>2, <1>3, <1>4 DEF Next

\* So what holds of a key and an address goes on holding.
LEMMA HoldsOn ==
  ASSUME TypeOK, TypeOK', Steady, NEW pk \in Key, NEW ip \in Addr, Holds(pk, ip)
  PROVE  HoldsAfter(pk, ip)
<1>1. pk.of \in Node /\ pk.no \in Nat
  BY KeysAssumption DEF Key
<1>2. keyFile[pk.of] # None /\ pk.no <= keyFile[pk.of].no /\ keyFile[pk.of].no \in Nat
  BY <1>1, KeysAssumption DEF Holds, TypeOK, Maybe, Key
<1>3. keyFile'[pk.of] # None /\ keyFile'[pk.of].no \in Nat
  BY <1>1, <1>2, KeysAssumption DEF Steady, TypeOK, Maybe, Key
<1>4. keyFile'[pk.of] = keyFile[pk.of] \/ keyFile[pk.of].no < keyFile'[pk.of].no
  BY <1>1, <1>2 DEF Steady
<1>5. pk.no <= keyFile'[pk.of].no
  BY <1>1, <1>2, <1>3, <1>4
<1>6. keyFile'[pk.of] = pk => keyFile[pk.of] = pk
  BY <1>1, <1>2, <1>3, <1>4
<1>7. QED
  BY <1>1, <1>3, <1>5, <1>6 DEF Holds, HoldsAfter, Steady, Configured

\* Of all tokens printed so far, and of all that is stored.
LEMMA AllHoldOn ==
  ASSUME JoinInv, TypeOK', Steady
  PROVE  /\ \A t \in tokens : HoldsAfter(t.pk, t.ip)
         /\ \A m \in Node, j \in Key : Lists(m, j) => HoldsAfter(j, config[m].peers[j])
<1> USE DEF JoinInv
<1>1. \A t \in tokens : t.pk \in Key /\ t.ip \in Addr /\ Holds(t.pk, t.ip)
  BY DEF AllHold, TypeOK, Token
<1>2. ASSUME NEW m \in Node, NEW j \in Key, Lists(m, j)
      PROVE  config[m].peers[j] \in Addr /\ Holds(j, config[m].peers[j])
  BY <1>2 DEF AllHold, Lists, Configured, TypeOK, Config, Maybe
<1>3. QED
  BY <1>1, <1>2, HoldsOn

\* What has to be shown of the state after a command.
LEMMA HoldsSuffices ==
  ASSUME \A t \in tokens' : HoldsAfter(t.pk, t.ip),
         \A m \in Node, j \in Key :
           config'[m] # None /\ config'[m].peers[j] # None => HoldsAfter(j, config'[m].peers[j])
  PROVE  AllHold'
  BY DEF AllHold, Holds, Lists, Configured, HoldsAfter

\* The initial files and tokens: none.
LEMMA InitJoinInv == Init => JoinInv
<1> SUFFICES ASSUME Init PROVE JoinInv
  OBVIOUS
<1>1. TypeOK
  BY DEF Init, TypeOK, Maybe
<1>2. tokens = {} /\ \A n \in Node : ~Configured(n)
  BY DEF Init, Configured
<1>3. QED
  BY <1>1, <1>2, NodeAssumption DEF JoinInv, Settled, FoundersStay, AllHold, Lists

\* init keeps the invariant: the founder is told its address, and lists nobody.
LEMMA InitNodeStep ==
  ASSUME FoundersSettled, JoinInv, TypeOK', Steady, NEW n \in Founder, InitNode(n, Chosen[n])
  PROVE  Settled' /\ FoundersStay' /\ AllHold'
<1> USE DEF JoinInv
<1>1. n \in Node
  BY NodeAssumption
<1>2. /\ config'[n].addr = Chosen[n] /\ config'[n].peers = [k \in Key |-> None]
      /\ \A m \in Node \ {n} : config'[m] = config[m]
      /\ tokens' = tokens
  BY <1>1 DEF InitNode, TypeOK
<1>3. Settled' /\ FoundersStay'
  BY <1>2, NodeAssumption DEF FoundersSettled, Settled, FoundersStay, Configured
<1>4. \A m \in Node, j \in Key :
        config'[m] # None /\ config'[m].peers[j] # None => HoldsAfter(j, config'[m].peers[j])
  BY <1>2, AllHoldOn DEF Lists, Configured
<1>5. QED
  BY <1>2, <1>3, <1>4, AllHoldOn, HoldsSuffices

\* invite keeps the invariant: the token names the key just loaded or stored, and
\* the address of the configuration, or the default one.
LEMMA InviteStep ==
  ASSUME JoinInv, TypeOK', Steady, NEW n \in Node, Invite(n)
  PROVE  Settled' /\ FoundersStay' /\ AllHold'
<1> USE DEF JoinInv
<1>1. PICK k \in LoadOrGenerate(n) :
        /\ keyFile' = [keyFile EXCEPT ![n] = k]
        /\ tokens' = tokens \cup {[pk |-> k, ip |-> Loaded(n).addr]}
        /\ config' = config
  BY DEF Invite
<1>2. k \in Key /\ k.of = n /\ k.no \in Nat /\ k # None
  BY KeyType, NoneAssumption, KeysAssumption DEF Key
<1>3. Settled' /\ FoundersStay'
  BY <1>1 DEF Settled, FoundersStay, Configured
<1>4. HoldsAfter(k, Loaded(n).addr)
  BY <1>1, <1>2, LoadedType DEF HoldsAfter, Configured, TypeOK
<1>5. \A t \in tokens' : HoldsAfter(t.pk, t.ip)
  BY <1>1, <1>4, AllHoldOn
<1>6. \A m \in Node, j \in Key :
        config'[m] # None /\ config'[m].peers[j] # None => HoldsAfter(j, config'[m].peers[j])
  BY <1>1, AllHoldOn DEF Lists, Configured
<1>7. QED
  BY <1>3, <1>5, <1>6, HoldsSuffices

\* join keeps the invariant: what is merged is a token, and those are true; the
\* token printed is as true as one of invite; killed half way it leaves only a key.
LEMMA JoinStep ==
  ASSUME JoinInv, TypeOK', Steady, NEW n \in Node, NEW token \in tokens,
         Offered(n, token), Join(n, token)
  PROVE  Settled' /\ FoundersStay' /\ AllHold'
<1> USE DEF JoinInv
<1>1. token.pk \in Key /\ token.ip \in Addr /\ HoldsAfter(token.pk, token.ip)
  BY AllHoldOn DEF TypeOK, Token
<1>2. PICK addr \in Addresses(n, token.ip), k \in LoadOrGenerate(n) :
        /\ keyFile' = [keyFile EXCEPT ![n] = k]
        /\ \/ /\ config' = [config EXCEPT ![n] =
                   [addr |-> addr, peers |-> MergePeer(Loaded(n).peers, token)]]
              /\ tokens' = tokens \cup {[pk |-> k, ip |-> addr]}
           \/ config' = config /\ tokens' = tokens
  BY DEF Join
<1>3. k \in Key /\ k.of = n /\ k.no \in Nat /\ k # None
  BY KeyType, NoneAssumption, KeysAssumption DEF Key
<1>4. addr \in Addr /\ addr # Default
  BY <1>1, AddressType
<1>5. CASE config' = config /\ tokens' = tokens
  <2>1. Settled' /\ FoundersStay'
    BY <1>5 DEF Settled, FoundersStay, Configured
  <2>2. QED
    BY <1>5, <2>1, AllHoldOn, HoldsSuffices DEF Lists, Configured
<1>6. CASE /\ config' = [config EXCEPT ![n] =
                [addr |-> addr, peers |-> MergePeer(Loaded(n).peers, token)]]
           /\ tokens' = tokens \cup {[pk |-> k, ip |-> addr]}
  <2>1. /\ config'[n].addr = addr
        /\ config'[n].peers = MergePeer(Loaded(n).peers, token)
        /\ \A m \in Node \ {n} : config'[m] = config[m]
    BY <1>6 DEF TypeOK
  <2>2. Settled'
    BY <1>4, <2>1 DEF Settled, Configured
  <2>3. FoundersStay'
    <3>1. n \in Founder => addr = Chosen[n]
      BY <1>1, AddressType DEF Offered, Settled, FoundersStay, HasExistingAddress
    <3>2. QED
      BY <2>1, <3>1, NodeAssumption DEF FoundersStay, Configured
  <2>4. HoldsAfter(k, addr)
    <3>1. [addr |-> addr, peers |-> MergePeer(Loaded(n).peers, token)] \in Config
      BY <1>1, <1>4, LoadedType DEF MergePeer, Config, Maybe
    <3>2. [addr |-> addr, peers |-> MergePeer(Loaded(n).peers, token)] # None
      BY <3>1, NoneAssumption DEF Config
    <3>3. QED
      BY <1>2, <1>3, <1>6, <2>1, <3>2 DEF HoldsAfter, TypeOK
  <2>5. \A t \in tokens' : HoldsAfter(t.pk, t.ip)
    BY <1>6, <2>4, AllHoldOn
  <2>6. ASSUME NEW j \in Key, config'[n].peers[j] # None
        PROVE  HoldsAfter(j, config'[n].peers[j])
    <3>1. CASE j = token.pk
      BY <1>1, <2>1, <3>1, LoadedType DEF MergePeer, Config
    <3>2. CASE j # token.pk
      <4>1. config'[n].peers[j] = Loaded(n).peers[j]
        BY <2>1, <3>2, LoadedType DEF MergePeer, Config
      <4>2. QED
        BY <2>6, <4>1, LoadedType, AllHoldOn DEF Lists
    <3>3. QED
      BY <3>1, <3>2
  <2>7. \A m \in Node, j \in Key :
          config'[m] # None /\ config'[m].peers[j] # None => HoldsAfter(j, config'[m].peers[j])
    BY <2>1, <2>6, AllHoldOn DEF Lists, Configured
  <2>8. QED
    BY <2>2, <2>3, <2>5, <2>7, HoldsSuffices
<1>7. QED
  BY <1>2, <1>5, <1>6

LEMMA JoinInvStep == FoundersSettled /\ JoinInv /\ [Next]_vars => JoinInv'
<1> SUFFICES ASSUME FoundersSettled, JoinInv, [Next]_vars PROVE JoinInv'
  OBVIOUS
<1>1. TypeOK' /\ Steady
  BY TypeStep, NodesSteady DEF JoinInv
<1>2. CASE UNCHANGED vars
  BY <1>1, <1>2 DEF vars, JoinInv, Settled, FoundersStay, Configured, AllHold, Holds, Lists
<1>3. QED
  BY <1>1, <1>2, InitNodeStep, InviteStep, JoinStep DEF Next, JoinInv

LEMMA JoinInvHolds == ASSUME FoundersSettled PROVE Spec => []JoinInv
  BY InitJoinInv, JoinInvStep, PTL DEF Spec

\* Where no founder takes the default address, a token stays true however late it is
\* used, as long as its node keeps the key (cmd_invite, cmd_join, cmd_init).
THEOREM TokensAlwaysTrue == ASSUME FoundersSettled PROVE Spec => []TokensStayTrue
<1>1. JoinInv => TokensStayTrue
  BY DEF JoinInv, AllHold, Holds, TokensStayTrue, Current
<1>2. QED
  BY <1>1, JoinInvHolds, PTL

\* And so does what nodes have stored of each other: the reverse token completes the
\* link for good, whatever is run afterwards (cmd_join, cmd_init).
THEOREM LinksStayComplete == ASSUME FoundersSettled PROVE Spec => []LinksComplete
<1>1. JoinInv => LinksComplete
  BY DEF JoinInv, AllHold, Holds, LinksComplete, Current
<1>2. QED
  BY <1>1, JoinInvHolds, PTL

-----------------------------------------------------------------------------
(* Names. *)

\* Whoever printed a token has a key.
KeysGiven == \A t \in tokens : keyFile[t.pk.of] # None

HomesNow == [n \in Node |-> HomeOf(n)]
ContactsNow == [n \in Node |-> Contacts(n)]

\* No command takes a key away.
LEMMA KeysStay ==
  ASSUME TypeOK, [Next]_vars, NEW m \in Node, keyFile[m] # None
  PROVE  keyFile'[m] # None
<1>1. CASE \E n \in Founder : InitNode(n, Chosen[n])
  BY <1>1, FreshType, NoneAssumption, NodeAssumption DEF InitNode, TypeOK
<1>2. CASE \E n \in Node : Invite(n)
  BY <1>2, KeyType, NoneAssumption DEF Invite, TypeOK
<1>3. CASE \E n \in Node, token \in tokens : Offered(n, token) /\ Join(n, token)
  BY <1>3, KeyType, NoneAssumption DEF Join, TypeOK
<1>4. CASE UNCHANGED vars
  BY <1>4 DEF vars
<1>5. QED
  BY <1>1, <1>2, <1>3, <1>4 DEF Next

LEMMA GivenStep == TypeOK /\ KeysGiven /\ [Next]_vars => KeysGiven'
<1> SUFFICES ASSUME TypeOK, KeysGiven, [Next]_vars, NEW t \in tokens'
             PROVE  keyFile'[t.pk.of] # None
  BY DEF KeysGiven
<1>1. CASE t \in tokens
  <2>1. t.pk.of \in Node
    BY <1>1 DEF TypeOK, Token, Key
  <2>2. QED
    BY <1>1, <2>1, KeysStay DEF KeysGiven
<1>2. CASE t \notin tokens
  <2>1. PICK n \in Node : \E k \in LoadOrGenerate(n) :
          keyFile' = [keyFile EXCEPT ![n] = k] /\ t.pk = k
    BY <1>2 DEF Next, vars, InitNode, Invite, Join
  <2>2. QED
    BY <2>1, KeyType, NoneAssumption DEF TypeOK
<1>3. QED
  BY <1>1, <1>2

\* load_or_generate takes a key or leaves the one there is.
LEMMA KeyBook ==
  ASSUME TypeOK, NEW n \in Node, NEW k \in LoadOrGenerate(n),
         keyFile' = [keyFile EXCEPT ![n] = k]
  PROVE  /\ Book!TakeKey(n) \/ UNCHANGED keyFile
         /\ keyFile'[n] # None
<1>1. k \in Key /\ k.of = n /\ (keyFile[n] # None => k = keyFile[n]) /\ k # None
  BY KeyType, NoneAssumption
<1>2. keyFile'[n] # None
  BY <1>1 DEF TypeOK
<1>3. CASE keyFile[n] = None
  BY <1>1, <1>2, <1>3 DEF Book!TakeKey
<1>4. CASE keyFile[n] # None
  BY <1>1, <1>2, <1>4 DEF TypeOK
<1>5. QED
  BY <1>3, <1>4

\* init starts a founder over.
LEMMA InitNodeBook ==
  ASSUME TypeOK, TypeOK', NEW n \in Founder, InitNode(n, Chosen[n])
  PROVE  Book!StartOver(n)
<1>1. /\ n \in Node
      /\ [addr |-> Chosen[n], peers |-> [k \in Key |-> None]] \in Config
  BY NodeAssumption, AddressAssumption DEF Config, Maybe
<1>2. /\ config'[n] # None
      /\ config'[n].addr = Chosen[n] /\ config'[n].peers = [k \in Key |-> None]
      /\ \A m \in Node \ {n} : config'[m] = config[m]
  BY <1>1, NoneAssumption DEF InitNode, TypeOK, Config
<1>3. \E k \in {j \in Key : j.of = n} \cup {None} : keyFile' = [keyFile EXCEPT ![n] = k]
  <2>1. CASE UNCHANGED keyFile
    BY <1>1, <2>1 DEF TypeOK, Maybe
  <2>2. CASE \E k \in Fresh(n) : keyFile' = [keyFile EXCEPT ![n] = k]
    BY <1>1, <2>2, FreshType
  <2>3. QED
    BY <2>1, <2>2 DEF InitNode
<1>4. \E x \in (Addr \ {Default}) \cup {None} : HomesNow' = [HomesNow EXCEPT ![n] = x]
  <2>1. \A m \in Node \ {n} : HomeOf(m)' = HomeOf(m)
    BY <1>2 DEF HomeOf, Configured
  <2>2. HomeOf(n)' \in (Addr \ {Default}) \cup {None}
    BY <1>2, AddressAssumption DEF HomeOf, Configured
  <2>3. HomesNow' = [HomesNow EXCEPT ![n] = HomeOf(n)']
    BY <1>1, <2>1 DEF HomesNow
  <2>4. QED
    BY <2>2, <2>3
<1>5. ContactsNow' = [ContactsNow EXCEPT ![n] = {}]
  <2>1. \A m \in Node \ {n} : Contacts(m)' = Contacts(m)
    BY <1>2 DEF Contacts, Lists, Configured
  <2>2. Contacts(n)' = {}
    BY <1>2 DEF Contacts, Lists, Configured
  <2>3. QED
    BY <1>1, <2>1, <2>2 DEF ContactsNow
<1>6. QED
  BY <1>1, <1>3, <1>4, <1>5 DEF Book!StartOver, HomesNow, ContactsNow

\* invite, and a join that is killed before it saves, leave config.toml alone.
LEMMA KeyOnlyBook ==
  ASSUME TypeOK, NEW n \in Node, UNCHANGED config, NEW k \in LoadOrGenerate(n),
         keyFile' = [keyFile EXCEPT ![n] = k]
  PROVE  Book!Carry(n)
<1>1. HomesNow' = HomesNow /\ ContactsNow' = ContactsNow
  BY DEF HomesNow, HomeOf, ContactsNow, Contacts, Lists, Configured
<1>2. QED
  BY <1>1, KeyBook DEF Book!Carry, HomesNow, ContactsNow

\* join stores the key of the token beside those stored before, and settles a node that
\* had no address.
LEMMA JoinBook ==
  ASSUME TypeOK, KeysGiven, NEW n \in Node, NEW token \in tokens,
         Offered(n, token), Join(n, token)
  PROVE  Book!Carry(n)
<1>1. PICK addr \in Addresses(n, token.ip), k \in LoadOrGenerate(n) :
        /\ keyFile' = [keyFile EXCEPT ![n] = k]
        /\ \/ config' = [config EXCEPT ![n] =
                [addr |-> addr, peers |-> MergePeer(Loaded(n).peers, token)]]
           \/ UNCHANGED config
  BY DEF Join
<1>2. CASE UNCHANGED config
  BY <1>1, <1>2, KeyOnlyBook
<1>3. CASE config' = [config EXCEPT ![n] =
                [addr |-> addr, peers |-> MergePeer(Loaded(n).peers, token)]]
  <2> DEFINE m == token.pk.of
  <2>1. token.pk \in Key /\ token.ip \in Addr
    BY DEF TypeOK, Token
  <2>2. m \in Node \ {n} /\ keyFile[m] # None
    BY PartnerAssumption DEF Offered, KeysGiven
  <2>3. addr \in Addr /\ addr # Default /\ addr # None
        /\ (HasExistingAddress(n) => addr = config[n].addr)
    BY <2>1, AddressType, NoneAssumption
  <2>4. [addr |-> addr, peers |-> MergePeer(Loaded(n).peers, token)] \in Config
    BY <2>1, <2>3, LoadedType DEF MergePeer, Config, Maybe
  <2>5. /\ config'[n] # None
        /\ config'[n].addr = addr
        /\ config'[n].peers = MergePeer(Loaded(n).peers, token)
        /\ \A q \in Node \ {n} : config'[q] = config[q]
    BY <1>3, <2>4, NoneAssumption DEF TypeOK, Config
  <2>6. Book!Settle(n) \/ HomesNow' = HomesNow
    <3>1. \A q \in Node \ {n} : HomeOf(q)' = HomeOf(q)
      BY <2>5 DEF HomeOf, Configured
    <3>2. HomeOf(n)' = addr
      BY <2>3, <2>5 DEF HomeOf, Configured
    <3>3. HomesNow' = [HomesNow EXCEPT ![n] = addr]
      BY <3>1, <3>2 DEF HomesNow
    <3>4. CASE HasExistingAddress(n)
      BY <2>3, <3>3, <3>4 DEF HomesNow, HomeOf, HasExistingAddress
    <3>5. CASE ~HasExistingAddress(n)
      <4>1. HomeOf(n) = None
        BY <3>5 DEF HomeOf, HasExistingAddress
      <4>2. QED
        BY <2>3, <3>3, <4>1 DEF Book!Settle, HomesNow
    <3>6. QED
      BY <3>4, <3>5
  <2>7. Contacts(n)' = Contacts(n) \cup {token.pk}
    <3>1. \A j \in Key : config'[n].peers[j] = IF j = token.pk THEN token.ip ELSE Loaded(n).peers[j]
      BY <2>1, <2>5, LoadedType DEF MergePeer, Config
    <3>2. token.ip # None
      BY <2>1, NoneAssumption
    <3>3. \A j \in Key : Lists(n, j) <=> Loaded(n).peers[j] # None
      BY LoadedType DEF Lists
    <3>4. \A j \in Key : Lists(n, j)' <=> Lists(n, j) \/ j = token.pk
      BY <2>5, <3>1, <3>2, <3>3 DEF Lists, Configured
    <3>5. QED
      BY <2>1, <3>4 DEF Contacts
  <2>8. ContactsNow' = [ContactsNow EXCEPT ![n] = ContactsNow[n] \cup {token.pk}]
    <3>1. \A q \in Node \ {n} : Contacts(q)' = Contacts(q)
      BY <2>5 DEF Contacts, Lists, Configured
    <3>2. QED
      BY <2>7, <3>1 DEF ContactsNow
  <2>9. HomesNow'[n] # None
    BY <2>3, <2>5 DEF HomesNow, HomeOf, Configured
  <2>10. /\ Book!TakeKey(n) \/ UNCHANGED keyFile
         /\ keyFile'[n] # None
    BY <1>1, KeyBook
  <2>11. Book!Meet(n, m)
    BY <2>1, <2>2, <2>8, <2>9, <2>10 DEF Book!Meet, HomesNow, ContactsNow
  <2>12. QED
    BY <2>2, <2>6, <2>10, <2>11 DEF Book!Carry, HomesNow
<1>4. QED
  BY <1>1, <1>2, <1>3

\* Whatever commands are run where, in which order, killed half way or repeated, init
\* too, and however late tokens are used: only init changes the key or the address that
\* a node has, or drops peers it has stored (cmd_init, cmd_invite, cmd_join).
THEOREM JoinImplementsBook == Spec => NamesForGood
<1>1. Init => TypeOK /\ KeysGiven /\ Book!Init
  <2>1. Init => TypeOK /\ KeysGiven
    BY DEF Init, TypeOK, KeysGiven, Maybe
  <2>2. Init => \A n \in Node : HomeOf(n) = None /\ Contacts(n) = {}
    BY DEF Init, HomeOf, Contacts, Lists, Configured
  <2>3. QED
    BY <2>1, <2>2 DEF Init, Book!Init
<1>2. TypeOK /\ KeysGiven /\ [Next]_vars => TypeOK' /\ KeysGiven'
  BY TypeStep, GivenStep
<1>3. TypeOK /\ KeysGiven /\ [Next]_vars => [Book!Next]_(Book!vars)
  <2> SUFFICES ASSUME TypeOK, TypeOK', KeysGiven, [Next]_vars
               PROVE  [Book!Next]_(Book!vars)
    BY TypeStep
  <2>1. ASSUME NEW n \in Founder, InitNode(n, Chosen[n])
        PROVE  Book!Next
    BY <2>1, InitNodeBook DEF Book!Next
  <2>2. ASSUME NEW n \in Node, Invite(n)
        PROVE  Book!Next
    BY <2>2, KeyOnlyBook DEF Invite, Book!Next
  <2>3. ASSUME NEW n \in Node, NEW token \in tokens, Offered(n, token), Join(n, token)
        PROVE  Book!Next
    BY <2>3, JoinBook DEF Book!Next
  <2>4. CASE UNCHANGED vars
    BY <2>4 DEF vars, Book!vars, HomeOf, Contacts, Lists, Configured
  <2>5. QED
    BY <2>1, <2>2, <2>3, <2>4 DEF Next
<1>4. QED
  BY <1>1, <1>2, <1>3, PTL DEF Spec, NamesForGood, Book!Spec

=============================================================================
