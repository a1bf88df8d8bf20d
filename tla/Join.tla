-------------------------------- MODULE Join --------------------------------
(***************************************************************************)
(* How nodes become a network: "wolfnet init", "invite" and "join"         *)
(* (src/main.rs), each run as a whole on one node.  invite prints a token  *)
(* that carries the node's public key and WolfNet address; join stores the *)
(* two in config.toml, picks an address if the node has none of its own,   *)
(* and prints a token to be given back.  Whoever runs the commands carries *)
(* the tokens: late, twice, or not at all.                                 *)
(*                                                                         *)
(* The calls within one save are ConfigStore's matter, the writing of the  *)
(* key file is Service's.                                                  *)
(***************************************************************************)
EXTENDS Naturals

CONSTANTS
  Node,
  Net,       \* the first three octets of addresses
  Size,      \* values of the last octet: 256
  Highest,   \* last host of a subnet: 254
  Default,   \* the address of Config::default: 10.0.10.1
  Founder,   \* the nodes on which init is run; the others join
  Chosen,    \* the address that a founder's operator gives to init, each time
  Partners,  \* Partners[n]: the nodes whose tokens n is given
  MaxKeys,   \* bounds the keys a node generates
  None

Host == 0 .. Size - 1
Addr == [net : Net, host : Host]
Key  == [of : Node, no : 1 .. MaxKeys]
Maybe(S) == S \cup {None}

ASSUME SizeAssumption    == Size \in Nat \ {0} /\ Highest \in Host
ASSUME AddressAssumption == Default \in Addr /\ Chosen \in [Founder -> Addr]
ASSUME NodeAssumption    == Founder \subseteq Node
ASSUME PartnerAssumption == \A n \in Node : Partners[n] \subseteq Node \ {n}
ASSUME NoneAssumption    == None \notin Addr \cup Key \cup [pk : Key, ip : Addr]
                                       \cup [addr : Addr, peers : [Key -> Maybe(Addr)]]
ASSUME KeysAssumption    == MaxKeys \in Nat \ {0}

VARIABLES
  config,   \* config.toml of each node: its address, and the allowed_ip of every key it lists
  keyFile,  \* the key in private.key
  tokens    \* the tokens printed so far

vars == <<config, keyFile, tokens>>

Config == [addr : Addr, peers : [Key -> Maybe(Addr)]]
Token  == [pk : Key, ip : Addr]

TypeOK ==
  /\ config \in [Node -> Maybe(Config)]
  /\ keyFile \in [Node -> Maybe(Key)]
  /\ tokens \subseteq Token
  /\ \A n \in Node : keyFile[n] # None => keyFile[n].of = n

Configured(n) == config[n] # None

\* load_config, when config.toml can be parsed.
Loaded(n) == IF Configured(n) THEN config[n]
             ELSE [addr |-> Default, peers |-> [k \in Key |-> None]]

Fresh(n) == {k \in Key : /\ k.of = n
                         /\ k.no = IF keyFile[n] = None THEN 1 ELSE keyFile[n].no + 1}

LoadOrGenerate(n) == IF keyFile[n] # None THEN {keyFile[n]} ELSE Fresh(n)

-----------------------------------------------------------------------------
Init ==
  /\ config = [n \in Node |-> None]
  /\ keyFile = [n \in Node |-> None]
  /\ tokens = {}

\* init looks at nothing there is: a configuration without peers is saved, then a new
\* key, unless the command is killed in between or the key cannot be written.
InitNode(n, address) ==
  /\ config' = [config EXCEPT ![n] = [addr |-> address, peers |-> [k \in Key |-> None]]]
  /\ \/ \E k \in Fresh(n) : keyFile' = [keyFile EXCEPT ![n] = k]
     \/ UNCHANGED keyFile
  /\ UNCHANGED tokens

\* invite needs no configuration either: its token then carries the default address.
Invite(n) ==
  /\ \E k \in LoadOrGenerate(n) :
       /\ keyFile' = [keyFile EXCEPT ![n] = k]
       /\ tokens' = tokens \cup {[pk |-> k, ip |-> Loaded(n).addr]}
  /\ UNCHANGED config

-----------------------------------------------------------------------------
(* join *)

\* What if a node with a configuration were given a new address as well.
NeverExisting(n) == FALSE

\* The addresses "10.0.10.1" and "0.0.0.0" count as none: setup.sh and init give
\* no node the second.
HasExistingAddress(n) == Configured(n) /\ config[n].addr # Default

\* What if the last octet were counted in a wider type.
CandidateUnwrapped(ip, i) == [ip EXCEPT !.host = @ + 1 + i]

\* The candidates of the loop, which counts in u8: each is one more than the
\* last, the first one more than the inviter's.
Candidate(ip, i) == [ip EXCEPT !.host = (@ + 1 + i) % Size]

Free(n, ip, candidate) ==
  /\ candidate \notin {ip, Loaded(n).addr}
  /\ \A k \in Key : Loaded(n).peers[k] # candidate

\* The loop gives up at a candidate above Highest, the first one excepted: it is
\* tried before it is compared.
Reached(ip, i) == \A j \in 1 .. i : Candidate(ip, j).host <= Highest

Assigned(n, ip) ==
  {Candidate(ip, i) : i \in {j \in Host :
     /\ Reached(ip, j) /\ Free(n, ip, Candidate(ip, j))
     /\ \A h \in 0 .. j - 1 : ~Free(n, ip, Candidate(ip, h))}}

Addresses(n, ip) ==
  IF HasExistingAddress(n) THEN {config[n].addr} ELSE Assigned(n, ip)

\* What if a join began a new list of peers.
ReplacePeers(peers, token) == [k \in Key |-> IF k = token.pk THEN token.ip ELSE None]

\* The entry of the token's key is updated, or added.
MergePeer(peers, token) == [peers EXCEPT ![token.pk] = token.ip]

\* The key is generated before the configuration is saved; the join may be
\* killed in between.
Join(n, token) ==
  \E addr \in Addresses(n, token.ip), k \in LoadOrGenerate(n) :
    /\ keyFile' = [keyFile EXCEPT ![n] = k]
    /\ \/ /\ config' = [config EXCEPT ![n] =
               [addr |-> addr, peers |-> MergePeer(Loaded(n).peers, token)]]
          /\ tokens' = tokens \cup {[pk |-> k, ip |-> addr]}
       \/ UNCHANGED <<config, tokens>>

-----------------------------------------------------------------------------
(* The operators. *)

\* A founder's first boot runs init before anything is joined (docker/entrypoint.sh),
\* and a node is given tokens of its partners.
Offered(n, token) ==
  /\ token.pk.of \in Partners[n]
  /\ n \in Founder => Configured(n)

\* Any command may be repeated at any time, init too.
Next ==
  \/ \E n \in Founder : InitNode(n, Chosen[n])
  \/ \E n \in Node : Invite(n)
  \/ \E n \in Node, token \in tokens : Offered(n, token) /\ Join(n, token)

Spec == Init /\ [][Next]_vars

-----------------------------------------------------------------------------
(* Properties. *)

Lists(n, k) == Configured(n) /\ config[n].peers[k] # None

\* The key is the one its node has: init has not been repeated since.
Current(k) == keyFile[k.of] = k

\* "Now run this on the inviting node to complete the link" (src/main.rs:456): what a
\* node has stored of another one stays true through all commands that follow on any
\* node: as long as the peer has that key, it has that address.  An address that counts
\* as none, of an invite without a configuration, is no link.
LinksComplete ==
  \A n \in Node, k \in Key :
    Lists(n, k) /\ Current(k) /\ config[n].peers[k] # Default =>
      Configured(k.of) /\ config[k.of].addr = config[n].peers[k]

\* A token is as good as the day it was printed, however late it is used, until init
\* is repeated on its node.
TokensStayTrue ==
  \A t \in tokens :
    Current(t.pk) /\ t.ip # Default =>
      Configured(t.pk.of) /\ config[t.pk.of].addr = t.ip

\* What the others have stored of a founder is its address, the default one or not.
FoundersLinked ==
  \A n \in Node, k \in Key :
    Lists(n, k) /\ Current(k) /\ k.of \in Founder /\ Configured(k.of) =>
      config[k.of].addr = config[n].peers[k]

\* No peer in config.toml has the node's own address or that of another peer, for a
\* daemon keeps its peers by address ("Check existing peers to avoid conflicts",
\* src/main.rs:375).
NoAddressTwice ==
  \A n \in Node, k \in Key :
    Lists(n, k) /\ Current(k) /\ config[n].peers[k] # Default =>
      /\ config[n].peers[k] # config[n].addr
      /\ \A j \in Key \ {k} : Current(j) => config[n].peers[j] # config[n].peers[k]

\* The address a node can be reached at, and the keys it has stored.
HomeOf(n) == IF Configured(n) /\ config[n].addr # Default THEN config[n].addr ELSE None
Contacts(n) == {k \in Key : Lists(n, k)}

Book == INSTANCE AddressBook WITH
  Keys <- [n \in Node |-> {k \in Key : k.of = n}],
  Homes <- Addr \ {Default},
  key <- keyFile,
  home <- [n \in Node |-> HomeOf(n)],
  contacts <- [n \in Node |-> Contacts(n)]

\* Commands repeated, killed half way and given tokens of any age add up to an address
\* book: invite and join leave a node the key it has and its address ("If so, preserve
\* it", src/main.rs:358), and join adds the inviter to the peers there are, "merge,
\* don't replace" (src/main.rs:392).  Only init starts a node over.
NamesForGood == Book!Spec

=============================================================================
