------------------------------ MODULE AddressBook ------------------------------
(***************************************************************************)
(* What the commands that make nodes a network promise whoever runs them:  *)
(* a node takes one public key and one address, and has both until its     *)
(* founder starts over; it comes to know other nodes by their keys, one by *)
(* one, and forgets none of them while it does not start over itself; and  *)
(* a node that knows another has a key and an address to be reached at.    *)
(***************************************************************************)
CONSTANTS
  Node,
  Founder,    \* the nodes that may start over
  Keys,       \* Keys[n]: the keys that node n may take
  Homes,
  None

VARIABLES
  key,        \* key[n]: the key n goes by, or None
  home,       \* home[n]: the address of n, or None
  contacts    \* contacts[n]: the keys of others that n has stored

vars == <<key, home, contacts>>

Init ==
  /\ key = [n \in Node |-> None]
  /\ home = [n \in Node |-> None]
  /\ contacts = [n \in Node |-> {}]

TakeKey(n) ==
  /\ key[n] = None
  /\ \E k \in Keys[n] : key' = [key EXCEPT ![n] = k]

Settle(n) ==
  /\ home[n] = None
  /\ \E x \in Homes : home' = [home EXCEPT ![n] = x]

\* n stores a key that m goes by or went by, and can be reached itself by then.
Meet(n, m) ==
  /\ key[m] # None
  /\ \E k \in Keys[m] : contacts' = [contacts EXCEPT ![n] = @ \cup {k}]
  /\ key'[n] # None /\ home'[n] # None

\* Any command but init: what there is stays.
Carry(n) ==
  /\ TakeKey(n) \/ UNCHANGED key
  /\ Settle(n) \/ UNCHANGED home
  /\ (\E m \in Node \ {n} : Meet(n, m)) \/ UNCHANGED contacts

StartOver(n) ==
  /\ \E k \in Keys[n] \cup {None} : key' = [key EXCEPT ![n] = k]
  /\ \E x \in Homes \cup {None} : home' = [home EXCEPT ![n] = x]
  /\ contacts' = [contacts EXCEPT ![n] = {}]

Next ==
  \/ \E n \in Node : Carry(n)
  \/ \E n \in Founder : StartOver(n)

Spec == Init /\ [][Next]_vars

=============================================================================
