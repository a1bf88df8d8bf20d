-------------------------------- MODULE MCJoin --------------------------------
(***************************************************************************)
(* Join for TLC: three nodes that may all join each other, one of them a   *)
(* founder; eight values of the last octet, hosts up to 6.                 *)
(***************************************************************************)
EXTENDS Join, TLC

CONSTANTS a, b, c, home, away

DefaultAddr == [net |-> home, host |-> 1]

\* The founder is the last host of its subnet, so that the addresses of those that
\* join it, and each other, go round.
LastHost == a :> [net |-> home, host |-> 6]
Everyone == [n \in {a, b, c} |-> {a, b, c} \ {n}]

\* The defaults of the container: a founder with the default address.
OneFounder == a :> DefaultAddr
Pair == a :> {b} @@ b :> {a}

\* One founder, whose token goes to two fresh nodes.
Settler == a :> [net |-> away, host |-> 2]
Twins == a :> {b, c} @@ b :> {a} @@ c :> {a}

=============================================================================
