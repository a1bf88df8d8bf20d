----------------------------- MODULE MCForwarding -----------------------------
(* Addresses of four bits, four to a /24: nodes 1, 2 and 5, container 14, a   *)
(* LAN 12-13 behind node 2 whose route takes in the container's address, 0    *)
(* and 8 outside, which node 5 reaches.  3 is the broadcast address of nodes  *)
(* 1 and 2, and 16-31 are IPv6: 28-29 behind node 2, and the rest by node 5.  *)
EXTENDS Forwarding

MCLan == [n \in Node |-> CASE n = 1 -> {} [] n = 2 -> {12, 13, 28, 29} [] n = 5 -> {0, 8, 16}]

Route(net, len, gw) == [net |-> net, len |-> len, gw |-> gw]

MCCidrFiles == {{Route(13, 2, 2), Route(0, 0, 5), Route(28, 3, 2), Route(16, 0, 5)}}
MCNoCidrFiles == {{}}

=============================================================================
