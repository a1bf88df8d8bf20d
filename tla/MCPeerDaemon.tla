---------------------------- MODULE MCPeerDaemon -----------------------------
(* PeerDaemon for TLC: up to three peers and two socket addresses. *)
EXTENDS PeerDaemon

CONSTANTS k1, k2, k3, i1, i2, i3, e1, e2, h

\* Every key announces one address, and no two the same.
OwnAddresses == {<<k1, i1>>, <<k2, i2>>, <<k3, i3>>} \cap (Key \X Ip)

\* config.toml lists nobody, the first peer with an address or a host name for
\* an endpoint, or two peers without one.
Lists == {<<>>,
          <<[key |-> k1, ip |-> i1, target |-> e1]>>,
          <<[key |-> k1, ip |-> i1, target |-> h]>>,
          <<[key |-> k1, ip |-> i1, target |-> None],
            [key |-> k2, ip |-> i2, target |-> None]>>}

\* The operator gives the first peer another WolfNet address, or its endpoint.
Readdressed == {<<[key |-> k1, ip |-> i1, target |-> e1]>>,
                <<[key |-> k1, ip |-> i2, target |-> e1]>>}
EndpointAdded == {<<[key |-> k1, ip |-> i1, target |-> None]>>,
                  <<[key |-> k1, ip |-> i1, target |-> e1]>>}

=============================================================================
