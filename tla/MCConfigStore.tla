---------------------------- MODULE MCConfigStore ----------------------------
(* ConfigStore for TLC: two keys, up to three entries written by hand. *)
EXTENDS ConfigStore

CONSTANTS k1, k2, e1, e2

\* Every list of up to three entries, of a peer that has an endpoint or has none and
\* of one that has; the invite gives the first another endpoint.
Entries == {[key |-> k1, ep |-> e1], [key |-> k1, ep |-> None], [key |-> k2, ep |-> e1]}
Lists == UNION {[1..n -> Entries] : n \in 0..3}
Invites == {[key |-> k1, ep |-> e2]}

=============================================================================
