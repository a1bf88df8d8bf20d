------------------------------ MODULE PeerLines ------------------------------
(***************************************************************************)
(* The [[peers]] entries of config.toml, and the two computations on them: *)
(* Config::load collapses the entries of one key (src/config.rs), and      *)
(* "wolfnet join" merges an entry in (cmd_join, src/main.rs).              *)
(***************************************************************************)
EXTENDS Naturals, Sequences

CONSTANTS
  Key,       \* public keys
  Endpoint,  \* what an endpoint line may hold
  None

PeerLine == [key : Key, ep : Endpoint \cup {None}]

ASSUME NoneAssumption == None \notin Key \cup Endpoint \cup Seq(PeerLine)

KeysOf(lines) == {lines[j].key : j \in DOMAIN lines}
KeysWithEndpoint(lines) == {lines[j].key : j \in {i \in DOMAIN lines : lines[i].ep # None}}

\* One key, one entry.
Distinct(lines) == \A i, j \in DOMAIN lines : lines[i].key = lines[j].key => i = j

\* What if the first entry of a key were kept, endpoint or not.
CollapseToFirst(kept, line) ==
  IF line.key \in KeysOf(kept) THEN kept ELSE Append(kept, line)

\* The next entry of the file joins those kept so far: of two with the same key
\* the first stays, in the words of the second if only that has an endpoint.
Collapse(kept, line) ==
  IF line.key \in KeysOf(kept)
  THEN [j \in DOMAIN kept |->
          IF kept[j].key = line.key /\ kept[j].ep = None /\ line.ep # None
          THEN line ELSE kept[j]]
  ELSE Append(kept, line)

\* What if the entries of one key were all kept.
DedupNothing(lines) == lines

Dedup(lines) ==
  LET kept[j \in 0 .. Len(lines)] ==
        IF j = 0 THEN <<>> ELSE Collapse(kept[j - 1], lines[j])
  IN  kept[Len(lines)]

\* A joined peer gets the endpoint of its invite token, or an entry of its own.
Merge(lines, invite) ==
  IF invite.key \in KeysOf(lines)
  THEN [j \in DOMAIN lines |-> IF lines[j].key = invite.key THEN invite ELSE lines[j]]
  ELSE Append(lines, invite)

=============================================================================
