--------------------------- MODULE PeerLinesProofs ---------------------------
(***************************************************************************)
(* What the two computations on [[peers]] entries return, for lists of any *)
(* length.  Dedup is a recursion over the list: that it is well defined,   *)
(* and what it keeps, is proved by induction.                              *)
(***************************************************************************)
EXTENDS PeerLines, NaturalSets

-----------------------------------------------------------------------------
(* One more entry. *)

\* Lines of type PeerLine, one for each key.
Collapsed == {lines \in Seq(PeerLine) : Distinct(lines)}

\* Taking in an entry keeps the list collapsed, and adds its key and its endpoint to it.
LEMMA CollapseKeeps ==
  ASSUME NEW kept \in Collapsed, NEW line \in PeerLine
  PROVE  LET new == Collapse(kept, line) IN
         /\ new \in Collapsed
         /\ KeysOf(new) = KeysOf(kept) \cup {line.key}
         /\ KeysWithEndpoint(new) =
              KeysWithEndpoint(kept) \cup IF line.ep # None THEN {line.key} ELSE {}
<1>. DEFINE new == Collapse(kept, line)
<1>1. kept \in Seq(PeerLine) /\ Distinct(kept)
  BY DEF Collapsed
<1>2. CASE line.key \in KeysOf(kept)
  <2>. DEFINE better(j) == kept[j].key = line.key /\ kept[j].ep = None /\ line.ep # None
  <2>1. new = [j \in DOMAIN kept |-> IF better(j) THEN line ELSE kept[j]]
    BY <1>2 DEF Collapse
  <2>2. new \in Seq(PeerLine) /\ DOMAIN new = DOMAIN kept
    BY <1>1, <2>1
  <2>3. \A j \in DOMAIN kept : new[j].key = kept[j].key
    BY <2>1
  <2>4. Distinct(new)
    BY <1>1, <2>2, <2>3 DEF Distinct
  <2>5. KeysOf(new) = KeysOf(kept)
    BY <2>2, <2>3 DEF KeysOf
  <2>6. ASSUME NEW j \in DOMAIN kept
        PROVE  new[j].ep # None <=>
                 kept[j].ep # None \/ (kept[j].key = line.key /\ line.ep # None)
    <3>1. new[j] = IF better(j) THEN line ELSE kept[j]
      BY <2>1
    <3>. HIDE DEF new
    <3>2. QED
      BY <3>1
  <2>7. PICK i \in DOMAIN kept : kept[i].key = line.key
    BY <1>2 DEF KeysOf
  <2>8. KeysWithEndpoint(new) =
          KeysWithEndpoint(kept) \cup IF line.ep # None THEN {line.key} ELSE {}
    <3>. DEFINE had(key) == \E j \in DOMAIN kept : kept[j].ep # None /\ kept[j].key = key
                has(key) == \E j \in DOMAIN kept : new[j].ep # None /\ kept[j].key = key
    <3>. HIDE DEF new
    <3>1. \A key : key \in KeysWithEndpoint(new) <=> has(key)
      BY <2>2, <2>3 DEF KeysWithEndpoint
    <3>2. \A key : key \in KeysWithEndpoint(kept) <=> had(key)
      BY DEF KeysWithEndpoint
    <3>3. \A key : has(key) <=> had(key) \/ (key = line.key /\ line.ep # None)
      BY <2>6, <2>7
    <3>4. QED
      BY <3>1, <3>2, <3>3
  <2>9. QED
    BY <1>2, <2>2, <2>4, <2>5, <2>8 DEF Collapsed
<1>3. CASE line.key \notin KeysOf(kept)
  <2>1. new = Append(kept, line)
    BY <1>3 DEF Collapse
  <2>2. /\ new \in Seq(PeerLine)
        /\ DOMAIN new = DOMAIN kept \cup {Len(kept) + 1}
        /\ \A j \in DOMAIN kept : new[j] = kept[j]
        /\ new[Len(kept) + 1] = line
    BY <1>1, <2>1
  <2>3. \A j \in DOMAIN kept : kept[j].key # line.key
    BY <1>3 DEF KeysOf
  <2>4. Distinct(new)
    BY <1>1, <2>2, <2>3 DEF Distinct
  <2>5. KeysOf(new) = KeysOf(kept) \cup {line.key}
    BY <2>2 DEF KeysOf
  <2>6. KeysWithEndpoint(new) =
          KeysWithEndpoint(kept) \cup IF line.ep # None THEN {line.key} ELSE {}
    BY <2>2 DEF KeysWithEndpoint
  <2>7. QED
    BY <2>2, <2>4, <2>5, <2>6 DEF Collapsed
<1>4. QED
  BY <1>2, <1>3

-----------------------------------------------------------------------------
(* All entries of a file. *)

\* What the recursion of Dedup is to satisfy, and its first n steps.
KeptOf(g, lines) ==
  g = [j \in 0 .. Len(lines) |-> IF j = 0 THEN <<>> ELSE Collapse(g[j - 1], lines[j])]

KeptUpTo(g, lines, n) ==
  g[0] = <<>> /\ \A j \in 1 .. n : g[j] = Collapse(g[j - 1], lines[j])

LEMMA NothingKept == <<>> \in Collapsed /\ KeysOf(<<>>) = {} /\ KeysWithEndpoint(<<>>) = {}
  BY DEF Collapsed, Distinct, KeysOf, KeysWithEndpoint

LEMMA KeptExists ==
  ASSUME NEW lines \in Seq(PeerLine)
  PROVE  \E g : KeptOf(g, lines)
<1>. DEFINE Reached == {n \in Nat : n <= Len(lines) =>
                          \E g \in [0 .. n -> Collapsed] : KeptUpTo(g, lines, n)}
<1>1. 0 \in Reached
  <2>. DEFINE g == [j \in 0 .. 0 |-> <<>>]
  <2>1. g \in [0 .. 0 -> Collapsed] /\ KeptUpTo(g, lines, 0)
    BY NothingKept DEF KeptUpTo
  <2>2. QED
    BY <2>1
<1>2. ASSUME NEW n \in Nat, n \in Reached
      PROVE  n + 1 \in Reached
  <2>1. SUFFICES ASSUME n + 1 <= Len(lines)
                 PROVE  \E h \in [0 .. n + 1 -> Collapsed] : KeptUpTo(h, lines, n + 1)
    OBVIOUS
  <2>2. PICK g \in [0 .. n -> Collapsed] : KeptUpTo(g, lines, n)
    BY <1>2, <2>1
  <2>3. lines[n + 1] \in PeerLine
    BY <2>1
  <2>4. Collapse(g[n], lines[n + 1]) \in Collapsed
    BY <2>2, <2>3, CollapseKeeps
  <2>. DEFINE h == [j \in 0 .. n + 1 |-> IF j = n + 1 THEN Collapse(g[n], lines[n + 1]) ELSE g[j]]
  <2>5. h \in [0 .. n + 1 -> Collapsed]
    BY <2>2, <2>4
  <2>6. h[0] = <<>>
    BY <2>2 DEF KeptUpTo
  <2>7. ASSUME NEW j \in 1 .. n + 1
        PROVE  h[j] = Collapse(h[j - 1], lines[j])
    <3>1. CASE j = n + 1
      BY <3>1
    <3>2. CASE j # n + 1
      <4>1. j \in 1 .. n /\ h[j] = g[j] /\ h[j - 1] = g[j - 1]
        BY <3>2
      <4>2. QED
        BY <4>1, <2>2 DEF KeptUpTo
    <3>3. QED
      BY <3>1, <3>2
  <2>8. QED
    BY <2>5, <2>6, <2>7 DEF KeptUpTo
<1>3. Nat \subseteq Reached
  <2>. HIDE DEF Reached
  <2>1. QED
    BY <1>1, <1>2, InductionOnNat
<1>4. PICK g \in [0 .. Len(lines) -> Collapsed] : KeptUpTo(g, lines, Len(lines))
  BY <1>3
<1>5. g = [j \in 0 .. Len(lines) |-> IF j = 0 THEN <<>> ELSE Collapse(g[j - 1], lines[j])]
  BY <1>4 DEF KeptUpTo
<1>6. QED
  BY <1>5 DEF KeptOf

LEMMA DedupIsKept ==
  ASSUME NEW lines \in Seq(PeerLine)
  PROVE  \E g : KeptOf(g, lines) /\ Dedup(lines) = g[Len(lines)]
  BY KeptExists DEF KeptOf, Dedup

\* The entries of a file up to the n-th: their keys, and those with an endpoint.
KeysTo(lines, n) == {lines[j].key : j \in 1 .. n}
EndpointsTo(lines, n) == {lines[j].key : j \in {i \in 1 .. n : lines[i].ep # None}}

\* What has been kept of the first n entries has their keys and endpoints, once each.
LEMMA KeptInvariant ==
  ASSUME NEW lines \in Seq(PeerLine), NEW g, KeptOf(g, lines),
         NEW n \in Nat, n <= Len(lines)
  PROVE  /\ g[n] \in Collapsed
         /\ KeysOf(g[n]) = KeysTo(lines, n)
         /\ KeysWithEndpoint(g[n]) = EndpointsTo(lines, n)
<1>. DEFINE Good(m) == /\ g[m] \in Collapsed
                       /\ KeysOf(g[m]) = KeysTo(lines, m)
                       /\ KeysWithEndpoint(g[m]) = EndpointsTo(lines, m)
            Reached == {m \in Nat : m <= Len(lines) => Good(m)}
<1>1. 0 \in Reached
  <2>1. g[0] = <<>>
    BY DEF KeptOf
  <2>2. KeysTo(lines, 0) = {} /\ EndpointsTo(lines, 0) = {}
    BY DEF KeysTo, EndpointsTo
  <2>3. QED
    BY <2>1, <2>2, NothingKept
<1>2. ASSUME NEW m \in Nat, m \in Reached
      PROVE  m + 1 \in Reached
  <2>1. SUFFICES ASSUME m + 1 <= Len(lines)
                 PROVE  Good(m + 1)
    OBVIOUS
  <2>2. Good(m)
    BY <1>2, <2>1
  <2>3. g[m + 1] = Collapse(g[m], lines[m + 1]) /\ lines[m + 1] \in PeerLine
    BY <2>1 DEF KeptOf
  <2>4. KeysTo(lines, m + 1) = KeysTo(lines, m) \cup {lines[m + 1].key}
    BY DEF KeysTo
  <2>5. EndpointsTo(lines, m + 1) =
          EndpointsTo(lines, m) \cup IF lines[m + 1].ep # None THEN {lines[m + 1].key} ELSE {}
    BY DEF EndpointsTo
  <2>6. QED
    BY <2>2, <2>3, <2>4, <2>5, CollapseKeeps
<1>3. Nat \subseteq Reached
  <2>. HIDE DEF Reached
  <2>1. QED
    BY <1>1, <1>2, InductionOnNat
<1>4. QED
  BY <1>3

\* Of a list of any length Dedup keeps one entry per key, loses no key, and leaves no
\* key without endpoint that had one ("a reload can never drop a working endpoint",
\* src/config.rs:222).
THEOREM DedupKeeps ==
  ASSUME NEW lines \in Seq(PeerLine)
  PROVE  /\ Dedup(lines) \in Seq(PeerLine) /\ Distinct(Dedup(lines))
         /\ KeysOf(Dedup(lines)) = KeysOf(lines)
         /\ KeysWithEndpoint(Dedup(lines)) = KeysWithEndpoint(lines)
<1>1. PICK g : KeptOf(g, lines) /\ Dedup(lines) = g[Len(lines)]
  BY DedupIsKept
<1>2. /\ g[Len(lines)] \in Collapsed
      /\ KeysOf(g[Len(lines)]) = KeysTo(lines, Len(lines))
      /\ KeysWithEndpoint(g[Len(lines)]) = EndpointsTo(lines, Len(lines))
  BY <1>1, KeptInvariant
<1>3. KeysTo(lines, Len(lines)) = KeysOf(lines)
  BY DEF KeysTo, KeysOf
<1>4. EndpointsTo(lines, Len(lines)) = KeysWithEndpoint(lines)
  BY DEF EndpointsTo, KeysWithEndpoint
<1>5. QED
  BY <1>1, <1>2, <1>3, <1>4 DEF Collapsed

\* A list with one entry per key is left alone: what a save has written is what the
\* next load returns, and that load does not write back.
THEOREM DedupOnce ==
  ASSUME NEW lines \in Seq(PeerLine), Distinct(lines)
  PROVE  Dedup(lines) = lines
<1>1. PICK g : KeptOf(g, lines) /\ Dedup(lines) = g[Len(lines)]
  BY DedupIsKept
<1>. DEFINE Reached == {m \in Nat : m <= Len(lines) => g[m] = SubSeq(lines, 1, m)}
<1>2. 0 \in Reached
  BY <1>1 DEF KeptOf
<1>3. ASSUME NEW m \in Nat, m \in Reached
      PROVE  m + 1 \in Reached
  <2>1. SUFFICES ASSUME m + 1 <= Len(lines)
                 PROVE  g[m + 1] = SubSeq(lines, 1, m + 1)
    OBVIOUS
  <2>2. g[m] = SubSeq(lines, 1, m)
    BY <1>3, <2>1
  <2>3. g[m + 1] = Collapse(g[m], lines[m + 1])
    BY <1>1, <2>1 DEF KeptOf
  <2>4. lines[m + 1].key \notin KeysOf(SubSeq(lines, 1, m))
    BY <2>1 DEF Distinct, KeysOf
  <2>5. SubSeq(lines, 1, m + 1) = Append(SubSeq(lines, 1, m), lines[m + 1])
    BY <2>1
  <2>6. QED
    BY <2>2, <2>3, <2>4, <2>5 DEF Collapse
<1>4. Nat \subseteq Reached
  <2>. HIDE DEF Reached
  <2>1. QED
    BY <1>2, <1>3, InductionOnNat
<1>5. g[Len(lines)] = SubSeq(lines, 1, Len(lines))
  BY <1>4
<1>6. QED
  BY <1>1, <1>5

\* The merge of a join keeps one entry per key, loses none, and gives an endpoint to
\* the peer of its token ("merge, don't replace", src/main.rs:392).
LEMMA MergeKeeps ==
  ASSUME NEW lines \in Seq(PeerLine), Distinct(lines),
         NEW invite \in [key : Key, ep : Endpoint]
  PROVE  /\ Merge(lines, invite) \in Seq(PeerLine) /\ Distinct(Merge(lines, invite))
         /\ KeysOf(lines) \subseteq KeysOf(Merge(lines, invite))
         /\ KeysWithEndpoint(lines) \subseteq KeysWithEndpoint(Merge(lines, invite))
<1>. DEFINE new == Merge(lines, invite)
<1>1. invite \in PeerLine /\ invite.ep # None
  BY NoneAssumption DEF PeerLine
<1>2. CASE invite.key \in KeysOf(lines)
  <2>1. new = [j \in DOMAIN lines |-> IF lines[j].key = invite.key THEN invite ELSE lines[j]]
    BY <1>2 DEF Merge
  <2>2. new \in Seq(PeerLine) /\ DOMAIN new = DOMAIN lines
    BY <1>1, <2>1
  <2>3. \A j \in DOMAIN lines : new[j].key = lines[j].key
    BY <2>1
  <2>4. \A j \in DOMAIN lines : lines[j].ep # None => new[j].ep # None
    BY <1>1, <2>1
  <2>. HIDE DEF new
  <2>5. Distinct(new)
    BY <2>2, <2>3 DEF Distinct
  <2>6. KeysOf(lines) \subseteq KeysOf(new)
    BY <2>2, <2>3 DEF KeysOf
  <2>7. KeysWithEndpoint(lines) \subseteq KeysWithEndpoint(new)
    BY <2>2, <2>3, <2>4 DEF KeysWithEndpoint
  <2>8. QED
    BY <2>2, <2>5, <2>6, <2>7 DEF new
<1>3. CASE invite.key \notin KeysOf(lines)
  <2>1. new = Append(lines, invite)
    BY <1>3 DEF Merge
  <2>2. /\ new \in Seq(PeerLine)
        /\ DOMAIN new = DOMAIN lines \cup {Len(lines) + 1}
        /\ \A j \in DOMAIN lines : new[j] = lines[j]
        /\ new[Len(lines) + 1] = invite
    BY <1>1, <2>1
  <2>3. \A j \in DOMAIN lines : lines[j].key # invite.key
    BY <1>3 DEF KeysOf
  <2>4. Distinct(new)
    BY <2>2, <2>3 DEF Distinct
  <2>5. KeysOf(lines) \subseteq KeysOf(new) /\ KeysWithEndpoint(lines) \subseteq KeysWithEndpoint(new)
    BY <2>2 DEF KeysOf, KeysWithEndpoint
  <2>6. QED
    BY <2>2, <2>4, <2>5
<1>4. QED
  BY <1>2, <1>3

=============================================================================
