----------------------------- MODULE AtomicConfig -----------------------------
(***************************************************************************)
(* What config.toml promises the commands that use it: the configuration   *)
(* is replaced in one step, whoever reads it sees one that was stored      *)
(* whole, a process that dies leaves the old one or the new one, and what  *)
(* is wiped from outside comes back as the snapshot of an earlier one,     *)
(* unless the command does not look (Begin) or bringing it back fails      *)
(* (Botch).                                                                *)
(***************************************************************************)
EXTENDS PeerLines

CONSTANTS Proc, Invite

VARIABLES
  stored,    \* the peers of the configuration the next load gets, or None
  snapshot,  \* the peers of the backup, or None
  missing,   \* there is no config.toml, stored is that of the backup
  held       \* held[p]: the peers in the memory of the command p runs, and
             \* whether it is one that starts anew whatever is stored, or None

vars == <<stored, snapshot, missing, held>>

Init ==
  /\ stored \in Seq(PeerLine) \cup {None}
  /\ snapshot = None
  /\ missing \in BOOLEAN
  /\ held = [p \in Proc |-> None]

\* What is left of a list of which some was lost on the way.
PartOf(part, whole) ==
  part = None \/ (part # None /\ whole # None /\ KeysOf(part) \subseteq KeysOf(whole))

\* p takes what is stored.
Fetch(p) ==
  /\ held[p] = None
  /\ ~missing /\ stored # None
  /\ held' = [held EXCEPT ![p] = [peers |-> stored, anew |-> FALSE]]
  /\ UNCHANGED <<stored, snapshot, missing>>

\* p begins with no peers: it was told to, or there is no config.toml.
Begin(p) ==
  /\ held[p] = None
  /\ \E anew \in BOOLEAN :
       /\ anew \/ missing
       /\ held' = [held EXCEPT ![p] = [peers |-> <<>>, anew |-> anew]]
  /\ UNCHANGED <<stored, snapshot, missing>>

Amend(p) ==
  /\ held[p] # None
  /\ \E invite \in Invite : held' = [held EXCEPT ![p].peers = Merge(@, invite)]
  /\ UNCHANGED <<stored, snapshot, missing>>

\* The backup is replaced, which may fail.  Where it was all that is stored, it is
\* lost, which only a command that starts anew may do.
Snap(p) ==
  /\ held[p] # None
  /\ PartOf(snapshot', stored)
  /\ stored' = stored \/ (held[p].anew /\ stored' = None)
  /\ UNCHANGED <<missing, held>>

Publish(p) ==
  /\ held[p] # None
  /\ stored' = held[p].peers
  /\ missing' = FALSE
  /\ held' \in {held, [held EXCEPT ![p] = None]}
  /\ UNCHANGED snapshot

\* The command of p ends, or is killed.
Leave(p) ==
  /\ held' = [held EXCEPT ![p] = None]
  /\ UNCHANGED <<stored, snapshot, missing>>

\* A load creates config.toml, to bring the snapshot back ...
Recreate ==
  /\ missing' = FALSE
  /\ UNCHANGED <<stored, snapshot, held>>

\* ... and fails half way.
Botch ==
  /\ ~missing /\ stored = snapshot
  /\ PartOf(stored', snapshot)
  /\ UNCHANGED <<snapshot, missing, held>>

\* Somebody outside wipes the configuration while no command is at work.
Wipe ==
  /\ \A p \in Proc : held[p] = None
  /\ stored' = snapshot
  /\ missing' \in BOOLEAN
  /\ UNCHANGED <<snapshot, held>>

Next ==
  \/ Recreate \/ Botch \/ Wipe
  \/ \E p \in Proc : Fetch(p) \/ Begin(p) \/ Amend(p) \/ Snap(p) \/ Publish(p) \/ Leave(p)

Spec == Init /\ [][Next]_vars

=============================================================================
