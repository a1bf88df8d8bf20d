----------------------------- MODULE ConfigStore -----------------------------
(***************************************************************************)
(* config.toml on disk, its backup config.toml.bak and the staging file    *)
(* config.toml.tmp: Config::load and Config::save (src/config.rs), system  *)
(* call by system call, as the commands of src/main.rs use them.  Between  *)
(* any two calls a command may be killed, and a call may find the disk     *)
(* full, at once or half way.                                              *)
(*                                                                         *)
(* Files are inodes with names: a rename moves a name and leaves a process *)
(* that has the file open writing to it.  A file is a few kB and written   *)
(* by one call, which writes all of it, or less where the disk is full.    *)
(* Of a configuration only its [[peers]] are kept, which save puts last in *)
(* the file, and whether it has the old "ip =" lines that load migrates.   *)
(***************************************************************************)
EXTENDS PeerLines

CONSTANTS
  Proc,     \* processes that run commands: the daemon, and a shell
  Invite,   \* the entries that the tokens given to "wolfnet join" carry
  Written,  \* the [[peers]] lists that config.toml may hold to begin with
  Wipes,    \* what somebody outside does to config.toml: "empty", "delete"
  Empty,    \* what a file of zero bytes holds
  Garbled   \* what a file holds that cannot be parsed

ASSUME InviteAssumption  == Invite \subseteq [key : Key, ep : Endpoint]
ASSUME WrittenAssumption == Written \subseteq Seq(PeerLine)
ASSUME WipesAssumption   == Wipes \subseteq {"empty", "delete"}

Config == [peers : Seq(PeerLine), old : BOOLEAN]

Name   == {"config", "bak", "tmp"}
Inode  == 1..6
Held   == [peers : Seq(PeerLine), anew : BOOLEAN]

ASSUME ContentAssumption == /\ Empty \notin Config /\ Garbled \notin Config
                            /\ Empty # Garbled /\ None \notin Config \cup Held \cup Inode

VARIABLES
  dir,    \* dir[name]: the inode of the file, or None
  disk,   \* disk[i]: what inode i holds
  proc    \* proc[p]: where the command of p stands

vars == <<dir, disk, proc>>

\* "held" is the configuration in memory, "fd" and "from" the files the command
\* writes to and copies from; "loading": it saves on behalf of load.
Idle == [at |-> "idle", command |-> None, held |-> None, fd |-> None,
         from |-> None, loading |-> FALSE]

Command == {"daemon", "reload", "init", "join"}
Step == {"idle", "check", "recover", "restore", "read", "use",
         "open", "write", "snapshot", "copy", "rename"}

Progress == [at : Step, command : Command \cup {None}, held : Config \cup {None},
             fd : Inode \cup {None}, from : Inode \cup {None}, loading : BOOLEAN]

\* The steps with a configuration in memory, a file open for writing, one for reading.
Holding == {"use", "open", "write", "snapshot", "copy", "rename"}
Writing == {"write", "copy", "restore"}
Copying == {"copy", "restore"}

Tidy(config) == Distinct(config.peers) /\ ~config.old

TypeOK ==
  /\ dir \in [Name -> Inode \cup {None}]
  /\ disk \in [Inode -> {Empty, Garbled} \cup Config]
  /\ proc \in [Proc -> Progress]
  /\ \A p \in Proc :
       /\ proc[p].held # None => Tidy(proc[p].held)
       /\ proc[p].at \in Holding <=> proc[p].held # None
       /\ proc[p].at \in Writing <=> proc[p].fd # None
       /\ proc[p].at \in Copying <=> proc[p].from # None
  /\ \A n, m \in Name : dir[n] # None /\ dir[n] = dir[m] => n = m

\* Path::exists, and the test of load that the file is more than zero bytes long.
Exists(name) == dir[name] # None
Usable(name) == Exists(name) /\ disk[dir[name]] # Empty

Free == {i \in Inode : /\ \A n \in Name : dir[n] # i
                       /\ \A p \in Proc : proc[p].fd # i /\ proc[p].from # i}

\* Opening a file for writing: it is created, or the one there is truncated.
FileFor(name) == IF Exists(name) THEN dir[name] ELSE CHOOSE i \in Free : TRUE
Truncate(name) ==
  /\ dir' = [dir EXCEPT ![name] = FileFor(name)]
  /\ disk' = [disk EXCEPT ![FileFor(name)] = Empty]

\* Writing all of a configuration to an open file, from its start: on top of
\* another one it may leave the tail of that behind.
Fill(i, content) ==
  \E left \in {content} \cup IF disk[i] = Empty THEN {} ELSE {Garbled} :
    disk' = [disk EXCEPT ![i] = left]

\* Writing part of it: nothing, what can be parsed up to some entry, or what cannot.
FillPart(i, content) ==
  \E left \in {disk[i]}
               \cup (IF content = Empty THEN {} ELSE {Garbled})
               \cup (IF content \in Config
                     THEN {[content EXCEPT !.peers = SubSeq(@, 1, n)] :
                             n \in 0 .. Len(content.peers)}
                     ELSE {}) :
    disk' = [disk EXCEPT ![i] = left]

Goto(p, step) == proc' = [proc EXCEPT ![p] = [@ EXCEPT !.at = step, !.fd = None, !.from = None]]
Hold(p, config, step) ==
  proc' = [proc EXCEPT ![p] = [@ EXCEPT !.held = config, !.at = step, !.loading = FALSE]]
Exit(p) == proc' = [proc EXCEPT ![p] = Idle]

Default == [peers |-> <<>>, old |-> FALSE]

-----------------------------------------------------------------------------
\* A node without any configuration, or with one somebody has written.
Init ==
  /\ proc = [p \in Proc |-> Idle]
  /\ \/ /\ dir = [n \in Name |-> None]
        /\ disk = [i \in Inode |-> Empty]
     \/ \E peers \in Written, old \in BOOLEAN :
          /\ dir = [n \in Name |-> IF n = "config" THEN 1 ELSE None]
          /\ disk = [i \in Inode |-> IF i = 1 THEN [peers |-> peers, old |-> old] ELSE Empty]

\* A command starts: load_config looks whether there is a config.toml, reload and
\* init do not.
Start(p, command) ==
  /\ proc[p] = Idle
  /\ LET begun == [Idle EXCEPT !.command = command] IN
     proc' = [proc EXCEPT ![p] =
       CASE command = "init"             -> [begun EXCEPT !.held = Default, !.at = "open"]
         [] command = "reload"           -> [begun EXCEPT !.at = "check"]
         [] command \in {"daemon", "join"} ->
              IF Exists("config") THEN [begun EXCEPT !.at = "check"]
              ELSE [begun EXCEPT !.held = Default, !.at = "use"]]
  /\ UNCHANGED <<dir, disk>>

-----------------------------------------------------------------------------
(* Config::load *)

Check(p) ==
  /\ proc[p].at = "check"
  /\ Goto(p, IF Usable("config") \/ ~Usable("bak") THEN "read" ELSE "recover")
  /\ UNCHANGED <<dir, disk>>

\* fs::copy of the backup opens both files ...
Recover(p) ==
  /\ proc[p].at = "recover"
  /\ Truncate("config")
  /\ proc' = [proc EXCEPT ![p].at = "restore", ![p].fd = FileFor("config"), ![p].from = dir["bak"]]

\* ... and moves the bytes, all or, when that fails, part of them.
Restore(p) ==
  /\ proc[p].at = "restore"
  /\ Fill(proc[p].fd, disk[proc[p].from]) \/ FillPart(proc[p].fd, disk[proc[p].from])
  /\ Goto(p, "read")
  /\ UNCHANGED dir

\* The file is read, migrated and its entries collapsed; if that changed
\* anything it is saved.  What is no configuration ends the command.
Read(p) ==
  /\ proc[p].at = "read"
  /\ IF Usable("config") /\ disk[dir["config"]] # Garbled
     THEN LET raw    == disk[dir["config"]]
              peers  == Dedup(raw.peers)
              change == raw.old \/ Len(peers) < Len(raw.peers)
          IN proc' = [proc EXCEPT ![p].held = [peers |-> peers, old |-> FALSE],
                                  ![p].at = IF change THEN "open" ELSE "use",
                                  ![p].loading = change]
     ELSE Exit(p)
  /\ UNCHANGED <<dir, disk>>

\* The command has its configuration: join adds a peer and saves.
Use(p) ==
  /\ proc[p].at = "use"
  /\ IF proc[p].command = "join"
     THEN \E invite \in Invite :
            Hold(p, [proc[p].held EXCEPT !.peers = Merge(@, invite)], "open")
     ELSE Exit(p)
  /\ UNCHANGED <<dir, disk>>

-----------------------------------------------------------------------------
(* Config::save *)

\* Saved, or failed to: load goes on either way, the other commands are done.
Return(p) == IF proc[p].loading THEN Hold(p, proc[p].held, "use") ELSE Exit(p)

\* What if save wrote to config.toml itself.
OpenInPlace(p) ==
  /\ proc[p].at = "open"
  /\ Truncate("config")
  /\ proc' = [proc EXCEPT ![p].at = "write", ![p].fd = FileFor("config")]

Open(p) ==
  /\ proc[p].at = "open"
  /\ Truncate("tmp")
  /\ proc' = [proc EXCEPT ![p].at = "write", ![p].fd = FileFor("tmp")]

Write(p) ==
  /\ proc[p].at = "write"
  /\ Fill(proc[p].fd, proc[p].held)
  /\ Goto(p, "snapshot")
  /\ UNCHANGED dir

\* What if save did not look at the result of the write.
WriteFailsUnnoticed(p) ==
  /\ proc[p].at = "write"
  /\ FillPart(proc[p].fd, proc[p].held)
  /\ Goto(p, "snapshot")
  /\ UNCHANGED dir

WriteFails(p) ==
  /\ proc[p].at = "write"
  /\ FillPart(proc[p].fd, proc[p].held)
  /\ proc' = [proc EXCEPT ![p] = IF @.loading
                THEN [@ EXCEPT !.at = "use", !.fd = None, !.loading = FALSE] ELSE Idle]
  /\ UNCHANGED dir

\* fs::copy of the present file to the backup, if there is one, opens both ...
Snapshot(p) ==
  /\ proc[p].at = "snapshot"
  /\ IF Exists("config")
     THEN /\ Truncate("bak")
          /\ proc' = [proc EXCEPT ![p].at = "copy", ![p].fd = FileFor("bak"),
                                  ![p].from = dir["config"]]
     ELSE Goto(p, "rename") /\ UNCHANGED <<dir, disk>>

\* ... and moves the bytes; its result is ignored.
Copy(p) ==
  /\ proc[p].at = "copy"
  /\ Fill(proc[p].fd, disk[proc[p].from]) \/ FillPart(proc[p].fd, disk[proc[p].from])
  /\ Goto(p, "rename")
  /\ UNCHANGED dir

Rename(p) ==
  /\ proc[p].at = "rename"
  /\ dir' = IF Exists("tmp") THEN [dir EXCEPT !["config"] = dir["tmp"], !["tmp"] = None] ELSE dir
  /\ Return(p)
  /\ UNCHANGED disk

-----------------------------------------------------------------------------
Kill(p) ==
  /\ proc[p] # Idle
  /\ Exit(p)
  /\ UNCHANGED <<dir, disk>>

\* Somebody outside leaves config.toml empty or deletes it, no command at work.
Wipe(how) ==
  /\ \A p \in Proc : proc[p] = Idle
  /\ Usable("config")
  /\ IF how = "empty"
     THEN disk' = [disk EXCEPT ![dir["config"]] = Empty] /\ UNCHANGED dir
     ELSE dir' = [dir EXCEPT !["config"] = None] /\ UNCHANGED disk
  /\ UNCHANGED proc

Next ==
  \/ \E how \in Wipes : Wipe(how)
  \/ \E p \in Proc :
       \/ \E command \in Command : Start(p, command)
       \/ Check(p) \/ Recover(p) \/ Restore(p) \/ Read(p) \/ Use(p)
       \/ Open(p) \/ Write(p) \/ WriteFails(p) \/ Snapshot(p) \/ Copy(p) \/ Rename(p)
       \/ Kill(p)

Spec == Init /\ [][Next]_vars

-----------------------------------------------------------------------------
(* Properties. *)

\* The peers a file gives to whoever loads it.
PeersIn(name) ==
  IF Usable(name) /\ disk[dir[name]] # Garbled THEN Dedup(disk[dir[name]].peers) ELSE None

\* What the next load is meant to return: config.toml, else its backup.
Stored == IF Usable("config") THEN PeersIn("config") ELSE PeersIn("bak")

\* The peers of the configuration in memory, and whether it was made by init.
HeldOf(c) ==
  IF c.held = None THEN None ELSE [peers |-> c.held.peers, anew |-> c.command = "init"]

\* One process at a time, the three files and all the calls on them are the one
\* configuration of AtomicConfig: it changes in one step, at the rename, to what
\* the command made of the stored one, whatever is killed or fails on the way, and
\* an unusable config.toml stands for its backup ("if the primary file is missing or
\* empty but a sibling .bak exists ... restore it before reading",
\* src/config.rs:152).  What AtomicConfig has to allow besides: a command that finds
\* no config.toml begins anew past a good backup (load_config asks before
\* Config::load can), an init over an empty one empties the backup, and a recovery
\* that fails half way leaves part of the peers.
Atomic == INSTANCE AtomicConfig WITH
  stored <- Stored, snapshot <- PeersIn("bak"), missing <- ~Exists("config"),
  held <- [p \in Proc |-> HeldOf(proc[p])]

ConfigIsAtomic == Atomic!Spec

\* A file with a name that holds a configuration from its first byte to its last.
Whole(name) == Exists(name) /\ disk[dir[name]] \in Config

\* "Either the new file is fully visible or it isn't, never half" (src/config.rs:326):
\* no call of any command makes a whole config.toml less than that, and what a rename
\* makes config.toml is whole.  A recovery, which writes in place, must therefore
\* find config.toml unusable still, and a write that fails half way must never be
\* renamed.  It fails where two commands save at once, for they stage in the same
\* config.toml.tmp.
NeverHalf ==
  [][\A p \in Proc :
       /\ proc'[p] # proc[p]
       /\ Whole("config") \/ (proc[p].at = "rename" /\ dir'["config"] # dir["config"])
       => Whole("config")']_vars

\* No save drops a peer of the file it replaces, or leaves it without endpoint:
\* neither the write-back of a load, which collapses entries ("a reload can never
\* drop a working endpoint", src/config.rs:222), nor a join ("merge, don't
\* replace", src/main.rs:392).  An init is meant to start from nothing.
NothingDropped ==
  [][\A p \in Proc :
       /\ proc[p].at = "rename" /\ proc[p].command # "init"
       /\ PeersIn("config") # None
       => LET before == disk[dir["config"]].peers
              after  == disk'[dir'["config"]].peers
          IN /\ KeysOf(before) \subseteq KeysOf(after)
             /\ KeysWithEndpoint(before) \subseteq KeysWithEndpoint(after)]_vars

=============================================================================
