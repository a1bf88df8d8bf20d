-------------------------- MODULE ConfigStoreProofs --------------------------
(***************************************************************************)
(* One process at a time: config.toml, its backup and its staging file,    *)
(* written call by call, are one configuration that changes in one step.   *)
(* The steps of ConfigStore are steps of AtomicConfig or leave it alone,   *)
(* for every list of peers, full disks, kills, and files left empty,       *)
(* garbled or missing.                                                     *)
(***************************************************************************)
EXTENDS ConfigStore, PeerLinesProofs

\* The daemon does not reload while a command of the shell is at work.
OneProcess == \A p, q \in Proc : p = q

-----------------------------------------------------------------------------
(* The invariant. *)

\* The part of TypeOK about files.
FilesOK ==
  /\ dir \in [Name -> Inode \cup {None}]
  /\ disk \in [Inode -> {Empty, Garbled} \cup Config]
  /\ \A n, m \in Name : dir[n] # None /\ dir[n] = dir[m] => n = m

\* The part of TypeOK about a command.
CommandOK(c) ==
  /\ c \in Progress
  /\ c.held # None => Tidy(c.held)
  /\ c.at \in Holding <=> c.held # None
  /\ c.at \in Writing <=> c.fd # None
  /\ c.at \in Copying <=> c.from # None

\* "new" has the keys and the endpoints of "old".
Covers(new, old) ==
  /\ KeysOf(old.peers) \subseteq KeysOf(new.peers)
  /\ KeysWithEndpoint(old.peers) \subseteq KeysWithEndpoint(new.peers)

\* The files in the hands of a command are those it has opened by name, and hold what
\* it has written; what it holds in memory came from config.toml if there is one,
\* except that init, which loads nothing, starts from nothing.
InHand(c) ==
  /\ c.at \in {"check", "recover", "restore", "read"} => c.command # "init"
  /\ c.at = "recover" => Usable("bak") /\ ~Usable("config")
  /\ c.at = "restore" => /\ Usable("bak") /\ c.from = dir["bak"]
                         /\ c.fd = dir["config"] /\ disk[c.fd] = Empty
  /\ c.held # None /\ c.command # "init" /\ Exists("config") =>
       disk[dir["config"]] \in Config /\ Covers(c.held, disk[dir["config"]])
  /\ c.at = "write" => c.fd = dir["tmp"] /\ disk[c.fd] = Empty
  /\ c.at \in {"snapshot", "copy", "rename"} => Exists("tmp") /\ disk[dir["tmp"]] = c.held
  /\ c.at = "copy" => /\ c.fd = dir["bak"] /\ disk[c.fd] = Empty
                      /\ c.from = dir["config"]

StoreInv ==
  /\ FilesOK
  /\ proc \in [Proc -> Progress]
  /\ \A p \in Proc : CommandOK(proc[p]) /\ InHand(proc[p])

LEMMA StoreInvTypes == StoreInv => TypeOK
  BY DEF StoreInv, FilesOK, CommandOK, TypeOK

-----------------------------------------------------------------------------
(* How steps keep it. *)

\* With one process, a step of it decides the invariant.
LEMMA StoreInvFromOne ==
  ASSUME OneProcess, NEW p \in Proc, proc \in [Proc -> Progress],
         NEW c, proc' = [proc EXCEPT ![p] = c],
         FilesOK', CommandOK(c), InHand(c)'
  PROVE  StoreInv'
<1>1. c \in Progress
  BY DEF CommandOK
<1>2. proc' \in [Proc -> Progress] /\ proc'[p] = c
  BY <1>1
<1>3. \A q \in Proc : q = p
  BY DEF OneProcess
<1>4. \A q \in Proc : CommandOK(proc'[q])
  BY <1>2, <1>3
<1>5. \A q \in Proc : InHand(proc[q])'
  BY <1>2, <1>3 DEF InHand
<1>6. QED
  BY <1>2, <1>4, <1>5 DEF StoreInv

\* The file of a name is as before, and what it holds.
SameFile(n) == dir'[n] = dir[n] /\ (dir[n] # None => disk'[dir[n]] = disk[dir[n]])

LEMMA SameFileSame ==
  ASSUME NEW n \in Name, SameFile(n)
  PROVE  /\ Exists(n)' = Exists(n) /\ Usable(n)' = Usable(n) /\ PeersIn(n)' = PeersIn(n)
  BY DEF SameFile, Exists, Usable, PeersIn

\* Opening a file for writing leaves it empty, and the others alone.
LEMMA TruncateOne ==
  ASSUME OneProcess, FilesOK, NEW p \in Proc, proc[p].fd = None, proc[p].from = None,
         NEW name \in Name, Truncate(name)
  PROVE  /\ FilesOK'
         /\ dir'[name] = FileFor(name) /\ FileFor(name) \in Inode /\ FileFor(name) # None
         /\ disk'[FileFor(name)] = Empty
         /\ \A n \in Name \ {name} : SameFile(n) /\ dir[n] # FileFor(name)
<1>. DEFINE f == FileFor(name)
<1>1. /\ f \in Inode /\ f # None
      /\ \A n \in Name \ {name} : dir[n] # f
  <2>1. CASE Exists(name)
    BY <2>1 DEF Exists, FileFor, FilesOK
  <2>2. CASE ~Exists(name)
    <3>1. \E i \in Inode : \A n \in Name : dir[n] # i
      <4>1. \A n \in Name : n \in {"config", "bak", "tmp"}
        BY DEF Name
      <4>2. \E i \in {1, 2, 3, 4} : dir["config"] # i /\ dir["bak"] # i /\ dir["tmp"] # i
        OBVIOUS
      <4>3. QED
        BY <4>1, <4>2 DEF Inode, Name
    <3>2. PICK i \in Inode : \A n \in Name : dir[n] # i
      BY <3>1
    <3>3. \A q \in Proc : q = p
      BY DEF OneProcess
    <3>4. i # None
      BY <3>2, ContentAssumption
    <3>5. i \in Free
      BY <3>2, <3>3, <3>4 DEF Free
    <3>6. f \in Free
      BY <2>2, <3>5 DEF FileFor
    <3>7. QED
      BY <3>6, ContentAssumption DEF Free
  <2>3. QED
    BY <2>1, <2>2
<1>. HIDE DEF f
<1>2. dir' = [dir EXCEPT ![name] = f] /\ disk' = [disk EXCEPT ![f] = Empty]
  BY DEF Truncate, f
<1>3. dir'[name] = f /\ disk'[f] = Empty
  BY <1>1, <1>2 DEF FilesOK
<1>4. \A n \in Name \ {name} : SameFile(n)
  BY <1>1, <1>2 DEF FilesOK, SameFile
<1>5. FilesOK'
  BY <1>1, <1>2 DEF FilesOK
<1>6. QED
  BY <1>1, <1>3, <1>4, <1>5 DEF f

-----------------------------------------------------------------------------
(* The steps of AtomicConfig. *)

HeldPeers == [p \in Proc |-> HeldOf(proc[p])]

AtomicStep == [Atomic!Next]_(Atomic!vars)

LEMMA HeldAfter ==
  ASSUME NEW p \in Proc, proc \in [Proc -> Progress],
         NEW c, proc' = [proc EXCEPT ![p] = c]
  PROVE  HeldPeers' = [HeldPeers EXCEPT ![p] = HeldOf(c)]
  BY DEF HeldPeers, HeldOf

\* Held or not, the same in the terms of AtomicConfig.
LEMMA HeldTypes ==
  ASSUME NEW c, CommandOK(c)
  PROVE  /\ c.held = None => HeldOf(c) = None
         /\ c.held # None => /\ HeldOf(c) = [peers |-> c.held.peers, anew |-> c.command = "init"]
                             /\ HeldOf(c).peers = c.held.peers
                             /\ HeldOf(c).anew = (c.command = "init")
                             /\ HeldOf(c) # None
<1>1. CASE c.held = None
  BY <1>1 DEF HeldOf
<1>2. CASE c.held # None
  <2>1. c.held.peers \in Seq(PeerLine)
    BY <1>2 DEF CommandOK, Progress, Config
  <2>. DEFINE anew == c.command = "init"
              record == [peers |-> c.held.peers, anew |-> anew]
  <2>2. anew \in BOOLEAN
    BY Zenon
  <2>3. HeldOf(c) = record
    BY <1>2 DEF HeldOf
  <2>. HIDE DEF anew
  <2>4. record \in Held /\ record.peers = c.held.peers /\ record.anew = anew
    BY <2>1, <2>2 DEF Held
  <2>. HIDE DEF record
  <2>5. record # None
    BY <2>4, ContentAssumption
  <2>6. /\ HeldOf(c).peers = c.held.peers /\ HeldOf(c).anew = anew /\ HeldOf(c) # None
    BY <2>3, <2>4, <2>5
  <2>7. QED
    BY <1>2, <2>3, <2>6 DEF anew, record
<1>3. QED
  BY <1>1, <1>2

\* The file of the configuration and the backup are as before, for who loads them.
StoreAsBefore ==
  Stored' = Stored /\ PeersIn("bak")' = PeersIn("bak") /\ Exists("config")' = Exists("config")

LEMMA Stutters ==
  ASSUME NEW p \in Proc, proc \in [Proc -> Progress],
         NEW c, proc' = [proc EXCEPT ![p] = c],
         c.held = proc[p].held, c.command = proc[p].command,
         StoreAsBefore
  PROVE  AtomicStep
<1>1. HeldPeers' = HeldPeers
  BY HeldAfter DEF HeldPeers, HeldOf
<1>2. QED
  BY <1>1 DEF AtomicStep, Atomic!vars, HeldPeers, StoreAsBefore

LEMMA Fetches ==
  ASSUME NEW p \in Proc, proc \in [Proc -> Progress], proc[p].held = None,
         NEW c, proc' = [proc EXCEPT ![p] = c],
         HeldOf(c) = [peers |-> Stored, anew |-> FALSE],
         Stored # None, Exists("config"), StoreAsBefore
  PROVE  AtomicStep
<1>1. HeldPeers' = [HeldPeers EXCEPT ![p] = [peers |-> Stored, anew |-> FALSE]]
  BY HeldAfter
<1>2. HeldPeers[p] = None
  BY DEF HeldPeers, HeldOf
<1>3. Atomic!Fetch(p)
  BY <1>1, <1>2 DEF Atomic!Fetch, HeldPeers, StoreAsBefore
<1>4. QED
  BY <1>3 DEF AtomicStep, Atomic!Next

LEMMA Begins ==
  ASSUME NEW p \in Proc, proc \in [Proc -> Progress], proc[p].held = None,
         NEW c, proc' = [proc EXCEPT ![p] = c],
         NEW anew \in BOOLEAN, anew \/ ~Exists("config"),
         HeldOf(c) = [peers |-> <<>>, anew |-> anew], StoreAsBefore
  PROVE  AtomicStep
<1>1. HeldPeers' = [HeldPeers EXCEPT ![p] = [peers |-> <<>>, anew |-> anew]]
  BY HeldAfter
<1>2. HeldPeers[p] = None
  BY DEF HeldPeers, HeldOf
<1>3. Atomic!Begin(p)
  BY <1>1, <1>2 DEF Atomic!Begin, HeldPeers, StoreAsBefore
<1>4. QED
  BY <1>3 DEF AtomicStep, Atomic!Next

LEMMA Leaves ==
  ASSUME NEW p \in Proc, proc \in [Proc -> Progress],
         NEW c, proc' = [proc EXCEPT ![p] = c], c.held = None, StoreAsBefore
  PROVE  AtomicStep
<1>1. HeldPeers' = [HeldPeers EXCEPT ![p] = None]
  BY HeldAfter DEF HeldOf
<1>2. Atomic!Leave(p)
  BY <1>1 DEF Atomic!Leave, HeldPeers, StoreAsBefore
<1>3. QED
  BY <1>2 DEF AtomicStep, Atomic!Next

LEMMA Snaps ==
  ASSUME NEW p \in Proc, proc \in [Proc -> Progress], CommandOK(proc[p]), proc[p].held # None,
         NEW c, proc' = [proc EXCEPT ![p] = c],
         c.held = proc[p].held, c.command = proc[p].command,
         Stored' = Stored \/ (proc[p].command = "init" /\ Stored' = None),
         Atomic!PartOf(PeersIn("bak")', Stored), Exists("config")' = Exists("config")
  PROVE  AtomicStep
<1>1. HeldPeers' = HeldPeers
  BY HeldAfter DEF HeldPeers, HeldOf
<1>2. HeldPeers[p] = HeldOf(proc[p]) /\ HeldPeers[p] # None
  BY HeldTypes DEF HeldPeers
<1>3. HeldPeers[p].anew = (proc[p].command = "init")
  BY <1>2, HeldTypes, Zenon
<1>4. Atomic!Snap(p)
  BY <1>1, <1>2, <1>3 DEF Atomic!Snap, HeldPeers
<1>5. QED
  BY <1>4 DEF AtomicStep, Atomic!Next

LEMMA Publishes ==
  ASSUME NEW p \in Proc, proc \in [Proc -> Progress], CommandOK(proc[p]), proc[p].held # None,
         NEW c, proc' = [proc EXCEPT ![p] = c],
         c.held = None \/ (c.held = proc[p].held /\ c.command = proc[p].command),
         Stored' = proc[p].held.peers, PeersIn("bak")' = PeersIn("bak"), Exists("config")'
  PROVE  AtomicStep
<1>1. HeldPeers' \in {HeldPeers, [HeldPeers EXCEPT ![p] = None]}
  BY HeldAfter DEF HeldPeers, HeldOf
<1>2. HeldPeers[p] # None /\ HeldPeers[p].peers = proc[p].held.peers
  <2>1. HeldPeers[p] = HeldOf(proc[p])
    BY DEF HeldPeers
  <2>2. QED
    BY <2>1, HeldTypes
<1>3. Atomic!Publish(p)
  BY <1>1, <1>2 DEF Atomic!Publish, HeldPeers
<1>4. QED
  BY <1>3 DEF AtomicStep, Atomic!Next

LEMMA Amends ==
  ASSUME NEW p \in Proc, proc \in [Proc -> Progress], CommandOK(proc[p]), proc[p].held # None,
         NEW c, proc' = [proc EXCEPT ![p] = c], CommandOK(c), c.held # None,
         NEW invite \in Invite, c.command = proc[p].command,
         c.held.peers = Merge(proc[p].held.peers, invite), StoreAsBefore
  PROVE  AtomicStep
<1>. DEFINE anew == proc[p].command = "init"
<1>1. /\ HeldPeers[p] # None
      /\ HeldPeers[p] = [peers |-> proc[p].held.peers, anew |-> anew]
      /\ HeldOf(c) = [peers |-> Merge(proc[p].held.peers, invite), anew |-> anew]
  BY HeldTypes DEF HeldPeers
<1>2. HeldOf(c) = [HeldPeers[p] EXCEPT !.peers = Merge(@, invite)]
  <2>. DEFINE old == [peers |-> proc[p].held.peers, anew |-> anew]
  <2>. HIDE DEF anew
  <2>1. old.peers = proc[p].held.peers
    OBVIOUS
  <2>2. [old EXCEPT !.peers = Merge(proc[p].held.peers, invite)]
          = [peers |-> Merge(proc[p].held.peers, invite), anew |-> anew]
    OBVIOUS
  <2>3. QED
    BY <1>1, <2>1, <2>2
<1>3. HeldPeers' = [HeldPeers EXCEPT ![p].peers = Merge(HeldPeers[p].peers, invite)]
  <2>1. HeldPeers' = [HeldPeers EXCEPT ![p] = HeldOf(c)]
    BY HeldAfter
  <2>2. QED
    BY <1>2, <2>1
<1>4. \A lines : Atomic!Merge(lines, invite) = Merge(lines, invite)
  BY DEF Atomic!Merge, Merge, Atomic!KeysOf, KeysOf
<1>5. Atomic!Amend(p)
  BY <1>1, <1>3, <1>4 DEF Atomic!Amend, HeldPeers, StoreAsBefore
<1>6. QED
  BY <1>5 DEF AtomicStep, Atomic!Next

LEMMA Recreates ==
  ASSUME HeldPeers' = HeldPeers, Stored' = Stored, PeersIn("bak")' = PeersIn("bak"),
         Exists("config")'
  PROVE  AtomicStep
<1>1. Atomic!Recreate
  BY DEF Atomic!Recreate, HeldPeers
<1>2. QED
  BY <1>1 DEF AtomicStep, Atomic!Next

LEMMA Botches ==
  ASSUME HeldPeers' = HeldPeers, Exists("config"), Exists("config")',
         Stored = PeersIn("bak"), PeersIn("bak")' = PeersIn("bak"),
         Atomic!PartOf(Stored', PeersIn("bak"))
  PROVE  AtomicStep
<1>1. Atomic!Botch
  BY DEF Atomic!Botch, HeldPeers
<1>2. QED
  BY <1>1 DEF AtomicStep, Atomic!Next

-----------------------------------------------------------------------------
(* Every step keeps the invariant, and is one of AtomicConfig or leaves it alone. *)

Refines == StoreInv' /\ AtomicStep

\* Without a change to the files.
LEMMA FilesAsBefore ==
  ASSUME FilesOK, UNCHANGED <<dir, disk>>
  PROVE  /\ FilesOK' /\ StoreAsBefore /\ \A n \in Name : SameFile(n)
         /\ Usable("config")' = Usable("config") /\ Usable("bak")' = Usable("bak")
         /\ Exists("tmp")' = Exists("tmp")
  BY DEF FilesOK, StoreAsBefore, SameFile, Stored, PeersIn, Usable, Exists

\* With a change to the staging file only.
LEMMA StoreUntouched ==
  ASSUME SameFile("config"), SameFile("bak")
  PROVE  StoreAsBefore
  BY SameFileSame DEF Name, Stored, StoreAsBefore

LEMMA EmptyCovered == KeysOf(<<>>) = {} /\ KeysWithEndpoint(<<>>) = {} /\ Distinct(<<>>)
  BY DEF KeysOf, KeysWithEndpoint, Distinct

LEMMA DefaultType == Default \in Config /\ Tidy(Default) /\ Default # None /\ Default.peers = <<>>
<1>1. Default \in Config /\ Default.peers = <<>> /\ ~Default.old
  BY DEF Default, Config
<1>2. QED
  BY <1>1, EmptyCovered, ContentAssumption DEF Tidy

LEMMA IdleType == Idle.held = None /\ CommandOK(Idle) /\ InHand(Idle)'
  BY DEF CommandOK, Idle, Progress, Step, Holding, Writing, Copying, InHand

LEMMA IdleStep ==
  ASSUME OneProcess, StoreInv, NEW p \in Proc, proc' = [proc EXCEPT ![p] = Idle],
         FilesOK', StoreAsBefore
  PROVE  Refines
<1>1. StoreInv'
  BY IdleType, StoreInvFromOne DEF StoreInv
<1>2. AtomicStep
  BY IdleType, Leaves DEF StoreInv
<1>3. QED
  BY <1>1, <1>2 DEF Refines

LEMMA StartStep ==
  ASSUME OneProcess, StoreInv, NEW p \in Proc, NEW command \in Command, Start(p, command)
  PROVE  Refines
<1>. DEFINE begun == [Idle EXCEPT !.command = command]
<1>1. PICK c :
        /\ c = CASE command = "init"             -> [begun EXCEPT !.held = Default, !.at = "open"]
                 [] command = "reload"           -> [begun EXCEPT !.at = "check"]
                 [] command \in {"daemon", "join"} ->
                      IF Exists("config") THEN [begun EXCEPT !.at = "check"]
                      ELSE [begun EXCEPT !.held = Default, !.at = "use"]
        /\ proc' = [proc EXCEPT ![p] = c] /\ proc[p] = Idle
        /\ UNCHANGED <<dir, disk>>
  BY DEF Start
<1>2. FilesOK' /\ StoreAsBefore
  BY <1>1, FilesAsBefore DEF StoreInv
<1>3. CASE c = [begun EXCEPT !.at = "check"]
  <2>0. command # "init"
    BY <1>1, <1>3 DEF Idle
  <2>1. c.at = "check" /\ c.command = command /\ CommandOK(c) /\ c.held = None
    BY <1>3 DEF CommandOK, Idle, Progress, Step, Holding, Writing, Copying, Command
  <2>2. InHand(c)'
    BY <2>0, <2>1 DEF InHand
  <2>3. StoreInv'
    BY <1>1, <1>2, <2>1, <2>2, StoreInvFromOne DEF StoreInv
  <2>4. AtomicStep
    BY <1>1, <1>2, <2>1, Leaves DEF StoreInv
  <2>5. QED
    BY <2>3, <2>4 DEF Refines
<1>4. CASE /\ command = "init" \/ ~Exists("config")
           /\ \E at \in {"open", "use"} : c = [begun EXCEPT !.held = Default, !.at = at]
  <2>0. PICK at \in {"open", "use"} : c = [begun EXCEPT !.held = Default, !.at = at]
    BY <1>4
  <2>1. c.held = Default /\ c.at = at /\ c.command = command /\ CommandOK(c)
    BY <2>0, DefaultType
    DEF CommandOK, Idle, Progress, Step, Holding, Writing, Copying, Command
  <2>2. c.command = "init" \/ ~Exists("config")'
    BY <1>2, <1>4, <2>1 DEF StoreAsBefore
  <2>3. InHand(c)'
    BY <2>1, <2>2 DEF InHand
  <2>4. StoreInv'
    BY <1>1, <1>2, <2>1, <2>3, StoreInvFromOne DEF StoreInv
  <2>. DEFINE anew == c.command = "init"
  <2>5. HeldOf(c) = [peers |-> <<>>, anew |-> anew] /\ anew \in BOOLEAN
    <3>1. HeldOf(c) = [peers |-> c.held.peers, anew |-> anew]
      BY <2>1, DefaultType, HeldTypes
    <3>2. anew \in BOOLEAN
      BY Zenon
    <3>3. QED
      BY <2>1, <3>1, <3>2, DefaultType
  <2>6. anew \/ ~Exists("config")
    BY <1>4, <2>1
  <2>7. proc[p].held = None
    BY <1>1 DEF Idle
  <2>. HIDE DEF anew
  <2>8. AtomicStep
    BY <1>1, <1>2, <2>5, <2>6, <2>7, Begins DEF StoreInv
  <2>9. QED
    BY <2>4, <2>8 DEF Refines
<1>5. QED
  BY <1>1, <1>3, <1>4 DEF Command

LEMMA CheckStep ==
  ASSUME OneProcess, StoreInv, NEW p \in Proc, Check(p)
  PROVE  Refines
<1>1. PICK c :
        /\ c = [proc[p] EXCEPT !.at = IF Usable("config") \/ ~Usable("bak")
                                      THEN "read" ELSE "recover",
                               !.fd = None, !.from = None]
        /\ proc' = [proc EXCEPT ![p] = c] /\ UNCHANGED <<dir, disk>> /\ proc[p].at = "check"
  BY DEF Check, Goto
<1>2. /\ FilesOK' /\ StoreAsBefore
      /\ Usable("config")' = Usable("config") /\ Usable("bak")' = Usable("bak")
  BY <1>1, FilesAsBefore DEF StoreInv
<1>3. proc[p] \in Progress /\ proc[p].held = None /\ proc[p].command # "init"
  BY <1>1 DEF StoreInv, CommandOK, InHand, Holding
<1>4. /\ c.at = IF Usable("config") \/ ~Usable("bak") THEN "read" ELSE "recover"
      /\ c.held = None /\ c.command # "init" /\ CommandOK(c)
  BY <1>1, <1>3 DEF CommandOK, Progress, Step, Holding, Writing, Copying
<1>5. InHand(c)'
  BY <1>2, <1>4 DEF InHand
<1>6. StoreInv'
  BY <1>1, <1>2, <1>4, <1>5, StoreInvFromOne DEF StoreInv
<1>7. AtomicStep
  BY <1>1, <1>2, <1>4, Leaves DEF StoreInv
<1>8. QED
  BY <1>6, <1>7 DEF Refines

\* Writing all of it to a file that is empty, of which "name" is the name.
LEMMA FillOne ==
  ASSUME FilesOK, NEW name \in Name, Exists(name), disk[dir[name]] = Empty,
         NEW content \in {Empty, Garbled} \cup Config, Fill(dir[name], content), UNCHANGED dir
  PROVE  /\ FilesOK' /\ disk'[dir[name]] = content
         /\ \A n \in Name \ {name} : SameFile(n)
<1>1. dir[name] \in Inode /\ \A n \in Name \ {name} : dir[n] # dir[name]
  BY DEF FilesOK, Exists
<1>2. disk' = [disk EXCEPT ![dir[name]] = content]
  BY DEF Fill
<1>3. QED
  BY <1>1, <1>2 DEF FilesOK, SameFile

\* Writing part of it: what is left gives its reader some of the peers, or none.
LEMMA FillPartOne ==
  ASSUME FilesOK, NEW name \in Name, Exists(name), disk[dir[name]] = Empty,
         NEW content \in {Empty, Garbled} \cup Config, FillPart(dir[name], content), UNCHANGED dir
  PROVE  /\ FilesOK'
         /\ disk'[dir[name]] \in {Empty, Garbled} \/
              (/\ disk'[dir[name]] \in Config /\ content \in Config
               /\ KeysOf(Dedup(disk'[dir[name]].peers)) \subseteq KeysOf(Dedup(content.peers)))
         /\ \A n \in Name \ {name} : SameFile(n)
<1>1. dir[name] \in Inode /\ \A n \in Name \ {name} : dir[n] # dir[name]
  BY DEF FilesOK, Exists
<1>2. PICK left :
        /\ \/ left \in {Empty, Garbled}
           \/ /\ content \in Config
              /\ \E n \in 0 .. Len(content.peers) :
                   left = [content EXCEPT !.peers = SubSeq(content.peers, 1, n)]
        /\ disk' = [disk EXCEPT ![dir[name]] = left]
  BY DEF FillPart
<1>3. left \in {Empty, Garbled} \/
        (/\ left \in Config /\ content \in Config
         /\ KeysOf(Dedup(left.peers)) \subseteq KeysOf(Dedup(content.peers)))
  <2>1. CASE left \in {Empty, Garbled}
    BY <2>1
  <2>2. ASSUME content \in Config, NEW n \in 0 .. Len(content.peers),
               left = [content EXCEPT !.peers = SubSeq(content.peers, 1, n)]
        PROVE  left \in Config /\ KeysOf(Dedup(left.peers)) \subseteq KeysOf(Dedup(content.peers))
    <3>. DEFINE all == content.peers
                some == SubSeq(all, 1, n)
    <3>1. all \in Seq(PeerLine) /\ left.peers = some
      BY <2>2 DEF Config
    <3>2. /\ some \in Seq(PeerLine) /\ Len(some) = n
          /\ \A j \in 1 .. n : some[j] = all[j]
      BY <3>1
    <3>3. KeysOf(some) \subseteq KeysOf(all)
      <4>1. DOMAIN some = 1 .. n /\ DOMAIN all = 1 .. Len(all) /\ 1 .. n \subseteq 1 .. Len(all)
        BY <3>1, <3>2
      <4>2. QED
        BY <3>2, <4>1 DEF KeysOf
    <3>. HIDE DEF some
    <3>4. left \in Config
      BY <2>2, <3>1, <3>2 DEF Config, some
    <3>5. QED
      BY <3>1, <3>2, <3>3, <3>4, DedupKeeps
  <2>3. QED
    BY <1>2, <2>1, <2>2
<1>4. disk'[dir[name]] = left
  BY <1>1, <1>2 DEF FilesOK
<1>5. FilesOK' /\ \A n \in Name \ {name} : SameFile(n)
  BY <1>1, <1>2, <1>3 DEF FilesOK, SameFile
<1>6. QED
  BY <1>3, <1>4, <1>5

LEMMA RecoverStep ==
  ASSUME OneProcess, StoreInv, NEW p \in Proc, Recover(p)
  PROVE  Refines
<1>0. /\ proc[p] \in Progress /\ proc[p].at = "recover" /\ proc[p].held = None
      /\ proc[p].fd = None /\ proc[p].from = None
      /\ Usable("bak") /\ ~Usable("config") /\ proc[p].command # "init"
  BY DEF Recover, StoreInv, CommandOK, InHand, Holding, Writing, Copying
<1>1. PICK c :
        /\ c = [proc[p] EXCEPT !.at = "restore", !.fd = FileFor("config"), !.from = dir["bak"]]
        /\ proc' = [proc EXCEPT ![p] = c]
  BY <1>0 DEF Recover, StoreInv
<1>2. /\ FilesOK' /\ SameFile("bak") /\ SameFile("tmp")
      /\ dir'["config"] = FileFor("config") /\ disk'[FileFor("config")] = Empty
      /\ FileFor("config") \in Inode /\ FileFor("config") # None
  BY <1>0, TruncateOne DEF Recover, StoreInv, Name
<1>3. /\ Usable("bak")' /\ PeersIn("bak")' = PeersIn("bak") /\ Exists("config")' /\ ~Usable("config")'
  BY <1>0, <1>2, SameFileSame DEF Name, Exists, Usable
<1>4. dir["bak"] \in Inode /\ dir["bak"] # None
  BY <1>0 DEF StoreInv, FilesOK, Name, Usable, Exists
<1>5. /\ c.at = "restore" /\ c.held = None /\ c.from = dir["bak"] /\ c.fd = FileFor("config")
      /\ c.command # "init" /\ CommandOK(c)
  BY <1>0, <1>1, <1>2, <1>4 DEF CommandOK, Progress, Step, Holding, Writing, Copying
<1>6. dir'["bak"] = dir["bak"]
  BY <1>2 DEF SameFile
<1>7. InHand(c)'
  BY <1>2, <1>3, <1>5, <1>6 DEF InHand
<1>8. StoreInv'
  BY <1>1, <1>2, <1>5, <1>7, StoreInvFromOne DEF StoreInv
<1>9. Stored' = Stored
  BY <1>0, <1>3 DEF Stored
<1>10. HeldPeers' = HeldPeers
  BY <1>0, <1>1, <1>5, HeldAfter DEF HeldPeers, HeldOf, StoreInv
<1>11. AtomicStep
  BY <1>3, <1>9, <1>10, Recreates
<1>12. QED
  BY <1>8, <1>11 DEF Refines

LEMMA RestoreStep ==
  ASSUME OneProcess, StoreInv, NEW p \in Proc, Restore(p)
  PROVE  Refines
<1>0. /\ proc[p] \in Progress /\ proc[p].at = "restore" /\ proc[p].held = None
      /\ Usable("bak") /\ Exists("bak") /\ proc[p].from = dir["bak"]
      /\ proc[p].fd = dir["config"] /\ disk[dir["config"]] = Empty
      /\ Exists("config") /\ ~Usable("config") /\ UNCHANGED dir
      /\ proc[p].command # "init"
  BY DEF Restore, StoreInv, CommandOK, InHand, Holding, Writing, Usable, Exists
<1>1. PICK c : /\ c = [proc[p] EXCEPT !.at = "read", !.fd = None, !.from = None]
               /\ proc' = [proc EXCEPT ![p] = c]
  BY DEF Restore, Goto
<1>2. c.at = "read" /\ c.held = None /\ c.command # "init" /\ CommandOK(c)
  BY <1>0, <1>1 DEF CommandOK, Progress, Step, Holding, Writing, Copying
<1>3. InHand(c)'
  BY <1>2 DEF InHand
<1>. DEFINE from == disk[dir["bak"]]
            to   == disk'[dir["config"]]
<1>4. from \in {Empty, Garbled} \cup Config /\ from # Empty
  BY <1>0 DEF StoreInv, FilesOK, Usable, Exists, Name
<1>5. /\ FilesOK' /\ SameFile("bak")
      /\ \/ to = from
         \/ to \in {Empty, Garbled}
         \/ /\ to \in Config /\ from \in Config
            /\ KeysOf(Dedup(to.peers)) \subseteq KeysOf(Dedup(from.peers))
  <2>1. CASE Fill(dir["config"], from)
    BY <1>0, <1>4, <2>1, FillOne DEF StoreInv, Name
  <2>2. CASE FillPart(dir["config"], from)
    BY <1>0, <1>4, <2>2, FillPartOne DEF StoreInv, Name
  <2>3. QED
    BY <1>0, <2>1, <2>2 DEF Restore
<1>6. /\ PeersIn("bak")' = PeersIn("bak") /\ Exists("config")' /\ Exists("config")
      /\ PeersIn("bak") = IF from # Garbled THEN Dedup(from.peers) ELSE None
      /\ Stored = PeersIn("bak")
      /\ Stored' = IF to = Empty THEN PeersIn("bak")
                   ELSE IF to # Garbled THEN Dedup(to.peers) ELSE None
  BY <1>0, <1>5, SameFileSame DEF Name, Exists, Usable, PeersIn, Stored
<1>7. Atomic!PartOf(Stored', PeersIn("bak"))
  <2>1. \A c1, c2 \in Config :
          /\ Dedup(c1.peers) # None
          /\ KeysOf(Dedup(c1.peers)) \subseteq KeysOf(Dedup(c2.peers))
             => Atomic!PartOf(Dedup(c1.peers), Dedup(c2.peers))
    <3>1. \A c1 \in Config : Dedup(c1.peers) # None
      BY DedupKeeps, NoneAssumption DEF Config
    <3>2. QED
      BY <3>1 DEF Atomic!PartOf, Atomic!KeysOf, KeysOf
  <2>2. Atomic!PartOf(PeersIn("bak"), PeersIn("bak")) /\ Atomic!PartOf(None, PeersIn("bak"))
    BY DEF Atomic!PartOf
  <2>3. QED
    BY <1>4, <1>5, <1>6, <2>1, <2>2, ContentAssumption
<1>8. HeldPeers' = HeldPeers
  BY <1>0, <1>1, <1>2, HeldAfter DEF HeldPeers, HeldOf, StoreInv
<1>9. StoreInv'
  BY <1>1, <1>2, <1>3, <1>5, StoreInvFromOne DEF StoreInv
<1>10. AtomicStep
  BY <1>6, <1>7, <1>8, Botches
<1>11. QED
  BY <1>9, <1>10 DEF Refines

LEMMA ReadStep ==
  ASSUME OneProcess, StoreInv, NEW p \in Proc, Read(p)
  PROVE  Refines
<1>1. CASE Usable("config") /\ disk[dir["config"]] # Garbled
  <2>. DEFINE raw == disk[dir["config"]]
  <2>1. raw \in Config
    BY <1>1 DEF StoreInv, FilesOK, Usable, Exists, Name
  <2>. DEFINE h == [peers |-> Dedup(raw.peers), old |-> FALSE]
  <2>2. h \in Config /\ Tidy(h) /\ Covers(h, raw) /\ h # None
    <3>1. raw.peers \in Seq(PeerLine)
      BY <2>1 DEF Config
    <3>2. h \in Config
      BY <3>1, DedupKeeps DEF Config
    <3>3. QED
      BY <3>1, <3>2, DedupKeeps, ContentAssumption DEF Tidy, Covers
  <2>3. /\ proc[p] \in Progress /\ proc[p].held = None /\ proc[p].fd = None /\ proc[p].from = None
        /\ proc[p].command # "init" /\ UNCHANGED <<dir, disk>>
    BY DEF Read, StoreInv, CommandOK, InHand, Holding, Writing, Copying
  <2>4. FilesOK' /\ StoreAsBefore
    BY <2>3, FilesAsBefore DEF StoreInv
  <2>5. PICK c \in Progress :
          /\ c.held = h /\ c.command # "init" /\ c.at \in {"open", "use"} /\ c.fd = None /\ c.from = None
          /\ proc' = [proc EXCEPT ![p] = c]
    <3>. DEFINE differs == raw.old \/ Len(Dedup(raw.peers)) < Len(raw.peers)
                d == [proc[p] EXCEPT !.held = h, !.at = IF differs THEN "open" ELSE "use",
                                     !.loading = differs]
    <3>1. proc' = [proc EXCEPT ![p].held = h, ![p].at = IF differs THEN "open" ELSE "use",
                               ![p].loading = differs]
      BY <1>1 DEF Read
    <3>2. differs \in BOOLEAN
      BY Zenon DEF differs
    <3>. HIDE DEF differs, h
    <3>3. proc' = [proc EXCEPT ![p] = d]
      BY <3>1 DEF StoreInv
    <3>4. d \in Progress /\ d.held = h /\ d.command # "init" /\ d.at \in {"open", "use"} /\ d.fd = None /\ d.from = None
      BY <2>2, <2>3, <3>2 DEF Progress, Step
    <3>. HIDE DEF d
    <3>5. QED
      BY <3>3, <3>4
  <2>6. CommandOK(c)
    BY <2>2, <2>5 DEF CommandOK, Holding, Writing, Copying
  <2>7. InHand(c)'
    <3>1. Covers(c.held, disk[dir["config"]])'
      BY <2>2, <2>3, <2>5 DEF Covers
    <3>2. QED
      BY <2>1, <2>3, <2>5, <3>1 DEF InHand
  <2>8. StoreInv'
    BY <2>4, <2>5, <2>6, <2>7, StoreInvFromOne DEF StoreInv
  <2>9. Stored = Dedup(raw.peers) /\ Stored # None
    <3>1. Dedup(raw.peers) # None
      BY <2>1, DedupKeeps, NoneAssumption DEF Config
    <3>2. QED
      BY <1>1, <3>1 DEF Stored, PeersIn
  <2>10. HeldOf(c) = [peers |-> Stored, anew |-> FALSE]
    <3>1. (c.command = "init") = FALSE
      BY <2>5, Zenon
    <3>2. h.peers = Stored
      BY <2>9
    <3>. HIDE DEF h
    <3>3. QED
      BY <2>2, <2>5, <3>1, <3>2 DEF HeldOf
  <2>11. AtomicStep
    BY <1>1, <2>3, <2>4, <2>5, <2>9, <2>10, Fetches DEF StoreInv, Usable
  <2>12. QED
    BY <2>8, <2>11 DEF Refines
<1>2. CASE ~(Usable("config") /\ disk[dir["config"]] # Garbled)
  BY <1>2, IdleStep, FilesAsBefore DEF Read, Exit, StoreInv
<1>3. QED
  BY <1>1, <1>2

LEMMA UseStep ==
  ASSUME OneProcess, StoreInv, NEW p \in Proc, Use(p)
  PROVE  Refines
<1>1. CASE proc[p].command # "join"
  BY <1>1, IdleStep, FilesAsBefore DEF Use, Exit, StoreInv
<1>2. CASE proc[p].command = "join"
  <2>1. /\ proc[p] \in Progress /\ CommandOK(proc[p]) /\ InHand(proc[p])
        /\ proc[p].held # None /\ proc[p].fd = None /\ proc[p].from = None
        /\ UNCHANGED <<dir, disk>>
    BY DEF Use, StoreInv, CommandOK, Holding, Writing, Copying
  <2>0. PICK invite \in Invite :
          Hold(p, [proc[p].held EXCEPT !.peers = Merge(@, invite)], "open")
    BY <1>2 DEF Use
  <2>2. PICK c :
          /\ c = [proc[p] EXCEPT !.held = [proc[p].held EXCEPT !.peers = Merge(@, invite)],
                                 !.at = "open", !.loading = FALSE]
          /\ proc' = [proc EXCEPT ![p] = c]
    BY <2>0 DEF Hold
  <2>. DEFINE old == proc[p].held
              new == [old EXCEPT !.peers = Merge(@, invite)]
  <2>3. old \in Config /\ Tidy(old) /\ invite \in [key : Key, ep : Endpoint]
    BY <2>1, InviteAssumption DEF CommandOK, Progress
  <2>4. new \in Config /\ new.peers = Merge(old.peers, invite) /\ new.old = old.old
        /\ new # None /\ Tidy(new) /\ Covers(new, old)
    <3>1. old.peers \in Seq(PeerLine) /\ Distinct(old.peers) /\ ~old.old
      BY <2>3 DEF Config, Tidy
    <3>2. /\ Merge(old.peers, invite) \in Seq(PeerLine) /\ Distinct(Merge(old.peers, invite))
          /\ KeysOf(old.peers) \subseteq KeysOf(Merge(old.peers, invite))
          /\ KeysWithEndpoint(old.peers) \subseteq KeysWithEndpoint(Merge(old.peers, invite))
      BY <2>3, <3>1, MergeKeeps
    <3>3. new \in Config /\ new.peers = Merge(old.peers, invite) /\ new.old = old.old
      BY <2>3, <3>2 DEF Config
    <3>4. QED
      BY <3>1, <3>2, <3>3, ContentAssumption DEF Tidy, Covers
  <2>. HIDE DEF new
  <2>5. /\ c.held = new /\ c.at = "open" /\ c.command = proc[p].command /\ CommandOK(c)
    <3>1. c = [proc[p] EXCEPT !.held = new, !.at = "open", !.loading = FALSE]
      BY <2>2 DEF new
    <3>2. QED
      BY <2>1, <2>4, <3>1 DEF CommandOK, Progress, Step, Holding, Writing, Copying
  <2>6. FilesOK' /\ StoreAsBefore
    BY <2>1, FilesAsBefore DEF StoreInv
  <2>7. InHand(c)'
    <3>1. Exists("config") => /\ disk[dir["config"]] \in Config
                              /\ Covers(new, disk[dir["config"]])
      BY <1>2, <2>1, <2>4 DEF InHand, Covers
    <3>2. QED
      BY <2>1, <2>5, <2>6, <3>1 DEF InHand, Covers, StoreAsBefore
  <2>8. StoreInv'
    BY <2>2, <2>5, <2>6, <2>7, StoreInvFromOne DEF StoreInv
  <2>9. AtomicStep
    BY <2>1, <2>2, <2>4, <2>5, <2>6, Amends DEF StoreInv
  <2>10. QED
    BY <2>8, <2>9 DEF Refines
<1>3. QED
  BY <1>1, <1>2

\* What a command in the middle of a save knows of config.toml stays true while the
\* files of config.toml and its backup stay.
LEMMA HeldStaysTrue ==
  ASSUME StoreInv, NEW p \in Proc, SameFile("config"), proc[p].held # None
  PROVE  proc[p].command # "init" /\ Exists("config")' =>
           /\ disk'[dir'["config"]] \in Config
           /\ Covers(proc[p].held, disk'[dir'["config"]])
<1>1. proc[p].command # "init" /\ Exists("config") =>
        disk[dir["config"]] \in Config /\ Covers(proc[p].held, disk[dir["config"]])
  BY DEF StoreInv, InHand
<1>2. QED
  BY <1>1 DEF SameFile, Exists

LEMMA OpenStep ==
  ASSUME OneProcess, StoreInv, NEW p \in Proc, Open(p)
  PROVE  Refines
<1>0. /\ proc[p] \in Progress /\ CommandOK(proc[p]) /\ proc[p].at = "open"
      /\ proc[p].held # None /\ proc[p].fd = None /\ proc[p].from = None
  BY DEF Open, StoreInv, CommandOK, Holding, Writing, Copying
<1>1. PICK c : /\ c = [proc[p] EXCEPT !.at = "write", !.fd = FileFor("tmp")]
               /\ proc' = [proc EXCEPT ![p] = c]
  BY <1>0 DEF Open, StoreInv
<1>2. /\ FilesOK' /\ SameFile("config") /\ SameFile("bak")
      /\ dir'["tmp"] = FileFor("tmp") /\ disk'[FileFor("tmp")] = Empty
      /\ FileFor("tmp") \in Inode /\ FileFor("tmp") # None
  BY <1>0, TruncateOne DEF Open, StoreInv, Name
<1>3. c.at = "write" /\ c.fd = FileFor("tmp") /\ c.held = proc[p].held /\ c.command = proc[p].command /\ CommandOK(c)
  BY <1>0, <1>1, <1>2 DEF CommandOK, Progress, Step, Holding, Writing, Copying
<1>4. StoreAsBefore
  BY <1>2, StoreUntouched
<1>5. InHand(c)'
  BY <1>0, <1>2, <1>3, HeldStaysTrue DEF InHand, Covers
<1>6. StoreInv'
  BY <1>1, <1>2, <1>3, <1>5, StoreInvFromOne DEF StoreInv
<1>7. AtomicStep
  BY <1>1, <1>3, <1>4, Stutters DEF StoreInv
<1>8. QED
  BY <1>6, <1>7 DEF Refines

LEMMA WriteStep ==
  ASSUME OneProcess, StoreInv, NEW p \in Proc, Write(p)
  PROVE  Refines
<1>0. /\ proc[p] \in Progress /\ CommandOK(proc[p]) /\ proc[p].at = "write"
      /\ proc[p].held # None /\ proc[p].held \in Config
      /\ proc[p].fd = dir["tmp"] /\ disk[dir["tmp"]] = Empty /\ Exists("tmp")
  BY DEF Write, StoreInv, CommandOK, Progress, InHand, Holding, Writing, Copying, Exists
<1>1. PICK c : /\ c = [proc[p] EXCEPT !.at = "snapshot", !.fd = None, !.from = None]
               /\ proc' = [proc EXCEPT ![p] = c]
  BY DEF Write, Goto
<1>2. /\ FilesOK' /\ SameFile("config") /\ SameFile("bak")
      /\ dir' = dir /\ disk'[dir["tmp"]] = proc[p].held
  BY <1>0, FillOne DEF Write, StoreInv, Name
<1>3. c.at = "snapshot" /\ c.held = proc[p].held /\ c.command = proc[p].command /\ CommandOK(c)
  BY <1>0, <1>1 DEF CommandOK, Progress, Step, Holding, Writing, Copying
<1>4. StoreAsBefore
  BY <1>2, StoreUntouched
<1>5. InHand(c)'
  BY <1>0, <1>2, <1>3, HeldStaysTrue DEF InHand, Covers, Exists
<1>6. StoreInv'
  BY <1>1, <1>2, <1>3, <1>5, StoreInvFromOne DEF StoreInv
<1>7. AtomicStep
  BY <1>1, <1>3, <1>4, Stutters DEF StoreInv
<1>8. QED
  BY <1>6, <1>7 DEF Refines

LEMMA WriteFailsStep ==
  ASSUME OneProcess, StoreInv, NEW p \in Proc, WriteFails(p)
  PROVE  Refines
<1>0. /\ proc[p] \in Progress /\ CommandOK(proc[p]) /\ proc[p].at = "write"
      /\ proc[p].held # None /\ proc[p].held \in Config /\ UNCHANGED dir
      /\ proc[p].fd = dir["tmp"] /\ disk[dir["tmp"]] = Empty /\ Exists("tmp")
  BY DEF WriteFails, StoreInv, CommandOK, Progress, InHand, Holding, Writing, Exists
<1>1. FilesOK' /\ SameFile("config") /\ SameFile("bak")
  BY <1>0, FillPartOne DEF WriteFails, StoreInv, Name
<1>2. StoreAsBefore
  BY <1>1, StoreUntouched
<1>3. CASE ~proc[p].loading
  <2>1. proc' = [proc EXCEPT ![p] = Idle]
    BY <1>3 DEF WriteFails, StoreInv
  <2>2. QED
    BY <1>1, <1>2, <2>1, IdleStep
<1>4. CASE proc[p].loading
  <2>1. PICK c : /\ c = [proc[p] EXCEPT !.at = "use", !.fd = None, !.loading = FALSE]
                 /\ proc' = [proc EXCEPT ![p] = c]
    BY <1>4 DEF WriteFails, StoreInv
  <2>2. /\ c.at = "use" /\ c.held = proc[p].held
        /\ c.command = proc[p].command /\ CommandOK(c)
    BY <1>0, <2>1 DEF CommandOK, Progress, Step, Holding, Writing, Copying
  <2>3. InHand(c)'
    BY <1>0, <1>1, <2>2, HeldStaysTrue DEF InHand, Covers
  <2>4. StoreInv'
    BY <1>1, <2>1, <2>2, <2>3, StoreInvFromOne DEF StoreInv
  <2>5. AtomicStep
    BY <1>2, <2>1, <2>2, Stutters DEF StoreInv
  <2>6. QED
    BY <2>4, <2>5 DEF Refines
<1>5. QED
  BY <1>3, <1>4

LEMMA SnapshotStep ==
  ASSUME OneProcess, StoreInv, NEW p \in Proc, Snapshot(p)
  PROVE  Refines
<1>0. /\ proc[p] \in Progress /\ CommandOK(proc[p]) /\ InHand(proc[p])
      /\ proc[p].at = "snapshot"
      /\ proc[p].held # None /\ proc[p].fd = None /\ proc[p].from = None
      /\ Exists("tmp") /\ disk[dir["tmp"]] = proc[p].held
  BY DEF Snapshot, StoreInv, CommandOK, InHand, Holding, Writing, Copying
<1>1. CASE Exists("config")
  <2>1. PICK c :
          /\ c = [proc[p] EXCEPT !.at = "copy", !.fd = FileFor("bak"), !.from = dir["config"]]
          /\ proc' = [proc EXCEPT ![p] = c]
    BY <1>0, <1>1 DEF Snapshot, StoreInv
  <2>2. /\ FilesOK' /\ SameFile("config") /\ SameFile("tmp")
        /\ dir'["bak"] = FileFor("bak") /\ disk'[FileFor("bak")] = Empty
        /\ FileFor("bak") \in Inode /\ FileFor("bak") # None
    BY <1>0, <1>1, TruncateOne DEF Snapshot, StoreInv, Name
  <2>3. dir["config"] \in Inode /\ dir["config"] # None /\ dir'["config"] = dir["config"]
    BY <1>1, <2>2 DEF StoreInv, FilesOK, Name, Exists, SameFile
  <2>4. /\ c.at = "copy" /\ c.held = proc[p].held /\ c.command = proc[p].command
        /\ c.fd = FileFor("bak") /\ c.from = dir["config"] /\ CommandOK(c)
    BY <1>0, <2>1, <2>2, <2>3 DEF CommandOK, Progress, Step, Holding, Writing, Copying
  <2>5. PeersIn("bak")' = None
    BY <2>2 DEF Usable, PeersIn
  <2>6. /\ Exists("config")' = Exists("config") /\ Usable("config")' = Usable("config")
        /\ PeersIn("config")' = PeersIn("config")
        /\ Exists("tmp")' /\ disk'[dir'["tmp"]] = disk[dir["tmp"]]
    BY <1>0, <1>1, <2>2, SameFileSame DEF Name, SameFile, Exists
  <2>7. Stored' = Stored \/ (proc[p].command = "init" /\ Stored' = None)
    <3>1. CASE Usable("config")
      BY <2>6, <3>1 DEF Stored
    <3>2. CASE proc[p].command = "init"
      BY <2>5, <2>6, <3>2 DEF Stored
    <3>3. proc[p].command # "init" => Usable("config")
      BY <1>0, <1>1, ContentAssumption DEF InHand, Usable
    <3>4. QED
      BY <3>1, <3>2, <3>3
  <2>8. InHand(c)'
    BY <1>0, <2>2, <2>3, <2>4, <2>6, HeldStaysTrue DEF InHand, Covers
  <2>9. StoreInv'
    BY <2>1, <2>2, <2>4, <2>8, StoreInvFromOne DEF StoreInv
  <2>10. Atomic!PartOf(PeersIn("bak")', Stored)
    BY <2>5 DEF Atomic!PartOf
  <2>11. AtomicStep
    BY <1>0, <2>1, <2>4, <2>6, <2>7, <2>10, Snaps DEF StoreInv
  <2>12. QED
    BY <2>9, <2>11 DEF Refines
<1>2. CASE ~Exists("config")
  <2>1. PICK c : /\ c = [proc[p] EXCEPT !.at = "rename", !.fd = None, !.from = None]
                 /\ proc' = [proc EXCEPT ![p] = c] /\ UNCHANGED <<dir, disk>>
    BY <1>2 DEF Snapshot, Goto
  <2>2. /\ c.at = "rename" /\ c.held = proc[p].held
        /\ c.command = proc[p].command /\ CommandOK(c)
    BY <1>0, <2>1 DEF CommandOK, Progress, Step, Holding, Writing, Copying
  <2>3. FilesOK' /\ StoreAsBefore /\ Exists("tmp")' = Exists("tmp")
    BY <2>1, FilesAsBefore DEF StoreInv
  <2>4. InHand(c)'
    BY <1>0, <1>2, <2>1, <2>2, <2>3 DEF InHand, StoreAsBefore
  <2>5. StoreInv'
    BY <2>1, <2>2, <2>3, <2>4, StoreInvFromOne DEF StoreInv
  <2>6. AtomicStep
    BY <2>1, <2>2, <2>3, Stutters DEF StoreInv
  <2>7. QED
    BY <2>5, <2>6 DEF Refines
<1>3. QED
  BY <1>1, <1>2

LEMMA CopyStep ==
  ASSUME OneProcess, StoreInv, NEW p \in Proc, Copy(p)
  PROVE  Refines
<1>0. /\ proc[p] \in Progress /\ CommandOK(proc[p]) /\ InHand(proc[p]) /\ proc[p].at = "copy"
      /\ proc[p].held # None /\ Exists("tmp") /\ disk[dir["tmp"]] = proc[p].held
      /\ proc[p].fd = dir["bak"] /\ disk[dir["bak"]] = Empty /\ Exists("bak")
      /\ proc[p].from = dir["config"] /\ Exists("config")
      /\ UNCHANGED dir
  BY DEF Copy, StoreInv, CommandOK, InHand, Holding, Writing, Copying, Exists
<1>1. PICK c : /\ c = [proc[p] EXCEPT !.at = "rename", !.fd = None, !.from = None]
               /\ proc' = [proc EXCEPT ![p] = c]
  BY DEF Copy, Goto
<1>2. /\ c.at = "rename" /\ c.held = proc[p].held
      /\ c.command = proc[p].command /\ CommandOK(c)
  BY <1>0, <1>1 DEF CommandOK, Progress, Step, Holding, Writing, Copying
<1>. DEFINE from == disk[dir["config"]]
            to   == disk'[dir["bak"]]
<1>3. from \in {Empty, Garbled} \cup Config
  BY <1>0 DEF StoreInv, FilesOK, Exists, Name
<1>4. /\ FilesOK' /\ SameFile("config") /\ SameFile("tmp")
      /\ \/ to = from
         \/ to \in {Empty, Garbled}
         \/ /\ to \in Config /\ from \in Config
            /\ KeysOf(Dedup(to.peers)) \subseteq KeysOf(Dedup(from.peers))
  <2>1. CASE Fill(dir["bak"], from)
    BY <1>0, <1>3, <2>1, FillOne DEF StoreInv, Name
  <2>2. CASE FillPart(dir["bak"], from)
    BY <1>0, <1>3, <2>2, FillPartOne DEF StoreInv, Name
  <2>3. QED
    BY <1>0, <2>1, <2>2 DEF Copy
<1>5. /\ PeersIn("config")' = PeersIn("config") /\ Usable("config")' = Usable("config")
      /\ Exists("config")' = Exists("config")
      /\ Exists("tmp")' /\ disk'[dir'["tmp"]] = disk[dir["tmp"]]
      /\ PeersIn("bak") = None
      /\ PeersIn("bak")' = IF to \in {Empty, Garbled} THEN None ELSE Dedup(to.peers)
      /\ PeersIn("config") = IF from \in {Empty, Garbled} THEN None ELSE Dedup(from.peers)
      /\ Usable("config") <=> from # Empty
  BY <1>0, <1>4, SameFileSame DEF Name, SameFile, Exists, Usable, PeersIn
<1>6. Atomic!PartOf(PeersIn("bak")', PeersIn("config"))
  <2>1. \A c1, c2 \in Config :
          /\ Dedup(c1.peers) # None
          /\ KeysOf(Dedup(c1.peers)) \subseteq KeysOf(Dedup(c2.peers))
             => Atomic!PartOf(Dedup(c1.peers), Dedup(c2.peers))
    <3>1. \A c1 \in Config : Dedup(c1.peers) # None
      BY DedupKeeps, NoneAssumption DEF Config
    <3>2. QED
      BY <3>1 DEF Atomic!PartOf, Atomic!KeysOf, KeysOf
  <2>2. Atomic!PartOf(PeersIn("config"), PeersIn("config")) /\ Atomic!PartOf(None, PeersIn("config"))
    BY DEF Atomic!PartOf
  <2>3. QED
    BY <1>3, <1>4, <1>5, <2>1, <2>2, ContentAssumption
<1>7. Stored' = Stored /\ Atomic!PartOf(PeersIn("bak")', Stored)
  <2>1. CASE from = Empty
    <3>1. to \in {Empty, Garbled}
      BY <1>4, <2>1, ContentAssumption
    <3>2. PeersIn("bak")' = None /\ Stored' = None /\ Stored = None
      BY <1>5, <2>1, <3>1 DEF Stored
    <3>3. QED
      BY <3>2 DEF Atomic!PartOf
  <2>2. CASE from # Empty
    BY <1>5, <1>6, <2>2 DEF Stored
  <2>3. QED
    BY <2>1, <2>2
<1>8. InHand(c)'
  BY <1>0, <1>2, <1>4, <1>5, HeldStaysTrue DEF InHand, Covers
<1>9. StoreInv'
  BY <1>1, <1>2, <1>4, <1>8, StoreInvFromOne DEF StoreInv
<1>10. AtomicStep
  BY <1>0, <1>1, <1>2, <1>5, <1>7, Snaps DEF StoreInv
<1>11. QED
  BY <1>9, <1>10 DEF Refines

LEMMA RenameStep ==
  ASSUME OneProcess, StoreInv, NEW p \in Proc, Rename(p)
  PROVE  Refines
<1>. DEFINE held == proc[p].held
<1>0. /\ proc[p] \in Progress /\ CommandOK(proc[p]) /\ proc[p].at = "rename"
      /\ held # None /\ held \in Config /\ Tidy(held)
      /\ proc[p].fd = None /\ proc[p].from = None
      /\ Exists("tmp") /\ disk[dir["tmp"]] = held /\ UNCHANGED disk
  BY DEF Rename, StoreInv, CommandOK, Progress, InHand, Holding, Writing, Copying
<1>1. dir' = [dir EXCEPT !["config"] = dir["tmp"], !["tmp"] = None]
  BY <1>0 DEF Rename
<1>2. /\ FilesOK' /\ SameFile("bak")
      /\ dir'["config"] = dir["tmp"] /\ dir'["config"] # None
  BY <1>0, <1>1 DEF StoreInv, FilesOK, Name, Exists, SameFile
<1>3. disk'[dir'["config"]] = held /\ Exists("config")' /\ Usable("config")'
  BY <1>0, <1>2, ContentAssumption DEF Exists, Usable
<1>4. Stored' = held.peers
  <2>1. held.peers \in Seq(PeerLine) /\ Distinct(held.peers)
    BY <1>0 DEF Config, Tidy
  <2>2. PeersIn("config")' = Dedup(held.peers)
    BY <1>0, <1>3, ContentAssumption DEF PeersIn
  <2>3. QED
    BY <1>3, <2>1, <2>2, DedupOnce DEF Stored
<1>5. PeersIn("bak")' = PeersIn("bak")
  BY <1>2, SameFileSame DEF Name
<1>6. PICK c : /\ proc' = [proc EXCEPT ![p] = c] /\ CommandOK(c)
               /\ \/ c = Idle
                  \/ c.at = "use" /\ c.held = held /\ c.command = proc[p].command
  <2>1. CASE proc[p].loading
    <3>. DEFINE d == [proc[p] EXCEPT !.held = held, !.at = "use", !.loading = FALSE]
    <3>1. proc' = [proc EXCEPT ![p] = d]
      BY <2>1 DEF Rename, Return, Hold
    <3>2. d.at = "use" /\ d.held = held /\ d.command = proc[p].command /\ CommandOK(d)
      BY <1>0 DEF CommandOK, Progress, Step, Holding, Writing, Copying
    <3>. HIDE DEF d
    <3>3. QED
      BY <3>1, <3>2
  <2>2. CASE ~proc[p].loading
    <3>1. proc' = [proc EXCEPT ![p] = Idle]
      BY <2>2 DEF Rename, Return, Exit
    <3>2. CommandOK(Idle)
      BY DEF CommandOK, Idle, Progress, Step, Holding, Writing, Copying
    <3>3. QED
      BY <3>1, <3>2
  <2>3. QED
    BY <2>1, <2>2
<1>7. InHand(c)'
  <2>1. CASE c = Idle
    BY <2>1 DEF InHand, Idle
  <2>2. CASE c.at = "use" /\ c.held = held
    BY <1>0, <1>3, <2>2 DEF InHand, Covers
  <2>3. QED
    BY <1>6, <2>1, <2>2
<1>8. StoreInv'
  BY <1>2, <1>6, <1>7, StoreInvFromOne DEF StoreInv
<1>9. c.held = None \/ (c.held = held /\ c.command = proc[p].command)
  BY <1>6 DEF Idle
<1>10. AtomicStep
  BY <1>0, <1>3, <1>4, <1>5, <1>6, <1>9, Publishes DEF StoreInv
<1>11. QED
  BY <1>8, <1>10 DEF Refines

LEMMA WipeStep ==
  ASSUME OneProcess, StoreInv, NEW how \in Wipes, Wipe(how)
  PROVE  Refines
<1>1. /\ \A p \in Proc : proc[p] = Idle
      /\ Usable("config") /\ Exists("config") /\ UNCHANGED proc
  BY DEF Wipe, Usable
<1>2. /\ FilesOK' /\ SameFile("bak") /\ ~Usable("config")'
  <2>1. CASE disk' = [disk EXCEPT ![dir["config"]] = Empty] /\ UNCHANGED dir
    BY <1>1, <2>1 DEF StoreInv, FilesOK, Name, Exists, Usable, SameFile
  <2>2. CASE dir' = [dir EXCEPT !["config"] = None] /\ UNCHANGED disk
    BY <1>1, <2>2 DEF StoreInv, FilesOK, Name, Exists, Usable, SameFile
  <2>3. QED
    BY <2>1, <2>2 DEF Wipe
<1>3. PeersIn("bak")' = PeersIn("bak")
  BY <1>2, SameFileSame DEF Name
<1>4. Stored' = PeersIn("bak")
  BY <1>2, <1>3 DEF Stored
<1>5. StoreInv'
  <2>1. \A p \in Proc : CommandOK(proc[p])'
    BY <1>1 DEF StoreInv
  <2>2. \A p \in Proc : InHand(proc[p])'
    BY <1>1 DEF InHand, Idle
  <2>3. proc' \in [Proc -> Progress]
    BY <1>1 DEF StoreInv
  <2>4. QED
    BY <1>2, <2>1, <2>2, <2>3 DEF StoreInv
<1>6. AtomicStep
  <2>1. HeldPeers' = HeldPeers /\ \A p \in Proc : HeldPeers[p] = None
    BY <1>1 DEF HeldPeers, HeldOf, Idle
  <2>2. Atomic!Wipe
    BY <1>3, <1>4, <2>1 DEF Atomic!Wipe, HeldPeers
  <2>3. QED
    BY <2>2 DEF AtomicStep, Atomic!Next
<1>7. QED
  BY <1>5, <1>6 DEF Refines

LEMMA StoreStep ==
  ASSUME OneProcess, StoreInv, [Next]_vars
  PROVE  Refines
<1>1. CASE UNCHANGED vars
  <2>1. UNCHANGED <<dir, disk, proc>>
    BY <1>1 DEF vars
  <2>2. StoreInv'
    BY <2>1 DEF StoreInv, FilesOK, InHand, Covers, Usable, Exists
  <2>3. HeldPeers' = HeldPeers /\ StoreAsBefore
    BY <2>1, FilesAsBefore DEF HeldPeers, StoreInv
  <2>4. AtomicStep
    BY <2>3 DEF AtomicStep, Atomic!vars, HeldPeers, StoreAsBefore
  <2>5. QED
    BY <2>2, <2>4 DEF Refines
<1>2. CASE Next
  <2>1. CASE \E how \in Wipes : Wipe(how)
    BY <2>1, WipeStep
  <2>2. ASSUME NEW p \in Proc, \E command \in Command : Start(p, command)
        PROVE  Refines
    BY <2>2, StartStep
  <2>3. ASSUME NEW p \in Proc,
               Check(p) \/ Recover(p) \/ Restore(p) \/ Read(p) \/ Use(p)
        PROVE  Refines
    BY <2>3, CheckStep, RecoverStep, RestoreStep, ReadStep, UseStep
  <2>4. ASSUME NEW p \in Proc,
               Open(p) \/ Write(p) \/ WriteFails(p) \/ Snapshot(p) \/ Copy(p) \/ Rename(p)
        PROVE  Refines
    BY <2>4, OpenStep, WriteStep, WriteFailsStep, SnapshotStep, CopyStep, RenameStep
  <2>5. ASSUME NEW p \in Proc, Kill(p)
        PROVE  Refines
    BY <2>5, IdleStep, FilesAsBefore DEF Kill, Exit, StoreInv
  <2>6. QED
    BY <1>2, <2>1, <2>2, <2>3, <2>4, <2>5 DEF Next
<1>3. QED
  BY <1>1, <1>2

LEMMA StoreInit ==
  ASSUME Init
  PROVE  StoreInv /\ Atomic!Init
<1>1. /\ proc = [p \in Proc |-> Idle] /\ CommandOK(Idle) /\ Idle.held = None
      /\ proc \in [Proc -> Progress]
  BY DEF Init, CommandOK, Idle, Progress, Step, Holding, Writing, Copying
<1>2. FilesOK /\ PeersIn("bak") = None
      /\ Stored \in Seq(PeerLine) \cup {None}
  <2>1. CASE dir = [n \in Name |-> None] /\ disk = [i \in Inode |-> Empty]
    BY <2>1 DEF FilesOK, PeersIn, Stored, Usable, Exists, Name
  <2>2. ASSUME NEW lines \in Written, NEW old \in BOOLEAN,
               dir = [n \in Name |-> IF n = "config" THEN 1 ELSE None],
               disk = [i \in Inode |-> IF i = 1 THEN [peers |-> lines, old |-> old] ELSE Empty]
        PROVE  /\ FilesOK /\ PeersIn("bak") = None
               /\ Stored \in Seq(PeerLine) \cup {None}
    <3>. DEFINE config == [peers |-> lines, old |-> old]
    <3>1. lines \in Seq(PeerLine) /\ config \in Config
      BY WrittenAssumption DEF Config
    <3>2. 1 \in Inode /\ 1 # None
      BY ContentAssumption DEF Inode
    <3>3. dir["config"] = 1 /\ dir["bak"] = None /\ disk[1] = config
      BY <2>2, <3>2 DEF Name
    <3>. HIDE DEF config
    <3>4. FilesOK
      BY <2>2, <3>1, <3>2 DEF FilesOK, config
    <3>5. PeersIn("bak") = None
      BY <3>3 DEF PeersIn, Usable, Exists
    <3>6. Stored \in {Dedup(config.peers), None}
      BY <3>3, <3>5 DEF Stored, PeersIn
    <3>7. Dedup(config.peers) \in Seq(PeerLine)
      BY <3>1, DedupKeeps DEF Config
    <3>8. QED
      BY <3>4, <3>5, <3>6, <3>7
  <2>3. QED
    BY <2>1, <2>2 DEF Init
<1>3. \A p \in Proc : InHand(proc[p])
  BY <1>1 DEF InHand, Idle
<1>4. StoreInv
  BY <1>1, <1>2, <1>3 DEF StoreInv
<1>5. [p \in Proc |-> HeldOf(proc[p])] = [p \in Proc |-> None]
  BY <1>1 DEF HeldOf
<1>6. Atomic!Init
  BY <1>2, <1>5 DEF Atomic!Init, Atomic!PeerLine, PeerLine
<1>7. QED
  BY <1>4, <1>6

LEMMA StoreInvHolds == ASSUME OneProcess PROVE Spec => []StoreInv
<1>1. Init => StoreInv
  BY StoreInit
<1>2. StoreInv /\ [Next]_vars => StoreInv'
  BY StoreStep DEF Refines
<1>3. QED
  BY <1>1, <1>2, PTL DEF Spec

-----------------------------------------------------------------------------
(* The theorems. *)

\* Files, descriptors and what commands hold keep their types as long as one command
\* is at work at a time.
THEOREM StoreTypeCorrect == ASSUME OneProcess PROVE Spec => []TypeOK
  BY StoreInvHolds, StoreInvTypes, PTL

\* Config::load and Config::save, killed or failing at any call, for any lists of
\* peers, are an atomic store with a backup: the exceptions are those AtomicConfig names.
THEOREM StoreImplementsAtomic == ASSUME OneProcess PROVE Spec => ConfigIsAtomic
<1>1. Init => Atomic!Init
  BY StoreInit
<1>2. StoreInv /\ [Next]_vars => [Atomic!Next]_(Atomic!vars)
  BY StoreStep DEF Refines, AtomicStep
<1>3. QED
  BY <1>1, <1>2, StoreInvHolds, PTL DEF Spec, ConfigIsAtomic, Atomic!Spec

\* A command about to rename does that, or is killed.
LEMMA AtRename ==
  ASSUME OneProcess, Next, NEW p \in Proc, proc[p].at = "rename"
  PROVE  Rename(p) \/ Kill(p)
<1>1. proc[p] # Idle /\ \A q \in Proc : q = p
  BY DEF OneProcess, Idle
<1>2. ASSUME NEW how \in Wipes
      PROVE  ~Wipe(how)
  BY <1>1 DEF Wipe
<1>3. ASSUME NEW command \in Command
      PROVE  ~Start(p, command)
  BY <1>1 DEF Start
<1>4. ~Check(p) /\ ~Recover(p) /\ ~Restore(p) /\ ~Read(p) /\ ~Use(p)
  BY DEF Check, Recover, Restore, Read, Use
<1>5. ~Open(p) /\ ~Write(p) /\ ~WriteFails(p) /\ ~Snapshot(p) /\ ~Copy(p)
  BY DEF Open, Write, WriteFails, Snapshot, Copy
<1>6. QED
  BY <1>1, <1>2, <1>3, <1>4, <1>5 DEF Next

\* What it renames.
LEMMA Renamed ==
  ASSUME StoreInv, NEW p \in Proc, Rename(p)
  PROVE  disk'[dir'["config"]] = proc[p].held /\ proc[p].held \in Config
<1>1. /\ proc[p].held \in Config /\ disk[dir["tmp"]] = proc[p].held /\ Exists("tmp")
  BY DEF Rename, StoreInv, CommandOK, Progress, InHand, Holding
<1>2. dir' = [dir EXCEPT !["config"] = dir["tmp"], !["tmp"] = None] /\ disk' = disk
  BY <1>1 DEF Rename
<1>3. dir'["config"] = dir["tmp"]
  BY <1>2 DEF StoreInv, FilesOK, Name
<1>4. QED
  BY <1>1, <1>2, <1>3

\* A step of a process changes the file of config.toml only by recovering, by
\* restoring, and by renaming.
LEMMA ConfigUntouched ==
  ASSUME OneProcess, StoreInv, Next, NEW p \in Proc, proc'[p] # proc[p],
         ~Recover(p), ~Restore(p), ~Rename(p)
  PROVE  SameFile("config")
<1>1. \A q \in Proc : q = p
  BY DEF OneProcess
<1>2. proc[p] \in Progress /\ CommandOK(proc[p]) /\ InHand(proc[p])
  BY DEF StoreInv
<1>3. CASE \E how \in Wipes : Wipe(how)
  BY <1>3 DEF Wipe
<1>4. CASE UNCHANGED <<dir, disk>>
  BY <1>4 DEF SameFile
<1>5. ASSUME NEW command \in Command, Start(p, command)
      PROVE  UNCHANGED <<dir, disk>>
  BY <1>5 DEF Start
<1>6. CASE Check(p) \/ Read(p) \/ Use(p) \/ Kill(p)
  <2>1. UNCHANGED <<dir, disk>>
    BY <1>6 DEF Check, Read, Use, Kill
  <2>2. QED
    BY <1>4, <2>1
<1>7. CASE Open(p)
  <2>1. proc[p].fd = None /\ proc[p].from = None
    BY <1>2, <1>7 DEF Open, CommandOK, Writing, Copying
  <2>2. QED
    BY <1>7, <2>1, TruncateOne DEF Open, StoreInv, Name
<1>8. CASE Write(p) \/ WriteFails(p)
  <2>1. /\ proc[p].held \in Config /\ proc[p].fd = dir["tmp"]
        /\ disk[dir["tmp"]] = Empty /\ Exists("tmp") /\ UNCHANGED dir
    BY <1>2, <1>8
    DEF Write, WriteFails, CommandOK, Progress, InHand, Holding, Writing, Exists
  <2>2. CASE Write(p)
    BY <2>1, <2>2, FillOne DEF Write, StoreInv, Name
  <2>3. CASE WriteFails(p)
    BY <2>1, <2>3, FillPartOne DEF WriteFails, StoreInv, Name
  <2>4. QED
    BY <1>8, <2>2, <2>3
<1>9. CASE Snapshot(p)
  <2>1. CASE Exists("config")
    <3>1. proc[p].fd = None /\ proc[p].from = None
      BY <1>2, <1>9 DEF Snapshot, CommandOK, Writing, Copying
    <3>2. QED
      BY <1>9, <2>1, <3>1, TruncateOne DEF Snapshot, StoreInv, Name
  <2>2. CASE ~Exists("config")
    BY <1>4, <1>9, <2>2 DEF Snapshot
  <2>3. QED
    BY <2>1, <2>2
<1>10. CASE Copy(p)
  <2>1. /\ proc[p].fd = dir["bak"] /\ disk[dir["bak"]] = Empty /\ Exists("bak")
        /\ proc[p].from = dir["config"] /\ dir["config"] # None /\ UNCHANGED dir
    BY <1>2, <1>10 DEF Copy, CommandOK, InHand, Writing, Copying, Exists
  <2>2. disk[dir["config"]] \in {Empty, Garbled} \cup Config
    BY <2>1 DEF StoreInv, FilesOK, Name
  <2>3. CASE Fill(dir["bak"], disk[dir["config"]])
    BY <2>1, <2>2, <2>3, FillOne DEF StoreInv, Name
  <2>4. CASE FillPart(dir["bak"], disk[dir["config"]])
    BY <2>1, <2>2, <2>4, FillPartOne DEF StoreInv, Name
  <2>5. QED
    BY <1>10, <2>1, <2>3, <2>4 DEF Copy
<1>11. QED
  BY <1>1, <1>3, <1>4, <1>5, <1>6, <1>7, <1>8, <1>9, <1>10 DEF Next

\* At every system call of every command, killed or failing half way: a config.toml
\* that is whole stays whole, and what a rename publishes is ("Either the new file is
\* fully visible or it isn't, never half", src/config.rs:326).
THEOREM AlwaysWhole == ASSUME OneProcess PROVE Spec => NeverHalf
<1>1. ASSUME StoreInv, Next, NEW p \in Proc, proc'[p] # proc[p],
             Whole("config") \/ (proc[p].at = "rename" /\ dir'["config"] # dir["config"])
      PROVE  Whole("config")'
  <2>1. CASE Rename(p)
    <3>1. disk'[dir'["config"]] \in Config
      BY <1>1, <2>1, Renamed
    <3>2. dir' = [dir EXCEPT !["config"] = dir["tmp"], !["tmp"] = None] /\ dir["tmp"] # None
      BY <1>1, <2>1 DEF Rename, StoreInv, InHand, Exists
    <3>3. dir'["config"] # None
      BY <1>1, <3>2 DEF StoreInv, FilesOK, Name
    <3>4. QED
      BY <3>1, <3>3 DEF Whole, Exists
  <2>2. CASE Recover(p) \/ Restore(p)
    <3>1. ~Usable("config") /\ proc[p].at # "rename"
      BY <1>1, <2>2 DEF Recover, Restore, StoreInv, InHand, Usable, Exists
    <3>2. ~Whole("config")
      BY <3>1, ContentAssumption DEF Whole, Usable
    <3>3. QED
      BY <1>1, <3>1, <3>2
  <2>3. CASE ~Recover(p) /\ ~Restore(p) /\ ~Rename(p)
    <3>1. SameFile("config")
      BY <1>1, <2>3, ConfigUntouched
    <3>2. QED
      BY <1>1, <3>1 DEF SameFile, Whole, Exists
  <2>4. QED
    BY <2>1, <2>2, <2>3
<1>2. StoreInv /\ [Next]_vars
      => [\A p \in Proc :
            /\ proc'[p] # proc[p]
            /\ Whole("config") \/ (proc[p].at = "rename" /\ dir'["config"] # dir["config"])
            => Whole("config")']_vars
  BY <1>1
<1>3. QED
  BY <1>2, StoreInvHolds, PTL DEF Spec, NeverHalf

\* A save never drops a peer of the file it replaces, nor its endpoint, whatever was
\* collapsed by the load before it or merged in by a join; an init starts anew.
THEOREM SavesDropNothing == ASSUME OneProcess PROVE Spec => NothingDropped
<1>1. ASSUME StoreInv, Next, NEW p \in Proc, proc[p].at = "rename",
             proc[p].command # "init", PeersIn("config") # None
      PROVE  Covers(disk'[dir'["config"]], disk[dir["config"]])
  <2>1. Covers(proc[p].held, disk[dir["config"]])
    BY <1>1 DEF StoreInv, CommandOK, InHand, Holding, PeersIn, Usable
  <2>2. CASE Rename(p)
    BY <1>1, <2>1, <2>2, Renamed
  <2>3. CASE Kill(p)
    BY <2>3 DEF Kill, Covers
  <2>4. QED
    BY <1>1, <2>2, <2>3, AtRename
<1>2. StoreInv /\ [Next]_vars
      => [\A p \in Proc :
            /\ proc[p].at = "rename" /\ proc[p].command # "init"
            /\ PeersIn("config") # None
            => LET before == disk[dir["config"]].peers
                   after  == disk'[dir'["config"]].peers
               IN /\ KeysOf(before) \subseteq KeysOf(after)
                  /\ KeysWithEndpoint(before) \subseteq KeysWithEndpoint(after)]_vars
  BY <1>1 DEF Covers
<1>3. QED
  BY <1>2, StoreInvHolds, PTL DEF Spec, NothingDropped

=============================================================================
