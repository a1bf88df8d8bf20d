------------------------------- MODULE Service -------------------------------
(***************************************************************************)
(* The life of the daemon processes of one machine (run_daemon, src/       *)
(* main.rs), from the first file read to the last rule removed, with what  *)
(* they share: the private key (src/crypto.rs), the TUN device (src/       *)
(* tun.rs), the gateway's iptables rules (src/gateway.rs), status.json.    *)
(* One process is run by systemd (the unit file of setup.sh), others by    *)
(* hand, as daemons or as one of the short commands that need the key;     *)
(* "wolfnetctl purge" (src/ctl/main.rs) signals one of them.               *)
(*                                                                         *)
(* The machine is a gateway.  What the main loop does with packets is      *)
(* PeerDaemon's and Forwarding's matter, how config.toml is read           *)
(* ConfigStore's: here a version number stands for its contents, which     *)
(* name the same interface and the same subnet in every version.           *)
(***************************************************************************)
EXTENDS Naturals, FiniteSets

CONSTANTS
  Proc,       \* processes of the program wolfnet
  Unit,       \* the one that systemd runs
  Iface,      \* external interfaces a default route may name
  MaxEdits,   \* bounds the edits of config.toml
  Readable,   \* the versions of config.toml that can be loaded
  Usable,     \* those of them whose address is one
  Port(_),    \* the listen_port of a version
  MaxUpsets,  \* bounds deaths of processes, moves of the default route, lost devices
  None

ASSUME UnitAssumption  == Unit \in Proc /\ IsFiniteSet(Proc)
ASSUME UsableAssumption == Usable \subseteq Readable
ASSUME NoneAssumption  == None \notin Proc \cup Iface
ASSUME BoundAssumption == MaxEdits \in Nat /\ MaxUpsets \in Nat

VARIABLES
  proc,     \* proc[p]: where the process stands, and what is in its memory
  key,      \* private.key: "missing", "torn" (truncated) or "whole"
  tun,      \* the process whose device wolfnet0 is, or None
  rules,    \* rules[i][r]: copies of rule r for the interface i
  ext,      \* the interface of the default route, or None
  status,   \* status.json, or "nodir": not even /var/run/wolfnet is there
  writer,   \* the status writer thread of each process
  wanted,   \* systemd is to run its unit
  edited,   \* the version config.toml is in
  upsets    \* deaths, moves and lost devices so far

vars == <<proc, key, tun, rules, ext, status, writer, wanted, edited, upsets>>

\* What a daemon does next.  "fill" follows "key" if a key is generated.
Startup == {"load", "key", "fill", "tun", "bind", "enable", "sigterm", "running", "sighup"}
Looping == {"loop", "reload", "apply"}
Cleanup == {"disable", "unlink", "return"}
Step == {"off"} \cup Startup \cup Looping \cup Cleanup

\* The rules of enable_gateway in their order: MASQUERADE, FORWARD out, FORWARD in.
Rule == 1 .. 3

\* "command": not a daemon; "run" and "hup": the flags RUNNING and RELOAD_FLAG;
\* "loaded": the version of config.toml in use; "port": the port of the version loaded
\* first; "asked": the version config.toml was in at the last SIGHUP the handler took;
\* "via": the interface found for the rules; "next": the rule to be added or deleted next.
Gone == [at |-> "off", command |-> FALSE, run |-> TRUE, hup |-> FALSE,
         loaded |-> 0, port |-> Port(0), asked |-> 0, via |-> None, next |-> 1]

Ports == {Port(v) : v \in 0 .. MaxEdits}

At(p, steps) == proc[p].at \in steps
Up(p) == ~At(p, {"off"})

\* The processes that hold the UDP socket, and a descriptor of a TUN device.
Bound == {p \in Proc : At(p, {"enable", "sigterm", "running", "sighup"} \cup Looping \cup Cleanup)}
Tunnelled == Bound \cup {p \in Proc : At(p, {"bind"})}

TypeOK ==
  /\ proc \in [Proc -> [at : Step, command : BOOLEAN, run : BOOLEAN, hup : BOOLEAN,
                        loaded : 0 .. MaxEdits, port : Ports, asked : 0 .. MaxEdits,
                        via : Iface \cup {None}, next : Rule]]
  /\ key \in {"missing", "torn", "whole"}
  /\ tun \in Tunnelled \cup {None}
  /\ rules \in [Iface -> [Rule -> Nat]]
  /\ ext \in Iface \cup {None}
  /\ status \in {"nodir", "missing", "written"}
  /\ writer \in [Proc -> {"none", "test", "write"}]
  /\ wanted \in BOOLEAN
  /\ edited \in 0 .. MaxEdits
  /\ upsets \in 0 .. MaxUpsets
  /\ \A p \in Proc : /\ writer[p] # "none" => At(p, Looping \cup Cleanup)
                     /\ At(p, {"off"}) => proc[p] = Gone
                     /\ proc[p].command => At(p, {"key", "fill"})
                     /\ At(p, {"enable", "disable"}) <=> proc[p].via # None

Goto(p, step) == proc' = [proc EXCEPT ![p].at = step]

-----------------------------------------------------------------------------
(* How a process ends: its descriptors close and its threads stop, and of  *)
(* the unit systemd removes the RuntimeDirectory.  systemd starts the unit *)
(* again unless it exited with 0 or died of a signal that counts as clean  *)
(* (Restart=on-failure).                                                   *)

\* What if the device outlived the process.
EndKeepingTun(p) ==
  /\ proc' = [proc EXCEPT ![p] = Gone]
  /\ writer' = [writer EXCEPT ![p] = "none"]
  /\ tun' = tun
  /\ status' = IF p = Unit THEN "nodir" ELSE status

End(p) ==
  /\ proc' = [proc EXCEPT ![p] = Gone]
  /\ writer' = [writer EXCEPT ![p] = "none"]
  /\ tun' = IF tun = p THEN None ELSE tun
  /\ status' = IF p = Unit THEN "nodir" ELSE status

Clean(p) == wanted' = (wanted /\ p # Unit)

\* exit(1)
Fail(p) == End(p) /\ UNCHANGED <<key, rules, wanted>>

Die(p) ==
  /\ upsets < MaxUpsets /\ upsets' = upsets + 1
  /\ End(p)
  /\ UNCHANGED <<key, rules, ext, edited>>

-----------------------------------------------------------------------------
(* run_daemon, up to the main loop. *)

\* load_config and ip_addr: a config.toml that cannot be used ends the process.
Load(p) ==
  /\ At(p, {"load"})
  /\ \/ edited \notin Usable /\ Fail(p)
     \/ /\ edited \in Usable
        /\ proc' = [proc EXCEPT ![p].at = "key", ![p].loaded = edited, ![p].port = Port(edited)]
        /\ UNCHANGED <<key, tun, rules, status, writer, wanted>>

KeyRead(p) == /\ IF proc[p].command THEN End(p)
                 ELSE Goto(p, "tun") /\ UNCHANGED <<tun, status, writer>>
              /\ UNCHANGED wanted

\* What if a daemon only loaded a key, and did not generate one.
LoadKeyOnly(p) ==
  /\ At(p, {"key"})
  /\ IF key = "whole" THEN KeyRead(p) /\ UNCHANGED <<key, rules>> ELSE Fail(p)

\* load_or_generate: a key that cannot be decoded ends the process, and the file is
\* created, truncated, before it is written.
LoadOrGenerateKey(p) ==
  /\ At(p, {"key"})
  /\ \/ key = "whole" /\ KeyRead(p) /\ UNCHANGED <<key, rules>>
     \/ key = "torn" /\ Fail(p)
     \/ /\ key = "missing" /\ key' = "torn" /\ Goto(p, "fill")
        /\ UNCHANGED <<tun, rules, status, writer, wanted>>

FillKey(p) ==
  /\ At(p, {"fill"})
  /\ key' = "whole"
  /\ KeyRead(p)
  /\ UNCHANGED rules

\* What if the device were created with IFF_MULTI_QUEUE: a second one attaches to it.
CreateTunMultiQueue(p) ==
  /\ At(p, {"tun"})
  /\ tun' = p /\ Goto(p, "bind")
  /\ UNCHANGED <<key, rules, status, writer, wanted>>

\* TUNSETIFF: a device of that name is another process's, or the kernel makes one.
CreateTun(p) ==
  /\ At(p, {"tun"})
  /\ \/ tun # None /\ Fail(p)
     \/ /\ tun = None /\ tun' = p /\ Goto(p, "bind")
        /\ UNCHANGED <<key, rules, status, writer, wanted>>

\* enable_gateway finds the external interface, or gives up.
ToGateway(p, step, otherwise) ==
  proc' = [proc EXCEPT ![p].at = IF ext = None THEN otherwise ELSE step,
                       ![p].via = ext]

\* ip addr add and ip link set fail if the device is gone by now.
Configures(p) == tun = p

\* The port is that of the config.toml this process began with.
PortFree(p) == \A q \in Bound : proc[q].port # proc[p].port

Bind(p) ==
  /\ At(p, {"bind"})
  /\ \/ ~(PortFree(p) /\ Configures(p)) /\ Fail(p)
     \/ /\ PortFree(p) /\ Configures(p) /\ ToGateway(p, "enable", "sigterm")
        /\ UNCHANGED <<key, tun, rules, status, writer, wanted>>

\* One iptables command.
EachRule(p, then, changed) ==
  /\ rules' = [rules EXCEPT ![proc[p].via][proc[p].next] = changed]
  /\ proc' = IF proc[p].next = 3
             THEN [proc EXCEPT ![p].at = then, ![p].via = None, ![p].next = 1]
             ELSE [proc EXCEPT ![p].next = @ + 1]

Copies(p) == rules[proc[p].via][proc[p].next]

\* iptables -A adds a copy, whether or not there is one.
EnableGateway(p) ==
  /\ At(p, {"enable"})
  /\ EachRule(p, "sigterm", Copies(p) + 1)
  /\ UNCHANGED <<key, tun, status, writer, wanted>>

\* The handlers of SIGTERM and SIGINT, the flag they set, the handler of SIGHUP.
RegisterHandlers(p) ==
  /\ \/ At(p, {"sigterm"}) /\ Goto(p, "running")
     \/ At(p, {"running"}) /\ Goto(p, "sighup")
  /\ UNCHANGED <<key, tun, rules, status, writer, wanted>>

\* With the last handler in place the status writer is started.
EnterLoop(p) ==
  /\ At(p, {"sighup"})
  /\ Goto(p, "loop")
  /\ writer' = [writer EXCEPT ![p] = "test"]
  /\ status' = IF status = "nodir" THEN "missing" ELSE status
  /\ UNCHANGED <<key, tun, rules, wanted>>

-----------------------------------------------------------------------------
(* The main loop. *)

\* With its device gone poll reports an error at once, and the loop starts over
\* unless a packet has come in by UDP.
CompletesPass(p, packet) == tun = p \/ packet

TakeReloadFlag(p, packet) ==
  /\ At(p, {"loop"}) /\ proc[p].run /\ CompletesPass(p, packet)
  /\ proc[p].hup
  /\ proc' = [proc EXCEPT ![p].at = "reload", ![p].hup = FALSE]
  /\ UNCHANGED <<key, tun, rules, status, writer, wanted>>

\* Reading config.toml, and bringing the peers into line with it: nothing but its peers
\* is applied, and of one that cannot be loaded nothing.
ReloadConfig(p) ==
  /\ At(p, {"reload"})
  /\ proc' = IF edited \in Readable
             THEN [proc EXCEPT ![p].at = "apply", ![p].loaded = edited]
             ELSE [proc EXCEPT ![p].at = "loop"]
  /\ UNCHANGED <<key, tun, rules, status, writer, wanted>>

\* What if the flag were cleared when the reload is done.
FinishClearingFlag(p) ==
  /\ At(p, {"apply"})
  /\ proc' = [proc EXCEPT ![p].at = "loop", ![p].hup = FALSE]
  /\ UNCHANGED <<key, tun, rules, status, writer, wanted>>

FinishReload(p) ==
  /\ At(p, {"apply"})
  /\ Goto(p, "loop")
  /\ UNCHANGED <<key, tun, rules, status, writer, wanted>>

\* What if the pass cut short by a poll error did not come back to the flag.
LeaveLoopAfterPass(p) ==
  /\ At(p, {"loop"}) /\ ~proc[p].run /\ tun = p
  /\ ToGateway(p, "disable", "unlink")
  /\ UNCHANGED <<key, tun, rules, status, writer, wanted>>

\* The flag is tested before each poll; disable_gateway finds the interface anew.
LeaveLoop(p) ==
  /\ At(p, {"loop"}) /\ ~proc[p].run
  /\ ToGateway(p, "disable", "unlink")
  /\ UNCHANGED <<key, tun, rules, status, writer, wanted>>

\* What if the last rule, which lets replies in, were never deleted.
DisableGatewayHalf(p) ==
  /\ At(p, {"disable"})
  /\ EachRule(p, "unlink", IF Copies(p) = 0 \/ proc[p].next = 3 THEN Copies(p) ELSE Copies(p) - 1)
  /\ UNCHANGED <<key, tun, status, writer, wanted>>

\* iptables -D deletes one copy, if there is any.
DisableGateway(p) ==
  /\ At(p, {"disable"})
  /\ EachRule(p, "unlink", IF Copies(p) = 0 THEN 0 ELSE Copies(p) - 1)
  /\ UNCHANGED <<key, tun, status, writer, wanted>>

\* The writer may be about to write status.json once more.
RemoveStatus(p) ==
  /\ At(p, {"unlink"})
  /\ status' = IF status = "nodir" THEN "nodir" ELSE "missing"
  /\ Goto(p, "return")
  /\ UNCHANGED <<key, tun, rules, writer, wanted>>

Return(p) ==
  /\ At(p, {"return"})
  /\ End(p) /\ Clean(p)
  /\ UNCHANGED <<key, rules>>

-----------------------------------------------------------------------------
(* The status writer thread, every 5 s: it tests RUNNING and writes        *)
(* status.json, where that has been removed meanwhile as well.  A reader   *)
(* that finds half of it gives up, as it may do without.                   *)

WriteStatus(p) ==
  /\ \/ /\ writer[p] = "test"
        /\ writer' = [writer EXCEPT ![p] = IF proc[p].run THEN "write" ELSE "none"]
        /\ UNCHANGED status
     \/ /\ writer[p] = "write"
        /\ writer' = [writer EXCEPT ![p] = "test"]
        /\ status' = IF status = "nodir" THEN "nodir" ELSE "written"
  /\ UNCHANGED <<proc, key, tun, rules, wanted>>

-----------------------------------------------------------------------------
(* Signals. *)

\* SIGTERM or SIGINT: fatal before its handler is there, and lost while the
\* handler has no flag to clear.
Fatal(p) == At(p, Startup \ {"running", "sighup"})

Terminate(p) ==
  \/ Fatal(p) /\ Die(p)
  \/ At(p, {"running"}) /\ UNCHANGED <<proc, key, tun, rules, ext, status, writer, edited, upsets>>
  \/ /\ At(p, {"sighup"} \cup Looping \cup Cleanup)
     /\ proc' = [proc EXCEPT ![p].run = FALSE]
     /\ UNCHANGED <<key, tun, rules, ext, status, writer, edited, upsets>>

Stop(p) == Terminate(p) /\ IF Fatal(p) THEN Clean(p) ELSE UNCHANGED wanted

\* SIGHUP: fatal before its handler is there.
Hangup(p) ==
  \/ At(p, Startup) /\ Die(p) /\ Clean(p)
  \/ /\ At(p, Looping \cup Cleanup)
     /\ proc' = [proc EXCEPT ![p].hup = TRUE, ![p].asked = edited]
     /\ UNCHANGED <<key, tun, rules, ext, status, writer, wanted, edited, upsets>>

Kill(p) == Up(p) /\ Die(p) /\ UNCHANGED wanted

\* wolfnetctl signals the first process that pidof names, daemon or not.
SignalFirst == \E p \in Proc : Hangup(p)

\* It reads status.json before it does anything, and gives up if it cannot.
Purge == status = "written" /\ SignalFirst

-----------------------------------------------------------------------------
(* systemd, the operator and the kernel. *)

StartUnit ==
  /\ wanted /\ ~Up(Unit)
  /\ Goto(Unit, "load")
  /\ status' = IF status = "nodir" THEN "missing" ELSE status
  /\ UNCHANGED <<key, tun, rules, ext, writer, wanted, edited, upsets>>

WantUnit ==
  /\ ~wanted /\ ~Up(Unit) /\ wanted' = TRUE
  /\ UNCHANGED <<proc, key, tun, rules, ext, status, writer, edited, upsets>>

StopUnit ==
  /\ wanted /\ wanted' = FALSE
  /\ \/ Terminate(Unit)
     \/ ~Up(Unit) /\ UNCHANGED <<proc, key, tun, rules, ext, status, writer, edited, upsets>>

ByHand(p, command) ==
  /\ p # Unit /\ ~Up(p)
  /\ proc' = [proc EXCEPT ![p].at = IF command THEN "key" ELSE "load", ![p].command = command]
  /\ UNCHANGED <<key, tun, rules, ext, status, writer, wanted, edited, upsets>>

Edit ==
  /\ edited < MaxEdits /\ edited' = edited + 1
  /\ UNCHANGED <<proc, key, tun, rules, ext, status, writer, wanted, upsets>>

MoveDefaultRoute(i) ==
  /\ i # ext /\ ext' = i
  /\ upsets < MaxUpsets /\ upsets' = upsets + 1
  /\ UNCHANGED <<proc, key, tun, rules, status, writer, wanted, edited>>

\* Somebody deletes wolfnet0: its daemon keeps a descriptor without a device.
DeleteTun ==
  /\ tun # None /\ tun' = None
  /\ upsets < MaxUpsets /\ upsets' = upsets + 1
  /\ UNCHANGED <<proc, key, rules, ext, status, writer, wanted, edited>>

-----------------------------------------------------------------------------
Init ==
  /\ proc = [p \in Proc |-> Gone]
  /\ key = "missing"
  /\ tun = None
  /\ rules = [i \in Iface |-> [r \in Rule |-> 0]]
  /\ ext \in Iface \cup {None}
  /\ status = "nodir"
  /\ writer = [p \in Proc |-> "none"]
  /\ wanted = FALSE
  /\ edited = 0
  /\ upsets = 0

MainThread(p) ==
  \/ Load(p) \/ LoadOrGenerateKey(p) \/ FillKey(p) \/ CreateTun(p) \/ Bind(p)
  \/ EnableGateway(p) \/ RegisterHandlers(p) \/ EnterLoop(p)
  \/ TakeReloadFlag(p, FALSE) \/ ReloadConfig(p) \/ FinishReload(p)
  \/ LeaveLoop(p) \/ DisableGateway(p) \/ RemoveStatus(p) \/ Return(p)

Next ==
  \/ \E p \in Proc :
       \/ (MainThread(p) \/ TakeReloadFlag(p, TRUE) \/ WriteStatus(p)) /\ UNCHANGED <<ext, edited, upsets>>
       \/ Stop(p) \/ Kill(p)
       \/ \E command \in BOOLEAN : ByHand(p, command)
  \/ Purge
  \/ StartUnit \/ WantUnit \/ StopUnit
  \/ Edit
  \/ \E i \in Iface \cup {None} : MoveDefaultRoute(i)
  \/ DeleteTun

Spec == Init /\ [][Next]_vars

\* The kernel schedules every process, and systemd restarts its unit after 5 s.
Fairness ==
  /\ \A p \in Proc : WF_proc(MainThread(p) /\ UNCHANGED <<ext, edited, upsets>>)
  /\ WF_proc(StartUnit)

FairSpec == Spec /\ Fairness

-----------------------------------------------------------------------------
(* Properties. *)

\* However often config.toml, and the port in it, is edited, and whoever starts daemons, one
\* at a time has charge of rules and status file, and another one for each that lost its
\* device (or for another upset): the device keeps it from going on.
DaemonsBounded == Cardinality(Bound) <= upsets + 1

\* Of each rule there is one copy for a daemon that has its device, and beyond that no
\* more than daemons died, lost their device, or saw the default route move: a stop
\* that goes its way deletes what the start has added, and the device keeps a second
\* daemon from adding its own.
RulesBounded ==
  \A i \in Iface, r \in Rule : rules[i][r] <= upsets + IF Bound = {} THEN 0 ELSE 1

\* What config.toml was at the last SIGHUP the daemon took, and whatever it was since,
\* could be loaded.
Asked(p) == \A v \in proc[p].asked .. edited : v \in Readable

\* No SIGHUP is forgotten, at whichever step of the reload before it it comes: a daemon
\* that does not use the config.toml it was asked to use is about to read it, or has the
\* flag to come back to it, unless what it found could not be loaded.
HangupKept ==
  \A p \in Proc :
    Asked(p) /\ proc[p].loaded < proc[p].asked => proc[p].hup \/ At(p, {"reload"})

\* A daemon whose handler has taken a SIGTERM and cleared the flag stops, be its device
\* gone or not.  (One that comes before the handler has its flag is lost.)
StopsWhenAsked == \A p \in Proc : ~proc[p].run ~> ~Up(p)

\* The peers that were in config.toml when a daemon took a SIGHUP, or those of a later
\* version, the daemon comes to use, also if it was at a reload just then, as long as
\* config.toml can be loaded.  A daemon without its device does not: its loop may not
\* get as far as the flag.
Owes(p, v) ==
  /\ At(p, Looping) /\ proc[p].run /\ tun = p
  /\ proc[p].asked >= v /\ proc[p].loaded < v
  /\ \A w \in v .. edited : w \in Readable

EditsApplied ==
  \A p \in Proc, v \in Readable \ {0} : Owes(p, v) ~> ~Owes(p, v)

\* As long as the unit is wanted, config.toml is usable and nobody goes on deleting the
\* device, a daemon is up again and again, unless somebody was killed while writing the
\* key: then none ever starts again.
ComesUp ==
  <>[](wanted /\ edited \in Usable) /\ <>[][~DeleteTun]_vars
    => []<>(\E p \in Proc : At(p, Looping)) \/ <>[](key = "torn")

=============================================================================
