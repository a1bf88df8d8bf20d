---------------------------- MODULE ServiceProofs ----------------------------
(***************************************************************************)
(* What Service guarantees for every set of processes and interfaces and   *)
(* every bound, proved: the types, that daemons and iptables rules do not  *)
(* pile up, and that no SIGHUP is forgotten.                               *)
(***************************************************************************)
EXTENDS Service, FiniteSetTheorems, TLAPS

\* What is in proc[p], and how it goes with the status writer.
Memory == [at : Step, command : BOOLEAN, run : BOOLEAN, hup : BOOLEAN,
           loaded : 0 .. MaxEdits, port : Ports, asked : 0 .. MaxEdits,
           via : Iface \cup {None}, next : Rule]

Coherent(p) ==
  /\ writer[p] # "none" => At(p, Looping \cup Cleanup)
  /\ At(p, {"off"}) => proc[p] = Gone
  /\ proc[p].command => At(p, {"key", "fill"})
  /\ At(p, {"enable", "disable"}) <=> proc[p].via # None

WriterState == {"none", "test", "write"}

\* The type invariant in two: the processes, and what they share.
Processes ==
  /\ proc \in [Proc -> Memory]
  /\ writer \in [Proc -> WriterState]
  /\ tun \in Tunnelled \cup {None}
  /\ \A p \in Proc : Coherent(p)

Shared ==
  /\ key \in {"missing", "torn", "whole"}
  /\ rules \in [Iface -> [Rule -> Nat]]
  /\ ext \in Iface \cup {None}
  /\ status \in {"nodir", "missing", "written"}
  /\ wanted \in BOOLEAN
  /\ edited \in 0 .. MaxEdits
  /\ upsets \in 0 .. MaxUpsets

LEMMA TypeParts == (TypeOK <=> Processes /\ Shared) /\ (TypeOK' <=> Processes' /\ Shared')
  BY DEF TypeOK, Processes, Shared, Memory, Coherent, WriterState

LEMMA GoneType == Gone \in Memory
<1>1. 0 \in 0 .. MaxEdits
  BY BoundAssumption
<1>2. Port(0) \in Ports
  BY <1>1 DEF Ports
<1>3. QED
  BY <1>1, <1>2 DEF Gone, Memory, Step, Rule

\* When one process moves, the parts of the type invariant about processes need to be
\* shown of that one only.
Moves(p) ==
  /\ proc' = [proc EXCEPT ![p] = proc'[p]]
  /\ writer' = [writer EXCEPT ![p] = writer'[p]]
  /\ tun' \in {tun, p, None}

LEMMA OneMoves ==
  ASSUME TypeOK, NEW p \in Proc, Moves(p),
         proc'[p] \in Memory, writer'[p] \in WriterState, Coherent(p)',
         tun' = p => p \in Tunnelled'
  PROVE  Processes'
<1>1. /\ proc \in [Proc -> Memory] /\ tun \in Tunnelled \cup {None}
      /\ writer \in [Proc -> WriterState]
      /\ \A q \in Proc : Coherent(q)
  BY TypeParts DEF Processes
<1>2. /\ proc' \in [Proc -> Memory] /\ writer' \in [Proc -> WriterState]
      /\ \A q \in Proc \ {p} : proc'[q] = proc[q] /\ writer'[q] = writer[q]
  BY <1>1 DEF Moves
<1>3. \A q \in Proc : Coherent(q)'
  BY <1>1, <1>2 DEF Coherent, At
<1>4. tun' \in Tunnelled' \cup {None}
  BY <1>1, <1>2 DEF Moves, Tunnelled, Bound, At
<1>5. QED
  BY <1>2, <1>3, <1>4 DEF Processes

\* What the rest of the invariant says of one process and of what it shares.
LEMMA OwnParts ==
  ASSUME TypeOK, NEW p \in Proc
  PROVE  /\ proc[p] \in Memory
         /\ writer[p] \in WriterState
         /\ Coherent(p)
         /\ tun = p => p \in Tunnelled
         /\ p # None
  BY TypeParts, NoneAssumption DEF Processes

\* A process that ends leaves nothing behind of its own (exit, a fatal signal).
LEMMA EndMoves ==
  ASSUME TypeOK, NEW p \in Proc, End(p)
  PROVE  Processes' /\ status' \in {"nodir", "missing", "written"}
<1>1. proc \in [Proc -> Memory] /\ writer \in [Proc -> WriterState]
  BY TypeParts DEF Processes
<1>2. Gone \in Memory
  BY GoneType
<1>3. proc'[p] = Gone /\ writer'[p] = "none" /\ Moves(p)
  BY <1>1 DEF End, Moves
<1>4. Coherent(p)'
  BY <1>3 DEF Coherent, At, Gone, Looping, Cleanup
<1>5. tun' # p
  BY OwnParts DEF End
<1>6. status' \in {"nodir", "missing", "written"}
  BY TypeParts DEF End, Shared
<1>7. QED
  BY <1>2, <1>3, <1>4, <1>5, <1>6, OneMoves DEF WriterState

LEMMA FailType ==
  ASSUME TypeOK, NEW p \in Proc, Fail(p), UNCHANGED <<ext, edited, upsets>>
  PROVE  TypeOK'
  BY EndMoves, TypeParts DEF Fail, Shared

LEMMA DieType ==
  ASSUME TypeOK, NEW p \in Proc, Die(p), wanted' \in BOOLEAN
  PROVE  TypeOK'
<1>1. upsets' \in 0 .. MaxUpsets
  BY BoundAssumption, TypeParts DEF Die, Shared
<1>2. QED
  BY <1>1, EndMoves, TypeParts DEF Die, Shared

-----------------------------------------------------------------------------
(* The steps of run_daemon. *)

Quiet == UNCHANGED <<ext, edited, upsets>>

\* A step within run_daemon that leaves the device and the status writer alone.
LEMMA StepMoves ==
  ASSUME TypeOK, NEW p \in Proc,
         proc' = [proc EXCEPT ![p] = proc'[p]], UNCHANGED <<tun, writer>>,
         proc'[p] \in Memory, Coherent(p)',
         p \in Tunnelled => p \in Tunnelled'
  PROVE  Processes'
<1>1. writer' = [writer EXCEPT ![p] = writer'[p]]
  BY TypeParts DEF Processes
<1>2. QED
  BY <1>1, OwnParts, OneMoves DEF Moves

\* An assignment to a part of a memory gives a memory.
LEMMA AtAssigned ==
  ASSUME NEW m \in Memory, NEW at \in Step
  PROVE  /\ [m EXCEPT !.at = at] \in Memory
         /\ [m EXCEPT !.at = at].at = at
         /\ [m EXCEPT !.at = at].command = m.command
         /\ [m EXCEPT !.at = at].via = m.via
  BY DEF Memory

LEMMA FlagAssigned ==
  ASSUME NEW m \in Memory, NEW b \in BOOLEAN
  PROVE  /\ [m EXCEPT !.hup = b] \in Memory
         /\ [m EXCEPT !.hup = b].at = m.at
         /\ [m EXCEPT !.hup = b].command = m.command
         /\ [m EXCEPT !.hup = b].via = m.via
  BY DEF Memory

LEMMA CommandAssigned ==
  ASSUME NEW m \in Memory, NEW b \in BOOLEAN
  PROVE  /\ [m EXCEPT !.command = b] \in Memory
         /\ [m EXCEPT !.command = b].at = m.at
         /\ [m EXCEPT !.command = b].command = b
         /\ [m EXCEPT !.command = b].via = m.via
  BY DEF Memory

LEMMA RuleAssigned ==
  ASSUME NEW m \in Memory
  PROVE  [m EXCEPT !.via = None] \in Memory /\ [m EXCEPT !.next = 1] \in Memory
<1>1. 1 \in Rule
  BY DEF Rule
<1>2. QED
  BY <1>1 DEF Memory

\* So do two or three in a row.
LEMMA AtAndFlag ==
  ASSUME NEW m \in Memory, NEW at \in Step, NEW b \in BOOLEAN
  PROVE  LET n == [m EXCEPT !.at = at, !.hup = b]
         IN  n \in Memory /\ n.at = at /\ n.command = m.command /\ n.via = m.via
<1>1. PICK n \in Memory : /\ n = [m EXCEPT !.at = at] /\ n.at = at
                          /\ n.command = m.command /\ n.via = m.via
  BY AtAssigned
<1>2. /\ [n EXCEPT !.hup = b] \in Memory /\ [n EXCEPT !.hup = b].at = n.at
      /\ [n EXCEPT !.hup = b].command = n.command /\ [n EXCEPT !.hup = b].via = n.via
  BY FlagAssigned
<1>3. QED
  BY <1>1, <1>2, Zenon

LEMMA AtAndCommand ==
  ASSUME NEW m \in Memory, NEW at \in Step, NEW b \in BOOLEAN
  PROVE  LET n == [m EXCEPT !.at = at, !.command = b]
         IN  n \in Memory /\ n.at = at /\ (~b => ~n.command) /\ n.via = m.via
<1>1. PICK n \in Memory : n = [m EXCEPT !.at = at] /\ n.at = at /\ n.via = m.via
  BY AtAssigned
<1>2. /\ [n EXCEPT !.command = b] \in Memory /\ [n EXCEPT !.command = b].at = n.at
      /\ [n EXCEPT !.command = b].command = b /\ [n EXCEPT !.command = b].via = n.via
  BY CommandAssigned
<1>3. QED
  BY <1>1, <1>2, Zenon

LEMMA AtAndRule ==
  ASSUME NEW m \in Memory, NEW at \in Step
  PROVE  [m EXCEPT !.at = at, !.via = None, !.next = 1] \in Memory
<1>1. PICK n \in Memory : n = [m EXCEPT !.at = at]
  BY AtAssigned
<1>2. PICK o \in Memory : o = [n EXCEPT !.via = None]
  BY RuleAssigned
<1>3. [o EXCEPT !.next = 1] \in Memory
  BY RuleAssigned
<1>4. QED
  BY <1>1, <1>2, <1>3, Zenon

\* What is loaded first gives the port as well.
LEMMA LoadAssigned ==
  ASSUME NEW m \in Memory, NEW version \in 0 .. MaxEdits
  PROVE  LET n == [m EXCEPT !.at = "key", !.loaded = version, !.port = Port(version)]
         IN  n \in Memory /\ n.at = "key" /\ n.command = m.command /\ n.via = m.via
<1>1. Port(version) \in Ports
  BY DEF Ports
<1>2. PICK port \in Ports : port = Port(version)
  BY <1>1
<1>3. "key" \in Step
  BY DEF Step, Startup
<1>4. LET n == [m EXCEPT !.at = "key", !.loaded = version, !.port = port]
      IN  n \in Memory /\ n.at = "key" /\ n.command = m.command /\ n.via = m.via
  BY <1>3 DEF Memory
<1>5. QED
  BY <1>2, <1>4, Zenon

LEMMA LoadType ==
  ASSUME TypeOK, NEW p \in Proc, Load(p), Quiet
  PROVE  TypeOK'
<1>0. CASE Fail(p)
  BY <1>0, FailType DEF Quiet
<1>1. CASE /\ proc' = [proc EXCEPT ![p].at = "key", ![p].loaded = edited, ![p].port = Port(edited)]
           /\ UNCHANGED <<key, tun, rules, status, writer, wanted>>
  <2>1. proc'[p] = [proc[p] EXCEPT !.at = "key", !.loaded = edited, !.port = Port(edited)]
        /\ proc' = [proc EXCEPT ![p] = proc'[p]]
    BY <1>1, TypeParts DEF Processes
  <2>2. /\ proc'[p] \in Memory /\ proc'[p].at = "key"
        /\ proc'[p].command = proc[p].command /\ proc'[p].via = proc[p].via
    <3>1. proc[p] \in Memory /\ edited \in 0 .. MaxEdits
      BY OwnParts, TypeParts DEF Shared
    <3>2. LET n == [proc[p] EXCEPT !.at = "key", !.loaded = edited, !.port = Port(edited)]
          IN  n \in Memory /\ n.at = "key" /\ n.command = proc[p].command /\ n.via = proc[p].via
      BY <3>1, LoadAssigned
    <3>3. QED
      BY <2>1, <3>2, Zenon
  <2>3. Coherent(p)'
    <3>1. proc[p].at = "load" /\ writer' = writer
      BY <1>1 DEF Load, At
    <3>2. writer[p] = "none" /\ proc[p].via = None /\ ~proc[p].command
      BY <3>1, OwnParts DEF Coherent, At, Looping, Cleanup
    <3>3. QED
      BY <2>2, <3>1, <3>2 DEF Coherent, At
  <2>4. p \notin Tunnelled
    BY DEF Load, Tunnelled, Bound, At, Looping, Cleanup
  <2>5. Processes'
    BY <1>1, <2>1, <2>2, <2>3, <2>4, StepMoves
  <2>6. QED
    BY <1>1, <2>5, TypeParts DEF Quiet, Shared
<1>2. QED
  BY <1>0, <1>1 DEF Load

LEMMA KeyReadMoves ==
  ASSUME TypeOK, NEW p \in Proc, KeyRead(p), At(p, {"key", "fill"})
  PROVE  Processes' /\ status' \in {"nodir", "missing", "written"} /\ wanted' = wanted
<1>1. CASE proc[p].command
  BY <1>1, EndMoves DEF KeyRead
<1>2. CASE ~proc[p].command
  <2>1. proc'[p] = [proc[p] EXCEPT !.at = "tun"]
        /\ proc' = [proc EXCEPT ![p] = proc'[p]]
        /\ UNCHANGED <<tun, status, writer>>
    BY <1>2, TypeParts DEF KeyRead, Goto, Processes
  <2>2. proc'[p] \in Memory
    BY <2>1, OwnParts DEF Memory, Step, Startup
  <2>3. Coherent(p)'
    BY <1>2, <2>1, OwnParts DEF Coherent, Memory, At, Looping, Cleanup
  <2>4. p \notin Tunnelled
    BY DEF Tunnelled, Bound, At, Looping, Cleanup
  <2>5. QED
    BY <2>1, <2>2, <2>3, <2>4, StepMoves, TypeParts DEF KeyRead, Shared
<1>3. QED
  BY <1>1, <1>2 DEF KeyRead

LEMMA LoadOrGenerateKeyType ==
  ASSUME TypeOK, NEW p \in Proc, LoadOrGenerateKey(p), Quiet
  PROVE  TypeOK'
<1>0. At(p, {"key"}) /\ At(p, {"key", "fill"})
  BY DEF LoadOrGenerateKey, At
<1>1. CASE KeyRead(p) /\ UNCHANGED <<key, rules>>
  BY <1>0, <1>1, KeyReadMoves, TypeParts DEF Quiet, Shared
<1>2. CASE Fail(p)
  BY <1>2, FailType DEF Quiet
<1>3. CASE /\ key' = "torn" /\ Goto(p, "fill")
           /\ UNCHANGED <<tun, rules, status, writer, wanted>>
  <2>1. proc'[p] = [proc[p] EXCEPT !.at = "fill"] /\ proc' = [proc EXCEPT ![p] = proc'[p]]
    BY <1>3, TypeParts DEF Goto, Processes
  <2>2. proc'[p] \in Memory
    BY <2>1, OwnParts DEF Memory, Step, Startup
  <2>3. Coherent(p)'
    BY <1>0, <1>3, <2>1, OwnParts DEF Coherent, Memory, At, Looping, Cleanup
  <2>4. p \notin Tunnelled
    BY <1>0 DEF Tunnelled, Bound, At, Looping, Cleanup
  <2>5. QED
    BY <1>3, <2>1, <2>2, <2>3, <2>4, StepMoves, TypeParts DEF Quiet, Shared
<1>4. QED
  BY <1>1, <1>2, <1>3 DEF LoadOrGenerateKey

LEMMA FillKeyType ==
  ASSUME TypeOK, NEW p \in Proc, FillKey(p), Quiet
  PROVE  TypeOK'
<1>1. At(p, {"key", "fill"})
  BY DEF FillKey, At
<1>2. QED
  BY <1>1, KeyReadMoves, TypeParts DEF FillKey, Quiet, Shared

LEMMA CreateTunType ==
  ASSUME TypeOK, NEW p \in Proc, CreateTun(p), Quiet
  PROVE  TypeOK'
<1>1. CASE Fail(p)
  BY <1>1, FailType DEF Quiet
<1>2. CASE /\ tun' = p /\ Goto(p, "bind")
           /\ UNCHANGED <<key, rules, status, writer, wanted>>
  <2>1. proc'[p] = [proc[p] EXCEPT !.at = "bind"] /\ Moves(p)
    BY <1>2, TypeParts DEF Goto, Processes, Moves
  <2>2. proc'[p] \in Memory
    BY <2>1, OwnParts DEF Memory, Step, Startup
  <2>3. Coherent(p)'
    BY <1>2, <2>1, OwnParts DEF CreateTun, Coherent, Memory, At, Looping, Cleanup
  <2>4. p \in Tunnelled'
    BY <2>1, OwnParts DEF Tunnelled, At, Memory
  <2>5. QED
    BY <1>2, <2>1, <2>2, <2>3, <2>4, OwnParts, OneMoves, TypeParts DEF Quiet, Shared
<1>3. QED
  BY <1>1, <1>2 DEF CreateTun

\* The gateway is set up for the interface found, or not at all (enable_gateway).
LEMMA ToGatewayMoves ==
  ASSUME TypeOK, NEW p \in Proc, NEW step \in {"enable", "disable"},
         NEW otherwise \in {"sigterm", "unlink"},
         ToGateway(p, step, otherwise), UNCHANGED <<tun, writer>>,
         ~proc[p].command, writer[p] # "none" => step = "disable" /\ otherwise = "unlink"
  PROVE  Processes'
<1>1. proc'[p] = [proc[p] EXCEPT !.at = IF ext = None THEN otherwise ELSE step, !.via = ext]
      /\ proc' = [proc EXCEPT ![p] = proc'[p]]
  BY TypeParts DEF ToGateway, Processes
<1>2. proc'[p] \in Memory
  BY <1>1, OwnParts, TypeParts DEF Memory, Step, Startup, Cleanup, Shared
<1>3. Coherent(p)'
  BY <1>1, OwnParts DEF Coherent, Memory, At, Looping, Cleanup
<1>4. p \in Tunnelled'
  BY <1>1, OwnParts DEF Tunnelled, Bound, At, Memory, Cleanup
<1>5. QED
  BY <1>1, <1>2, <1>3, <1>4, StepMoves

LEMMA BindType ==
  ASSUME TypeOK, NEW p \in Proc, Bind(p), Quiet
  PROVE  TypeOK'
<1>1. CASE Fail(p)
  BY <1>1, FailType DEF Quiet
<1>2. CASE /\ ToGateway(p, "enable", "sigterm")
           /\ UNCHANGED <<key, tun, rules, status, writer, wanted>>
  <2>1. ~proc[p].command /\ writer[p] = "none"
    BY OwnParts DEF Bind, Coherent, At, Looping, Cleanup
  <2>2. QED
    BY <1>2, <2>1, ToGatewayMoves, TypeParts DEF Quiet, Shared
<1>3. QED
  BY <1>1, <1>2 DEF Bind

LEMMA LeaveLoopType ==
  ASSUME TypeOK, NEW p \in Proc, LeaveLoop(p), Quiet
  PROVE  TypeOK'
<1>1. ~proc[p].command
  BY OwnParts DEF LeaveLoop, Coherent, At
<1>2. QED
  BY <1>1, ToGatewayMoves, TypeParts DEF LeaveLoop, Quiet, Shared

\* One iptables command: the rule next in line, for the interface found.
LEMMA EachRuleMoves ==
  ASSUME TypeOK, NEW p \in Proc, At(p, {"enable", "disable"}),
         NEW then \in {"sigterm", "unlink"}, NEW n \in Nat,
         writer[p] # "none" => then = "unlink",
         EachRule(p, then, n), UNCHANGED <<tun, writer>>
  PROVE  Processes' /\ rules' \in [Iface -> [Rule -> Nat]]
<1>1. proc[p].via \in Iface /\ proc[p].next \in Rule /\ ~proc[p].command
  BY OwnParts DEF Coherent, Memory, At
<1>2. rules' \in [Iface -> [Rule -> Nat]]
  BY <1>1, TypeParts DEF EachRule, Shared
<1>3. proc'[p] = (IF proc[p].next = 3
                  THEN [proc[p] EXCEPT !.at = then, !.via = None, !.next = 1]
                  ELSE [proc[p] EXCEPT !.next = proc[p].next + 1])
      /\ proc' = [proc EXCEPT ![p] = proc'[p]]
  BY TypeParts DEF EachRule, Processes
<1>4. proc'[p] \in Memory
  <2>1. CASE proc[p].next = 3
    <3>1. proc'[p] = [proc[p] EXCEPT !.at = then, !.via = None, !.next = 1]
      BY <1>3, <2>1
    <3>2. then \in Step /\ 1 \in Rule
      BY DEF Step, Startup, Cleanup, Rule
    <3>3. proc[p] \in Memory
      BY OwnParts
    <3>4. [proc[p] EXCEPT !.at = then, !.via = None, !.next = 1] \in Memory
      BY <3>2, <3>3, AtAndRule
    <3>5. QED
      BY <3>1, <3>4, Zenon
  <2>2. CASE proc[p].next # 3
    <3>1. proc'[p] = [proc[p] EXCEPT !.next = proc[p].next + 1]
      BY <1>3, <2>2
    <3>2. proc[p].next + 1 \in Rule
      BY <1>1, <2>2 DEF Rule
    <3>3. QED
      BY <3>1, <3>2, OwnParts DEF Memory
  <2>3. QED
    BY <2>1, <2>2
<1>5. Coherent(p)'
  BY <1>1, <1>3, OwnParts DEF Coherent, Memory, At, Looping, Cleanup
<1>6. p \in Tunnelled'
  <2>1. proc'[p].at \in {"enable", "sigterm", "disable", "unlink"}
    <3>1. proc[p].at \in {"enable", "disable"} /\ proc[p] \in Memory
      BY OwnParts DEF At
    <3>2. QED
      BY <1>3, <3>1 DEF Memory
  <2>2. QED
    BY <2>1 DEF Tunnelled, Bound, At, Cleanup
<1>7. QED
  BY <1>2, <1>3, <1>4, <1>5, <1>6, StepMoves

LEMMA EnableGatewayType ==
  ASSUME TypeOK, NEW p \in Proc, EnableGateway(p), Quiet
  PROVE  TypeOK'
<1>1. At(p, {"enable", "disable"}) /\ writer[p] = "none"
  BY OwnParts DEF EnableGateway, Coherent, At, Looping, Cleanup
<1>2. Copies(p) + 1 \in Nat
  BY <1>1, OwnParts, TypeParts DEF Copies, Coherent, Memory, Shared
<1>3. Processes' /\ rules' \in [Iface -> [Rule -> Nat]]
  BY <1>1, <1>2, EachRuleMoves DEF EnableGateway
<1>4. QED
  BY <1>3, TypeParts DEF EnableGateway, Quiet, Shared

LEMMA DisableGatewayType ==
  ASSUME TypeOK, NEW p \in Proc, DisableGateway(p), Quiet
  PROVE  TypeOK'
<1>1. At(p, {"enable", "disable"})
  BY DEF DisableGateway, At
<1>2. (IF Copies(p) = 0 THEN 0 ELSE Copies(p) - 1) \in Nat
  BY <1>1, OwnParts, TypeParts DEF Copies, Coherent, Memory, Shared
<1>3. Processes' /\ rules' \in [Iface -> [Rule -> Nat]]
  BY <1>1, <1>2, EachRuleMoves DEF DisableGateway
<1>4. QED
  BY <1>3, TypeParts DEF DisableGateway, Quiet, Shared

LEMMA RegisterHandlersType ==
  ASSUME TypeOK, NEW p \in Proc, RegisterHandlers(p), Quiet
  PROVE  TypeOK'
<1>1. PICK step \in {"running", "sighup"} : Goto(p, step)
  BY DEF RegisterHandlers
<1>2. proc'[p] = [proc[p] EXCEPT !.at = step] /\ proc' = [proc EXCEPT ![p] = proc'[p]]
  BY <1>1, TypeParts DEF Goto, Processes
<1>3. proc'[p] \in Memory
  BY <1>2, OwnParts DEF Memory, Step, Startup
<1>4. Coherent(p)'
  BY <1>2, OwnParts DEF RegisterHandlers, Coherent, Memory, At, Looping, Cleanup
<1>5. p \in Tunnelled'
  BY <1>2, OwnParts DEF Tunnelled, Bound, At, Memory
<1>6. Processes'
  BY <1>2, <1>3, <1>4, <1>5, StepMoves DEF RegisterHandlers
<1>7. QED
  BY <1>6, TypeParts DEF RegisterHandlers, Quiet, Shared

LEMMA EnterLoopType ==
  ASSUME TypeOK, NEW p \in Proc, EnterLoop(p), Quiet
  PROVE  TypeOK'
<1>1. proc'[p] = [proc[p] EXCEPT !.at = "loop"] /\ writer'[p] = "test" /\ Moves(p)
  BY TypeParts DEF EnterLoop, Goto, Processes, Moves
<1>2. proc'[p] \in Memory
  BY <1>1, OwnParts DEF Memory, Step, Looping
<1>3. Coherent(p)'
  BY <1>1, OwnParts DEF EnterLoop, Coherent, Memory, At, Looping
<1>4. p \in Tunnelled'
  BY <1>1, OwnParts DEF Tunnelled, Bound, At, Memory, Looping
<1>5. Processes'
  BY <1>1, <1>2, <1>3, <1>4, OneMoves DEF WriterState
<1>6. QED
  BY <1>5, TypeParts DEF EnterLoop, Quiet, Shared

\* A step of the main loop, or of the end of run_daemon.
LEMMA LoopMoves ==
  ASSUME TypeOK, NEW p \in Proc, At(p, {"loop", "reload", "apply", "unlink", "return"}),
         proc' = [proc EXCEPT ![p] = proc'[p]], UNCHANGED <<tun, writer>>,
         proc'[p] \in Memory,
         proc'[p].at \in {"loop", "reload", "apply", "unlink", "return"},
         proc'[p].command = proc[p].command, proc'[p].via = proc[p].via
  PROVE  Processes'
<1>1. Coherent(p)'
  BY OwnParts DEF Coherent, At, Looping, Cleanup
<1>2. p \in Tunnelled'
  BY DEF Tunnelled, Bound, At, Looping, Cleanup
<1>3. QED
  BY <1>1, <1>2, StepMoves

LEMMA TakeReloadFlagType ==
  ASSUME TypeOK, NEW p \in Proc, NEW packet \in BOOLEAN, TakeReloadFlag(p, packet), Quiet
  PROVE  TypeOK'
<1>1. proc'[p] = [proc[p] EXCEPT !.at = "reload", !.hup = FALSE]
      /\ proc' = [proc EXCEPT ![p] = proc'[p]]
  BY TypeParts DEF TakeReloadFlag, Processes
<1>2. /\ proc'[p] \in Memory /\ proc'[p].at = "reload"
      /\ proc'[p].command = proc[p].command /\ proc'[p].via = proc[p].via
  <2>1. "reload" \in Step
    BY DEF Step, Looping
  <2>2. proc[p] \in Memory
    BY OwnParts
  <2>3. LET m == [proc[p] EXCEPT !.at = "reload", !.hup = FALSE]
        IN  m \in Memory /\ m.at = "reload" /\ m.command = proc[p].command /\ m.via = proc[p].via
    BY <2>1, <2>2, AtAndFlag
  <2>4. QED
    BY <1>1, <2>3, Zenon
<1>3. At(p, {"loop", "reload", "apply", "unlink", "return"}) /\ UNCHANGED <<tun, writer>>
  BY DEF TakeReloadFlag, At
<1>4. Processes'
  BY <1>1, <1>2, <1>3, LoopMoves
<1>5. QED
  BY <1>4, TypeParts DEF TakeReloadFlag, Quiet, Shared

LEMMA ReloadConfigType ==
  ASSUME TypeOK, NEW p \in Proc, ReloadConfig(p), Quiet
  PROVE  TypeOK'
<1>1. /\ proc'[p] = (IF edited \in Readable THEN [proc[p] EXCEPT !.at = "apply", !.loaded = edited]
                      ELSE [proc[p] EXCEPT !.at = "loop"])
      /\ proc' = [proc EXCEPT ![p] = proc'[p]]
  BY TypeParts DEF ReloadConfig, Processes
<1>2. /\ proc'[p] \in Memory /\ proc'[p].at \in {"apply", "loop"}
      /\ proc'[p].command = proc[p].command /\ proc'[p].via = proc[p].via
  BY <1>1, OwnParts, TypeParts DEF Memory, Step, Looping, Shared
<1>3. At(p, {"loop", "reload", "apply", "unlink", "return"}) /\ UNCHANGED <<tun, writer>>
  BY DEF ReloadConfig, At
<1>4. Processes'
  BY <1>1, <1>2, <1>3, LoopMoves
<1>5. QED
  BY <1>4, TypeParts DEF ReloadConfig, Quiet, Shared

LEMMA FinishReloadType ==
  ASSUME TypeOK, NEW p \in Proc, FinishReload(p), Quiet
  PROVE  TypeOK'
<1>1. proc'[p] = [proc[p] EXCEPT !.at = "loop"] /\ proc' = [proc EXCEPT ![p] = proc'[p]]
  BY TypeParts DEF FinishReload, Goto, Processes
<1>2. /\ proc'[p] \in Memory /\ proc'[p].at = "loop"
      /\ proc'[p].command = proc[p].command /\ proc'[p].via = proc[p].via
  BY <1>1, OwnParts DEF Memory, Step, Looping
<1>3. At(p, {"loop", "reload", "apply", "unlink", "return"}) /\ UNCHANGED <<tun, writer>>
  BY DEF FinishReload, At
<1>4. Processes'
  BY <1>1, <1>2, <1>3, LoopMoves
<1>5. QED
  BY <1>4, TypeParts DEF FinishReload, Quiet, Shared

LEMMA RemoveStatusType ==
  ASSUME TypeOK, NEW p \in Proc, RemoveStatus(p), Quiet
  PROVE  TypeOK'
<1>1. proc'[p] = [proc[p] EXCEPT !.at = "return"] /\ proc' = [proc EXCEPT ![p] = proc'[p]]
  BY TypeParts DEF RemoveStatus, Goto, Processes
<1>2. /\ proc'[p] \in Memory /\ proc'[p].at = "return"
      /\ proc'[p].command = proc[p].command /\ proc'[p].via = proc[p].via
  BY <1>1, OwnParts DEF Memory, Step, Cleanup
<1>3. At(p, {"loop", "reload", "apply", "unlink", "return"}) /\ UNCHANGED <<tun, writer>>
  BY DEF RemoveStatus, At
<1>4. Processes'
  BY <1>1, <1>2, <1>3, LoopMoves
<1>5. QED
  BY <1>4, TypeParts DEF RemoveStatus, Quiet, Shared

LEMMA ReturnType ==
  ASSUME TypeOK, NEW p \in Proc, Return(p), Quiet
  PROVE  TypeOK'
  BY EndMoves, TypeParts DEF Return, Clean, Quiet, Shared

LEMMA WriteStatusType ==
  ASSUME TypeOK, NEW p \in Proc, WriteStatus(p), Quiet
  PROVE  TypeOK'
<1>1. /\ Moves(p) /\ proc'[p] = proc[p] /\ tun' = tun
      /\ writer'[p] \in WriterState /\ writer[p] # "none"
      /\ status' \in {"nodir", "missing", "written"}
  BY TypeParts DEF WriteStatus, Processes, Moves, Shared, WriterState
<1>2. Coherent(p)' /\ (p \in Tunnelled => p \in Tunnelled')
  BY <1>1, OwnParts DEF Coherent, At, Tunnelled, Bound
<1>3. Processes'
  BY <1>1, <1>2, OwnParts, OneMoves
<1>4. QED
  BY <1>1, <1>3, TypeParts DEF WriteStatus, Quiet, Shared

LEMMA MainThreadType ==
  ASSUME TypeOK, NEW p \in Proc, MainThread(p), Quiet
  PROVE  TypeOK'
  BY LoadType, LoadOrGenerateKeyType, FillKeyType, CreateTunType, BindType, EnableGatewayType,
     RegisterHandlersType, EnterLoopType, TakeReloadFlagType, ReloadConfigType, FinishReloadType,
     LeaveLoopType, DisableGatewayType, RemoveStatusType, ReturnType
  DEF MainThread

-----------------------------------------------------------------------------
(* Signals, systemd, the operator and the kernel. *)

LEMMA HangupType ==
  ASSUME TypeOK, NEW p \in Proc, Hangup(p)
  PROVE  TypeOK'
<1>1. CASE Die(p) /\ Clean(p)
  BY <1>1, DieType, TypeParts DEF Clean, Shared
<1>2. CASE /\ At(p, Looping \cup Cleanup)
           /\ proc' = [proc EXCEPT ![p].hup = TRUE, ![p].asked = edited]
           /\ UNCHANGED <<key, tun, rules, ext, status, writer, wanted, edited, upsets>>
  <2>1. proc'[p] = [proc[p] EXCEPT !.hup = TRUE, !.asked = edited]
        /\ proc' = [proc EXCEPT ![p] = proc'[p]]
    BY <1>2, TypeParts DEF Processes
  <2>2. proc'[p] \in Memory
    BY <2>1, OwnParts, TypeParts DEF Memory, Shared
  <2>3. UNCHANGED <<tun, writer>>
    BY <1>2
  <2>4. /\ proc'[p].at = proc[p].at /\ proc'[p].command = proc[p].command
        /\ proc'[p].via = proc[p].via
    BY <2>1, OwnParts DEF Memory
  <2>5. Coherent(p)' /\ (p \in Tunnelled => p \in Tunnelled')
    BY <1>2, <2>3, <2>4, OwnParts DEF Coherent, At, Tunnelled, Bound, Looping, Cleanup
  <2>6. Processes'
    BY <2>1, <2>2, <2>3, <2>5, StepMoves
  <2>7. QED
    BY <1>2, <2>6, TypeParts DEF Shared
<1>3. QED
  BY <1>1, <1>2 DEF Hangup

LEMMA TerminateType ==
  ASSUME TypeOK, NEW p \in Proc, Terminate(p), wanted' \in BOOLEAN
  PROVE  TypeOK'
<1>1. CASE Die(p)
  BY <1>1, DieType
<1>2. CASE UNCHANGED <<proc, key, tun, rules, ext, status, writer, edited, upsets>>
  BY <1>2, TypeParts DEF Processes, Shared, Coherent, At, Tunnelled, Bound
<1>3. CASE /\ At(p, {"sighup"} \cup Looping \cup Cleanup)
           /\ proc' = [proc EXCEPT ![p].run = FALSE]
           /\ UNCHANGED <<key, tun, rules, ext, status, writer, edited, upsets>>
  <2>1. proc'[p] = [proc[p] EXCEPT !.run = FALSE] /\ proc' = [proc EXCEPT ![p] = proc'[p]]
    BY <1>3, TypeParts DEF Processes
  <2>2. proc'[p] \in Memory
    BY <2>1, OwnParts DEF Memory
  <2>3. Coherent(p)' /\ (p \in Tunnelled => p \in Tunnelled')
    BY <1>3, <2>1, OwnParts DEF Coherent, Memory, At, Tunnelled, Bound, Looping, Cleanup
  <2>4. UNCHANGED <<tun, writer>>
    BY <1>3
  <2>5. Processes'
    BY <2>1, <2>2, <2>3, <2>4, StepMoves
  <2>6. QED
    BY <1>3, <2>5, TypeParts DEF Shared
<1>4. QED
  BY <1>1, <1>2, <1>3 DEF Terminate

\* A process that starts has nothing yet.
LEMMA StartMoves ==
  ASSUME TypeOK, NEW p \in Proc, ~Up(p),
         proc' = [proc EXCEPT ![p] = proc'[p]], UNCHANGED <<tun, writer>>,
         proc'[p] \in Memory, proc'[p].via = None,
         proc'[p].at = "key" \/ (proc'[p].at = "load" /\ ~proc'[p].command)
  PROVE  Processes'
<1>1. writer[p] = "none" /\ p \notin Tunnelled
  BY OwnParts DEF Up, Coherent, At, Looping, Cleanup, Tunnelled, Bound
<1>2. Coherent(p)'
  BY <1>1 DEF Coherent, At
<1>3. QED
  BY <1>1, <1>2, StepMoves

\* What a process that is not there has in its memory.
LEMMA GoneParts ==
  ASSUME TypeOK, NEW p \in Proc, ~Up(p)
  PROVE  proc[p] \in Memory /\ proc[p].via = None /\ ~proc[p].command
  BY OwnParts DEF Up, Coherent, At, Gone

LEMMA StartUnitType ==
  ASSUME TypeOK, StartUnit
  PROVE  TypeOK'
<1>1. proc'[Unit] = [proc[Unit] EXCEPT !.at = "load"]
      /\ proc' = [proc EXCEPT ![Unit] = proc'[Unit]]
  BY UnitAssumption, TypeParts DEF StartUnit, Goto, Processes
<1>2. proc[Unit] \in Memory /\ proc[Unit].via = None /\ ~proc[Unit].command
  BY UnitAssumption, GoneParts DEF StartUnit
<1>3. /\ proc'[Unit] \in Memory /\ proc'[Unit].via = None
      /\ proc'[Unit].at = "load" /\ ~proc'[Unit].command
  BY <1>1, <1>2 DEF Memory, Step, Startup
<1>4. UNCHANGED <<tun, writer>> /\ ~Up(Unit)
  BY DEF StartUnit
<1>5. Processes'
  BY <1>1, <1>3, <1>4, UnitAssumption, StartMoves
<1>6. QED
  BY <1>5, TypeParts DEF StartUnit, Shared

LEMMA ByHandType ==
  ASSUME TypeOK, NEW p \in Proc, NEW command \in BOOLEAN, ByHand(p, command)
  PROVE  TypeOK'
<1>1. proc[p] \in Memory /\ proc[p].via = None
  BY GoneParts DEF ByHand
<1>2. "load" \in Step /\ "key" \in Step
  BY DEF Step, Startup
<1>3. /\ UNCHANGED <<tun, writer>> /\ ~Up(p)
      /\ proc' = [proc EXCEPT ![p] = proc'[p]]
  BY TypeParts DEF ByHand, Processes
<1>4. ASSUME command = TRUE PROVE Processes'
  <2>1. proc'[p] = [proc[p] EXCEPT !.at = "key", !.command = TRUE]
    BY <1>4, TypeParts DEF ByHand, Processes
  <2>2. LET m == [proc[p] EXCEPT !.at = "key", !.command = TRUE]
        IN  m \in Memory /\ m.at = "key" /\ m.via = proc[p].via
    BY <1>1, <1>2, AtAndCommand
  <2>3. proc'[p] \in Memory /\ proc'[p].at = "key" /\ proc'[p].via = None
    BY <1>1, <2>1, <2>2, Zenon
  <2>4. QED
    BY <1>3, <2>3, StartMoves
<1>5. ASSUME command = FALSE PROVE Processes'
  <2>1. proc'[p] = [proc[p] EXCEPT !.at = "load", !.command = FALSE]
    BY <1>5, TypeParts DEF ByHand, Processes
  <2>2. LET m == [proc[p] EXCEPT !.at = "load", !.command = FALSE]
        IN  m \in Memory /\ m.at = "load" /\ ~m.command /\ m.via = proc[p].via
    BY <1>1, <1>2, AtAndCommand
  <2>3. /\ proc'[p] \in Memory /\ proc'[p].at = "load"
        /\ ~proc'[p].command /\ proc'[p].via = None
    BY <1>1, <2>1, <2>2, Zenon
  <2>4. QED
    BY <1>3, <2>3, StartMoves
<1>6. QED
  BY <1>4, <1>5, TypeParts DEF ByHand, Shared

\* The device may disappear under its daemon, the default route move.
LEMMA SurroundingsType ==
  ASSUME TypeOK, UNCHANGED <<proc, key, rules, status, writer>>,
         tun' \in {tun, None}, ext' \in Iface \cup {None}, wanted' \in BOOLEAN,
         edited' \in 0 .. MaxEdits, upsets' \in 0 .. MaxUpsets
  PROVE  TypeOK'
<1>1. Processes'
  BY TypeParts DEF Processes, Coherent, At, Tunnelled, Bound
<1>2. QED
  BY <1>1, TypeParts DEF Shared

LEMMA StopUnitType ==
  ASSUME TypeOK, StopUnit
  PROVE  TypeOK'
<1>1. wanted' \in BOOLEAN
  BY DEF StopUnit
<1>2. CASE Terminate(Unit)
  BY <1>1, <1>2, UnitAssumption, TerminateType
<1>3. CASE UNCHANGED <<proc, key, tun, rules, ext, status, writer, edited, upsets>>
  BY <1>1, <1>3, SurroundingsType, TypeParts DEF Shared
<1>4. QED
  BY <1>2, <1>3 DEF StopUnit

LEMMA TypeStep == TypeOK /\ [Next]_vars => TypeOK'
<1> SUFFICES ASSUME TypeOK, [Next]_vars PROVE TypeOK'
  OBVIOUS
<1>0. Shared
  BY TypeParts
<1>1. ASSUME NEW p \in Proc, MainThread(p) \/ TakeReloadFlag(p, TRUE) \/ WriteStatus(p), Quiet
      PROVE  TypeOK'
  BY <1>1, MainThreadType, TakeReloadFlagType, WriteStatusType
<1>2. ASSUME NEW p \in Proc, Stop(p)
      PROVE  TypeOK'
  <2>1. wanted' \in BOOLEAN
    BY <1>0, <1>2 DEF Stop, Clean, Shared
  <2>2. QED
    BY <1>2, <2>1, TerminateType DEF Stop
<1>3. ASSUME NEW p \in Proc, Kill(p)
      PROVE  TypeOK'
  BY <1>0, <1>3, DieType DEF Kill, Shared
<1>4. ASSUME NEW p \in Proc, NEW command \in BOOLEAN, ByHand(p, command)
      PROVE  TypeOK'
  BY <1>4, ByHandType
<1>5. CASE Purge
  BY <1>5, HangupType DEF Purge, SignalFirst
<1>6. CASE WantUnit
  BY <1>0, <1>6, SurroundingsType DEF WantUnit, Shared
<1>7. CASE Edit
  <2>1. edited' \in 0 .. MaxEdits
    BY <1>0, <1>7, BoundAssumption DEF Edit, Shared
  <2>2. QED
    BY <1>0, <1>7, <2>1, SurroundingsType DEF Edit, Shared
<1>8. ASSUME NEW i \in Iface \cup {None}, MoveDefaultRoute(i)
      PROVE  TypeOK'
  <2>1. upsets' \in 0 .. MaxUpsets
    BY <1>0, <1>8, BoundAssumption DEF MoveDefaultRoute, Shared
  <2>2. QED
    BY <1>0, <1>8, <2>1, SurroundingsType DEF MoveDefaultRoute, Shared
<1>9. CASE DeleteTun
  <2>1. upsets' \in 0 .. MaxUpsets
    BY <1>0, <1>9, BoundAssumption DEF DeleteTun, Shared
  <2>2. QED
    BY <1>0, <1>9, <2>1, SurroundingsType DEF DeleteTun, Shared
<1>10. CASE UNCHANGED vars
  BY <1>0, <1>10, SurroundingsType DEF vars, Shared
<1>11. CASE \E p \in Proc :
         (MainThread(p) \/ TakeReloadFlag(p, TRUE) \/ WriteStatus(p)) /\ UNCHANGED <<ext, edited, upsets>>
  BY <1>1, <1>11 DEF Quiet
<1>12. QED
  BY <1>2, <1>3, <1>4, <1>5, <1>6, <1>7, <1>8, <1>9, <1>10, <1>11, StartUnitType, StopUnitType
  DEF Next

LEMMA InitType == Init => TypeOK
<1> SUFFICES ASSUME Init PROVE TypeOK
  OBVIOUS
<1>1. \A p \in Proc : proc[p] = Gone /\ writer[p] = "none"
  BY DEF Init
<1>2. ASSUME NEW p \in Proc PROVE Coherent(p)
  <2>1. Gone.at = "off" /\ ~Gone.command /\ Gone.via = None
    BY DEF Gone
  <2>2. QED
    BY <1>1, <2>1 DEF Coherent, At
<1>3. Processes
  BY <1>2, GoneType DEF Init, Processes, WriterState
<1>4. Shared
  <2>1. rules \in [Iface -> [Rule -> Nat]]
    BY DEF Init
  <2>2. edited \in 0 .. MaxEdits /\ upsets \in 0 .. MaxUpsets
    BY BoundAssumption DEF Init
  <2>3. QED
    BY <2>1, <2>2 DEF Init, Shared
<1>5. QED
  BY <1>3, <1>4, TypeParts

\* Types are kept by every step of any number of processes, by deaths, signals and
\* upsets; no process but one that holds a descriptor has the device.
THEOREM ServiceTypeCorrect == Spec => []TypeOK
  BY InitType, TypeStep, PTL DEF Spec

-----------------------------------------------------------------------------
(* Daemons and rules. *)

\* The steps at which a process has the socket; those at which it has all rules, if any
\* were added; those at which it has deleted them.
HasSocket == {"enable", "sigterm", "running", "sighup"} \cup Looping \cup Cleanup
Having == {"sigterm", "running", "sighup"} \cup Looping
Rid == {"unlink", "return"}

\* A daemon whose memory is m has a copy of rule r for the interface i still to add.
Adds(m, i, r) == m.at = "enable" /\ m.via = i /\ m.next <= r

Adding(i, r) == {p \in Proc : Adds(proc[p], i, r)}

\* A daemon with m in its memory and the default route at e is to delete a copy of rule r
\* for the interface i once it goes its way.
Deletes(m, e, i, r) ==
  \/ m.at = "enable" /\ m.via = i /\ e = i
  \/ m.at \in Having /\ e = i
  \/ m.at = "disable" /\ m.via = i /\ m.next <= r

\* The one that has its device answers for one copy; for those of all others, of the past
\* and of the present, there was an upset each.
Excess(i, r) ==
  IF \E p \in Proc : tun = p /\ Deletes(proc[p], ext, i, r) THEN 1 ELSE 0

Deviceless == Cardinality(Bound \ {tun}) <= upsets

\* The daemon in charge goes through the rules from the first one.
FromFirst == \A p \in Proc : ~At(p, {"enable", "disable"}) => proc[p].next = 1

RulesKept ==
  \A i \in Iface, r \in Rule : rules[i][r] + Cardinality(Adding(i, r)) <= upsets + Excess(i, r)

RulesInv == TypeOK /\ Deviceless /\ FromFirst /\ RulesKept
Kept == Deviceless' /\ FromFirst' /\ RulesKept'

LEMMA RuleTypes ==
  ASSUME TypeOK
  PROVE  /\ upsets \in Nat
         /\ \A i \in Iface, r \in Rule : rules[i][r] \in Nat
         /\ \A p \in Proc : /\ proc[p] \in Memory /\ proc[p].next \in Nat
                            /\ p \in Bound <=> proc[p].at \in HasSocket
         /\ proc \in [Proc -> Memory]
  BY TypeParts, BoundAssumption DEF Processes, Shared, Memory, Rule, Bound, At, HasSocket

\* Sets of processes are finite, and a smaller one has no more of them.
LEMMA Counted ==
  ASSUME NEW S, S \subseteq Proc
  PROVE  Cardinality(S) \in Nat
  BY FS_Subset, FS_CardinalityType, UnitAssumption

LEMMA CountedLess ==
  ASSUME NEW T, T \subseteq Proc, NEW S, S \subseteq T
  PROVE  Cardinality(S) <= Cardinality(T) /\ Cardinality(S) \in Nat /\ Cardinality(T) \in Nat
<1>1. IsFiniteSet(T)
  BY FS_Subset, UnitAssumption
<1>2. QED
  BY <1>1, FS_Subset, Counted

LEMMA CountedMore ==
  ASSUME NEW T, T \subseteq Proc, NEW p \in Proc, NEW S, S \subseteq T \cup {p}
  PROVE  Cardinality(S) <= Cardinality(T) + 1 /\ Cardinality(S) \in Nat /\ Cardinality(T) \in Nat
<1>1. IsFiniteSet(T)
  BY FS_Subset, UnitAssumption
<1>2. Cardinality(T \cup {p}) <= Cardinality(T) + 1 /\ Cardinality(T \cup {p}) \in Nat
  BY <1>1, FS_AddElement, FS_CardinalityType
<1>3. Cardinality(S) <= Cardinality(T \cup {p})
  BY CountedLess
<1>4. QED
  BY <1>2, <1>3, Counted

LEMMA AddingCounted ==
  ASSUME NEW i, NEW r
  PROVE  Cardinality(Adding(i, r)) \in Nat /\ Adding(i, r) \subseteq Proc
  BY Counted DEF Adding

LEMMA ExcessIs == \A i, r : Excess(i, r) \in {0, 1} /\ Excess(i, r)' \in {0, 1}
  BY DEF Excess

\* No rule changes, none is to be added more, and the upsets cover what is there no less.
LEMMA KeptWhere ==
  ASSUME RulesInv, UNCHANGED rules, upsets' \in Nat, FromFirst',
         Bound' \ {tun'} \subseteq Bound \ {tun}, upsets <= upsets',
         \A i \in Iface, r \in Rule :
           /\ Adding(i, r)' \subseteq Adding(i, r)
           /\ upsets + Excess(i, r) <= upsets' + Excess(i, r)'
  PROVE  Kept
<1>0. upsets \in Nat /\ \A i \in Iface, r \in Rule : rules[i][r] \in Nat
  BY RuleTypes DEF RulesInv
<1>1. Deviceless'
  <2>1. Bound \ {tun} \subseteq Proc
    BY DEF Bound
  <2>2. PICK S : S = Bound' \ {tun'}
    OBVIOUS
  <2>3. Cardinality(S) <= Cardinality(Bound \ {tun}) /\ Cardinality(S) \in Nat
        /\ Cardinality(Bound \ {tun}) \in Nat
    BY <2>1, <2>2, CountedLess
  <2>4. Cardinality(S) <= upsets'
    BY <1>0, <2>3 DEF RulesInv, Deviceless
  <2>5. QED
    BY <2>2, <2>4 DEF Deviceless
<1>2. ASSUME NEW i \in Iface, NEW r \in Rule
      PROVE  (rules[i][r] + Cardinality(Adding(i, r)) <= upsets + Excess(i, r))'
  <2>1. PICK S : S = Adding(i, r)'
    OBVIOUS
  <2>2. Cardinality(S) <= Cardinality(Adding(i, r)) /\ Cardinality(S) \in Nat
        /\ Cardinality(Adding(i, r)) \in Nat
    BY <2>1, CountedLess, AddingCounted
  <2>3. rules[i][r] + Cardinality(Adding(i, r)) <= upsets + Excess(i, r)
    BY DEF RulesInv, RulesKept
  <2>4. PICK e \in {0, 1} : e = Excess(i, r)'
    BY ExcessIs
  <2>5. rules'[i][r] + Cardinality(S) <= upsets' + e
    BY <1>0, <2>2, <2>3, <2>4, ExcessIs
  <2>6. QED
    BY <2>1, <2>4, <2>5
<1>3. QED
  BY <1>1, <1>2 DEF Kept, RulesKept

\* The same to rules.
SamePhase(m, n) ==
  /\ n.via = m.via /\ n.next = m.next
  /\ \/ n.at = m.at
     \/ n.at \in Having /\ m.at \in Having
     \/ n.at \in Rid /\ m.at \in Rid
     \/ n.at \notin HasSocket /\ m.at \notin HasSocket

\* One process goes on, with no more to add and no less to delete.
LEMMA OneKeeps ==
  ASSUME RulesInv, NEW p \in Proc, NEW n, proc' = [proc EXCEPT ![p] = n],
         UNCHANGED <<rules, ext, upsets>>, tun' = tun \/ (tun = None /\ tun' = p),
         n.at \in HasSocket => proc[p].at \in HasSocket,
         n.at \notin {"enable", "disable"} => n.next = 1,
         \A i \in Iface, r \in Rule :
           /\ Adds(n, i, r) => Adds(proc[p], i, r)
           /\ Deletes(proc[p], ext, i, r) => Deletes(n, ext, i, r)
  PROVE  Kept
<1>1. proc'[p] = n /\ (\A q \in Proc \ {p} : proc'[q] = proc[q]) /\ upsets \in Nat
  BY RuleTypes DEF RulesInv
<1>2. FromFirst'
  BY <1>1 DEF RulesInv, FromFirst, At
<1>3. Bound' \subseteq Bound
  BY <1>1 DEF Bound, At, HasSocket
<1>4. Bound' \ {tun'} \subseteq Bound \ {tun}
  BY <1>3, NoneAssumption DEF Bound
<1>5. ASSUME NEW i \in Iface, NEW r \in Rule
      PROVE  /\ Adding(i, r)' \subseteq Adding(i, r)
             /\ upsets + Excess(i, r) <= upsets' + Excess(i, r)'
  <2>1. Adding(i, r)' \subseteq Adding(i, r)
    BY <1>1 DEF Adding, Adds
  <2>2. ASSUME NEW q \in Proc, tun = q, Deletes(proc[q], ext, i, r)
        PROVE  tun' = q /\ Deletes(proc[q], ext, i, r)'
    <3>1. tun' = q
      BY <2>2, NoneAssumption
    <3>2. CASE q = p
      BY <1>1, <2>2, <3>1, <3>2 DEF Deletes
    <3>3. CASE q # p
      BY <1>1, <2>2, <3>1, <3>3 DEF Deletes
    <3>4. QED
      BY <3>1, <3>2, <3>3
  <2>3. Excess(i, r) = 1 => Excess(i, r)' = 1
    BY <2>2 DEF Excess
  <2>4. QED
    BY <1>1, <2>1, <2>3, ExcessIs
<1>6. QED
  BY <1>1, <1>2, <1>4, <1>5, KeptWhere

LEMMA OneInPhase ==
  ASSUME RulesInv, NEW p \in Proc, NEW n, proc' = [proc EXCEPT ![p] = n],
         UNCHANGED <<rules, ext, upsets>>, tun' = tun \/ (tun = None /\ tun' = p),
         SamePhase(proc[p], n)
  PROVE  Kept
<1>1. /\ "enable" \notin Having \cup Rid /\ "disable" \notin Having \cup Rid
      /\ \A at \in Having : at \notin Rid
      /\ Having \subseteq HasSocket /\ Rid \subseteq HasSocket
      /\ "enable" \in HasSocket /\ "disable" \in HasSocket
  BY DEF Having, Rid, Looping, HasSocket, Cleanup
<1>2. n.at \in HasSocket => proc[p].at \in HasSocket
  BY <1>1 DEF SamePhase
<1>3. n.at \notin {"enable", "disable"} => n.next = 1
  BY <1>1 DEF SamePhase, RulesInv, FromFirst, At
<1>4. \A i \in Iface, r \in Rule :
        /\ Adds(n, i, r) => Adds(proc[p], i, r)
        /\ Deletes(proc[p], ext, i, r) => Deletes(n, ext, i, r)
  BY <1>1 DEF SamePhase, Adds, Deletes
<1>5. QED
  BY <1>2, <1>3, <1>4, OneKeeps

\* A process ends: what it was to delete stays behind, unless there is nothing of it.
LEMMA EndKept ==
  ASSUME RulesInv, NEW p \in Proc, End(p), UNCHANGED <<rules, ext>>,
         \/ upsets' = upsets + 1
         \/ UNCHANGED upsets /\ \A i \in Iface, r \in Rule : ~Deletes(proc[p], ext, i, r)
  PROVE  Kept
<1>1. /\ proc'[p] = Gone /\ (\A q \in Proc \ {p} : proc'[q] = proc[q]) /\ upsets \in Nat
      /\ tun' = IF tun = p THEN None ELSE tun
  BY RuleTypes DEF RulesInv, End
<1>2. Gone.at = "off" /\ Gone.next = 1
  BY DEF Gone
<1>3. FromFirst'
  BY <1>1, <1>2 DEF RulesInv, FromFirst, At
<1>4. Bound' \subseteq Bound \ {p}
  BY <1>1, <1>2 DEF Bound, At, Looping, Cleanup
<1>5. Bound' \ {tun'} \subseteq Bound \ {tun}
  BY <1>1, <1>4
<1>6. ASSUME NEW i \in Iface, NEW r \in Rule
      PROVE  /\ Adding(i, r)' \subseteq Adding(i, r)
             /\ upsets + Excess(i, r) <= upsets' + Excess(i, r)'
  <2>1. Adding(i, r)' \subseteq Adding(i, r)
    BY <1>1, <1>2 DEF Adding, Adds
  <2>2. CASE upsets' = upsets + 1
    BY <1>1, <2>1, <2>2, ExcessIs
  <2>3. CASE UNCHANGED upsets /\ ~Deletes(proc[p], ext, i, r)
    <3>1. ASSUME NEW q \in Proc, tun = q, Deletes(proc[q], ext, i, r)
          PROVE  tun' = q /\ Deletes(proc[q], ext, i, r)'
      BY <1>1, <2>3, <3>1 DEF Deletes
    <3>2. Excess(i, r) = 1 => Excess(i, r)' = 1
      BY <3>1 DEF Excess
    <3>3. QED
      BY <1>1, <2>1, <2>3, <3>2, ExcessIs
  <2>4. QED
    BY <2>2, <2>3
<1>7. QED
  BY <1>1, <1>3, <1>5, <1>6, KeptWhere

LEMMA DieKept ==
  ASSUME RulesInv, NEW p \in Proc, Die(p)
  PROVE  Kept
  BY EndKept DEF Die

\* Before the socket a process has added nothing.
LEMMA FailKept ==
  ASSUME RulesInv, NEW p \in Proc, End(p), UNCHANGED <<rules, ext, upsets>>,
         proc[p].at \notin HasSocket \/ proc[p].at \in Rid
  PROVE  Kept
<1>1. proc[p].at \notin Having \cup {"enable", "disable"}
  BY DEF HasSocket, Having, Rid, Looping, Cleanup
<1>2. QED
  BY <1>1, EndKept DEF Deletes

LEMMA ReturnKept ==
  ASSUME RulesInv, NEW p \in Proc, Return(p), Quiet
  PROVE  Kept
<1>1. End(p) /\ UNCHANGED <<rules, ext, upsets>> /\ proc[p].at \in Rid
  BY DEF Return, Quiet, At, Rid
<1>2. QED
  BY <1>1, FailKept

\* The interface found: nothing is added yet, but it is to be, by the one with the device.
LEMMA BindKept ==
  ASSUME RulesInv, NEW p \in Proc, Bind(p), Quiet
  PROVE  Kept
<1>0. proc[p].at = "bind" /\ UNCHANGED <<ext, upsets, rules>>
  BY DEF Bind, At, Quiet, Fail
<1>1. CASE Fail(p)
  <2>1. End(p) /\ proc[p].at \notin HasSocket
    BY <1>0, <1>1 DEF Fail, HasSocket, Looping, Cleanup
  <2>2. QED
    BY <1>0, <2>1, FailKept
<1>2. CASE Configures(p) /\ ToGateway(p, "enable", "sigterm") /\ UNCHANGED tun
  <2>0. tun = p /\ UNCHANGED tun
    BY <1>2 DEF Configures
  <2>1. /\ proc[p] \in Memory /\ upsets \in Nat /\ proc[p].next = 1 /\ proc \in [Proc -> Memory]
        /\ \A i \in Iface, r \in Rule : rules[i][r] \in Nat
    BY <1>0, RuleTypes DEF RulesInv, FromFirst, At
  <2>2. PICK m : /\ m = [proc[p] EXCEPT !.at = IF ext = None THEN "sigterm" ELSE "enable",
                                        !.via = ext]
                 /\ proc' = [proc EXCEPT ![p] = m]
    BY <1>2 DEF ToGateway
  <2>3. /\ m.at = (IF ext = None THEN "sigterm" ELSE "enable") /\ m.via = ext
        /\ m.next = 1
    BY <2>1, <2>2 DEF Memory
  <2>4. proc'[p] = m /\ \A q \in Proc \ {p} : proc'[q] = proc[q]
    BY <2>1, <2>2
  <2>5. FromFirst'
    BY <2>3, <2>4 DEF RulesInv, FromFirst, At
  <2>6. Deviceless'
    <3>1. Bound' \ {tun'} = Bound \ {tun}
      BY <2>0, <2>4 DEF Bound, At
    <3>2. QED
      BY <1>0, <3>1 DEF RulesInv, Deviceless
  <2>7. ASSUME NEW i \in Iface, NEW r \in Rule
        PROVE  (rules[i][r] + Cardinality(Adding(i, r)) <= upsets + Excess(i, r))'
    <3>0. rules[i][r] + Cardinality(Adding(i, r)) <= upsets /\ i # None
      <4>1. ~Deletes(proc[p], ext, i, r)
        BY <1>0 DEF Deletes, Having, Looping
      <4>2. Excess(i, r) = 0
        BY <2>0, <4>1 DEF Excess
      <4>3. QED
        BY <2>1, <4>2, NoneAssumption DEF RulesInv, RulesKept
    <3>1. PICK S : S = Adding(i, r)'
      OBVIOUS
    <3>2. PICK e \in {0, 1} : e = Excess(i, r)'
      BY ExcessIs
    <3>3. CASE ext = i
      <4>1. S \subseteq Adding(i, r) \cup {p}
        BY <2>4, <3>1 DEF Adding, Adds
      <4>2. Cardinality(S) <= Cardinality(Adding(i, r)) + 1 /\ Cardinality(S) \in Nat
            /\ Cardinality(Adding(i, r)) \in Nat
        BY <4>1, AddingCounted, CountedMore
      <4>3. Deletes(proc[p], ext, i, r)'
        BY <1>0, <2>3, <2>4, <3>0, <3>3 DEF Deletes
      <4>4. e = 1
        BY <2>0, <3>2, <4>3 DEF Excess
      <4>5. rules'[i][r] + Cardinality(S) <= upsets' + e
        BY <1>0, <2>1, <3>0, <4>2, <4>4
      <4>6. QED
        BY <3>1, <3>2, <4>5
    <3>4. CASE ext # i
      <4>1. S \subseteq Adding(i, r)
        BY <2>3, <2>4, <3>1, <3>4 DEF Adding, Adds
      <4>2. Cardinality(S) <= Cardinality(Adding(i, r)) /\ Cardinality(S) \in Nat
            /\ Cardinality(Adding(i, r)) \in Nat
        BY <4>1, AddingCounted, CountedLess
      <4>3. rules'[i][r] + Cardinality(S) <= upsets' + e
        BY <1>0, <2>1, <3>0, <4>2
      <4>4. QED
        BY <3>1, <3>2, <4>3
    <3>5. QED
      BY <3>3, <3>4
  <2>8. QED
    BY <2>5, <2>6, <2>7 DEF Kept, RulesKept
<1>3. QED
  BY <1>1, <1>2 DEF Bind

\* The interface found anew: what is to be deleted there is still to be deleted.
LEMMA LeaveLoopKept ==
  ASSUME RulesInv, NEW p \in Proc, LeaveLoop(p), Quiet
  PROVE  Kept
<1>1. /\ proc[p].at = "loop" /\ proc[p].next = 1 /\ proc[p] \in Memory
      /\ UNCHANGED <<rules, ext, upsets, tun>>
  BY RuleTypes DEF LeaveLoop, Quiet, At, RulesInv, FromFirst
<1>2. PICK m : /\ m = [proc[p] EXCEPT !.at = IF ext = None THEN "unlink" ELSE "disable",
                                      !.via = ext]
               /\ proc' = [proc EXCEPT ![p] = m]
  BY DEF LeaveLoop, ToGateway
<1>3. /\ m.at = (IF ext = None THEN "unlink" ELSE "disable") /\ m.via = ext
      /\ m.next = 1
  BY <1>1, <1>2 DEF Memory
<1>4. ASSUME NEW i \in Iface, NEW r \in Rule
      PROVE  /\ Adds(m, i, r) => Adds(proc[p], i, r)
             /\ Deletes(proc[p], ext, i, r) => Deletes(m, ext, i, r)
  <2>1. i # None /\ 1 <= r
    BY NoneAssumption DEF Rule
  <2>2. QED
    BY <1>1, <1>3, <2>1 DEF Adds, Deletes
<1>5. proc[p].at \in HasSocket
  BY <1>1 DEF HasSocket, Looping
<1>6. QED
  BY <1>1, <1>2, <1>3, <1>4, <1>5, OneKeeps

\* One iptables command, and what the daemon goes on to.
LEMMA EachRuleGives ==
  ASSUME RulesInv, NEW p \in Proc, At(p, {"enable", "disable"}), NEW then, NEW n,
         EachRule(p, then, n)
  PROVE  /\ proc[p].via \in Iface /\ proc[p].next \in Rule
         /\ \A i \in Iface, r \in Rule :
              rules'[i][r] = IF i = proc[p].via /\ r = proc[p].next THEN n ELSE rules[i][r]
         /\ \E m : /\ proc' = [proc EXCEPT ![p] = m]
                   /\ proc[p].next = 3 => m.at = then /\ m.next = 1
                   /\ proc[p].next # 3 => /\ m.at = proc[p].at /\ m.via = proc[p].via
                                          /\ m.next = proc[p].next + 1
<1>1. /\ proc[p] \in Memory /\ proc[p].via \in Iface /\ proc[p].next \in Rule
      /\ proc \in [Proc -> Memory] /\ rules \in [Iface -> [Rule -> Nat]]
  BY OwnParts, TypeParts DEF RulesInv, Coherent, Memory, At, Processes, Shared
<1>2. \A i \in Iface, r \in Rule :
        rules'[i][r] = IF i = proc[p].via /\ r = proc[p].next THEN n ELSE rules[i][r]
  BY <1>1 DEF EachRule
<1>3. CASE proc[p].next = 3
  <2>1. PICK m : m = [proc[p] EXCEPT !.at = then, !.via = None, !.next = 1]
    OBVIOUS
  <2>2. proc' = [proc EXCEPT ![p] = m]
    BY <1>1, <1>3, <2>1 DEF EachRule
  <2>3. m.at = then /\ m.next = 1
    BY <1>1, <2>1 DEF Memory
  <2>4. QED
    BY <1>1, <1>2, <1>3, <2>2, <2>3
<1>4. CASE proc[p].next # 3
  <2>1. PICK m : m = [proc[p] EXCEPT !.next = proc[p].next + 1]
    OBVIOUS
  <2>2. proc' = [proc EXCEPT ![p] = m]
    BY <1>1, <1>4, <2>1 DEF EachRule
  <2>3. m.at = proc[p].at /\ m.via = proc[p].via /\ m.next = proc[p].next + 1
    BY <1>1, <2>1 DEF Memory
  <2>4. QED
    BY <1>1, <1>2, <1>4, <2>2, <2>3
<1>5. QED
  BY <1>3, <1>4

\* What is left to add, and to delete, when the rule next in line is done.
LEMMA RuleDone ==
  ASSUME NEW m, NEW n, NEW then, NEW e, m.next \in Rule,
         (m.at = "enable" /\ then = "sigterm") \/ (m.at = "disable" /\ then = "unlink"),
         m.next = 3 => n.at = then /\ n.next = 1,
         m.next # 3 => n.at = m.at /\ n.via = m.via /\ n.next = m.next + 1,
         NEW i \in Iface, NEW r \in Rule
  PROVE  /\ Adds(n, i, r) => Adds(m, i, r)
         /\ Adds(n, i, r) => ~(i = m.via /\ r = m.next)
         /\ Deletes(m, e, i, r) /\ (m.at = "enable" \/ ~(i = m.via /\ r = m.next))
              => Deletes(n, e, i, r)
<1>1. m.next \in 1 .. 3 /\ r \in 1 .. 3
  BY DEF Rule
<1>2. "sigterm" \in Having /\ "enable" \notin Having /\ "disable" \notin Having
  BY DEF Having, Looping
<1>3. CASE m.next = 3
  BY <1>1, <1>2, <1>3 DEF Adds, Deletes
<1>4. CASE m.next # 3
  BY <1>1, <1>2, <1>4 DEF Adds, Deletes
<1>5. QED
  BY <1>3, <1>4

\* The daemons there are and where they add what, when one is done with a rule.
LEMMA OneRule ==
  ASSUME RulesInv, NEW p \in Proc, NEW n, proc' = [proc EXCEPT ![p] = n],
         UNCHANGED <<ext, upsets, tun>>, proc[p].at \in HasSocket, n.at \in HasSocket,
         n.at \notin {"enable", "disable"} => n.next = 1
  PROVE  /\ Deviceless' /\ FromFirst'
         /\ proc'[p] = n /\ \A q \in Proc \ {p} : proc'[q] = proc[q]
<1>1. proc'[p] = n /\ \A q \in Proc \ {p} : proc'[q] = proc[q]
  BY RuleTypes DEF RulesInv
<1>2. FromFirst'
  BY <1>1 DEF RulesInv, FromFirst, At
<1>3. Bound' = Bound
  BY <1>1 DEF Bound, At, HasSocket
<1>4. QED
  BY <1>1, <1>2, <1>3 DEF RulesInv, Deviceless

\* A copy added is one no longer to be added.
LEMMA EnableKept ==
  ASSUME RulesInv, NEW p \in Proc, EnableGateway(p), Quiet
  PROVE  Kept
<1>1. /\ proc[p].at = "enable" /\ At(p, {"enable", "disable"}) /\ proc[p].at \in HasSocket
      /\ UNCHANGED <<ext, upsets, tun>>
  BY DEF EnableGateway, At, HasSocket, Quiet
<1>2. PICK c : c = Copies(p) + 1
  OBVIOUS
<1>3. EachRule(p, "sigterm", c)
  BY <1>2 DEF EnableGateway
<1>4. PICK n : /\ proc' = [proc EXCEPT ![p] = n]
               /\ proc[p].next = 3 => n.at = "sigterm" /\ n.next = 1
               /\ proc[p].next # 3 => /\ n.at = proc[p].at /\ n.via = proc[p].via
                                      /\ n.next = proc[p].next + 1
  BY <1>1, <1>3, EachRuleGives
<1>5. n.at \in HasSocket /\ (n.at \notin {"enable", "disable"} => n.next = 1)
  BY <1>1, <1>4 DEF HasSocket
<1>6. Deviceless' /\ FromFirst' /\ proc'[p] = n /\ \A q \in Proc \ {p} : proc'[q] = proc[q]
  BY <1>1, <1>4, <1>5, OneRule
<1>7. ASSUME NEW i \in Iface, NEW r \in Rule
      PROVE  (rules[i][r] + Cardinality(Adding(i, r)) <= upsets + Excess(i, r))'
  <2>0. /\ proc[p].via \in Iface /\ proc[p].next \in Rule
        /\ rules'[i][r] = IF i = proc[p].via /\ r = proc[p].next
                          THEN rules[i][r] + 1 ELSE rules[i][r]
    BY <1>1, <1>2, <1>3, EachRuleGives DEF Copies
  <2>1. /\ rules[i][r] \in Nat /\ upsets \in Nat
        /\ rules[i][r] + Cardinality(Adding(i, r)) <= upsets + Excess(i, r)
    BY RuleTypes DEF RulesInv, RulesKept
  <2>2. /\ Adds(n, i, r) => Adds(proc[p], i, r)
        /\ Adds(n, i, r) => ~(i = proc[p].via /\ r = proc[p].next)
        /\ Deletes(proc[p], ext, i, r) => Deletes(n, ext, i, r)
    BY <1>1, <1>4, <2>0, RuleDone
  <2>3. PICK S : S = Adding(i, r)'
    OBVIOUS
  <2>4. PICK e \in {0, 1} : e = Excess(i, r)'
    BY ExcessIs
  <2>5. Excess(i, r) <= e
    <3>1. ASSUME NEW q \in Proc, tun = q, Deletes(proc[q], ext, i, r)
          PROVE  tun' = q /\ Deletes(proc[q], ext, i, r)'
      <4>1. CASE q = p
        BY <1>1, <1>6, <2>2, <3>1, <4>1 DEF Deletes
      <4>2. CASE q # p
        BY <1>1, <1>6, <3>1, <4>2 DEF Deletes
      <4>3. QED
        BY <4>1, <4>2
    <3>2. Excess(i, r) = 1 => Excess(i, r)' = 1
      BY <3>1 DEF Excess
    <3>3. QED
      BY <2>4, <3>2, ExcessIs
  <2>6. Cardinality(Adding(i, r)) \in Nat /\ IsFiniteSet(Adding(i, r))
    BY AddingCounted, FS_Subset, UnitAssumption
  <2>7. rules'[i][r] + Cardinality(S) <= rules[i][r] + Cardinality(Adding(i, r))
        /\ Cardinality(S) \in Nat
    <3>1. CASE i = proc[p].via /\ r = proc[p].next
      <4>1. p \in Adding(i, r)
        <5>1. proc[p].next <= proc[p].next
          BY RuleTypes DEF RulesInv
        <5>2. QED
          BY <1>1, <3>1, <5>1 DEF Adding, Adds
      <4>2. S \subseteq Adding(i, r) \ {p}
        BY <1>6, <2>2, <2>3, <3>1 DEF Adding, Adds
      <4>3. Cardinality(Adding(i, r) \ {p}) = Cardinality(Adding(i, r)) - 1
        BY <2>6, <4>1, FS_RemoveElement
      <4>4. Cardinality(S) <= Cardinality(Adding(i, r) \ {p}) /\ Cardinality(S) \in Nat
        BY <4>2, CountedLess, AddingCounted
      <4>5. QED
        BY <2>0, <2>1, <2>6, <3>1, <4>3, <4>4
    <3>2. CASE ~(i = proc[p].via /\ r = proc[p].next)
      <4>1. S \subseteq Adding(i, r)
        BY <1>6, <2>2, <2>3 DEF Adding, Adds
      <4>2. Cardinality(S) <= Cardinality(Adding(i, r)) /\ Cardinality(S) \in Nat
        BY <4>1, CountedLess, AddingCounted
      <4>3. QED
        BY <2>0, <2>1, <2>6, <3>2, <4>2
    <3>3. QED
      BY <3>1, <3>2
  <2>8. rules'[i][r] + Cardinality(S) <= upsets' + e
    <3>1. rules'[i][r] \in Nat
      BY <2>0, <2>1
    <3>2. Excess(i, r) \in {0, 1}
      BY ExcessIs
    <3>3. QED
      BY <1>1, <2>1, <2>4, <2>5, <2>6, <2>7, <3>1, <3>2
  <2>9. QED
    BY <2>3, <2>4, <2>8
<1>8. QED
  BY <1>6, <1>7 DEF Kept, RulesKept

\* A copy deleted is one no longer to be deleted.  Where there is none, only those are
\* to add one that have lost their device.
LEMMA DisableKept ==
  ASSUME RulesInv, NEW p \in Proc, DisableGateway(p), Quiet
  PROVE  Kept
<1>1. /\ proc[p].at = "disable" /\ At(p, {"enable", "disable"}) /\ proc[p].at \in HasSocket
      /\ UNCHANGED <<ext, upsets, tun>>
  BY DEF DisableGateway, At, HasSocket, Cleanup, Quiet
<1>2. PICK c : c = IF Copies(p) = 0 THEN 0 ELSE Copies(p) - 1
  OBVIOUS
<1>3. EachRule(p, "unlink", c)
  BY <1>2 DEF DisableGateway
<1>4. PICK n : /\ proc' = [proc EXCEPT ![p] = n]
               /\ proc[p].next = 3 => n.at = "unlink" /\ n.next = 1
               /\ proc[p].next # 3 => /\ n.at = proc[p].at /\ n.via = proc[p].via
                                      /\ n.next = proc[p].next + 1
  BY <1>1, <1>3, EachRuleGives
<1>5. n.at \in HasSocket /\ (n.at \notin {"enable", "disable"} => n.next = 1)
  BY <1>1, <1>4 DEF HasSocket, Cleanup
<1>6. Deviceless' /\ FromFirst' /\ proc'[p] = n /\ \A q \in Proc \ {p} : proc'[q] = proc[q]
  BY <1>1, <1>4, <1>5, OneRule
<1>7. ASSUME NEW i \in Iface, NEW r \in Rule
      PROVE  (rules[i][r] + Cardinality(Adding(i, r)) <= upsets + Excess(i, r))'
  <2>0. /\ proc[p].via \in Iface /\ proc[p].next \in Rule
        /\ rules'[i][r] = IF i = proc[p].via /\ r = proc[p].next
                          THEN IF rules[i][r] = 0 THEN 0 ELSE rules[i][r] - 1
                          ELSE rules[i][r]
    BY <1>1, <1>2, <1>3, EachRuleGives DEF Copies
  <2>1. /\ rules[i][r] \in Nat /\ upsets \in Nat
        /\ rules[i][r] + Cardinality(Adding(i, r)) <= upsets + Excess(i, r)
        /\ Excess(i, r) \in {0, 1}
    BY RuleTypes, ExcessIs DEF RulesInv, RulesKept
  <2>2. /\ Adds(n, i, r) => Adds(proc[p], i, r)
        /\ Deletes(proc[p], ext, i, r) /\ ~(i = proc[p].via /\ r = proc[p].next)
             => Deletes(n, ext, i, r)
    BY <1>1, <1>4, <2>0, RuleDone
  <2>3. PICK S : S = Adding(i, r)'
    OBVIOUS
  <2>4. PICK e \in {0, 1} : e = Excess(i, r)'
    BY ExcessIs
  <2>5. S \subseteq Adding(i, r)
    BY <1>6, <2>2, <2>3 DEF Adding, Adds
  <2>6. /\ Cardinality(S) <= Cardinality(Adding(i, r))
        /\ Cardinality(S) \in Nat /\ Cardinality(Adding(i, r)) \in Nat
    BY <2>5, CountedLess, AddingCounted
  <2>7. ASSUME ~(i = proc[p].via /\ r = proc[p].next) \/ tun # p
        PROVE  Excess(i, r) <= e
    <3>1. ASSUME NEW q \in Proc, tun = q, Deletes(proc[q], ext, i, r)
          PROVE  tun' = q /\ Deletes(proc[q], ext, i, r)'
      <4>1. CASE q = p
        BY <1>1, <1>6, <2>2, <2>7, <3>1, <4>1 DEF Deletes
      <4>2. CASE q # p
        BY <1>1, <1>6, <3>1, <4>2 DEF Deletes
      <4>3. QED
        BY <4>1, <4>2
    <3>2. Excess(i, r) = 1 => Excess(i, r)' = 1
      BY <3>1 DEF Excess
    <3>3. QED
      BY <2>4, <3>2, ExcessIs
  <2>8. CASE ~(i = proc[p].via /\ r = proc[p].next) \/ tun # p
    <3>1. rules'[i][r] <= rules[i][r] /\ rules'[i][r] \in Nat
      BY <2>0, <2>1
    <3>2. rules'[i][r] + Cardinality(S) <= upsets' + e
      BY <1>1, <2>1, <2>4, <2>6, <2>7, <2>8, <3>1
    <3>3. QED
      BY <2>3, <2>4, <3>2
  <2>9. CASE i = proc[p].via /\ r = proc[p].next /\ tun = p
    <3>1. rules'[i][r] = IF rules[i][r] = 0 THEN 0 ELSE rules[i][r] - 1
      BY <2>0, <2>9
    <3>2. Cardinality(S) <= upsets
      <4>1. S \subseteq Bound \ {tun}
        BY <1>1, <2>5, <2>9 DEF Adding, Adds, Bound, At
      <4>2. Bound \ {tun} \subseteq Proc
        BY DEF Bound
      <4>3. Cardinality(S) <= Cardinality(Bound \ {tun}) /\ Cardinality(Bound \ {tun}) \in Nat
        BY <4>1, <4>2, CountedLess
      <4>4. QED
        BY <2>1, <2>6, <4>3 DEF RulesInv, Deviceless
    <3>3. rules'[i][r] + Cardinality(S) <= upsets' + e
      BY <1>1, <2>1, <2>4, <2>6, <3>1, <3>2
    <3>4. QED
      BY <2>3, <2>4, <3>3
  <2>10. QED
    BY <2>8, <2>9
<1>8. QED
  BY <1>6, <1>7 DEF Kept, RulesKept

\* The default route moves: what was to be deleted may stay behind.
LEMMA MoveKept ==
  ASSUME RulesInv, NEW i \in Iface \cup {None}, MoveDefaultRoute(i)
  PROVE  Kept
<1>1. UNCHANGED <<proc, rules, tun>> /\ upsets' = upsets + 1 /\ upsets \in Nat
  BY RuleTypes DEF MoveDefaultRoute, RulesInv
<1>2. FromFirst' /\ Bound' = Bound
  BY <1>1 DEF RulesInv, FromFirst, At, Bound
<1>3. \A j \in Iface, r \in Rule : Adding(j, r)' = Adding(j, r)
  BY <1>1 DEF Adding, Adds
<1>4. QED
  BY <1>1, <1>2, <1>3, ExcessIs, KeptWhere

\* A device is lost: its daemon is one more without.
LEMMA DeleteKept ==
  ASSUME RulesInv, DeleteTun
  PROVE  Kept
<1>1. UNCHANGED <<proc, rules>> /\ upsets' = upsets + 1 /\ upsets \in Nat
      /\ tun # None /\ tun' = None
  BY RuleTypes DEF DeleteTun, RulesInv
<1>2. FromFirst' /\ Bound' = Bound /\ Bound \subseteq Proc /\ None \notin Proc
  BY <1>1, NoneAssumption DEF RulesInv, FromFirst, At, Bound
<1>3. tun \in Proc
  BY <1>1, TypeParts DEF RulesInv, Processes, Tunnelled, Bound
<1>4. Deviceless'
  <2>1. PICK S : S = Bound' \ {tun'}
    OBVIOUS
  <2>2. S \subseteq (Bound \ {tun}) \cup {tun}
    BY <1>2, <2>1
  <2>3. Cardinality(S) <= Cardinality(Bound \ {tun}) + 1 /\ Cardinality(S) \in Nat
        /\ Cardinality(Bound \ {tun}) \in Nat
    BY <1>2, <1>3, <2>2, CountedMore
  <2>4. Cardinality(S) <= upsets'
    BY <1>1, <2>3 DEF RulesInv, Deviceless
  <2>5. QED
    BY <2>1, <2>4 DEF Deviceless
<1>5. ASSUME NEW i \in Iface, NEW r \in Rule
      PROVE  (rules[i][r] + Cardinality(Adding(i, r)) <= upsets + Excess(i, r))'
  <2>1. Adding(i, r)' = Adding(i, r)
    BY <1>1 DEF Adding, Adds
  <2>2. /\ rules[i][r] \in Nat /\ Cardinality(Adding(i, r)) \in Nat
        /\ rules[i][r] + Cardinality(Adding(i, r)) <= upsets + Excess(i, r)
    BY AddingCounted, RuleTypes DEF RulesInv, RulesKept
  <2>3. PICK e \in {0, 1} : e = Excess(i, r)'
    BY ExcessIs
  <2>4. rules'[i][r] + Cardinality(Adding(i, r)) <= upsets' + e
    BY <1>1, <2>2, <2>3, ExcessIs
  <2>5. QED
    BY <2>1, <2>3, <2>4
<1>6. QED
  BY <1>2, <1>4, <1>5 DEF Kept, RulesKept

\* The rest of the main thread.
LEMMA MainThreadKept ==
  ASSUME RulesInv, NEW p \in Proc, MainThread(p) \/ TakeReloadFlag(p, TRUE), Quiet
  PROVE  Kept
<1>0. /\ proc \in [Proc -> Memory] /\ proc[p] \in Memory
      /\ UNCHANGED <<ext, upsets>>
  BY TypeParts DEF RulesInv, Processes, Quiet
<1>1. ASSUME NEW at, Goto(p, at), UNCHANGED rules, tun' = tun \/ (tun = None /\ tun' = p),
             \/ at \in Having /\ proc[p].at \in Having
             \/ at \in Rid /\ proc[p].at \in Rid
             \/ at \notin HasSocket /\ proc[p].at \notin HasSocket
      PROVE  Kept
  <2>1. PICK n : n = [proc[p] EXCEPT !.at = at] /\ proc' = [proc EXCEPT ![p] = n]
    BY <1>0, <1>1 DEF Goto
  <2>2. SamePhase(proc[p], n)
    BY <1>0, <1>1, <2>1 DEF SamePhase, Memory
  <2>3. QED
    BY <1>0, <1>1, <2>1, <2>2, OneInPhase
<1>2. ASSUME End(p), UNCHANGED rules, proc[p].at \notin HasSocket
      PROVE  Kept
  BY <1>0, <1>2, FailKept
<1>3. CASE Load(p)
  <2>0. proc[p].at = "load" /\ proc[p].at \notin HasSocket
    BY <1>3 DEF Load, At, HasSocket, Looping, Cleanup
  <2>1. CASE Fail(p)
    BY <1>2, <2>0, <2>1 DEF Fail
  <2>2. CASE /\ proc' = [proc EXCEPT ![p].at = "key", ![p].loaded = edited, ![p].port = Port(edited)]
             /\ UNCHANGED <<key, tun, rules, status, writer, wanted>>
    <3>1. PICK n : /\ n = [proc[p] EXCEPT !.at = "key", !.loaded = edited, !.port = Port(edited)]
                   /\ proc' = [proc EXCEPT ![p] = n]
      BY <2>2
    <3>2. n.at = "key" /\ n.via = proc[p].via /\ n.next = proc[p].next
      BY <1>0, <3>1 DEF Memory
    <3>3. SamePhase(proc[p], n)
      BY <2>0, <3>2 DEF SamePhase, HasSocket, Looping, Cleanup
    <3>4. QED
      BY <1>0, <2>2, <3>1, <3>3, OneInPhase
  <2>3. QED
    BY <1>3, <2>1, <2>2 DEF Load
<1>4. CASE LoadOrGenerateKey(p) \/ FillKey(p) \/ CreateTun(p)
  <2>1. /\ proc[p].at \notin HasSocket
        /\ \A at \in {"tun", "fill", "bind"} : at \notin HasSocket
    BY <1>4 DEF LoadOrGenerateKey, FillKey, CreateTun, At, HasSocket, Looping, Cleanup
  <2>2. /\ UNCHANGED rules
        /\ \/ End(p)
           \/ /\ \E at \in {"tun", "fill", "bind"} : Goto(p, at)
              /\ tun' = tun \/ (tun = None /\ tun' = p)
    BY <1>4 DEF LoadOrGenerateKey, FillKey, CreateTun, KeyRead, Fail
  <2>3. QED
    BY <1>1, <1>2, <2>1, <2>2
<1>5. CASE RegisterHandlers(p) \/ EnterLoop(p) \/ FinishReload(p)
  <2>1. /\ UNCHANGED <<rules, tun>> /\ proc[p].at \in Having
        /\ \E at \in {"running", "sighup", "loop"} : Goto(p, at)
    BY <1>5 DEF RegisterHandlers, EnterLoop, FinishReload, At, Having, Looping
  <2>2. \A at \in {"running", "sighup", "loop"} : at \in Having
    BY DEF Having, Looping
  <2>3. QED
    BY <1>1, <2>1, <2>2
<1>6. CASE RemoveStatus(p)
  BY <1>1, <1>6 DEF RemoveStatus, At, Rid
<1>7. CASE TakeReloadFlag(p, FALSE) \/ TakeReloadFlag(p, TRUE)
  <2>1. PICK n : n = [proc[p] EXCEPT !.at = "reload", !.hup = FALSE]
                 /\ proc' = [proc EXCEPT ![p] = n]
    BY <1>0, <1>7 DEF TakeReloadFlag
  <2>2. n.at = "reload" /\ n.via = proc[p].via /\ n.next = proc[p].next
    BY <1>0, <2>1 DEF Memory
  <2>3. SamePhase(proc[p], n)
    BY <1>7, <2>2 DEF TakeReloadFlag, At, SamePhase, Having, Looping
  <2>4. UNCHANGED <<rules, tun>>
    BY <1>7 DEF TakeReloadFlag
  <2>5. QED
    BY <1>0, <2>1, <2>3, <2>4, OneInPhase
<1>8. CASE ReloadConfig(p)
  <2>1. PICK n : n = (IF edited \in Readable THEN [proc[p] EXCEPT !.at = "apply", !.loaded = edited]
                      ELSE [proc[p] EXCEPT !.at = "loop"])
                 /\ proc' = [proc EXCEPT ![p] = n]
    BY <1>0, <1>8 DEF ReloadConfig
  <2>2. n.at \in {"apply", "loop"} /\ n.via = proc[p].via /\ n.next = proc[p].next
    BY <1>0, <2>1 DEF Memory
  <2>3. SamePhase(proc[p], n)
    BY <1>8, <2>2 DEF ReloadConfig, At, SamePhase, Having, Looping
  <2>4. UNCHANGED <<rules, tun>>
    BY <1>8 DEF ReloadConfig
  <2>5. QED
    BY <1>0, <2>1, <2>3, <2>4, OneInPhase
<1>9. QED
  BY <1>3, <1>4, <1>5, <1>6, <1>7, <1>8,
     BindKept, EnableKept, LeaveLoopKept, DisableKept, ReturnKept
  DEF MainThread

\* Nothing happens to processes and rules.
LEMMA NothingKept ==
  ASSUME RulesInv, UNCHANGED <<proc, rules, ext, upsets, tun>>
  PROVE  Kept
  BY DEF RulesInv, Kept, Deviceless, FromFirst, RulesKept, Adding, Adds, Excess, Deletes, Bound, At

LEMMA SignalKept ==
  ASSUME RulesInv, NEW p \in Proc, Terminate(p) \/ Hangup(p) \/ Kill(p)
  PROVE  Kept
<1>0. proc \in [Proc -> Memory] /\ proc[p] \in Memory
  BY TypeParts DEF RulesInv, Processes
<1>1. CASE Die(p)
  BY <1>1, DieKept
<1>2. CASE UNCHANGED <<proc, rules, ext, upsets, tun>>
  BY <1>2, NothingKept
<1>3. CASE /\ proc' = [proc EXCEPT ![p].run = FALSE]
           /\ UNCHANGED <<rules, ext, upsets, tun>>
  <2>1. PICK n : n = [proc[p] EXCEPT !.run = FALSE] /\ proc' = [proc EXCEPT ![p] = n]
    BY <1>0, <1>3
  <2>2. SamePhase(proc[p], n)
    BY <1>0, <2>1 DEF SamePhase, Memory
  <2>3. QED
    BY <1>3, <2>1, <2>2, OneInPhase
<1>4. CASE /\ proc' = [proc EXCEPT ![p].hup = TRUE, ![p].asked = edited]
           /\ UNCHANGED <<rules, ext, upsets, tun>>
  <2>1. PICK n : n = [proc[p] EXCEPT !.hup = TRUE, !.asked = edited]
                 /\ proc' = [proc EXCEPT ![p] = n]
    BY <1>0, <1>4
  <2>2. SamePhase(proc[p], n)
    BY <1>0, <2>1 DEF SamePhase, Memory
  <2>3. QED
    BY <1>4, <2>1, <2>2, OneInPhase
<1>5. QED
  BY <1>1, <1>2, <1>3, <1>4 DEF Terminate, Hangup, Kill

LEMMA StartKept ==
  ASSUME RulesInv, NEW p \in Proc, NEW command \in BOOLEAN,
         ByHand(p, command) \/ (p = Unit /\ StartUnit)
  PROVE  Kept
<1>0. proc \in [Proc -> Memory] /\ proc[p] \in Memory
  BY TypeParts DEF RulesInv, Processes
<1>1. UNCHANGED <<rules, ext, upsets, tun>> /\ proc[p].at \notin HasSocket
  BY DEF ByHand, StartUnit, Up, At, HasSocket, Looping, Cleanup
<1>2. PICK n : /\ proc' = [proc EXCEPT ![p] = n]
               /\ n.at \in {"load", "key"} /\ n.via = proc[p].via /\ n.next = proc[p].next
  <2>1. CASE StartUnit /\ p = Unit
    <3>1. PICK n : n = [proc[p] EXCEPT !.at = "load"] /\ proc' = [proc EXCEPT ![p] = n]
      BY <1>0, <2>1 DEF StartUnit, Goto
    <3>2. n.at \in {"load", "key"} /\ n.via = proc[p].via /\ n.next = proc[p].next
      BY <1>0, <3>1 DEF Memory
    <3>3. QED
      BY <3>1, <3>2
  <2>2. CASE ByHand(p, command)
    <3>1. PICK n : /\ n = [proc[p] EXCEPT !.at = IF command THEN "key" ELSE "load", !.command = command]
                   /\ proc' = [proc EXCEPT ![p] = n]
      BY <1>0, <2>2 DEF ByHand
    <3>2. n.at \in {"load", "key"} /\ n.via = proc[p].via /\ n.next = proc[p].next
      BY <1>0, <3>1 DEF Memory
    <3>3. QED
      BY <3>1, <3>2
  <2>3. QED
    BY <2>1, <2>2
<1>3. SamePhase(proc[p], n)
  BY <1>1, <1>2 DEF SamePhase, HasSocket, Looping, Cleanup
<1>4. QED
  BY <1>1, <1>2, <1>3, OneInPhase

LEMMA RulesStep == RulesInv /\ [Next]_vars => RulesInv'
<1> SUFFICES ASSUME RulesInv, [Next]_vars PROVE Kept
  BY TypeStep DEF RulesInv, Kept
<1>1. ASSUME UNCHANGED <<proc, rules, ext, upsets, tun>> PROVE Kept
  BY <1>1, NothingKept
<1>2. ASSUME NEW p \in Proc, MainThread(p) \/ TakeReloadFlag(p, TRUE) \/ WriteStatus(p), Quiet
      PROVE  Kept
  BY <1>1, <1>2, MainThreadKept DEF WriteStatus, Quiet
<1>3. ASSUME NEW p \in Proc, Stop(p) \/ Kill(p)
      PROVE  Kept
  BY <1>3, SignalKept DEF Stop
<1>4. CASE Purge
  BY <1>4, SignalKept DEF Purge, SignalFirst
<1>5. CASE StopUnit
  BY <1>1, <1>5, SignalKept, UnitAssumption DEF StopUnit
<1>6. CASE StartUnit \/ \E p \in Proc, command \in BOOLEAN : ByHand(p, command)
  BY <1>6, StartKept, UnitAssumption
<1>7. CASE WantUnit \/ Edit \/ UNCHANGED vars
  BY <1>1, <1>7 DEF WantUnit, Edit, vars
<1>8. CASE \E p \in Proc :
         (MainThread(p) \/ TakeReloadFlag(p, TRUE) \/ WriteStatus(p)) /\ UNCHANGED <<ext, edited, upsets>>
  BY <1>2, <1>8 DEF Quiet
<1>9. QED
  BY <1>3, <1>4, <1>5, <1>6, <1>7, <1>8, MoveKept, DeleteKept DEF Next

LEMMA RulesInit == Init => RulesInv
<1> SUFFICES ASSUME Init PROVE RulesInv
  OBVIOUS
<1>1. TypeOK /\ upsets = 0 /\ \A i \in Iface, r \in Rule : rules[i][r] = 0
  BY InitType DEF Init
<1>2. \A p \in Proc : proc[p].at = "off" /\ proc[p].next = 1
  BY DEF Init, Gone
<1>3. Bound = {}
  BY <1>2 DEF Bound, At, Looping, Cleanup
<1>4. Cardinality({}) = 0
  BY FS_EmptySet
<1>5. Deviceless
  <2>1. Bound \ {tun} = {}
    BY <1>3
  <2>2. QED
    BY <1>1, <1>4, <2>1 DEF Deviceless
<1>6. ASSUME NEW i \in Iface, NEW r \in Rule
      PROVE  rules[i][r] + Cardinality(Adding(i, r)) <= upsets + Excess(i, r)
  <2>1. Adding(i, r) = {}
    BY <1>2 DEF Adding, Adds
  <2>2. QED
    BY <1>1, <1>4, <2>1, ExcessIs
<1>7. QED
  BY <1>1, <1>2, <1>5, <1>6 DEF RulesInv, FromFirst, RulesKept, At

\* Of any number of processes, started by anybody at any time, of whichever version of
\* config.toml, no two have the socket, rules and status file in their charge unless one
\* has lost its device (TunDevice::create, UdpSocket::bind).
THEOREM DaemonsAlwaysBounded == Spec => []DaemonsBounded
<1>1. RulesInv => DaemonsBounded
  <2> SUFFICES ASSUME RulesInv PROVE DaemonsBounded
    OBVIOUS
  <2>1. upsets \in Nat /\ Bound \subseteq Proc
    BY RuleTypes DEF RulesInv, Bound
  <2>2. CASE tun \in Proc
    <3>1. Bound \subseteq (Bound \ {tun}) \cup {tun}
      OBVIOUS
    <3>2. Cardinality(Bound) <= Cardinality(Bound \ {tun}) + 1 /\ Cardinality(Bound) \in Nat
          /\ Cardinality(Bound \ {tun}) \in Nat
      BY <2>1, <2>2, <3>1, CountedMore
    <3>3. QED
      BY <2>1, <3>2 DEF RulesInv, Deviceless, DaemonsBounded
  <2>3. CASE tun \notin Proc
    <3>1. Bound \ {tun} = Bound
      BY <2>1, <2>3
    <3>2. Cardinality(Bound) <= upsets /\ Cardinality(Bound) \in Nat
      BY <2>1, <3>1, Counted DEF RulesInv, Deviceless
    <3>3. QED
      BY <2>1, <3>2 DEF DaemonsBounded
  <2>4. QED
    BY <2>2, <2>3
<1>2. QED
  BY <1>1, RulesInit, RulesStep, PTL DEF Spec

\* Of any rule, for any number of processes and interfaces, there are at most as many
\* copies as there were deaths, lost devices and moves of the default route, and one more
\* while a daemon has the socket (enable_gateway, disable_gateway).
THEOREM RulesAlwaysBounded == Spec => []RulesBounded
<1>1. RulesInv => RulesBounded
  <2> SUFFICES ASSUME RulesInv, NEW i \in Iface, NEW r \in Rule
               PROVE  rules[i][r] <= upsets + IF Bound = {} THEN 0 ELSE 1
    BY DEF RulesBounded
  <2>1. /\ upsets \in Nat /\ rules[i][r] \in Nat /\ Cardinality(Adding(i, r)) \in Nat
        /\ rules[i][r] + Cardinality(Adding(i, r)) <= upsets + Excess(i, r)
    BY RuleTypes, AddingCounted DEF RulesInv, RulesKept
  <2>2. CASE Bound = {}
    <3>1. \A p \in Proc : proc[p].at \notin HasSocket
      BY <2>2, RuleTypes DEF RulesInv
    <3>2. Having \cup {"enable", "disable"} \subseteq HasSocket
      BY DEF Having, HasSocket, Cleanup
    <3>3. Excess(i, r) = 0
      BY <3>1, <3>2 DEF Excess, Deletes
    <3>4. QED
      BY <2>1, <2>2, <3>3
  <2>3. CASE Bound # {}
    BY <2>1, <2>3, ExcessIs
  <2>4. QED
    BY <2>2, <2>3
<1>2. QED
  BY <1>1, RulesInit, RulesStep, PTL DEF Spec

-----------------------------------------------------------------------------
(* Hangups. *)

\* Of a process with m in its memory, config.toml being in this version: no version is
\* ahead of that, and what it was asked for is loaded, about to be read, flagged, or was
\* not to be read.
Mindful(m, version) ==
  /\ m.asked <= version /\ m.loaded <= version
  /\ m.loaded < m.asked /\ (\A v \in m.asked .. version : v \in Readable)
       => m.hup \/ m.at = "reload"

HangupInv == TypeOK /\ \A p \in Proc : Mindful(proc[p], edited)

\* When one process moves and nobody edits, it is enough to look at that one.
LEMMA OneMindful ==
  ASSUME HangupInv, NEW p \in Proc, UNCHANGED edited,
         proc' = [proc EXCEPT ![p] = proc'[p]], Mindful(proc'[p], edited)
  PROVE  \A q \in Proc : Mindful(proc'[q], edited')
<1>1. proc \in [Proc -> Memory]
  BY TypeParts DEF HangupInv, Processes
<1>2. \A q \in Proc \ {p} : proc'[q] = proc[q]
  BY <1>1
<1>3. QED
  BY <1>2 DEF HangupInv

\* Of one that has the flag, the versions and no reading ahead of it as before.
LEMMA StaysMindful ==
  ASSUME HangupInv, NEW p \in Proc, UNCHANGED edited,
         proc' = [proc EXCEPT ![p] = proc'[p]],
         proc'[p].asked = proc[p].asked, proc'[p].loaded = proc[p].loaded,
         proc'[p].hup = proc[p].hup, ~At(p, {"reload"}) \/ proc'[p].at = "reload"
  PROVE  \A q \in Proc : Mindful(proc'[q], edited')
  BY OneMindful DEF HangupInv, Mindful, At

\* Of one that ends (exit, a fatal signal).
LEMMA EndMindful ==
  ASSUME HangupInv, NEW p \in Proc, End(p), UNCHANGED edited
  PROVE  \A q \in Proc : Mindful(proc'[q], edited')
<1>1. proc \in [Proc -> Memory] /\ edited \in Nat
  BY TypeParts, BoundAssumption DEF HangupInv, Processes, Shared
<1>2. proc' = [proc EXCEPT ![p] = proc'[p]] /\ proc'[p] = Gone
  BY <1>1 DEF End
<1>3. Mindful(Gone, edited)
  BY <1>1 DEF Mindful, Gone
<1>4. QED
  BY <1>2, <1>3, OneMindful

\* The steps of run_daemon before the loop and after it leave flag and versions alone.
LEMMA RestMindful ==
  ASSUME HangupInv, NEW p \in Proc, UNCHANGED edited,
         \/ LoadOrGenerateKey(p) \/ FillKey(p) \/ CreateTun(p) \/ Bind(p)
         \/ EnableGateway(p) \/ RegisterHandlers(p) \/ EnterLoop(p) \/ FinishReload(p)
         \/ LeaveLoop(p) \/ DisableGateway(p) \/ RemoveStatus(p) \/ Return(p)
  PROVE  \A q \in Proc : Mindful(proc'[q], edited')
<1>0. proc \in [Proc -> Memory] /\ proc[p] \in Memory
  BY TypeParts DEF HangupInv, Processes
<1>1. CASE End(p)
  BY <1>1, EndMindful
<1>2. ASSUME NEW step, Goto(p, step), ~At(p, {"reload"})
      PROVE  \A q \in Proc : Mindful(proc'[q], edited')
  <2>1. proc'[p] = [proc[p] EXCEPT !.at = step] /\ proc' = [proc EXCEPT ![p] = proc'[p]]
    BY <1>0, <1>2 DEF Goto
  <2>2. /\ proc'[p].asked = proc[p].asked /\ proc'[p].loaded = proc[p].loaded
        /\ proc'[p].hup = proc[p].hup
    BY <1>0, <2>1 DEF Memory
  <2>3. QED
    BY <1>2, <2>1, <2>2, StaysMindful
<1>3. ASSUME NEW step, NEW otherwise, ToGateway(p, step, otherwise), ~At(p, {"reload"})
      PROVE  \A q \in Proc : Mindful(proc'[q], edited')
  <2>1. PICK at : /\ proc'[p] = [proc[p] EXCEPT !.at = at, !.via = ext]
                  /\ proc' = [proc EXCEPT ![p] = proc'[p]]
    BY <1>0, <1>3 DEF ToGateway
  <2>2. /\ proc'[p].asked = proc[p].asked /\ proc'[p].loaded = proc[p].loaded
        /\ proc'[p].hup = proc[p].hup
    BY <1>0, <2>1 DEF Memory
  <2>3. QED
    BY <1>3, <2>1, <2>2, StaysMindful
<1>4. ASSUME NEW then, NEW changed, EachRule(p, then, changed), ~At(p, {"reload"})
      PROVE  \A q \in Proc : Mindful(proc'[q], edited')
  <2>1. /\ \/ proc'[p] = [proc[p] EXCEPT !.at = then, !.via = None, !.next = 1]
           \/ proc'[p] = [proc[p] EXCEPT !.next = proc[p].next + 1]
        /\ proc' = [proc EXCEPT ![p] = proc'[p]]
    BY <1>0, <1>4 DEF EachRule
  <2>2. /\ proc'[p].asked = proc[p].asked /\ proc'[p].loaded = proc[p].loaded
        /\ proc'[p].hup = proc[p].hup
    BY <1>0, <2>1 DEF Memory
  <2>3. QED
    BY <1>4, <2>1, <2>2, StaysMindful
<1>5. ~At(p, {"reload"})
  BY DEF LoadOrGenerateKey, FillKey, CreateTun, Bind, EnableGateway, RegisterHandlers,
         EnterLoop, FinishReload, LeaveLoop, DisableGateway, RemoveStatus, Return, At
<1>6. \/ End(p)
      \/ \E step : Goto(p, step)
      \/ \E step, otherwise : ToGateway(p, step, otherwise)
      \/ \E then, changed : EachRule(p, then, changed)
  BY DEF LoadOrGenerateKey, KeyRead, Fail, FillKey, CreateTun, Bind, EnableGateway,
         RegisterHandlers, EnterLoop, FinishReload, LeaveLoop, DisableGateway,
         RemoveStatus, Return
<1>7. QED
  BY <1>1, <1>2, <1>3, <1>4, <1>5, <1>6

\* Reading config.toml brings the newest version; the flag is taken to read next.
LEMMA LoadMindful ==
  ASSUME HangupInv, NEW p \in Proc, UNCHANGED edited,
         Load(p) \/ ReloadConfig(p) \/ TakeReloadFlag(p, FALSE) \/ TakeReloadFlag(p, TRUE)
  PROVE  \A q \in Proc : Mindful(proc'[q], edited')
<1>0. /\ proc \in [Proc -> Memory] /\ proc[p] \in Memory
      /\ edited \in Nat /\ proc[p].asked \in Nat /\ proc[p].loaded \in Nat
      /\ Mindful(proc[p], edited)
  BY TypeParts, BoundAssumption DEF HangupInv, Processes, Shared, Memory
<1>1. ASSUME NEW n, proc' = [proc EXCEPT ![p] = n],
             n.asked = proc[p].asked /\ n.loaded = edited
      PROVE  \A q \in Proc : Mindful(proc'[q], edited')
  <2>1. proc'[p] = n
    BY <1>0, <1>1
  <2>2. Mindful(n, edited)
    BY <1>0, <1>1 DEF Mindful
  <2>3. QED
    BY <1>1, <2>1, <2>2, OneMindful
<1>2. CASE Load(p)
  <2>1. CASE End(p)
    BY <2>1, EndMindful
  <2>2. CASE proc' = [proc EXCEPT ![p].at = "key", ![p].loaded = edited, ![p].port = Port(edited)]
    <3>1. PICK n : /\ n = [proc[p] EXCEPT !.at = "key", !.loaded = edited, !.port = Port(edited)]
                   /\ proc' = [proc EXCEPT ![p] = n]
      BY <2>2
    <3>2. n.asked = proc[p].asked /\ n.loaded = edited
      BY <1>0, <3>1 DEF Memory
    <3>3. QED
      BY <1>1, <3>1, <3>2
  <2>3. QED
    BY <1>2, <2>1, <2>2 DEF Load, Fail
<1>3. CASE ReloadConfig(p) /\ edited \in Readable
  <2>1. PICK n : /\ n = [proc[p] EXCEPT !.at = "apply", !.loaded = edited]
                 /\ proc' = [proc EXCEPT ![p] = n]
    BY <1>3 DEF ReloadConfig
  <2>2. n.asked = proc[p].asked /\ n.loaded = edited
    BY <1>0, <2>1 DEF Memory
  <2>3. QED
    BY <1>1, <2>1, <2>2
<1>4. CASE ReloadConfig(p) /\ edited \notin Readable
  <2>1. proc'[p] = [proc[p] EXCEPT !.at = "loop"] /\ proc' = [proc EXCEPT ![p] = proc'[p]]
    BY <1>0, <1>4 DEF ReloadConfig
  <2>2. proc'[p].asked = proc[p].asked /\ proc'[p].loaded = proc[p].loaded
    BY <1>0, <2>1 DEF Memory
  <2>3. edited \in proc[p].asked .. edited
    BY <1>0 DEF Mindful
  <2>4. Mindful(proc'[p], edited)
    BY <1>0, <1>4, <2>2, <2>3 DEF Mindful
  <2>5. QED
    BY <2>1, <2>4, OneMindful
<1>5. CASE TakeReloadFlag(p, FALSE) \/ TakeReloadFlag(p, TRUE)
  <2>1. /\ proc'[p] = [proc[p] EXCEPT !.at = "reload", !.hup = FALSE]
        /\ proc' = [proc EXCEPT ![p] = proc'[p]]
    BY <1>0, <1>5 DEF TakeReloadFlag
  <2>2. /\ proc'[p].asked = proc[p].asked /\ proc'[p].loaded = proc[p].loaded
        /\ proc'[p].at = "reload"
    BY <1>0, <2>1 DEF Memory
  <2>3. Mindful(proc'[p], edited)
    BY <1>0, <2>2 DEF Mindful
  <2>4. QED
    BY <2>1, <2>3, OneMindful
<1>6. QED
  BY <1>2, <1>3, <1>4, <1>5

LEMMA SignalMindful ==
  ASSUME HangupInv, NEW p \in Proc, Terminate(p) \/ Hangup(p) \/ Kill(p)
  PROVE  \A q \in Proc : Mindful(proc'[q], edited')
<1>0. /\ proc \in [Proc -> Memory] /\ proc[p] \in Memory
      /\ edited \in Nat /\ proc[p].loaded \in Nat /\ Mindful(proc[p], edited)
  BY TypeParts, BoundAssumption DEF HangupInv, Processes, Shared, Memory
<1>1. CASE Die(p)
  BY <1>1, EndMindful DEF Die
<1>2. CASE UNCHANGED <<proc, edited>>
  BY <1>2 DEF HangupInv
<1>3. CASE proc' = [proc EXCEPT ![p].run = FALSE] /\ UNCHANGED edited
  <2>1. proc'[p] = [proc[p] EXCEPT !.run = FALSE] /\ proc' = [proc EXCEPT ![p] = proc'[p]]
    BY <1>0, <1>3
  <2>2. /\ proc'[p].asked = proc[p].asked /\ proc'[p].loaded = proc[p].loaded
        /\ proc'[p].hup = proc[p].hup /\ proc'[p].at = proc[p].at
    BY <1>0, <2>1 DEF Memory
  <2>3. QED
    BY <1>3, <2>1, <2>2, StaysMindful DEF At
<1>4. CASE proc' = [proc EXCEPT ![p].hup = TRUE, ![p].asked = edited] /\ UNCHANGED edited
  <2>1. proc'[p] = [proc[p] EXCEPT !.hup = TRUE, !.asked = edited]
        /\ proc' = [proc EXCEPT ![p] = proc'[p]]
    BY <1>0, <1>4
  <2>2. proc'[p].asked = edited /\ proc'[p].loaded = proc[p].loaded /\ proc'[p].hup
    BY <1>0, <2>1 DEF Memory
  <2>3. Mindful(proc'[p], edited)
    BY <1>0, <2>2 DEF Mindful
  <2>4. QED
    BY <1>4, <2>1, <2>3, OneMindful
<1>5. QED
  BY <1>1, <1>2, <1>3, <1>4 DEF Terminate, Hangup, Kill

LEMMA StartMindful ==
  ASSUME HangupInv, NEW p \in Proc, NEW command \in BOOLEAN,
         ByHand(p, command) \/ (p = Unit /\ StartUnit)
  PROVE  \A q \in Proc : Mindful(proc'[q], edited')
<1>0. proc \in [Proc -> Memory] /\ proc[p] \in Memory
  BY TypeParts DEF HangupInv, Processes
<1>1. UNCHANGED edited /\ ~At(p, {"reload"})
  BY DEF ByHand, StartUnit, Up, At
<1>2. PICK at : \/ proc'[p] = [proc[p] EXCEPT !.at = at]
                \/ proc'[p] = [proc[p] EXCEPT !.at = at, !.command = command]
  BY <1>0 DEF ByHand, StartUnit, Goto
<1>3. /\ proc'[p].asked = proc[p].asked /\ proc'[p].loaded = proc[p].loaded
      /\ proc'[p].hup = proc[p].hup
  BY <1>0, <1>2 DEF Memory
<1>4. proc' = [proc EXCEPT ![p] = proc'[p]]
  BY <1>0 DEF ByHand, StartUnit, Goto
<1>5. QED
  BY <1>1, <1>3, <1>4, StaysMindful

LEMMA HangupStep == HangupInv /\ [Next]_vars => HangupInv'
<1> SUFFICES ASSUME HangupInv, [Next]_vars
             PROVE  \A q \in Proc : Mindful(proc'[q], edited')
  BY TypeStep DEF HangupInv
<1>1. CASE UNCHANGED <<proc, edited>>
  BY <1>1 DEF HangupInv
<1>2. ASSUME NEW p \in Proc, MainThread(p) \/ TakeReloadFlag(p, TRUE) \/ WriteStatus(p),
             UNCHANGED edited
      PROVE  \A q \in Proc : Mindful(proc'[q], edited')
  BY <1>1, <1>2, RestMindful, LoadMindful DEF MainThread, WriteStatus
<1>3. ASSUME NEW p \in Proc, Stop(p) \/ Kill(p)
      PROVE  \A q \in Proc : Mindful(proc'[q], edited')
  BY <1>3, SignalMindful DEF Stop
<1>4. CASE Purge
  BY <1>4, SignalMindful DEF Purge, SignalFirst
<1>5. CASE StopUnit
  BY <1>1, <1>5, SignalMindful, UnitAssumption DEF StopUnit
<1>6. CASE StartUnit \/ \E p \in Proc, command \in BOOLEAN : ByHand(p, command)
  BY <1>6, StartMindful, UnitAssumption
<1>7. CASE Edit
  <2>1. edited \in Nat /\ edited' = edited + 1 /\ UNCHANGED proc
    BY <1>7, TypeParts, BoundAssumption DEF HangupInv, Shared, Edit
  <2>2. \A q \in Proc : proc[q].asked \in Nat /\ proc[q].loaded \in Nat
    BY TypeParts, BoundAssumption DEF HangupInv, Processes, Memory
  <2>3. TAKE q \in Proc
  <2>4. proc[q].asked .. edited \subseteq proc[q].asked .. edited'
    BY <2>1, <2>2
  <2>5. QED
    BY <2>1, <2>2, <2>4 DEF HangupInv, Mindful
<1>8. CASE WantUnit \/ DeleteTun \/ UNCHANGED vars
  BY <1>1, <1>8 DEF WantUnit, DeleteTun, vars
<1>9. CASE \E i \in Iface \cup {None} : MoveDefaultRoute(i)
  BY <1>1, <1>9 DEF MoveDefaultRoute
<1>10. QED
  BY <1>2, <1>3, <1>4, <1>5, <1>6, <1>7, <1>8, <1>9 DEF Next

\* HangupKept: however signals, edits and reloads of any number of daemons come in between
\* each other, none leaves a SIGHUP unanswered (RELOAD_FLAG, the reload of the main loop).
THEOREM HangupsAlwaysKept == Spec => []HangupKept
<1>1. Init => HangupInv
  <2> SUFFICES ASSUME Init PROVE \A p \in Proc : Mindful(proc[p], edited)
    BY InitType DEF HangupInv
  <2>1. \A p \in Proc : proc[p] = Gone
    BY DEF Init
  <2>2. Gone.asked = 0 /\ Gone.loaded = 0
    BY DEF Gone
  <2>3. edited = 0
    BY DEF Init
  <2>4. TAKE p \in Proc
  <2>5. proc[p].asked = 0 /\ proc[p].loaded = 0
    BY <2>1, <2>2, Zenon
  <2>6. /\ proc[p].asked <= edited /\ proc[p].loaded <= edited
        /\ ~(proc[p].loaded < proc[p].asked)
    BY <2>3, <2>5
  <2>7. QED
    BY <2>6, Zenon DEF Mindful
<1>2. HangupInv => HangupKept
  BY DEF HangupInv, Mindful, HangupKept, Asked, At
<1>3. QED
  BY <1>1, <1>2, HangupStep, PTL DEF Spec

=============================================================================
