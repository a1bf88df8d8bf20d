# WolfNet in TLA+

WolfNet (`src/`) is a mesh VPN: every node runs one daemon that reads IP packets
from a TUN device, encrypts them for the peer they go to and sends them over UDP.
Daemons find each other through `config.toml`, LAN broadcasts and peer exchange.
This directory holds TLA+ modules of the parts of it whose correctness depends
on order, failure and concurrency, the TLC configurations that check them on
small instances, and proofs checked by TLAPS.

Paths in the comments are those of the repository (`src/peer.rs` is the file
`src/src/peer.rs` seen from the directory that holds the checkout as `src/`).

## 1. Inventory

| Component | State | Operations | What makes it correct |
| --- | --- | --- | --- |
| Tunnel session (`crypto.rs`, `transport.rs`, packet handlers of `main.rs`) | per peer: cipher, `send_counter`, `recv_counter`, `last_seen` | handshake and its reply, keepalive, encrypt, decrypt with replay test, 120 s expiry, restart | the replay test never shuts out the live session; who is left behind by a reset catches up; two ends that lost each other get together again; handshakes die out |
| Peer table (`PeerManager` in `peer.rs`) | `peers_by_ip`, `id_to_ip`, `endpoint_to_ip`, `purged_ips`, a lock each | add, remove, purge, endpoint updates (config, roaming), discovery, peer exchange | the indexes and the table agree; a pinned endpoint stays; relays make sense; what was purged stays away |
| Main loop (`main.rs`) | the table, sockets, timers, `RELOAD_FLAG` | packets, timers, DNS re-resolution, SIGHUP reload | a reload leaves what `config.toml` says |
| Discovery listener (`transport.rs`) | the table | `update_from_discovery` per broadcast | may step in between any two locks the main loop takes |
| Configuration file (`config.rs`) | `config.toml`, `.bak`, `.tmp` | load (self-heal, migration, dedup, write-back), save (stage, snapshot, rename) | the configuration changes in one step, at the rename; a whole file is not made less; no save drops a peer |
| Routes (`peer.rs`) | exact routes, CIDR tables of two families | reload of two JSON files, longest-prefix match | the most specific route wins; deleted routes go away |
| Forwarding (`main.rs`) | none of its own | peer, route, subnet, relay, gateway in that order; relaying; broadcasts; IPv6 | packets reach their node and do not circle |
| Init, invite, join (`main.rs`) | `config.toml` and key of each node, tokens on their way | pick an address, merge a peer, print a token | what nodes store of each other, and what tokens say, stays true until `init` is repeated; what a node has, no other command takes away |
| Service lifecycle (`run_daemon`, its signal handlers, `gateway.rs`, `tun.rs`, the unit of `setup.sh`) | key file, TUN device, UDP port, iptables rules, status.json, the flags `RUNNING` and `RELOAD_FLAG` | start, reload, stop, death, restart by systemd, start by hand | no second daemon goes on beside one that has its device; what a start adds a stop takes away; a stop and a reload happen when asked for; the service comes back |
| Keys (`crypto.rs`) | key file | generate, load, save | a key once published stays, unless `init` is repeated |
| `wolfnetctl` (`ctl/main.rs`) | none | print status.json; purge: delete `routes.json`, SIGHUP | - |
| `setup.sh`, container | the operating system | I/O | - |

How they interact: the main loop and the listener share the table through its
locks; daemons share nothing but packets; commands of the shell and the daemon
share the files of the configuration; `wolfnetctl` and the operator reach the
daemon by SIGHUP.

What is hard to test: the order of packets, restarts and timers of two daemons;
the two threads of one daemon between two locks; a command killed, or a disk
full, between two system calls; signals at any step of a start, a reload or a stop; and a reload that makes several passes over a
table which the network keeps changing. `PROJECT.json` lists the hazards
one by one, each with the line where it bites and the properties that cover it.

## 2. Modules

| Module | What it is | Code |
| --- | --- | --- |
| `Session` | two daemons, one tunnel, an unreliable network | `crypto.rs`, `transport.rs`, handlers and timers of `main.rs` |
| `MCSession` | its constants for TLC | |
| `SessionProofs` | theorems about `Session` | |
| `PeerTable` | the table: one operator per method of `PeerManager` | `peer.rs` |
| `PeerDaemon` | the threads that call those methods; `EXTENDS PeerTable` | `main.rs`, `transport.rs` |
| `MCPeerDaemon` | its constants for TLC | |
| `PeerProofs` | theorems about its states, and about its steps | |
| `Routes` | the route tables of all daemons and the files they follow | `peer.rs` |
| `Forwarding` | one packet on its way through daemons and kernels; `EXTENDS Routes` | `main.rs` |
| `MCForwarding` | its constants for TLC | |
| `ForwardingProofs` | theorems about `Forwarding` | |
| `PeerLines` | the `[[peers]]` entries: dedup and merge | `config.rs`, `cmd_join` |
| `ConfigStore` | the three files, call by call | `config.rs`, `load_config` |
| `AtomicConfig` | what the files promise: an atomic store with a backup | |
| `MCConfigStore` | constants for TLC | |
| `PeerLinesProofs`, `ConfigStoreProofs` | theorems about `PeerLines` and `ConfigStore` | |
| `NaturalSets` | induction and least elements, for the proofs | |
| `Join` | nodes that become a network: whole commands, tokens | `cmd_init`, `cmd_invite`, `cmd_join`, `docker/entrypoint.sh` |
| `AddressBook` | what those commands promise: key, address and contacts stay, but for a node that starts over | |
| `MCJoin` | its constants for TLC | |
| `JoinProofs` | theorems about `Join` | |
| `Service` | the processes of one machine and what they share | `run_daemon`, `tun.rs`, `gateway.rs`, key file, `ctl/main.rs`, `setup.sh` |
| `MCService` | its constants for TLC | |
| `ServiceProofs` | theorems about `Service` | |

### Session

Two daemons `A` and `B`. Per daemon: does its table know the other (`known`),
with an endpoint (`addr`), a cipher (`cipher`), a `last_seen` younger than 120 s
(`seen`), and the counters of the cipher (`send`, `recv`). In flight are a set of
handshakes and keepalives, and a set of data packets with their counters.
Delivery leaves a packet in flight or takes it away, so packets are lost,
duplicated and reordered at will. The session key is the static Diffie-Hellman
secret of the two daemons and the same after every restart, which is why packets
of an earlier session still decrypt, and only the counters tell them apart.

`Restart` rebuilds the daemon's table from `config.toml`: a configured peer has a
session with counters 0 from the start. `Discover` is the broadcast listener: an
entry and an endpoint, never a session. `ReceiveHandshake` is the whole handler,
`NewCipher` and the conditional reply included. `current` in a packet and
`synced` are history variables: does the packet belong to its sender's present
session, and was `recv` set by such a packet. `Talkers` are the daemons with something to send:
a packet from the TUN device, one to be relayed, or the peer exchange of every 30 s.

Abstractions: payloads, keys, addresses and roaming; a daemon's clock is the
nondeterministic `Expire`. `Window` (32 in the code) and `RestartLimit` (100) are
parameters with `Window < RestartLimit`, all that the code's numbers are used for. The nonce of
a packet is its counter and the direction; that it recurs is under "Known failures".
`MaxCounter` and `MaxData` bound TLC only: nothing in the properties refers to
them and the theorems hold for all their values.

### PeerTable and PeerDaemon

`peers` maps each WolfNet address to an entry (key, endpoint, configured endpoint
`pinned`, relay, state of the session) or `Absent`. Ids are four bytes of a hash
of the key; the model takes ids of different keys to differ and uses the key.
Hostnames, gateway flags and traffic counts are left out. `PexIgnores` leaves out a filter as well: an
entry of a peer exchange for another /24 than the daemon's is skipped by the code (`peer.rs:705`) and taken in
by the model, which therefore does more than the code; entries for the daemon's own address or an invalid
one are not among those of the model.

The main loop takes and gives back the locks of the table many times within one
packet. `task` says where it is in between: `decrypt`, `roam`, `payload` for a data
packet, `keepalive`, `touch`, `establish`, `resolve` for a pending DNS query, and
`peer`, `pin`, `addId`, `addEntry`, `purge`, `drop` within a reload. The
listener's `HearBroadcast` is enabled at all of them (not during startup: the
listener is spawned later). `update_from_discovery`, `add_from_pex` and
`remove_peer` hold the write lock of `peers_by_ip` from start to end, and all readers
of the indexes that then act on the table take that lock in a later step: they are
one action each. `add_peer` takes its three locks one by one and is three
actions. `with_peer_by_ip` is one action per call, except where nothing but
reads lies between two calls.

A peer exchange with several entries is several exchanges with one entry: the
code handles one entry after the other under one lock, so the model has all its
results, and intermediate ones besides. A data packet opens if the entry found
has the sender's key and a cipher; the replay test is `Session`'s matter and left
out here. Between two DNS queries of one pass the model lets packets in, which the
code does not: an over-approximation. Entries of `config.toml` with an invalid
key or address, skipped by the code, are not among the lists. Addresses that
`resolve_endpoint` rejects (loopback) are like failing names.

### Routes and Forwarding

`exact[n]` and `cidrs[n]` are the tables of daemon `n`. WolfStack, which is not in
this repository, writes the two files; that it writes the same on every node, at
slightly different times, is no different from daemons that read one pair of files
at different times, so there is one `exactFile` and one `cidrFile`, each `Missing`,
`Torn` (does not parse) or with contents. `Reload` is the 15 s timer and the end of
a SIGHUP reload: both files in one step, since packets are handled by the same thread.
`SortedTables` allows every order the hash map may give to entries of one length.
Masks are arithmetic on addresses of `Width` bits. IPv6 addresses are numbers with one
more bit in front, so that one operator serves both tables, `cidrs` and `cidrs6`, as the
two methods of the code are alike but for the width.

`pkt` is one packet: in which daemon (`at`) and where in it (`place`: read from the
TUN device, decrypted from UDP, written to the TUN device). `Outbound` and `Inbound`
are the two halves of the main loop, with the routes tried in the order of the code;
`Kernel` is external: what is not the node's own, its containers' or behind its other
devices goes back to wolfnet0 with a shorter time to live, as the comment at
`main.rs:884` says. Daemons never touch the time to live. Which peers can be sent to is an arbitrary set
each time, so links may come and go, and `Lose` covers packets that fail to decrypt.
A broadcast goes to every connected peer, and to the relays of the others; the copies
have nothing to do with each other, and the model follows any one of them. A peer behind a relay
gets none: the relay takes its copy for itself. A node whose /24 is another one takes the
copy for unicast and routes it. An IPv6 destination goes to the gateway of its subnet
or nowhere. (For any of this to happen somebody has to turn IPv6 on again on wolfnet0, where
`tun.rs:101` turns it off; WolfStack is taken to do so.)
Left out: two CIDRs that differ only in bits beyond their prefix (`10.0.0.1/8` and
`10.0.0.2/8`: the hash map decides between their gateways anew at every load).

### PeerLines, ConfigStore and AtomicConfig

Files are inodes with names: `fs::write` and `fs::copy` create or truncate the
file and then write to the descriptor, `rename` moves a name, and a descriptor
keeps its inode. Each is a step of its own, a command may be killed between any
two (`Kill`), and writes and copies may find the disk full, at once or half way (`FillPart`): what is left
of a file then cannot be parsed, or can up to some entry, since `[[peers]]` come last in it. What is left of a file that
could not be parsed is taken to be unparsable too. Commands are `daemon`
(start), `reload` (SIGHUP), `init` and `join`; `invite`, `token` and `pubkey` load
like the daemon does. `init` may run at any time and looks at nothing. `Wipe` is what the comments of `config.rs` report from the
field: `config.toml` left empty or deleted by something outside the program, while
no command is at work. An entry is a key and an endpoint: a twin is recognised by
its key and by nothing else (`config.rs:229`), so addresses and names play no part in what is collapsed.

A file of a few kB is one `write`, so a kill leaves it empty or whole; writing over
a longer one that another process has just written may leave it garbled. There is
no `fsync`, and power loss is not modelled.

`AtomicConfig` has the stored configuration as one variable, changed in one step by
`Publish`, and `missing`, that there is no `config.toml`. `ConfigStore!Atomic` maps to it: what is stored is what the next load is
meant to return, `config.toml` or, if that is empty or missing, the backup. A command takes
what is stored (`Fetch`) or begins with nothing (`Begin`), and that only if it is `init` or if `missing`: this
exception is the deleted file of the known failures, spelt out in the specification. Two more are: `Snap` may lose the
backup where it was all there was, for `init` only; and `Botch`, a recovery that fails half way, leaves some of the peers of
the snapshot or nothing that can be loaded.

### Join

`init`, `invite` and `join` are one action each, on any node and in any order. None of them looks for what
was there before but as the code does: `InitNode` replaces configuration and key of a node whenever it is run,
and `Invite` on a node without `config.toml` prints a token with the default address. A join may end
after it has generated a key and before it has saved `config.toml`, an init before the key: the
two points at which something is left half done. How `config.toml` is
written is `ConfigStore`'s matter, how the key file is `Service`'s. `tokens` is every token ever
printed, invites and reverse tokens alike; whoever operates node `n` uses those of
`Partners[n]`, however old. A configuration is its address and the address it has for each key:
names, endpoints and masks are left out. `Offered` is what the operators do: a `Founder` runs `init` before it is given
a token, as its first boot does (`docker/entrypoint.sh:22-32`), and names the same address each time it
runs it again. A key is numbered within its node; `Current` keys are those a node has, not those it had before
an `init`.

`Candidate`, `Reached` and `Free` are the loop of `main.rs:377-388`: the octet is a `u8`, goes
round (in a release build), and is compared with 254 after it was counted up, so that the first
candidate is tried whatever it is.

`AddressBook` knows nothing of files, tokens and how addresses are picked: a node takes a key and an address, once each, and adds the keys
of others, who have taken one by then. Only a founder may start over, and loses all of it at once. `Join!Book` maps to it: an address is the one
in `config.toml` unless that is the default, which counts as none, contacts are the keys it lists. A join of a fresh node
does three of these things in one step; a command killed half way some or none. That a join never replaces an address,
a key or a list of peers, and that only `init` does, is what the refinement says.

### Service

Processes of `wolfnet` on one gateway: `Unit`, run by systemd, and others, run by hand as daemons
or as one of the commands that need the key (`pubkey`, `token`, `invite`). `proc[p].at` is the next
thing the main thread does; the steps are those at which it shares something: a read of
`config.toml`, the key file truncated and written, TUNSETIFF, bind, each iptables command, each
handler, the reload flag, the reading of `config.toml` by a reload and its end, the
removal of status.json. `writer[p]` is the status writer, whose test of `RUNNING`, truncation
and write the main thread and its cleanup can come between. Signals come at any step. What they do depends
on how far the handlers are: SIGTERM and SIGHUP are fatal before, and a SIGTERM between `signal()`
and `RUNNING.store` is lost. `End` is what the kernel and systemd do for every process that ends.

The version of `config.toml` stands for its contents: `Readable` ones can be loaded, `Usable` ones have a valid address besides,
and `Port` is the `listen_port`. A start on one that is not usable exits with 1 (`Load`); a reload of one that cannot
be read leaves things as they are (`ReloadConfig`), and it looks at nothing but `[[peers]]`: port and address
are those of the start. `loaded` is the version whose peers a daemon uses, `asked` the
one in place at the last SIGHUP it took. A second daemon gets the UDP socket if its version names another port,
and the device if that is free; `DeleteTun` is `ip link delete wolfnet0` under a
running daemon: its loop then never gets past `poll` unless a UDP packet comes in, and the name is free for another daemon.
All versions name the same interface and the same subnet.

Abstractions: iptables and ip commands succeed, except for a device that is gone; that a key file
is missing and its truncation are one step (two processes that both find none end with one file,
whole or torn, as in the model, but one of them may go on with a key that was overwritten); so are
truncation and write of status.json, of which `wolfnetctl` finds half or nothing and gives up, as it may do
where there is no file;
a daemon that is not a gateway does the same without rules, which is the case of no default route.

## 3. Runs

| Run | Configuration | Checks | Result |
| --- | --- | --- | --- |
| `session` | both configured, B dials, A hears broadcasts and has data to send; counters to 3, two data packets in flight; `FairSpec` | `TypeOK`, `NextPacketAccepted`, `StallsShrink`, `Reconnects`, `StallEnds`, `HandshakesDieOut` | hold |
| `session_discovered` | nobody configured, both hear broadcasts; `FairSpec` | `Reconnects` | violated |
| `table_race` | two peers, two addresses, a host name, the listener running | `TypeOK`, `IdIndexComplete`, `PurgedNotRelayed`, `PinnedSticks` | hold |
| `table_loop` | three peers, two addresses, no listener | `EpIndexSound`, `NoSelfRelay`, `DirectStaysDirect`, `ReloadApplied` | hold |
| `table_readdress` | a reload gives a peer another WolfNet address | `IdKnown` | violated |
| `forwarding` | three nodes, two in one /24, a container that moves between two, a LAN route around it, a default route, two IPv6 routes; `FairSpec` | `TypeOK`, `MostSpecific`, `ContainerFound`, `CirclesEnd`, `EveryHopCloser` | hold |
| `forward_gateway` | the same nodes, one a gateway, no subnet routes | `GatewayPasses` | violated |
| `config_store` | one process, all lists of up to three entries, `config.toml` emptied and deleted | `TypeOK`, `ConfigIsAtomic`, `NeverHalf`, `NothingDropped` | hold |
| `join` | a founder at the last host of its subnet, two more nodes, everyone given everyone's tokens | `TypeOK`, `LinksComplete`, `TokensStayTrue`, `NamesForGood` | hold |
| `join_default` | a founder with the default address, a node that joins it | `FoundersLinked` | violated |
| `join_twins` | a founder, two fresh nodes that are given its tokens, and it theirs | `NoAddressTwice` | violated |
| `service` | the unit and one process by hand; `config.toml` edited twice, first to what cannot be loaded, then to another port; one death, move of the route or deletion of the device; a default route at first; `FairSpecOnline` | `TypeOK`, `DaemonsBounded`, `RulesBounded`, `HangupKept`, `StopsWhenAsked`, `EditsApplied`, `ComesUp` | hold |

Bounds, and why they are enough:

- `session`: window 0 and restart limit 1, with counters 0 to 2 and `recv` up to 2, give packets
  below the window, in it, above it, and on both sides of the restart rule; with two
  packets in flight a late one and a current one arrive in any order. A restart or handshake at any
  time mixes sessions without a bound. Data goes from A to B only: with both directions the run does not fit, and what one
  direction does to the other is `seen` and the endpoint, which keepalives do as well. Both directions at once, and
  all other windows and counters, are in the theorems for the three safety properties.
- `table_*`: two socket addresses are what it takes for a roaming peer, or for two
  peers to compete for one. The third peer in `table_loop` is one to relay through
  that is neither the relayed peer nor the sender. `Lists` has an address, a host name,
  no endpoint, and an empty list. Every key announces an address of its own
  in these two runs. When keys change addresses `IdIndexComplete` and
  `EpIndexSound` do not hold, as `table_readdress` shows for reloads.
- `forwarding`: with addresses of four bits, four to a /24, there are blocks of every size from
  one address to all; two nested CIDRs have one right order and one wrong one. Three nodes
  give a sender, a host and a third party that is relay or gateway; two hosts are what it takes for
  tables to disagree. A time to live of 1 lets a kernel send a packet back once; packets
  that daemons pass round have no such bound. Packets go to a node, to the LAN, to the container,
  to the broadcast address of two of the three nodes, and to an IPv6 LAN.
- `config_store`: two keys, entries with and without endpoint, three entries: a pair
  of twins in every order, and a third party. One process that is killed and started again at every call; two at once break
  what is promised (below).
- `join`: with eight values of the last octet, hosts up to 6 and a founder at 6, the first candidate is
  above the highest host, the next ones go round and over an address in use. Three nodes that may all join each
  other have fresh nodes that join, are joined and are joined again, before and after the founder's second `init`;
  two keys per node are that many `init`s, or one and a key generated by a command that was killed.
- `service`: two processes compete for key, device, port and rules; with two edits a SIGHUP comes
  before, during and after a reload, and finds a file that cannot be loaded, or can again; a second daemon with another port
  gets as far as its device lets it. One upset is what leaves rules or a torn key behind, or a daemon without its device. One
  interface suffices: a move of the route to none and back passes it by at a start or a stop.

Deadlock is checked in all passing runs: no thread or command can get stuck.

### Fairness

`Session!Fairness`: the timers of the main loop run every 10, 25 and 30 s as long as
the daemon does, so a handshake that stays due is sent (`WF`), and a keepalive or peer
exchange that is due again and again, though not all the time, is sent at times
(`SF`). Broadcasts go out every 2 s (`WF`). UDP loses packets but not all of them:
what is sent again and again is received at times (`SF` on the receiving actions).
`Forwarding!Fairness`: the main loop handles what it reads (`WF` on `Handle`), and the
15 s timer reloads the routes of every daemon again and again (`WF` on `Reload`).
`Service!Fairness`: the kernel schedules the main thread of every process (`WF` on its next step), and
systemd starts its unit again 5 s after a failure (`WF` on `StartUnit`). Nobody is obliged to send
a signal, start a process or delete the device; `ComesUp` assumes that the deletions stop,
that the unit stays wanted, and that `config.toml` comes to stay usable: with one that is not, every start exits. `StopsWhenAsked` is about
a SIGTERM that its handler has taken; one that comes between `signal()` and `RUNNING.store` is lost (`Terminate`). The status writer has no fairness: nothing waits for it.
Restarts, silences and losses have no fairness and may happen or not;
`Reconnects` assumes that restarts stop at some time. `StallEnds` and `HandshakesDieOut`
assume that both ends stay connected from some time on.

### What the violations show

1. *Discovered peers can stay apart* (`session_discovered`): without a session from
   `config.toml`, an end that restarts or whose handshake reply is lost dials for ever:
   the other end is kept "connected" by those handshakes and does not reply.
2. *A peer with a new address is unreachable by id* (`table_readdress`): the purge of
   the old entry removes the index entries of the new one.
3. *A gateway drops what it is a gateway for* (`forward_gateway`): other nodes send it
   packets for the outside, and its inbound path knows peers and routes only. A
   subnet route `0.0.0.0/0` naming the gateway, on the gateway itself, makes it work.
4. *The default address does not last* (`join_default`): a founder at 10.0.10.1, the default of
   `init` and of the container, is taken for a fresh node when it runs the reverse join, and moves to the
   address after its peer's. The peer has stored the old one.
5. *Two nodes get one address* (`join_twins`): a fresh node that joins takes the first address after the
   inviter's that its own list of peers does not hold, and that list is empty. Two fresh nodes that are given
   the inviter's tokens both take the next one, and the inviter stores both after the reverse joins.

### Known failures

Seen in the same models, with other constants or by an exception in a property, and not among the runs:

- `config.toml` deleted, its backup there: `config.rs:152` promises recovery if "the primary file is missing or
  empty", but `load_config` (`main.rs:465`) returns defaults before `Config::load` can look at the backup. Only a reload
  recovers it. `AtomicConfig!Begin` makes an exception for `missing`; without `\/ missing` there, `ConfigIsAtomic` fails
  in a few steps. A join that begins like this publishes a configuration with one peer.
- `init` where `config.toml` is empty and the backup is all there is: the snapshot of the empty file takes its place
  (`Snap`). A recovery that fails half way leaves a part of `config.toml`, non-empty, so that the next load
  takes it for good (`Botch`).
- Two commands that save at once (`Proc` of two): a rename publishes the file the other has just
  truncated, and `NeverHalf` fails; likewise the peer added by one of two joins is lost.
- Nonces recur. The key of a tunnel is the static Diffie-Hellman secret, and every new cipher (`main.rs:530` at a
  start, `main.rs:786` at a handshake) counts from 0 again, so two packets of different sessions have the same nonce under the same key;
  `crypto.rs:118` ("to prevent nonce reuse") keeps the two directions apart and no more. In `Session` these are two packets with one `counter`.
- A handshake received by a connected daemon resets its counters and not its peer's, which then
  rejects fresh packets as replays. `StallEnds` shows that this passes.
- A peer that has roamed to an address before the operator writes that into its endpoint line is not pinned by the
  reload (`main.rs:1020`), and free to roam away again, unlike after a restart. `PinnedSticks` is about peers that are pinned,
  `ReloadApplied` says nothing of pins.
- `init` repeated replaces the configuration, peers included, and the key (`main.rs:160-182`): what others have stored of the node is
  void, and `LinksComplete` and `TokensStayTrue` speak of current keys. If it names another address and is killed
  before the key, the old key is at a new address; the model's founders name the same one.
- `invite` without `config.toml` prints a token with 10.0.10.1. Used, it overwrites the address stored for that key, and the
  properties leave out entries with the default address.
- A process killed while it writes the key leaves half of one, and no daemon starts again until somebody deletes it (`ComesUp`).

## 4. Theorems

`SessionProofs` (for every window below the restart limit, every configuration and
every bound):

- `TypeCorrect` and `LiveSessionAccepted`, from one inductive
  invariant `SessionInv`. `NextPacketAccepted` is not inductive: that the next packet
  passes the replay test follows from `recv[n] < send[Other(n)]` for a synchronised
  receiver, which is kept because current packets lie below `send` (`CurrentBelow`),
  and those two are what `SessionInv` adds.
- `StallsAlwaysShrink`, an action property from the same invariant, and the safety half of
  `StallEnds`: a receiver that takes its peer's packets for replays is behind a counter that no
  step moves further away, late packets excepted, of which there are no more to come while the peer's session
  lasts. What is left to fairness is that the peer goes on sending.

`PeerProofs` (for every set of peers, addresses and configurations):

- `TableTypeCorrect` and `PurgedStayUnrelayed`, from `TableInv`: beside the two, that the
  reload has a peer in hand wherever it needs one (`PeerInHand`) and that a purge has a
  target (`DropTarget`).
- `IdsIndexed` and `RelaysAreOthers`, from `HomeInv`, under `OwnAddress`: announcements and
  configurations give every key one address, and no two keys the same. `HomeInv` adds
  to the two properties that every entry is at its key's address (`AtHome`), what
  the reload still has to do is too (`TodoAtHome`), a key mapped by `add_peer` stays
  mapped until its entry is there (`IdAdded`), and the sender of a payload is
  connected while its payload is used (`SenderLive`): this is what keeps a peer from
  being made its own relay.

  The assumption `OwnAddress` is needed: `table_readdress` is the counterexample without it.
- `PinnedAlwaysSticks` and `DirectAlwaysStaysDirect`, action properties of every step of both
  threads, with no further assumption. What is pinned is what the table says, not what `config.toml` does. Of each method of the table one lemma says what it does to the entries it
  finds (`Keeping`); the invariant beside `TableInv` is `Unpinned`: an address
  that is not in the table has no configured endpoint, so that what a lookup that finds
  nobody returns is never taken for a pin.

- `IndexAlwaysSound`, under `OwnAddress`, `KeysOnce` (no key twice in a `config.toml`, which
  `Dedup` sees to) and `~Discovery`. `EpInv` adds that what is not in the table has no endpoint
  (`NoGhost`), and that the peers a reload has yet to add are listed once and are not in the table
  (`TodoNew`, `AddsNew`): `add_peer` replaces an entry without unmapping its endpoint. With the
  listener it fails, since a broadcast may put a peer there between the sections of `add_peer`.
- `ReloadAlwaysApplied`, under the same three assumptions. Of a step from the purge to idle it
  says what `ReloadInv` says of the state before it: what of `config.toml` is not in force is yet to
  be read (`PartlyApplied`); the endpoint of the peer in hand is that of its line before it is
  pinned or added (`InHandApplied`); and during the purge all of it is in force, no peer of it
  is to be dropped, and who is beside it is no ghost or is yet to be judged (`PurgeApplied`).

`ForwardingProofs` (for every width, set of nodes, LAN, container and contents of the files):

- `ForwardingTypeCorrect`: what the lookups return is a node or nobody.
- `ContainerAlwaysFound`, a step of a packet at a time, from type correctness: the lookups for an
  address with an exact route never get as far as subnets and gateways, on the way out or in. It
  assumes `ContainersUnicast`, that no container has the broadcast address of some
  node's /24; the code takes such a packet for a broadcast before it looks at any route.
- `AlwaysMostSpecific`, with no assumption. The invariant is that every table is sorted by
  descending prefix (`TablesSorted`), so that the first entry that matches is the most
  specific. That masking an address tells whether a block holds it is arithmetic: the size of a
  block is a power of two, which the model counts as the subsets of the host bits, and two
  addresses are in one block where division by it says so (`SameBlock`).
- `EveryHopAlwaysCloser`, from type correctness and no other assumption: while all daemons send packets
  for a destination the same way (`Agreed`), which may be wrong, `Distance` goes down at every step. A
  packet read from a TUN device goes to a relay, to where the tables say, to its destination, and into a kernel, which takes
  one from its time to live before it sends it back: five steps for each of these rounds. This is the
  bound on hops behind `CirclesEnd`, whose other half is that the tables come to agree.

`PeerLinesProofs` (for every list of `[[peers]]` entries):

- `DedupKeeps` and `DedupOnce`: collapsing leaves one entry per key, loses no key and no known
  endpoint, and does nothing to its own result. Both go by induction over the length of the
  list, with `NaturalSets`: an induction principle for sets of naturals, from well-foundedness.

`ConfigStoreProofs` (for every list of entries, key, token and initial file, whatever is wiped), under the
assumption `OneProcess`. What happens without it is under "Known failures":

- `StoreTypeCorrect`, `AlwaysWhole`, `SavesDropNothing` and `StoreImplementsAtomic`, the last of which says that initial states map to initial
  states of `AtomicConfig`, and every step of the files to one of its steps or to a stutter.
  All come from `StoreInv`: beside types, that is per process which
  files it has open by which name and what they hold at this point of the command (`InHand`). From
  it follows what a kill or a failure at any call leaves behind: a staging file that is ignored, a
  backup in part beside a whole `config.toml`, or a part of `config.toml` beside a whole backup, and that only where
  `config.toml` was unusable before: this is what `AlwaysWhole` says of every step of every command, recovery included.
  `SavesDropNothing` takes from
  it that the configuration in hand covers the one on disk, and from `DedupKeeps` that
  the write-back of a load does too.

`JoinProofs` (for every set of nodes, every subnet and every way tokens are handed on):

- `JoinTypeCorrect`, with no assumption: the loop that goes round the last octet ends in an address.
- `TokensAlwaysTrue` and `LinksStayComplete`, under `FoundersSettled`: no founder takes the default
  address. The two depend on each other, as tokens are made from configurations and
  merged into them: what both hold is true while the key in them is its node's, and no such key is newer than that of
  the node (`AllHold`), so that a key given up with an `init` never comes back. And they depend on `Settled`, that no node with a
  configuration is at the default address, by which `cmd_join` tells a fresh node, and `FoundersStay`, that a founder is
  where `init` puts it: a node that has given its address away never changes it. `JoinInv` is the conjunction with
  types. `join_default` is the counterexample without the assumption.
- `JoinImplementsBook`, with no assumption: initial states map to initial states of
  `AddressBook`, and every command, `init` at any time included, to a step of it or to a stutter. It needs, beside types, that a
  key in a token belongs to a node that has one (`KeysGiven`).

`ServiceProofs` (for any number of processes, edits and upsets):

- `ServiceTypeCorrect`.
- `DaemonsAlwaysBounded` and `RulesAlwaysBounded`, from one invariant `RulesInv`, for any number of versions and ports. A second daemon is kept out by the
  device and not by its port, so daemons are counted by what became of their devices: those in charge without theirs are no
  more than the upsets (`Deviceless`). Rules are handled first to last
  (`FromFirst`), and the copies of each, with those still to be added, are no more than the upsets and one more
  where a daemon has its device (`RulesKept`): it answers for one copy, and every other copy is paid for by an upset of its own, a death, a
  lost device, or a move of the default route.
- `HangupsAlwaysKept`, the safety half of `EditsApplied`. `HangupInv` adds that no version a daemon
  uses or was asked to use is newer than the file: then a read of `config.toml`, if it can be loaded, is up to date with every
  SIGHUP before it, and one that comes later sets the flag again, which was taken before the read.

Only model-checked is liveness, since fairness is out of the prover's reach: `Reconnects`, `StallEnds`,
`HandshakesDieOut`, `CirclesEnd`, `StopsWhenAsked`, `EditsApplied` and `ComesUp`. Every other property the
passing runs check is stated by a theorem.

## 5. Not modelled, and the plan

Not modelled: the cryptographic primitives, packet layouts and parsing, the sysctl and NetworkManager
settings of `tun.rs` and `gateway.rs`, which no later step reads, what `wolfnetctl` prints, and
installation. Power loss is not: nothing is synced before the rename of `config.toml`, and what a
file system makes of that is not in this code. Two steps are in the models and
have no property, as the code promises nothing there: the answer of the name service is applied to whoever
holds the address by then (`main.rs:968`), and a peer is judged under one lock and purged under the
next (`main.rs:1089`).

Planned: `Join` over `ConfigStore`, two joins on one node at once; the deleted `config.toml` and the unpinned reload as runs of their own.
