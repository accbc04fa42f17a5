# redan, specified

redan runs an agent's command inside a microVM whose only network is a proxy on
the host. The guest resolves every name at the proxy, connects to the address it
is given, and the proxy ends TLS, checks an allowlist, puts secrets into requests
and takes them out of responses. Around the proxy stand the launch of a session
from layers of configuration, a store of sessions, a store of images, a store of
trusted project configurations and a browser on the host.

This directory holds TLA+ modules of that code, TLC configurations that check
them on small instances, and proofs for every instance. Paths below are relative
to the repository's `src/`; `proxy.rs` is `src/proxy.rs` and so on.

## Inventory

| Component | State | Operations | Meets | Hard behaviour | Correct when | Module |
|---|---|---|---|---|---|---|
| Synthetic resolver (`proxy.rs` 103-162, 546-581, `dns.rs`) | two hash maps, a u8 counter, the interface's address table | `alloc`, `hostname_for_ip`, `process_dns`, `handle_query` | called by the event loop, read by the SSH scan | the pool runs out, addresses live in the guest's cache | an address told to the guest leads back to its name for ever | `HostMap` |
| Event loop (`proxy.rs` 247-505) | socket set, backlogs, connection table | poll, scan, shuttle, reap, stop | the guest through smoltcp, the threads through channels | a slot lost on a rejected path, a table at its limit, the end of the loop under live threads | backlogs keep their slots, the table its limit, released slots come back | `ProxyLoop` |
| Connections (`proxy.rs` 600-923) | `ConnState`, `pending_send`, `send_offset`, two channels | `shuttle_bytes`, `drain_to_socket` | the loop calls, the thread sends and receives | windows and channels full, thread or guest gone first, compaction | bytes in order, none lost or repeated, no close before the last byte | `ProxyLoop` |
| Relay threads (`proxy.rs` 1312-1464) | an upstream socket, a main and a read thread | connect, forward, read, join | the channels, the upstream | join of a blocked reader, services that never speak | threads end when their connection does | `ProxyLoop` |
| TLS pipeline (`proxy.rs` 932-1303, 1503-1666, `tls.rs`, `ca.rs`) | request and response buffers, upstream stream, certificate cache | handshake, request loop, checks, connect, relay, close | the channels, the upstream, `secret.rs` | requests and responses in pieces, five names for one destination, hosts that stall | a request goes out whole, to its own host, with that host's secrets; the thread ends | `TlsPipeline` |
| Secrets (`secret.rs`, `provider.rs`, `proxy.rs` 1468-1499) | bindings of placeholder, value and hosts | `inject`, `rewrite_request_headers`, `scrub`, `write_scrubbed_chunk`, `rewrite_connection_close` | called by the TLS pipeline | a secret across two chunks, several secrets | no value reaches the guest, chunks make up the whole | `SecretText` |
| Virtio-net device (`net.rs`) | a queue of frames to send, a blocking mode | `receive`, `flush_tx`, `peer_closed` | libkrun over a byte stream | part of a frame written or arrived, a VM that dies inside a frame | frames stay in step, the loop notices the loss | `NetDevice` |
| Trust store (`trust.rs`, `cmd/trust.rs`) | `trust.json`, its temporary file | trust, untrust, decide, load | several redan commands at once | lost updates, a shared temporary file, crashes | what was revoked is not trusted, the store survives a crash | `TrustStore`, `TrustRecord` |
| Sessions (`session.rs`, `main.rs` 542-611, 1060-1403, `cmd/exec.rs`) | a directory per session with `meta.json` and `daemon_config.json` | launch, daemon, stop, remove, list | launcher, daemon and later commands through files and signals | the daemon's start against the launcher's write, removal of a live session, reused pids | the status tells what became of the session, secrets do not stay on disk | `Session` |
| Image store (`image.rs`, `image_meta.rs`, `main.rs` 1405-1506) | image directories, a backup, the base tarball, a Docker tag | create, the imports, update, remove | commands through the file system and Docker | builds that fail, are killed, meet | an image is whole or in the backup, its metadata the truth | `ImageStore` |
| Configuration (`config.rs`, `auto_detect.rs`, `trust.rs` 57-121) | none | detection, `overlay`, `analyze`, the merge of the command line | the launch | two merges with different rules, four layers | the session is what its layers say | `ConfigLayers` |
| Launch (`main.rs` 680-1060, `cmd/exec.rs`, `vm.rs` 406-449) | root file systems shared by launches, the trust in the project's file | `exec_command`, `run_command`, `launch`, `cmd::exec::run` | trust store, images, sessions, browser, proxy | launches on one root file system, failure between any two steps | nothing of an untrusted file takes effect; a guest has its own certificate and policy | `Launch` |
| Browser (`browser.rs`) | a Chrome process group, a profile directory, a count of workers | launch, accept, tunnel, drop | host network, the launch | Chrome that hangs or crashes, helpers, threads blocked in reads | nothing is left behind, the drop ends, workers come back | `BrowserProxy` |
| VM, FFI and console (`vm.rs`, `ffi.rs`, `terminal.rs`) | libkrun context, terminal mode | boot, shutdown, raw mode | libkrun | the death of the parent between fork and prctl | the VM goes with its daemon | in `Session` and `Launch` |
| Set-up and reports (`cmd/init.rs`, `templates.rs`, `logfmt.rs`, `cmd/doctor.rs`) | none | prompts, probing, formatting | the user | none | - | - |

The hazards, each at its line and with the properties that would catch it, are in
`PROJECT.json`.

## Modules

| Module | Stands for |
|---|---|
| `HostMap` | the resolver |
| `ProxyLoop` | the event loop with its connections, channels, relay threads and guest; extends `HostMap`, whose step is the loop's DNS phase |
| `ProxyProofs` | the theorems of both: the resolver; slots, relays and cut-off threads, with the loop's refinement of the resolver; the order of the bytes |
| `SecretText` | `secret.rs` and the chunk scrubber as operators |
| `TlsPipeline`, `TlsProofs` | the TLS thread, over `SecretText`; where secrets go, that one whole request goes out, that the response is scrubbed and that its pieces make up the whole, proved |
| `NetDevice`, `NetProofs` | the device between the loop and libkrun; that its frames keep in step, both ways |
| `Session`, `SessionProofs` | a session on disk and in the process table: launcher, daemon, VM child, `stop`, `sessions remove` |
| `TrustRecord` | what the trust store promises: a record changed by one grant or revocation at a time |
| `TrustStore`, `TrustStoreProofs` | the trust store and its commands; theorems, and the step to `TrustRecord` |
| `ConfigLayers` | agents, config files, command line, and their merges, as operators |
| `Launch`, `LaunchProofs` | several launches from command line to finish, over `ConfigLayers` |
| `ImageStore`, `ImageProofs` | one image, its backup, the tarball and the Docker tag under several commands; its four invariants, proved |
| `BrowserProxy`, `BrowserProofs` | Chrome, its proxy with workers, and redan's main thread |
| `MCConn`, `MCPool`, `MCTls`, `MCNet`, `MCSession`, `MCTrust`, `MCLaunch`, `MCImages`, `MCBrowser` | instances for TLC |

A definition whose name ends in `_Something` behind a definition's own name is a
mutant: what that code would be with one plausible mistake. No behaviour of the
modules uses one.

### HostMap

`forward`, `reverse` and `next` are the fields of the struct; `addrs` is
the interface's table; `answers` is a history of what the guest was told.
One action, `DnsQuery`, is one turn of `process_dns` with the caller's
`update_ip_addrs` for the address it returns; a query has a class and a type,
because the code allocates before it looks at them. An address is the last octet.
A name is a model value; the code compares names by case, so two spellings are
two names. The comparison with "localhost" ignores case: `LocalNames`
is the set of its spellings.

### ProxyLoop

The loop is the thread of `run`. `pc` is its phase:

| phase | code | actions |
|---|---|---|
| `poll` | `iface.poll`, `flush_tx` | the guest's frames, then `EndPoll`; `Stop` (timeout or closed device) |
| `dns` | `process_dns` | `ProcessDns`, `EndDns` |
| `accept` | the scan of the backlogs | `Accept`, `Reject`, `EndAccept` |
| `shuttle` | `shuttle_bytes`, `reap_done` | `Shuttle` |

`changed` is `SocketStateChanged`: without it the loop goes from `poll` to
`shuttle`. `Shuttle` serves every connection in one step. That loses no
interleaving a property can see: connections share nothing with each other, and
a thread's step between two connections of one pass commutes with the connection
that is not its own.

`place` says who owns a handle: a backlog, the connection table, nobody (a
rejected socket, which the code closes and never removes), or reaped.
`c[h]` holds the smoltcp socket (`tcp`, `rx`, `tx`), the `ProxyConn` (`state`,
`pending`, `offset`) and the two channels (`to`, `from`), each a queue and
whether either end still exists. `wr` and `rd` are the connection's thread and
the read thread of a relay. The remaining variables are histories: what the guest
sent and got, what the threads took and wrote.

Bytes are chunks numbered from 1 in each direction. A handle is used once, so
that a thread that outlives its connection can be told from later ones.

The smoltcp socket is external and modelled from what the code relies on:
`may_recv` is true while the peer may still send or bytes wait; `may_send` in
Established and CloseWait; a reset leaves what was received readable.
SynReceived is folded into Listen, FinWait1 and FinWait2 into one state, Closing into
LastAck and TimeWait into Closed, since the code distinguishes none of these
pairs.

The TLS thread is modelled at its two channels: it takes chunks, writes chunks,
and returns at any point. Both relay threads are modelled in full; the forward
relay differs in having no timeouts on its upstream.

### SecretText and TlsPipeline

A response is a sequence of symbols, because what is hard about it is where a piece
ends; a request is its parts, each with the set of placeholders and values it holds,
because what is hard about it is which of them are in it when it leaves.
`ByteReplace`, `Scrub`, `WriteScrubbed` are the loops of `secret.rs` and
`write_scrubbed_chunk`. Base64 is a kind of header: `Authorization: Basic` is looked
into, any other encoding is not.

A request may name several hosts: in its Host headers, of which `Verdict` looks at the first as
`extract_host_header` does (1617-1631), and in a target in absolute form, at which nothing looks;
`inject` passes them all on.

`TlsPipeline` is one connection after the other of `tls_connection_thread`:

| `pc` | code | actions |
|---|---|---|
| `handshake` | first read, `MitmCertResolver`, the key cache | `Handshake` |
| `request` | the loop that collects a request | `ReadPiece`, `GuestCloses`, `ReadFails` |
| `verdict` | allowlist, CONNECT, upgrade, lengths, Host, chunked | `Refuse`, `Pass` |
| `connect`, `upHandshake` | `connect_upstream`, `is_private_ip`, the handshake's limit | `Connect`, `UpstreamHandshake`, `UpstreamFails` |
| `send` | rewrite, inject, write | `Send` |
| `relay`, `flush` | the relay, header rewrite, scrubbing, `close_notify` | `RelayRead`, `UpstreamClosed`, `UpstreamStops`, `RelayFails`, `Flush` |

The thread does not keep connections alive: `Connection: close` is put into the
request and into the response, so there is one request for each connection, and what
must not mix is what a connection leaves in the shared cache and the discovered hosts.
`LoopDrops` is the loop cutting the channels; everything else about them is in
`ProxyLoop`, where the same thread is free to do anything at its channels.

### NetDevice

A frame goes over the wire as two prefix units and one unit per length. `out` and `in`
are all that was ever written to and arrived at the socket. `WriteAll` is `write_all` on a
non-blocking socket: what fits is gone, the rest fails. The peer may stop reading, stop
writing inside a body, or die, at any unit; a prefix arrives in one piece. `lost` holds
the frames that left the queue and found no room at all. That a peer that lives ends the frame it
began is assumed (the device reads a body in blocking mode and would hold the whole
loop).

### ConfigLayers and Launch

A config's maps are functions, its host lists sets, its forwards a sequence because a
repeated port is an error. What is formatted and parsed again is a text of tokens, of which
the code looks for a few: `SecretSpec` and `MountSpec` are `config.rs:82` and 88-101,
`ParseSecret` and `ParseMount` what `cmd/exec.rs:465-480` and 552-563 make of the text, so an entry may
come back as another. `Overlay` is `config.rs`'s merge of a file over an
agent's profile (deduplicating), `Merge` the head of `launch` (not deduplicating), and
`AllowedHosts`, `ForwardsValid`, `SpecsValid` what `cmd::exec::run` makes of the result.
`NoList` and `Listed` are the two cases of its `Option<Vec<String>>`: a "*" among the allowed
hosts means no list at all, and a secret's hosts join a list that is there. A secret for
"*" ends the launch (`SecretBinding::new`). `Extend` and `Over` are the loop over the forwards and `HashMap::extend`.

`Launch` has launches as processes, with one action for each step that can fail by
itself or that another launch can see: load and trust, target, image build,
merge, staging of credentials, detach, session, CA certificate, specs, policy, boot,
forwards, browser, proxy, shutdown, finish. `disk` is the root file systems, which
libkrun serves to running guests live. `overrun` names a launch whose root another launch has
written to since, `unwritten` one whose policy could not be written, which does not stop it
(`cmd/exec.rs:650-656`). `agreed` is a yes at the prompt: it counts for the launch also when the
store could not record it (`cmd/trust.rs:44-46`). The session's files are left to `Session`, the proxy to
`ProxyLoop`, the browser to `BrowserProxy`.

### ImageStore

A directory is a record of the sources its files are from, whether they are
complete, and what its metadata names. A build is a path through the actions
that its kind selects: `create` downloads, extracts and sets up in a VM; `docker` pulls; the
others build, tag, import by tag, remove the tag and record a second time.
`Update` moves the image to `.bak`, builds, and drops or restores the backup. Every
action is one call to the file system or to Docker, any process may be killed
between two, and each call may fail. `remove_dir_all` that fails leaves any part of the
directory (`Remains`), and `faults` keeps what failed and was left as it was: the code ignores
the error (`main.rs:1460`, `image.rs:196`, 336, 394, 400, 606) or ends with it (`image.rs:97`).
The look for the tarball, curl's opening of it and its end are three actions: `writer` is
whose curl emptied the file last, because only that one's end makes it whole.

### BrowserProxy

`redan` is the place of the main thread, in `Browser::launch`, the session and the drop;
`loop` the accept thread; `worker[c]`, `relay[c]` a worker and its two directions.
Chrome may crash, hang, ignore SIGTERM, take a call and not answer it (`silent`), keep a connection
that it does not read (`deaf`), and leave helper processes, which hold the pipe
and write to the profile. A call that is not answered has no timeout, and comes back as Chrome
likes (`Answered`). All other timeouts are steps that may come whenever what is waited
for has not.

### Session

The processes of a session share only a directory and pids, so every file
operation and every signal is a step of its own, and each process may be killed between
two of its steps.

| variable | code |
|---|---|
| `dir`, `config`, `meta` | the session directory, `daemon_config.json`, `meta.json` |
| `launcher` | the place in `exec_detached` |
| `daemon` | the place in `run_daemon` and `exec::run`, or in `exec::run` alone for a session in the foreground |
| `vm` | the child of `Vm::boot`: forked, armed (`prctl`), up (past `getppid`), dead |
| `term`, `reused` | a pending SIGTERM; the dead daemon's pid in another process |
| `stop` | the place in `stop_session` |
| `snap` | what `sessions remove` without an id listed and has yet to judge |

`SessionMeta::save` is two steps, `SaveOpen` and `SaveWrite`, because `fs::write`
truncates before it writes: a reader in between finds a file that does not parse.
`pid` names whose pid is stored; a stored pid is alive if a process has it, whichever
(`is_alive` looks for `/proc/<pid>`). Removing a directory is one step. Session ids are not used
twice: a launch happens once for each.

### TrustStore

`store` and `tmp` are the inodes that `trust.json` and `trust.json.tmp` name, `data` is
what an inode holds. Inodes are needed because `write_store` opens the same temporary
name in every process: a second open truncates the file the first has open, and a write
goes to the inode, wherever a rename has moved it. `pc`, `job`, `copy` and `fd` are the local
state of a command: `ReadStore` is `read_store` and the change in memory, then come
`OpenTmp`, `WriteAll` (or `WriteFails`) and `Rename`; `Exit` is a kill at any step, or an
end. `Overlay` says what is left when a map is written from offset 0 over another
writer's: a longer text keeps its end, and does not parse.

The config file is not a variable. It may be edited or removed between any two looks at it,
so each look is a free choice, and `is_trusted_in` may always find that the path no longer
resolves. `granted` is the history of what users agreed to, by `redan trust` or at
the prompt. `overlap` is true from the moment a command reads the store while another is
between its read and its rename, until no writer is left.

## Runs

| Run | Question | Instance | Result |
|---|---|---|---|
| `conn` | does a connection keep its bytes in order and whole, and cut off its threads? | one connection of each kind, two chunks up, three down, every buffer of one chunk | holds |
| `conn_live` | do bytes arrive, threads end and slots come back? | the same with one chunk up and two down, under fairness | holds, with four named exceptions |
| `pool` | does the scan keep the slots, the limit and the right SSH host, and does every address lead back to its name, past the end of the pool too? | two backlogs, four sockets, a table of one, three names and a local one, two addresses, an allowlist of one | holds |
| `tls` | where do secrets go, what goes upstream, what comes back, does the thread end? | two connections, fifteen requests, three policies, every response of up to four symbols in pieces of one or two | holds |
| `net` | do both directions stay in step, and is the VM's end noticed? | three frames out, two in, of three lengths, a send buffer of four units | holds |
| `session` | does the status tell the truth, does the VM go with its daemon, do the secrets leave the disk? | one session, under fairness; crashes, stop and both kinds of removal at any step | holds |
| `trust` | is only trusted and run what was agreed to, and is a command alone atomic? | two commands, two paths, two texts of which one reaches the host, four inodes | holds |
| `launch` | does anything of an untrusted file take effect, is a session the merge of its layers, does a guest see its own certificate and policy? | two launches, nine command lines, seven machines, any images there or not | holds |
| `images` | is an image ever lost, is metadata the truth, is a tarball usable, can a failed update be tried again? | two processes, three commands of every kind that differs, one kill, any call failing | holds |
| `browser` | what is left behind, does the drop end, do the workers come back? | two tunnels on one worker slot, under fairness | holds |
| `daemon_metadata` | "reload existing metadata (written by exec_detached)" | one session | violated |
| `trust_corrupt` | "a crash mid-write can't corrupt the store" | as `trust` | violated |

Deadlock is not checked where the system may stop: the proxy after `Stop`, a session
that ended, a launch that is done, commands that were all given.

What the two violations show:

- `daemon_metadata`: the daemon is spawned before its metadata is saved. A daemon that
  gets to its read first exits, after it has unlinked its configuration; the launcher then
  reports a session that runs.
- `trust_corrupt`: a writer truncates the temporary file between another's write and
  rename. What is renamed is empty; if the second writer dies there, it stays so, and all configs
  count as untrusted. Nothing becomes trusted by it (`TrustedWasGranted`).

### Exceptions the properties name

A property that holds says what the code does, so where the code leaves a gap the
property names it. All of these are reachable in the models:

- A connection in `Draining` that the guest resets keeps its slot until the proxy ends
  (`proxy.rs:813`; the comment at 787 says it closes). So does a connection to port 80
  whose guest leaves before its first byte (743) and a forwarded service that never
  speaks again (1401), and an SSH connection or a forward whose guest has closed its own side, for as long
  as the upstream sends: `shuttle_bytes` waits for a socket that is no longer active (806), and
  the read timeout of 30 s never comes. All four are exceptions of `SlotsReleased`; a TLS
  connection ends, because a response may have `MAX_RESPONSE_SIZE` and no more.
- A failed `write_all` in `flush_tx` leaves part of a frame on the wire, and everything
  after it is out of step (`net.rs:44`): `TxInStep` is about streams without one.
- `try_recv_frame` reads the prefix without blocking and drops a part of it (`net.rs:55-57`):
  in the model a prefix arrives in one piece.
- Only the first Host header is compared with the SNI (`proxy.rs:1627-1630`), and `inject` passes on
  every header line and the target as it is: a request with a second Host header, or with a target
  in absolute form, goes upstream with its secrets whatever hosts these name: `SecretsGoHome`. What the
  read that completed a request brought of a next one goes upstream behind the body
  (`proxy.rs:952`): `WholeRequestSent`.
- A secret longer than the scrubber's cap may show when it spans two chunks
  (`secret.rs:311`), and one made of pieces of `Connection: close`, which is added behind
  the scrubbing (`proxy.rs:1238`): `NoSecretToGuest`. Secrets that overlap each other, and
  headers without an end at a cut stream: `ChunksMakeTheWhole`. A value made of pieces of a
  placeholder (`redan_ph_`, the variable's name, hexadecimal digits) is outside the model: there the
  bytes of placeholders are bytes of their own.
- Two commands that change one image meet without a lock; a removal that is killed or fails
  half-way leaves part of an image under its metadata; a compose service that could not be tagged
  (`image.rs:606`) is imported from whatever the tag was left on; a killed download stays
  under its final name and counts as cached; a failed extraction, or a clean-up that failed, leaves a
  directory that keeps the backup from being restored, and a backup that could not be removed
  makes every later update fail: the properties of `ImageStore`.
- An image of a weaker layer is taken before a `--rootfs`: `SessionIsTheMerge`. An entry whose text
  does not say what the entry says is parsed as something else, and `trust::analyze` judged the
  entry: a colon in a secret's host or an equals sign in its name (`config.rs:82` against
  `cmd/exec.rs:465-480` and `trust.rs:98`), a colon in a mount or a target `ro` (88-101 against 552-563).
  `SessionIsTheMerge` and `HostReachTrusted` are about the other entries. A second
  launch on the root file system of a running guest replaces its certificate and policy, and a
  policy that cannot be written leaves the last session's, or a part: `GuestSeesItsOwn`.
- A failure between the profile directory and the proxy thread leaves the directory, and so does a
  removal that fails (`browser.rs:198`, 296); helpers that outlive Chrome's leader make it
  again, or hold the pipe a failed launch reads. A Chrome that takes a call at its CDP port and does not
  answer holds the launch for as long as it lives: the limit of 10 s is looked at between
  calls that have no timeout (303-310). A server that stays silent keeps its worker, and so does a
  client that stays open and does not read (354 sets a timeout for reads, 553-564 writes
  without one); a failed spawn keeps its count: `BrowserProxy`.

### Seen while modelling

Facts of the code that no property states, most of them because no doc promises otherwise:

- Several texts are behind the code. `docs/security-model.md:16-17`, `dns.rs:3` and `proxy.rs:4`
  have every name resolve to the gateway, where `process_dns` gives each name an address of its own (`proxy.rs:543-581`).
  `docs/security-model.md:143-145` has the Host header not validated against the SNI, which lines
  150-152 of it and `proxy.rs:1053-1069` contradict for the first one. `cmd/exec.rs:325` says that a failure there
  "would orphan" the VM that already runs, but the VM asked to be killed with its parent
  (`vm.rs:118-121`), which is what `VmNotOrphaned` rests on.
- `trust::analyze` looks at the tree as it is when it is asked (it canonicalizes mounts and the
  root file system). `Reaching` is a constant of the text: an edit of the tree between the analysis and the
  mount is not in `TrustStore`.
- There is no backpressure: the loop takes all the channel holds on each pass
  (`proxy.rs:784`), though 672-673 says the thread blocks. Compaction is skipped for a
  guest that keeps up, as `drain_to_socket` returns first (836, against 849).
- `Closing` waits without a timeout (821). A rejected socket is closed and never removed
  from the set (395). A backlog socket that the guest resets before the scan
  stays in no state that listens (392).
- `stop` and the removal judge by a pid that may belong to another process (`main.rs:1376`).
- `image update` of a bundled image always fails, and restores the old one: its Dockerfile
  was in a temporary directory. `docker create` that cannot be started leaves an empty directory,
  over which a `.bak` can be renamed; a directory with content makes the rename fail.
  Two processes that build images of one name share the tag `redan-build-<name>`. Two that find
  no tarball both download to its name, and the later one empties it under the other's `tar`.
- `trust::analyze` asks for trust also for a `log_file`, which nothing reads from a config (`main.rs:366`).
- An image may be removed or updated under a running VM. Whether an agent's image must be
  built is seen before the layers are merged, and a build in between makes this one fail.
- Forwards are parsed after the VM has booted; a forward in both the command line and the
  file ends the launch there. Staged credentials stay in the image.
- Chrome's stderr is piped and read only when Chrome dies. One error of `accept` ends the
  browser's proxy. The 30 s read timeout half-closes a tunnel that only receives.

### Bounds

Every bound is a constant. `pool` has two addresses for three names: the last
address, exhaustion, and a query after it; its table holds exactly pool and gateway.
Buffers of one chunk make every full and every empty window happen; three chunks downwards are
the fewest for which the compaction's condition (more than half sent, some
left) is met, and two upwards the fewest that can be swapped. What a relay's
upstream sends behind its `MaxDown` chunks goes into the channel's room and is not followed
further (`ReadSend`), so that an upstream may send for ever. `HandleBudget`
stops the guest from opening connections when the model has no fresh socket
left to replace the listener; with four sockets and a table of one, a connection is
accepted, one is rejected because the table is full, and one because of its host.
One connection is enough for the byte properties because connections share
nothing but the loop's phase.

`tls`: secrets of two and three symbols and pieces of one and two put a piece's end at each
place of a secret; four symbols are room for headers' end and a secret behind it, or
for one in the headers; one secret is longer than the cap and two overlap. A second
connection is needed to evict from a cache of one. Each request differs from a plain one in what one
check looks at. `MaxPiece` bounds a read.

`net`: frames of one and two units in a buffer of four: one always fits, two fit or not, and
a third meets a buffer that has room for part of a prefix, of a body, or for nothing.
Of what arrives, lengths 1 and 2 are accepted and 3 is over the limit.

`session`: one, because sessions share no variable; only the listing reads
several, each for itself, and the proofs hold for any number. Nothing is
counted, so it needs no other bound: polls and failures are choices.
`trust`: two commands are the fewest that can meet; four inodes give one to each name and each
open file. `MCView` leaves out of a state what no later step reads (a map that has been
written, an inode nothing leads to).

`launch`: two launches are the fewest that can share a root or race for trust; command lines
and machines are chosen so that each layer sets each thing once, alone and against another
layer, so that each validation fails once, and so that there is a spec that reads back with colons in its
value, one of several hosts, one without, and one that does not read back. `images`: three commands are a build, an update
and what meets or follows it; one kill, as what a second could do starts from a state
the first reaches. `devbuild` is
not instantiated: it takes the path of `dockerfile` and the metadata of `devimage`.
`browser`: two connections on one worker are refused, wait and reuse the slot.

### Fairness

- `WF(Loop)`: the loop never waits; it polls, and sleeps for at most a millisecond.
- `WF(MainThread(h))`, `WF(ReadThread(h))`: an operating system thread that can
  step does. The TLS thread's waits all end (30 s on the channel, timeouts on the
  upstream), the SSH relay's reads and writes time out after 30 s. The forward
  relay has no timeouts: its reads and writes are in `Upstream`, without fairness.
- `SF(GuestReceive \/ GuestAckFin)`: a guest whose TCP is alive reads what it is
  sent and acknowledges a FIN. It can do so only while the loop polls, hence strong
  fairness. Nothing is assumed of what a guest sends or when it leaves.
- `TlsPipeline`: `WF(Own)`, the thread's own steps with its timeouts (30 s for the guest,
  10 s to connect, an iteration limit and 30 s for the handshake, 120 s for the
  response). Neither the guest nor the host upstream has to do anything.
- `NetDevice`: the loop keeps polling; a peer that began a frame ends it or dies.
- `Session`: the launcher, the daemon and the VM child take their next step, a
  pending SIGTERM is delivered, since its action is the default one. When a guest
  ends, when the proxy times out, who is killed and what a user types is not assumed.
- `BrowserProxy`: the main thread, the accept loop and each worker's steps that wait for
  nobody or have a timeout: neither a call that Chrome does not answer nor a write to a server
  or client that does not read. Nothing is assumed of Chrome or of a server, nor that a session ends.
- `TrustStore`, `Launch`, `ImageStore`: none; they are checked for safety only.

## Proofs

Eight modules of theorems. Each is about the same specification that TLC checks, for all values
of the constants that meet the assumptions named; `TLC` evaluates the assumptions in the runs.

`ProxyProofs`, part 1, the resolver, for any set of names, any pool that fits its u8 and any
address table that holds the pool and the gateway (`HostMapAssumption`, which the constants of
`proxy.rs` and `.cargo/config.toml` meet): `TypeCorrect` (`next` does not wrap),
`MapsInvertible`, `AnswersAlwaysRouteBack`, `AnswersStable`, `BindingsKept`.
The inductive invariant `HostInv` is the type invariant and `Invertible` with two
facts they do not give. `AddrsExact`: the table holds the gateway and the pool
below `next`, nothing else. Without it nothing says the table has room, and `AddAddr` on a
full table would leave an address without ARP. `AnswersCurrent`: each past answer is
what the maps would answer in the current state. It is what makes "for ever" inductive: a name
without a binding was answered with the gateway only if the pool was used up, and
then no binding is made any more. Each step splits on whether it makes a binding
(`BindInv`) or only repeats one (`RepeatInv`).

Part 2, the loop, for any finite set of handles, any backlogs, capacities and limits
(`ProxyLoopAssumption`). `AnySpec` is `Spec` with any first distribution of the listeners, so
no theorem but the one on slots depends on `InitialPort`. `LoopInv` is inductive: the
resolver's `HostInv`, the types (`LoopTypeCorrect`), and what ties the parts together.
`Budget`: there is a fresh handle for each socket that has left Listen and not its backlog;
without it a replacement could take a handle that is in use. `Ends`: which channel
ends the loop holds, by the state of a `ProxyConn` and by who owns the handle; `Threads`: the
sender is with one thread, and is gone when it returned. From these follows `ReapedAreCutOff`.
`Relay`: an SSH relay's host is what `reverse` says of its address, so that `HostInv`, which keeps
past answers true, makes it the host the guest asked for (`SshReachesHost`).
`LoopImplementsResolver`: each step of the whole proxy is a step of `HostSpec` or leaves it alone,
so the resolver's theorems hold in the proxy. `SlotsAreKept` has one hypothesis,
`EnoughHandles`: there are handles enough to fill every backlog at the start.

Part 3, the bytes, under the same assumption: `UpstreamIsInOrder`, `DownstreamIsInOrder`,
`NoCloseIsTruncated`. The properties speak of connections in the table or with both channel ends;
bytes are also lost, when a connection is cut. `UpOf` and `DownOf` say it for every handle: what
arrived, what is on its way and some rest make up what was sent, in this order, and the rest
is known while nothing can have been lost: it is what the socket holds (upwards), or what
`pending_send` behind its offset and the channel hold (downwards), or nothing once a FIN is
out. Each of the four state steps of `shuttle_bytes` is proved to move bytes along that line
(`UpMoves`, `DownMoves`), through the buffers' lemmas `PullGuestMoves`, `PullThreadMoves` and
`DrainMoves`; compaction is `Parts`, that a buffer is its sent and its unsent part. The steps of the
guest and the threads move one chunk, lose an end, or neither. No capacity occurs in `UpOf` or
`DownOf`: the order of the bytes does not depend on them.

`SessionProofs`, for any set of sessions and from no assumption: `FinalStatusTrue` (a final
status on disk means the VM is reaped), `StoppedIsStopped`, `FinalStatusKept`,
`LiveSessionsSpared` (the bulk removal spares every daemon with work left), `TypeCorrect`.
Two processes write `meta.json` without a lock, and a third judges it by an old copy.
What makes this sound is an order, and `SessionInv` is that order: no metadata, listing
or stop comes before the daemon (`Begun`); while the launcher has its save before it, the
daemon is not past its read of the file (`LauncherFirst`), which is why exiting without
metadata, the subject of `daemon_metadata`, also protects the status; after a final
status the daemon only exits (`FinalIsLast`); and it saves that status after the VM was
reaped (`ReapedFirst`).

`TrustStoreProofs`, for any number of commands, any paths and texts, from
`TrustAssumption` (the reaching texts are texts, `NoIno` is no inode):
`OnlyGrantedTrusted`, `OnlyGrantedRuns`, `RecordImplemented` (commands that do not meet
implement `TrustRecord`, step by step), `TrustTypeCorrect`. `TrustInv` has a part for each.
`GrantedInv`: every map on the disk or about to be
written is of granted texts, so it does not matter whose inode it lands in. `AloneInv`: a
writer that has met no other still has the temporary file to itself, and its map is still the
change of the store's; so its rename is one step of the record, and `RecordStep` says that
no other step shows.

`TlsProofs`, for any requests that hold no real value (`RequestAssumption`: a guest asks with
placeholders), any policies whose secrets have ids of their own (`PolicyAssumption`), and every
address DNS may answer (`AddressAssumption`): `SecretsStayHome`, which is
`SecretsGoHome`. `PathInv` says that a request beyond its verdict still has it and that beyond the
connect the address was looked at; `SentWell` what inject made of it. The rest is three lemmas on
operators, among them `ReservedPrivate`: the patterns of `is_private_ip` cover each range
the comments beside them name, for all 2^24 prefixes. `OneRequestSent` is `WholeRequestSent`,
from `WholeInv`: the loop that collects a request leaves it as soon as it is complete (`LastPiece`), so
beyond that there is less than one piece behind it, and what went upstream has the body those
bytes make and, of the headers that say what becomes of the connection, the one that closes it. `ResponsesAreScrubbed` is
`NoSecretToGuest`, for any response, cut anywhere, any sequence of secrets over any bytes
(`TextAssumption`: a placeholder is not empty; the values hold no empty line, as
`SecretBinding::new` sees to), and any cap. Its chain:

- `ReplaceDoes`, by the last place at which `byte_replace`'s way through a text could go wrong: in
  what it leaves is no needle and no word that was not in the text (`Rest`). Three parts
  of `Rest` look odd and are what the chunks need: a word at the very beginning was at the
  beginning; what is left is shorter only if a placeholder is in it; a byte no word can
  have stays.
- `ScrubDoes`: the same of one secret behind the other, for which `Cleaner` is transitive. No
  secret brings back one that was replaced before it, because a placeholder's bytes are none of a value.
- `Straddle`: a value that begins in what was written must have its end at the beginning of the
  next scrubbed window, so it had it before the scrubbing too. `Edge` says why it cannot: `max - 1`
  symbols were kept back, or less than that but with a placeholder in it, or what was written ends in
  an empty line. The second case is the one a test hardly meets: a replacement that
  shortens the window below what ought to be kept.
- `ScrubInv` ties this to the thread: nothing is written before the headers are, the headers
  end in an empty line (`KeptHeaders`; `rewrite_connection_close` keeps it last), and from
  then on each chunk keeps `Kept` and `Closed` (`ChunkKeeps`), which also cover what is still kept
  back, so that `Flush` may write it.

`PiecesMakeTheWhole` is `ChunksMakeTheWhole`: the pieces are the response scrubbed at one go, for
any response and any number of secrets that do not overlap (`Separate`; `Apart` is the same said of
their places). A window is scrubbed again and again, with placeholders of earlier
passes in it, so this compares two ways through one text. Its chain:

- `ReplaceClear`: `byte_replace` of a joined text is that of its parts if no needle lies across
  (`Clear`). `CutOut` puts any text that has a needle into that form.
- `ReplacesCommute`, `ReplaceAgain`: two needles that do not overlap can be replaced in either order,
  and one that was replaced in a first part need not have been. Both by the length of the
  text, around its first needle.
- `ScrubAgain`: hence scrubbing what was scrubbed, with more behind it, is scrubbing all of it.
- `ScrubBehind`: scrubbing leaves alone what was written, because nothing can lie across (`NoneAcross`,
  the argument of `Straddle`). `Ready` is `Edge`, or that nothing was written.
- `ChunkWhole` puts these together for one chunk, the case without any secret included, and
  `WholeTextInv` carries it from the headers (`HeadersSplit`) to `Flush`; `HeadStays` says that the end
  of the headers stays where it was found.

`NetProofs`, for any lengths but zero, any room in the send buffer, any limit and any number of frames
(`NetAssumption`): `FramesArriveInStep` and `FramesLeaveInStep`. A stream is what `FlattenSeq`
makes of the frames' bytes, so the first part is what it makes of one frame more
(`FlattenAppend`): it is a recursive function, whose values are shown
at the least index where they would be wrong. Of what arrives, `PeerInv` says that
it is frames end to end but for the one the peer is in; `RxInv`, that the device stands where a
frame begins, or behind the prefix of the one whose body it reads (`InStep`), or that it reads nothing
any more (`Done`). Of what leaves, `TxInv` names the frames begun by their places
in what the loop sent (`Picked`: all that left the queue, `Queued`, but the gap of those `lost`), and says
that the wire holds those frames, the last of them as far as it was written (`Wrote`). `WriteAll` that
finds no room leaves the wire alone and puts the frame in the gap; one that fails inside sets `cut`,
and the property is no longer about this stream.

`ImageProofs`, for any number of processes, commands and kills, and any of the kinds of build
(`KindAssumption`): `ImagesAreKept`, `MetadataIsTrue`, `BackupsGoBack`, `TarballStaysUsable`. There is
no lock, so the first three hold until two commands have changed the directory at once (`raced`). Until
then at most one process works on it, which is the first conjunct of `AloneInv`, and what
it finds follows from its place in the build (`DirAt`): until the files are complete,
the image of value is in the backup; from then on it is in the directory. A rename takes the
metadata along, so what it says is a property of a tree, wherever the tree lies: `Tells`, which
build the files are of, and `Cut`, that only a removal leaves them incomplete. Failures weaken
this and nothing else: `Littered` is that something was left which keeps a backup away, `Serves`
that an untagged compose build may import another's files. The tarball
is apart, because downloads do meet: `TarballInv`, a part of it is there only while the one
that opened it last still writes, or after a kill.

`LaunchProofs`, for any number of launches, any machines and command lines, from
`SourceAssumption` (the project is not outside of itself), `TargetAssumption` (the workspace is a
target that is let pass) and `LaunchAssumption` (command lines and
files are such as the parsers return: every scalar has a value or none, a forward is two
numbers, the parts of an entry are texts): `NoUntrustedReach`, `OwnCertificateAndPolicy`, `SessionsAreMerged`. `LaunchInv` has `TrustAt`: a launch that acts has a file
that reaches nothing, or a trusted one, or its user's yes, and no step takes any of these away. `GuestAt`:
certificate and policy on a root are those of the last launch that wrote, and every other that
had written is marked; an installation that fails marks the others too, a policy that was not
written only its own launch. A step touches one launch (`QuietStep`) or one launch and one
root (the lemmas on `InstallCa`, `WritePolicy`, `Stage`). `SessionsAreMerged` is
`SessionIsTheMerge`. Its first part has no launch in it: `SecretComesBack` and `MountComesBack`, that
an entry without separators of its own is parsed as what was written (the last colon of the text is
the one before the hosts, the first the one behind the source); what the overlay and the merge
keep of each layer (`CfgDoes`, `MergeDoes`, over `ExtendKeeps`), and that the strongest layer is the
first that says anything (`StrongestIs`). `MergeAt` carries it along a launch: up to `target`
there is no agent; until the merge the config is the overlay of agent and file; from then on the
session agrees with its layers (`Agrees`), which the daemon's copy and the browser's forward leave
so, as the one changes nothing that is compared and the other only adds. `NoUntrustedReach` puts the two together: a
launch that nobody agreed to has a file that reaches nothing, so no entry of it is of the host, and
what is in effect is an entry of some layer, as it was written or one of the exceptions.

`BrowserProofs`, for any finite set of connections and any limit (`BrowserAssumption`):
`CleanUp`, which is `BrowserLeavesNothing`, from `CourseInv`, what stands at each place of the main
thread's course; and `WorkersBounded`: the workers that run and those lost to a failed
spawn never exceed the limit, from `CountInv`, which ties the counter to the set of workers by
its cardinality.

The type invariants of `HostMap`, `ProxyLoop`, `Session` and `TrustStore` are parts of these
proofs and of no run.

Every safety property of the passing runs, invariant or of steps, is a theorem. Only model-checked are the
liveness properties: those of `ProxyLoop`, `BrowserProxy` and the TLS thread, that the loop
notices the loss of its VM, that VMs end with their daemon and secrets leave the disk. Liveness under
fairness and ENABLED are out of the prover's reach. So is induction over data by the
library's theorem, which takes an operator as a parameter; where a recursive function is
simple the proofs go by the least index that would be wrong (`FlattenSeq`, `Extend`,
`ByteReplace`, `Scrub`), or by the set of the numbers for which a statement holds (`Upward`, `Downward`).

## Not modelled

Formatting, logging and the audit file; the bytes of DNS packets, of TLS records and of
certificates; base64; zeroizing of secrets; the calls of libkrun and of the terminal beyond
their order; set-up prompts, templates, reports. Inside the modelled parts: the split of a chunk by a
window in `ProxyLoop` (a chunk is indivisible), UDP buffers that are full, packet loss
between guest and proxy, which is a socket pair; in `Launch` a death of redan
between two steps (in `Session`); in `ImageStore` the devcontainer and compose
files' contents, and several images, which share the tarball alone; in `BrowserProxy` the
syntax of a request line and the choice of hosts, which calls the `host_matches` and
`is_private_ip` that `TlsPipeline` has.

## Plan

What is left, in this order:

1. `TlsPipeline` as a refinement of the thread that `ProxyLoop` has at its channels: `to` and
   `from` as its guest side, `LoopDrops` as the drop of either end.
2. What lies under the liveness properties and is safety: that no process of `Session` can be
   stuck before its last step, and that a thread of `ProxyLoop` whose channels are cut has a step left.
