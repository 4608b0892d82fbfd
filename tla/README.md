# TLA+ verification of coffeeblack-vpn

coffeeblack-vpn is one process: an in-house HTTP server, a SQLite database behind one
connection lock, and the transports it configures: the AmneziaWG kernel interface (driven by
`awg`, `awg-quick` and `nft`), supervised children (Xray, TrustTunnel, telemt, MasterDnsVPN,
dnscrypt-proxy, tor) and two in-process transports (QQ-DNS, the DPI-imitation proxy). Every
request is a Tokio task. A database call is atomic; **almost nothing spans two of them**, and
between them lie awaits: password hashing, subprocesses, file writes, mutexes. That is what
this project looks at: what still holds when such handlers, background tasks, child processes,
crashes and failures interleave, and what the code's own comments promise that does not.

Source paths below are relative to the repository's `src/`.

## Contents

1. [Inventory](#inventory)
2. [Modules, state and actions](#modules)
3. [Runs](#runs)
4. [Observations](#observations)
5. [Proofs](#proofs)
6. [Assumptions and abstractions](#assumptions)
7. [Not modelled](#not-modelled)
8. [Plan](#plan)

## Inventory

| Component | State | Operations | What is hard | What makes it correct |
|---|---|---|---|---|
| Peer roster (`wg/`, `api/clients.rs`) | `clients_table`, the `.conf` file, the kernel's peers, the per-client nft chain | create, update, enable, disable, rotate, delete, restart, cron expiry, startup | four copies of one fact; no lock over render/write/strip/sync; failures after the commit; crash between any two steps | the kernel runs one committed table state; a reported change is in force; startup repairs; expiry takes effect |
| Sessions and 2FA (`api/session.rs`, `api/mod.rs`) | user row, in-memory session map, TOTP watermark, attempt windows | login, logout, password change, TOTP setup/create/delete, expiry | argon2 runs between reading the row and using it; compare and write of the watermark are two calls | eviction is complete; a consumed code is refused; guesses are limited |
| Client keys (`api/clients.rs`, `api/routes.rs`, `api/admin.rs`) | private keys in rows, retention mode, one-time links | create, rotate, download, link, claim, retention switch, delete | mode read before the store; purge and mode write apart | a link serves one caller; an unretained key leaves once |
| Xray (`xray/`) | record, crash counter, `server.json`, children and watchdogs; links outside | reconcile, stop, restart, backoff, shutdown; switch of transport, path, keys | rows read before the mutex; a slow child dies after its successor started; links outlive settings | process follows rows; crash loops end; links stay valid, removed peers are out |
| TrustTunnel (`trusttunnel/`) | rows, certificate, record with fingerprint, counters | reconcile, debounce, poll, restart, watchdog, fold counters | four callers of one reconcile; counters restart with the process | the endpoint serves the roster; traffic is counted once; expiry takes effect |
| telemt, MasterDnsVPN, DNS bundle (`mtproxy/`, `mdnsvpn/`, `dns/`) | row, file, child, watchdog; telemt's own user list; one shared key | save, restart, watchdog, user reconcile, key rotation | remote calls that fail alone; a key all clients share | the last save runs; the remote list converges; "revoked" is true |
| Rendered files (`secretfile.rs`) | target, `<name>.partial` | `write_atomic` | shared temporary name; crash before the rename | a reader sees one whole version |
| QQ-DNS (`qqdns/`) | send queues, reassembly slots by 15-bit offset, engine record | fragment, pace, reassemble, expire; save, restart | loss, duplication, reordering, reuse of offsets | a delivered datagram was sent, whole, once; a whole one arrives |
| DPI proxy (`proxy/`) | session table, relay generations, SIP dialogs, QUIC entries, reply budgets, the interface's port | lookup/create, relay, sweep, answer probes, rewrite paddings, rebind | stale relays, deferred answers, races for a budget, lengths at their edge | a session keeps its relay; answers are due, bounded and well framed; the proxy fronts the port |
| Privileged helper (`privhelper.rs`) | socket, root operations | publish, accept, sync, up, down | one thread; a silent connection; crash | every call returns |
| Database (`db.rs`, `crypto.rs`) | SQLite file or RAM and snapshot, encrypted columns | script of tables, columns and rows; snapshot, restore; encryption at rest | crash between two statements; old databases; a changed key | complete schema; a whole backup; a read returns the secret or fails |
| Address pool (`db.rs`, `cidr.rs`, `api/admin.rs`) | addresses of the rows | allocate, edit, reassign | reassign is a loop of separate calls | every peer is in the network |
| Setup (`api/setup.rs`, `init_setup.rs`) | `setup_step`, users | steps 2 and 4, unattended setup | step read, hash, step write | nobody but an administrator writes the host |
| Activity (`activity.rs`) | RAM totals and day buckets | poll, purge, forget, prune | counter resets, poll racing a delete | no traffic is invented |
| Firewall (`firewall.rs`) | nft chains, hooks | rebuild, lockdown, restart | several calls that fail one by one | peers reach what is opened to them, no more |
| HTTP server (`http/server.rs`) | connections, permits | accept, frame, chunk, keep alive, drain | pipelining, two readings of one head | nothing but a framed request is served |
| Settings and metrics (`api/admin.rs`, `api/routes.rs`) | general, interface, hooks rows; attempt store | forms, scrapes | form judged against a row another form changes | metrics are guarded |

Interactions: handlers call the database and then `wg::save_config`, `firewall::rebuild_rules`
or a supervisor's `ensure_running`; the cron task, the watchdogs, the pollers and `main`'s
start and shutdown call the same functions. There is no queue between them: they share the
table, the files, the kernel and each supervisor's mutex. `PROJECT.json` lists every component,
and under `hazards` each place where this bites.

<a name="modules"></a>
## Modules, state and actions

Each component has one module. `MCServices`, `MCDataplane`, `MCServer` and `MCEndings` hold
several components side by side: `part`, chosen in the initial state, says which of them runs,
the others stay in theirs, so one run checks each component exhaustively with its own constants
and properties. They add model values, symmetry and the names of the properties, nothing else.
`...Proofs` modules hold the theorems: PeerSyncProofs, LoginSessionsProofs and
XraySupervisorProofs extend their component, the others (ServicesProofs, DataplaneProofs,
ProxySupervisorProofs, ServerProofs, DatabaseProofs) the MC module that holds theirs, and speak
of each component's own specification. In every module a `pc` (or a task record) says where a
handler stands, one label per step between two points where another task may run. A
definition that changes a mapped one the way a bug would is a *mutant*: no specification
contains it. Variables marked *history* record what properties speak about and are read by no
guard. Variables carry the two letters of their module (`tt`, `sv`, `qq`, ...), because the
MC modules put them side by side.

**PeerSync** (`wg/mod.rs`, `wg/cli.rs`, `api/clients.rs`, `firewall.rs`, `main.rs`). `rows` is
`clients_table`, `conf` the file, `kern` the interface, `fw` the chain, each with the table
version it was made from. A handler commits, reads the enabled rows (`ReadRows`), opens the
file with O_TRUNC (`TruncateConf`), writes it (`WriteConf`), strips it (`StripConf`, which
reads the shared file again), feeds the kernel (`SyncConf`), and rebuilds the chain (`FwRead`,
`FwApply`). Any of these may fail where the code has an error path. Restart is down and up with
a second sync after a failing up; cron is scan, disable one by one, one save; `Main` runs
startup; `Crash` kills every task and keeps table, file, kernel and chain.

**LoginSessions** (`api/session.rs`, `api/mod.rs`, `db.rs`). One user row, the session map,
the clock in TOTP timesteps. Login is lookup, argon2 (`LoginVerify`), code check
(`LoginTotp`), watermark (`LoginWatermark`), insert; a password change and a 2FA removal write
the row and evict in a second step; enrolment is setup, check, write, watermark. A secret is a
number, a code the pair of secret and timestep. A restart forgets the sessions, not the row.

**ClientKeys** (`api/clients.rs`, `api/routes.rs`, `api/admin.rs`, `wg/mod.rs`, `db.rs`). A
keypair is its number; a row has the public half and the private half or none. Create and
rotate read the mode, store under it, and issue; download and link claim render a stored key in
two reads; a claim deletes the link it returns; the retention switch purges first and writes
the mode last, or is refused in between.

**XraySupervisor** (`xray/supervisor.rs`, `proc.rs`, `api/xray.rs`, `main.rs`). Children and
their watchdogs are numbered in spawn order; tasks are main, the handlers and the watchdogs,
and all of them run the same `ensure_running_inner`: `ReadRows`, `WriteConfig`, then under the
mutex `Reload` or `Spawn`, or `stop_if_running`. Each section under the mutex is one step. A
child that is dead stays signallable until its watchdog has waited for it.
**XrayLinks** (`xray/config_gen.rs`, `xray/share.rs`, `api/xray.rs`) has the inbound's row
(transport, path, key, names), the file made of it, and every link handed out; `Admits` is
Xray's handshake on what the file and the link say.

**SecretFile** (`secretfile.rs`). Files are inodes with two blocks, so a file can be empty,
half written, whole, or mixed.

**TrustTunnel** (`trusttunnel/supervisor.rs`, `stats.rs`, `config.rs`, `cert.rs`,
`api/trusttunnel.rs`). Reconcile runs under one lock for four callers (handler, debounced
task, expiry poll, watchdog); the fingerprint decides about a restart; stop is take, flag,
gone. A poll fetches the counters in one step and folds them in another, and a restart
between them marks what it finds.

**ChildServices** (`mtproxy/`, `mdnsvpn/`, `dns/` supervisors, their `config` modules and
forms). One module for four kinds of child: what differs (what a save checks, which rows mean
"off", whether a running child is restarted or reads its file, what the watchdog does) is one
operator per kind, the rest is shared as the code's copies are the same. **TelemtUsers**
(`mtproxy/client.rs`, `mtproxy/supervisor.rs`, `api/mtproxy.rs`) is telemt's list against the
table, with calls that are refused, lost, or applied without an answer. **MdnsvpnClients**
(`api/mdnsvpn.rs`, `mdnsvpn/share.rs`, `bundle.rs`) is the shared key against what clients
downloaded.

**QqTunnel** (`qqdns/engine.rs`, `reassembly.rs`, `codec.rs`), one direction: `HRecv` cuts a
datagram over the send domains and queues the copies, `WanSendWorker` sends or drops what
waited too long, the network keeps a query for `NetLife` and may lose, repeat and reorder it,
`WanRecv` puts fragments into the slot of their offset, `Sweep` expires slots. **DatagramChannel**
is what such a tunnel promises. **QqSupervisor** (`qqdns/supervisor.rs`, `config.rs`) keeps an
engine while its signature is the saved settings'.

**ProxySupervisor** (`proxy/supervisor.rs`, `api/proxy.rs`): saved settings, the interface's
file and port, the proxy's task and the lockdown chain. **ProxySessions** (`proxy/proxy.rs`,
`session.rs`, `shardmap.rs`): the table at its limit, the receive loop's lookup, insert and
relay registration, relays that fail, the sweep's removal and teardown, shutdown.
**SipDialogs**: the dialog of one address, its immediate answers and the tasks that send 180
and 200 later. **ProbeBudget** (`metrics.rs`): the per-client tokens, the forward permits and
the global budget with its compare-and-swap loop. **QuicResponder** (`quic_handshake.rs`): a
ClientHello collected in pieces, the flight and its byte limit, eviction. **CoverTraffic**
(`transform.rs`, `responder.rs`): lengths and framing of the four imitations, classification
of datagrams and probes, as operators checked over bounded inputs.

**PrivHelper** (`privhelper.rs`): the socket published under another name first, one accept
thread with its timeout, the checks, and `wg_sync`'s steps.

**Database** (`db.rs`, `main.rs`): the start-up script as a sequence of statements on a file
or in memory, with databases of earlier releases and of awg-easy, crashes, snapshots, damage.
**Secrets** (`crypto.rs`, `db.rs`): for every table, which columns its calls encrypt and its
`from_row` decrypts, the migration, starts under no key, one key or another. **AddressPool**,
**SetupWizard**, **ActivityStore**, **Firewall** (the jumps out of `forward` with their handles, added when a listing
does not show them and deleted by handle; a packet's verdict is that of the first chain that
decides it), **HttpServer** (a stream of heads, sizes and data, framed as `framing` does),
**AdminSettings** (the forms; scrapes of the metrics with the attempt limiter).

## Runs

All runs are exhaustive for their constants. `CHECK_DEADLOCK FALSE` is set because with the
bounded number of requests every system comes to rest, and the service may exit.

| Run | Instance | Shows |
|---|---|---|
| `peer_sync` | 2 handlers, cron, every failure, and any 2 among requests of any kind, a crash with its second startup, and an expiry | `KernelIsACommittedState`, `UnoverlappedChangeTakesEffect`, `BootRegenerates` |
| `rotate_revokes` (violation) | the same | a rotation that answers success can leave the old key accepted |
| `endings` | fair; PeerSync with cron, 1 crash anywhere and a second startup; ProxySessions; PrivHelper with a silent connection | `ExpiredRowIsRetired`, `SilentSessionExpires`, `CallReturns` |
| `logins` | 2 handlers, 4 requests, 1 restart, 2 timesteps | `RevocationIsComplete`, `ConsumedCodeIsRefused` |
| `eviction_of_racing_login` (violation) | 2 handlers | a login verified against the old password inserts after the eviction |
| `xray_supervisor` | 2 handlers, 2 requests, 2 faults, cap 1 | `SpawnsAreBudgeted`, `LastReconcileWins`, `LiveChildServesTheFile` |
| `xray_requests_return` | 1 handler, 2 requests, 1 fault, fair | `RequestsReturn` |
| `xray_clear_other_record` (violation) | 2 handlers, no fault | a watchdog clears the record of a running child |
| `services` | TrustTunnel (fair), the four children, telemt's list, MasterDnsVPN's key, Xray's links, a rendered file | `EndpointServesTheRoster`, `TrafficIsCountedOnce`, `ExpiredUserIsDropped`, `LastSaveIsServed`, `ReconcileConverges`, `RevokedClientIsOut`, `LinksAreServed`, `ReaderSeesWhole` |
| `dataplane` | the tunnel, its engine, the proxy, its sessions, SIP, budgets, QUIC, cover traffic | `Refines`, `WholeDatagramArrives`, `EngineHasTheSettings`, `ProxyFrontsThePort`, `SessionHasItsRelay`, `AnswerIsDue`, `CeilingBetweenResets`, `AmplificationBound`, `CoverFramesTheDatagram`, `DatagramsAreToldApart` |
| `server` | schema and snapshots, secrets, addresses, setup, activity, firewall, HTTP, settings, metrics, keys | `SchemaIsComplete`, `RestartServesABackup`, `ReadReturnsTheSecret`, `PeersAreInTheRange`, `HostIsWrittenByAnAdmin`, `TotalsAreRealTraffic`, `PeersAreConfined`, `NothingIsSmuggled`, `MetricsAreGuarded`, `HandedOutOnce` |
| `lockdown_restart` (violation) | the firewall, 1 handler, 3 events | a restart loses the DNS lockdown when the per-peer firewall is off |

**Refinement.** `QqTunnel!Refines` says that the tunnel implements `DatagramChannel` under the
mapping of its sent and delivered datagrams: what is handed over was sent, is whole (no
fragment of another datagram), and is handed over at most once. It holds when an offset is not
used again before its slot and every query of its previous use are gone; `Gaps` has both cases,
and with offsets reused at once the mapping is empty, because there the code promises nothing.
With 32768 offsets and the 13 s of `ASSEMBLE_TIME` it takes about 2500 datagrams a second to
get there. `Offsets = 1` makes every datagram reuse
the offset of the one before.

**Bounds.** Every race here needs two tasks and one request each: one that holds something
stale and one that overtakes it. Two handlers and two requests contain them with all kinds of
request on either side; sessions, keys, links and shared keys need four, because a login, a
create or a download has to come before what races with it. In `peer_sync` the
bound is a state constraint, `TwoEvents`: two requests, or one with a crash or an expiry, in
every interleaving. One crash suffices where startup rebuilds everything; the schema script gets two faults, since the interesting case is a start
cut twice at different statements. For the supervisors the cap is 1 instead of 10: the counter
is compared and incremented, so one restart within the cap and one beyond it are the cases.
Session table and pending QUIC entries have a limit of 1 with two clients, so that the limit is
met; the reply budget is 3 bytes with replies of 1, 2 and 4. Three datagrams of different
fragment counts meet two tries, two resolvers and a queue of two, so that copies are dropped at
the queue, repeated and reordered across datagrams; `Half = 2` makes four fragments use both
magic characters. CoverTraffic's sizes sit at the edges of the length fields' encodings
(paddings below and above each header, texts around a change of digit count). The attempt
store holds one key more than its limit with two addresses.

**Fairness.** The fair specifications assume weak fairness of each task: Tokio polls every task
that can run, its timers fire (the cron and poll loops, the sweep, grace periods, the helper's
I/O timeout), and commands end. The helper's accept loop is strongly fair for each queued
connection, because the kernel's backlog is a queue. Nothing is assumed of clients, of the
clock, or of the children, which may ignore SIGTERM or never crash. In `services`, `endings`
the fairness is that of the part at work.

**Violations.** Each is a statement of a comment, quoted in `PROJECT.json` with its line, that
TLC refutes with an interleaving or sequence of what the code does. The remedies are visible in
the traces: a lock over `save_config`; re-checking the row (or a generation) when a session is
inserted; comparing the pid before `state.proc.take()`, which `trusttunnel/supervisor.rs`
already does; rebuilding the rules after a restart whether or not the per-peer firewall is on.

**What the passing properties do not say.** They are stated for what the code can keep, and
many leave room for a race the model contains. `RevocationIsComplete` speaks of the sessions
that existed when a password changed; `ConsumedCodeIsRefused` of timesteps whose watermark is
written, so two logins that both compare before either writes can share a code.
`UnoverlappedChangeTakesEffect` excludes a change that an older rendering overlaps.
`ExpiredRowIsRetired` is about the row: a save that fails after cron disabled it is not retried.
`LastReconcileWins` takes the order of the mutex, not of the rows. `EngineHasTheSettings`,
`ProxyFrontsThePort`, `LastSaveIsServed`, `LinksAreServed`, `RevokedClientIsOut`,
`ReconcileConverges` and `PeersAreInTheRange` speak of requests that do not overlap (whatever
the sequence and the failures before), since their handlers take no lock across their steps.
`ReaderSeesWhole` is checked with one writer at a time: two share the temporary name.

## Observations

What the modelling showed of the code beyond the four violations. Each is a behaviour of a
module (named in brackets) that no property forbids, because the code does not keep it or no
document says what should hold.

- *Peers and addresses.* A change of CIDR is not protected against a create or an edit in
  between, stops half way at an address conflict when the ranges overlap, keeps the old IPv6
  addresses when the new range is empty, and does not rebuild the firewall (`api/admin.rs:1027`);
  an edit can give a peer the gateway's address (`api/clients.rs:697`); concurrent creates
  exceed the per-user quota (`api/clients.rs:324`) [AddressPool].
- *Keys and settings.* Keys are purged before the rest of the form may be refused, and a create
  that read the mode earlier stores a key after the switch to `never` (`api/admin.rs:437`)
  [ClientKeys, AdminSettings]. A row checked for a key is read again for the rendering
  (`wg/mod.rs:299`) [ClientKeys]. A form that carries only one of two related AmneziaWG fields
  is not judged against the stored other one (`api/admin.rs:203`) [AdminSettings].
- *Sessions.* Enrolment marks whatever secret the row has when it writes (`api/session.rs:637`)
  [LoginSessions]. Two wizard requests can both create an administrator (`api/setup.rs:62`), and
  an unattended setup cut after its user is not completed at the next start (`main.rs:80`)
  [SetupWizard].
- *Database.* A crash inside the seed leaves singleton rows missing (`db.rs:2297`); the last
  periodic snapshot can replace the final one (`main.rs:380`) [Database]. A value that begins
  with `enc$` is stored as it is and unreadable; UNIQUE on columns encrypted with a random
  nonce compares ciphertexts; `create_mdnsvpn_client` stores `socks5_pass` in the clear
  (`db.rs:4139`) although the list at `db.rs:67` names it [Secrets].
- *Children.* telemt's reconcile compares the ad tag only, so a changed secret waits for the
  restart of telemt (`mtproxy/supervisor.rs:478`) [TelemtUsers]; a disabled MasterDnsVPN client
  still downloads its bundle (`api/mdnsvpn.rs:610`, against `docs/TRANSPORTS.md:298`)
  [MdnsvpnClients]; bridge settings of tor can leave dnscrypt a file it cannot read
  [ChildServices]. A pid from a record may be reused before it is signalled (`proc.rs:60`; pids
  are not reused in the model).
- *QQ-DNS and proxy.* Overlapping saves can orphan an engine [QqSupervisor]. `hash_config` leaves
  out `max_sessions` and `session_ttl`; while the proxy is being enabled the interface leaves its
  port before the chain is up; a disable does not restore the port by itself
  (`proxy/supervisor.rs:289`, `:505`) [ProxySupervisor]. A relay that fails removes the session
  of its address, also a newer one (`proxy/proxy.rs:1444`); a datagram refused for a full table
  leaves a metrics entry [ProxySessions]. The byte ceiling holds between two resets, not in every
  second (`proxy/metrics.rs:176`) [ProbeBudget]; a QUIC datagram may exceed 1200 bytes by one
  [QuicResponder]; Content-Length is left out at sizes where no digit count fits
  [CoverTraffic]; a deferred 200 OK carries the latest CSeq [SipDialogs].
- *Firewall.* Answers to peers that come back through the tunnel interface meet the final drop
  of the client chain (`db.rs:2042`); an IPv6 lockdown target under DISABLE_IPV6 makes every
  rebuild fail; a legacy rule for a former port stays (`docs/ARCHITECTURE.md:62`) [Firewall].
- *Activity.* A poll in flight brings back the record of a deleted client until the next one
  (`activity.rs:292`) [ActivityStore].
- *HTTP.* The shorter header timeout is not applied to a fresh connection, and there is no write
  timeout (`http/server.rs:498`) [HttpServer].

## Proofs

The theorems hold for every number of handlers, requests, clients, crashes and restarts, of each
component's own specification (`SW!Spec` and so on), which the MC modules run as one of their
parts. Each is listed in `PROJECT.json` with the property it states. A property is seldom
inductive, because it speaks of the system at rest and a task that is under way holds something
it read earlier. The invariants therefore say, for each place a task can stand at, what it still
knows of the shared state; the proofs have one lemma per action.

**PeerSyncProofs.** `TypeCorrect`; `KernelCommitted` (`KernelIsACommittedState`);
`ChangeTakesEffect` (`UnoverlappedChangeTakesEffect`). Neither property is inductive: the
kernel gets what a task holds, which was read from a file another task may have rewritten.
The invariant is `TypeOK /\ ContentInv /\ ControlInv /\ FreshInv`. `ContentInv`: every text in
a file, in memory, in the kernel is a committed state or an emptied file, and none is newer
than the table; this carries `KernelCommitted`. `ControlInv`: which labels a task can be at
before and after startup. `FreshInv`: after a commit of p that overlapped no older rendering,
no task holds an older text, the file (whenever somebody is about to strip it) is not older, and
from p's sync on neither is the kernel. `StartupRegenerates` (`BootRegenerates`) adds `BootInv`:
while startup runs nothing else does, so what it brought up is what the file says.

**LoginSessionsProofs.** `TypeCorrect`; `RevocationComplete` (`RevocationIsComplete`), by
following the counter of credential changes: whoever increments it stands at `revoke` until it
has removed the older sessions, and a new session carries the current count;
`ConsumedRefused` (`ConsumedCodeIsRefused`), from `WatermarkInv`: every timestep ever written
is at most the watermark, which the guarded UPDATE never lowers.

**XraySupervisorProofs**, all from `XrayInv`. `SpawnBudgetHolds` (`SpawnsAreBudgeted`), from
`SpendInv`: children spawned, attempts left and restarts under way are covered by the budget; a
restart moves one unit from the attempts to the pending and then to the spawned.
`WantedChildIsUp` (`LastReconcileWins`), from `WantedInv`: while the last decision was to run,
some child is on its way, which no interleaving of reconciles, stops and watchdogs loses.
`LiveChildIsServed` (`LiveChildServesTheFile`), from `LiveInv` and `ServedInv`: a live child is
recorded, about to be killed or was forgotten by another's watchdog, and a recorded one with an
old file has a SIGHUP under way or a task about to take the mutex. `RecordInv`, `ChildInv` and
`TaskInv` say who may clear or take the record.

**DataplaneProofs.**
- `RelaysAreHeld` (`SessionHasItsRelay`): `OwnershipInv` says that a cleanup under way names a
  relay its client's session no longer has, so the comparison of generations in the sweep and in
  a relay's own cleanup never removes a present one.
- `AnswersAreDue` (`AnswerIsDue`): a dialog in progress has an INVITE that waits for its answer,
  and so has the one whose first responses are being sent.
- `BudgetHolds` (`CeilingBetweenResets`): sent since the reset plus what the state word allows is
  at most the ceiling, whatever the tasks in the compare-and-swap loop hold of the word.
- `TunnelIsAChannel` (`Refines`): QqTunnel implements DatagramChannel. `TunnelInv` gives each
  offset in use one datagram and one cut of it, and bounds the age of every queued job, query and
  slot against the last use of its offset, so whatever is left of a use is gone or expired when
  the offset is used again; fragments in a slot are then of one datagram, and a datagram handed
  over is marked done for as long as a copy can arrive. Lemmas about the cut (lengths, contiguous
  fragments, the number of pieces) are proved with the least counterexample on the naturals. The
  initial states map to initial states; each step maps to a send, a delivery or a stutter.
- `WholeDatagramsArrive` (`WholeDatagramArrives`), on top of `TunnelInv`. `WholeInv` says that
  while queries of a datagram can still arrive, what was heard of it is in its slot or the
  datagram has been handed over, that a slot outlives them, and that a slot under assembly lacks
  some part. So no slot fills up with all parts and stays. It rests on the parts of a cut being
  disjoint and not empty; what the domains carry is a recursive function, and that its sums exist
  and grow is shown by the least counterexample (`RoomsSum`, `CarriedGrows`).
- `StrangersGetThreefold` (`AmplificationBound`): what was sent to a connection plus three times
  what is still pending of it is at most three times what it sent. The loop that cuts the flight
  is a recursive function; that it stays within its budget is shown by the least round that
  does not (`RoundWithinBudget`, `LoopExists`, `LoopWithinBudget`).
- `CoverIsFramed` (`CoverFramesTheDatagram`) and `ApartFromEachOther` (`DatagramsAreToldApart`),
  from `CoverInv`: the answer is what the transformation or the responder makes of the datagram
  at hand, so both reduce to facts about the padding functions and the classification.
  `LengthSolvable` is the code's own claim at `transform.rs:743`, that with one or two spaces
  after the colon a Content-Length that counts its own digits exists (given room): a width
  fails only where the digits step over the candidate at a power of ten, and the other width is
  right there. `HandshakeClassified` uses S1 + 56 # S2 and the order of the tests;
  `QueryDetected` that no QUIC version ends in, and no STUN cookie begins with, a zero byte.

**ProxySupervisorProofs.** `EngineKeepsTheSettings` (`EngineHasTheSettings`) and
`ProxyStaysInFront` (`ProxyFrontsThePort`). `EngineInv` and `ProxyInv` say what a reconcile knows
at each step while no other overlapped (and, for the proxy, no step failed): which engine or
proxy it took, that it is aborted, that the port is free, that the chain is up.

**ServerProofs.**
- `HostNeedsAnAdmin` (`HostIsWrittenByAnAdmin`): past the first step the wizard has an
  administrator, and a request about to write the host was authorised as one.
- `TotalsHold` (`TotalsAreRealTraffic`): recorded plus what the kernel counts beyond the baseline
  is at most what the client moved, and so for the dump a poll still holds.
- `PeersStayInTheRange` (`PeersAreInTheRange`): during a change of network each client is in
  range or still to be reassigned; lemmas show that the first free host is in the network.
- `SecretsAreReadBack` (`ReadReturnsTheSecret`): a cell is the secret last written, in plain or
  under one layer, and every column that is encrypted is decrypted by its row.
- `SecretsAreHandedOutOnce` (`HandedOutOnce`): a token is in one row, in one request's hands or
  spent; a key that is not retained is in no row.
- `PeersStayConfined` (`PeersAreConfined`): unless a call failed or requests overlapped since
  the last rebuild began, a rebuild under way has the stored row, its listing is part of what is
  there (so a jump it does not add exists), and the drop is flushed before the jumps go.
- `GuardsHold` (`MetricsAreGuarded`): every password judged within the window is still among the
  attempts the limiter counts, and while forms do not overlap one that was judged leaves no
  endpoint open without a password.
- `OnlyRequestsAreServed` (`NothingIsSmuggled`): `StreamInv` says, for every position of the
  reader, how much of which request is unread, so that a head is looked for only where a request
  ended. `StreamFrames` shows that the framing agrees with the sender on every stream or refuses
  it. The streams are those of `Offered`: the theorem is about any connections, limits and
  interleavings, not about streams of other shapes.

**DatabaseProofs.** `ServedSchemaIsWhole` (`SchemaIsComplete`): every table and column whose
statement has run is there, wherever earlier starts were cut. `RestartsServeBackups`
(`RestartServesABackup`): what is on disk is a snapshot taken whole, which a start begins with.

**ServicesProofs.**
- `RevokedClientsStayOut` (`RevokedClientIsOut`): keys count upwards, and what a deleted client
  holds is older than the stored key and, once the delete answered, than the server's.
- `FilesAreWhole` (`ReaderSeesWhole`), for one writer: the inode the target names is written by
  nobody.
- `LinksStayGood` (`LinksAreServed`): at rest the served file is that of the row, and a link made
  since has the row's path.
- `UndisturbedReconcileConverges` (`ReconcileConverges`): the loop invariant of the reconciler
  over the names still to do.
- `LastSaveRuns` (`LastSaveIsServed`), for all four kinds of child: while requests do not overlap
  one task is busy, every live child is the recorded one or in its hands, and each step of each
  task has a duty it still meets.
- `EndpointHoldsTheRoster` (`EndpointServesTheRoster`): with no change pending a serving process
  knows the roster or is about to be stopped, and a reconcile carries files that know it; a
  restart outside the lock may interleave.
- `BytesAreCountedOnce` (`TrafficIsCountedOnce`), on top of it: unless a reset crossed an answer
  or a counted process, what was last counted of a user is what was seen of the process whose
  counters come next, and is no more than its counter, so a fold adds what is new of it. The
  sum over the processes is a recursive function; `SumExists`, `SumUnique` and `SumChanges` say,
  with the least counterexample, that it exists, is the only solution of its equation and
  changes by what one process changes.

**Assumptions.** The named ASSUMEs of the modules, which only type the constants and keep the
task names apart (`XrayTasks`: a handler is no watchdog's number). Hypotheses of theorems:
naturals for the numbers of relays, bytes, writes and children, the limit and the window, and
the sizes of QUIC datagrams, flights and connection IDs; `ApV4`, `ApV6` are networks (or
no IPv6); `Kinds` are the four that exist, handlers exist and are no children; one writer in
`FilesAreWhole`, as the writers of one file share its temporary name. `TunnelIsAChannel` asks of
the clocks that a slot outlives a query's waiting and travelling and that every positive gap
between uses of an offset is at least waiting, travelling and assembling together
(`TunnelSetting`): with the code's 32768 offsets and 13 s this is the rate named under *Runs*.
`WholeDatagramsArrive` adds `CutSetting`: datagrams have bytes (`engine.rs:379` skips empty ones),
there is a send domain and each has room for a character (`engine.rs:115`, `codec.rs:143`).
`CoverSetting`: lengths are naturals and a padded message fits a UDP datagram. `HsBody` is a
natural.
The instance TLC checks satisfies all of them.

**Only model-checked.**
- All liveness (`ExpiredRowIsRetired`, `SilentSessionExpires`, `CallReturns`, `RequestsReturn`,
  `ExpiredUserIsDropped`): fairness and ENABLED are outside the prover's reach.

Every safety property of the runs, invariant or action property, is stated by a theorem.

No module has a RECURSIVE operator.

<a name="assumptions"></a>
## Assumptions and abstractions

- SQLite calls are atomic and do not fail (errors of subprocesses, files and nft do).
- PeerSync's web process runs the tools itself; the helper's side of a sync is PrivHelper.
- A file write of the `.conf` is truncate, then the whole text; a prefix of it counts as empty.
- Public keys of two clients differ; keys, secrets and tokens are fresh (never guessed).
- One user in LoginSessions: handlers of different users share nothing there but the limiters.
- argon2, HMAC, AES-GCM and TLS are ideal: equality of what went in, or failure.
- Texts (reasons, errors, log lines) and times other than expiry, TOTP steps and timeouts are
  left out; `status()` and the other read-only endpoints with them.
- A configuration text is the settings it is rendered from; whether a child can read it is
  kept where a setting can make it unreadable.
- In XraySupervisor a pid is not reused, and what Xray does with a file it cannot parse is a
  crash.
- CoverTraffic and QuicResponder keep lengths, offsets and the bytes that classification looks
  at; random bytes are those that fall into another message's range or not.
- nft applies a script atomically; a chain is a set of rules with a peer, a family and a verdict
  (within one chain accepts come before the drop), and jumps are met in the order of their
  handles.

## Not modelled

See `components` in `PROJECT.json` for each with its reason. In short: the router and the
extractors (no state), cookies and query strings, embedded binaries and decompression, the
Reality probe, certificates' DER, QR codes, key generation, the share formats that only render
text (`trusttunnel/share.rs`, `deeplink.rs`, `qqdns/share.rs`), the DNS messages around a QQ-DNS
fragment, TLS inside the QUIC flight, user administration of the admin API, logging,
environment parsing, the browser UI, packaging and scripts. Their correctness is that of a
format, which the repository's own tests pin down with examples, or they change no state.

## Plan

Modelled and checked: every stateful component of the inventory. Proved: every safety property
of the runs, and the refinement of DatagramChannel.

Compositions worth adding: PeerSync through PrivHelper's socket; XraySupervisor over SecretFile's
steps instead of one write.
