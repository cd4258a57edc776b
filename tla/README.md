# OmaChat: a TLA+ model

Specifications, model-checking instances and machine-checked proofs for
OmaChat: the client daemon `omachatd`, the hosted directory `omachat-server`,
and the crates both are built from. The specifications are translated from the
Rust sources under `src/crates`; where this text says *external*, the code is
not in the repository and is modelled from how it is used.

## 1. The system

| Part | State | What changes it | What makes it hard |
|---|---|---|---|
| Daemon core (`omachatd/core.rs`, `main.rs`) | panic state, operations lock, identity, cached hosted account, token | client requests, panic erasure, signals, hosted events | erasure against everything that uses a key; shutdown against erasure; lost wake-ups |
| Hosted transport (`omachatd/hosted_service.rs`) | request channel, pending replies, connection, event channel, stop flag | calls, handshakes, frames, losses, stop | ids reused per connection, callers that gave up, full channels |
| Chat actor (`omachatd/nostr_chat.rs`) | messages, relay list, identity, pool, subscription | requests, relay notifications, restarts | memory before disk, calls that time out, replayed events |
| Relay connection and pool (`omachat-nostr/relay.rs`, `pool.rs`) | channels, session, subscriptions, pending publishes, deduplication window | commands, frames, reconnects, dropped futures | rejected commands, authentication in the middle of a session, full queues |
| Direct message library (`omachat-nostr`: discovery, caches, routing, delivery, inbox, events, handles) | sessions, evidence, caches, windows, bytes read so far | notifications, clocks, restarts | events in any order, clocks set back, stale lists, split responses |
| Sealed store (`omachat-store`) | provider marker, master key, records, keyring | open, write, delete, migrate, erase | kills and power losses between steps, two providers, two processes |
| Directory (`omachat-server` service and storage) | accounts, handles, bindings, nonces, subscribers, schema version | session requests, migration, crash | proofs at the edge of their window, nonce before binding, migration in two steps |
| Sessions and host (`session.rs`, `host.rs`) | session phase, limits, admission counts | clients, timeouts, shutdown | work queued for a session that is gone |
| IPC server (`omachatd/ipc_server.rs`) | client tasks, subscribers, socket | clients, events, shutdown | slow clients, drain and abort |
| Confirmations (`omachatd/confirmation.rs`) | pending tokens and their files | issue, redeem | single use, expiry |
| Protocol types, CLI, TUI, desktop, packaging | none, or user interface | - | - |

How they interact: a client sends a command over the IPC socket; the core runs
it under the operations lock and, depending on the command, writes the sealed
store, asks the chat actor, or calls the hosted transport. The transport owns
the socket to a directory session and reports its states through a channel
whose consumer updates the core. The session stamps requests and queues them
for the one service thread that owns the database. The chat actor owns the
relay pool, which owns one actor per relay; the direct message library uses the
same pool for discovery, delivery and an inbox of its own. Panic erasure stops
the chat actor and the transport, takes the operations lock for writing and
then removes keys and records.

What correctness means, per part: erasure leaves nothing and nothing comes back
(core, store); a reply belongs to its call and every call returns (transport);
what the directory publishes was proven by its owner, a name has one key, a
proof counts once (directory); a subscription is never lost, a send is never
invented, an announced message stays saved (chat, pool, relay); what was
acknowledged is readable after a crash (store); the newest event wins in every
order of arrival, a message goes where its recipient asked and is taken in
once, a handle resolves to what the document says (library).

## 2. Modules

| Module | Models | Run by | Proofs |
|---|---|---|---|
| `EraseContract` | abstract: what panic erasure promises | as a property of `DaemonCore` | `DaemonCoreProofs` |
| `DaemonCore` | core, client tasks, chat mailbox, transport and event consumer as far as erasure and shutdown involve them, `main` | `MCDaemonCore` | `DaemonCoreProofs` |
| `HostedTransport` | `hosted_service.rs`, the cached account of `core.rs`, the server behind the socket (external) | `MCHostedTransport` | `HostedTransportProofs` |
| `Directory` | service, storage, sessions of the server, crash and migration | `MCDirectory` | `DirectoryProofs` |
| `RelayConnection` | `relay.rs`: one connection as a record, each handler as an operator | through `NostrChat` | `NostrChatProofs` |
| `RelayPool` | `pool.rs` over a connection for each relay | through `NostrChat` | `NostrChatProofs` |
| `NostrChat` | the chat actor over the pool, its records, kill and restart | `MCNostrChat` | `NostrChatProofs` |
| `SealedStore` | `sealed.rs`, `identity.rs`: disk, keyring (external), processes, power loss | `MCSealedStore` | `SealedStoreProofs` |
| `NostrEvent` | events, NIP-44 payloads, gift wraps, frames, as operators | through `DmLibrary` | `DmStateProofs`, `DmLibraryProofs` |
| `RelayLists` | relay lists, profiles, caches, routes and plans, as operators | through `DmLibrary` | `DmStateProofs`, `DmLibraryProofs` |
| `HttpFetch` | the bounded HTTP exchange, as operators, and handle resolution over it | through `DmLibrary` | `HttpFetchProofs`, `DmLibraryProofs` |
| `DmLibrary` | discovery, delivery, inbox and resolution, over the three modules above | `MCDmLibrary` | `DmStateProofs`, `DmLibraryProofs` |

**DaemonCore.** One action per stretch of code between two points where another
task can observe the shared state. `pc[c]` is where the task of client `c` is
in `serve_client`/`dispatch`; `readers`/`writer` are the Tokio lock
`operations` (a waiting writer blocks new readers); `worker` is
`perform_panic_cleanup` with its supervisor; `disk` is what the state directory
and the keyring hold; `watcher`, `seen` and `notified` are the watch channel of
the terminal state with its versions, so that a lost wake-up is expressible.
Commands are abstracted to the ways they hold the lock: a read, a write of the
store, a token, a chat request, a hosted call. A hosted call waits for a slot of
the request channel without timeout (`HostedSend`) and then for its answer with
one (`HostedReturn`); the transport takes requests, writes them and pings only
during a session, and a write may never return (`hosted` is "writing" or
"closing"), since `socket.send` has no timeout.

**HostedTransport.** `caller[c]`/`outcome[c]` follow one `HostedHandle::call`
from the untimed `requests.send` to the result; `phase` is the place in `run`;
`publish_state` sets the watch at once and leaves the event in `publishing`
until the channel has room, during which the task does nothing else. A session
numbers its requests from 1; a lost connection drops `pending`, and the frames
it had sent go to `linger`, where the server may still carry them out. The
server may also refuse a claim (a taken or malformed handle, a storage error).
`TaskConnect` takes the snapshot that the `authenticate` answer carries. The
calls are claims, each of its own handle, because claims are what the cached
account depends on. Keepalive pings and malformed frames end a session like a
broken socket does. A signer without identity, which ends the task, cannot
occur before the task has stopped (`DaemonCore`).

**Directory.** Sessions register, attach, send commands and detach through a
bounded queue; the service takes one request at a time. A proof is taken in
three steps, as the code commits them: checks and purge (`ServiceProve`),
nonce (`ServiceRemember`), binding (`ServiceApply`); the process may die between
them. `stamp` is the time the session read, which the service uses, and `Lag`
bounds how much later the request is handled: the code has no such bound, so
results that depend on it hold for any `Lag`. The server's clock
(`SystemTime`) does not go back in the model. `BootAlter`/`BootVersion` are the
two statements of the schema migration, and `BootRefused` what a restart between
them meets. Accounts are named by their device. Queries that change nothing are
left out; `Nip05` is the published document.

**RelayConnection, RelayPool, NostrChat.** A connection is a record whose fields
are the locals of `run_actor_loop`, its two channels and the call in progress
on its handle; each handler gives the set of records that the outcomes of its
socket calls lead to. The relay is external: which frame arrives is chosen when
the actor reads it. The pool's operations are split where they await the
connections, which act in between; `awaiting` is the set of relays whose calls
the owner awaits, `CallTimeout` their `response_timeout`, and `CancelNext` the
future of `next_notification` that `select!` drops when a request wins.
`chat.pc` is where the actor awaits. Requests go through `ensure_identity`,
`ensure_pool`, `restart_pool`, `ensure_subscription` and `publish_inbox_list`
in the code's order. A save succeeds or fails as a whole, which `SealedStore`
justifies. `Kill` ends the process anywhere, and `Start` reads the records back,
an unreadable one as an empty one (`unwrap_or_default`). `wire`, `took`, `full`
and `owed` are history. The contact list is left out: the requests that change
it appear with the outcomes they have.

**SealedStore.** `disk` has the state directory, the replacement a migration
builds, and the backup. A record is the key it is sealed under and its content.
`hist` is the set of disks a power loss may leave: a change of a directory adds
one, a sync leaves one, so any prefix of the unsynced changes may survive. The
keyring is external; its calls succeed or do not, and what it stores stays. A
process goes through `open` (load, or the first run with its choice of
provider, key and marker), recovery of temporary files, the identity record,
the daemon's instance lock (`Bind`), writes and deletes, or a migration, beside
whatever the other does. It can be killed at any step. `unguarded` records the
first situation met that the code does not guard against (section 5); the model
stops there.
`base` and `tried` are history: the last acknowledged content of a record, and
those whose write began since.

**NostrEvent, RelayLists.** Stateless code as operators; an operator
that can fail gives the set of its results. Hash, signature and cipher are
perfect: an id is the record of the fields it covers, a signature names its key
and id. Lengths are kept wherever the code compares them (payload padding, the
two length prefixes, content and event limits, cache size). A URL is the parts
the code looks at. The checks of inbox URLs are those of the default policy,
which requires TLS.

**HttpFetch.** An HTTP response is a sequence of cells, so that a read can end
inside the header, a chunk size or a body; `Exchange` is one turn of the read
loop on the cells so far. `fetch` is the call of `resolve_handle` in progress:
it starts with any response, reads on (`ReadCells`), meets the end of the
connection, early or not (`ReadEnd`), or times out (`EndResolve`). `Sendable`
is what a response is: chunks are not empty, a body is as long as its length
says unless its connection is lost, and nothing follows a document that only
the end of the connection delimits (the code could not tell such a document,
cut where it ends, from the whole response). The document is the sequence of its
names, some of them equal up to case and some with a key that does not parse:
the first entry that matches decides. Chunk sizes are as large as their chunks;
a size at the end of `usize`, where `size + 2` overflows, is not represented.

**DmLibrary.** One client does one thing at a time: a discovery of one of three
kinds of event, a delivery or an inbox, with a cache, a clock that may be set
back, and restarts in between. `Resolving` composes it with `HttpFetch`; the two
share no state, so a handle is resolved only while nothing else goes on. The
pool is seen through its interface: sessions move (`Moves`), each move leaves a
notification, and the window of event ids suppresses copies. `StoreFound` and
`Restart` are the caller's: put what was found into the cache, save it, read it
back. `sent`, `lost`, `log` and `from` are history, and so is `cut` of a fetch.

Several definitions often stand for parts of one function (a handler split at
its awaits). `PROJECT.json` maps the definition that carries a stretch of code;
small steps around it, such as the two sides of a channel operation, are mapped
with the definition they surround.

## 3. Runs

| Run | Question | Result |
|---|---|---|
| `daemon_hosted` | erasure against an operation, chat, transport, consumer and shutdown | the fences hold; implements `EraseContract` |
| `daemon_clients` | two clients that operate and erase, key in the keyring, no hosted transport | shutdown completes; implements the live contract |
| `daemon_hosted_live` | hosted calls, full request and event channels, a stuck socket | erasure and shutdown end, with two named exceptions |
| `daemon_relay_keys` | "drops the in-process keys" (SECURITY.md) | violated, see 6 |
| `hosted_calls` | two calls, two connections, one-slot channels, losses, late server, stop | replies match, calls return, transport ends |
| `hosted_claim_shown` | a successful claim is in the cached account | violated, see 6 |
| `directory_owners` | two owners, two handles, one contested key, one crash | names proven and unambiguous, subscribers exact, calls answered |
| `directory_replay` | proofs resent around the edge of the window | a proof at least `Lag` behind the server's clock at its first use is used once |
| `directory_once` | any proof is used once | violated, see 6 |
| `chat_relays` | chat actor, pool and connection against a relay that challenges, drops, delays and repeats, with kills and restarts | no subscription lost, no send invented, nothing sent on an unauthenticated session, announced messages saved, requests answered |
| `store_crash` | two processes open, write, delete and migrate, with kills and power losses at every step | what was acknowledged is readable, a daemon holds what the disk designates, the provider is chosen once, up to the situations of section 5 |
| `dm_library` | discovery, caches, routing, delivery, inbox and handles, with clocks, restarts, lost sessions and split reads | the newest event is found, caches go forward, messages go to the recipient's list and are taken in once, handles resolve exactly |

Bounds and why they suffice. Queues have one or two slots, so that full and
empty both occur; the code's 32, 64 and 256 change how long it takes to fill
them. Two clients or sessions give every pair of roles; a third adds a third
independent copy and the safety theorems cover any number. In `daemon_hosted`
the terminal watcher has blocked before the first client connects (the
constraint `WatcherFirst`); the other daemon runs and the theorems let it start
late. In `daemon_hosted_live` one client makes hosted calls and the other
erases, the watcher is blocked before they connect, cleanup steps do not fail
and the server does not drop or report during a session (`ConnectAfterWatcher`,
`CleanupSucceeds`, `SteadySession`): the reports before, at the start and at the
end of a session are enough to fill the event channel and wait for room, and
what is bounded away is in the other daemon runs. Two connections are the least
with which ids repeat, and a third would only repeat the second. In
`directory_replay` the window is 1 and time runs to 4, so each proof can be
early, fresh, at the edge, stale, and have its nonce purged. `directory_owners`
keeps time still, since its properties do not depend on it, and has one crash,
which can fall between any two steps.

`chat_relays` has one relay that may be configured or not: a second is an
independent connection, and the theorems cover any number. Its notification
channel has two slots, so that a Connected notification can wait behind another;
its window and message list have one, so that both evict at once. A peer's
message can be delivered again and again, and a sent message comes back as the
copy for this identity. `store_crash` has two processes, three generated keys or
identities (a first run, its identity and a migration) and one content besides;
a second migration needs a key more and repeats the first. `dm_library` has two
participants, two relays to search and three to deliver to, times 0 to 2 with
limits of 1, so that a list is fresh, stale or ahead of the clock; for each kind
it serves two events of one second, a later one, an unusable one, and for one
author an event of the other. The cache holds one record, and for lists a record
can be too large. The inbox window holds one id and three wraps are processed on
one relay, two on two. Byte limits that appear as numbers are the code's, except
the cache's, scaled to the events above.

Fairness. Tokio polls a task that was woken: weak fairness for the steps of
each task. Sends into a bounded channel are served first come, first served:
strong fairness for `SessionSend` of `Directory` and `CallQueue` of
`HostedTransport`. A backoff lasts at least a second during which the request
channel is polled: strong fairness for `BackoffReply`. Timeouts fire (connect,
request, drain; in `NostrChat` the response timeout of a call and the abort of
a connection at shutdown). Nothing is assumed of clients, relays, signals, or of
the server answering or accepting connections: `RequestsAnswered` holds with
relays that never answer. Two assumptions are not guaranteed by the code alone:
that a socket write completes or fails in `HostedTransport` (`socket.send` has
no timeout of its own; TCP gives up eventually), and that file system and keyring
calls return. `DaemonCore` does not assume the first: the write that never
returns is an exception of `EraseTerminates` and `ShutdownCompletes`.

The second exception of `EraseTerminates` is `CircularWait`, a circle the code
can close: an operation holds the operations lock and waits for a slot of a full
request channel; the transport, told to stop, waits for a slot of a full event
channel before it drops its requests; the consumer of the events waits for the
lock behind the erasing writer, which waits for the operation. It needs 64 queued
requests and 256 unread events in the code, one of each in the instance. A
requested shutdown breaks it, because the drain timeout aborts the client's
task; `ShutdownCompletes` has no such exception.
`store_crash` and `dm_library` claim safety only and do not check deadlock: a
process may be refused for good (a key without marker), a bounded clock or a
bounded supply of keys may run out.

## 4. Proofs

All proofs are checked by TLAPS from the named assumptions on constants
(channel capacities positive, sets disjoint from markers, the roles subsets of
the clients, times and bounds natural numbers, contents distinct from generated
keys) for any number of clients, sessions, calls, proofs, connections, relays
and processes.

* `DaemonCoreProofs`: type correctness, `NoUserOutlivesKeys`,
  `CompleteMeansErased`, `NoExitMidErase`, `StoppingExcludesErase`,
  `NothingRevived`, and that `DaemonCore` implements `EraseContract` (safety).
  The properties are not inductive: that no user outlives the keys needs to
  know how far the worker is (`WorkerInv`), that every operation in flight is a
  reader (`LockInv`), that chat and transport were quiet before the lock was
  taken (`QuietInv`), and in which order keys go (`KeyInv`); completeness needs
  what each finished step removed (`CleanInv`).
* `HostedTransportProofs`: type correctness, `ReplyMatches`,
  `AccountNotInvented`, `StoppedIsQuiet`. The argument: nothing of a session
  outlives it (`PhaseInv`), within a session an id names one call at both ends
  (`IdInv`), so a positive answer in flight is for the call the server carried
  out (`AnswerInv`); snapshots on their way carry the server's handle or none,
  and a handle once claimed stays (`SnapshotInv`).
* `DirectoryProofs`: type correctness,
  `TimelyProofOnce`, `NamesProven`, `NamesUnambiguous`, `SubscribersExact`,
  `HandlePermanent`, `UnbindExact`. The argument for `TimelyProofOnce`: a
  request is at most `Lag` old when handled (`StampInv`), a proof that was used
  is in the nonce table as long as its timestamp is fresh (`NonceInv`), and the
  proof in the service's hands still passes its checks (`SvcInv`), which rests
  on calls, queue and sessions agreeing (`CallInv`, `QueueInv`).
* `NostrChatProofs` (with the pool and its connections): `ReplayExact`,
  `SubscriptionNotLost`, `WindowExact`, `AnnouncedIsSaved`, `SendIsTrue`,
  `AuthFence`. The proof follows the layers. For one connection every handler
  preserves `Good`: what was asked of the relay is kept, equals what is kept
  once the session is open, and at most one call is in flight, as a command or
  as a pending event, and only while its caller waits. `Serving(c, e)` and
  `Asking(c, s)` say what that call is, so that "ok" means that the relay took
  `e`, or that the actor keeps `s`. `PoolInv` adds that what the pool takes as
  confirmed is kept by the actor (else `Kept` fails after a reconnect) and that
  the window has no repetition, which makes its set and its order the same
  size. For the actor, `Placed` ties its place to what it awaits, `Called` its
  place to what the calls are, and `Saved` says that an announced message is in
  memory as well as on disk, without which the next save would lose it.
* `SealedStoreProofs`: `AckedReadable`, `HeldIsStored`, `ProviderSticky`.
  `Consistent` says of every disk in `hist` that the tree in use designates a
  key that can be had and that every record is sealed under it (`SoundDisk`);
  of every process what it relies on at its step (`Fits`: the key in a first
  run is the only one, an open store is the marker's, a replacement holds the
  contents the migration read, and every disk that may come back has the old
  provider until the second rename); and of two processes what they cannot be
  doing together (`Apart`: first runs, writes of one record, two daemons, two
  migrations, anything beside a migration that moves the trees). It is needed
  because a step of one process must not invalidate what another holds, on any
  disk that may come back. It is claimed while `unguarded` is "none"
  (`Followed`).
* `DmStateProofs`, `DmLibraryProofs`: `FindsNewest`, `DeliveredToInbox`,
  `InboxAuthenticOnce`, `CacheForward`. The inductive invariant `IInv` has four
  parts. `CacheOk`: every record is the one its own event gives its author at
  the time of the verification, and together they fit the limits; without it a
  restart could drop what an insert accepted. `Sound`: what a search has seen is
  of its author, and its best event beats every acceptable one it considered;
  that this is the newest needs the tie rule to be an order (`BeatsOrder`).
  `Sending`: the plan of a delivery is the route of the record it came from, and
  the relays that count as authenticated are among its relays. `Receiving`: a
  relay of the inbox counts as authenticated only while its session is open or
  the notification of its end is unread (`InStep`), so that what is taken in
  came in an authenticated session. `Window`: an entry of the inbox's log is in
  the window, with only later ones behind it, or expired, or displaced by as
  many others as the window holds. The clock may go back between two messages,
  so that an expired entry can stay behind one that is not and the window is not
  ordered by time: `WindowStep` is proved from what one call of `remember` does
  to the sequence (`Moved`), not from times. The proof rests on assumptions on
  the constants that TLC evaluates on the instance: URLs print and parse back
  (`UrlAssumption`), events of one second are ordered by id
  (`ServedAssumption`), and nobody seals for someone else (`SaidAssumption`: a
  seal signed by its key and encrypted for this client holds what the key's
  owner wrote, or a rumor of another author, which `open_gift_wrap` must
  refuse).
* `HttpFetchProofs`: `ResolvedExactly`, for any responses, limits and split
  into reads, and for `DmLibrary` through `FetchContained` (its `Spec` implies
  `FetchSpec`). `Joined` and `DecodeChunked` are recursive functions. Induction
  is used for sets (`Induction`: a set of numbers with 0 and the successor of
  each of its members holds all, from the least element of its complement), and
  gives first that each function has a value that satisfies its equation, then
  what it computes: the wire of a chunked body is its chunks one after the
  other (`FramedAt`), and the decoder, on any prefix and from the beginning of
  any chunk, finds the units of the chunks from there or, before the end of the
  body, asks for more (`DecodePrefix`). So
  `Exact` holds of each turn of the exchange (`ExchangeExact`): more is asked
  for only before the end, the body is the document, or a part of it, of a
  connection lost early, that does not parse, and a refusal has its reason in
  the response. The inductive invariant `FetchInv` adds to `ResolvedExactly`
  that a fetch in progress has read some of one of the responses. The
  assumption is `ResponseAssumption`: the responses are `Sendable`.

Only model-checked: every liveness property (`EraseTerminates`,
`ShutdownCompletes`, `KeepsLiveContract`, `CallsReturn`, `StopEnds`,
`CallsAnswered`, `RequestsAnswered`), since the prover does not reason about
fairness and ENABLED. Every invariant and action property of a passing run is
proved.

## 5. Not modelled

* What follows three situations of the sealed store, the values of `unguarded`;
  its properties are claimed up to there. "firstRuns": the store takes no lock,
  and the daemon takes its instance lock after the store is open, so two
  processes started together on an empty directory can each write a key, a
  marker and an identity. "swap": a migration takes no lock either; it can move
  the trees while another process uses the store or after a record it had copied
  changed, and an open between its two renames, also after a kill there, finds
  no state directory and starts an empty store beside the backup. "entry": the
  entry of `records/` in the state directory, and of that directory in its
  parent, are synced by no call, and a power loss may take them.
* The event hub, the admission counts of the server host and the times of
  confirmation tokens: small sequential bookkeeping under one lock, or in one
  task, that no modelled component reads. Their hazards are listed without a
  property.
* The contact list of the chat actor, configuration reload, event pushes of the
  service to subscribers, rate limits and idle timeouts of sessions.
* Code without a caller outside its tests: `close_subscription` of the relay
  pool (the connection handles `Close`, but no behaviour contains one),
  `plan_dm_publish`, an inbox policy without TLS. `Service::publish` of the
  server has none either; the daemon handles such events, so `ServerPush` is an
  action.
* Keepalive intervals, reconnect delays and jitter have no duration: a ping that
  fails and a timeout that passes are steps that may happen.
* The NIP-11 document, TLS, DNS, cryptographic primitives, wire encodings,
  command lines, user interfaces, packaging: no concurrent state, or bytes that
  cannot be enumerated.

## 6. Where code and documents disagree

* `daemon_relay_keys`: SECURITY.md says erasure "drops the in-process keys".
  The chat actor acknowledges its shutdown before it closes the relay pool,
  whose actors hold the Nostr secret; `CleanupComplete` can be reported before.
* `directory_once`: `storage.rs` says a late replay is rejected by the timestamp
  check once the nonce is gone. A proof stamped ahead of the server's clock is
  still fresh after its nonce has been purged.
* `hosted_claim_shown`: the test `hosted_transport.rs` expects the handle in the
  status right after a successful claim. If the Connected event of the
  connection is consumed after the claim's answer, it replaces the account by
  the older snapshot, and the handle is missing until the next connection.

Behaviour the models show and no document denies, worth knowing to a maintainer:
the circle of section 3 and the situations of section 5; a discovery passes over
an event whose first copy came from a relay whose subscription failed (the pool
then suppresses the other copies); of two lists of one second, the direct
message search prefers the larger id and the others the smaller; a saved cache
is unreadable as a whole while the clock is behind one of its verifications; a
subscription refused because the command channel was full is not asked for again
before the next connection.

## 7. What could follow

1. `HostedTransport` composed with the sessions of `Directory` in place of the
   external server.
2. A lock around open and migration in `SealedStore`, as a design to compare:
   with it "firstRuns" and "swap" disappear from the properties. Likewise a
   request channel closed before the stopped report in `DaemonCore`, which
   would remove `CircularWait`.
3. The event hub, confirmation times and host admission.
4. A second relay in the `chat_relays` instance, for thresholds above one.
