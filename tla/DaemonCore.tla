------------------------------ MODULE DaemonCore ------------------------------
(***************************************************************************)
(* The life cycle of omachatd around panic erasure and process shutdown:   *)
(* core.rs (PanicLifecycle, dispatch, panic_erase, perform_panic_cleanup,  *)
(* receive_hosted_event), the client tasks and the drain of ipc_server.rs, *)
(* the mailbox of the chat actor in nostr_chat.rs and the order of events  *)
(* in main.rs.                                                             *)
(*                                                                         *)
(* Several tasks run concurrently: one per connected client, the chat      *)
(* actor, the hosted transport and the consumer of its events, the panic   *)
(* worker, the task that waits for the terminal state, and main.  One      *)
(* action is one stretch of code between two points where another task may *)
(* observe or change the shared state.                                     *)
(***************************************************************************)
EXTENDS Naturals, Sequences, FiniteSets

CONSTANTS Clients,        \* connection slots of IpcServer::run
          Operators,      \* the clients that send ordinary commands
          Panickers,      \* the clients that send the panic command
          Commands,       \* the kinds of ordinary commands they send
          ChatQueue,      \* capacity of the chat actor's mailbox (32 in the code)
          EventQueue,     \* capacity of the hosted event channel (256 in the code)
          RequestQueue,   \* capacity of the hosted request channel (64 in the code)
          HostedConfigured, \* whether the configuration has a "hosted" section
          KeyInDirectory  \* ProviderKind::File; the keyring holds the key otherwise

ASSUME QueueAssumption ==
  ChatQueue \in Nat \ {0} /\ EventQueue \in Nat \ {0} /\ RequestQueue \in Nat \ {0}
ASSUME ConfigAssumption == HostedConfigured \in BOOLEAN /\ KeyInDirectory \in BOOLEAN
ASSUME ClientsAssumption == {"shutdown", "none", "consumer"} \cap Clients = {}
ASSUME RolesAssumption ==
  /\ Operators \subseteq Clients /\ Panickers \subseteq Clients
  /\ Commands \subseteq {"read", "identity", "token", "chat", "hosted"}

VARIABLES
  state,      \* PanicLifecycle.state
  notified,   \* the watch channel `terminal` has been replaced
  pc,         \* what the task of each client is doing
  readers,    \* holders of operations.read(): clients and the event consumer
  writer,     \* operations.write() of the panic worker
  token,      \* the pending panic confirmation
  worker,     \* progress of perform_panic_cleanup and its supervisor
  failed,     \* some step of the cleanup returned an error
  chat,       \* phase of the chat actor
  mailbox,    \* requests queued for the chat actor
  serving,    \* the client whose request the chat actor is handling
  hosted,     \* phase of the hosted transport
  slot,       \* CoreInner.hosted holds a handle
  stop,       \* the transport's stop flag
  requests,   \* how many requests its channel holds
  publishing, \* the event the transport is sending to the consumer
  events,     \* state events queued for the consumer
  consumer,   \* what the event consumer is doing
  event,      \* and the event it has received
  identity,   \* CoreInner.identity
  account,    \* CoreInner.hosted_account
  erased,     \* KeyState.erased: the master key left the process
  disk,       \* what the state directory and the keyring hold
  main,       \* progress of main.rs run()
  shutdown,   \* the process shutdown flag
  watcher,    \* the task that forwards the terminal state to `shutdown`
  seen        \* the watch version each terminal waiter last saw

lifeVars == <<state, notified, token>>
lockVars == <<readers, writer>>
workVars == <<worker, failed>>
chatVars == <<chat, mailbox, serving>>
hostVars == <<hosted, slot, stop, requests, publishing, events, consumer, event>>
dataVars == <<identity, account, erased, disk>>
mainVars == <<main, shutdown, watcher, seen>>
vars == <<lifeVars, pc, lockVars, workVars, chatVars, hostVars, dataVars, mainVars>>

Terminal == {"CleanupComplete", "CleanupFailed"}
States == {"Active", "Erasing", "Stopping"} \cup Terminal
ClientSteps == {"gone", "idle", "acquire", "run", "chatSend", "chatWait", "hostedSend",
                "hostedWait", "redeem", "begin", "supervise", "respond"}
WorkerSteps == {"idle", "chatSend", "chatWait", "takeHosted", "quiesce", "lock",
                "lockWait", "wipe", "eraseKey", "deleteKey", "removeDir", "unlock",
                "finish", "notify", "done"}
Files == {"key", "records", "token"}
InDirectory == IF KeyInDirectory THEN Files ELSE Files \ {"key"}
Events == {"state", "connected"}

TypeOK ==
  /\ state \in States
  /\ notified \in BOOLEAN
  /\ pc \in [Clients -> ClientSteps]
  /\ readers \subseteq Clients \cup {"consumer"}
  /\ writer \in {"none", "waiting", "held"}
  /\ token \in {"none", "live"}
  /\ worker \in WorkerSteps
  /\ failed \in BOOLEAN
  /\ chat \in {"serving", "busy", "closing", "stopped"}
  /\ mailbox \in Seq(Clients \cup {"shutdown"})
  /\ serving \in Clients \cup {"none"}
  /\ hosted \in {"connecting", "connected", "writing", "closing", "stopped", "ended"}
  /\ slot \in BOOLEAN
  /\ stop \in BOOLEAN
  /\ requests \in 0..RequestQueue
  /\ publishing \in Events \cup {"none"}
  /\ events \in Seq(Events)
  /\ consumer \in {"idle", "acquire", "apply"}
  /\ event \in Events \cup {"none"}
  /\ identity \in {"held", "dropped"}
  /\ account \in {"none", "known"}
  /\ erased \in BOOLEAN
  /\ disk \subseteq Files
  /\ main \in {"serving", "draining", "aborting", "prepare", "subscribe", "check",
               "blocked", "stopHosted", "joinHosted", "exited"}
  /\ shutdown \in BOOLEAN
  /\ watcher \in {"start", "check", "blocked", "fired"}
  /\ seen \in [{"main", "watcher"} -> BOOLEAN]

IsActive == state = "Active"
Become(c, p) == pc' = [pc EXCEPT ![c] = p]

(* Points where a client task awaits: Tokio's abort takes effect only here. *)
AwaitPoints == {"idle", "acquire", "chatSend", "chatWait", "hostedSend", "hostedWait",
                "supervise", "respond"}
(* Points where a client holds operations.read(). *)
InOperation == {"run", "chatSend", "chatWait", "hostedSend", "hostedWait"}

Init ==
  /\ state = "Active" /\ notified = FALSE /\ token = "none"
  /\ pc = [c \in Clients |-> "gone"]
  /\ readers = {} /\ writer = "none"
  /\ worker = "idle" /\ failed = FALSE
  /\ chat = "serving" /\ mailbox = <<>> /\ serving = "none"
  /\ hosted = (IF HostedConfigured THEN "connecting" ELSE "ended")
  /\ slot = HostedConfigured /\ stop = FALSE /\ requests = 0 /\ publishing = "none"
  /\ events = <<>> /\ consumer = "idle" /\ event = "none"
  /\ identity = "held" /\ account = "none" /\ erased = FALSE
  /\ disk = {"key", "records"}
  /\ main = "serving" /\ shutdown = FALSE /\ watcher = "start"
  /\ seen = [w \in {"main", "watcher"} |-> FALSE]

-----------------------------------------------------------------------------
(* Client tasks: serve_client and DaemonCore::dispatch. *)

ClientConnect(c) ==
  /\ main = "serving" /\ pc[c] = "gone"
  /\ Become(c, "idle")
  /\ UNCHANGED <<lifeVars, lockVars, workVars, chatVars, hostVars, dataVars, mainVars>>

(* EOF from the client, or the client shutdown flag seen between requests. *)
ClientLeave(c) ==
  /\ pc[c] = "idle"
  /\ Become(c, "gone")
  /\ UNCHANGED <<lifeVars, lockVars, workVars, chatVars, hostVars, dataVars, mainVars>>

(* A request is read and dispatch makes its first check; the biased select  *)
(* serves none once the flag is set.                                        *)
ClientRequest(c) ==
  /\ main = "serving" /\ pc[c] = "idle"
  /\ \/ c \in Operators /\ Become(c, IF IsActive THEN "acquire" ELSE "respond")
     \/ c \in Panickers /\ Become(c, IF IsActive THEN "redeem" ELSE "respond")
  /\ UNCHANGED <<lifeVars, lockVars, workVars, chatVars, hostVars, dataVars, mainVars>>

(* Mutant: the state is not looked at again once the lock is held. *)
AcquireWithoutRecheck(c) ==
  /\ pc[c] = "acquire" /\ writer = "none"
  /\ Become(c, "run") /\ readers' = readers \cup {c}
  /\ UNCHANGED <<lifeVars, writer, workVars, chatVars, hostVars, dataVars, mainVars>>

(* Tokio's RwLock is FIFO: a reader queues behind a waiting writer.  With   *)
(* the lock held dispatch looks at the state again.                         *)
DispatchAcquire(c) ==
  /\ pc[c] = "acquire" /\ writer = "none"
  /\ IF IsActive
     THEN Become(c, "run") /\ readers' = readers \cup {c}
     ELSE Become(c, "respond") /\ UNCHANGED readers
  /\ UNCHANGED <<lifeVars, writer, workVars, chatVars, hostVars, dataVars, mainVars>>

Done(c) == Become(c, "respond") /\ readers' = readers \ {c}

(* A record is sealed and written; after the key is erased the write fails. *)
StoreWrite == disk' = IF erased THEN disk ELSE disk \cup {"records"}

(* Commands that finish inside the handler (status, identity show/export). *)
RunRead(c) ==
  /\ pc[c] = "run" /\ "read" \in Commands
  /\ Done(c)
  /\ UNCHANGED <<lifeVars, writer, workVars, chatVars, hostVars, dataVars, mainVars>>

(* identity generate/import: seal a record, then ask the chat actor to reload. *)
RunIdentityWrite(c) ==
  /\ pc[c] = "run" /\ "identity" \in Commands
  /\ \/ StoreWrite /\ Become(c, "chatSend") /\ UNCHANGED readers
     \/ Done(c) /\ UNCHANGED disk
  /\ UNCHANGED <<lifeVars, writer, workVars, chatVars, hostVars, identity, account,
                 erased, mainVars>>

(* request-panic-confirmation: the token file goes to the state directory,  *)
(* which is created when it is missing, and no key guards this write.       *)
RunIssueToken(c) ==
  /\ pc[c] = "run" /\ "token" \in Commands
  /\ \/ disk' = disk \cup {"token"} /\ token' = "live"
     \/ disk' \in {disk, disk \cup {"token"}} /\ UNCHANGED token
  /\ Done(c)
  /\ UNCHANGED <<state, notified, writer, workVars, chatVars, hostVars, identity,
                 account, erased, mainVars>>

RunChat(c) ==
  /\ pc[c] = "run" /\ "chat" \in Commands
  /\ Become(c, "chatSend")
  /\ UNCHANGED <<lifeVars, lockVars, workVars, chatVars, hostVars, dataVars, mainVars>>

(* NostrChat::roundtrip: send waits for room in the mailbox. *)
ChatSend(c) ==
  /\ pc[c] = "chatSend" /\ chat # "stopped" /\ Len(mailbox) < ChatQueue
  /\ mailbox' = Append(mailbox, c)
  /\ Become(c, "chatWait")
  /\ UNCHANGED <<lifeVars, lockVars, workVars, chat, serving, hostVars, dataVars, mainVars>>

(* The actor is gone: the send or the reply channel fails with Stopped. *)
ChatStopped(c) ==
  /\ pc[c] \in {"chatSend", "chatWait"} /\ chat = "stopped"
  /\ Done(c)
  /\ UNCHANGED <<lifeVars, writer, workVars, chatVars, hostVars, dataVars, mainVars>>

(* A command that calls the server, once or twice under one lock: one call  *)
(* stands for both.                                                         *)
RunHosted(c) ==
  /\ pc[c] = "run" /\ "hosted" \in Commands
  /\ IF slot
     THEN Become(c, "hostedSend") /\ UNCHANGED readers
     ELSE Done(c)
  /\ UNCHANGED <<lifeVars, writer, workVars, chatVars, hostVars, dataVars, mainVars>>

(* HostedHandle::call: send waits for room in the channel, without a        *)
(* timeout, and fails once the transport has closed it.                     *)
HostedSend(c) ==
  /\ pc[c] = "hostedSend" /\ hosted # "ended" /\ requests < RequestQueue
  /\ requests' = requests + 1
  /\ Become(c, "hostedWait")
  /\ UNCHANGED <<lifeVars, lockVars, workVars, chatVars, hosted, slot, stop, publishing,
                 events, consumer, event, dataVars, mainVars>>

HostedSendFails(c) ==
  /\ pc[c] = "hostedSend" /\ hosted = "ended"
  /\ Done(c)
  /\ UNCHANGED <<lifeVars, writer, workVars, chatVars, hostVars, dataVars, mainVars>>

(* The call is answered, drained with Stopped, or its timeout expires; then *)
(* the request stays in the channel.                                        *)
HostedReturn(c) ==
  /\ pc[c] = "hostedWait"
  /\ Done(c)
  /\ UNCHANGED <<lifeVars, writer, workVars, chatVars, hostVars, dataVars, mainVars>>

(* redeem consumes the pending token and its file before it is compared;    *)
(* a live token may still be refused, as expired or as a mismatch.          *)
PanicRedeem(c) ==
  /\ pc[c] = "redeem"
  /\ token' = "none" /\ disk' = disk \ {"token"}
  /\ \/ token = "live" /\ Become(c, "begin")
     \/ Become(c, "respond")
  /\ UNCHANGED <<state, notified, lockVars, workVars, chatVars, hostVars, identity,
                 account, erased, mainVars>>

(* Mutant: a plain store instead of the compare-exchange. *)
BeginWithoutExchange(c) ==
  /\ pc[c] = "begin"
  /\ state' = "Erasing" /\ worker' = "chatSend" /\ Become(c, "supervise")
  /\ UNCHANGED <<notified, token, lockVars, failed, chatVars, hostVars, dataVars, mainVars>>

(* begin() under the transition mutex; success spawns the detached worker.  *)
(* There is no await between the two, so an abort cannot separate them.     *)
PanicBegin(c) ==
  /\ pc[c] = "begin"
  /\ IF IsActive
     THEN state' = "Erasing" /\ worker' = "chatSend" /\ Become(c, "supervise")
     ELSE UNCHANGED <<state, worker>> /\ Become(c, "respond")
  /\ UNCHANGED <<notified, token, lockVars, failed, chatVars, hostVars, dataVars, mainVars>>

PanicSupervised(c) ==
  /\ pc[c] = "supervise" /\ worker = "done"
  /\ Become(c, "respond")
  /\ UNCHANGED <<lifeVars, lockVars, workVars, chatVars, hostVars, dataVars, mainVars>>

(* write_all takes as long as the client lets it and may fail. *)
ClientRespond(c) ==
  /\ pc[c] = "respond"
  /\ \/ Become(c, "gone")
     \/ main = "serving" /\ Become(c, "idle")
  /\ UNCHANGED <<lifeVars, lockVars, workVars, chatVars, hostVars, dataVars, mainVars>>

(* abort_all after the drain timeout: the task is dropped where it awaits,  *)
(* its read guard with it; its queued chat request stays in the mailbox.    *)
ClientAborted(c) ==
  /\ main = "aborting" /\ pc[c] \in AwaitPoints
  /\ Become(c, "gone") /\ readers' = readers \ {c}
  /\ UNCHANGED <<lifeVars, writer, workVars, chatVars, hostVars, dataVars, mainVars>>

-----------------------------------------------------------------------------
(* The chat actor: Actor::run and Actor::handle. *)

(* Mutant: Shutdown is handled like any other request. *)
TakeAnyRequest ==
  /\ chat = "serving" /\ mailbox # <<>>
  /\ mailbox' = Tail(mailbox) /\ serving' = Head(mailbox) /\ chat' = "busy"
  /\ UNCHANGED <<lifeVars, pc, lockVars, workVars, hostVars, dataVars, mainVars>>

(* The next request is taken; Shutdown is answered before the pool closes. *)
ChatTake ==
  /\ chat = "serving" /\ mailbox # <<>>
  /\ mailbox' = Tail(mailbox)
  /\ IF Head(mailbox) = "shutdown"
     THEN chat' = "closing" /\ UNCHANGED serving
     ELSE chat' = "busy" /\ serving' = Head(mailbox)
  /\ UNCHANGED <<lifeVars, pc, lockVars, workVars, hostVars, dataVars, mainVars>>

(* The request is served; its reply is lost when the client was aborted. *)
ChatServe ==
  /\ chat = "busy"
  /\ chat' = "serving" /\ serving' = "none"
  /\ \/ StoreWrite
     \/ UNCHANGED disk
  /\ pc' = [c \in Clients |-> IF c = serving /\ pc[c] = "chatWait"
                              THEN "respond" ELSE pc[c]]
  /\ readers' = readers \ {c \in Clients : c = serving /\ pc[c] = "chatWait"}
  /\ UNCHANGED <<lifeVars, writer, workVars, mailbox, hostVars, identity, account,
                 erased, mainVars>>

(* on_notification: a gift wrap from a relay is opened and stored. *)
ChatNotification ==
  /\ chat = "serving"
  /\ StoreWrite
  /\ UNCHANGED <<lifeVars, pc, lockVars, workVars, chatVars, hostVars, identity,
                 account, erased, mainVars>>

(* pool.shutdown() returns, the actor ends and drops its mailbox. *)
ChatClosed ==
  /\ chat = "closing"
  /\ chat' = "stopped" /\ mailbox' = <<>>
  /\ UNCHANGED <<lifeVars, pc, lockVars, workVars, serving, hostVars, dataVars, mainVars>>

-----------------------------------------------------------------------------
(* The hosted transport (hosted_service.rs run, session) and the task that  *)
(* applies its events.  publish_state replaces the watched state at once    *)
(* and then waits for room in the event channel.  "connecting" spans the    *)
(* attempts and the backoff between them.                                   *)

Transport(from, to, published) ==
  /\ hosted \in from /\ publishing = "none"
  /\ hosted' = to /\ publishing' = published
  /\ UNCHANGED <<lifeVars, pc, lockVars, workVars, chatVars, slot, stop, events, consumer,
                 event, dataVars, mainVars>>

(* A handshake signs with the device key and publishes Connected(account). *)
TransportConnect ==
  /\ ~stop /\ identity = "held" /\ Transport({"connecting"}, "connected", "connected")
  /\ UNCHANGED requests

TransportDrop == ~stop /\ Transport({"connected"}, "connecting", "state") /\ UNCHANGED requests

(* Connecting and Disconnected of a failed attempt, or an event the server sent. *)
TransportReport ==
  /\ ~stop /\ hosted \in {"connecting", "connected"} /\ Transport({hosted}, hosted, "state")
  /\ UNCHANGED requests

(* A request is taken: the session writes it to the socket, the backoff     *)
(* answers it with Disconnected.                                            *)
TransportTake ==
  /\ ~stop /\ requests > 0 /\ requests' = requests - 1
  /\ \/ Transport({"connected"}, "writing", "none")
     \/ Transport({"connecting"}, "connecting", "none")

(* The other writes of a session: a keepalive or a pong, and the close once *)
(* the stop flag is seen.                                                   *)
TransportPing ==
  ~stop /\ Transport({"connected"}, "writing", "none") /\ UNCHANGED requests

TransportClose ==
  stop /\ Transport({"connected"}, "closing", "none") /\ UNCHANGED requests

(* A write returns when the peer has taken it: no timeout bounds it.  One   *)
(* that fails is followed by TransportDrop.  After the close the session is *)
(* over.                                                                    *)
TransportWritten ==
  /\ \/ Transport({"writing"}, "connected", "none")
     \/ Transport({"closing"}, "stopped", "state")
  /\ UNCHANGED requests

(* The stop flag is seen between sessions, or the signer has lost the identity. *)
TransportStop ==
  /\ stop \/ identity = "dropped"
  /\ Transport({"connecting"}, "stopped", "state") /\ UNCHANGED requests

(* The channel is closed and what it holds answered with Stopped. *)
TransportEnd == Transport({"stopped"}, "ended", "none") /\ requests' = 0

TransportPublish ==
  /\ publishing # "none" /\ Len(events) < EventQueue
  /\ events' = Append(events, publishing) /\ publishing' = "none"
  /\ UNCHANGED <<lifeVars, pc, lockVars, workVars, chatVars, hosted, slot, stop, requests,
                 consumer, event, dataVars, mainVars>>

EventReceive ==
  /\ consumer = "idle" /\ events # <<>>
  /\ event' = Head(events) /\ events' = Tail(events) /\ consumer' = "acquire"
  /\ UNCHANGED <<lifeVars, pc, lockVars, workVars, chatVars, hosted, slot, stop, requests,
                 publishing, dataVars, mainVars>>

EventAcquire ==
  /\ consumer = "acquire" /\ writer = "none"
  /\ IF IsActive
     THEN consumer' = "apply" /\ readers' = readers \cup {"consumer"} /\ UNCHANGED event
     ELSE consumer' = "idle" /\ event' = "none" /\ UNCHANGED readers
  /\ UNCHANGED <<lifeVars, pc, writer, workVars, chatVars, hosted, slot, stop, requests,
                 publishing, events, dataVars, mainVars>>

EventApply ==
  /\ consumer = "apply"
  /\ consumer' = "idle" /\ event' = "none" /\ readers' = readers \ {"consumer"}
  /\ account' = IF event = "connected" THEN "known" ELSE account
  /\ UNCHANGED <<lifeVars, pc, writer, workVars, chatVars, hosted, slot, stop, requests,
                 publishing, events, identity, erased, disk, mainVars>>

-----------------------------------------------------------------------------
(* perform_panic_cleanup, and the supervisor that reports how it ended. *)

WorkerStep(from, to) == worker = from /\ worker' = to

WorkerChatSend ==
  /\ WorkerStep("chatSend", "chatWait") /\ Len(mailbox) < ChatQueue
  /\ mailbox' = Append(mailbox, "shutdown")
  /\ UNCHANGED <<lifeVars, pc, lockVars, failed, chat, serving, hostVars, dataVars, mainVars>>

WorkerChatStopped ==
  /\ WorkerStep("chatWait", "takeHosted") /\ chat \in {"closing", "stopped"}
  /\ UNCHANGED <<lifeVars, pc, lockVars, failed, chatVars, hostVars, dataVars, mainVars>>

(* Mutant: quiesce() waits for the transport without asking it to stop. *)
QuiesceWithoutStop ==
  /\ WorkerStep("takeHosted", IF slot THEN "quiesce" ELSE "lock")
  /\ slot' = FALSE
  /\ UNCHANGED <<lifeVars, pc, lockVars, failed, chatVars, hosted, requests, publishing, stop,
                 events, consumer, event, dataVars, mainVars>>

WorkerTakeHosted ==
  /\ WorkerStep("takeHosted", IF slot THEN "quiesce" ELSE "lock")
  /\ slot' = FALSE /\ stop' = (slot \/ stop)
  /\ UNCHANGED <<lifeVars, pc, lockVars, failed, chatVars, hosted, requests, publishing,
                 events, consumer, event, dataVars, mainVars>>

WorkerQuiesced ==
  /\ WorkerStep("quiesce", "lock") /\ hosted \in {"stopped", "ended"}
  /\ UNCHANGED <<lifeVars, pc, lockVars, failed, chatVars, hostVars, dataVars, mainVars>>

WorkerLock ==
  /\ WorkerStep("lock", "lockWait")
  /\ writer' = "waiting"
  /\ UNCHANGED <<lifeVars, pc, readers, failed, chatVars, hostVars, dataVars, mainVars>>

(* Mutant: the write lock does not wait for the readers. *)
LockedOverReaders ==
  /\ WorkerStep("lockWait", "wipe")
  /\ writer' = "held"
  /\ UNCHANGED <<lifeVars, pc, readers, failed, chatVars, hostVars, dataVars, mainVars>>

WorkerLocked ==
  /\ WorkerStep("lockWait", "wipe") /\ readers = {}
  /\ writer' = "held"
  /\ UNCHANGED <<lifeVars, pc, readers, failed, chatVars, hostVars, dataVars, mainVars>>

WorkerWipe ==
  /\ WorkerStep("wipe", "eraseKey")
  /\ identity' = "dropped" /\ account' = "none"
  /\ UNCHANGED <<lifeVars, pc, lockVars, failed, chatVars, hostVars, erased, disk, mainVars>>

(* erase_process_key, then the checks of the directory it will remove. *)
WorkerEraseKey ==
  /\ worker = "eraseKey"
  /\ erased' = TRUE
  /\ \/ worker' = "deleteKey" /\ UNCHANGED failed
     \/ worker' = "unlock" /\ failed' = TRUE
  /\ UNCHANGED <<lifeVars, pc, lockVars, chatVars, hostVars, identity, account, disk, mainVars>>

(* delete_external_master_key: a failure (of the removal or of the sync     *)
(* after it) is kept until the rest was tried.                              *)
WorkerDeleteKey ==
  /\ WorkerStep("deleteKey", "removeDir")
  /\ \/ disk' = disk \ {"key"} /\ UNCHANGED failed
     \/ disk' \in {disk, disk \ {"key"}} /\ failed' = TRUE
  /\ UNCHANGED <<lifeVars, pc, lockVars, chatVars, hostVars, identity, account, erased, mainVars>>

(* Mutant: the result of remove_dir_all is dropped. *)
RemoveDirUnreported ==
  /\ WorkerStep("removeDir", "unlock")
  /\ \E removed \in SUBSET InDirectory : disk' = disk \ removed
  /\ UNCHANGED <<lifeVars, pc, lockVars, failed, chatVars, hostVars, identity, account,
                 erased, mainVars>>

(* remove_dir_all removes everything or fails having removed a part. *)
(* The keyring is out of its reach.                                  *)
WorkerRemoveDir ==
  /\ WorkerStep("removeDir", "unlock")
  /\ \/ disk' = disk \ InDirectory /\ UNCHANGED failed
     \/ \E removed \in SUBSET InDirectory : disk' = disk \ removed /\ failed' = TRUE
  /\ UNCHANGED <<lifeVars, pc, lockVars, chatVars, hostVars, identity, account, erased, mainVars>>

WorkerUnlock ==
  /\ WorkerStep("unlock", "finish")
  /\ writer' = "none"
  /\ UNCHANGED <<lifeVars, pc, readers, failed, chatVars, hostVars, dataVars, mainVars>>

(* A poisoned mutex panics the worker, in the second case perhaps after it  *)
(* took the identity; the supervisor maps the join error to a failed        *)
(* cleanup and unwinding releases the write guard.                          *)
WorkerPanics ==
  /\ worker \in {"takeHosted", "wipe", "eraseKey"} /\ worker' = "finish"
  /\ IF worker = "wipe" THEN identity' \in {identity, "dropped"} ELSE UNCHANGED identity
  /\ failed' = TRUE /\ writer' = "none"
  /\ UNCHANGED <<lifeVars, pc, readers, chatVars, hostVars, account, erased, disk, mainVars>>

(* Mutant: every cleanup is reported as complete. *)
FinishAlwaysComplete ==
  /\ WorkerStep("finish", "notify")
  /\ state' = "CleanupComplete"
  /\ UNCHANGED <<notified, token, pc, lockVars, failed, chatVars, hostVars, dataVars, mainVars>>

(* finish(): the state is stored first, the watch channel replaced after. *)
WorkerFinish ==
  /\ WorkerStep("finish", "notify")
  /\ state' = IF failed THEN "CleanupFailed" ELSE "CleanupComplete"
  /\ UNCHANGED <<notified, token, pc, lockVars, failed, chatVars, hostVars, dataVars, mainVars>>

WorkerNotify ==
  /\ WorkerStep("notify", "done")
  /\ notified' = TRUE
  /\ UNCHANGED <<state, token, pc, lockVars, failed, chatVars, hostVars, dataVars, mainVars>>

-----------------------------------------------------------------------------
(* main.rs run(), IpcServer::run and wait_for_terminal. *)

(* SIGINT or SIGTERM, or a listener error. *)
Signal ==
  /\ ~shutdown /\ shutdown' = TRUE
  /\ UNCHANGED <<lifeVars, pc, lockVars, workVars, chatVars, hostVars, dataVars, main,
                 watcher, seen>>

WatcherSubscribe ==
  /\ watcher = "start" /\ watcher' = "check"
  /\ seen' = [seen EXCEPT !["watcher"] = notified]
  /\ UNCHANGED <<lifeVars, pc, lockVars, workVars, chatVars, hostVars, dataVars, main, shutdown>>

WatcherCheck ==
  /\ watcher = "check"
  /\ IF state \in Terminal
     THEN watcher' = "fired" /\ shutdown' = TRUE
     ELSE watcher' = "blocked" /\ UNCHANGED shutdown
  /\ UNCHANGED <<lifeVars, pc, lockVars, workVars, chatVars, hostVars, dataVars, main, seen>>

(* changed().await returns when the version differs from the one seen. *)
WatcherWake ==
  /\ watcher = "blocked" /\ notified # seen["watcher"]
  /\ watcher' = "check" /\ seen' = [seen EXCEPT !["watcher"] = notified]
  /\ UNCHANGED <<lifeVars, pc, lockVars, workVars, chatVars, hostVars, dataVars, main, shutdown>>

MainStep(from, to) == main = from /\ main' = to
MainKeeps == UNCHANGED <<pc, lockVars, workVars, chatVars, slot, hosted, requests,
                         publishing, events, consumer, event, dataVars, watcher, shutdown, notified,
                         token>>

MainDrain ==
  /\ MainStep("serving", "draining") /\ shutdown
  /\ MainKeeps /\ UNCHANGED <<state, stop, seen>>

(* Mutant: the drain has no timeout. *)
DrainForever == FALSE /\ UNCHANGED vars

MainDrainTimeout ==
  /\ MainStep("draining", "aborting") /\ \E c \in Clients : pc[c] # "gone"
  /\ MainKeeps /\ UNCHANGED <<state, stop, seen>>

MainDrained ==
  /\ main \in {"draining", "aborting"} /\ main' = "prepare"
  /\ \A c \in Clients : pc[c] = "gone"
  /\ MainKeeps /\ UNCHANGED <<state, stop, seen>>

(* Mutants: shutdown does not wait for the erasure; it claims to stop it. *)
PrepareWithoutWait ==
  /\ MainStep("prepare", "stopHosted")
  /\ state' = IF IsActive THEN "Stopping" ELSE state
  /\ MainKeeps /\ UNCHANGED <<stop, seen>>

PrepareOverErase ==
  /\ MainStep("prepare", "stopHosted")
  /\ state' = IF state \in Terminal THEN state ELSE "Stopping"
  /\ MainKeeps /\ UNCHANGED <<stop, seen>>

(* begin_process_shutdown: a running erasure is waited for. *)
MainPrepare ==
  /\ main = "prepare"
  /\ IF state = "Erasing"
     THEN main' = "subscribe" /\ UNCHANGED state
     ELSE main' = "stopHosted" /\ state' = IF IsActive THEN "Stopping" ELSE state
  /\ MainKeeps /\ UNCHANGED <<stop, seen>>

MainSubscribe ==
  /\ MainStep("subscribe", "check")
  /\ seen' = [seen EXCEPT !["main"] = notified]
  /\ MainKeeps /\ UNCHANGED <<state, stop>>

MainCheck ==
  /\ MainStep("check", IF state \in Terminal THEN "stopHosted" ELSE "blocked")
  /\ MainKeeps /\ UNCHANGED <<state, stop, seen>>

MainWake ==
  /\ MainStep("blocked", "check") /\ notified # seen["main"]
  /\ seen' = [seen EXCEPT !["main"] = notified]
  /\ MainKeeps /\ UNCHANGED <<state, stop>>

(* Mutant: the transport is joined without being told to stop. *)
JoinWithoutStop ==
  /\ MainStep("stopHosted", IF HostedConfigured THEN "joinHosted" ELSE "exited")
  /\ MainKeeps /\ UNCHANGED <<state, stop, seen>>

(* HostedService::shutdown sets the flag, then waits for the task to end. *)
MainStopHosted ==
  /\ MainStep("stopHosted", IF HostedConfigured THEN "joinHosted" ELSE "exited")
  /\ stop' = (stop \/ HostedConfigured)
  /\ MainKeeps /\ UNCHANGED <<state, seen>>

MainJoinHosted ==
  /\ MainStep("joinHosted", "exited") /\ hosted = "ended"
  /\ MainKeeps /\ UNCHANGED <<state, stop, seen>>

-----------------------------------------------------------------------------
(* The environment: clients, relays, the server, time and signals. *)
Environment ==
  \/ \E c \in Clients : ClientConnect(c) \/ ClientLeave(c) \/ ClientRequest(c)
                         \/ ClientRespond(c)
  \/ ChatNotification
  \/ TransportConnect \/ TransportDrop \/ TransportReport
  \/ TransportTake \/ TransportPing \/ TransportWritten
  \/ Signal

ClientStep(c) ==
  \/ DispatchAcquire(c)
  \/ RunRead(c) \/ RunIdentityWrite(c) \/ RunIssueToken(c) \/ RunChat(c) \/ RunHosted(c)
  \/ ChatSend(c) \/ ChatStopped(c)
  \/ HostedSend(c) \/ HostedSendFails(c) \/ HostedReturn(c)
  \/ PanicRedeem(c) \/ PanicBegin(c) \/ PanicSupervised(c)
  \/ ClientAborted(c)

ChatActor == ChatTake \/ ChatServe \/ ChatClosed

TransportTask == TransportClose \/ TransportStop \/ TransportEnd \/ TransportPublish

EventConsumer == EventReceive \/ EventAcquire \/ EventApply

Worker ==
  \/ WorkerChatSend \/ WorkerChatStopped \/ WorkerTakeHosted \/ WorkerQuiesced
  \/ WorkerLock \/ WorkerLocked \/ WorkerWipe \/ WorkerEraseKey \/ WorkerDeleteKey
  \/ WorkerRemoveDir \/ WorkerUnlock \/ WorkerPanics \/ WorkerFinish \/ WorkerNotify

Watcher == WatcherSubscribe \/ WatcherCheck \/ WatcherWake

Main ==
  \/ MainDrain \/ MainDrainTimeout \/ MainDrained \/ MainPrepare \/ MainSubscribe
  \/ MainCheck \/ MainWake \/ MainStopHosted \/ MainJoinHosted

Running == main # "exited"

(* The process is gone and every task with it. *)
Exited == ~Running /\ UNCHANGED vars

Next ==
  \/ Running /\ Environment
  \/ Running /\ \E c \in Clients : ClientStep(c)
  \/ Running /\ ChatActor
  \/ Running /\ TransportTask
  \/ Running /\ EventConsumer
  \/ Running /\ Worker
  \/ Running /\ Watcher
  \/ Running /\ Main
  \/ Exited

(***************************************************************************)
(* The runtime polls every woken task: a step that stays possible is       *)
(* taken.  The answer to a hosted call is waited for at most for its       *)
(* timeout, and a client that is between requests sees the shutdown flag.  *)
(* Nothing is assumed of the clients, the relays, the server (a request    *)
(* may stay in the channel, and a write to the socket may never return) or *)
(* of signals.                                                             *)
(***************************************************************************)
Fairness ==
  /\ \A c \in Clients : WF_vars(Running /\ ClientStep(c))
  /\ \A c \in Clients : WF_vars(Running /\ main # "serving" /\ ClientLeave(c))
  /\ WF_vars(Running /\ ChatActor)
  /\ WF_vars(Running /\ TransportTask)
  /\ WF_vars(Running /\ EventConsumer)
  /\ WF_vars(Running /\ Worker)
  /\ WF_vars(Running /\ Watcher)
  /\ WF_vars(Running /\ Main)

SafetySpec == Init /\ [][Next]_vars
Spec == SafetySpec /\ Fairness

-----------------------------------------------------------------------------
(* Properties *)

(* Once the device identity or the master key has left the process, no      *)
(* operation is inside its critical section, the chat actor takes no more   *)
(* work, and the hosted transport has stopped: the order chat, transport,   *)
(* operations lock of perform_panic_cleanup fences every user of the keys.  *)
NoUserOutlivesKeys ==
  (identity = "dropped" \/ erased) =>
    /\ \A c \in Clients : pc[c] \notin InOperation
    /\ consumer # "apply"
    /\ chat \in {"closing", "stopped"}
    /\ hosted \in {"stopped", "ended"}

(* CleanupComplete is reported only when nothing is left: no file in the    *)
(* state directory, no key and no account in memory; and nothing that was   *)
(* in flight (a token being issued, a queued chat request, a late Connected *)
(* event) brings any of it back.                                            *)
CompleteMeansErased ==
  state = "CleanupComplete" =>
    disk = {} /\ erased /\ identity = "dropped" /\ account = "none"

(* The process never ends with an erasure half done, whatever the order of  *)
(* the signal, the drain timeout, the abort of the client that asked for    *)
(* it and the cleanup (prepare_for_shutdown, detached supervisor).          *)
NoExitMidErase == main = "exited" => state \in Terminal \cup {"Stopping"}

(* A shutdown that won the transition lock excludes erasure for good: no    *)
(* cleanup ever starts and the sealed state is as it was.                   *)
StoppingExcludesErase ==
  state = "Stopping" => worker = "idle" /\ {"key", "records"} \subseteq disk /\ ~erased

(* Sealed records and the key file never come back once removed. *)
NothingRevived ==
  [][erased => disk' \subseteq disk /\ identity' = identity /\ account' = account]_vars

(* A write to the server that never returns: socket.send and socket.close   *)
(* have no timeout, and the transport does not look at its stop flag.       *)
StuckWrite == hosted \in {"writing", "closing"}

(* The tasks wait for each other: the transport for room in the event       *)
(* channel before it closes its request channel, the consumer of the events *)
(* for the operations lock behind the panic worker, the worker for a client *)
(* that holds the lock, and the client for room in the request channel.     *)
CircularWait ==
  /\ hosted = "stopped" /\ publishing # "none" /\ Len(events) = EventQueue
  /\ consumer = "acquire" /\ worker = "lockWait"
  /\ requests = RequestQueue /\ \E c \in Clients : pc[c] = "hostedSend"

(* Every erasure that begins is reported and the process then exits, even   *)
(* when a client neither reads its response nor leaves; in particular       *)
(* neither terminal waiter misses the notification of finish().  There are  *)
(* two exceptions, which the code does not exclude: a write to the server   *)
(* never returns, or the tasks wait for each other in a circle.  Nothing    *)
(* else keeps an erasure from its end.                                      *)
EraseTerminates ==
  \/ <>[]StuckWrite
  \/ <>[]CircularWait
  \/ (state = "Erasing") ~> (main = "exited" /\ state \in Terminal)

(* A requested shutdown ends the process, unless a write to the server      *)
(* never returns: the abort of the clients after the drain timeout breaks   *)
(* the circle above.                                                        *)
ShutdownCompletes == <>[]StuckWrite \/ (shutdown ~> (main = "exited"))

(* The secrets are gone when both keys left the process and neither the     *)
(* master key nor a sealed record is left; a stray confirmation token is    *)
(* not a secret.                                                            *)
Secrets == IF identity = "dropped" /\ erased /\ disk \subseteq {"token"}
           THEN "gone" ELSE "present"
Process == IF main = "exited" THEN "exited" ELSE "up"

Contract == INSTANCE EraseContract WITH phase <- state, secrets <- Secrets, process <- Process

(* The daemon, with all its tasks, keeps the promise of EraseContract; with *)
(* the fairness of the runtime also the promise to report and to end.       *)
KeepsContract == Contract!SafetySpec
KeepsLiveContract == Contract!Spec

-----------------------------------------------------------------------------
(* The inductive invariant behind the safety properties. *)

Locked == {"wipe", "eraseKey", "deleteKey", "removeDir", "unlock"}
AfterChat == {"takeHosted", "quiesce", "lock", "lockWait", "finish", "notify", "done"} \cup Locked
Quiet == {"stopped", "ended"}

(* The life cycle and the worker agree on how far the erasure is. *)
WorkerInv ==
  /\ worker = "idle" <=> state \in {"Active", "Stopping"}
  /\ worker \in {"notify", "done"} <=> state \in Terminal

(* Every operation in flight is a reader, and the writer excludes readers. *)
LockInv ==
  /\ writer = "waiting" <=> worker = "lockWait"
  /\ writer = "held" <=> worker \in Locked
  /\ \A c \in Clients : pc[c] \in InOperation => c \in readers
  /\ consumer = "apply" => "consumer" \in readers
  /\ writer = "held" => readers = {}

(* Chat and transport are quiet before the lock is taken. *)
QuietInv ==
  /\ worker \in AfterChat => chat \in {"closing", "stopped"}
  /\ slot \/ hosted = "ended" \/ worker \in AfterChat \ {"takeHosted"}
  /\ worker \in {"lock", "lockWait"} \cup Locked => hosted \in Quiet

(* The keys are dropped only behind the lock, and in order. *)
KeyInv ==
  /\ identity = "dropped" => worker \in (Locked \ {"wipe"}) \cup {"finish", "notify", "done"}
  /\ erased => worker \in {"deleteKey", "removeDir", "unlock", "finish", "notify", "done"}
  /\ worker \in {"eraseKey", "deleteKey", "removeDir", "unlock"} =>
       identity = "dropped" /\ account = "none"
  /\ worker \in {"deleteKey", "removeDir", "unlock"} => erased
  /\ erased => identity = "dropped"

(* A cleanup without a failure has removed everything. *)
CleanInv ==
  /\ worker = "idle" => {"key", "records"} \subseteq disk
  /\ worker = "removeDir" /\ ~failed => "key" \notin disk
  /\ worker \in {"unlock", "finish", "notify", "done"} /\ ~failed =>
       disk = {} /\ erased /\ identity = "dropped" /\ account = "none"
  /\ state = "CleanupComplete" => ~failed

(* main goes past prepare_for_shutdown only in a final state. *)
ExitInv == main \in {"stopHosted", "joinHosted", "exited"} => state \in Terminal \cup {"Stopping"}

Inv == TypeOK /\ WorkerInv /\ LockInv /\ QuietInv /\ KeyInv /\ NoUserOutlivesKeys /\ CleanInv /\ ExitInv

(* SECURITY.md: panic erasure "drops the in-process keys".  The relay       *)
(* actors hold a RelayAuthSigner with the Nostr secret until the pool has   *)
(* shut down.                                                               *)
CompleteDropsRelayKeys == state = "CleanupComplete" => chat = "stopped"

=============================================================================
