--------------------------- MODULE HostedTransport ---------------------------
(***************************************************************************)
(* The daemon's connection to the hosted directory: the calls of           *)
(* HostedHandle, the transport task that owns the socket                   *)
(* (hosted_service.rs), the consumer that keeps the cached account         *)
(* (core.rs), and the server at the other end of the socket (external).    *)
(*                                                                         *)
(* A call is one hosted_claim_handle, of a handle of its own: the call     *)
(* stands for the handle it claims.  Other methods travel the same way and *)
(* leave no trace in the cached account.                                   *)
(***************************************************************************)
EXTENDS Naturals, Sequences, FiniteSets

CONSTANTS
    Calls,           \* the calls made in this instance
    RequestDepth,    \* REQUEST_QUEUE
    EventDepth,      \* capacity of the event channel
    MaxConnections,  \* bound on the number of successful handshakes
    MaxPushes        \* bound on the number of events the server pushes

NoHandle == "no handle"
NoAccount == "no account"

ASSUME DepthAssumption ==
    RequestDepth \in Nat \ {0} /\ EventDepth \in Nat \ {0}

ASSUME BoundsAssumption == MaxConnections \in Nat /\ MaxPushes \in Nat

ASSUME CallsAssumption ==
    IsFiniteSet(Calls) /\ Calls \cap {NoHandle, NoAccount} = {}

VARIABLES
    \* callers
    caller,       \* where each call is
    outcome,      \* what its reply channel holds
    \* HostedHandle
    requests,     \* the request channel
    closed,       \* whether its receiver was closed
    stop,         \* the stop watch
    state,        \* the state watch
    \* the transport task
    phase,        \* where run() is
    publishing,   \* the event the task is blocked on sending
    pending,      \* session(): the calls that wait for an answer, with their id
    nextId,       \* session(): the next id
    connections,  \* how many handshakes succeeded
    \* the event channel and the daemon
    events,       \* HostedEvent values not consumed yet
    account,      \* CoreInner.hosted_account: NoAccount or its handle
    \* the socket and the server
    socket,       \* "none", "open" or "broken"
    toServer,     \* frames sent and not handled yet
    fromServer,   \* answers not read yet
    linger,       \* frames of lost connections the server may still handle
    pushes,       \* how many events the server pushed
    serverHandle  \* the handle the server has for this account

callerVars == <<caller, outcome>>
handleVars == <<requests, closed, stop, state>>
taskVars == <<phase, publishing, pending, nextId, connections>>
daemonVars == <<events, account>>
serverVars == <<socket, toServer, fromServer, linger, pushes,
                serverHandle>>
vars == <<callerVars, handleVars, taskVars, daemonVars, serverVars>>

Outcomes == {"none", "ok", "refused", "disconnected", "timeout", "stopped"}

Handle == Calls \cup {NoHandle}

State == [label : {"connecting", "connected", "disconnected", "stopped"},
          handle : Handle]

Plain(label) == [label |-> label, handle |-> NoHandle]

\* HostedEvent: a state, or an event pushed by the server.
Event == State \cup {Plain("server")}

\* publishing = Idle: the task is not blocked on the event channel.
Idle == Plain("idle")

\* What the server sends: the answer to the request `id`, or an event (id 0).
Frame == [id : Nat, ok : BOOLEAN]

TypeOK ==
    /\ caller \in [Calls -> {"new", "sending", "waiting", "answered", "done"}]
    /\ outcome \in [Calls -> Outcomes]
    /\ requests \in Seq(Calls) /\ Len(requests) <= RequestDepth
    /\ closed \in BOOLEAN
    /\ stop \in BOOLEAN
    /\ state \in State
    /\ phase \in {"top", "connecting", "session", "backoff", "stopping",
                  "draining", "ended"}
    /\ publishing \in Event \cup {Idle}
    /\ pending \subseteq (Nat \X Calls)
    /\ nextId \in Nat \ {0}
    /\ connections \in 0 .. MaxConnections
    /\ events \in Seq(Event) /\ Len(events) <= EventDepth
    /\ account \in Handle \cup {NoAccount}
    /\ socket \in {"none", "open", "broken"}
    /\ toServer \in Seq(Nat \X Calls)
    /\ fromServer \in Seq(Frame)
    /\ linger \subseteq Calls
    /\ pushes \in 0 .. MaxPushes
    /\ serverHandle \in Handle

Init ==
    /\ caller = [c \in Calls |-> "new"]
    /\ outcome = [c \in Calls |-> "none"]
    /\ requests = <<>>
    /\ closed = FALSE
    /\ stop = FALSE
    /\ state = Plain("connecting")
    /\ phase = "top"
    /\ publishing = Idle
    /\ pending = {}
    /\ nextId = 1
    /\ connections = 0
    /\ events = <<>>
    /\ account = NoAccount
    /\ socket = "none"
    /\ toServer = <<>>
    /\ fromServer = <<>>
    /\ linger = {}
    /\ pushes = 0
    /\ serverHandle = NoHandle

-----------------------------------------------------------------------------
\* Callers: HostedHandle::call and what hosted_claim_handle does with it.

CallStart(c) ==
    /\ caller[c] = "new"
    /\ caller' = [caller EXCEPT ![c] = "sending"]
    /\ UNCHANGED <<outcome, handleVars, taskVars, daemonVars, serverVars>>

\* Mutant of CallQueue: the channel is unbounded.
QueueUnbounded(c) ==
    /\ caller[c] = "sending"
    /\ ~closed
    /\ requests' = Append(requests, c)
    /\ caller' = [caller EXCEPT ![c] = "waiting"]
    /\ UNCHANGED <<outcome, closed, stop, state, taskVars, daemonVars,
                   serverVars>>

\* requests.send() has no timeout: it waits for a slot, or fails once the
\* transport has closed the channel.
CallQueue(c) ==
    /\ caller[c] = "sending"
    /\ ~closed
    /\ Len(requests) < RequestDepth
    /\ requests' = Append(requests, c)
    /\ caller' = [caller EXCEPT ![c] = "waiting"]
    /\ UNCHANGED <<outcome, closed, stop, state, taskVars, daemonVars,
                   serverVars>>

CallRefused(c) ==
    /\ caller[c] = "sending"
    /\ closed
    /\ caller' = [caller EXCEPT ![c] = "done"]
    /\ outcome' = [outcome EXCEPT ![c] = "stopped"]
    /\ UNCHANGED <<handleVars, taskVars, daemonVars, serverVars>>

\* The request timeout drops the receiver; the request itself stays wherever
\* it is, in the queue or in `pending`.
CallTimeout(c) ==
    /\ caller[c] = "waiting"
    /\ caller' = [caller EXCEPT ![c] = "done"]
    /\ outcome' = [outcome EXCEPT ![c] = "timeout"]
    /\ UNCHANGED <<handleVars, taskVars, daemonVars, serverVars>>

\* Mutant of CallFinish: the claimed handle is cached whatever the answer was.
CachesAnyAnswer(c) ==
    /\ caller[c] = "answered"
    /\ caller' = [caller EXCEPT ![c] = "done"]
    /\ account' = IF account # NoAccount THEN c ELSE account
    /\ UNCHANGED <<outcome, handleVars, taskVars, events, serverVars>>

\* hosted_claim_handle with its answer: a successful claim goes into the
\* cached account, if there is one.
CallFinish(c) ==
    /\ caller[c] = "answered"
    /\ caller' = [caller EXCEPT ![c] = "done"]
    /\ account' = IF outcome[c] = "ok" /\ account # NoAccount THEN c ELSE account
    /\ UNCHANGED <<outcome, handleVars, taskVars, events, serverVars>>

\* The reply channels of `answered`: the callers that still wait get `result`.
Answer(answered, result) ==
    LET waiting == {c \in answered : caller[c] = "waiting"} IN
    /\ caller' = [c \in Calls |-> IF c \in waiting THEN "answered" ELSE caller[c]]
    /\ outcome' = [c \in Calls |-> IF c \in waiting THEN result ELSE outcome[c]]

\* The daemon stops the transport: quiesce() or shutdown().
Stop ==
    /\ ~stop
    /\ stop' = TRUE
    /\ UNCHANGED <<callerVars, requests, closed, state, taskVars, daemonVars,
                   serverVars>>

\* receive_hosted_event: a connected state replaces the cached account.
Consume ==
    /\ events # <<>>
    /\ events' = Tail(events)
    /\ account' = IF Head(events).label = "connected"
                  THEN Head(events).handle
                  ELSE account
    /\ UNCHANGED <<callerVars, handleVars, taskVars, serverVars>>

-----------------------------------------------------------------------------
\* The transport task: run() and session().  publish_state() sets the watch at
\* once and then waits for room in the event channel; nothing else of the task
\* happens, and stop is not looked at, until the event is in.

Publish(value) ==
    /\ state' = value
    /\ publishing' = value

TaskPublished ==
    /\ publishing # Idle
    /\ Len(events) < EventDepth
    /\ events' = Append(events, publishing)
    /\ publishing' = Idle
    /\ UNCHANGED <<callerVars, handleVars, phase, pending, nextId, connections,
                   account, serverVars>>

\* The frames the server may still handle after the daemon drops its socket.
Abandon ==
    /\ linger' = linger \cup {toServer[i][2] : i \in DOMAIN toServer}
    /\ toServer' = <<>>
    /\ fromServer' = <<>>
    /\ socket' = "none"

\* Mutant of TaskStop: Stopped is published before the session is torn down.
StopPublishedEarly ==
    /\ stop
    /\ publishing = Idle
    /\ phase \in {"top", "connecting", "session", "backoff"}
    /\ Publish(Plain("stopped"))
    /\ phase' = "stopping"
    /\ UNCHANGED <<callerVars, requests, closed, stop, pending, nextId,
                   connections, daemonVars, serverVars>>

\* Mutant of TaskStop: stop only leaves the inner loop.
StopLeavesInnerLoop ==
    /\ stop
    /\ publishing = Idle
    /\ phase \in {"top", "connecting", "session", "backoff"}
    /\ Answer({p[2] : p \in pending}, "disconnected")
    /\ pending' = {}
    /\ Abandon
    /\ phase' = "top"
    /\ UNCHANGED <<requests, closed, stop, state, publishing, nextId,
                   connections, daemonVars, pushes, serverHandle>>

\* Every select! of the task is biased towards stop; session() drops its
\* pending replies, which their callers see as a lost connection.
TaskStop ==
    /\ stop
    /\ publishing = Idle
    /\ phase \in {"top", "connecting", "session", "backoff"}
    /\ Answer({p[2] : p \in pending}, "disconnected")
    /\ pending' = {}
    /\ Abandon
    /\ Publish(Plain("stopped"))
    /\ phase' = "stopping"
    /\ UNCHANGED <<requests, closed, stop, nextId, connections, daemonVars,
                   pushes, serverHandle>>

TaskConnecting ==
    /\ ~stop
    /\ publishing = Idle
    /\ phase = "top"
    /\ Publish(Plain("connecting"))
    /\ phase' = "connecting"
    /\ UNCHANGED <<callerVars, requests, closed, stop, pending, nextId,
                   connections, daemonVars, serverVars>>

\* connect(): the answer to `authenticate` carries the handle the server has.
\* The ids of a session start at 1 again.
TaskConnect ==
    /\ ~stop
    /\ publishing = Idle
    /\ phase = "connecting"
    /\ connections < MaxConnections
    /\ connections' = connections + 1
    /\ socket' = "open"
    /\ Publish([label |-> "connected", handle |-> serverHandle])
    /\ phase' = "session"
    /\ nextId' = 1
    /\ UNCHANGED <<callerVars, requests, closed, stop, pending, daemonVars,
                   toServer, fromServer, linger, pushes, serverHandle>>

\* connect() fails or times out.
TaskConnectFail ==
    /\ ~stop
    /\ publishing = Idle
    /\ phase = "connecting"
    /\ Publish(Plain("disconnected"))
    /\ phase' = "backoff"
    /\ UNCHANGED <<callerVars, requests, closed, stop, pending, nextId,
                   connections, daemonVars, serverVars>>

SessionReady == ~stop /\ publishing = Idle /\ phase = "session"

\* session(): a request goes out under the next id.
SessionSend ==
    /\ SessionReady
    /\ requests # <<>>
    /\ socket = "open"
    /\ requests' = Tail(requests)
    /\ toServer' = Append(toServer, <<nextId, Head(requests)>>)
    /\ pending' = pending \cup {<<nextId, Head(requests)>>}
    /\ nextId' = nextId + 1
    /\ UNCHANGED <<callerVars, closed, stop, state, phase, publishing,
                   connections, daemonVars, socket, fromServer, linger, pushes,
                   serverHandle>>

\* Mutant of EndSession: the pending replies outlive the session.
EndKeepsPending(lost) ==
    /\ Answer(lost, "disconnected")
    /\ UNCHANGED pending
    /\ Abandon
    /\ Publish(Plain("disconnected"))
    /\ phase' = "backoff"
    /\ UNCHANGED <<closed, stop, connections, daemonVars, pushes, serverHandle>>

\* The end of session(): the pending replies are dropped, then run() publishes
\* the loss and backs off.  `lost` are the calls answered on the way out.
EndSession(lost) ==
    /\ Answer(lost \cup {p[2] : p \in pending}, "disconnected")
    /\ pending' = {}
    /\ Abandon
    /\ Publish(Plain("disconnected"))
    /\ phase' = "backoff"
    /\ UNCHANGED <<closed, stop, connections, daemonVars, pushes, serverHandle>>

\* socket.send() fails: this request is answered and the session ends.
SessionSendFails ==
    /\ SessionReady
    /\ requests # <<>>
    /\ socket = "broken"
    /\ requests' = Tail(requests)
    /\ nextId' = nextId + 1
    /\ EndSession({Head(requests)})

\* An answer goes to the call that waits under its id, if any; a pushed event
\* goes into the event channel, for which the session waits.
SessionReceive ==
    /\ SessionReady
    /\ fromServer # <<>>
    /\ fromServer' = Tail(fromServer)
    /\ LET frame == Head(fromServer)
           mine == {p \in pending : p[1] = frame.id}
       IN  /\ publishing' = IF frame.id = 0 THEN Plain("server") ELSE Idle
           /\ Answer({p[2] : p \in mine}, IF frame.ok THEN "ok" ELSE "refused")
           /\ pending' = pending \ mine
    /\ UNCHANGED <<handleVars, phase, nextId, connections, daemonVars, socket,
                   toServer, linger, pushes, serverHandle>>

\* The connection is closed or fails, or a ping cannot be sent.
SessionLost ==
    /\ SessionReady
    /\ socket = "broken"
    /\ fromServer = <<>>
    /\ UNCHANGED <<requests, nextId>>
    /\ EndSession({})

\* Mutant of BackoffReply: the backoff only sleeps.
BackoffSleeps ==
    /\ ~stop
    /\ publishing = Idle
    /\ phase = "backoff"
    /\ phase' = "top"
    /\ UNCHANGED <<callerVars, handleVars, publishing, pending, nextId,
                   connections, daemonVars, serverVars>>

\* The backoff loop answers what arrives meanwhile.
BackoffReply ==
    /\ ~stop
    /\ publishing = Idle
    /\ phase = "backoff"
    /\ requests # <<>>
    /\ requests' = Tail(requests)
    /\ Answer({Head(requests)}, "disconnected")
    /\ UNCHANGED <<closed, stop, state, taskVars, daemonVars, serverVars>>

BackoffWake ==
    /\ ~stop
    /\ publishing = Idle
    /\ phase = "backoff"
    /\ phase' = "top"
    /\ UNCHANGED <<callerVars, handleVars, publishing, pending, nextId,
                   connections, daemonVars, serverVars>>

\* After the loop: close the request channel, answer what is left in it, end.
TaskClose ==
    /\ publishing = Idle
    /\ phase = "stopping"
    /\ closed' = TRUE
    /\ phase' = "draining"
    /\ UNCHANGED <<callerVars, requests, stop, state, publishing, pending,
                   nextId, connections, daemonVars, serverVars>>

TaskDrain ==
    /\ phase = "draining"
    /\ requests # <<>>
    /\ requests' = Tail(requests)
    /\ Answer({Head(requests)}, "stopped")
    /\ UNCHANGED <<closed, stop, state, taskVars, daemonVars, serverVars>>

TaskEnd ==
    /\ phase = "draining"
    /\ closed
    /\ requests = <<>>
    /\ phase' = "ended"
    /\ UNCHANGED <<callerVars, handleVars, publishing, pending, nextId,
                   connections, daemonVars, serverVars>>

-----------------------------------------------------------------------------
\* omachat-server, which the module Directory models, and the network
\* (external).  The server grants a claim when the account has no handle yet
\* and no other account holds it; what other accounts hold is not modelled, so
\* it may also refuse.

Claim(c, granted) ==
    /\ granted => serverHandle = NoHandle
    /\ serverHandle' = IF granted THEN c ELSE serverHandle

ServerAnswer ==
    /\ socket = "open"
    /\ toServer # <<>>
    /\ \E ok \in BOOLEAN :
          /\ Claim(Head(toServer)[2], ok)
          /\ fromServer' = Append(fromServer, [id |-> Head(toServer)[1], ok |-> ok])
    /\ toServer' = Tail(toServer)
    /\ UNCHANGED <<callerVars, handleVars, taskVars, daemonVars, socket, linger,
                   pushes>>

\* Service::publish: an event for a subscriber.  No handler of the server calls
\* it yet; the daemon is ready for it.
ServerPush ==
    /\ socket = "open"
    /\ pushes < MaxPushes
    /\ pushes' = pushes + 1
    /\ fromServer' = Append(fromServer, [id |-> 0, ok |-> TRUE])
    /\ UNCHANGED <<callerVars, handleVars, taskVars, daemonVars, socket,
                   toServer, linger, serverHandle>>

\* A request of a connection that is gone reaches the directory all the same;
\* nobody hears of its result.
ServerLate(c) ==
    /\ c \in linger
    /\ linger' = linger \ {c}
    /\ \E granted \in BOOLEAN : Claim(c, granted)
    /\ UNCHANGED <<callerVars, handleVars, taskVars, daemonVars, socket,
                   toServer, fromServer, pushes>>

\* The connection breaks; a prefix of what the server sent is still read.
Break ==
    /\ socket = "open"
    /\ socket' = "broken"
    /\ \E n \in 0 .. Len(fromServer) : fromServer' = SubSeq(fromServer, 1, n)
    /\ UNCHANGED <<callerVars, handleVars, taskVars, daemonVars, toServer,
                   linger, pushes, serverHandle>>

-----------------------------------------------------------------------------
TaskStep ==
    \/ TaskPublished \/ TaskStop \/ TaskConnecting
    \/ TaskConnect \/ TaskConnectFail
    \/ SessionSend \/ SessionSendFails \/ SessionReceive \/ SessionLost
    \/ BackoffReply \/ TaskClose \/ TaskDrain \/ TaskEnd

CallStep(c) ==
    CallQueue(c) \/ CallRefused(c) \/ CallTimeout(c) \/ CallFinish(c)

\* Everything has stopped: the transport ended and every call returned.
Settled ==
    /\ phase = "ended"
    /\ \A c \in Calls : caller[c] = "done"
    /\ UNCHANGED vars

Next ==
    \/ \E c \in Calls : CallStart(c) \/ CallStep(c) \/ ServerLate(c)
    \/ Stop \/ Consume
    \/ TaskStep \/ BackoffWake
    \/ ServerAnswer \/ ServerPush \/ Break
    \/ Settled

\* The runtime keeps polling the transport task, the consumer and the callers;
\* connect() and the reply have timeouts, the backoff ends.  The server owes
\* nothing: it may never answer and never accept a connection.  A caller that
\* waits for a slot is served in turn (tokio's semaphore is first come, first
\* served), hence strong fairness for CallQueue.  A backoff lasts: a request
\* that is in the channel when it begins is taken before the timer fires, hence
\* strong fairness for BackoffReply.
Fairness ==
    /\ WF_vars(TaskStep)
    /\ WF_vars(BackoffWake)
    /\ SF_vars(BackoffReply)
    /\ WF_vars(Consume)
    /\ \A c \in Calls : WF_vars(CallStep(c)) /\ SF_vars(CallQueue(c))

SafetySpec == Init /\ [][Next]_vars
Spec == SafetySpec /\ Fairness

-----------------------------------------------------------------------------
(***************************************************************************)
(* Properties                                                              *)
(***************************************************************************)

\* Replies are matched to calls by an id that starts at 1 again with every
\* connection (hosted_service.rs, session()).  A call that returns success is
\* the one the server carried out, whatever was in flight when earlier
\* connections were lost and whichever callers had given up.
ReplyMatches == \A c \in Calls : outcome[c] = "ok" => serverHandle = c

\* The cached account (core.rs, receive_hosted_event and hosted_claim_handle)
\* may lag behind the server but never shows a handle the server does not have.
AccountNotInvented ==
    account \in Calls => account = serverHandle

\* quiesce() returns when the watch says Stopped.  From then on the transport
\* sends nothing and opens nothing, and it does not come back.
StoppedIsQuiet ==
    [][state.label = "stopped" =>
         /\ state' = state
         /\ toServer' = <<>>
         /\ socket' = "none"
         /\ pending' = {}]_vars

\* HostedHandle::call returns: with a full request channel, a connection that
\* never comes up, a server that never answers or a transport that stops, a
\* call that was made ends in an answer, a refusal or a timeout.
CallsReturn == \A c \in Calls : caller[c] = "sending" ~> caller[c] = "done"

\* HostedService::shutdown joins the task: once stop is set the task ends, even
\* when it is blocked on a full event channel or has requests queued.
StopEnds == stop ~> phase = "ended"

-----------------------------------------------------------------------------
(***************************************************************************)
(* The inductive invariant behind ReplyMatches, AccountNotInvented and     *)
(* StoppedIsQuiet.                                                         *)
(***************************************************************************)

\* A session's frames and pending replies end with it, and the watch says
\* Stopped exactly from the end of the loop on.
PhaseInv ==
    /\ phase # "session" => /\ pending = {}
                            /\ toServer = <<>>
                            /\ fromServer = <<>>
                            /\ socket = "none"
    /\ state.label = "stopped" <=> phase \in {"stopping", "draining", "ended"}

\* Within a session an id names one call, at either end of the socket.
IdInv ==
    /\ \A p \in pending : p[1] \in 1 .. nextId - 1
    /\ \A p, q \in pending : p[1] = q[1] => p = q
    /\ \A i \in DOMAIN toServer :
          /\ toServer[i][1] \in 1 .. nextId - 1
          /\ \A p \in pending : p[1] = toServer[i][1] => p = toServer[i]

\* A positive answer in flight is for the call the server carried out.
AnswerInv ==
    \A i \in DOMAIN fromServer :
        /\ fromServer[i].id < nextId
        /\ fromServer[i].id # 0 /\ fromServer[i].ok =>
              /\ serverHandle # NoHandle
              /\ \A p \in pending : p[1] = fromServer[i].id => p[2] = serverHandle

\* A snapshot on its way to the cached account has the server's handle or none.
SnapshotInv ==
    /\ publishing.handle \in {NoHandle, serverHandle}
    /\ \A i \in DOMAIN events : events[i].handle \in {NoHandle, serverHandle}

Inv ==
    /\ TypeOK /\ PhaseInv /\ IdInv /\ AnswerInv /\ SnapshotInv
    /\ ReplyMatches /\ AccountNotInvented

-----------------------------------------------------------------------------
\* hosted_claim_handle updates the cached account so that a status request
\* after a successful claim shows the handle.  Stated where it should be easiest:
\* the connection is up, and every event it produced has been consumed.
ClaimShown ==
    \A c \in Calls :
        /\ caller[c] = "done" /\ outcome[c] = "ok"
        /\ state.label = "connected" /\ publishing = Idle /\ events = <<>>
        => account = c
==============================================================================
