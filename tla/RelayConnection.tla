--------------------------- MODULE RelayConnection ---------------------------
(***************************************************************************)
(* One relay connection of the client (omachat-nostr/src/relay.rs): the    *)
(* actor that owns the socket, its command and notification channels, the  *)
(* calls of its handle, and the relay at the other end (external: what it  *)
(* sends is chosen when the actor reads it).                               *)
(*                                                                         *)
(* A connection is a record; every handler of the actor is an operator     *)
(* that gives the set of records the connection may be in afterwards, one  *)
(* for each outcome of the socket calls the handler makes.                 *)
(*                                                                         *)
(*   phase   "connecting", "up", "backoff" or "ended"                      *)
(*   signer  config.auth is set                                            *)
(*   open    session_authenticated                                         *)
(*   auth    pending_authentication is set                                 *)
(*   subs    the subscriptions the actor keeps                             *)
(*   pend    pending: the published events that wait for an OK and whose   *)
(*           caller still waits (an entry whose sender is closed is kept   *)
(*           by the code and has no effect)                                *)
(*   cmds    the command channel                                           *)
(*   notes   the notification channel                                      *)
(*   call    the outcome of the call in progress on the handle             *)
(*   wire    history: the subscriptions requested on this socket           *)
(*   took    history: the events of the call in progress that the relay    *)
(*           answered with OK true                                         *)
(*   full    history: the command channel was full for a subscription of   *)
(*           this session                                                  *)
(***************************************************************************)
EXTENDS Naturals, Sequences, FiniteSets

CONSTANTS
    Subscriptions,   \* subscription ids
    Events,          \* the events published or delivered
    Policy,          \* RelayAuthenticationPolicy
    CommandDepth,    \* command_capacity
    NoteDepth        \* notification_capacity

Policies == {"RequireWhenConfigured", "AuthenticateWhenChallenged"}
NoEvent == "no event"
NoSubscription == "no subscription"

\* RelayConfig::validate refuses queues without capacity.
ASSUME RelayAssumption ==
    /\ Policy \in Policies
    /\ CommandDepth \in Nat \ {0}
    /\ NoteDepth \in Nat \ {0}
    /\ NoEvent \notin Events
    /\ NoSubscription \notin Subscriptions

Command ==
    [op: {"publish", "subscribe", "close", "shutdown"},
     ev: Events \cup {NoEvent}, sub: Subscriptions \cup {NoSubscription},
     live: BOOLEAN]

Publish(e) == [op |-> "publish", ev |-> e, sub |-> NoSubscription, live |-> TRUE]
Subscribe(s) == [op |-> "subscribe", ev |-> NoEvent, sub |-> s, live |-> TRUE]
Close(s) == [op |-> "close", ev |-> NoEvent, sub |-> s, live |-> TRUE]
Shutdown == [op |-> "shutdown", ev |-> NoEvent, sub |-> NoSubscription, live |-> FALSE]

\* RelayNotification; what no layer above tells apart is "other".
Notification == [kind: {"connected", "event", "other"}, ev: Events \cup {NoEvent}]

Other == [kind |-> "other", ev |-> NoEvent]

Connection ==
    [phase: {"connecting", "up", "backoff", "ended"},
     signer: BOOLEAN, open: BOOLEAN, auth: BOOLEAN,
     subs: SUBSET Subscriptions, wire: SUBSET Subscriptions,
     pend: SUBSET Events,
     cmds: Seq(Command), notes: Seq(Notification),
     call: {"none", "waiting", "ok", "err"}, took: SUBSET Events, full: BOOLEAN]

(***************************************************************************)
(* The handle.                                                             *)
(***************************************************************************)
\* RelayConnection::spawn: both channels empty, the actor about to connect.
Spawn(signer) ==
    [phase |-> "connecting", signer |-> signer, open |-> FALSE, auth |-> FALSE,
     subs |-> {}, wire |-> {}, pend |-> {}, cmds |-> <<>>, notes |-> <<>>,
     call |-> "none", took |-> {}, full |-> FALSE]

\* publish, subscribe and close_subscription up to the await: try_send, which
\* fails on a stopped actor and on a full channel.
Issue(c, command) ==
    IF c.phase = "ended" \/ Len(c.cmds) = CommandDepth
    THEN [c EXCEPT !.call = "err", !.full = @ \/ (c.phase = "up" /\ command.op = "subscribe")]
    ELSE [c EXCEPT !.cmds = Append(@, command), !.call = "waiting"]

\* The caller stops waiting: response_timeout, or the future is dropped.  Its
\* command stays where it is.
Abandon(c, result) ==
    [c EXCEPT !.call = result,
              !.cmds = [i \in DOMAIN @ |-> [@[i] EXCEPT !.live = FALSE]],
              !.pend = {}]

\* RelayConnection::shutdown: a full channel loses the Shutdown command; the
\* timeout then aborts the task.
AskShutdown(c) ==
    IF c.phase = "ended" \/ Len(c.cmds) = CommandDepth
    THEN c
    ELSE [c EXCEPT !.cmds = Append(@, Shutdown)]

(***************************************************************************)
(* The actor.                                                              *)
(***************************************************************************)
\* The oneshot sender of a command or of a pending publish is used.
Reply(c, live, result) == [c EXCEPT !.call = IF live THEN result ELSE @]

\* fail_pending.
FailPending(c) == [c EXCEPT !.pend = {}, !.call = IF c.pend # {} THEN "err" ELSE @]

\* The actor returns: the channels close, every caller sees Stopped.
Ended(c) ==
    LET waiting == c.pend # {} \/ \E i \in DOMAIN c.cmds : c.cmds[i].live
    IN [c EXCEPT !.phase = "ended", !.open = FALSE, !.auth = FALSE, !.wire = {}, !.pend = {},
                 !.cmds = <<>>, !.full = FALSE, !.call = IF waiting THEN "err" ELSE @]

\* notify(): try_send on the notification channel; onFull is what the caller
\* does with the error.
Notify(c, n, onFull) ==
    IF Len(c.notes) = NoteDepth THEN onFull ELSE [c EXCEPT !.notes = Append(@, n)]

\* The session ended with break true: the callers of pending publishes fail,
\* and a notification channel without room ends the actor.
Disconnected(c) ==
    LET d == [FailPending(c) EXCEPT !.phase = "backoff", !.auth = FALSE, !.open = FALSE,
                                    !.wire = {}, !.full = FALSE]
    IN Notify(d, Other, Ended(d))

\* Mutant of SessionStarted: the subscriptions are left to the pool.
StartedWithoutReplay(c) ==
    IF Len(c.notes) = NoteDepth THEN {Ended(c)}
    ELSE {[c EXCEPT !.phase = "up", !.open = ~c.signer \/ Policy = "AuthenticateWhenChallenged",
                    !.notes = Append(@, [kind |-> "connected", ev |-> NoEvent])]}

\* The start of a session, after connect succeeded.  An error of notify or of
\* replay_subscriptions is returned by the actor; the notification that is
\* queued by then is still read.
SessionStarted(c) ==
    LET open == ~c.signer \/ Policy = "AuthenticateWhenChallenged"
        up == [c EXCEPT !.phase = "up", !.open = open,
                        !.wire = IF open THEN c.subs ELSE {},
                        !.notes = Append(@, [kind |-> "connected", ev |-> NoEvent])]
    IN IF Len(c.notes) = NoteDepth THEN {Ended(c)}
       ELSE {up} \cup IF open /\ c.subs # {} THEN {Ended(up)} ELSE {}

\* connect(): reached, or not (health Disconnected, no notification).
Connect(c) == SessionStarted(c) \cup {[c EXCEPT !.phase = "backoff"]}

\* Mutant of HandlePublish: the session's authentication is not looked at.
PublishUnfenced(d, m) ==
    IF m.ev \in d.pend
    THEN {Reply(d, m.live, "err")}
    ELSE {IF m.live THEN [d EXCEPT !.pend = @ \cup {m.ev}] ELSE d,
          Disconnected(Reply(d, m.live, "err"))}

\* Command::Publish in a session, taken from the channel of d.
HandlePublish(d, m) ==
    IF ~d.open \/ m.ev \in d.pend
    THEN {Reply(d, m.live, "err")}
    ELSE {IF m.live THEN [d EXCEPT !.pend = @ \cup {m.ev}] ELSE d,
          Disconnected(Reply(d, m.live, "err"))}

\* One command in a session.  Close is handled here, but nothing in the daemon
\* calls close_subscription, so no run issues it.
HandleCommand(c) ==
    LET m == Head(c.cmds)
        d == [c EXCEPT !.cmds = Tail(@)]
        failed == Disconnected(Reply(d, m.live, "err"))
    IN CASE m.op = "publish" -> HandlePublish(d, m)
         [] m.op = "subscribe" ->
              IF ~c.open
              THEN {Reply([d EXCEPT !.subs = @ \cup {m.sub}], m.live, "ok")}
              ELSE {Reply([d EXCEPT !.subs = @ \cup {m.sub}, !.wire = @ \cup {m.sub}], m.live, "ok"),
                    failed}
         [] m.op = "close" ->
              LET e == [d EXCEPT !.subs = @ \ {m.sub}]
              IN IF ~c.open
                 THEN {Reply(e, m.live, "ok")}
                 ELSE {Reply([e EXCEPT !.wire = @ \ {m.sub}], m.live, "ok"),
                       Disconnected(Reply(e, m.live, "err"))}
         [] m.op = "shutdown" -> {Ended(d)}

\* handle_relay_frame, by the frame.  Every error it returns ends the session:
\* a frame that is passed on needs room in the notification channel.
PassedOn(c, n) == Notify(c, n, Disconnected(c))

\* EVENT, EOSE, CLOSED and NOTICE.
Delivered(c, mail) ==
    {PassedOn(c, [kind |-> "event", ev |-> e]) : e \in mail} \cup {PassedOn(c, Other)}

\* OK for an event that is pending.
OkReceived(c, e, ok) ==
    [c EXCEPT !.pend = @ \ {e}, !.call = IF ok THEN "ok" ELSE "err",
              !.took = IF ok THEN @ \cup {e} ELSE @]

\* OK for the authentication event: accepted, the subscriptions are sent again.
Accepted(c) == [c EXCEPT !.auth = FALSE, !.open = TRUE, !.wire = @ \cup c.subs]
Closed(c, a) == [c EXCEPT !.auth = a, !.open = FALSE]

Authenticated(c) ==
    IF ~c.auth THEN {}
    ELSE {PassedOn(Accepted(c), Other), PassedOn(Closed(c, FALSE), Other)}
         \cup IF c.subs = {} THEN {} ELSE {Disconnected(Accepted(c))}

\* AUTH: a signer answers it.
Challenged(c) ==
    LET signed(a) == [Closed(c, a) EXCEPT !.notes = Append(@, Other)]
    IN IF Len(c.notes) = NoteDepth THEN {Disconnected(c)}
       ELSE IF ~c.signer THEN {[c EXCEPT !.notes = Append(@, Other)]}
       ELSE {signed(TRUE), Disconnected(signed(c.auth))}

HandleFrame(c, mail) ==
    Delivered(c, mail) \cup Authenticated(c) \cup Challenged(c)
    \cup UNION {{OkReceived(c, e, ok) : ok \in BOOLEAN} : e \in c.pend}

\* wait_to_reconnect: the delay passes, or one command is taken; any but
\* Shutdown is rejected and ends the wait.
WaitToReconnect(c) ==
    LET m == Head(c.cmds)
        d == [c EXCEPT !.cmds = Tail(@)]
    IN {[c EXCEPT !.phase = "connecting"]}
       \cup IF c.cmds = <<>> THEN {}
            ELSE IF m.op = "shutdown" THEN {Ended(d)}
            ELSE {[Reply(d, m.live, "err") EXCEPT !.phase = "connecting"]}

=============================================================================
