------------------------------ MODULE NostrChat ------------------------------
(***************************************************************************)
(* The daemon's chat actor (omachatd/src/nostr_chat.rs) over the relay     *)
(* pool: its requests, its reaction to relay notifications, the records it *)
(* saves, and a process that can be killed at any moment and started       *)
(* again.  The actor is sequential; each await is a value of chat.pc, and  *)
(* the relay connections act while it waits.                               *)
(*                                                                         *)
(* A save is one step that fails or succeeds: that a sealed record is      *)
(* replaced atomically is the subject of SealedStore.  Contacts are not    *)
(* kept: the requests that change them appear with the outcomes they have. *)
(***************************************************************************)
EXTENDS RelayPool

CONSTANTS
    Sends,          \* rumors of messages sent here
    Opened,         \* event -> rumor open_gift_wrap finds in it, or NoRumor
    Secure,         \* the relays whose URL is wss://
    DmList,         \* the relay list event the actor publishes
    WrapFor,        \* rumor sent here -> gift wrap for the recipient
    SelfCopy,       \* rumor sent here -> gift wrap for this identity
    Inbound,        \* the events a relay may deliver
    Dm,             \* the subscription of the actor
    MaxMessages     \* MAX_MESSAGES

NoRumor == "no rumor"

ASSUME ChatAssumption ==
    /\ Dm \in Subscriptions
    /\ DmList \in Events /\ Inbound \subseteq Events
    /\ WrapFor \in [Sends -> Events] /\ SelfCopy \in [Sends -> Events]
    /\ DOMAIN Opened = Events
    /\ NoRumor \notin Sends
    /\ MaxMessages \in Nat \ {0}

VARIABLES
    chat,     \* the fields of Actor, and where it is
    disk,     \* the records of the sealed store
    owed      \* history: rumors announced on Topic::Messages that the list
              \* has not given up since

vars == <<conn, pool, awaiting, chat, disk, owed>>

Down ==
    [pc |-> "down", req |-> "none", rumor |-> NoRumor, messages |-> <<>>,
     relays |-> {}, poolRelays |-> {}, poolKey |-> FALSE, subscribedFor |-> FALSE]

Init ==
    /\ PoolInit
    /\ chat = Down
    /\ disk = [identity |-> FALSE, relays |-> {}, messages |-> <<>>]
    /\ owed = {}

Busy == chat.pc \notin {"down", "idle", "next"}

(***************************************************************************)
(* Answers and continuations.                                              *)
(***************************************************************************)
\* The reply of the request in progress; the actor is idle again.
Answer(c) == chat' = [c EXCEPT !.pc = "idle", !.req = "none", !.rumor = NoRumor]

\* What follows ensure_pool and restart_pool: send() goes on, the others
\* answer.
PoolReady(c) ==
    IF c.req = "send"
    THEN chat' = [c EXCEPT !.pc = "resolve"]
    ELSE Answer(c)

\* restart_pool, up to the end of the old pool.
RestartPool(c) ==
    /\ chat' = [c EXCEPT !.pc = "closing"]
    /\ StartShutdown

\* ensure_subscription: nothing without an identity, and nothing when this
\* identity has been subscribed for.
EnsureSubscription(c) ==
    IF ~disk.identity \/ c.subscribedFor
    THEN PoolReady(c) /\ UNCHANGED poolVars
    ELSE /\ \E same \in BOOLEAN : StartSubscribe(Dm, same)
         /\ chat' = [c EXCEPT !.pc = "subscribing"]

\* ensure_pool: the pool in place is kept when it is for these relays and this
\* identity.
EnsurePool(c) ==
    IF pool.there /\ c.poolRelays = c.relays /\ c.poolKey = disk'.identity
    THEN chat' = [c EXCEPT !.pc = "subscribe"] /\ UNCHANGED poolVars
    ELSE RestartPool(c)

\* ensure_identity: NostrVault generates and saves an identity once.  When that
\* fails the request fails and nothing changes, which is no step here.
EnsureIdentity == disk' = [disk EXCEPT !.identity = TRUE]

(***************************************************************************)
(* Requests.                                                               *)
(***************************************************************************)
\* A request is taken in the select!, also while next_notification waits for a
\* subscription: that future is dropped.
CanTake == chat.pc = "idle" /\ awaiting = {}

Begin(type) == [chat EXCEPT !.req = type]

Prepare ==
    /\ CanTake
    /\ EnsureIdentity
    /\ RestartPool([Begin("other") EXCEPT !.subscribedFor = FALSE])
    /\ UNCHANGED owed

\* add_contact: the contact cannot be resolved, is there already, does not fit
\* or cannot be saved; or it is saved and the pool is made ready.
AddContact ==
    /\ CanTake
    /\ EnsureIdentity
    /\ \/ Answer(chat) /\ UNCHANGED poolVars
       \/ EnsurePool(Begin("other"))
    /\ UNCHANGED owed

\* set_relays: saved first.  A list canonical_relays refuses, and a save that
\* fails, change nothing.
SetRelays ==
    /\ CanTake
    /\ \E rs \in SUBSET Relays :
        /\ disk' = [disk EXCEPT !.relays = rs]
        /\ RestartPool([Begin("other") EXCEPT !.relays = rs, !.subscribedFor = FALSE])
    /\ UNCHANGED owed

Reload ==
    /\ CanTake
    /\ RestartPool([Begin("other") EXCEPT !.subscribedFor = FALSE])
    /\ UNCHANGED <<disk, owed>>

\* send() up to ensure_pool.  Two messages with one text to one peer in one
\* second are one rumor.
Send ==
    /\ CanTake
    /\ EnsureIdentity
    /\ \E m \in Sends : EnsurePool([Begin("send") EXCEPT !.rumor = m])
    /\ UNCHANGED owed

\* resolve_peer, the check for a message to oneself, and remember_contact can
\* each fail the send.
ResolveFails ==
    /\ chat.pc = "resolve"
    /\ Answer(chat)
    /\ UNCHANGED <<conn, pool, awaiting, disk, owed>>

\* publish_to_relays: wait_connected and pool.publish.  Without a pool, or
\* with no relay up in time, there is no attempt; next is where the actor goes.
PublishToRelays(e, next) ==
    /\ \E r \in pool.relays : Up(r)
    /\ StartPublish(e, Relays)
    /\ chat' = [chat EXCEPT !.pc = next]

NotConnected == \A r \in pool.relays : ~Up(r)

SendPublish ==
    /\ chat.pc = "resolve"
    /\ \/ PublishToRelays(WrapFor[chat.rumor], "sending")
       \/ NotConnected /\ Answer(chat) /\ UNCHANGED poolVars
    /\ UNCHANGED <<disk, owed>>

SendPublished ==
    /\ chat.pc = "sending"
    /\ EndPublish
    /\ IF PublishMet THEN chat' = [chat EXCEPT !.pc = "selfwait"]
                     ELSE Answer(chat)
    /\ UNCHANGED <<disk, owed>>

\* publish_self_copy_for_other_devices: its result is ignored.
SelfPublish ==
    /\ chat.pc = "selfwait"
    /\ \/ PublishToRelays(SelfCopy[chat.rumor], "self")
       \/ NotConnected /\ chat' = [chat EXCEPT !.pc = "store"] /\ UNCHANGED poolVars
    /\ UNCHANGED <<disk, owed>>

SelfPublished ==
    /\ chat.pc = "self"
    /\ EndPublish
    /\ chat' = [chat EXCEPT !.pc = "store"]
    /\ UNCHANGED <<disk, owed>>

\* Mutant of StoreMessage: the message is announced whether it was saved or not.
StoreAnnounced(c, m, ok) ==
    LET list == Append(IF Len(c.messages) = MaxMessages THEN Tail(c.messages) ELSE c.messages, m)
    IN /\ chat' = [c EXCEPT !.messages = list]
       /\ disk' = IF ok THEN [disk EXCEPT !.messages = list] ELSE disk
       /\ owed' = (owed \cap Range(list)) \cup {m}

\* store_message: the oldest message makes room, the list is saved, and only a
\* saved message is announced.
StoreMessage(c, m, ok) ==
    LET full == Len(c.messages) = MaxMessages
        list == Append(IF full THEN Tail(c.messages) ELSE c.messages, m)
        evicted == IF full THEN {Head(c.messages)} ELSE {}
    IN /\ chat' = [c EXCEPT !.messages = list]
       /\ disk' = IF ok THEN [disk EXCEPT !.messages = list] ELSE disk
       /\ owed' = IF ok THEN (owed \ evicted) \cup {m} ELSE owed \ evicted

SendStore ==
    /\ chat.pc = "store"
    /\ \E ok \in BOOLEAN :
        StoreMessage([chat EXCEPT !.pc = "idle", !.req = "none", !.rumor = NoRumor], chat.rumor, ok)
    /\ UNCHANGED poolVars

(***************************************************************************)
(* The pool of the actor.                                                  *)
(***************************************************************************)
\* restart_pool after the old pool has ended.
PoolClosed ==
    /\ chat.pc = "closing"
    /\ EndShutdown
    /\ chat' = [chat EXCEPT !.pc = "spawn"]
    /\ UNCHANGED <<disk, owed>>

PoolSpawn ==
    /\ chat.pc = "spawn"
    /\ LET c == [chat EXCEPT !.subscribedFor = FALSE, !.poolRelays = chat.relays,
                             !.poolKey = disk.identity]
       IN IF chat.relays = {}
          THEN PoolReady(c) /\ UNCHANGED poolVars
          ELSE /\ SpawnPool(chat.relays, disk.identity)
               /\ awaiting' = {}
               /\ chat' = [c EXCEPT !.pc = "subscribe"]
    /\ UNCHANGED <<disk, owed>>

PoolSubscribe ==
    /\ chat.pc = "subscribe"
    /\ EnsureSubscription(chat)
    /\ UNCHANGED <<disk, owed>>

\* The results of subscribe are dropped and subscribed_for is set; then
\* publish_inbox_list, with the secure relays only.
PoolSubscribed ==
    /\ chat.pc = "subscribing"
    /\ EndSubscribe(Dm)
    /\ LET c == [chat EXCEPT !.subscribedFor = TRUE]
       IN IF chat.relays \cap Secure = {} THEN PoolReady(c)
          ELSE chat' = [c EXCEPT !.pc = "listwait"]
    /\ UNCHANGED <<disk, owed>>

PublishInboxList ==
    /\ chat.pc = "listwait"
    /\ \/ PublishToRelays(DmList, "listing")
       \/ NotConnected /\ PoolReady(chat) /\ UNCHANGED poolVars
    /\ UNCHANGED <<disk, owed>>

InboxListPublished ==
    /\ chat.pc = "listing"
    /\ EndPublish
    /\ PoolReady(chat)
    /\ UNCHANGED <<disk, owed>>

(***************************************************************************)
(* Notifications.                                                          *)
(***************************************************************************)
\* on_notification: what is not a chat message for this identity, and what is
\* in the list already, is dropped; the result of store_message is ignored.
OnNotification(e, ok) ==
    LET m == Opened[e]
    IN IF ~disk.identity \/ m = NoRumor \/ m \in Range(chat.messages)
       THEN UNCHANGED <<chat, disk, owed>>
       ELSE StoreMessage(chat, m, ok)

Receive(r) ==
    /\ CanTake
    /\ \E e \in Events, ok \in BOOLEAN : NextEvent(r, e) /\ OnNotification(e, ok)

Ignore(r) ==
    /\ CanTake
    /\ SkipNote(r) \/ NextClosed(r)
    /\ UNCHANGED <<chat, disk, owed>>

\* next_notification waits for a subscription of its own; it finishes, or a
\* request wins the select! and its future is dropped.
Resubscribe(r) ==
    /\ CanTake
    /\ StartResubscribe(r, Dm)
    /\ chat' = [chat EXCEPT !.pc = "next"]
    /\ UNCHANGED <<disk, owed>>

Resubscribed ==
    /\ chat.pc = "next"
    /\ EndSubscribe(Dm) \/ CancelNext
    /\ chat' = [chat EXCEPT !.pc = "idle"]
    /\ UNCHANGED <<disk, owed>>

(***************************************************************************)
(* The process.                                                            *)
(***************************************************************************)
\* NostrChat::spawn and the start of run(): a record that cannot be read
\* counts as an empty one.
Start ==
    /\ chat.pc = "down"
    /\ \E readable \in BOOLEAN :
        LET c == [Down EXCEPT !.req = "other", !.relays = disk.relays,
                              !.messages = IF readable THEN disk.messages ELSE <<>>]
        IN /\ RestartPool(c)
           /\ owed' = IF readable THEN owed ELSE {}
    /\ UNCHANGED disk

\* The process is killed, or ends in any other way.
Kill ==
    /\ chat.pc # "down"
    /\ chat' = Down
    /\ conn' = [r \in Relays |-> [Spawn(FALSE) EXCEPT !.phase = "ended"]]
    /\ pool' = NoPool
    /\ awaiting' = {}
    /\ UNCHANGED <<disk, owed>>

\* A step of a relay connection.
RelayStep(r) ==
    /\ ActorConnect(r) \/ ActorFrame(r, Inbound) \/ ActorLost(r) \/ ActorWait(r)
    /\ UNCHANGED <<pool, awaiting, chat, disk, owed>>

RelayCommand(r) ==
    /\ ActorCommand(r)
    /\ UNCHANGED <<pool, awaiting, chat, disk, owed>>

TimerStep(r) ==
    /\ CallTimeout(r) \/ (chat.pc = "closing" /\ AbortConnection(r))
    /\ UNCHANGED <<pool, awaiting, chat, disk, owed>>

Request == Prepare \/ AddContact \/ SetRelays \/ Reload \/ Send

ChatStep ==
    \/ ResolveFails \/ SendPublish \/ SendPublished \/ SelfPublish \/ SelfPublished \/ SendStore
    \/ PoolClosed \/ PoolSpawn \/ PoolSubscribe \/ PoolSubscribed
    \/ PublishInboxList \/ InboxListPublished \/ Resubscribed

NoteStep(r) == Receive(r) \/ Ignore(r) \/ Resubscribe(r)

Next ==
    \/ Request \/ ChatStep \/ Start \/ Kill
    \/ \E r \in Relays : RelayStep(r) \/ RelayCommand(r) \/ TimerStep(r) \/ NoteStep(r)

\* The actor's task is scheduled and the timers of the runtime fire; nothing is
\* asked of the relays.
Fairness ==
    /\ WF_vars(ChatStep)
    /\ \A r \in Relays : WF_vars(TimerStep(r))

SafetySpec == Init /\ [][Next]_vars

Spec == SafetySpec /\ Fairness

(***************************************************************************)
(* Properties.                                                             *)
(***************************************************************************)
\* On a session whose authentication is complete, the relay has been asked for
\* exactly the subscriptions the actor keeps, through reconnects, challenges
\* and subscriptions made while the session was not authenticated.
ReplayExact == \A r \in Relays : Up(r) /\ conn[r].open => conn[r].wire = conn[r].subs

\* No subscription is lost: a relay of the pool that is up and does not have
\* the actor's subscription has the command for it in its channel, or a
\* Connected notification unread that will make the pool ask again.  Calls
\* that time out, futures that select! drops, rejected commands and reconnects
\* are covered; a full command channel is the one exception.
SubscriptionNotLost ==
    \A r \in pool.relays :
        Up(r) /\ Dm \in pool.subs /\ ~conn[r].full =>
            \/ Dm \in conn[r].subs
            \/ \E i \in DOMAIN conn[r].cmds : conn[r].cmds[i].op = "subscribe"
            \/ \E i \in DOMAIN conn[r].notes : conn[r].notes[i].kind = "connected"

\* The deduplication window and its order agree, and stay within capacity.
WindowExact ==
    /\ pool.seen = Range(pool.order)
    /\ Cardinality(pool.seen) = Len(pool.order)
    /\ Len(pool.order) <= DedupCapacity

\* A message that was announced is saved, and stays saved across failed saves
\* and restarts until the list gives it up.
AnnouncedIsSaved == owed \subseteq Range(disk.messages)

\* A send goes on to the copy for this identity, and from there to success,
\* only when a relay has accepted the wrap for the recipient.
SendIsTrue ==
    [][chat.pc = "sending" /\ chat'.pc = "selfwait" =>
          \E r \in awaiting : WrapFor[chat.rumor] \in conn[r].took]_vars

\* While a challenge is unanswered no event and no subscription is sent: what
\* waits for an OK and what was asked of the relay grow only on an open session.
AuthFence ==
    [][\A r \in Relays :
          \/ conn'[r].open
          \/ /\ conn'[r].wire \subseteq conn[r].wire
             /\ conn'[r].pend \subseteq conn[r].pend]_vars

\* Every request is answered, whatever the relays do, unless the process dies.
RequestsAnswered == Busy ~> ~Busy

=============================================================================
