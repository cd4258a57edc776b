------------------------------ MODULE DmLibrary ------------------------------
(***************************************************************************)
(* The direct message library of the client (omachat-nostr/src) as one     *)
(* client uses it: a task at a time, with a cache and a clock in between.  *)
(*                                                                         *)
(*   discover   replaceable_discovery.rs, dm_relay_discovery.rs and the    *)
(*              two that wrap the first                                    *)
(*   deliver    dm_delivery.rs, along a route and a plan of RelayLists     *)
(*   inbox      dm_inbox_runtime.rs and dm_inbox.rs                        *)
(*                                                                         *)
(* and a handle resolved beside them (HttpFetch, which shares no state).   *)
(*                                                                         *)
(* The relay pool is seen through its interface: the sessions of its       *)
(* relays, the notifications they cause, and its window of event ids.      *)
(***************************************************************************)
EXTENDS RelayLists, HttpFetch

CONSTANTS
    Me,              \* the client's key
    Once,            \* the key a wrap is signed with
    Pool,            \* relays a discovery or an inbox is configured with
    Served,          \* events the relays send in a lookup of a kind for an author
    Wraps,           \* gift wraps the relays deliver to the inbox
    Blockable,       \* bound: authors the client may block
    Said,            \* history: the rumors their authors really wrote for Me
    Bootstrap,       \* bootstrap_relays
    DedupCapacity, DedupTtl,  \* DmInboxConfig
    MaxSearch,       \* MAX_DISCOVERY_RELAYS
    MaxTime,         \* bound: the clock
    MaxCalls(_)      \* bound: gift wraps an inbox on so many relays processes

\* DmInbox::new refuses a window without room or time.
ASSUME InboxAssumption == DedupCapacity \in Nat \ {0} /\ DedupTtl \in Nat \ {0}

ASSUME BoundAssumption == MaxTime \in Nat

\* What the relays send are events; times are numbers, and two ids of one
\* second are ordered (an id is a hash).
ASSUME ServedAssumption ==
    \A k \in Kinds, a \in Authors : \A e, f, g \in Served[k][a] :
        /\ e.created_at \in Nat /\ (Fields(e) = Fields(f) /\ e.id = f.id /\ e.sig = f.sig => e = f)
        /\ e.created_at = f.created_at /\ e.id # f.id => IdBefore(e.id, f.id) \/ IdBefore(f.id, e.id)
        /\ IdBefore(e.id, f.id) /\ IdBefore(f.id, g.id) => IdBefore(e.id, g.id)

\* Nobody signs for someone else: a seal that its key signed, encrypted for
\* this client, holds what its author wrote, or a rumor of another author.
ASSUME SaidAssumption ==
    \A w \in Wraps :
        LET s == w.content.body
        IN /\ s.id = Fields(s) /\ s.sig = [by |-> s.pubkey, of |-> s.id]
           /\ s.content.key = {Me, s.pubkey} /\ s.content.body.pubkey = s.pubkey
           => s.content.body \in Said

VARIABLES
    now,      \* the clock of the machine, which may be set back
    kind,     \* what this client looks up and caches
    cache,    \* the verified cache of that kind
    task      \* the call in progress, or its result

vars == <<now, kind, cache, task, fetch>>

Idle == [op |-> "idle"]

Init ==
    /\ now \in 0..MaxTime
    /\ kind \in Kinds
    /\ cache = EmptyCache
    /\ task = Idle
    /\ FetchInit

(***************************************************************************)
(* Sessions (RelayConnection has the detail): what a relay or the network  *)
(* does to one, and the notification it causes.                            *)
(***************************************************************************)
Moves(l) ==
    (IF l = "down" THEN {<<"up", "connected">>}
     ELSE {<<"asked", "challenged">>, <<"down", "disconnected">>})
    \cup (IF l = "asked" THEN {<<"open", "authenticated">>, <<"up", "rejected">>} ELSE {})

\* A challenge is answered by an event the client signs.
Answers(r) == SignChallenge(Me, r, "challenge", now) # {}

Fail == task' = Idle /\ UNCHANGED <<now, kind, cache>>

\* A timeout, a rejection, a closed subscription, a relay that cannot be shut
\* down or a pool that stopped: the call returns the error.
TaskFails ==
    /\ task.op \in {"discover", "deliver", "inbox"}
    /\ Fail

\* The caller has seen the result; an inbox that was used to publish goes on.
Dismiss ==
    /\ task.op \in {"found", "sent"}
    /\ task' = IF task.op = "sent" THEN task.back ELSE Idle
    /\ UNCHANGED <<now, kind, cache>>

ClockMoves(t) ==
    /\ task.op \in {"idle", "found"} \/ (task.op = "inbox" /\ task.phase = "run")
    /\ t # now
    /\ now' = t
    /\ UNCHANGED <<kind, cache, task>>

(***************************************************************************)
(* Discovery.                                                              *)
(***************************************************************************)
Discovering(phase) == task.op = "discover" /\ task.phase = phase

\* The two validate_config; the one of dm_relay_discovery has no largest number.
Configured(rs, min) ==
    /\ kind # "dm_relays" => Cardinality(rs) <= MaxSearch
    /\ min \in 1..Cardinality(rs)

\* A search on the relays of rs (bound: on one relay while the cache holds
\* something).
StartDiscovery(a, rs, policy, min) ==
    /\ task = Idle
    /\ Configured(rs, min)
    /\ cache # EmptyCache => Cardinality(rs) = 1
    /\ kind = "dm_relays" => policy = "required"
    /\ task' = [op |-> "discover", phase |-> "ready", author |-> a, policy |-> policy, min |-> min,
                link |-> [r \in rs |-> "down"], settled |-> {}, challenged |-> {}, auth |-> {},
                subscribed |-> {}, completed |-> {}, best |-> {}, seen |-> {}, sent |-> {}, lost |-> {}]
    /\ UNCHANGED <<now, kind, cache>>

\* await_required_authentication: a relay that authenticated counts from then
\* on.
ReadyRequired(t) == t.auth

\* await_challenge_driven_readiness: a relay that is connected counts when it
\* authenticated, or was not challenged for the settle time.
ReadyWhenChallenged(t) ==
    {r \in DOMAIN t.link : t.link[r] # "down" /\ (r \in t.auth \/ (r \notin t.challenged /\ r \in t.settled))}

Ready(t) == IF t.policy = "required" THEN ReadyRequired(t) ELSE ReadyWhenChallenged(t)

\* One notification of the wait for readiness.  A rejection ends the call.
AwaitReadiness(r, m) ==
    /\ Discovering("ready") /\ Cardinality(Ready(task)) < task.min /\ r \in DOMAIN task.link
    /\ m \in Moves(task.link[r]) /\ m[2] # "rejected"
    /\ m[2] = "challenged" => Answers(r)
    /\ LET t == [task EXCEPT !.link[r] = m[1]]
       IN task' = CASE m[2] = "connected" -> t
                    [] m[2] = "challenged" ->
                         IF task.policy = "required" THEN t ELSE [t EXCEPT !.challenged = @ \cup {r}]
                    [] m[2] = "authenticated" ->
                         [t EXCEPT !.auth = @ \cup {r}, !.challenged = @ \ {r}]
                    [] m[2] = "disconnected" ->
                         IF task.policy = "required" THEN t
                         ELSE [t EXCEPT !.auth = @ \ {r}, !.challenged = @ \ {r}, !.settled = @ \ {r}]
    /\ UNCHANGED <<now, kind, cache>>

\* The settle time of a connection passes.
Settles(r) ==
    /\ Discovering("ready") /\ task.policy # "required"
    /\ r \in DOMAIN task.link \ task.settled /\ task.link[r] # "down"
    /\ task' = [task EXCEPT !.settled = @ \cup {r}]
    /\ UNCHANGED <<now, kind, cache>>

\* The subscription, answered Ok by the relays of rs: one may connect in time
\* for the answer, or be lost after it.  discover_inner of
\* replaceable_discovery asks for the minimum, the other one for one relay.
Subscribe(rs) ==
    /\ Discovering("ready") /\ Cardinality(Ready(task)) >= task.min
    /\ rs \subseteq DOMAIN task.link
    /\ task' = IF rs = {} \/ (kind # "dm_relays" /\ Cardinality(rs) < task.min) THEN Idle
               ELSE [task EXCEPT !.phase = "query", !.subscribed = rs,
                                 !.link = [r \in DOMAIN @ |-> "any"],
                                 !.settled = {}, !.challenged = {}, !.auth = {}]
    /\ UNCHANGED <<now, kind, cache>>

\* What discover_nip65_relay_list accepts.
AcceptsList(e, a, at) == e.pubkey = a /\ ParseList(e, at, "relays", MaxListRelays) # {}

\* What discover_profile_metadata accepts.
AcceptsProfile(e, a, at) == VerifyProfile(e, a, at) # {}

Acceptable(e, a, k, at) ==
    CASE k = "dm_relays" -> VerifyDmInbox(e, a, at, MaxAge) # {}
      [] k = "relays" -> AcceptsList(e, a, at)
      [] k = "profile" -> AcceptsProfile(e, a, at)

\* Mutant of Beats: a later time is all that counts.
BeatsInTime(e, f, k) == e.created_at >= f.created_at

\* Of two events of one second a relay list for direct messages with the
\* larger id wins, and any other event with the smaller.
Beats(e, f, k) ==
    \/ e.created_at > f.created_at
    \/ /\ e.created_at = f.created_at
       /\ IF k = "dm_relays" THEN IdBefore(f.id, e.id) ELSE IdBefore(e.id, f.id)

\* The loop over the events.  It does not follow the sessions: a relay may
\* send on any of them, as the pool asks it again whenever it connects.  The
\* pool hands over the first copy of an event only, and the loop skips the
\* relays whose subscription failed.  A frame that does not verify ends the
\* session.
EventArrives(r, a, e) ==
    /\ Discovering("query") /\ a = task.author /\ r \in DOMAIN task.link
    /\ LET frame == Frame("EVENT", 3, TRUE, "discovery", e)
           better == Acceptable(e, task.author, kind, now) /\ \A f \in task.best : Beats(e, f, kind)
           t == [task EXCEPT !.seen = @ \cup {e},
                             !.sent = IF r \in task.subscribed THEN @ \cup {e} ELSE @]
       IN task' = IF FromFrame(frame, now) = {} THEN task
                  ELSE IF e \in task.seen THEN t
                  ELSE IF r \notin task.subscribed THEN [t EXCEPT !.lost = @ \cup {e}]
                  ELSE [t EXCEPT !.best = IF better THEN {e} ELSE @]
    /\ UNCHANGED <<now, kind, cache>>

EndOfStored(r) ==
    /\ Discovering("query") /\ r \in task.subscribed
    /\ task' = [task EXCEPT !.completed = @ \cup {r}]
    /\ UNCHANGED <<now, kind, cache>>

\* The search of replaceable_discovery ends when enough relays have sent all
\* they hold, the one for direct message relays when all of them have.
EndDiscovery ==
    /\ Discovering("query")
    /\ IF kind = "dm_relays" THEN task.subscribed \subseteq task.completed
       ELSE Cardinality(task.completed) >= task.min
    /\ task' = IF task.best = {} THEN Idle
               ELSE [op |-> "found", ev |-> CHOOSE e \in task.best : TRUE, author |-> task.author,
                     at |-> now, sent |-> task.sent, lost |-> task.lost]
    /\ UNCHANGED <<now, kind, cache>>

\* The caller verifies what was found and puts it into the cache.
StoreFound ==
    /\ task.op = "found"
    /\ LET e == task.ev
           stored ==
               CASE kind = "dm_relays" ->
                      UNION {DmInsert(cache, r) :
                          r \in UNION {DmRecord(i, now) : i \in VerifyDmInbox(e, task.author, now, MaxAge)}}
                 [] kind = "relays" -> RelayListInsert(cache, e, now, now)
                 [] kind = "profile" ->
                      UNION {ProfileInsert(cache, p, now) : p \in VerifyProfile(e, task.author, now)}
       IN cache' = IF stored = {} THEN cache ELSE CHOOSE c \in stored : TRUE
    /\ task' = Idle
    /\ UNCHANGED <<now, kind>>

\* The client starts again with the cache it saved; one that cannot be read is
\* replaced by an empty one.
Restart ==
    /\ task = Idle
    /\ LET back == CASE kind = "dm_relays" -> DmReload(cache, now)
                     [] kind = "relays" -> RelayListReload(cache, now)
                     [] kind = "profile" -> ProfileReload(cache, now)
       IN cache' = IF back = {} THEN EmptyCache ELSE CHOOSE c \in back : TRUE
    /\ UNCHANGED <<now, kind, task>>

(***************************************************************************)
(* Delivery.                                                               *)
(***************************************************************************)
\* create_chat_rumor and create_gift_wrap by the client for recipient q.
Outgoing(q) ==
    UNION {CreateGiftWrap(r, Me, q, now, "wrap", Once) :
               r \in CreateChatRumor(Me, now, <<[key |-> q, hint |-> ""]>>, Text(40, "hello"))}

\* AuthenticatedDmDelivery::spawn.  A relay's notifications wait in mail (one
\* at a time) until the client reads them.
Spawn(plan, from) ==
    /\ Me # plan.ev.pubkey
    /\ plan.required \in 1..Cardinality(plan.relays)
    /\ task' = [op |-> "deliver", plan |-> plan, from |-> from, at |-> now,
                link |-> [r \in plan.relays |-> "down"], mail |-> [r \in plan.relays |-> "none"],
                auth |-> {}]
    /\ UNCHANGED <<now, kind, cache>>

\* A message for q along the route the cache gives for a.
StartDelivery(a, q, policy) ==
    /\ task = Idle /\ kind = "dm_relays"
    /\ \E w \in Outgoing(q), route \in RouteDmRelays(cache, a, now, Bootstrap, policy) :
          \E plan \in PlanRouted(w, route, now) : Spawn(plan, cache[a])

\* The same along the inbox a discovery just found.
StartDirect(q) ==
    /\ task.op = "found" /\ kind = "dm_relays"
    /\ \E w \in Outgoing(q), i \in VerifyDmInbox(task.ev, task.author, now, MaxAge) :
          \E route \in RouteVerified(i.recipient, i.relays, "fresh") :
             \E plan \in PlanRouted(w, route, now) :
                Spawn(plan, Record(i.ev, i.relays, now))

\* A relay's session changes; the notification is on its way.
LinkMoves(r, m) ==
    /\ task.op \in {"deliver", "inbox"}
    /\ r \in DOMAIN task.link /\ task.mail[r] = "none" /\ m \in Moves(task.link[r])
    /\ task' = [task EXCEPT !.link[r] = m[1], !.mail[r] = m[2]]
    /\ UNCHANGED <<now, kind, cache>>

\* wait_until_authenticated: as long as too few relays are.
Awaited == task.op = "deliver" /\ Cardinality(task.auth) < task.plan.required

\* AuthenticatedRelayState::apply to one notification.  A rejection is an error
\* of the wait; the caller may wait again, or give up (TaskFails).
ApplyNote(r) ==
    /\ Awaited
    /\ r \in DOMAIN task.link /\ task.mail[r] # "none"
    /\ LET t == [task EXCEPT !.mail[r] = "none"]
       IN task' = CASE task.mail[r] = "authenticated" -> [t EXCEPT !.auth = @ \cup {r}]
                    [] task.mail[r] \in {"disconnected", "rejected"} -> [t EXCEPT !.auth = @ \ {r}]
                    [] OTHER -> t
    /\ UNCHANGED <<now, kind, cache>>

\* publish: asked of the authenticated relays that are connected.  The relays of
\* took accept it; one whose session was lost since, or is a new one, answers
\* with an error (RelayConnection).  With too few the caller has the error, and
\* may try again.
Publish(took) ==
    /\ task.op = "deliver" /\ ~Awaited
    /\ took \subseteq {r \in task.auth : task.link[r] = "open"}
    /\ task' = IF Cardinality(took) < task.plan.required THEN task
               ELSE [op |-> "sent", plan |-> task.plan, from |-> task.from, at |-> task.at, took |-> took,
                     back |-> Idle]
    /\ UNCHANGED <<now, kind, cache>>

(***************************************************************************)
(* The inbox.                                                              *)
(***************************************************************************)
\* validate_config of dm_inbox_runtime: distinct relays that can be reached.
InboxConfigured(rs) ==
    /\ rs # {}
    /\ \A r \in rs : r \in DOMAIN Url /\ Url[r].scheme \in {"ws", "wss"} /\ ~Url[r].fragment
    /\ \A r, s \in rs : Url[r].canon = Url[s].canon => r = s

\* AuthenticatedDmInboxRuntime::connect up to the authentication, and
\* DmInbox::new (bound: while the cache, which it does not use, is empty).
ConnectInbox(rs) ==
    /\ task = Idle /\ kind = "dm_relays" /\ cache = EmptyCache
    /\ InboxConfigured(rs)
    /\ task' = [op |-> "inbox", phase |-> "await", relays |-> rs,
                link |-> [r \in rs |-> "down"], mail |-> [r \in rs |-> "none"],
                auth |-> {}, blocked |-> {}, order |-> <<>>, log |-> <<>>]
    /\ UNCHANGED <<now, kind, cache>>

\* wait_for_authentication, and next_activity: a notification about a session.
\* A rejection is an error: it ends connect, and next_activity returns it.
ReadNote(r) ==
    /\ task.op = "inbox"
    /\ task.phase = "await" => task.auth # task.relays
    /\ r \in task.relays /\ task.mail[r] # "none"
    /\ LET t == [task EXCEPT !.mail[r] = "none"]
       IN task' = IF task.mail[r] = "authenticated" THEN [t EXCEPT !.auth = @ \cup {r}]
                  ELSE IF task.mail[r] = "rejected" /\ task.phase = "await" THEN Idle
                  ELSE [t EXCEPT !.auth = @ \ {r}]
    /\ UNCHANGED <<now, kind, cache>>

\* Every relay accepted the subscription (TaskFails is the other case).
InboxReady ==
    /\ task.op = "inbox" /\ task.phase = "await" /\ task.auth = task.relays
    /\ task' = [task EXCEPT !.phase = "run"]
    /\ UNCHANGED <<now, kind, cache>>

Running == task.op = "inbox" /\ task.phase = "run"

\* block_author and unblock_author.
SetBlocked(authors) ==
    /\ Running
    /\ \E a \in Blockable : authors \in {task.blocked \cup {a}, task.blocked \ {a}}
    /\ task' = [task EXCEPT !.blocked = authors]
    /\ UNCHANGED <<now, kind, cache>>

\* DmInbox::remember on the window of [id, at], oldest first: expired entries
\* leave from the front up to the first that is not, and a full window gives
\* up its oldest.
Remember(order, id) ==
    LET live(i) == Minus(now, order[i].at) < DedupTtl
        gone == {k \in 0..Len(order) : (\A i \in 1..k : ~live(i)) /\ (k < Len(order) => live(k + 1))}
        kept == SubSeq(order, (CHOOSE k \in gone : TRUE) + 1, Len(order))
        room == SubSeq(kept, Len(kept) + 2 - Least(Len(kept) + 1, DedupCapacity), Len(kept))
    IN IF \E i \in DOMAIN kept : kept[i].id = id
       THEN [fresh |-> FALSE, order |-> kept]
       ELSE [fresh |-> TRUE, order |-> Append(room, [id |-> id, at |-> now])]

\* require_exact_outer_recipient: a p tag without a value is passed over.
ExactRecipient(w) ==
    LET recipients == {i \in PTags(w) : Len(w.tags[i]) >= 2}
    IN \E i \in recipients : recipients = {i} /\ w.tags[i][2] = Me

\* DmInbox::receive: a persistent wrap for exactly this recipient, opened, of
\* a chat message, not seen before; the result depends on who is blocked.
\* session is history: the state of the session it came in.
Receive(t, r, w) ==
    LET opened == {o \in OpenGiftWrap(w, Me, now) : o.rumor.kind = "chat"}
        m == Remember(t.order, w.id)
        entry(o) == [id |-> w.id, at |-> now, rumor |-> o.rumor, session |-> t.link[r],
                     result |-> IF ~m.fresh THEN "duplicate"
                                ELSE IF o.rumor.pubkey \in t.blocked THEN "blocked" ELSE "message"]
    IN IF w.kind # "wrap" \/ ~ExactRecipient(w) THEN {}
       ELSE {[t EXCEPT !.order = m.order, !.log = Append(@, entry(o))] : o \in opened}

\* next_activity: an event of the subscription.  One of a relay that is not
\* authenticated is an error, as is one that is no message for this client.
WrapArrives(r, w) ==
    /\ Running /\ r \in task.relays /\ Len(task.log) < MaxCalls(Cardinality(task.relays))
    /\ task.link[r] # "down" /\ task.mail[r] = "none"
    /\ LET received == IF r \in task.auth THEN Receive(task, r, w) ELSE {}
       IN task' = IF FromFrame(Frame("EVENT", 3, TRUE, "inbox", w), now) = {}
                  THEN [task EXCEPT !.link[r] = "down", !.mail[r] = "disconnected"]
                  ELSE IF received = {} THEN task ELSE CHOOSE t \in received : TRUE
    /\ UNCHANGED <<now, kind, cache>>

\* publish through the inbox's pool: only with every relay authenticated
\* (bound: before the first message).
InboxPublish(q, to, took) ==
    /\ Running /\ task.auth = task.relays /\ task.log = <<>>
    /\ took \subseteq {r \in task.relays : task.link[r] = "open"} /\ took # {}
    /\ \E w \in Outgoing(q) :
          /\ w.kind = "wrap" /\ Verify(w, now)
          /\ \E i \in PTags(w) : PTags(w) = {i} /\ w.tags[i] = <<"p", to>>
          /\ task' = [op |-> "sent", at |-> now, took |-> took, from |-> NoRecord, back |-> task,
                      plan |-> [ev |-> w, recipient |-> to, relays |-> task.relays,
                                provenance |-> "inbox", required |-> 1]]
    /\ UNCHANGED <<now, kind, cache>>

(***************************************************************************)
(* The specification.                                                      *)
(***************************************************************************)
Policies == [stale: BOOLEAN, bootstrap: BOOLEAN]

MoveSet == {"up", "asked", "open", "down"}
           \X {"connected", "challenged", "authenticated", "rejected", "disconnected"}

LibraryNext ==
    \/ TaskFails \/ Dismiss \/ StoreFound \/ Restart \/ EndDiscovery
    \/ InboxReady
    \/ \E t \in 0..MaxTime : ClockMoves(t)
    \/ \E a \in Authors, rs \in SUBSET Pool, policy \in {"required", "when_challenged"},
          min \in 1..Cardinality(Pool) : StartDiscovery(a, rs, policy, min)
    \/ \E rs \in SUBSET Pool : Subscribe(rs)
    \/ \E rs \in {Pool, {CHOOSE r \in Pool : TRUE}} : ConnectInbox(rs)
    \/ \E r \in Pool, m \in MoveSet : AwaitReadiness(r, m)
    \/ \E r \in DOMAIN Url, m \in MoveSet : LinkMoves(r, m)
    \/ \E r \in Pool : Settles(r) \/ EndOfStored(r) \/ ReadNote(r)
    \/ \E r \in Pool, a \in Authors : \E e \in Served[kind][a] : EventArrives(r, a, e)
    \/ \E a, q \in Authors, policy \in Policies : StartDelivery(a, q, policy)
    \/ \E q \in Authors : StartDirect(q)
    \/ \E r \in DOMAIN Url : ApplyNote(r)
    \/ \E took \in SUBSET DOMAIN Url : Publish(took)
    \/ \E authors \in SUBSET Blockable : SetBlocked(authors)
    \/ \E r \in Pool, w \in Wraps : WrapArrives(r, w)
    \/ \E q, to \in Authors, took \in SUBSET Pool : InboxPublish(q, to, took)

\* A handle is resolved (bound: only while nothing else goes on, as the two
\* share no state).
Resolving ==
    /\ FetchNext
    /\ task = Idle /\ kind = "profile" /\ cache = EmptyCache
    /\ UNCHANGED <<now, kind, cache, task>>

Next ==
    \/ fetch = NoFetch /\ LibraryNext /\ UNCHANGED fetch
    \/ Resolving

Spec == Init /\ [][Next]_vars

(***************************************************************************)
(* Properties.                                                             *)
(***************************************************************************)
\* Whatever the order in which the relays' copies arrive, a discovery returns
\* the event the tie rule of its kind prefers among all acceptable ones the
\* subscribed relays sent, however often the pool suppressed a copy
\* (replaceable_discovery.rs and dm_relay_discovery.rs).  An event whose first
\* copy came from a relay whose subscription had failed is lost to the search.
FindsNewest ==
    task.op = "found" =>
        /\ Acceptable(task.ev, task.author, kind, task.at)
        /\ \A e \in task.sent \ task.lost :
              Acceptable(e, task.author, kind, task.at) /\ e # task.ev =>
                  \/ e.created_at < task.ev.created_at
                  \/ /\ e.created_at = task.ev.created_at
                     /\ IF kind = "dm_relays" THEN IdBefore(e.id, task.ev.id)
                        ELSE IdBefore(task.ev.id, e.id)

\* No call, and no restart from the saved form, replaces a cached record by an
\* older one or loses it; only a clock behind the time of a verification makes
\* a saved cache unreadable (the three insert and from_json).
CacheForward ==
    [][\A a \in Cached(cache) :
          IF cache'[a].there
          THEN \/ cache'[a].ev.created_at > cache[a].ev.created_at
               \/ cache'[a] = cache[a]
               \/ /\ kind = "relays" /\ cache'[a].ev.created_at = cache[a].ev.created_at
                  /\ IdBefore(cache'[a].ev.id, cache[a].ev.id)
          ELSE \E b \in Cached(cache) : cache[b].verified_at > now]_vars

\* A direct message goes to the relays of the recipient's own list: signed by
\* the recipient of the wrap, and fresh or knowingly stale when the plan was
\* made; the bootstrap relays are used only for a recipient without a list.
\* It is reported as delivered when two of the relays, or the only one, took
\* it (dm_relay_routing.rs, dm_routed_publish.rs, dm_delivery.rs).  What is
\* published through an inbox (provenance "inbox") is exempt from both: it goes
\* to the inbox's own relays, and one that takes it is enough.
DeliveredToInbox ==
    task.op \in {"deliver", "sent"} =>
        LET p == task.plan
            listed == task.from.there
        IN /\ p.ev.tags = <<<<"p", p.recipient>>>>
           /\ p.provenance = "bootstrap" <=> p.provenance # "inbox" /\ ~listed
           /\ listed =>
                 /\ task.from.ev.pubkey = p.recipient
                 /\ p.relays = {Url[t[2]].canon : t \in {x \in Range(task.from.ev.tags) : x[1] = "relay"}}
                 /\ task.from.ev.created_at <= task.at
                 /\ p.provenance = "fresh" =>
                       \E w \in {MaxAge, Freshness} : task.at - task.from.ev.created_at <= w
           /\ task.op = "sent" =>
                 /\ task.took \subseteq p.relays
                 /\ p.provenance # "inbox" => Cardinality(task.took) >= Least(2, Cardinality(p.relays))

\* The inbox hands over only what its author wrote and sealed for this client
\* and a relay sent in a session it had authenticated the client in, and a gift
\* wrap a second time only when its entry had expired, or had been displaced by
\* as many others as the window holds (dm_inbox_runtime.rs, dm_inbox.rs,
\* gift_wrap.rs).
InboxAuthenticOnce ==
    task.op = "inbox" =>
        LET log == task.log
            news(i) == log[i].result # "duplicate"
        IN /\ \A i \in DOMAIN log : log[i].rumor \in Said /\ log[i].session = "open"
           /\ \A i, j \in DOMAIN log :
                 i < j /\ news(i) /\ news(j) /\ log[i].id = log[j].id =>
                    \/ \E k \in (i + 1)..j : log[k].at >= log[i].at + DedupTtl
                    \/ Cardinality({log[k].id : k \in {n \in (i + 1)..(j - 1) : news(n)}}) >= DedupCapacity

=============================================================================
