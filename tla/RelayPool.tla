------------------------------ MODULE RelayPool ------------------------------
(***************************************************************************)
(* The relay pool (omachat-nostr/src/pool.rs) over the connections of      *)
(* RelayConnection.  A pool has one owner, which awaits each of its        *)
(* operations; an operation that awaits the connections is a step that     *)
(* issues the calls and a step that collects the results, and the          *)
(* connections act in between.                                             *)
(***************************************************************************)
EXTENDS RelayConnection, Functions

CONSTANTS
    Relays,          \* the relays that can be configured
    Threshold,       \* acknowledgement_threshold
    DedupCapacity    \* dedup_capacity

ASSUME PoolAssumption ==
    /\ IsFiniteSet(Relays) /\ Relays # {}
    /\ Threshold \in 1..Cardinality(Relays)
    /\ DedupCapacity \in Nat \ {0}

VARIABLES
    conn,      \* connections: a connection that is not part of the pool is ended
    pool,      \* the fields of RelayPool
    awaiting   \* the relays whose calls the owner awaits

poolVars == <<conn, pool, awaiting>>

NoPool ==
    [there |-> FALSE, relays |-> {}, subs |-> {}, sync |-> [r \in Relays |-> {}],
     seen |-> {}, order |-> <<>>, closed |-> {}]

Pools ==
    [there: BOOLEAN, relays: SUBSET Relays, subs: SUBSET Subscriptions,
     sync: [Relays -> SUBSET Subscriptions], seen: SUBSET Events,
     order: Seq(Events), closed: SUBSET Relays]

Up(r) == conn[r].phase = "up"

PoolInit ==
    /\ conn = [r \in Relays |-> [Spawn(FALSE) EXCEPT !.phase = "ended"]]
    /\ pool = NoPool
    /\ awaiting = {}

(***************************************************************************)
(* Steps of the connections, whatever the owner does.                      *)
(***************************************************************************)
Become(r, C) == \E c \in C : conn' = [conn EXCEPT ![r] = c]

ActorConnect(r) ==
    /\ conn[r].phase = "connecting"
    /\ Become(r, Connect(conn[r]))

ActorCommand(r) ==
    /\ Up(r) /\ conn[r].cmds # <<>>
    /\ Become(r, HandleCommand(conn[r]))

ActorFrame(r, mail) ==
    /\ Up(r)
    /\ Become(r, HandleFrame(conn[r], mail))

\* The socket closes or fails, a frame is binary or malformed, a ping cannot
\* be sent, or the idle timeout passes.
ActorLost(r) ==
    /\ Up(r)
    /\ Become(r, {Disconnected(conn[r])})

ActorWait(r) ==
    /\ conn[r].phase = "backoff"
    /\ Become(r, WaitToReconnect(conn[r]))

\* Mutant of CallTimeout: a call waits for its answer without limit.
CallWithoutTimeout(r) == FALSE /\ Become(r, {conn[r]})

\* response_timeout of a call the owner awaits.
CallTimeout(r) ==
    /\ r \in awaiting /\ conn[r].call = "waiting"
    /\ Become(r, {Abandon(conn[r], "err")})

(***************************************************************************)
(* Operations of the owner.                                                *)
(***************************************************************************)
Settled == \A r \in awaiting : conn[r].call # "waiting"

Accepting == {r \in awaiting : conn[r].call = "ok"}

\* spawn: one connection for each configured relay.
SpawnPool(rs, signer) ==
    /\ pool' = [NoPool EXCEPT !.there = TRUE, !.relays = rs]
    /\ conn' = [r \in Relays |-> IF r \in rs THEN Spawn(signer) ELSE conn[r]]

\* publish and publish_to_indices: attempted on the eligible connections that
\* are up; the result is Ok when the threshold is met.
StartPublish(e, eligible) ==
    LET to == {r \in pool.relays \cap eligible : Up(r)}
    IN /\ awaiting' = to
       /\ conn' = [r \in Relays |-> IF r \in to THEN Issue(conn[r], Publish(e)) ELSE conn[r]]
       /\ UNCHANGED pool

\* Mutant of PublishMet: the relays that were asked count.
AttemptsMet == Cardinality(awaiting) >= Threshold

PublishMet == Cardinality(Accepting) >= Threshold

Collected == [r \in Relays |-> IF r \in awaiting THEN [conn[r] EXCEPT !.call = "none", !.took = {}] ELSE conn[r]]

EndPublish ==
    /\ Settled
    /\ awaiting' = {}
    /\ conn' = Collected
    /\ UNCHANGED pool

\* subscribe: nothing to do for the subscription the pool has, with the same
\* filters and confirmed by every relay; otherwise it is asked of all of them.
\* Its counterpart close_subscription has no caller in the daemon and is left
\* out.
StartSubscribe(s, same) ==
    IF same /\ s \in pool.subs /\ \A r \in pool.relays : s \in pool.sync[r]
    THEN UNCHANGED poolVars
    ELSE /\ pool' = [pool EXCEPT !.subs = @ \cup {s},
                                 !.sync = [r \in Relays |-> @[r] \ {s}]]
         /\ awaiting' = pool.relays
         /\ conn' = [r \in Relays |->
                         IF r \in pool.relays THEN Issue(conn[r], Subscribe(s)) ELSE conn[r]]

\* Mutant of EndSubscribe: on every relay that was asked.
EndSubscribeUnchecked(s) ==
    /\ Settled
    /\ pool' = [pool EXCEPT !.sync = [r \in Relays |->
                    IF r \in awaiting THEN @[r] \cup {s} ELSE @[r]]]
    /\ awaiting' = {}
    /\ conn' = Collected

\* The subscription counts as synchronised on the relays that answered Ok.
EndSubscribe(s) ==
    /\ Settled
    /\ pool' = [pool EXCEPT !.sync = [r \in Relays |->
                    IF r \in Accepting THEN @[r] \cup {s} ELSE @[r]]]
    /\ awaiting' = {}
    /\ conn' = Collected

\* Mutant of RememberEvent: an expired entry leaves the order only.
RememberExpired(p, e) ==
    {LET q == [p EXCEPT !.order = SubSeq(p.order, k + 1, Len(p.order))]
     IN IF e \in q.seen THEN [fresh |-> FALSE, pool |-> q]
        ELSE [fresh |-> TRUE, pool |-> [q EXCEPT !.seen = @ \cup {e}, !.order = Append(@, e)]]
        : k \in 0..Len(p.order)}

\* The first k entries leave the window.
Without(q, k) ==
    [q EXCEPT !.order = SubSeq(q.order, k + 1, Len(q.order)),
              !.seen = q.seen \ {q.order[i] : i \in 1..k}]

\* A full window gives up its oldest entries for a new one.
Entered(q, e) ==
    LET excess == IF Cardinality(q.seen) >= DedupCapacity
                  THEN Cardinality(q.seen) + 1 - DedupCapacity ELSE 0
    IN [Without(q, excess) EXCEPT !.seen = @ \cup {e}, !.order = Append(@, e)]

\* remember_event: entries of the window expire from its front.  The result is
\* the event's freshness and the window afterwards.
RememberEvent(p, e) ==
    {LET q == Without(p, k)
     IN IF e \in q.seen THEN [fresh |-> FALSE, pool |-> q]
        ELSE [fresh |-> TRUE, pool |-> Entered(q, e)] : k \in 0..Len(p.order)}

\* next_notification takes one notification of one connection.
TakeNote(r) == [conn EXCEPT ![r].notes = Tail(@)]

HasNote(r) == r \in pool.relays \ pool.closed /\ conn[r].notes # <<>>

\* A connection that ended and whose notifications are read is closed; the
\* pool gives None only when every connection is.
NextClosed(r) ==
    /\ r \in pool.relays \ pool.closed
    /\ conn[r].phase = "ended" /\ conn[r].notes = <<>>
    /\ pool' = [pool EXCEPT !.closed = @ \cup {r}]
    /\ UNCHANGED <<conn, awaiting>>

\* On Connected the pool subscribes again what that relay has not confirmed;
\* the owner may drop the future while it waits.
StartResubscribe(r, s) ==
    /\ HasNote(r) /\ Head(conn[r].notes).kind = "connected"
    /\ s \in pool.subs \ pool.sync[r]
    /\ conn' = [conn EXCEPT ![r] = Issue([conn[r] EXCEPT !.notes = Tail(@)], Subscribe(s))]
    /\ awaiting' = {r}
    /\ UNCHANGED pool

CancelNext ==
    /\ conn' = [r \in Relays |-> IF r \in awaiting THEN Abandon(conn[r], "none") ELSE conn[r]]
    /\ awaiting' = {}
    /\ UNCHANGED pool

\* A notification the owner has no use for, and an event seen before.
SkipNote(r) ==
    /\ HasNote(r)
    /\ LET n == Head(conn[r].notes)
       IN \/ /\ n.kind = "connected" /\ pool.subs \subseteq pool.sync[r]
             /\ UNCHANGED pool
          \/ /\ n.kind = "other"
             /\ UNCHANGED pool
          \/ /\ n.kind = "event"
             /\ \E m \in RememberEvent(pool, n.ev) : ~m.fresh /\ pool' = m.pool
    /\ conn' = TakeNote(r)
    /\ UNCHANGED awaiting

\* An event that is handed to the owner.
NextEvent(r, e) ==
    /\ HasNote(r)
    /\ Head(conn[r].notes) = [kind |-> "event", ev |-> e]
    /\ \E m \in RememberEvent(pool, e) : m.fresh /\ pool' = m.pool
    /\ conn' = TakeNote(r)
    /\ UNCHANGED awaiting

\* shutdown: every connection is asked and awaited; the grace period of one
\* that does not end in time is over (the task is aborted).
StartShutdown ==
    /\ awaiting' = pool.relays
    /\ conn' = [r \in Relays |-> IF r \in pool.relays THEN AskShutdown(conn[r]) ELSE conn[r]]
    /\ UNCHANGED pool

AbortConnection(r) ==
    /\ conn[r].phase # "ended"
    /\ Become(r, {Ended(conn[r])})

EndShutdown ==
    /\ \A r \in awaiting : conn[r].phase = "ended"
    /\ awaiting' = {}
    /\ pool' = NoPool
    /\ conn' = [r \in Relays |-> [conn[r] EXCEPT !.notes = <<>>, !.subs = {}, !.took = {}, !.call = "none"]]

=============================================================================
