-------------------------- MODULE DmLibraryProofs --------------------------
(***************************************************************************)
(* The direct message library for any relays, events and sessions: a       *)
(* discovery finds the newest event in every order of arrival, the cache   *)
(* only moves forward, a message goes to the relays of its recipient's own *)
(* list, and the inbox hands over what its author wrote, once.             *)
(***************************************************************************)
EXTENDS DmStateProofs

\* A leaf is tried with Zenon, which is soon done, and then with SMT, unless it
\* names its prover.
USE ZenonT(10), SMTT(20)

\* The fields of a search, of a delivery and of an inbox.
Search ==
    {"op", "phase", "author", "policy", "min", "link", "settled", "challenged", "auth",
     "subscribed", "completed", "best", "seen", "sent", "lost"}
Delivery == {"op", "plan", "from", "at", "link", "mail", "auth"}
Inbox == {"op", "phase", "relays", "link", "mail", "auth", "blocked", "order", "log"}

\* The events served in the search t.
Offered(t, k) == Served[k][t.author]

\* The event is as its author signed it.
Genuine(e) == e.id = Fields(e) /\ e.sig = [by |-> e.pubkey, of |-> e.id]

\* What is in the search is of the author; every event that was seen was
\* considered or is lost; and the best beats what was considered and counts.
Sound(t, k, at) ==
    /\ DOMAIN t = Search
    /\ t.author \in Authors
    /\ t.seen \subseteq Offered(t, k) /\ t.best \subseteq t.seen
    /\ \A e \in t.seen : Genuine(e)
    /\ t.sent \subseteq t.seen /\ t.seen \subseteq t.sent \cup t.lost
    /\ t.best = {} \/ \E f \in t.seen : t.best = {f}
    /\ \A f \in t.best : Acceptable(f, t.author, k, at)
    /\ \A e \in t.sent \ t.lost :
          Acceptable(e, t.author, k, at) => \E f \in t.best : f = e \/ Beats(f, e, k)

\* The plan p made at the time at from the record from.
Routed(p, from, at) ==
    /\ p.ev.tags = <<<<"p", p.recipient>>>>
    /\ p.provenance = "bootstrap" <=> p.provenance # "inbox" /\ ~from.there
    /\ from.there =>
          /\ from.ev.pubkey = p.recipient
          /\ p.relays = Listed(from.ev, "relay")
          /\ from.ev.created_at <= at
          /\ p.provenance = "fresh" => \E w \in {MaxAge, Freshness} : at - from.ev.created_at <= w

Sending(t) ==
    /\ DOMAIN t = Delivery /\ t.op = "deliver"
    /\ Routed(t.plan, t.from, t.at)
    /\ IsFiniteSet(t.plan.relays) /\ t.plan.required = Least(2, Cardinality(t.plan.relays))
    /\ DOMAIN t.link = t.plan.relays /\ t.auth \subseteq t.plan.relays

\* A relay that counts as authenticated, with nothing unread about it, has its
\* session open.
InStep(t) ==
    /\ DOMAIN t.link = t.relays /\ DOMAIN t.mail = t.relays
    /\ \A r \in t.relays :
          t.mail[r] = "authenticated" \/ (t.mail[r] = "none" /\ r \in t.auth) => t.link[r] = "open"

Receiving(t) == DOMAIN t = Inbox /\ t.op = "inbox" /\ Window(t.order, t.log) /\ InStep(t)

Sent(t) ==
    /\ "op" \in DOMAIN t /\ t.op = "sent"
    /\ Routed(t.plan, t.from, t.at)
    /\ t.took \subseteq t.plan.relays
    /\ t.plan.provenance # "inbox" => Cardinality(t.took) >= Least(2, Cardinality(t.plan.relays))
    /\ t.back = Idle \/ Receiving(t.back)

Others == {"idle", "deliver", "sent", "inbox"}

\* The client does something other than a search, or nothing.
Elsewhere(t) ==
    /\ "op" \in DOMAIN t /\ t.op \in Others
    /\ t.op = "deliver" => Sending(t)
    /\ t.op = "sent" => Sent(t)
    /\ t.op = "inbox" => Receiving(t)

Found(t, k) ==
    /\ "op" \in DOMAIN t /\ t.op = "found"
    /\ t.author \in Authors /\ t.ev \in Served[k][t.author]

IInv ==
    /\ kind \in Kinds /\ now \in Nat
    /\ CacheOk(cache, kind)
    /\ \/ Elsewhere(task)
       \/ task.op = "discover" /\ Sound(task, kind, now)
       \/ Found(task, kind) /\ FindsNewest

\* Of two events one beats the other, and the better of the better is better.
LEMMA BeatsOrder ==
    ASSUME NEW k \in Kinds, NEW a \in Authors,
           NEW e \in Served[k][a], NEW f \in Served[k][a], NEW g \in Served[k][a]
    PROVE  /\ e # f /\ Genuine(e) /\ Genuine(f) => Beats(e, f, k) \/ Beats(f, e, k)
           /\ Beats(e, f, k) /\ Beats(f, g, k) => Beats(e, g, k)
<1>1. /\ e.created_at \in Nat /\ f.created_at \in Nat /\ g.created_at \in Nat
      /\ Fields(e) = Fields(f) /\ e.id = f.id /\ e.sig = f.sig => e = f
      /\ e.created_at = f.created_at /\ e.id # f.id => IdBefore(e.id, f.id) \/ IdBefore(f.id, e.id)
      /\ IdBefore(e.id, f.id) /\ IdBefore(f.id, g.id) => IdBefore(e.id, g.id)
      /\ IdBefore(g.id, f.id) /\ IdBefore(f.id, e.id) => IdBefore(g.id, e.id)
  BY ServedAssumption
<1>2. Genuine(e) /\ Genuine(f) /\ e.id = f.id => e = f
  <2> SUFFICES ASSUME Genuine(e), Genuine(f), e.id = f.id PROVE e = f
    OBVIOUS
  <2>1. Fields(e) = Fields(f)
    BY DEF Genuine
  <2>2. e.pubkey = f.pubkey
    BY <2>1 DEF Fields, Unsigned
  <2> QED
    BY <1>1, <2>1, <2>2 DEF Genuine
<1>3. CASE k = "dm_relays"
  BY <1>1, <1>2, <1>3 DEF Beats
<1>4. CASE k # "dm_relays"
  BY <1>1, <1>2, <1>4 DEF Beats
<1> QED
  BY <1>3, <1>4

(***************************************************************************)
(* A search.                                                               *)
(***************************************************************************)
\* Nothing that a discovery does to its sessions touches what it found.
LEMMA SameFound ==
    ASSUME NEW k, NEW at, NEW t, NEW u, Sound(t, k, at), DOMAIN u = DOMAIN t,
           u.author = t.author, u.best = t.best, u.seen = t.seen, u.sent = t.sent, u.lost = t.lost
    PROVE  Sound(u, k, at)
BY DEF Sound, Offered

\* The subscription and the sessions before it.
LEMMA SessionStep ==
    ASSUME Sound(task, kind, now), task.op = "discover",
           \/ \E r \in Pool, m \in MoveSet : AwaitReadiness(r, m)
           \/ \E r \in Pool : Settles(r) \/ EndOfStored(r)
           \/ \E rs \in SUBSET Pool : Subscribe(rs)
    PROVE  task' = Idle \/ (task'.op = "discover" /\ Sound(task', kind, now))
<1>0. Sound(task, kind, now) /\ DOMAIN task = Search
  BY DEF Sound
<1>1. ASSUME NEW r \in Pool, NEW m \in MoveSet, AwaitReadiness(r, m)
      PROVE  task'.op = "discover" /\ Sound(task', kind, now)
  <2> DEFINE t == [task EXCEPT !.link[r] = m[1]]
  <2>1. /\ DOMAIN t = DOMAIN task /\ t.op = task.op /\ t.author = task.author /\ t.best = task.best
        /\ t.seen = task.seen /\ t.sent = task.sent /\ t.lost = task.lost
    BY <1>0 DEF Search
  <2> HIDE DEF t
  <2> DEFINE Same(u) == /\ DOMAIN u = DOMAIN t /\ u.op = t.op /\ u.author = t.author
                        /\ u.best = t.best /\ u.seen = t.seen /\ u.sent = t.sent /\ u.lost = t.lost
  <2>2. /\ Same([t EXCEPT !.challenged = @ \cup {r}])
        /\ Same([t EXCEPT !.auth = @ \cup {r}, !.challenged = @ \ {r}])
        /\ Same([t EXCEPT !.auth = @ \ {r}, !.challenged = @ \ {r}, !.settled = @ \ {r}])
    BY <1>0, <2>1 DEF Search
  <2>3. m[2] \in {"connected", "challenged", "authenticated", "disconnected"}
    BY <1>1 DEF AwaitReadiness, MoveSet
  <2>4. Same(task')
    BY <1>1, <2>2, <2>3 DEF AwaitReadiness, t
  <2> QED
    BY <1>0, <2>1, <2>4, SameFound
<1>2. ASSUME NEW r \in Pool, Settles(r) \/ EndOfStored(r)
      PROVE  task'.op = "discover" /\ Sound(task', kind, now)
  <2>1. /\ DOMAIN task' = DOMAIN task /\ task'.op = task.op /\ task'.author = task.author
        /\ task'.best = task.best /\ task'.seen = task.seen /\ task'.sent = task.sent
        /\ task'.lost = task.lost
    BY <1>0, <1>2 DEF Settles, EndOfStored, Search
  <2> QED
    BY <1>0, <2>1, SameFound
<1>3. ASSUME NEW rs \in SUBSET Pool, Subscribe(rs), task' # Idle
      PROVE  task'.op = "discover" /\ Sound(task', kind, now)
  <2>1. /\ DOMAIN task' = DOMAIN task /\ task'.op = task.op /\ task'.author = task.author
        /\ task'.best = task.best /\ task'.seen = task.seen /\ task'.sent = task.sent
        /\ task'.lost = task.lost
    BY <1>0, <1>3 DEF Subscribe, Search
  <2> QED
    BY <1>0, <2>1, SameFound
<1> QED
  BY <1>1, <1>2, <1>3

\* What a relay's frame hands over was signed by its author.
LEMMA FrameGenuine ==
    ASSUME NEW s, NEW e, NEW n, FromFrame(Frame("EVENT", 3, TRUE, s, e), n) # {}
    PROVE  Genuine(e) /\ Verify(e, n)
<1>1. Verify(e, n)
  BY DEF FromFrame, Frame
<1> QED
  BY <1>1 DEF Verify, Genuine

\* An event takes its place among those that were considered.
LEMMA ArrivalStep ==
    ASSUME kind \in Kinds, Sound(task, kind, now), task.op = "discover", NEW r \in Pool, NEW a \in Authors,
           NEW e \in Served[kind][a], EventArrives(r, a, e)
    PROVE  task'.op = "discover" /\ Sound(task', kind, now)
<1> DEFINE t == [task EXCEPT !.seen = @ \cup {e},
                             !.sent = IF r \in task.subscribed THEN @ \cup {e} ELSE @]
           good(x) == Acceptable(x, task.author, kind, now)
           better == good(e) /\ \A f \in task.best : Beats(e, f, kind)
<1>0. Sound(task, kind, now) /\ DOMAIN task = Search /\ kind \in Kinds /\ a = task.author
  BY DEF Sound, EventArrives, Discovering
<1>1. /\ DOMAIN t = Search /\ t.op = task.op /\ t.author = task.author /\ t.best = task.best
      /\ t.lost = task.lost /\ t.seen = task.seen \cup {e}
      /\ t.sent = IF r \in task.subscribed THEN task.sent \cup {e} ELSE task.sent
  BY <1>0 DEF Search
<1>2. \/ task' = task
      \/ e \in task.seen /\ task' = t
      \/ /\ Genuine(e) /\ e \notin task.seen /\ r \notin task.subscribed
         /\ task' = [t EXCEPT !.lost = @ \cup {e}]
      \/ /\ Genuine(e) /\ e \notin task.seen /\ r \in task.subscribed
         /\ task' = [t EXCEPT !.best = IF better THEN {e} ELSE @]
  <2>1. FromFrame(Frame("EVENT", 3, TRUE, "discovery", e), now) # {} => Genuine(e)
    BY FrameGenuine
  <2> QED
    BY <2>1 DEF EventArrives
<1> HIDE DEF t
<1>3. CASE task' = task
  BY <1>0, <1>3
<1>4. CASE e \in task.seen /\ task' = t
  <2>1. t.seen = task.seen /\ t.sent \ t.lost = task.sent \ task.lost
    BY <1>0, <1>1, <1>4 DEF Sound
  <2> QED
    BY <1>0, <1>1, <1>4, <2>1 DEF Sound, Offered
<1>5. CASE /\ Genuine(e) /\ e \notin task.seen /\ r \notin task.subscribed
           /\ task' = [t EXCEPT !.lost = @ \cup {e}]
  <2>1. /\ DOMAIN task' = Search /\ task'.op = task.op /\ task'.author = task.author
        /\ task'.best = task.best /\ task'.lost = task.lost \cup {e}
        /\ task'.seen = task.seen \cup {e} /\ task'.sent = task.sent
    BY <1>1, <1>5 DEF Search
  <2> QED
    BY <1>0, <1>5, <2>1 DEF Sound, Offered
<1>6. CASE /\ Genuine(e) /\ e \notin task.seen /\ r \in task.subscribed
           /\ task' = [t EXCEPT !.best = IF better THEN {e} ELSE @]
  <2> HIDE DEF good, better
  <2>1. /\ DOMAIN task' = Search /\ task'.op = task.op /\ task'.author = task.author
        /\ task'.best = (IF better THEN {e} ELSE task.best) /\ task'.lost = task.lost
        /\ task'.seen = task.seen \cup {e} /\ task'.sent = task.sent \cup {e}
    BY <1>1, <1>6 DEF Search
  <2>2. /\ task'.seen \subseteq Offered(task', kind) /\ task'.best \subseteq task'.seen
        /\ task'.sent \subseteq task'.seen /\ task'.seen \subseteq task'.sent \cup task'.lost
        /\ task'.best = {} \/ \E f \in task'.seen : task'.best = {f}
        /\ \A f \in task'.seen : Genuine(f)
    BY <1>0, <1>6, <2>1 DEF Sound, Offered
  <2>3. \A f \in task'.best : Acceptable(f, task'.author, kind, now)
    BY <1>0, <2>1 DEF Sound, better, good
  <2>4. ASSUME NEW x \in task'.sent \ task'.lost, Acceptable(x, task'.author, kind, now)
        PROVE  \E f \in task'.best : f = x \/ Beats(f, x, kind)
    <3>0. /\ x \in Served[kind][a] /\ task.best \subseteq Served[kind][a]
          /\ task.best \subseteq task.seen
      BY <1>0, <2>1, <2>2 DEF Sound, Offered
    <3>1. CASE x = e /\ ~better
      <4>1. PICK f \in task.best : ~Beats(e, f, kind)
        BY <2>1, <2>4, <3>1 DEF better, good
      <4>2. f # e /\ f \in Served[kind][a] /\ Genuine(f) /\ Genuine(e)
        BY <1>0, <1>6, <3>0 DEF Sound
      <4>3. Beats(f, e, kind)
        BY <1>0, <4>1, <4>2, BeatsOrder
      <4> QED
        BY <2>1, <3>1, <4>3
    <3>2. CASE x = e /\ better
      BY <2>1, <3>2
    <3>3. CASE x # e
      <4>1. PICK f \in task.best : f = x \/ Beats(f, x, kind)
        BY <1>0, <2>1, <2>4, <3>3 DEF Sound
      <4>2. CASE ~better
        BY <2>1, <4>1, <4>2
      <4>3. CASE better
        <5>1. Beats(e, f, kind) /\ f \in Served[kind][a]
          BY <3>0, <4>3 DEF better
        <5>2. Beats(e, x, kind)
          BY <1>0, <3>0, <4>1, <5>1, BeatsOrder
        <5> QED
          BY <2>1, <4>3, <5>2
      <4> QED
        BY <4>2, <4>3
    <3> QED
      BY <3>1, <3>2, <3>3
  <2> QED
    BY <1>0, <2>1, <2>2, <2>3, <2>4 DEF Sound
<1> QED
  BY <1>2, <1>3, <1>4, <1>5, <1>6

\* A search begins with nothing found.
LEMMA StartStep ==
    ASSUME NEW a \in Authors, NEW rs, NEW policy, NEW min, StartDiscovery(a, rs, policy, min)
    PROVE  task'.op = "discover" /\ Sound(task', kind, now)
<1>1. /\ DOMAIN task' = Search /\ task'.op = "discover" /\ task'.author = a
      /\ task'.best = {} /\ task'.seen = {} /\ task'.sent = {} /\ task'.lost = {}
  BY DEF StartDiscovery, Search
<1> QED
  BY <1>1 DEF Sound, Offered

\* The result is the best of what was considered.
LEMMA EndStep ==
    ASSUME kind \in Kinds, Sound(task, kind, now), EndDiscovery
    PROVE  task' = Idle \/ (Found(task', kind) /\ FindsNewest')
<1>0. Sound(task, kind, now) /\ kind' = kind
  BY DEF EndDiscovery
<1>1. CASE task.best = {}
  BY <1>1 DEF EndDiscovery
<1>2. CASE task.best # {}
  <2>1. PICK f \in task.seen : task.best = {f}
    BY <1>0, <1>2 DEF Sound
  <2>2. task' = [op |-> "found", ev |-> f, author |-> task.author, at |-> now,
                 sent |-> task.sent, lost |-> task.lost]
    BY <1>2, <2>1 DEF EndDiscovery
  <2>3. /\ task'.op = "found" /\ task'.ev = f /\ task'.author = task.author /\ task'.at = now
        /\ task'.sent = task.sent /\ task'.lost = task.lost /\ "op" \in DOMAIN task'
    BY <2>2
  <2>4. Acceptable(f, task.author, kind, now)
    BY <1>0, <2>1 DEF Sound
  <2>5. ASSUME NEW e \in task.sent \ task.lost, Acceptable(e, task.author, kind, now), e # f
        PROVE  Beats(f, e, kind)
    BY <1>0, <2>1, <2>5 DEF Sound
  <2>6. ASSUME NEW e \in task.sent \ task.lost, Acceptable(e, task.author, kind, now), e # f
        PROVE  \/ e.created_at < f.created_at
               \/ /\ e.created_at = f.created_at
                  /\ IF kind = "dm_relays" THEN IdBefore(e.id, f.id) ELSE IdBefore(f.id, e.id)
    BY <2>5, <2>6 DEF Beats
  <2>7. FindsNewest'
    BY <1>0, <2>3, <2>4, <2>6 DEF FindsNewest
  <2>8. Found(task', kind)
    BY <1>0, <2>1, <2>3 DEF Found, Sound, Offered
  <2> QED
    BY <2>7, <2>8
<1> QED
  BY <1>1, <1>2

(***************************************************************************)
(* Plans.                                                                  *)
(***************************************************************************)
\* A wrap the client makes is tagged with its recipient and nothing else.
LEMMA OutgoingTags ==
    ASSUME NEW q, NEW w \in Outgoing(q)
    PROVE  w.tags = <<<<"p", q>>>>
<1>1. ASSUME NEW s, NEW u, NEW e \in Sign(s, u) PROVE e.tags = u.tags
  BY DEF Sign
<1>2. PICK r : w \in CreateGiftWrap(r, Me, q, now, "wrap", Once)
  BY DEF Outgoing
<1>3. \E at, c : w \in Sign(Once, Unsigned(Once, at, "wrap", <<<<"p", q>>>>, c))
  BY <1>2 DEF CreateGiftWrap
<1>4. PICK at, c : w \in Sign(Once, Unsigned(Once, at, "wrap", <<<<"p", q>>>>, c))
  BY <1>3
<1>5. Unsigned(Once, at, "wrap", <<<<"p", q>>>>, c).tags = <<<<"p", q>>>>
  BY DEF Unsigned
<1> QED
  BY <1>1, <1>4, <1>5

\* A gift wrap the client made that is tagged for someone is tagged for them only.
LEMMA TagsOf ==
    ASSUME NEW q, NEW to, NEW w \in Outgoing(q), NEW i \in PTags(w), w.tags[i] = <<"p", to>>
    PROVE  w.tags = <<<<"p", to>>>>
<1>1. w.tags = <<<<"p", q>>>>
  BY OutgoingTags
<1>2. i = 1 /\ w.tags[i] = <<"p", q>>
  BY <1>1 DEF PTags
<1>3. q = to
  BY <1>2
<1> QED
  BY <1>1, <1>3

\* The plan follows the route.
LEMMA PlanFacts ==
    ASSUME NEW q, NEW w \in Outgoing(q), NEW route, NEW n, NEW p \in PlanRouted(w, route, n)
    PROVE  /\ p.ev.tags = <<<<"p", p.recipient>>>>
           /\ p.recipient = route.recipient /\ p.relays = route.relays
           /\ p.provenance = route.provenance /\ p.required = route.required
<1>1. /\ p = [ev |-> w, recipient |-> route.recipient, relays |-> route.relays,
              provenance |-> route.provenance, required |-> route.required]
      /\ \E i \in PTags(w) : w.tags[i] = <<"p", route.recipient>>
  BY DEF PlanRouted
<1>2. w.tags = <<<<"p", route.recipient>>>>
  BY <1>1, TagsOf
<1> QED
  BY <1>1, <1>2

\* What a delivery route is made of.
LEMMA RouteFacts ==
    ASSUME NEW a, NEW rs, NEW s
    PROVE  LET route == RouteOf(a, rs, s)
           IN /\ route.recipient = a /\ route.relays = rs /\ route.provenance = s
              /\ IsFiniteSet(rs) => route.required = Least(2, Cardinality(rs))
<1>1. IsFiniteSet(rs) => Cardinality(rs) \in Nat
  BY FS_CardinalityType
<1> QED
  BY <1>1 DEF RouteOf, Least

\* The endpoints a list names are finitely many.
LEMMA ListedFinite ==
    ASSUME NEW S, S \subseteq DOMAIN Url
    PROVE  IsFiniteSet(S)
<1>1. IsFiniteSet(DOMAIN Url) /\ S \in SUBSET DOMAIN Url
  BY UrlAssumption
<1> QED
  BY <1>1, FS_Subset

\* The state a delivery starts in.
LEMMA SpawnStep ==
    ASSUME NEW plan, NEW from, Spawn(plan, from), Routed(plan, from, now),
           IsFiniteSet(plan.relays), plan.required = Least(2, Cardinality(plan.relays))
    PROVE  Elsewhere(task')
<1>1. /\ DOMAIN task' = Delivery /\ task'.op = "deliver" /\ task'.plan = plan /\ task'.from = from
      /\ task'.at = now /\ DOMAIN task'.link = plan.relays /\ task'.auth = {}
  BY DEF Spawn, Delivery
<1>2. Sending(task')
  BY <1>1 DEF Sending
<1> QED
  BY <1>1, <1>2 DEF Elsewhere, Others, Delivery

\* A message along the route the cache gives.
LEMMA CachedDelivery ==
    ASSUME IInv, NEW a \in Authors, NEW q \in Authors, NEW policy, StartDelivery(a, q, policy)
    PROVE  Elsewhere(task')
<1>1. PICK w \in Outgoing(q), route \in RouteDmRelays(cache, a, now, Bootstrap, policy) :
          \E plan \in PlanRouted(w, route, now) : Spawn(plan, cache[a])
  BY DEF StartDelivery
<1>2. PICK p \in PlanRouted(w, route, now) : Spawn(p, cache[a])
  BY <1>1
<1>3. /\ p.ev.tags = <<<<"p", p.recipient>>>>
      /\ p.recipient = route.recipient /\ p.relays = route.relays
      /\ p.provenance = route.provenance /\ p.required = route.required
  BY PlanFacts, SMTT(20)
<1>4. kind = "dm_relays" /\ now \in Nat /\ CacheOk(cache, "dm_relays")
  BY DEF StartDelivery, IInv
<1>5. CASE Lookup(cache, a, now) \in {"fresh", "stale"}
  <2> DEFINE s == Lookup(cache, a, now)
             r == cache[a]
  <2>1. r.there /\ ~(now < r.ev.created_at) /\ (s = "fresh" => now - r.ev.created_at <= Freshness)
    BY <1>5 DEF Lookup
  <2>2. route = RouteOf(a, r.relays, s)
    BY <1>1, <1>5 DEF RouteDmRelays, RouteVerified
  <2>3. r.there = TRUE /\ Kept("dm_relays", r, a)
    BY <1>4, <2>1 DEF CacheOk, NoRecord
  <2>4. /\ r.ev.pubkey = a /\ r.relays = Listed(r.ev, "relay") /\ r.ev.created_at \in Nat
        /\ r.relays \subseteq DOMAIN Url
    BY <2>3, KeptLists
  <2>5. IsFiniteSet(r.relays)
    BY <2>4, ListedFinite
  <2>6. /\ route.recipient = a /\ route.relays = r.relays /\ route.provenance = s
        /\ route.required = Least(2, Cardinality(r.relays))
    BY <2>2, <2>5, RouteFacts, SMTT(20)
  <2>7. s \in {"fresh", "stale"}
    BY <1>5
  <2> HIDE DEF s, r
  <2>8. Routed(p, r, now)
    BY <1>3, <1>4, <2>1, <2>3, <2>4, <2>6, <2>7 DEF Routed
  <2> QED
    BY <1>2, <1>3, <2>5, <2>6, <2>8, SpawnStep DEF r
<1>6. CASE Lookup(cache, a, now) \notin {"fresh", "stale"}
  <2> DEFINE canon == [i \in DOMAIN Bootstrap |-> Url[Bootstrap[i]].canon]
             rs == Range(canon)
  <2>1. Lookup(cache, a, now) \in {"missing", "clock_rollback"}
    BY <1>6 DEF Lookup
  <2>2. /\ Lookup(cache, a, now) = "missing" /\ route = RouteOf(a, rs, "bootstrap")
        /\ \A u \in Range(Bootstrap) : Endpoint(u)
    BY <1>1, <2>1 DEF RouteDmRelays, RouteBootstrap
  <2>3. ~cache[a].there
    BY <2>2 DEF Lookup
  <2>4. rs \subseteq DOMAIN Url
    <3>1. \A i \in DOMAIN Bootstrap : Bootstrap[i] \in DOMAIN Url
      BY <2>2 DEF Endpoint, Range
    <3>2. \A u \in DOMAIN Url : Url[u].canon \in DOMAIN Url
      BY UrlAssumption DEF ParsedUrl
    <3> QED
      BY <3>1, <3>2 DEF Range
  <2> HIDE DEF rs
  <2>5. IsFiniteSet(rs)
    BY <2>4, ListedFinite
  <2>6. /\ route.recipient = a /\ route.relays = rs /\ route.provenance = "bootstrap"
        /\ route.required = Least(2, Cardinality(rs))
    BY <2>2, <2>5, RouteFacts, SMTT(20)
  <2>7. Routed(p, cache[a], now)
    BY <1>3, <2>3, <2>6 DEF Routed
  <2> QED
    BY <1>2, <1>3, <2>5, <2>6, <2>7, SpawnStep
<1> QED
  BY <1>5, <1>6

\* A message along the inbox that was just found.
LEMMA DirectDelivery ==
    ASSUME IInv, NEW q \in Authors, StartDirect(q)
    PROVE  Elsewhere(task')
<1>1. PICK w \in Outgoing(q), i \in VerifyDmInbox(task.ev, task.author, now, MaxAge) :
          \E route \in RouteVerified(i.recipient, i.relays, "fresh") :
             \E plan \in PlanRouted(w, route, now) : Spawn(plan, Record(i.ev, i.relays, now))
  BY DEF StartDirect
<1>2. PICK route \in RouteVerified(i.recipient, i.relays, "fresh") :
          \E plan \in PlanRouted(w, route, now) : Spawn(plan, Record(i.ev, i.relays, now))
  BY <1>1
<1>3. PICK p \in PlanRouted(w, route, now) : Spawn(p, Record(i.ev, i.relays, now))
  BY <1>2
<1>4. /\ p.ev.tags = <<<<"p", p.recipient>>>>
      /\ p.recipient = route.recipient /\ p.relays = route.relays
      /\ p.provenance = route.provenance /\ p.required = route.required
  BY PlanFacts, SMTT(20)
<1> DEFINE e == task.ev
           rs == Listed(e, "relay")
           from == Record(e, rs, now)
<1>5. /\ e.pubkey = task.author /\ e.created_at <= now /\ now - e.created_at <= MaxAge
      /\ i.ev = e /\ i.recipient = task.author /\ i.relays = rs /\ rs \subseteq DOMAIN Url
  BY InboxFacts, SMTT(20)
<1>6. IsFiniteSet(rs)
  BY <1>5, ListedFinite
<1>7. route = RouteOf(task.author, rs, "fresh")
  BY <1>2, <1>5 DEF RouteVerified
<1> HIDE DEF e, rs
<1>8. /\ route.recipient = task.author /\ route.relays = rs /\ route.provenance = "fresh"
      /\ route.required = Least(2, Cardinality(rs))
  BY <1>6, <1>7, RouteFacts, SMTT(20)
<1>9. from.there = TRUE /\ from.ev = e
  BY DEF Record
<1>10. Spawn(p, from)
  BY <1>3, <1>5
<1> HIDE DEF from
<1>11. Routed(p, from, now)
  BY <1>4, <1>5, <1>8, <1>9 DEF Routed, rs
<1> QED
  BY <1>4, <1>6, <1>8, <1>10, <1>11, SpawnStep

(***************************************************************************)
(* Deliveries.                                                             *)
(***************************************************************************)
LEMMA IdleElsewhere == Elsewhere(Idle)
BY DEF Elsewhere, Idle, Others

\* A delivery goes on with its plan.
LEMMA SameDelivery ==
    ASSUME NEW t, NEW u, Sending(t), DOMAIN u = DOMAIN t, u.op = t.op, u.plan = t.plan,
           u.from = t.from, u.at = t.at, DOMAIN u.link = DOMAIN t.link, u.auth \subseteq t.plan.relays
    PROVE  Elsewhere(u)
<1>1. Sending(u)
  BY DEF Sending
<1>2. "op" \in DOMAIN u /\ u.op = "deliver"
  BY DEF Sending, Delivery
<1> QED
  BY <1>1, <1>2 DEF Elsewhere, Others

\* What a session does is told by a notification, and an open one by its own.
LEMMA MoveFacts ==
    ASSUME NEW l, NEW m \in Moves(l)
    PROVE  m[2] # "none" /\ (m[2] = "authenticated" => m[1] = "open")
BY DEF Moves

\* A session that moves has its notification unread.
LEMMA MovedInStep ==
    ASSUME NEW t, NEW u, InStep(t), NEW r \in t.relays, NEW l, NEW n,
           n # "none", n = "authenticated" => l = "open",
           u.relays = t.relays, u.auth = t.auth,
           u.link = [t.link EXCEPT ![r] = l], u.mail = [t.mail EXCEPT ![r] = n]
    PROVE  InStep(u)
<1>1. DOMAIN u.link = u.relays /\ DOMAIN u.mail = u.relays
  BY DEF InStep
<1>2. ASSUME NEW s \in u.relays, u.mail[s] = "authenticated" \/ (u.mail[s] = "none" /\ s \in u.auth)
      PROVE  u.link[s] = "open"
  <2>1. CASE s = r
    <3>1. u.mail[s] = n /\ u.link[s] = l
      BY <2>1 DEF InStep
    <3> QED
      BY <1>2, <3>1
  <2>2. CASE s # r
    <3>1. u.mail[s] = t.mail[s] /\ u.link[s] = t.link[s] /\ s \in t.relays
      BY <1>2, <2>2 DEF InStep
    <3> QED
      BY <1>2, <3>1 DEF InStep
  <2> QED
    BY <2>1, <2>2
<1> QED
  BY <1>1, <1>2 DEF InStep

\* A relay is counted when it is told to be authenticated, and only then.
LEMMA ReadInStep ==
    ASSUME NEW t, NEW u, InStep(t), NEW r \in t.relays,
           u.relays = t.relays, u.link = t.link, u.mail = [t.mail EXCEPT ![r] = "none"],
           \/ t.mail[r] = "authenticated" /\ u.auth = t.auth \cup {r}
           \/ u.auth = t.auth \ {r}
    PROVE  InStep(u)
<1>1. DOMAIN u.link = u.relays /\ DOMAIN u.mail = u.relays
  BY DEF InStep
<1>2. ASSUME NEW s \in u.relays, u.mail[s] = "authenticated" \/ (u.mail[s] = "none" /\ s \in u.auth)
      PROVE  u.link[s] = "open"
  <2>1. CASE s = r
    <3>1. u.mail[s] = "none"
      BY <2>1 DEF InStep
    <3>2. s \in u.auth
      BY <1>2, <3>1
    <3>3. t.mail[r] = "authenticated"
      BY <2>1, <3>2
    <3> QED
      BY <2>1, <3>3 DEF InStep
  <2>2. CASE s # r
    <3>1. u.mail[s] = t.mail[s] /\ s \in t.relays /\ (s \in u.auth => s \in t.auth)
      BY <1>2, <2>2 DEF InStep
    <3> QED
      BY <1>2, <3>1 DEF InStep
  <2> QED
    BY <2>1, <2>2
<1> QED
  BY <1>1, <1>2 DEF InStep

\* An inbox goes on with its window.
LEMMA SameInbox ==
    ASSUME NEW t, NEW u, Receiving(t), DOMAIN u = DOMAIN t, u.op = t.op, Window(u.order, u.log), InStep(u)
    PROVE  Elsewhere(u)
<1>1. Receiving(u) /\ "op" \in DOMAIN u /\ u.op = "inbox"
  BY DEF Receiving, Inbox
<1> QED
  BY <1>1 DEF Elsewhere, Others

\* A step of a delivery leaves a task that is in order.
LEMMA DeliveryStep ==
    ASSUME Elsewhere(task),
           \/ \E r \in DOMAIN Url, m \in MoveSet : LinkMoves(r, m)
           \/ \E r \in DOMAIN Url : ApplyNote(r)
           \/ \E took \in SUBSET DOMAIN Url : Publish(took)
    PROVE  Elsewhere(task')
<1>1. ASSUME NEW r \in DOMAIN Url, NEW m \in MoveSet, LinkMoves(r, m) PROVE Elsewhere(task')
  <2> DEFINE u == [task EXCEPT !.link[r] = m[1], !.mail[r] = m[2]]
  <2>1. task' = u /\ task.op \in {"deliver", "inbox"}
    BY <1>1 DEF LinkMoves
  <2>2. CASE task.op = "deliver"
    <3>1. Sending(task) /\ DOMAIN task = Delivery
      BY <2>2 DEF Elsewhere, Sending
    <3>2. /\ DOMAIN u = DOMAIN task /\ u.op = task.op /\ u.plan = task.plan
          /\ u.from = task.from /\ u.at = task.at /\ DOMAIN u.link = DOMAIN task.link
          /\ u.auth = task.auth
      BY <3>1 DEF Delivery
    <3>3. task.auth \subseteq task.plan.relays
      BY <3>1 DEF Sending
    <3> HIDE DEF u
    <3> QED
      BY <2>1, <3>1, <3>2, <3>3, SameDelivery
  <2>3. CASE task.op = "inbox"
    <3>1. Receiving(task) /\ DOMAIN task = Inbox /\ Window(task.order, task.log) /\ InStep(task)
      BY <2>3 DEF Elsewhere, Receiving
    <3>2. /\ DOMAIN u = DOMAIN task /\ u.op = task.op /\ u.order = task.order /\ u.log = task.log
          /\ u.relays = task.relays /\ u.auth = task.auth
          /\ u.link = [task.link EXCEPT ![r] = m[1]] /\ u.mail = [task.mail EXCEPT ![r] = m[2]]
      BY <3>1 DEF Inbox
    <3>3. r \in task.relays /\ m \in Moves(task.link[r])
      BY <1>1, <3>1 DEF LinkMoves, InStep
    <3>4. m[2] # "none" /\ (m[2] = "authenticated" => m[1] = "open")
      BY <3>3, MoveFacts
    <3> HIDE DEF u
    <3>5. InStep(u)
      BY <3>1, <3>2, <3>3, <3>4, MovedInStep
    <3> QED
      BY <2>1, <3>1, <3>2, <3>5, SameInbox
  <2> QED
    BY <2>1, <2>2, <2>3
<1>2. ASSUME NEW r \in DOMAIN Url, ApplyNote(r) PROVE Elsewhere(task')
  <2> DEFINE t == [task EXCEPT !.mail[r] = "none"]
  <2>1. Sending(task) /\ DOMAIN task = Delivery /\ r \in DOMAIN task.link
    BY <1>2 DEF ApplyNote, Awaited, Elsewhere, Sending
  <2>2. /\ DOMAIN t = DOMAIN task /\ t.op = task.op /\ t.plan = task.plan /\ t.from = task.from
        /\ t.at = task.at /\ t.link = task.link /\ t.auth = task.auth
    BY <2>1 DEF Delivery
  <2>3. \/ task' = t
        \/ task' = [t EXCEPT !.auth = @ \cup {r}] \/ task' = [t EXCEPT !.auth = @ \ {r}]
    BY <1>2 DEF ApplyNote
  <2> HIDE DEF t
  <2>4. r \in task.plan.relays /\ task.auth \subseteq task.plan.relays
    BY <2>1 DEF Sending
  <2>5. ASSUME NEW A, A \subseteq task.plan.relays PROVE Elsewhere([t EXCEPT !.auth = A])
    <3> DEFINE u == [t EXCEPT !.auth = A]
    <3>1. /\ DOMAIN u = DOMAIN task /\ u.op = task.op /\ u.plan = task.plan
          /\ u.from = task.from /\ u.at = task.at /\ u.link = task.link /\ u.auth = A
      BY <2>1, <2>2 DEF Delivery
    <3> HIDE DEF u
    <3>2. Elsewhere(u)
      BY <2>1, <2>5, <3>1, SameDelivery
    <3> QED
      BY <3>2 DEF u
  <2>6. /\ task.auth \cup {r} \subseteq task.plan.relays /\ task.auth \ {r} \subseteq task.plan.relays
        /\ task' \in {t, [t EXCEPT !.auth = task.auth \cup {r}], [t EXCEPT !.auth = task.auth \ {r}]}
    BY <2>2, <2>3, <2>4
  <2>7. Elsewhere(t)
    BY <2>1, <2>2, <2>4, SameDelivery
  <2> QED
    BY <2>5, <2>6, <2>7
<1>3. ASSUME NEW took \in SUBSET DOMAIN Url, Publish(took) PROVE Elsewhere(task')
  <2>1. Sending(task) /\ took \subseteq task.auth
    BY <1>3 DEF Publish, Elsewhere
  <2>2. took \subseteq task.plan.relays /\ IsFiniteSet(task.plan.relays) /\ Routed(task.plan, task.from, task.at)
        /\ task.plan.required = Least(2, Cardinality(task.plan.relays))
    BY <2>1 DEF Sending
  <2>3. Cardinality(took) \in Nat /\ Cardinality(task.plan.relays) \in Nat
    BY <2>2, FS_Subset, FS_CardinalityType
  <2>4. Least(2, Cardinality(task.plan.relays)) \in Nat
    BY <2>3 DEF Least
  <2>5. CASE task' # task
    <3>1. /\ task' = [op |-> "sent", plan |-> task.plan, from |-> task.from, at |-> task.at,
                      took |-> took, back |-> Idle]
          /\ ~(Cardinality(took) < task.plan.required)
      BY <1>3, <2>5 DEF Publish
    <3>2. /\ "op" \in DOMAIN task' /\ task'.op = "sent" /\ task'.plan = task.plan /\ task'.from = task.from
          /\ task'.at = task.at /\ task'.took = took /\ task'.back = Idle
      BY <3>1
    <3>3. Cardinality(took) >= Least(2, Cardinality(task.plan.relays))
      BY <2>2, <2>3, <2>4, <3>1
    <3>4. Sent(task')
      BY <2>2, <3>2, <3>3 DEF Sent
    <3> QED
      BY <3>2, <3>4 DEF Elsewhere, Others
  <2> QED
    BY <2>5
<1> QED
  BY <1>1, <1>2, <1>3

(***************************************************************************)
(* The inbox.                                                              *)
(***************************************************************************)
\* What is decrypted is the body of the payload, under the key of both ends.
LEMMA DecryptFacts ==
    ASSUME NEW s, NEW p, NEW c, NEW x \in Decrypt(s, p, c)
    PROVE  x.body = c.body /\ c.key = {s, p}
<1>1. c.key = {s, p} /\ \E n : x = Text(n, c.body)
  BY DEF Decrypt
<1> QED
  BY <1>1 DEF Text

\* A gift wrap that opens holds what its author wrote.
LEMMA OpenedSaid ==
    ASSUME NEW w \in Wraps, NEW at, NEW o \in OpenGiftWrap(w, Me, at)
    PROVE  o.rumor \in Said
<1> DEFINE seals == {x.body : x \in Decrypt(Me, w.pubkey, w.content)}
           rumors(s) == {x \in Decrypt(Me, s.pubkey, s.content) : x.len <= MaxSerialized}
<1>1. PICK s \in seals : /\ Verify(s, at)
                         /\ \E x \in rumors(s) : x.body.pubkey = s.pubkey /\ o = [seal |-> s, rumor |-> x.body]
  BY DEF OpenGiftWrap
<1>2. PICK x \in rumors(s) : x.body.pubkey = s.pubkey /\ o = [seal |-> s, rumor |-> x.body]
  BY <1>1
<1>3. s = w.content.body
  BY DecryptFacts, SMTT(20)
<1>4. x.body = s.content.body /\ s.content.key = {Me, s.pubkey}
  BY DecryptFacts, SMTT(20)
<1>5. s.id = Fields(s) /\ s.sig = [by |-> s.pubkey, of |-> s.id]
  BY <1>1 DEF Verify
<1>6. s.content.body.pubkey = s.pubkey
  BY <1>2, <1>4
<1>7. s.content.body \in Said
  BY <1>3, <1>4, <1>5, <1>6, SaidAssumption
<1> QED
  BY <1>2, <1>4, <1>7

\* An inbox starts with an empty window.
LEMMA EmptyWindow == Window(<<>>, <<>>)
<1>1. <<>> \in Seq(Stamp) /\ <<>> \in Seq(Logged) /\ DOMAIN <<>> = {}
  OBVIOUS
<1> QED
  BY <1>1 DEF Window

\* A gift wrap takes its place in the window and in the log.
LEMMA ReceiveStep ==
    ASSUME now \in Nat, Receiving(task), NEW w \in Wraps, NEW r \in task.auth, r \in task.relays,
           task.mail[r] = "none", NEW u \in Receive(task, r, w)
    PROVE  Elsewhere(u)
<1> DEFINE m == Remember(task.order, w.id)
           entry(o) == [id |-> w.id, at |-> now, rumor |-> o.rumor, session |-> task.link[r],
                        result |-> IF ~m.fresh THEN "duplicate"
                                   ELSE IF o.rumor.pubkey \in task.blocked THEN "blocked" ELSE "message"]
<1>1. PICK o \in OpenGiftWrap(w, Me, now) : u = [task EXCEPT !.order = m.order, !.log = Append(@, entry(o))]
  BY DEF Receive
<1> DEFINE e == entry(o)
<1>2. o.rumor \in Said
  BY OpenedSaid
<1>3. e.id = w.id /\ e.at = now /\ (m.fresh <=> e.result # "duplicate")
  OBVIOUS
<1>4. DOMAIN task = Inbox /\ task.op = "inbox" /\ Window(task.order, task.log) /\ InStep(task)
  BY DEF Receiving
<1>5. e \in Logged
  <2>1. task.link[r] = "open"
    BY <1>4 DEF InStep
  <2> QED
    BY <1>2, <2>1 DEF Logged
<1>6. /\ DOMAIN u = DOMAIN task /\ u.op = task.op /\ u.order = m.order /\ u.log = Append(task.log, e)
      /\ u.relays = task.relays /\ u.link = task.link /\ u.mail = task.mail /\ u.auth = task.auth
  BY <1>1, <1>4 DEF Inbox
<1> HIDE DEF e
<1>7. Window(Remember(task.order, e.id).order, Append(task.log, e))
  BY <1>3, <1>5, <1>4, WindowStep
<1>8. Window(u.order, u.log)
  BY <1>3, <1>6, <1>7
<1>9. InStep(u)
  BY <1>4, <1>6 DEF InStep
<1> QED
  BY <1>6, <1>8, <1>9, SameInbox

\* A step of the inbox leaves a task that is in order.
LEMMA InboxStep ==
    ASSUME IInv,
           \/ InboxReady
           \/ \E rs \in {Pool, {CHOOSE r \in Pool : TRUE}} : ConnectInbox(rs)
           \/ \E r \in Pool : ReadNote(r)
           \/ \E authors \in SUBSET Blockable : SetBlocked(authors)
           \/ \E r \in Pool, w \in Wraps : WrapArrives(r, w)
           \/ \E q, to \in Authors, took \in SUBSET Pool : InboxPublish(q, to, took)
    PROVE  Elsewhere(task')
<1>0. /\ now \in Nat
      /\ task.op = "inbox" => Receiving(task) /\ DOMAIN task = Inbox /\ Window(task.order, task.log) /\ InStep(task)
  BY DEF IInv, Elsewhere, Found, Receiving
<1>1. CASE InboxReady
  <2>1. task.op = "inbox" /\ task' = [task EXCEPT !.phase = "run"]
    BY <1>1 DEF InboxReady
  <2>2. /\ DOMAIN task' = DOMAIN task /\ task'.op = task.op /\ task'.order = task.order /\ task'.log = task.log
        /\ task'.relays = task.relays /\ task'.link = task.link /\ task'.mail = task.mail
        /\ task'.auth = task.auth
    BY <1>0, <2>1 DEF Inbox
  <2>3. InStep(task')
    BY <1>0, <2>1, <2>2 DEF InStep
  <2> QED
    BY <1>0, <2>1, <2>2, <2>3, SameInbox
<1>2. ASSUME NEW rs, ConnectInbox(rs) PROVE Elsewhere(task')
  <2>1. DOMAIN task' = Inbox /\ task'.op = "inbox" /\ task'.order = <<>> /\ task'.log = <<>>
    BY <1>2 DEF ConnectInbox, Inbox
  <2>3. /\ task'.relays = rs /\ task'.link = [r \in rs |-> "down"] /\ task'.mail = [r \in rs |-> "none"]
        /\ task'.auth = {}
    BY <1>2 DEF ConnectInbox
  <2>4. InStep(task')
    BY <2>3 DEF InStep
  <2>2. Receiving(task')
    BY <2>1, <2>4, EmptyWindow DEF Receiving
  <2> QED
    BY <2>1, <2>2 DEF Elsewhere, Others, Inbox
<1>3. ASSUME NEW r \in Pool, ReadNote(r) PROVE Elsewhere(task')
  <2> DEFINE t == [task EXCEPT !.mail[r] = "none"]
  <2>1. task.op = "inbox"
    BY <1>3 DEF ReadNote
  <2>2. /\ DOMAIN t = Inbox /\ t.op = "inbox" /\ t.order = task.order /\ t.log = task.log
        /\ t.relays = task.relays /\ t.link = task.link /\ t.auth = task.auth
        /\ t.mail = [task.mail EXCEPT ![r] = "none"]
    BY <1>0, <2>1 DEF Inbox
  <2>3. \/ task' = Idle
        \/ task' = [t EXCEPT !.auth = @ \cup {r}] /\ task.mail[r] = "authenticated"
        \/ task' = [t EXCEPT !.auth = @ \ {r}]
    BY <1>3 DEF ReadNote
  <2>4. r \in task.relays
    BY <1>3 DEF ReadNote
  <2> HIDE DEF t
  <2>5. CASE task' # Idle
    <3>1. PICK A : /\ task' = [t EXCEPT !.auth = A]
                   /\ \/ task.mail[r] = "authenticated" /\ A = task.auth \cup {r}
                      \/ A = task.auth \ {r}
      BY <2>2, <2>3, <2>5
    <3>2. /\ DOMAIN task' = Inbox /\ task'.op = "inbox" /\ task'.order = task.order /\ task'.log = task.log
          /\ task'.relays = t.relays /\ task'.link = t.link /\ task'.mail = t.mail /\ task'.auth = A
      BY <2>2, <3>1 DEF Inbox
    <3>3. InStep(task')
      BY <1>0, <2>1, <2>2, <2>4, <3>1, <3>2, ReadInStep
    <3> QED
      BY <1>0, <2>1, <3>2, <3>3, SameInbox
  <2> QED
    BY <2>5, IdleElsewhere
<1>4. ASSUME NEW authors, SetBlocked(authors) PROVE Elsewhere(task')
  <2>1. task.op = "inbox" /\ task' = [task EXCEPT !.blocked = authors]
    BY <1>4 DEF SetBlocked, Running
  <2>2. /\ DOMAIN task' = DOMAIN task /\ task'.op = task.op /\ task'.order = task.order /\ task'.log = task.log
        /\ task'.relays = task.relays /\ task'.link = task.link /\ task'.mail = task.mail
        /\ task'.auth = task.auth
    BY <1>0, <2>1 DEF Inbox
  <2>3. InStep(task')
    BY <1>0, <2>1, <2>2 DEF InStep
  <2> QED
    BY <1>0, <2>1, <2>2, <2>3, SameInbox
<1>5. ASSUME NEW r \in Pool, NEW w \in Wraps, WrapArrives(r, w) PROVE Elsewhere(task')
  <2> DEFINE t == [task EXCEPT !.link[r] = "down", !.mail[r] = "disconnected"]
  <2>1. task.op = "inbox"
    BY <1>5 DEF WrapArrives, Running
  <2>2. /\ DOMAIN t = DOMAIN task /\ t.op = task.op /\ t.order = task.order /\ t.log = task.log
        /\ t.relays = task.relays /\ t.auth = task.auth
        /\ t.link = [task.link EXCEPT ![r] = "down"] /\ t.mail = [task.mail EXCEPT ![r] = "disconnected"]
    BY <1>0, <2>1 DEF Inbox
  <2>3. r \in task.relays /\ task.mail[r] = "none"
    BY <1>5 DEF WrapArrives
  <2>4. task' = task \/ task' = t \/ (r \in task.auth /\ task' \in Receive(task, r, w))
    BY <1>5 DEF WrapArrives
  <2> HIDE DEF t
  <2>5. InStep(t)
    BY <1>0, <2>1, <2>2, <2>3, MovedInStep
  <2>6. Elsewhere(t) /\ Elsewhere(task)
    BY <1>0, <2>1, <2>2, <2>5, SameInbox
  <2>7. CASE r \in task.auth /\ task' \in Receive(task, r, w)
    BY <1>0, <2>1, <2>3, <2>7, ReceiveStep
  <2> QED
    BY <2>4, <2>6, <2>7
<1>6. ASSUME NEW q, NEW to, NEW took, InboxPublish(q, to, took) PROVE Elsewhere(task')
  <2>1. task.op = "inbox" /\ took \subseteq task.relays
    BY <1>6 DEF InboxPublish, Running
  <2>2. PICK w \in Outgoing(q) :
            /\ \E i \in PTags(w) : w.tags[i] = <<"p", to>>
            /\ task' = [op |-> "sent", at |-> now, took |-> took, from |-> NoRecord, back |-> task,
                        plan |-> [ev |-> w, recipient |-> to, relays |-> task.relays,
                                  provenance |-> "inbox", required |-> 1]]
    BY <1>6 DEF InboxPublish
  <2>3. w.tags = <<<<"p", to>>>>
    BY <2>2, TagsOf
  <2>4. /\ "op" \in DOMAIN task' /\ task'.op = "sent" /\ task'.took = took /\ task'.back = task
        /\ task'.from.there = FALSE /\ task'.plan.ev = w /\ task'.plan.recipient = to
        /\ task'.plan.relays = task.relays /\ task'.plan.provenance = "inbox"
    BY <2>2 DEF NoRecord
  <2>5. Routed(task'.plan, task'.from, task'.at)
    BY <2>3, <2>4 DEF Routed
  <2>6. Sent(task')
    BY <1>0, <2>1, <2>4, <2>5 DEF Sent
  <2> QED
    BY <2>4, <2>6 DEF Elsewhere, Others
<1> QED
  BY <1>1, <1>2, <1>3, <1>4, <1>5, <1>6

(***************************************************************************)
(* Every step.                                                             *)
(***************************************************************************)
\* The client ends what it was doing.
LEMMA ClientStep ==
    ASSUME IInv, TaskFails \/ Dismiss \/ StoreFound \/ Restart
    PROVE  Elsewhere(task')
<1>1. CASE task' = Idle
  BY <1>1, IdleElsewhere
<1>2. CASE task' # Idle
  <2>1. task.op = "sent" /\ task' = task.back
    BY <1>2 DEF TaskFails, Fail, Dismiss, StoreFound, Restart
  <2>2. Sent(task)
    BY <2>1 DEF IInv, Elsewhere, Found
  <2>3. Receiving(task')
    BY <1>2, <2>1, <2>2 DEF Sent
  <2> QED
    BY <2>3 DEF Elsewhere, Receiving, Others, Inbox
<1> QED
  BY <1>1, <1>2

\* What a search found is of its author.
LEMMA FoundFacts ==
    ASSUME IInv, StoreFound
    PROVE  /\ task.ev.created_at \in Nat /\ task.author \in Authors
           /\ kind = "relays" => task.ev.pubkey \in Authors
<1>1. Found(task, kind) /\ FindsNewest /\ task.op = "found" /\ kind \in Kinds
  BY DEF IInv, StoreFound, Elsewhere, Others
<1>2. task.author \in Authors /\ task.ev \in Served[kind][task.author]
  BY <1>1 DEF Found
<1>3. task.ev.created_at \in Nat
  BY <1>1, <1>2, ServedAssumption
<1>4. Acceptable(task.ev, task.author, kind, task.at)
  BY <1>1 DEF FindsNewest
<1>5. kind = "relays" => task.ev.pubkey = task.author
  BY <1>4 DEF Acceptable, AcceptsList
<1> QED
  BY <1>2, <1>3, <1>5

Quiet == UNCHANGED <<now, kind, cache>>

\* Every other step leaves the clock, the kind and the cache alone.
LEMMA NextQuiet ==
    ASSUME Next
    PROVE  StoreFound \/ Restart \/ (\E t \in 0..MaxTime : ClockMoves(t)) \/ Quiet
<1>1. TaskFails \/ Dismiss \/ EndDiscovery => Quiet
  BY DEF TaskFails, Fail, Dismiss, EndDiscovery, Quiet
<1>2. InboxReady \/ Resolving => Quiet
  BY DEF InboxReady, Resolving, Quiet
<1>3. ASSUME NEW a, NEW rs, NEW policy, NEW min PROVE StartDiscovery(a, rs, policy, min) => Quiet
  BY DEF StartDiscovery, Quiet
<1>4. ASSUME NEW rs PROVE Subscribe(rs) \/ ConnectInbox(rs) \/ SetBlocked(rs) \/ Publish(rs) => Quiet
  BY DEF Subscribe, ConnectInbox, SetBlocked, Publish, Quiet
<1>5. ASSUME NEW r, NEW m PROVE AwaitReadiness(r, m) \/ LinkMoves(r, m) => Quiet
  BY DEF AwaitReadiness, LinkMoves, Quiet
<1>6. ASSUME NEW r PROVE Settles(r) \/ EndOfStored(r) \/ ReadNote(r) \/ ApplyNote(r) => Quiet
  BY DEF Settles, EndOfStored, ReadNote, ApplyNote, Quiet
<1>7. ASSUME NEW r, NEW a, NEW e PROVE EventArrives(r, a, e) => Quiet
  BY DEF EventArrives, Quiet
<1>8. ASSUME NEW a, NEW q, NEW policy PROVE StartDelivery(a, q, policy) => Quiet
  BY DEF StartDelivery, Spawn, Quiet
<1>9. ASSUME NEW q PROVE StartDirect(q) => Quiet
  BY DEF StartDirect, Spawn, Quiet
<1>10. ASSUME NEW r, NEW w PROVE WrapArrives(r, w) => Quiet
  BY DEF WrapArrives, Quiet
<1>11. ASSUME NEW q, NEW to, NEW took PROVE InboxPublish(q, to, took) => Quiet
  BY DEF InboxPublish, Quiet
<1>12. LibraryNext \/ Resolving
  BY DEF Next
<1> QED
  BY <1>1, <1>2, <1>3, <1>4, <1>5, <1>6, <1>7, <1>8, <1>9, <1>10, <1>11, <1>12 DEF LibraryNext

\* Only StoreFound and Restart write the cache.
LEMMA CacheStep ==
    ASSUME IInv, [Next]_vars
    PROVE  /\ kind' = kind /\ now' \in Nat
           /\ CacheOk(cache', kind)
           /\ \/ Forward(cache, cache', kind)
              \/ cache' = EmptyCache /\ \E b \in Cached(cache) : cache[b].verified_at > now
<1>0. kind \in Kinds /\ now \in Nat /\ CacheOk(cache, kind)
  BY DEF IInv
<1>1. CASE StoreFound
  BY <1>0, <1>1, FoundFacts, StoreStep DEF StoreFound
<1>2. CASE Restart
  <2>1. cache' = cache \/ (cache' = EmptyCache /\ \E b \in Cached(cache) : cache[b].verified_at > now)
    BY <1>0, <1>2, RestartStep
  <2>2. CacheOk(cache', kind)
    BY <1>0, <2>1, EmptyOk
  <2> QED
    BY <1>0, <1>2, <2>1, <2>2, SameForward DEF Restart
<1>3. ASSUME NEW t \in 0..MaxTime, ClockMoves(t) PROVE cache' = cache /\ kind' = kind /\ now' \in Nat
  BY <1>3, BoundAssumption DEF ClockMoves
<1>4. CASE UNCHANGED vars
  BY <1>0, <1>4, SameForward DEF vars
<1>5. CASE Quiet
  BY <1>0, <1>5, SameForward DEF Quiet
<1>6. Next => StoreFound \/ Restart \/ (\E t \in 0..MaxTime : ClockMoves(t)) \/ Quiet
  BY NextQuiet
<1> QED
  BY <1>0, <1>1, <1>2, <1>3, <1>4, <1>5, <1>6, SameForward

\* A step that leaves no search, and another task in order, keeps the invariant.
LEMMA ElsewhereHolds ==
    ASSUME IInv, [Next]_vars, Elsewhere(task')
    PROVE  IInv'
<1>1. kind' \in Kinds /\ now' \in Nat /\ CacheOk(cache', kind')
  BY CacheStep DEF IInv
<1> QED
  BY <1>1 DEF IInv

\* A step that ends in a search that is sound keeps the invariant.
LEMMA SearchHolds ==
    ASSUME IInv, [Next]_vars, now' = now, task'.op = "discover", Sound(task', kind, now)
    PROVE  IInv'
<1>1. kind' \in Kinds /\ now' \in Nat /\ CacheOk(cache', kind') /\ kind' = kind
  BY CacheStep DEF IInv
<1>2. Sound(task', kind', now')
  BY <1>1
<1> QED
  BY <1>1, <1>2 DEF IInv

\* A step that ends in the newest event found keeps the invariant.
LEMMA FoundHolds ==
    ASSUME IInv, [Next]_vars, Found(task', kind), FindsNewest'
    PROVE  IInv'
<1>1. kind' \in Kinds /\ now' \in Nat /\ CacheOk(cache', kind') /\ kind' = kind
  BY CacheStep DEF IInv
<1>2. Found(task', kind')
  BY <1>1
<1> QED
  BY <1>1, <1>2 DEF IInv

\* A clock that moves, or a step of something else, leaves a result alone.
LEMMA SameTask ==
    ASSUME IInv, [Next]_vars, task' = task, task.op = "discover" => now' = now
    PROVE  IInv'
<1>1. kind' = kind /\ kind \in Kinds
  BY CacheStep DEF IInv
<1>2. CASE Elsewhere(task)
  BY <1>2, ElsewhereHolds
<1>3. CASE task.op = "discover" /\ Sound(task, kind, now)
  BY <1>3, SearchHolds
<1>4. CASE Found(task, kind) /\ FindsNewest
  <2>1. FindsNewest'
    BY <1>1, <1>4 DEF FindsNewest
  <2> QED
    BY <1>4, <2>1, FoundHolds
<1> QED
  BY <1>2, <1>3, <1>4 DEF IInv

\* A step of a search happens while there is one.
LEMMA Searching ==
    ASSUME IInv, task.op = "discover"
    PROVE  Sound(task, kind, now) /\ kind \in Kinds
BY DEF IInv, Elsewhere, Others, Found

\* Every step keeps the inductive invariant.
LEMMA Step == ASSUME IInv, [Next]_vars PROVE IInv'
<1>1. CASE UNCHANGED vars
  <2>1. task' = task /\ now' = now
    BY <1>1 DEF vars
  <2> QED
    BY <2>1, SameTask
<1>2. CASE TaskFails \/ Dismiss \/ StoreFound \/ Restart
  <2>1. Elsewhere(task')
    BY <1>2, ClientStep
  <2> QED
    BY <2>1, ElsewhereHolds
<1>3. CASE EndDiscovery
  <2>1. task.op = "discover"
    BY <1>3 DEF EndDiscovery, Discovering
  <2>2. task' = Idle \/ (Found(task', kind) /\ FindsNewest')
    BY <1>3, <2>1, Searching, EndStep
  <2>3. CASE task' = Idle
    BY <2>3, IdleElsewhere, ElsewhereHolds
  <2>4. CASE Found(task', kind) /\ FindsNewest'
    BY <2>4, FoundHolds
  <2> QED
    BY <2>2, <2>3, <2>4
<1>4. ASSUME NEW t \in 0..MaxTime, ClockMoves(t) PROVE IInv'
  <2>1. task' = task /\ task.op # "discover"
    BY <1>4 DEF ClockMoves
  <2> QED
    BY <2>1, SameTask
<1>5. ASSUME NEW a \in Authors, NEW rs, NEW policy, NEW min, StartDiscovery(a, rs, policy, min)
      PROVE  IInv'
  <2>1. now' = now
    BY <1>5 DEF StartDiscovery
  <2>2. task'.op = "discover" /\ Sound(task', kind, now)
    BY <1>5, StartStep
  <2> QED
    BY <2>1, <2>2, SearchHolds
<1>6. CASE \/ \E r \in Pool, m \in MoveSet : AwaitReadiness(r, m)
           \/ \E r \in Pool : Settles(r) \/ EndOfStored(r)
           \/ \E rs \in SUBSET Pool : Subscribe(rs)
  <2>1. now' = now /\ task.op = "discover"
    BY <1>6 DEF AwaitReadiness, Settles, EndOfStored, Subscribe, Discovering
  <2>2. task' = Idle \/ (task'.op = "discover" /\ Sound(task', kind, now))
    BY <1>6, <2>1, Searching, SessionStep
  <2>3. CASE task' = Idle
    BY <2>3, IdleElsewhere, ElsewhereHolds
  <2>4. CASE task'.op = "discover" /\ Sound(task', kind, now)
    BY <2>1, <2>4, SearchHolds
  <2> QED
    BY <2>2, <2>3, <2>4
<1>7. ASSUME NEW r \in Pool, NEW a \in Authors, NEW e \in Served[kind][a], EventArrives(r, a, e)
      PROVE  IInv'
  <2>1. now' = now /\ task.op = "discover"
    BY <1>7 DEF EventArrives, Discovering
  <2>2. task'.op = "discover" /\ Sound(task', kind, now)
    BY <1>7, <2>1, Searching, ArrivalStep
  <2> QED
    BY <2>1, <2>2, SearchHolds
<1>8. ASSUME NEW a \in Authors, NEW q \in Authors, NEW policy, StartDelivery(a, q, policy) PROVE IInv'
  <2>1. Elsewhere(task')
    BY <1>8, CachedDelivery
  <2> QED
    BY <2>1, ElsewhereHolds
<1>9. ASSUME NEW q \in Authors, StartDirect(q) PROVE IInv'
  <2>1. Elsewhere(task')
    BY <1>9, DirectDelivery
  <2> QED
    BY <2>1, ElsewhereHolds
<1>10. CASE \/ \E r \in DOMAIN Url, m \in MoveSet : LinkMoves(r, m)
            \/ \E r \in DOMAIN Url : ApplyNote(r)
            \/ \E took \in SUBSET DOMAIN Url : Publish(took)
  <2>1. task.op \in {"deliver", "inbox"}
    BY <1>10 DEF LinkMoves, ApplyNote, Awaited, Publish
  <2>2. Elsewhere(task)
    BY <2>1 DEF IInv, Found
  <2>3. Elsewhere(task')
    BY <1>10, <2>2, DeliveryStep
  <2> QED
    BY <2>3, ElsewhereHolds
<1>11. CASE \/ InboxReady
            \/ \E rs \in {Pool, {CHOOSE r \in Pool : TRUE}} : ConnectInbox(rs)
            \/ \E r \in Pool : ReadNote(r)
            \/ \E authors \in SUBSET Blockable : SetBlocked(authors)
            \/ \E r \in Pool, w \in Wraps : WrapArrives(r, w)
            \/ \E q, to \in Authors, took \in SUBSET Pool : InboxPublish(q, to, took)
  <2>1. Elsewhere(task')
    BY <1>11, InboxStep
  <2> QED
    BY <2>1, ElsewhereHolds
<1>12. CASE Resolving
  <2>1. task' = task /\ now' = now
    BY <1>12 DEF Resolving
  <2> QED
    BY <2>1, SameTask
<1>13. LibraryNext \/ Resolving \/ UNCHANGED vars
  BY DEF Next
<1> QED
  BY <1>1, <1>2, <1>3, <1>4, <1>5, <1>6, <1>7, <1>8, <1>9, <1>10, <1>11, <1>12, <1>13 DEF LibraryNext

(***************************************************************************)
(* The theorems.                                                           *)
(***************************************************************************)
\* The inductive invariant of the library: the cache holds what verified for
\* its author; the best event of a search beats every one it considered; a
\* plan is the route of its recipient's record; the window of the inbox holds
\* each entry until it expires or is displaced; and a relay the inbox counts as
\* authenticated is so, or has told otherwise.
THEOREM Invariance == Spec => []IInv
<1>1. Init => IInv
  <2> SUFFICES ASSUME Init PROVE IInv
    OBVIOUS
  <2>1. kind \in Kinds /\ now \in Nat /\ cache = EmptyCache /\ task = Idle
    BY BoundAssumption DEF Init
  <2> QED
    BY <2>1, IdleElsewhere, EmptyOk DEF IInv
<1>2. IInv /\ [Next]_vars => IInv'
  BY Step
<1> QED
  BY <1>1, <1>2, PTL DEF Spec

\* Whatever the order of arrival, the copies and the relays, a discovery
\* returns the event its tie rule prefers (replaceable_discovery.rs and
\* dm_relay_discovery.rs).
THEOREM FindsNewestHolds == Spec => []FindsNewest
<1>1. IInv => FindsNewest
  BY DEF IInv, FindsNewest, Elsewhere, Others
<1> QED
  BY <1>1, Invariance, PTL

\* However the sessions move, a message goes to the relays of its recipient's
\* own list, and counts as delivered when as many as the plan requires took it
\* (dm_relay_routing.rs, dm_routed_publish.rs, dm_delivery.rs).
THEOREM DeliveredToInboxHolds == Spec => []DeliveredToInbox
<1>1. IInv => DeliveredToInbox
  <2> SUFFICES ASSUME IInv, task.op \in {"deliver", "sent"} PROVE DeliveredToInbox
    BY DEF DeliveredToInbox
  <2>1. Elsewhere(task)
    BY DEF IInv, Found
  <2>2. Routed(task.plan, task.from, task.at)
    BY <2>1 DEF Elsewhere, Sending, Sent
  <2>3. task.op = "sent" =>
            /\ task.took \subseteq task.plan.relays
            /\ task.plan.provenance # "inbox" => Cardinality(task.took) >= Least(2, Cardinality(task.plan.relays))
    BY <2>1 DEF Elsewhere, Sent
  <2> QED
    BY <2>2, <2>3 DEF DeliveredToInbox, Routed, Listed
<1> QED
  BY <1>1, Invariance, PTL

\* In every order of gift wraps, with a clock that may be set back, the inbox
\* hands over what its author wrote and a relay sent in an open session, and a
\* gift wrap again only when it expired or was displaced (dm_inbox_runtime.rs,
\* dm_inbox.rs, gift_wrap.rs).
THEOREM InboxAuthenticOnceHolds == Spec => []InboxAuthenticOnce
<1>1. IInv => InboxAuthenticOnce
  <2> SUFFICES ASSUME IInv, task.op = "inbox" PROVE InboxAuthenticOnce
    BY DEF InboxAuthenticOnce
  <2> DEFINE log == task.log
  <2>1. Receiving(task)
    BY DEF IInv, Found, Elsewhere
  <2>2. Window(task.order, log)
    BY <2>1 DEF Receiving
  <2>3. ASSUME NEW i \in DOMAIN log PROVE log[i].rumor \in Said /\ log[i].session = "open"
    <3>1. log \in Seq(Logged)
      BY <2>2 DEF Window
    <3>2. log[i] \in Logged
      BY ONLY <2>3, <3>1, SMTT(20)
    <3> QED
      BY ONLY <3>2, SMTT(20) DEF Logged
  <2>4. ASSUME NEW i \in DOMAIN log, NEW j \in DOMAIN log, i < j, News(log, i), News(log, j),
               log[i].id = log[j].id
        PROVE  Expired(log, i, j) \/ Displaced(log, i, j - 1)
    BY <2>2, <2>4 DEF Window
  <2> QED
    BY <2>3, <2>4 DEF InboxAuthenticOnce, News, Expired, Displaced, Later
<1> QED
  BY <1>1, Invariance, PTL

\* No step replaces a cached record by an older one or loses it, except a
\* restart with a clock behind the time of a verification (the three insert
\* and from_json).
THEOREM CacheForwardHolds == Spec => CacheForward
<1> DEFINE A == \A a \in Cached(cache) :
                   IF cache'[a].there
                   THEN \/ cache'[a].ev.created_at > cache[a].ev.created_at
                        \/ cache'[a] = cache[a]
                        \/ /\ kind = "relays" /\ cache'[a].ev.created_at = cache[a].ev.created_at
                           /\ IdBefore(cache'[a].ev.id, cache[a].ev.id)
                   ELSE \E b \in Cached(cache) : cache[b].verified_at > now
<1>1. IInv /\ [Next]_vars => [A]_vars
  <2> SUFFICES ASSUME IInv, [Next]_vars PROVE A
    OBVIOUS
  <2>1. \/ Forward(cache, cache', kind)
        \/ cache' = EmptyCache /\ \E b \in Cached(cache) : cache[b].verified_at > now
    BY CacheStep
  <2>2. CASE Forward(cache, cache', kind)
    BY <2>2 DEF Forward
  <2>3. CASE cache' = EmptyCache /\ \E b \in Cached(cache) : cache[b].verified_at > now
    <3>1. \A a \in Cached(cache) : cache'[a].there = FALSE
      BY <2>3 DEF EmptyCache, NoRecord, Cached
    <3> QED
      BY <2>3, <3>1
  <2> QED
    BY <2>1, <2>2, <2>3
<1>2. Spec => [][A]_vars
  BY <1>1, Invariance, PTL DEF Spec
<1> QED
  BY <1>2 DEF CacheForward

\* What the client does beside it never disturbs a fetch: the library contains
\* the resolution of a handle as HttpFetch specifies it (nip05.rs).
THEOREM FetchContained == Spec => FetchSpec
<1>1. Init => FetchInit
  BY DEF Init
<1>2. [Next]_vars => [FetchNext]_fetch
  BY DEF Next, Resolving, vars
<1> QED
  BY <1>1, <1>2, PTL DEF Spec, FetchSpec

=============================================================================
