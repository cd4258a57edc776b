----------------------------- MODULE RelayLists ------------------------------
(***************************************************************************)
(* Replaceable events of a participant and what the client library does    *)
(* with them: making and reading relay lists and profiles, the caches of   *)
(* verified ones, and the routes and plans for a direct message            *)
(* (omachat-nostr/src/discovery.rs, inbox.rs, relay_list.rs,               *)
(* dm_relay_list.rs, profile_metadata.rs, profile_verification.rs, the     *)
(* three caches, dm_relay_routing.rs and dm_routed_publish.rs).            *)
(*                                                                         *)
(* Results are sets as in NostrEvent.  A list of relays is the set of its  *)
(* endpoints: the code sorts it, or uses it in an order nothing observes.  *)
(***************************************************************************)
EXTENDS NostrEvent, FiniteSetsExt

CONSTANTS
    Authors,          \* participants whose events are looked up
    MaxDmRelays,      \* MAX_DM_RELAYS_PER_RECIPIENT, and DmInboxPolicy::max_relays
    MaxListRelays,    \* RelayDiscoveryLimits::max_relays
    MaxAge,           \* DmInboxPolicy::maximum_age_seconds
    Freshness,        \* DmRelayRoutingPolicy::freshness_window_seconds
    MaxRecords,       \* MAX_CACHED_DM_RECIPIENTS and its two counterparts
    MaxCacheBytes,    \* MAX_SERIALIZED_CACHE_BYTES and its two counterparts
    TagBytes,         \* bytes of one tag in a serialized cache
    IdBefore(_, _)    \* the order of event ids

ASSUME ListAssumption ==
    /\ \A n \in {MaxDmRelays, MaxListRelays, MaxRecords} : n \in Nat \ {0}
    /\ \A n \in {MaxAge, Freshness, MaxCacheBytes, TagBytes} : n \in Nat

Kinds == {"dm_relays", "relays", "profile"}

Repeated(s) == \E i, j \in DOMAIN s : i # j /\ s[i] = s[j]

(***************************************************************************)
(* Endpoints.                                                              *)
(***************************************************************************)
\* The check the inbox, the cache and the bootstrap route share.  The host of
\* an IPv6 URL is bracketed and does not parse as an address.
SecureOrLoopback(u) == Url[u].scheme = "wss" \/ (Url[u].scheme = "ws" /\ Url[u].host = "v4loopback")

Endpoint(u) == u \in DOMAIN Url /\ SecureOrLoopback(u) /\ ~Url[u].user /\ ~Url[u].fragment

(***************************************************************************)
(* Making the events.                                                      *)
(***************************************************************************)
\* create_dm_relay_list: wss only, distinct once canonical, sorted (the order
\* of the strings is any one order of the set).
CreateDmRelayList(secret, at, urls) ==
    LET usable(u) == u \in DOMAIN Url /\ Url[u].scheme = "wss" /\ ~Url[u].user /\ ~Url[u].fragment
        canon == [i \in DOMAIN urls |-> Url[urls[i]].canon]
        sorted == CHOOSE s \in [DOMAIN urls -> Range(canon)] : Range(s) = Range(canon)
    IN IF \/ Len(urls) \notin 1..MaxDmRelays
          \/ \E u \in Range(urls) : ~usable(u)
          \/ Repeated(canon)
       THEN {}
       ELSE Sign(secret, Unsigned(secret, at, "dm_relays",
                                  [i \in DOMAIN urls |-> <<"relay", sorted[i]>>], NoText))

\* create_nip65_relay_list for preferences [url, read, write]: equal endpoints
\* are merged.
CreateNip65(secret, at, prefs) ==
    LET usable(u) ==
            /\ u \in DOMAIN Url
            /\ Url[u].scheme = "wss" \/ (Url[u].scheme = "ws" /\ Url[u].host # "name")
            /\ ~Url[u].user /\ ~Url[u].query /\ ~Url[u].fragment
        of(u) == {p \in Range(prefs) : Url[p.url].canon = u}
        read(u) == \E p \in of(u) : p.read
        write(u) == \E p \in of(u) : p.write
        tag(u) == IF read(u) /\ write(u) THEN <<"r", u>>
                  ELSE <<"r", u, IF read(u) THEN "read" ELSE "write">>
        urls == {Url[p.url].canon : p \in Range(prefs)}
        order == CHOOSE s \in [1..Cardinality(urls) -> urls] : Range(s) = urls
    IN IF \/ Len(prefs) \notin 1..MaxListRelays
          \/ \E p \in Range(prefs) : ~(p.read \/ p.write) \/ ~usable(p.url)
       THEN {}
       ELSE Sign(secret, Unsigned(secret, at, "relays",
                                  [i \in DOMAIN order |-> tag(order[i])], NoText))

\* A profile's fields are absent, usable, or not; a name can also be one that
\* other clients write and this one does not.
NoProfile == [name |-> "absent", display |-> "absent", about |-> "absent", picture |-> "absent",
              repeats |-> FALSE]

\* create_profile_metadata.
CreateProfile(secret, at, draft, len) ==
    IF draft.name = "foreign" \/ "bad" \in {draft.name, draft.display, draft.about, draft.picture}
    THEN {}
    ELSE Sign(secret, Unsigned(secret, at, "profile", <<>>, Text(len, draft)))

(***************************************************************************)
(* Reading them.                                                           *)
(***************************************************************************)
\* parse_nip65_relay_list and parse_nip17_dm_relay_list: the endpoints of the
\* list's own tags, merged, with what each is for.
ParseList(e, now, kind, max) ==
    LET name == IF kind = "relays" THEN "r" ELSE "relay"
        entries == {t \in Range(e.tags) : t[1] = name}
        shaped(t) == Len(t) = 2 \/ (kind = "relays" /\ Len(t) = 3 /\ t[3] \in {"read", "write"})
        usable(u) ==
            /\ u \in DOMAIN Url /\ Url[u].scheme \in {"ws", "wss"}
            /\ ~Url[u].user /\ ~Url[u].query /\ ~Url[u].fragment
        of(u) == {t \in entries : Url[t[2]].canon = u}
        for(u, use) == \E t \in of(u) : Len(t) = 2 \/ t[3] = use
        urls == {Url[t[2]].canon : t \in entries}
    IN IF \/ ~Verify(e, now) \/ e.kind # kind
          \/ \E t \in entries : ~shaped(t) \/ ~usable(t[2])
          \/ Cardinality(urls) \notin 1..max
       THEN {}
       ELSE {[public_key |-> e.pubkey, created_at |-> e.created_at,
              relays |-> {[url |-> u, read |-> for(u, "read"), write |-> for(u, "write")] : u \in urls}]}

\* verify_dm_inbox with require_tls, which the default policy sets and only a
\* test clears.
VerifyDmInbox(e, recipient, now, maxAge) ==
    {[recipient |-> recipient, relays |-> {r.url : r \in l.relays}, ev |-> e] :
        l \in {x \in ParseList(e, now, "dm_relays", MaxDmRelays) :
                  /\ x.public_key = recipient
                  /\ x.created_at <= now /\ now - x.created_at <= maxAge
                  /\ \A r \in x.relays : SecureOrLoopback(r.url)}}

\* RawProfile: unknown fields are ignored, a repeated one is an error.
ParsesOnce(p) == ~p.repeats

\* validate_known_fields.
KnownFieldsValid(p) == "bad" \notin {p.name, p.display, p.about, p.picture}

\* verify_profile_metadata; a name in the syntax of a handle is a candidate.
VerifyProfile(e, key, now) ==
    LET p == e.content.body
    IN IF \/ ~Verify(e, now) \/ e.kind # "profile" \/ e.pubkey # key \/ e.tags # <<>>
          \/ ~ParsesOnce(p) \/ ~KnownFieldsValid(p)
       THEN {}
       ELSE {[key |-> key, ev |-> e, handle |-> p.name = "usable"]}

(***************************************************************************)
(* The caches: at most one record for each author.                         *)
(***************************************************************************)
NoRecord == [there |-> FALSE]
Record(e, relays, at) == [there |-> TRUE, ev |-> e, relays |-> relays, verified_at |-> at]

EmptyCache == [a \in Authors |-> NoRecord]

Cached(c) == {a \in Authors : c[a].there}

\* to_json fails on a cache that is too large; insert then takes the record
\* out again and puts the previous one back.
Fits(c) ==
    MapThenSumSet(LAMBDA a : SerializedLen(c[a].ev) + TagBytes * Len(c[a].ev.tags), Cached(c))
        <= MaxCacheBytes

Put(c, a, r) ==
    LET d == [c EXCEPT ![a] = r]
    IN IF (a \notin Cached(c) /\ Cardinality(Cached(c)) >= MaxRecords) \/ ~Fits(d) THEN {} ELSE {d}

\* to_cache_record and canonicalize_and_validate.
DmRecord(inbox, at) ==
    LET canon == {Url[u].canon : u \in inbox.relays}
    IN IF \/ at < inbox.ev.created_at \/ inbox.ev.pubkey # inbox.recipient
          \/ Cardinality(inbox.relays) > MaxDmRelays
          \/ \E u \in inbox.relays : ~Endpoint(u)
          \/ Cardinality(canon) # Cardinality(inbox.relays)
       THEN {} ELSE {Record(inbox.ev, canon, at)}

\* VerifiedDmRelayCache::insert.
DmInsert(c, r) ==
    LET a == r.ev.pubkey
        current == c[a]
    IN IF ~current.there \/ r.ev.created_at > current.ev.created_at THEN Put(c, a, r)
       ELSE IF r.ev = current.ev /\ r.relays = current.relays THEN {c}
       ELSE {}

\* VerifiedRelayListCache::insert_event: of two lists of one second the one
\* with the smaller id stays.
RelayListInsert(c, e, now, at) ==
    LET a == e.pubkey
        current == c[a]
    IN IF at > now \/ at < e.created_at THEN {}
       ELSE UNION {IF current.there /\ e.created_at < current.ev.created_at THEN {}
                   ELSE IF /\ current.there /\ e.created_at = current.ev.created_at
                           /\ ~IdBefore(e.id, current.ev.id)
                   THEN {c}
                   ELSE Put(c, a, Record(e, {r.url : r \in l.relays}, at)) :
                      l \in ParseList(e, now, "relays", MaxListRelays)}

\* VerifiedProfileCache::insert.
ProfileInsert(c, profile, at) ==
    LET a == profile.key
        current == c[a]
    IN IF at < profile.ev.created_at THEN {}
       ELSE IF ~current.there \/ profile.ev.created_at > current.ev.created_at
       THEN Put(c, a, Record(profile.ev, {}, at))
       ELSE IF profile.ev.id = current.ev.id THEN {c} ELSE {}

\* The records a restarted client reads back: each must verify again.  back(a)
\* is what inserting the record of a gives; they are inserted one by one, and
\* the most any of them finds in the cache is all the others.
Reloaded(c, now, back(_)) ==
    IF \E a \in Cached(c) : c[a].verified_at > now \/ back(a) = {} THEN {}
    ELSE {[a \in Authors |-> IF a \in Cached(c) THEN (CHOOSE d \in back(a) : TRUE)[a] ELSE NoRecord]}

\* Mutant of DmReload: the records must still be young.
DmReloadYoung(c, now) ==
    LET back(a) == UNION {DmInsert([c EXCEPT ![a] = NoRecord], r) :
                       r \in UNION {DmRecord(i, c[a].verified_at) :
                           i \in VerifyDmInbox(c[a].ev, a, now, MaxAge)}}
    IN Reloaded(c, now, back)

\* VerifiedDmRelayCache::to_json and from_json: the age of a list is not
\* looked at (no list is older than now).
DmReload(c, now) ==
    LET back(a) == UNION {DmInsert([c EXCEPT ![a] = NoRecord], r) :
                       r \in UNION {DmRecord(i, c[a].verified_at) :
                           i \in VerifyDmInbox(c[a].ev, a, now, now)}}
    IN Reloaded(c, now, back)

\* VerifiedRelayListCache::to_json and from_json.
RelayListReload(c, now) ==
    LET back(a) == RelayListInsert([c EXCEPT ![a] = NoRecord], c[a].ev, now, c[a].verified_at)
    IN Reloaded(c, now, back)

\* VerifiedProfileCache::to_json and from_json.
ProfileReload(c, now) ==
    LET back(a) == UNION {ProfileInsert([c EXCEPT ![a] = NoRecord], p, c[a].verified_at) :
                              p \in VerifyProfile(c[a].ev, a, now)}
    IN Reloaded(c, now, back)

\* VerifiedDmRelayCache::lookup.
Lookup(c, a, now) ==
    IF ~c[a].there THEN "missing"
    ELSE IF now < c[a].ev.created_at THEN "clock_rollback"
    ELSE IF now - c[a].ev.created_at <= Freshness THEN "fresh" ELSE "stale"

(***************************************************************************)
(* Routes and plans.                                                       *)
(***************************************************************************)
RouteOf(recipient, relays, provenance) ==
    [recipient |-> recipient, relays |-> relays, provenance |-> provenance,
     required |-> Least(Cardinality(relays), 2)]

\* route_verified, and route_verified_dm_inbox with provenance "fresh".
RouteVerified(recipient, relays, provenance) ==
    IF relays = {} THEN {} ELSE {RouteOf(recipient, relays, provenance)}

\* route_bootstrap.
RouteBootstrap(recipient, urls) ==
    LET canon == [i \in DOMAIN urls |-> Url[urls[i]].canon]
    IN IF \/ Len(urls) \notin 1..MaxDmRelays
          \/ \E u \in Range(urls) : ~Endpoint(u)
          \/ Repeated(canon)
       THEN {} ELSE {RouteOf(recipient, Range(canon), "bootstrap")}

\* Mutant of RouteDmRelays: a list whose time cannot be judged counts as fresh.
RouteRolledBack(c, a, now, bootstrap, policy) ==
    CASE Lookup(c, a, now) \in {"fresh", "clock_rollback"} -> RouteVerified(a, c[a].relays, "fresh")
      [] Lookup(c, a, now) = "stale" -> IF policy.stale THEN RouteVerified(a, c[a].relays, "stale") ELSE {}
      [] Lookup(c, a, now) = "missing" -> IF policy.bootstrap THEN RouteBootstrap(a, bootstrap) ELSE {}

\* route_dm_relays.
RouteDmRelays(c, a, now, bootstrap, policy) ==
    CASE Lookup(c, a, now) = "fresh" -> RouteVerified(a, c[a].relays, "fresh")
      [] Lookup(c, a, now) = "stale" -> IF policy.stale THEN RouteVerified(a, c[a].relays, "stale") ELSE {}
      [] Lookup(c, a, now) = "clock_rollback" -> {}
      [] Lookup(c, a, now) = "missing" -> IF policy.bootstrap THEN RouteBootstrap(a, bootstrap) ELSE {}

\* plan_routed_dm_publish: a gift wrap with one p tag, of two fields, for the
\* recipient of the route.
PlanRouted(e, route, now) ==
    IF /\ Verify(e, now) /\ e.kind = "wrap"
       /\ \E i \in PTags(e) : PTags(e) = {i} /\ e.tags[i] = <<"p", route.recipient>>
       /\ route.relays # {}
    THEN {[ev |-> e, recipient |-> route.recipient, relays |-> route.relays,
           provenance |-> route.provenance, required |-> route.required]}
    ELSE {}

=============================================================================
