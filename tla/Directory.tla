------------------------------ MODULE Directory ------------------------------
(***************************************************************************)
(* The hosted handle directory: the sessions of omachat-server             *)
(* (session.rs), the one service thread they call (service.rs) and the     *)
(* SQLite database behind it (storage.rs).                                 *)
(*                                                                         *)
(* A session stamps a request with the wall clock, waits for a slot of the *)
(* service's queue and then for its answer; the service handles one        *)
(* request at a time, but a bind or an unbind is several SQLite statements,*)
(* each committed on its own, and the process may die between any two.     *)
(* Clocks of clients differ from the server's: a proof carries the         *)
(* client's timestamp.                                                     *)
(*                                                                         *)
(* create_account inserts one account row and one device row in one        *)
(* transaction and nothing else adds devices, so an account is named by    *)
(* its device.  A signed proof is a member of the constant Proofs: a       *)
(* signature verifies exactly when the transcript the server rebuilds from *)
(* its own state is the one the proof was made for.                        *)
(***************************************************************************)
EXTENDS Integers, Sequences

CONSTANTS
    Sessions,    \* session identifiers handed out by the host
    Devices,     \* device keys
    Handles,     \* handles parse_handle accepts
    NostrKeys,   \* Nostr public keys
    Nonces,      \* nonces of proofs
    Proofs,      \* the signed proofs clients hold and may send, again too
    Skew,        \* NOSTR_PROOF_SKEW_SECONDS
    Lag,         \* how long a stamped request may take to be handled
    MaxTime,     \* bound on the clock
    MaxCrashes,  \* bound on how often the process dies
    QueueDepth,  \* REQUEST_QUEUE_DEPTH
    NoProof      \* the proof of a request that carries none

NoHandle == "no handle"
NoKey == "no key"
NoDevice == "no device"
Absent == -1

\* What a proof's signatures cover.  An unbind proof names the key it detaches.
Proof ==
    [kind : {"bind", "unbind"}, device : Devices, handle : Handles,
     key : NostrKeys, nonce : Nonces, time : Nat]

ASSUME TimeAssumption ==
    Skew \in Nat /\ Lag \in Nat /\ MaxTime \in Nat /\ MaxCrashes \in Nat

ASSUME DepthAssumption == QueueDepth \in Nat \ {0}

ASSUME ProofsAssumption == Proofs \subseteq Proof

ASSUME MarksAssumption ==
    /\ NoHandle \notin Handles
    /\ NoKey \notin NostrKeys
    /\ NoProof \notin Proofs
    /\ NoDevice \notin Devices

VARIABLES
    clock,        \* the server's wall clock, in seconds
    \* the database
    schema,       \* how far migrate() got: "none", "altered" or "current"
    registered,   \* devices with an account
    handle,       \* accounts.handle
    key,          \* accounts.nostr_pubkey
    seen,         \* nostr_proof_nonces: seen_at of each nonce, or Absent
    \* the process
    server,       \* "down", "booting", "up" or "refused"
    crashes,      \* how often it died
    subscribers,  \* session ids in Service.subscribers
    queue,        \* sessions whose request waits in the service's channel
    svc,          \* where the service is in a bind or an unbind
    cur,          \* the session whose bind or unbind it handles
    \* sessions
    pc,           \* what the session is doing
    dev,          \* the device it authenticated
    req,          \* its last request
    stamp,        \* the `now` of that request
    call,         \* the request: "none", "stamped", "queued" or "served"
    \* history
    uses,         \* how often a proof passed every check, counted to 2
    firstUse      \* `now` of the request that first passed them

db == <<schema, registered, handle, key, seen>>
service == <<subscribers, queue, svc, cur>>
sessions == <<pc, dev, req, stamp, call>>
history == <<uses, firstUse>>
vars == <<clock, db, server, crashes, service, sessions, history>>

Ops == {"none", "register", "attach", "detach", "claim", "prove"}

Request(op, h, p) == [op |-> op, handle |-> h, proof |-> p]

Plain(op) == Request(op, NoHandle, NoProof)

TypeOK ==
    /\ clock \in Nat
    /\ schema \in {"none", "altered", "current"}
    /\ registered \subseteq Devices
    /\ handle \in [Devices -> Handles \cup {NoHandle}]
    /\ key \in [Devices -> NostrKeys \cup {NoKey}]
    /\ seen \in [Nonces -> Nat \cup {Absent}]
    /\ server \in {"down", "booting", "up", "refused"}
    /\ crashes \in Nat
    /\ subscribers \subseteq Sessions
    /\ queue \in Seq(Sessions) /\ Len(queue) <= QueueDepth
    /\ svc \in {"idle", "purged", "remembered"}
    /\ svc # "idle" => cur \in Sessions
    /\ pc \in [Sessions -> {"new", "registering", "registered", "attaching",
                            "ready", "calling", "detaching", "gone"}]
    /\ dev \in [Sessions -> Devices \cup {NoDevice}]
    /\ req \in [Sessions -> [op : Ops, handle : Handles \cup {NoHandle},
                             proof : Proofs \cup {NoProof}]]
    /\ stamp \in [Sessions -> Nat]
    /\ call \in [Sessions -> {"none", "stamped", "queued", "served"}]
    /\ uses \in [Proofs -> {0, 1, 2}]
    /\ firstUse \in [Proofs -> Nat]

Init ==
    /\ clock = 0
    /\ schema = "none"
    /\ registered = {}
    /\ handle = [d \in Devices |-> NoHandle]
    /\ key = [d \in Devices |-> NoKey]
    /\ seen = [n \in Nonces |-> Absent]
    /\ server = "down"
    /\ crashes = 0
    /\ subscribers = {}
    /\ queue = <<>>
    /\ svc = "idle"
    /\ cur = "none"
    /\ pc = [s \in Sessions |-> "new"]
    /\ dev = [s \in Sessions |-> NoDevice]
    /\ req = [s \in Sessions |-> Plain("none")]
    /\ stamp = [s \in Sessions |-> 0]
    /\ call = [s \in Sessions |-> "none"]
    /\ uses = [p \in Proofs |-> 0]
    /\ firstUse = [p \in Proofs |-> 0]

-----------------------------------------------------------------------------
\* The environment: time and the life of the process.

\* A second passes.  Nothing in the code bounds how long a stamped request
\* waits; Lag names the bound the checks assume.  The code reads SystemTime,
\* which an administrator or NTP may set back; here the server's clock never
\* goes back.
Tick ==
    /\ clock < MaxTime
    /\ \A s \in Sessions : call[s] # "none" => clock < stamp[s] + Lag
    /\ clock' = clock + 1
    /\ UNCHANGED <<db, server, crashes, service, sessions, history>>

\* Storage::migrate on a database without a version (or with version 2): the
\* ALTER batch, each statement committed on its own.
BootAlter ==
    /\ server = "down"
    /\ schema = "none"
    /\ schema' = "altered"
    /\ server' = "booting"
    /\ UNCHANGED <<clock, registered, handle, key, seen, crashes, service,
                   sessions, history>>

\* The version row is written, the key check passes and the host listens.
BootVersion ==
    /\ server = "booting"
    /\ schema' = "current"
    /\ server' = "up"
    /\ UNCHANGED <<clock, registered, handle, key, seen, crashes, service,
                   sessions, history>>

\* Opening a current database.
BootCurrent ==
    /\ server = "down"
    /\ schema = "current"
    /\ server' = "up"
    /\ UNCHANGED <<clock, db, crashes, service, sessions, history>>

\* Opening a database whose columns were added but whose version was not
\* written: ALTER TABLE fails on the duplicate column and open() returns the
\* error, now and at every later start.
BootRefused ==
    /\ server = "down"
    /\ schema = "altered"
    /\ server' = "refused"
    /\ UNCHANGED <<clock, db, crashes, service, sessions, history>>

\* The process dies, or exits: run_host aborts its sessions and nobody joins
\* the service thread.  What SQLite committed stays, all else is lost.
Crash ==
    /\ server \in {"booting", "up"}
    /\ crashes < MaxCrashes
    /\ crashes' = crashes + 1
    /\ server' = "down"
    /\ subscribers' = {}
    /\ queue' = <<>>
    /\ svc' = "idle"
    /\ pc' = [s \in Sessions |-> "new"]
    /\ dev' = [s \in Sessions |-> NoDevice]
    /\ req' = [s \in Sessions |-> Plain("none")]
    /\ call' = [s \in Sessions |-> "none"]
    /\ stamp' = [s \in Sessions |-> 0]
    /\ cur' = "none"
    /\ UNCHANGED <<clock, db, history>>
-----------------------------------------------------------------------------
\* Sessions.

\* ServiceHandle::call up to the channel: the request is built, with the
\* clock's value in it, before the session waits for a slot of the queue.
Call(s, r) ==
    /\ req' = [req EXCEPT ![s] = r]
    /\ stamp' = [stamp EXCEPT ![s] = clock]
    /\ call' = [call EXCEPT ![s] = "stamped"]

\* authenticate(): hello, challenge and the device's signature over it, then
\* the Register call.  The signature verifies for the device that made it.
SessionRegister(s) ==
    /\ server = "up"
    /\ pc[s] = "new"
    /\ \E d \in Devices : dev' = [dev EXCEPT ![s] = d]
    /\ pc' = [pc EXCEPT ![s] = "registering"]
    /\ Call(s, Plain("register"))
    /\ UNCHANGED <<clock, db, server, crashes, service, history>>

\* A handshake that fails before Register, or an answer to it that cannot be
\* written: the session ends without having attached.
SessionAbandon(s) ==
    /\ server = "up"
    /\ pc[s] \in {"new", "registered"}
    /\ pc' = [pc EXCEPT ![s] = "gone"]
    /\ UNCHANGED <<clock, db, server, crashes, service, dev, req, stamp, call,
                   history>>

\* The unauthenticated timeout drops the Register call where it stands: a
\* request that is not in the queue yet never will be, one that is stays.
SessionTimeout(s) ==
    /\ pc[s] = "registering"
    /\ pc' = [pc EXCEPT ![s] = "gone"]
    /\ call' = [call EXCEPT ![s] = IF @ = "stamped" THEN "none" ELSE @]
    /\ UNCHANGED <<clock, db, server, crashes, service, dev, req, stamp,
                   history>>

\* run(): the authenticated session attaches before it serves.
SessionAttach(s) ==
    /\ pc[s] = "registered"
    /\ pc' = [pc EXCEPT ![s] = "attaching"]
    /\ Call(s, Plain("attach"))
    /\ UNCHANGED <<clock, db, server, crashes, service, dev, history>>

\* handle_request() on a claim, or on a bind or unbind proof, whether it was
\* sent before or not.  Frames that are refused, and the commands that only
\* read, change nothing.
SessionCommand(s) ==
    /\ pc[s] = "ready"
    /\ pc' = [pc EXCEPT ![s] = "calling"]
    /\ \/ \E h \in Handles : Call(s, Request("claim", h, NoProof))
       \/ \E p \in Proofs : Call(s, Request("prove", NoHandle, p))
    /\ UNCHANGED <<clock, db, server, crashes, service, dev, history>>

\* serve() returned, whatever the reason: the session detaches.
SessionDetach(s) ==
    /\ pc[s] = "ready"
    /\ pc' = [pc EXCEPT ![s] = "detaching"]
    /\ Call(s, Plain("detach"))
    /\ UNCHANGED <<clock, db, server, crashes, service, dev, history>>

\* A channel without a bound.
SendUnbounded(s) ==
    /\ call[s] = "stamped"
    /\ queue' = Append(queue, s)
    /\ call' = [call EXCEPT ![s] = "queued"]
    /\ UNCHANGED <<clock, db, server, crashes, subscribers, svc, cur, pc, dev,
                   req, stamp, history>>

\* A slot of the channel is free and the stamped request goes into it.
SessionSend(s) ==
    /\ call[s] = "stamped"
    /\ Len(queue) < QueueDepth
    /\ queue' = Append(queue, s)
    /\ call' = [call EXCEPT ![s] = "queued"]
    /\ UNCHANGED <<clock, db, server, crashes, subscribers, svc, cur, pc, dev,
                   req, stamp, history>>

-----------------------------------------------------------------------------
\* The service thread.

\* What the session does with the answer of the call it waits for.  One that
\* timed out meanwhile has dropped the receiver: the answer is lost.  The
\* request and its stamp are dropped with the message.
Answered(state) ==
    CASE state = "registering" -> "registered"
      [] state \in {"attaching", "calling"} -> "ready"
      [] OTHER -> "gone"

Reply(s) ==
    /\ call' = [call EXCEPT ![s] = "none"]
    /\ pc' = [pc EXCEPT ![s] = Answered(@)]
    /\ req' = [req EXCEPT ![s] = Plain("none")]
    /\ stamp' = [stamp EXCEPT ![s] = 0]
    /\ svc' = "idle"
    /\ cur' = "none"

\* The service is free and takes the oldest request.
Takes(s, op) ==
    /\ svc = "idle"
    /\ queue # <<>>
    /\ s = Head(queue)
    /\ req[s].op = op
    /\ queue' = Tail(queue)

\* Service::register: a known device resumes its account, an unknown one
\* gets one.
ServiceRegister(s) ==
    /\ Takes(s, "register")
    /\ registered' = registered \cup {dev[s]}
    /\ Reply(s)
    /\ UNCHANGED <<clock, schema, handle, key, seen, server, crashes,
                   subscribers, dev, history>>

ServiceAttach(s) ==
    /\ Takes(s, "attach")
    /\ subscribers' = subscribers \cup {s}
    /\ Reply(s)
    /\ UNCHANGED <<clock, db, server, crashes, dev, history>>

\* A detach that leaves the entry.
DetachKeeps(s) ==
    /\ Takes(s, "detach")
    /\ Reply(s)
    /\ UNCHANGED <<clock, db, server, crashes, subscribers, dev, history>>

ServiceDetach(s) ==
    /\ Takes(s, "detach")
    /\ subscribers' = subscribers \ {s}
    /\ Reply(s)
    /\ UNCHANGED <<clock, db, server, crashes, dev, history>>

\* A claim that relies on the index alone.
MayClaimAgain(d, h) == d \in registered /\ \A e \in Devices : handle[e] # h

\* Storage::claim_handle: the account has none yet and the UNIQUE index finds
\* no other account with it.
MayClaim(d, h) ==
    /\ d \in registered
    /\ handle[d] = NoHandle
    /\ \A e \in Devices : handle[e] # h

ServiceClaim(s) ==
    /\ Takes(s, "claim")
    /\ handle' = IF MayClaim(dev[s], req[s].handle)
                 THEN [handle EXCEPT ![dev[s]] = req[s].handle]
                 ELSE handle
    /\ Reply(s)
    /\ UNCHANGED <<clock, schema, registered, key, seen, server, crashes,
                   subscribers, dev, history>>

\* now.saturating_sub(skew)
Oldest(now) == IF now < Skew THEN 0 ELSE now - Skew

FreshTimestamp(time, now) == time <= now + Skew /\ Oldest(now) <= time

\* A transcript without the handle.
VerifiedAnyHandle(p, d, now) ==
    /\ d \in registered
    /\ handle[d] # NoHandle
    /\ FreshTimestamp(p.time, now)
    /\ p.device = d
    /\ p.kind = "unbind" => key[d] = p.key

\* An unbind transcript without the bound key.
VerifiedAnyKey(p, d, now) ==
    /\ d \in registered
    /\ handle[d] # NoHandle
    /\ FreshTimestamp(p.time, now)
    /\ p.device = d
    /\ p.handle = handle[d]

\* The checks of bind_nostr and unbind_nostr before the nonce: the account
\* has a handle (and, to unbind, a key), the timestamp is fresh, and the
\* signatures are over the transcript rebuilt from the account's own row.
Verified(p, d, now) ==
    /\ d \in registered
    /\ handle[d] # NoHandle
    /\ FreshTimestamp(p.time, now)
    /\ p.device = d
    /\ p.handle = handle[d]
    /\ p.kind = "unbind" => key[d] = p.key

\* The purge takes the nonces at the edge of the window too.
PurgedAtEdge(now) ==
    [n \in Nonces |-> IF seen[n] <= Oldest(now) THEN Absent ELSE seen[n]]

\* remember_proof_nonce, DELETE: nonces seen before the window go.
Purged(now) ==
    [n \in Nonces |-> IF seen[n] < Oldest(now) THEN Absent ELSE seen[n]]

\* bind_nostr or unbind_nostr up to and including that DELETE.
ServiceProve(s) ==
    /\ Takes(s, "prove")
    /\ IF Verified(req[s].proof, dev[s], stamp[s])
       THEN /\ seen' = Purged(stamp[s])
            /\ svc' = "purged"
            /\ cur' = s
            /\ call' = [call EXCEPT ![s] = "served"]
            /\ UNCHANGED <<pc, req, stamp>>
       ELSE /\ Reply(s)
            /\ UNCHANGED seen
    /\ UNCHANGED <<clock, schema, registered, handle, key, server, crashes,
                   subscribers, dev, history>>

\* An INSERT that fails is tried again.
RememberRetries ==
    /\ svc = "purged"
    /\ LET p == req[cur].proof IN
       IF seen[p.nonce] = Absent
       THEN /\ seen' = [seen EXCEPT ![p.nonce] = stamp[cur]]
            /\ svc' = "remembered"
            /\ uses' = [uses EXCEPT ![p] = IF @ = 0 THEN 1 ELSE 2]
            /\ firstUse' = IF uses[p] = 0
                           THEN [firstUse EXCEPT ![p] = stamp[cur]]
                           ELSE firstUse
       ELSE UNCHANGED <<seen, svc, history>>
    /\ UNCHANGED <<clock, schema, registered, handle, key, server, crashes,
                   subscribers, queue, cur, sessions>>

\* remember_proof_nonce, INSERT: a nonce still in the table is a replay.
ServiceRemember ==
    /\ svc = "purged"
    /\ LET p == req[cur].proof IN
       IF seen[p.nonce] = Absent
       THEN /\ seen' = [seen EXCEPT ![p.nonce] = stamp[cur]]
            /\ svc' = "remembered"
            /\ uses' = [uses EXCEPT ![p] = IF @ = 0 THEN 1 ELSE 2]
            /\ firstUse' = IF uses[p] = 0
                           THEN [firstUse EXCEPT ![p] = stamp[cur]]
                           ELSE firstUse
            /\ UNCHANGED <<cur, pc, req, stamp, call>>
       ELSE /\ Reply(cur)
            /\ UNCHANGED <<seen, history>>
    /\ UNCHANGED <<clock, schema, registered, handle, key, server, crashes,
                   subscribers, queue, dev>>

\* No unique index on the key column.
NewKeyShared(p, d) == IF p.kind = "unbind" THEN NoKey ELSE p.key

\* Storage::bind_nostr, where the unique index refuses a key another account
\* holds, and Storage::unbind_nostr.
NewKey(p, d) ==
    CASE p.kind = "unbind" -> NoKey
      [] \E e \in Devices \ {d} : key[e] = p.key -> key[d]
      [] OTHER -> p.key

ServiceApply ==
    /\ svc = "remembered"
    /\ key' = [key EXCEPT ![dev[cur]] = NewKey(req[cur].proof, dev[cur])]
    /\ Reply(cur)
    /\ UNCHANGED <<clock, schema, registered, handle, seen, server, crashes,
                   subscribers, queue, dev, history>>

-----------------------------------------------------------------------------
\* Everything this instance can do is done: the database cannot be opened, or
\* every session it has came and went.
Settled ==
    /\ \/ server = "refused"
       \/ /\ server = "up"
          /\ \A s \in Sessions : pc[s] = "gone" /\ call[s] = "none"
    /\ UNCHANGED vars

Boot == BootAlter \/ BootVersion \/ BootCurrent \/ BootRefused

ServiceStep ==
    \/ \E s \in Sessions :
          \/ ServiceRegister(s) \/ ServiceAttach(s) \/ ServiceDetach(s)
          \/ ServiceClaim(s) \/ ServiceProve(s)
    \/ ServiceRemember
    \/ ServiceApply

SessionStep(s) ==
    \/ SessionRegister(s) \/ SessionAbandon(s) \/ SessionTimeout(s)
    \/ SessionAttach(s) \/ SessionCommand(s) \/ SessionDetach(s)
    \/ SessionSend(s)

Next ==
    \/ Tick
    \/ Boot
    \/ Crash
    \/ \E s \in Sessions : SessionStep(s)
    \/ ServiceStep
    \/ Settled

\* The service thread runs, and the channel hands its free slots to waiting
\* senders in the order they came (a tokio semaphore), so a session cannot be
\* overtaken for ever.  What clients send, and whether the process dies, is
\* not assumed.
Fairness ==
    /\ WF_vars(ServiceStep)
    /\ \A s \in Sessions : SF_vars(SessionSend(s))

SafetySpec == Init /\ [][Next]_vars

Spec == SafetySpec /\ Fairness

-----------------------------------------------------------------------------
\* Properties.

\* Service::nip05: the keys published for a name.
Nip05(h) == {key[d] : d \in {e \in Devices : handle[e] = h}} \ {NoKey}

\* What /.well-known/nostr.json publishes under a name, the owner of the name
\* and the owner of the key both signed for: some bind proof over exactly this
\* device, handle and key passed every check.  Crashes between the statements
\* of a bind, and claims and binds of others, do not change that.
NamesProven ==
    \A d \in Devices : key[d] # NoKey =>
        \E p \in Proofs :
            /\ p.kind = "bind"
            /\ p.device = d
            /\ p.handle = handle[d]
            /\ p.key = key[d]
            /\ uses[p] > 0

\* The directory answers unambiguously: a name has one key at most, and no
\* key is published under two names.
NamesUnambiguous ==
    \A h \in Handles :
        /\ \A k, l \in Nip05(h) : k = l
        /\ \A g \in Handles \ {h} : Nip05(g) \cap Nip05(h) = {}

\* A proof is used up by its first use, the freshness window and the purge of
\* old nonces included, provided its timestamp was at least Lag behind the
\* server's time at that use (Lag bounds how long after its stamp a request is
\* handled, so how far two requests may overtake each other), and that the
\* server's clock never goes back: a clock set back after a purge makes a
\* timestamp fresh again whose nonce is forgotten.
TimelyProofOnce ==
    \A p \in Proofs : p.time + Lag <= firstUse[p] => uses[p] <= 1

\* hosted-server.md and the comment on remember_proof_nonce: a proof whose
\* nonce was used is refused, by the table or by its timestamp.
ProofOnce == \A p \in Proofs : uses[p] <= 1

\* A bound key goes or is replaced only on a proof for this very device and
\* handle, just consumed; an unbind removes only the key it was signed for.
UnbindExact ==
    [][\A d \in Devices : key[d] # NoKey /\ key'[d] # key[d] =>
         /\ svc = "remembered" /\ dev[cur] = d
         /\ LET p == req[cur].proof IN
            /\ p.device = d /\ p.handle = handle[d]
            /\ uses[p] > 0
            /\ key'[d] = NoKey => p.kind = "unbind" /\ p.key = key[d]]_vars

\* An account's handle is for good: no claim, late or repeated, no crash and
\* no restart takes it away or gives it to another account.
HandlePermanent ==
    [][\A d \in Devices : handle[d] # NoHandle => handle'[d] = handle[d]]_vars

\* The subscriber list is exactly the sessions that are attached: one that
\* timed out, was abandoned or detached leaves no entry behind.
SubscribersExact ==
    \A s \in Sessions :
        s \in subscribers <=> pc[s] \in {"ready", "calling", "detaching"}

\* Every call of the service is answered or dies with the process: neither a
\* full queue nor a refused proof leaves a session waiting.
CallsAnswered ==
    \A s \in Sessions : (call[s] # "none") ~> (call[s] = "none")

-----------------------------------------------------------------------------
\* The inductive invariant behind the safety properties.

\* A session waits for one call at most; what it asked for follows from where
\* it is, and the device it acts for is one it authenticated.
CallInv ==
    \A s \in Sessions :
        /\ pc[s] \notin {"new", "gone"} => dev[s] \in Devices
        /\ pc[s] \in {"new", "registered", "ready"} => call[s] = "none"
        /\ call[s] # "none" =>
             /\ dev[s] \in Devices
             /\ \/ req[s].op = "register" /\ pc[s] \in {"registering", "gone"}
                \/ req[s].op = "attach" /\ pc[s] = "attaching"
                \/ req[s].op = "detach" /\ pc[s] = "detaching"
                \/ /\ req[s].op = "claim" /\ req[s].handle \in Handles
                   /\ pc[s] = "calling"
                \/ /\ req[s].op = "prove" /\ req[s].proof \in Proofs
                   /\ pc[s] = "calling"

\* The channel holds each queued call once.
QueueInv ==
    /\ \A i \in 1 .. Len(queue) : call[queue[i]] = "queued"
    /\ \A i, j \in 1 .. Len(queue) : queue[i] = queue[j] => i = j

\* A request in flight was stamped at most Lag ago.
StampInv ==
    \A s \in Sessions : call[s] # "none" =>
        stamp[s] <= clock /\ clock <= stamp[s] + Lag

\* While the service handles a proof, the checks it passed still hold.
SvcInv ==
    svc # "idle" =>
        /\ call[cur] = "served"
        /\ req[cur].op = "prove"
        /\ Verified(req[cur].proof, dev[cur], stamp[cur])
        /\ svc = "remembered" => uses[req[cur].proof] > 0

\* A timely proof that was used is still in the nonce table under its first
\* use, or so old that no request in flight or to come finds it fresh.
NonceInv ==
    \A p \in Proofs : uses[p] > 0 /\ p.time + Lag <= firstUse[p] =>
        /\ uses[p] = 1
        /\ \/ seen[p.nonce] = firstUse[p]
           \/ p.time + Skew + Lag < clock

\* The two unique indexes.
UniqueInv ==
    \A d, e \in Devices :
        /\ handle[d] = handle[e] /\ handle[d] # NoHandle => d = e
        /\ key[d] = key[e] /\ key[d] # NoKey => d = e

Inv ==
    /\ TypeOK
    /\ CallInv
    /\ QueueInv
    /\ StampInv
    /\ SvcInv
    /\ NonceInv
    /\ UniqueInv
    /\ NamesProven
    /\ SubscribersExact
=============================================================================
