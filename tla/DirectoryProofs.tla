--------------------------- MODULE DirectoryProofs ---------------------------
(***************************************************************************)
(* The safety properties of the handle directory, for any number of        *)
(* sessions, devices, handles, keys and proofs, any freshness window and   *)
(* any Lag.  Inv is inductive: its parts are preserved one by one, first   *)
(* those about sessions and calls, then those about names, keys and nonces.*)
(***************************************************************************)
EXTENDS Directory, TLAPS

\* A leaf is tried with Zenon, which is soon done, and then with SMT, unless it
\* names its prover.
USE ZenonT(10), SMTT(20)

(***************************************************************************)
(* Sessions, calls, the channel and the request in the service's hands.    *)
(* What the service finds is what a session asked for (TakenIsQueued), and *)
(* a proof it works on still passes its checks (ServedProof).              *)
(***************************************************************************)
\* The request the service takes is one a session waits for, and what the
\* session asked for is what the service finds.
LEMMA TakenIsQueued ==
  ASSUME Inv, NEW s \in Sessions, NEW op, Takes(s, op)
  PROVE  /\ call[s] = "queued"
         /\ dev[s] \in Devices
         /\ req[s].op = op
         /\ op = "prove" => req[s].proof \in Proofs
         /\ op = "claim" => req[s].handle \in Handles
  <1>1. /\ 1 \in 1 .. Len(queue)
        /\ s = queue[1]
    BY SMTT(20) DEF Takes, Inv, TypeOK
  <1>2. call[s] = "queued" /\ req[s].op = op
    BY <1>1 DEF Takes, Inv, QueueInv
  <1> QED
    BY <1>2 DEF Inv, CallInv

\* The proof the service is working on is one of the proofs, sent by a device.
LEMMA ServedProof ==
  ASSUME Inv, svc # "idle"
  PROVE  /\ cur \in Sessions
         /\ call[cur] = "served" /\ pc[cur] = "calling"
         /\ dev[cur] \in Devices
         /\ req[cur].proof \in Proofs
         /\ req[cur].proof \in Proof
         /\ Verified(req[cur].proof, dev[cur], stamp[cur])
         /\ svc = "remembered" => uses[req[cur].proof] > 0
  <1>1. cur \in Sessions /\ CallInv /\ SvcInv
    BY DEF Inv, TypeOK
  <1> QED
    BY <1>1, ProofsAssumption DEF CallInv, SvcInv

\* The channel of a service that starts is within its bound.
LEMMA EmptyFits == <<>> \in Seq(Sessions) /\ Len(<<>>) <= QueueDepth
  BY DepthAssumption, SMTT(20)

\* Taking the oldest request keeps the channel within its bound.
LEMMA TakeFits ==
  ASSUME TypeOK, NEW s, NEW op, Takes(s, op)
  PROVE  queue' \in Seq(Sessions) /\ Len(queue') <= QueueDepth
  <1>1. queue \in Seq(Sessions) /\ Len(queue) <= QueueDepth /\ queue # <<>> /\ queue' = Tail(queue)
    BY DEF TypeOK, Takes
  <1> QED
    BY ONLY <1>1, DepthAssumption, SMTT(20)

\* So does sending into a free slot.
LEMMA SendFits ==
  ASSUME TypeOK, NEW s \in Sessions, SessionSend(s)
  PROVE  queue' \in Seq(Sessions) /\ Len(queue') <= QueueDepth
  <1>1. queue \in Seq(Sessions) /\ Len(queue) < QueueDepth /\ queue' = Append(queue, s)
    BY DEF TypeOK, SessionSend
  <1> QED
    BY ONLY <1>1, s \in Sessions, DepthAssumption, SMTT(20)

\* An answered session has a known state and no request any more.
LEMMA ReplyTypes ==
  ASSUME TypeOK, NEW s \in Sessions, Reply(s)
  PROVE  /\ call' \in [Sessions -> {"none", "stamped", "queued", "served"}]
         /\ pc' \in [Sessions -> {"new", "registering", "registered", "attaching",
                                  "ready", "calling", "detaching", "gone"}]
         /\ req' \in [Sessions -> [op : Ops, handle : Handles \cup {NoHandle},
                                   proof : Proofs \cup {NoProof}]]
         /\ stamp' \in [Sessions -> Nat]
         /\ svc' = "idle"
  BY DEF TypeOK, Reply, Answered, Plain, Request, Ops

\* A request in flight was stamped at most Lag before the server's clock.
LEMMA StampOfCall ==
  ASSUME Inv, NEW s \in Sessions, call[s] # "none"
  PROVE  stamp[s] \in Nat /\ stamp[s] <= clock /\ clock <= stamp[s] + Lag
  <1>1. stamp \in [Sessions -> Nat] /\ StampInv
    BY DEF Inv, TypeOK
  <1> QED
    BY <1>1 DEF StampInv

\* The use counter of a proof is a number, and counting keeps it positive.
LEMMA UsesCounted ==
  ASSUME TypeOK, NEW p \in Proofs
  PROVE  /\ uses[p] # 0 => uses[p] > 0
         /\ \A q \in Proofs :
              uses[p] > 0 =>
                [uses EXCEPT ![q] = IF @ = 0 THEN 1 ELSE 2][p] > 0
  <1>1. uses[p] \in {0, 1, 2} /\ DOMAIN uses = Proofs
    BY DEF TypeOK
  <1> QED
    BY <1>1

\* Every step keeps the types.
LEMMA TypeStep == Inv /\ [Next]_vars => TypeOK'
  <1> SUFFICES ASSUME Inv, [Next]_vars PROVE TypeOK'
    OBVIOUS
  <1> USE DEF Inv, TypeOK, Ops, Absent, vars, db, service, sessions, history
  <1>1. CASE Tick
    BY <1>1, SMTT(20) DEF Tick
  <1>2. CASE BootAlter
    BY <1>2 DEF BootAlter
  <1>3. CASE BootVersion
    BY <1>3 DEF BootVersion
  <1>4. CASE BootCurrent
    BY <1>4 DEF BootCurrent
  <1>5. CASE BootRefused
    BY <1>5 DEF BootRefused
  <1>6. CASE Crash
    <2>1. queue' \in Seq(Sessions) /\ Len(queue') <= QueueDepth
      BY <1>6, EmptyFits DEF Crash
    <2> QED
      BY <1>6, <2>1 DEF Crash, Plain, Request
  <1>7. ASSUME NEW s \in Sessions, SessionRegister(s) PROVE TypeOK'
    BY <1>7, SMTT(20) DEF SessionRegister, Call, Plain, Request
  <1>8. ASSUME NEW s \in Sessions, SessionAbandon(s) PROVE TypeOK'
    BY <1>8 DEF SessionAbandon
  <1>9. ASSUME NEW s \in Sessions, SessionTimeout(s) PROVE TypeOK'
    BY <1>9 DEF SessionTimeout
  <1>10. ASSUME NEW s \in Sessions, SessionAttach(s) PROVE TypeOK'
    BY <1>10 DEF SessionAttach, Call, Plain, Request
  <1>11. ASSUME NEW s \in Sessions, SessionCommand(s) PROVE TypeOK'
    <2>1. CASE \E h \in Handles : Call(s, Request("claim", h, NoProof))
      BY <1>11, <2>1, SMTT(20) DEF SessionCommand, Call, Request
    <2>2. CASE \E p \in Proofs : Call(s, Request("prove", NoHandle, p))
      BY <1>11, <2>2, SMTT(20) DEF SessionCommand, Call, Request
    <2> QED
      BY <1>11, <2>1, <2>2 DEF SessionCommand
  <1>12. ASSUME NEW s \in Sessions, SessionDetach(s) PROVE TypeOK'
    BY <1>12 DEF SessionDetach, Call, Plain, Request
  <1>13. ASSUME NEW s \in Sessions, SessionSend(s) PROVE TypeOK'
    BY <1>13, SendFits DEF SessionSend
  <1>14. ASSUME NEW s \in Sessions, ServiceRegister(s) PROVE TypeOK'
    <2>1. call[s] = "queued" /\ dev[s] \in Devices /\ req[s].op = "register"
      BY <1>14, TakenIsQueued DEF ServiceRegister
    <2>2. Reply(s) /\ registered' \subseteq Devices
      BY <1>14, <2>1 DEF ServiceRegister
    <2>3. queue' \in Seq(Sessions) /\ Len(queue') <= QueueDepth
      BY <1>14, TakeFits DEF ServiceRegister
    <2> QED
      BY <1>14, <2>2, <2>3, ReplyTypes DEF ServiceRegister
  <1>15. ASSUME NEW s \in Sessions, ServiceAttach(s) PROVE TypeOK'
    <2>1. Reply(s) /\ subscribers' \subseteq Sessions
      BY <1>15 DEF ServiceAttach
    <2>2. queue' \in Seq(Sessions) /\ Len(queue') <= QueueDepth
      BY <1>15, TakeFits DEF ServiceAttach
    <2> QED
      BY <1>15, <2>1, <2>2, ReplyTypes DEF ServiceAttach
  <1>16. ASSUME NEW s \in Sessions, ServiceDetach(s) PROVE TypeOK'
    <2>1. Reply(s) /\ subscribers' \subseteq Sessions
      BY <1>16 DEF ServiceDetach
    <2>2. queue' \in Seq(Sessions) /\ Len(queue') <= QueueDepth
      BY <1>16, TakeFits DEF ServiceDetach
    <2> QED
      BY <1>16, <2>1, <2>2, ReplyTypes DEF ServiceDetach
  <1>17. ASSUME NEW s \in Sessions, ServiceClaim(s) PROVE TypeOK'
    <2>1. Reply(s) /\ handle' \in [Devices -> Handles \cup {NoHandle}]
      BY <1>17, TakenIsQueued DEF ServiceClaim, MayClaim
    <2>2. queue' \in Seq(Sessions) /\ Len(queue') <= QueueDepth
      BY <1>17, TakeFits DEF ServiceClaim
    <2> QED
      BY <1>17, <2>1, <2>2, ReplyTypes DEF ServiceClaim
  <1>18. ASSUME NEW s \in Sessions, ServiceProve(s) PROVE TypeOK'
    <2>0. queue' \in Seq(Sessions) /\ Len(queue') <= QueueDepth
      BY <1>18, TakeFits DEF ServiceProve
    <2>1. seen' \in [Nonces -> Nat \cup {Absent}]
      BY <1>18, SMTT(20) DEF ServiceProve, Purged
    <2>2. CASE Verified(req[s].proof, dev[s], stamp[s])
      <3>1. /\ svc' = "purged" /\ cur' \in Sessions
            /\ call' \in [Sessions -> {"none", "stamped", "queued", "served"}]
        BY <1>18, <2>2 DEF ServiceProve
      <3> QED
        BY <1>18, <2>0, <2>1, <2>2, <3>1 DEF ServiceProve
    <2>3. CASE ~Verified(req[s].proof, dev[s], stamp[s])
      <3>1. Reply(s)
        BY <1>18, <2>3 DEF ServiceProve
      <3> QED
        BY <1>18, <2>0, <2>1, <2>3, <3>1, ReplyTypes DEF ServiceProve
    <2> QED
      BY <2>2, <2>3
  <1>19. CASE ServiceRemember
    <2> DEFINE p == req[cur].proof
    <2>1. cur \in Sessions /\ p \in Proofs /\ p.nonce \in Nonces
      BY <1>19, ServedProof DEF ServiceRemember, Proof
    <2>2. CASE seen[p.nonce] = Absent
      <3>1. /\ seen' \in [Nonces -> Nat \cup {Absent}]
            /\ uses' \in [Proofs -> {0, 1, 2}]
            /\ firstUse' \in [Proofs -> Nat]
        <4>1. /\ seen' = [seen EXCEPT ![p.nonce] = stamp[cur]]
              /\ uses' = [uses EXCEPT ![p] = IF @ = 0 THEN 1 ELSE 2]
              /\ \/ firstUse' = firstUse
                 \/ firstUse' = [firstUse EXCEPT ![p] = stamp[cur]]
          BY <1>19, <2>2 DEF ServiceRemember
        <4>2. seen' \in [Nonces -> Nat \cup {Absent}]
          BY <2>1, <4>1
        <4>3. uses' \in [Proofs -> {0, 1, 2}]
          BY <4>1
        <4>4. firstUse' \in [Proofs -> Nat]
          BY <2>1, <4>1, ZenonT(30)
        <4> QED
          BY <4>2, <4>3, <4>4
      <3>2. svc' = "remembered" /\ UNCHANGED <<cur, pc, req, stamp, call>>
        BY <1>19, <2>2 DEF ServiceRemember
      <3> QED
        BY <1>19, <2>1, <3>1, <3>2 DEF ServiceRemember
    <2>3. CASE seen[p.nonce] # Absent
      <3>1. Reply(cur) /\ UNCHANGED <<seen, history>>
        BY <1>19, <2>3 DEF ServiceRemember
      <3> QED
        BY <1>19, <2>1, <3>1, ReplyTypes DEF ServiceRemember
    <2> QED
      BY <2>2, <2>3
  <1>20. CASE ServiceApply
    <2>1. NewKey(req[cur].proof, dev[cur]) \in NostrKeys \cup {NoKey}
      BY <1>20, ServedProof DEF ServiceApply, NewKey, Proof
    <2>2. cur \in Sessions
      BY <1>20 DEF ServiceApply
    <2> QED
      BY <1>20, <2>1, <2>2 DEF ServiceApply, Reply, Answered, Plain, Request
  <1>21. CASE UNCHANGED vars
    BY <1>21
  <1> QED
    BY <1>1, <1>2, <1>3, <1>4, <1>5, <1>6, <1>7, <1>8, <1>9, <1>10, <1>11,
       <1>12, <1>13, <1>14, <1>15, <1>16, <1>17, <1>18, <1>19, <1>20, <1>21
    DEF Next, Boot, SessionStep, ServiceStep, Settled

\* Every step keeps a session and its call in agreement.
LEMMA CallStep == Inv /\ [Next]_vars => CallInv'
  <1> SUFFICES ASSUME Inv, [Next]_vars PROVE CallInv'
    OBVIOUS
  <1>a. /\ CallInv
        /\ DOMAIN pc = Sessions
        /\ DOMAIN dev = Sessions
        /\ DOMAIN req = Sessions
        /\ DOMAIN call = Sessions
    BY DEF Inv, TypeOK
  <1>b. ASSUME UNCHANGED <<pc, dev, req, call>> PROVE CallInv'
    BY <1>a, <1>b DEF CallInv
  <1> USE <1>a DEF vars, db, service, sessions, history, CallInv
  <1>1. CASE Tick
    BY <1>b, <1>1 DEF Tick
  <1>2. CASE BootAlter
    BY <1>b, <1>2 DEF BootAlter
  <1>3. CASE BootVersion
    BY <1>b, <1>3 DEF BootVersion
  <1>4. CASE BootCurrent
    BY <1>b, <1>4 DEF BootCurrent
  <1>5. CASE BootRefused
    BY <1>b, <1>5 DEF BootRefused
  <1>6. CASE Crash
    BY <1>6 DEF Crash, Plain, Request
  <1>7. ASSUME NEW s \in Sessions, SessionRegister(s) PROVE CallInv'
    BY <1>7, ZenonT(30) DEF SessionRegister, Call, Plain, Request
  <1>8. ASSUME NEW s \in Sessions, SessionAbandon(s) PROVE CallInv'
    BY <1>8, ZenonT(30) DEF SessionAbandon
  <1>9. ASSUME NEW s \in Sessions, SessionTimeout(s) PROVE CallInv'
    BY <1>9, ZenonT(30) DEF SessionTimeout
  <1>10. ASSUME NEW s \in Sessions, SessionAttach(s) PROVE CallInv'
    BY <1>10, ZenonT(30) DEF SessionAttach, Call, Plain, Request
  <1>11. ASSUME NEW s \in Sessions, SessionCommand(s) PROVE CallInv'
    BY SMTT(40), <1>11 DEF SessionCommand, Call, Plain, Request
  <1>12. ASSUME NEW s \in Sessions, SessionDetach(s) PROVE CallInv'
    BY SMTT(40), <1>12 DEF SessionDetach, Call, Plain, Request
  <1>13. ASSUME NEW s \in Sessions, SessionSend(s) PROVE CallInv'
    BY <1>13, ZenonT(30) DEF SessionSend
  <1>14. ASSUME NEW s \in Sessions, ServiceRegister(s) PROVE CallInv'
    <2>1. call[s] = "queued" /\ dev[s] \in Devices /\ req[s].op = "register"
      BY <1>14, TakenIsQueued DEF ServiceRegister
    <2> QED
      BY <1>14, <2>1, ZenonT(30) DEF ServiceRegister, Takes, Reply, Answered, Plain,
         Request
  <1>15. ASSUME NEW s \in Sessions, ServiceAttach(s) PROVE CallInv'
    <2>1. call[s] = "queued" /\ dev[s] \in Devices /\ req[s].op = "attach"
      BY SMTT(40), <1>15, TakenIsQueued DEF ServiceAttach
    <2> QED
      BY SMTT(40), <1>15, <2>1 DEF ServiceAttach, Takes, Reply, Answered, Plain, Request
  <1>16. ASSUME NEW s \in Sessions, ServiceDetach(s) PROVE CallInv'
    <2>1. call[s] = "queued" /\ dev[s] \in Devices /\ req[s].op = "detach"
      BY <1>16, TakenIsQueued DEF ServiceDetach
    <2> QED
      BY SMTT(40), <1>16, <2>1 DEF ServiceDetach, Takes, Reply, Answered, Plain, Request
  <1>17. ASSUME NEW s \in Sessions, ServiceClaim(s) PROVE CallInv'
    <2>1. call[s] = "queued" /\ dev[s] \in Devices /\ req[s].op = "claim"
      BY <1>17, TakenIsQueued DEF ServiceClaim
    <2> QED
      BY SMTT(40), <1>17, <2>1 DEF ServiceClaim, Takes, Reply, Answered, Plain, Request
  <1>18. ASSUME NEW s \in Sessions, ServiceProve(s) PROVE CallInv'
    <2>1. call[s] = "queued" /\ dev[s] \in Devices /\ req[s].op = "prove"
      BY <1>18, TakenIsQueued DEF ServiceProve
    <2> QED
      BY SMTT(40), <1>18, <2>1 DEF ServiceProve, Takes, Reply, Answered, Plain, Request
  <1>19. CASE ServiceRemember
    BY <1>19, SMTT(20) DEF ServiceRemember, Reply, Answered, Plain, Request
  <1>20. CASE ServiceApply
    BY <1>20, ZenonT(30) DEF ServiceApply, Reply, Answered, Plain, Request, NewKey
  <1>21. CASE UNCHANGED vars
    BY <1>b, <1>21
  <1> HIDE DEF CallInv
  <1> QED
    BY <1>1, <1>2, <1>3, <1>4, <1>5, <1>6, <1>7, <1>8, <1>9, <1>10, <1>11,
       <1>12, <1>13, <1>14, <1>15, <1>16, <1>17, <1>18, <1>19, <1>20, <1>21
    DEF Next, Boot, SessionStep, ServiceStep, Settled

\* No request in flight grows older than Lag.
LEMMA StampStep == Inv /\ [Next]_vars => StampInv'
  <1> SUFFICES ASSUME Inv, [Next]_vars PROVE StampInv'
    OBVIOUS
  <1>a. /\ StampInv
        /\ clock \in Nat
        /\ stamp \in [Sessions -> Nat]
        /\ DOMAIN call = Sessions
    BY DEF Inv, TypeOK
  <1>b. ASSUME UNCHANGED <<clock, stamp, call>> PROVE StampInv'
    BY <1>a, <1>b DEF StampInv
  <1> USE TimeAssumption, <1>a DEF vars, db, service, sessions, history, StampInv
  <1>1. CASE Tick
    BY <1>1 DEF Tick
  <1>2. CASE BootAlter
    BY <1>b, <1>2 DEF BootAlter
  <1>3. CASE BootVersion
    BY <1>b, <1>3 DEF BootVersion
  <1>4. CASE BootCurrent
    BY <1>b, <1>4 DEF BootCurrent
  <1>5. CASE BootRefused
    BY <1>b, <1>5 DEF BootRefused
  <1>6. CASE Crash
    BY SMTT(40), <1>6 DEF Crash, Plain, Request
  <1>7. ASSUME NEW s \in Sessions, SessionRegister(s) PROVE StampInv'
    BY <1>7, SMTT(20) DEF SessionRegister, Call, Plain, Request
  <1>8. ASSUME NEW s \in Sessions, SessionAbandon(s) PROVE StampInv'
    BY <1>b, <1>8 DEF SessionAbandon
  <1>9. ASSUME NEW s \in Sessions, SessionTimeout(s) PROVE StampInv'
    BY SMTT(40), <1>9 DEF SessionTimeout
  <1>10. ASSUME NEW s \in Sessions, SessionAttach(s) PROVE StampInv'
    BY SMTT(40), <1>10 DEF SessionAttach, Call, Plain, Request
  <1>11. ASSUME NEW s \in Sessions, SessionCommand(s) PROVE StampInv'
    <2>1. stamp' = [stamp EXCEPT ![s] = clock]
      BY SMTT(40), <1>11 DEF SessionCommand, Call
    <2>2. call' = [call EXCEPT ![s] = "stamped"] /\ clock' = clock
      BY SMTT(40), <1>11 DEF SessionCommand, Call
    <2> QED
      BY SMTT(40), <2>1, <2>2
  <1>12. ASSUME NEW s \in Sessions, SessionDetach(s) PROVE StampInv'
    BY <1>12 DEF SessionDetach, Call, Plain, Request
  <1>13. ASSUME NEW s \in Sessions, SessionSend(s) PROVE StampInv'
    BY <1>13 DEF SessionSend
  <1>14. ASSUME NEW s \in Sessions, ServiceRegister(s) PROVE StampInv'
    BY <1>14 DEF ServiceRegister, Takes, Reply, Answered, Plain, Request
  <1>15. ASSUME NEW s \in Sessions, ServiceAttach(s) PROVE StampInv'
    BY <1>15 DEF ServiceAttach, Takes, Reply, Answered, Plain, Request
  <1>16. ASSUME NEW s \in Sessions, ServiceDetach(s) PROVE StampInv'
    BY SMTT(40), <1>16 DEF ServiceDetach, Takes, Reply, Answered, Plain, Request
  <1>17. ASSUME NEW s \in Sessions, ServiceClaim(s) PROVE StampInv'
    BY <1>17 DEF ServiceClaim, Takes, Reply, Answered, Plain, Request, MayClaim
  <1>18. ASSUME NEW s \in Sessions, ServiceProve(s) PROVE StampInv'
    <2>1. /\ clock' = clock
          /\ \/ stamp' = stamp /\ call' = [call EXCEPT ![s] = "served"]
             \/ /\ stamp' = [stamp EXCEPT ![s] = 0]
                /\ call' = [call EXCEPT ![s] = "none"]
      BY <1>18 DEF ServiceProve, Reply
    <2>2. call[s] # "none"
      BY <1>18, TakenIsQueued DEF ServiceProve
    <2> QED
      BY <2>1, <2>2
  <1>19. CASE ServiceRemember
    BY <1>19 DEF ServiceRemember, Reply, Answered, Plain, Request
  <1>20. CASE ServiceApply
    BY <1>20 DEF ServiceApply, Reply, Answered, Plain, Request, NewKey
  <1>21. CASE UNCHANGED vars
    BY <1>b, <1>21
  <1> HIDE DEF StampInv
  <1> QED
    BY <1>1, <1>2, <1>3, <1>4, <1>5, <1>6, <1>7, <1>8, <1>9, <1>10, <1>11,
       <1>12, <1>13, <1>14, <1>15, <1>16, <1>17, <1>18, <1>19, <1>20, <1>21
    DEF Next, Boot, SessionStep, ServiceStep, Settled

\* Attaching and detaching follow the sessions.
LEMMA SubscribersStep == Inv /\ [Next]_vars => SubscribersExact'
  <1> SUFFICES ASSUME Inv, [Next]_vars PROVE SubscribersExact'
    OBVIOUS
  <1>a. /\ SubscribersExact
        /\ CallInv
        /\ DOMAIN pc = Sessions
    BY DEF Inv, TypeOK
  <1>b. ASSUME UNCHANGED <<pc, subscribers>> PROVE SubscribersExact'
    BY <1>a, <1>b DEF SubscribersExact
  <1> USE <1>a DEF vars, db, service, sessions, history, SubscribersExact, CallInv
  <1>1. CASE Tick
    BY <1>b, <1>1 DEF Tick
  <1>2. CASE BootAlter
    BY <1>b, <1>2 DEF BootAlter
  <1>3. CASE BootVersion
    BY <1>b, <1>3 DEF BootVersion
  <1>4. CASE BootCurrent
    BY <1>b, <1>4 DEF BootCurrent
  <1>5. CASE BootRefused
    BY <1>b, <1>5 DEF BootRefused
  <1>6. CASE Crash
    BY SMTT(40), <1>6 DEF Crash, Plain, Request
  <1>7. ASSUME NEW s \in Sessions, SessionRegister(s) PROVE SubscribersExact'
    BY SMTT(40), <1>7 DEF SessionRegister, Call, Plain, Request
  <1>8. ASSUME NEW s \in Sessions, SessionAbandon(s) PROVE SubscribersExact'
    BY SMTT(40), <1>8 DEF SessionAbandon
  <1>9. ASSUME NEW s \in Sessions, SessionTimeout(s) PROVE SubscribersExact'
    BY SMTT(40), <1>9 DEF SessionTimeout
  <1>10. ASSUME NEW s \in Sessions, SessionAttach(s) PROVE SubscribersExact'
    BY SMTT(40), <1>10 DEF SessionAttach, Call, Plain, Request
  <1>11. ASSUME NEW s \in Sessions, SessionCommand(s) PROVE SubscribersExact'
    BY SMTT(40), <1>11 DEF SessionCommand, Call, Plain, Request
  <1>12. ASSUME NEW s \in Sessions, SessionDetach(s) PROVE SubscribersExact'
    BY SMTT(40), <1>12 DEF SessionDetach, Call, Plain, Request
  <1>13. ASSUME NEW s \in Sessions, SessionSend(s) PROVE SubscribersExact'
    BY <1>b, <1>13 DEF SessionSend
  <1>14. ASSUME NEW s \in Sessions, ServiceRegister(s) PROVE SubscribersExact'
    <2>1. call[s] = "queued" /\ dev[s] \in Devices /\ req[s].op = "register"
      BY <1>14, TakenIsQueued DEF ServiceRegister
    <2> QED
      BY SMTT(40), <1>14, <2>1 DEF ServiceRegister, Takes, Reply, Answered, Plain,
         Request
  <1>15. ASSUME NEW s \in Sessions, ServiceAttach(s) PROVE SubscribersExact'
    <2>1. call[s] = "queued" /\ dev[s] \in Devices /\ req[s].op = "attach"
      BY <1>15, TakenIsQueued DEF ServiceAttach
    <2> QED
      BY SMTT(40), <1>15, <2>1 DEF ServiceAttach, Takes, Reply, Answered, Plain, Request
  <1>16. ASSUME NEW s \in Sessions, ServiceDetach(s) PROVE SubscribersExact'
    <2>1. call[s] = "queued" /\ dev[s] \in Devices /\ req[s].op = "detach"
      BY <1>16, TakenIsQueued DEF ServiceDetach
    <2> QED
      BY SMTT(40), <1>16, <2>1 DEF ServiceDetach, Takes, Reply, Answered, Plain, Request
  <1>17. ASSUME NEW s \in Sessions, ServiceClaim(s) PROVE SubscribersExact'
    <2>1. call[s] = "queued" /\ dev[s] \in Devices /\ req[s].op = "claim"
      BY <1>17, TakenIsQueued DEF ServiceClaim
    <2> QED
      BY SMTT(40), <1>17, <2>1 DEF ServiceClaim, Takes, Reply, Answered, Plain, Request
  <1>18. ASSUME NEW s \in Sessions, ServiceProve(s) PROVE SubscribersExact'
    <2>1. call[s] = "queued" /\ dev[s] \in Devices /\ req[s].op = "prove"
      BY <1>18, TakenIsQueued DEF ServiceProve
    <2> QED
      BY SMTT(40), <1>18, <2>1 DEF ServiceProve, Takes, Reply, Answered, Plain, Request
  <1>19. CASE ServiceRemember
    <2>1. svc # "idle"
      BY SMTT(40), <1>19 DEF ServiceRemember
    <2>2. UNCHANGED <<pc, subscribers>> \/ (Reply(cur) /\ UNCHANGED subscribers)
      BY <1>19 DEF ServiceRemember
    <2> QED
      BY SMTT(40), <2>1, <2>2, ServedProof DEF Reply, Answered
  <1>20. CASE ServiceApply
    <2>1. svc # "idle"
      BY SMTT(40), <1>20 DEF ServiceApply
    <2> QED
      BY SMTT(40), <1>20, <2>1, ServedProof DEF ServiceApply, Reply, Answered
  <1>21. CASE UNCHANGED vars
    BY <1>b, <1>21
  <1> HIDE DEF SubscribersExact, CallInv
  <1> QED
    BY <1>1, <1>2, <1>3, <1>4, <1>5, <1>6, <1>7, <1>8, <1>9, <1>10, <1>11,
       <1>12, <1>13, <1>14, <1>15, <1>16, <1>17, <1>18, <1>19, <1>20, <1>21
    DEF Next, Boot, SessionStep, ServiceStep, Settled

\* Taking the head of the channel leaves the others where they were.
LEMMA TakenLeavesQueue ==
  ASSUME Inv, NEW s \in Sessions, NEW op, Takes(s, op),
         NEW c, call' = [call EXCEPT ![s] = c]
  PROVE  QueueInv'
  <1>1. /\ Len(queue) \in Nat /\ 1 \in 1 .. Len(queue)
        /\ s = queue[1]
        /\ queue' \in Seq(Sessions)
        /\ Len(queue') = Len(queue) - 1
        /\ \A i \in 1 .. Len(queue') :
             /\ queue'[i] = queue[i + 1]
             /\ i + 1 \in 1 .. Len(queue)
    BY SMTT(40) DEF Takes, Inv, TypeOK
  <1>2. ASSUME NEW i \in 1 .. Len(queue')
        PROVE  call'[queue'[i]] = "queued"
    <2>1. queue[i + 1] # queue[1]
      BY <1>1, SMTT(20) DEF Inv, QueueInv
    <2>2. call[queue[i + 1]] = "queued" /\ queue[i + 1] \in Sessions
      BY SMTT(40), <1>1 DEF Inv, QueueInv, TypeOK
    <2> QED
      BY SMTT(40), <1>1, <2>1, <2>2 DEF Inv, TypeOK
  <1>3. ASSUME NEW i \in 1 .. Len(queue'), NEW j \in 1 .. Len(queue'),
               queue'[i] = queue'[j]
        PROVE  i = j
    <2>1. queue[i + 1] = queue[j + 1]
      BY <1>1, <1>3
    <2>2. i + 1 = j + 1
      BY SMTT(40), <1>1, <2>1 DEF Inv, QueueInv
    <2> QED
      BY <1>1, <2>2
  <1> QED
    BY <1>2, <1>3 DEF QueueInv

\* The channel keeps each queued call once.
LEMMA QueueStep == Inv /\ [Next]_vars => QueueInv'
  <1> SUFFICES ASSUME Inv, [Next]_vars PROVE QueueInv'
    OBVIOUS
  <1>a. /\ QueueInv
        /\ CallInv
        /\ queue \in Seq(Sessions)
        /\ DOMAIN call = Sessions
    BY DEF Inv, TypeOK
  <1>b. ASSUME UNCHANGED <<queue, call>> PROVE QueueInv'
    BY <1>a, <1>b DEF QueueInv
  <1>c. ASSUME svc # "idle", queue' = queue,
               call' = call \/ call' = [call EXCEPT ![cur] = "none"]
        PROVE  QueueInv'
    <2>1. \A i \in 1 .. Len(queue) : queue[i] \in Sessions /\ queue[i] # cur
      BY <1>a, <1>c, ServedProof, SMTT(20) DEF QueueInv
    <2> QED
      BY <1>a, <1>c, <2>1 DEF QueueInv
  <1> USE <1>a DEF vars, db, service, sessions, history, QueueInv, CallInv
  <1>1. CASE Tick
    BY <1>b, <1>1 DEF Tick
  <1>2. CASE BootAlter
    BY <1>b, <1>2 DEF BootAlter
  <1>3. CASE BootVersion
    BY <1>b, <1>3 DEF BootVersion
  <1>4. CASE BootCurrent
    BY <1>b, <1>4 DEF BootCurrent
  <1>5. CASE BootRefused
    BY <1>b, <1>5 DEF BootRefused
  <1>6. CASE Crash
    BY SMTT(40), <1>6 DEF Crash, Plain, Request
  <1>7. ASSUME NEW s \in Sessions, SessionRegister(s) PROVE QueueInv'
    BY SMTT(40), <1>7 DEF SessionRegister, Call, Plain, Request
  <1>8. ASSUME NEW s \in Sessions, SessionAbandon(s) PROVE QueueInv'
    BY <1>b, <1>8 DEF SessionAbandon
  <1>9. ASSUME NEW s \in Sessions, SessionTimeout(s) PROVE QueueInv'
    BY SMTT(40), <1>9 DEF SessionTimeout
  <1>10. ASSUME NEW s \in Sessions, SessionAttach(s) PROVE QueueInv'
    BY SMTT(40), <1>10 DEF SessionAttach, Call, Plain, Request
  <1>11. ASSUME NEW s \in Sessions, SessionCommand(s) PROVE QueueInv'
    BY SMTT(40), <1>11 DEF SessionCommand, Call, Plain, Request
  <1>12. ASSUME NEW s \in Sessions, SessionDetach(s) PROVE QueueInv'
    BY SMTT(40), <1>12 DEF SessionDetach, Call, Plain, Request
  <1>13. ASSUME NEW s \in Sessions, SessionSend(s) PROVE QueueInv'
    BY SMTT(40), <1>13 DEF SessionSend
  <1>14. ASSUME NEW s \in Sessions, ServiceRegister(s) PROVE QueueInv'
    BY <1>14, TakenLeavesQueue DEF ServiceRegister, Reply
  <1>15. ASSUME NEW s \in Sessions, ServiceAttach(s) PROVE QueueInv'
    BY <1>15, TakenLeavesQueue DEF ServiceAttach, Reply
  <1>16. ASSUME NEW s \in Sessions, ServiceDetach(s) PROVE QueueInv'
    BY <1>16, TakenLeavesQueue DEF ServiceDetach, Reply
  <1>17. ASSUME NEW s \in Sessions, ServiceClaim(s) PROVE QueueInv'
    BY <1>17, TakenLeavesQueue DEF ServiceClaim, Reply
  <1>18. ASSUME NEW s \in Sessions, ServiceProve(s) PROVE QueueInv'
    BY SMTT(40), <1>18, TakenLeavesQueue DEF ServiceProve, Reply
  <1>19. CASE ServiceRemember
    <2>1. svc # "idle" /\ queue' = queue
      BY <1>19 DEF ServiceRemember
    <2>2. call' = call \/ call' = [call EXCEPT ![cur] = "none"]
      BY <1>19 DEF ServiceRemember, Reply
    <2> QED
      BY <1>c, <2>1, <2>2
  <1>20. CASE ServiceApply
    <2>1. svc # "idle" /\ queue' = queue /\ call' = [call EXCEPT ![cur] = "none"]
      BY <1>20 DEF ServiceApply, Reply
    <2> QED
      BY <1>c, <2>1
  <1>21. CASE UNCHANGED vars
    BY <1>b, <1>21
  <1> HIDE DEF QueueInv, CallInv
  <1> QED
    BY <1>1, <1>2, <1>3, <1>4, <1>5, <1>6, <1>7, <1>8, <1>9, <1>10, <1>11,
       <1>12, <1>13, <1>14, <1>15, <1>16, <1>17, <1>18, <1>19, <1>20, <1>21
    DEF Next, Boot, SessionStep, ServiceStep, Settled

\* What a proof was checked against does not change before it is applied.
LEMMA SvcStep == Inv /\ [Next]_vars => SvcInv'
  <1> SUFFICES ASSUME Inv, [Next]_vars PROVE SvcInv'
    OBVIOUS
  <1>a. /\ SvcInv
        /\ svc # "idle" => cur \in Sessions /\ pc[cur] = "calling" /\ call[cur] = "served"
    BY ServedProof DEF Inv
  <1>b. /\ DOMAIN pc = Sessions /\ DOMAIN dev = Sessions /\ DOMAIN req = Sessions
        /\ DOMAIN stamp = Sessions /\ DOMAIN call = Sessions
    BY DEF Inv, TypeOK
  <1>c. ASSUME UNCHANGED <<svc, cur, call, req, dev, stamp, registered, handle, key, uses>>
        PROVE  SvcInv'
    BY <1>a, <1>c DEF SvcInv, Verified
  \* A session other than the one being served changes its own fields.
  <1>d. ASSUME NEW s \in Sessions, svc # "idle" => cur # s,
               UNCHANGED <<svc, cur, registered, handle, key, uses>>,
               \A t \in Sessions \ {s} :
                 /\ call'[t] = call[t] /\ req'[t] = req[t]
                 /\ stamp'[t] = stamp[t] /\ dev'[t] = dev[t]
        PROVE  SvcInv'
    BY <1>a, <1>d DEF SvcInv, Verified
  <1>e. ASSUME svc' = "idle" PROVE SvcInv'
    BY <1>e DEF SvcInv
  <1> USE DEF vars, db, service, sessions, history
  <1>1. CASE Tick
    BY <1>c, <1>1 DEF Tick
  <1>2. CASE BootAlter
    BY <1>c, <1>2 DEF BootAlter
  <1>3. CASE BootVersion
    BY <1>c, <1>3 DEF BootVersion
  <1>4. CASE BootCurrent
    BY <1>c, <1>4 DEF BootCurrent
  <1>5. CASE BootRefused
    BY <1>c, <1>5 DEF BootRefused
  <1>6. CASE Crash
    BY <1>e, <1>6 DEF Crash
  <1>7. ASSUME NEW s \in Sessions, SessionRegister(s) PROVE SvcInv'
    BY <1>a, <1>b, <1>d, <1>7 DEF SessionRegister, Call
  <1>8. ASSUME NEW s \in Sessions, SessionAbandon(s) PROVE SvcInv'
    BY <1>c, <1>8 DEF SessionAbandon
  <1>9. ASSUME NEW s \in Sessions, SessionTimeout(s) PROVE SvcInv'
    BY <1>a, <1>b, <1>d, <1>9 DEF SessionTimeout
  <1>10. ASSUME NEW s \in Sessions, SessionAttach(s) PROVE SvcInv'
    BY <1>a, <1>b, <1>d, <1>10 DEF SessionAttach, Call
  <1>11. ASSUME NEW s \in Sessions, SessionCommand(s) PROVE SvcInv'
    BY <1>a, <1>b, <1>d, <1>11 DEF SessionCommand, Call
  <1>12. ASSUME NEW s \in Sessions, SessionDetach(s) PROVE SvcInv'
    BY <1>a, <1>b, <1>d, <1>12 DEF SessionDetach, Call
  <1>13. ASSUME NEW s \in Sessions, SessionSend(s) PROVE SvcInv'
    BY <1>a, <1>b, <1>d, <1>13 DEF SessionSend
  <1>14. ASSUME NEW s \in Sessions, ServiceRegister(s) PROVE SvcInv'
    BY <1>e, <1>14 DEF ServiceRegister, Reply
  <1>15. ASSUME NEW s \in Sessions, ServiceAttach(s) PROVE SvcInv'
    BY <1>e, <1>15 DEF ServiceAttach, Reply
  <1>16. ASSUME NEW s \in Sessions, ServiceDetach(s) PROVE SvcInv'
    BY <1>e, <1>16 DEF ServiceDetach, Reply
  <1>17. ASSUME NEW s \in Sessions, ServiceClaim(s) PROVE SvcInv'
    BY <1>e, <1>17 DEF ServiceClaim, Reply
  <1>18. ASSUME NEW s \in Sessions, ServiceProve(s) PROVE SvcInv'
    <2>1. CASE Verified(req[s].proof, dev[s], stamp[s])
      <3>1. /\ svc' = "purged" /\ cur' = s /\ call' = [call EXCEPT ![s] = "served"]
            /\ req[s].op = "prove"
            /\ UNCHANGED <<req, dev, stamp, registered, handle, key>>
        BY <1>18, <2>1 DEF ServiceProve, Takes
      <3> QED
        BY <1>b, <2>1, <3>1 DEF SvcInv, Verified
    <2>2. CASE ~Verified(req[s].proof, dev[s], stamp[s])
      BY <1>e, <1>18, <2>2 DEF ServiceProve, Reply
    <2> QED
      BY <2>1, <2>2
  <1>19. CASE ServiceRemember
    <2> DEFINE p == req[cur].proof
    <2>1. svc # "idle" /\ p \in Proofs
      BY <1>19, ServedProof DEF ServiceRemember
    <2>2. CASE seen[p.nonce] = Absent
      <3>1. /\ svc' = "remembered"
            /\ uses' = [uses EXCEPT ![p] = IF @ = 0 THEN 1 ELSE 2]
            /\ UNCHANGED <<cur, req, stamp, call, dev, handle, key, registered>>
        BY <1>19, <2>2 DEF ServiceRemember
      <3>2. uses'[p] > 0
        BY <2>1, <3>1, SMTT(20) DEF Inv, TypeOK
      <3> HIDE DEF p
      <3> QED
        BY <1>a, <2>1, <3>1, <3>2 DEF SvcInv, Verified, p
    <2>3. CASE seen[p.nonce] # Absent
      BY <1>e, <1>19, <2>3 DEF ServiceRemember, Reply
    <2> QED
      BY <2>2, <2>3
  <1>20. CASE ServiceApply
    BY <1>e, <1>20 DEF ServiceApply, Reply
  <1>21. CASE UNCHANGED vars
    BY <1>c, <1>21
  <1> QED
    BY <1>1, <1>2, <1>3, <1>4, <1>5, <1>6, <1>7, <1>8, <1>9, <1>10, <1>11,
       <1>12, <1>13, <1>14, <1>15, <1>16, <1>17, <1>18, <1>19, <1>20, <1>21
    DEF Next, Boot, SessionStep, ServiceStep, Settled

(***************************************************************************)
(* Names, keys and nonces.                                                 *)
(***************************************************************************)
\* Time passes in Tick, and only four steps of the service write the names,
\* the nonces or the history of the proofs.
LEMMA OnlyWriters ==
  ASSUME [Next]_vars
  PROVE  \/ UNCHANGED <<clock, handle, key, seen, uses, firstUse>>
         \/ Tick
         \/ \E s \in Sessions : ServiceClaim(s) \/ ServiceProve(s)
         \/ ServiceRemember
         \/ ServiceApply
  BY DEF Next, Boot, SessionStep, ServiceStep, Settled, vars, db, history,
     BootAlter, BootVersion, BootCurrent, BootRefused, Crash, SessionRegister,
     SessionAbandon, SessionTimeout, SessionAttach, SessionCommand, SessionDetach,
     SessionSend, ServiceRegister, ServiceAttach, ServiceDetach

\* No step gives a handle or a key to two accounts.
LEMMA UniqueStep == Inv /\ [Next]_vars => UniqueInv'
  <1> SUFFICES ASSUME Inv, [Next]_vars PROVE UniqueInv'
    OBVIOUS
  <1>a. /\ UniqueInv
        /\ DOMAIN handle = Devices
        /\ DOMAIN key = Devices
    BY DEF Inv, TypeOK
  <1>b. ASSUME UNCHANGED <<handle, key>> PROVE UniqueInv'
    BY <1>a, <1>b DEF UniqueInv
  <1> USE <1>a DEF vars, db, service, sessions, history, UniqueInv
  <1>1. ASSUME NEW s \in Sessions, ServiceClaim(s) PROVE UniqueInv'
    BY SMTT(40), <1>1 DEF ServiceClaim, Takes, Reply, Answered, Plain, Request, MayClaim
  <1>2. CASE ServiceApply
    BY <1>2 DEF ServiceApply, Reply, Answered, Plain, Request, NewKey
  <1>3. ASSUME NEW s \in Sessions, ServiceProve(s) PROVE UniqueInv'
    BY <1>b, <1>3 DEF ServiceProve
  <1>4. CASE Tick
    BY <1>b, <1>4 DEF Tick
  <1>5. CASE ServiceRemember
    BY <1>b, <1>5 DEF ServiceRemember
  <1> HIDE DEF UniqueInv
  <1> QED
    BY <1>b, <1>1, <1>2, <1>3, <1>4, <1>5, OnlyWriters

\* A key is published only on a proof that was used.
LEMMA NamesStep == Inv /\ [Next]_vars => NamesProven'
  <1> SUFFICES ASSUME Inv, [Next]_vars PROVE NamesProven'
    OBVIOUS
  <1>a. /\ NamesProven
        /\ DOMAIN handle = Devices
        /\ DOMAIN key = Devices
    BY DEF Inv, TypeOK
  <1>b. ASSUME UNCHANGED <<handle, key, uses>> PROVE NamesProven'
    BY <1>a, <1>b DEF NamesProven
  <1> USE <1>a DEF vars, db, service, sessions, history, NamesProven
  <1>1. ASSUME NEW s \in Sessions, ServiceClaim(s) PROVE NamesProven'
    <2>1. /\ UNCHANGED <<key, uses>>
          /\ \A d \in Devices : handle[d] # NoHandle => handle'[d] = handle[d]
      BY <1>1 DEF ServiceClaim, MayClaim
    <2>2. \A p \in Proofs : p.handle # NoHandle
      BY SMTT(40), ProofsAssumption, MarksAssumption DEF Proof
    <2>3. ASSUME NEW d \in Devices, key[d] # NoKey
          PROVE  handle'[d] = handle[d]
      <3>1. PICK p \in Proofs : p.handle = handle[d]
        BY <2>3
      <3> QED
        BY <2>1, <2>2, <3>1
    <2> QED
      <3> SUFFICES ASSUME NEW d \in Devices, key[d] # NoKey
                   PROVE  \E p \in Proofs :
                            /\ p.kind = "bind" /\ p.device = d
                            /\ p.handle = handle'[d] /\ p.key = key[d]
                            /\ uses[p] > 0
        BY <2>1
      <3> QED
        BY <2>3
  <1>2. CASE ServiceRemember
    <2>1. UNCHANGED <<handle, key>>
      BY SMTT(40), <1>2 DEF ServiceRemember
    <2>2. \/ uses' = uses
          \/ uses' = [uses EXCEPT ![req[cur].proof] = IF @ = 0 THEN 1 ELSE 2]
      BY SMTT(40), <1>2 DEF ServiceRemember
    <2>3. \A p \in Proofs : uses[p] > 0 => uses'[p] > 0
      <3>1. req[cur].proof \in Proofs
        BY <1>2, ServedProof DEF ServiceRemember
      <3>2. TypeOK
        BY DEF Inv
      <3> QED
        BY <2>2, <3>1, <3>2, UsesCounted
    <2> QED
      BY SMTT(40), <2>1, <2>3
  <1>3. CASE ServiceApply
    <2> DEFINE p == req[cur].proof
               d == dev[cur]
    <2>1. /\ svc # "idle"
          /\ key' = [key EXCEPT ![d] = NewKey(p, d)]
          /\ UNCHANGED <<handle, uses>>
      BY SMTT(40), <1>3 DEF ServiceApply
    <2>2. /\ p \in Proofs /\ p \in Proof /\ d \in Devices
          /\ p.device = d /\ p.handle = handle[d]
          /\ uses[p] > 0
      BY <1>3, <2>1, ServedProof DEF ServiceApply, Verified
    <2>3. /\ NewKey(p, d) \in {NoKey, key[d], p.key}
          /\ NewKey(p, d) = p.key =>
               p.kind = "bind" \/ p.key = NoKey \/ p.key = key[d]
      BY SMTT(40), <2>2 DEF NewKey, Proof
    <2>4. key'[d] = NewKey(p, d) /\ \A e \in Devices \ {d} : key'[e] = key[e]
      BY <2>1, <2>2
    <2>5. ASSUME NEW e \in Devices, key[e] # NoKey
          PROVE  \E q \in Proofs :
                   /\ q.kind = "bind" /\ q.device = e
                   /\ q.handle = handle[e] /\ q.key = key[e] /\ uses[q] > 0
      BY SMTT(40), <2>5
    <2>6. ASSUME NEW e \in Devices, key'[e] # NoKey
          PROVE  \E q \in Proofs :
                   /\ q.kind = "bind" /\ q.device = e
                   /\ q.handle = handle[e] /\ q.key = key'[e] /\ uses[q] > 0
      <3> HIDE DEF NamesProven, p, d
      <3>1. CASE key'[e] = key[e]
        BY <2>5, <2>6, <3>1, ZenonT(30)
      <3>2. CASE key'[e] # key[e]
        <4>1. e = d
          BY <2>4, <3>2
        <4>2. key'[e] = p.key /\ p.kind = "bind"
          BY SMTT(40), <2>3, <2>4, <2>6, <3>2, <4>1
        <4> QED
          BY <2>2, <4>1, <4>2
      <3> QED
        BY <3>1, <3>2
    <2> QED
      BY <2>1, <2>6
  <1>4. ASSUME NEW s \in Sessions, ServiceProve(s) PROVE NamesProven'
    BY <1>b, <1>4 DEF ServiceProve
  <1>5. CASE Tick
    BY <1>b, <1>5 DEF Tick
  <1> HIDE DEF NamesProven
  <1> QED
    BY <1>b, <1>1, <1>2, <1>3, <1>4, <1>5, OnlyWriters

\* A used proof stays in the table while it is fresh.
LEMMA NonceStep == Inv /\ [Next]_vars => NonceInv'
  <1> SUFFICES ASSUME Inv, [Next]_vars PROVE NonceInv'
    OBVIOUS
  <1>a. /\ NonceInv
        /\ clock \in Nat
        /\ DOMAIN seen = Nonces /\ DOMAIN uses = Proofs /\ DOMAIN firstUse = Proofs
        /\ \A p \in Proofs :
             p.time \in Nat /\ p.nonce \in Nonces /\ firstUse[p] \in Nat
    BY ProofsAssumption DEF Inv, TypeOK, Proof
  <1>b. ASSUME UNCHANGED <<clock, seen, uses, firstUse>> PROVE NonceInv'
    BY <1>a, <1>b DEF NonceInv
  <1> USE TimeAssumption, <1>a DEF vars, db, service, sessions, history, NonceInv
  <1>1. CASE Tick
    BY SMTT(40), <1>1 DEF Tick
  <1>2. ASSUME NEW s \in Sessions, ServiceProve(s) PROVE NonceInv'
    <2>1. call[s] = "queued"
      BY <1>2, TakenIsQueued DEF ServiceProve
    <2>2. stamp[s] \in Nat /\ stamp[s] <= clock
      BY <2>1, StampOfCall
    <2>3. UNCHANGED <<clock, uses, firstUse>>
      BY SMTT(40), <1>2 DEF ServiceProve
    <2>4. CASE seen' = seen
      BY SMTT(40), <2>3, <2>4
    <2>5. CASE seen' = Purged(stamp[s])
      <3> SUFFICES ASSUME NEW p \in Proofs, uses[p] > 0,
                          p.time + Lag <= firstUse[p]
                   PROVE  /\ uses[p] = 1
                          /\ \/ seen'[p.nonce] = firstUse[p]
                             \/ p.time + Skew + Lag < clock
        BY SMTT(40), <2>3
      <3>1. seen'[p.nonce] = IF seen[p.nonce] < Oldest(stamp[s])
                             THEN Absent ELSE seen[p.nonce]
        BY SMTT(40), <2>5 DEF Purged
      <3>2. CASE seen[p.nonce] = firstUse[p]
        BY SMTT(40), <2>2, <3>1, <3>2 DEF Oldest
      <3> QED
        BY SMTT(40), <3>2
    <2> QED
      BY SMTT(40), <1>2, <2>4, <2>5 DEF ServiceProve
  <1>3. CASE ServiceRemember
    <2> DEFINE p == req[cur].proof
    <2>1. \A q \in Proofs :
            q.time \in Nat /\ q.nonce \in Nonces /\ firstUse[q] \in Nat
      OBVIOUS
    <2>2. /\ p \in Proofs /\ cur \in Sessions /\ call[cur] = "served"
          /\ clock' = clock
      BY <1>3, ServedProof DEF ServiceRemember
    <2>3. CASE seen[p.nonce] = Absent
      <3>1. /\ seen' = [seen EXCEPT ![p.nonce] = stamp[cur]]
            /\ uses' = [uses EXCEPT ![p] = IF @ = 0 THEN 1 ELSE 2]
            /\ firstUse' = IF uses[p] = 0
                           THEN [firstUse EXCEPT ![p] = stamp[cur]]
                           ELSE firstUse
        BY SMTT(40), <1>3, <2>3 DEF ServiceRemember
      <3>2. FreshTimestamp(p.time, stamp[cur])
        BY <1>3, ServedProof DEF ServiceRemember, Verified
      <3>3. stamp[cur] \in Nat /\ clock <= stamp[cur] + Lag
        BY <2>2, StampOfCall
      <3>4. ASSUME uses[p] > 0, p.time + Lag <= firstUse[p]
            PROVE  FALSE
        <4>1. seen[p.nonce] # firstUse[p]
          BY SMTT(40), <2>1, <2>2, <2>3 DEF Absent
        <4>2. p.time + Skew + Lag < clock
          BY SMTT(40), <2>2, <3>4, <4>1
        <4> QED
          BY SMTT(40), <2>1, <2>2, <3>2, <3>3, <4>2 DEF FreshTimestamp, Oldest
      <3>5. ASSUME NEW q \in Proofs, uses'[q] > 0,
                   q.time + Lag <= firstUse'[q]
            PROVE  /\ uses'[q] = 1
                   /\ \/ seen'[q.nonce] = firstUse'[q]
                      \/ q.time + Skew + Lag < clock
        <4>1. CASE q = p
          <5>1. CASE uses[p] = 0
            BY <2>1, <2>2, <3>1, <4>1, <5>1
          <5>2. CASE uses[p] # 0
            <6>1. uses[p] > 0
              BY SMTT(40), <2>2, <5>2, UsesCounted DEF Inv
            <6>2. firstUse' = firstUse
              BY SMTT(40), <3>1, <5>2
            <6> QED
              BY <3>4, <3>5, <4>1, <6>1, <6>2
          <5> QED
            BY SMTT(40), <5>1, <5>2
        <4>2. CASE q # p
          <5>1. uses'[q] = uses[q] /\ firstUse'[q] = firstUse[q]
            BY SMTT(40), <2>2, <3>1, <4>2
          <5>2. q.nonce = p.nonce => seen[q.nonce] # firstUse[q]
            BY SMTT(40), <2>1, <2>3 DEF Absent
          <5> QED
            BY SMTT(40), <2>1, <2>2, <3>1, <3>5, <5>1, <5>2
        <4> QED
          BY SMTT(40), <4>1, <4>2
      <3> QED
        BY SMTT(40), <2>2, <3>5
    <2>4. CASE seen[p.nonce] # Absent
      BY <1>3, <2>4 DEF ServiceRemember
    <2> QED
      BY SMTT(40), <2>3, <2>4
  <1>4. ASSUME NEW s \in Sessions, ServiceClaim(s) PROVE NonceInv'
    BY <1>b, <1>4 DEF ServiceClaim
  <1>5. CASE ServiceApply
    BY <1>b, <1>5 DEF ServiceApply
  <1> HIDE DEF NonceInv
  <1> QED
    BY <1>b, <1>1, <1>2, <1>3, <1>4, <1>5, OnlyWriters

-----------------------------------------------------------------------------
\* The empty database and no session satisfy the invariant.
LEMMA InvInit == Init => Inv
  <1> SUFFICES ASSUME Init PROVE Inv
    OBVIOUS
  <1> USE DEF Init
  <1>1. TypeOK
    BY TimeAssumption, EmptyFits DEF TypeOK, Plain, Request, Ops, Absent
  <1>2. CallInv /\ StampInv /\ SvcInv /\ SubscribersExact
    BY DEF CallInv, StampInv, SvcInv, SubscribersExact
  <1>3. QueueInv
    BY SMTT(20) DEF QueueInv
  <1>4. NonceInv
    BY DEF NonceInv
  <1>5. UniqueInv /\ NamesProven
    BY DEF UniqueInv, NamesProven
  <1> QED
    BY <1>1, <1>2, <1>3, <1>4, <1>5 DEF Inv

\* The inductive invariant of the directory: calls, queue and sessions agree,
\* requests in flight are at most Lag old, a proof being applied still passes
\* its checks, and a used proof is in the nonce table while it is fresh.
THEOREM Invariance == SafetySpec => []Inv
  <1>1. Inv /\ [Next]_vars => Inv'
    <2> SUFFICES ASSUME Inv, [Next]_vars PROVE Inv'
      OBVIOUS
    <2> QED
      BY TypeStep, CallStep, QueueStep, StampStep, SvcStep, NonceStep,
         UniqueStep, NamesStep, SubscribersStep DEF Inv
  <1> QED
    BY InvInit, <1>1, PTL DEF SafetySpec

\* Every reachable state of sessions, service and database has its type.
THEOREM TypeCorrect == SafetySpec => []TypeOK
  <1>1. Inv => TypeOK
    BY DEF Inv
  <1> QED
    BY Invariance, <1>1, PTL

\* A proof at least Lag behind the server's time at its first use passes
\* remember_proof_nonce once, whatever the window, the purges, the crashes and
\* the order in which stamped requests reach the service.
THEOREM TimelyProofsUsedOnce == SafetySpec => []TimelyProofOnce
  <1>1. Inv => TimelyProofOnce
    <2> SUFFICES ASSUME Inv, NEW p \in Proofs, p.time + Lag <= firstUse[p]
                 PROVE  uses[p] <= 1
      BY DEF TimelyProofOnce
    <2>1. uses[p] \in {0, 1, 2}
      BY SMTT(40) DEF Inv, TypeOK
    <2>2. uses[p] > 0 => uses[p] = 1
      BY DEF Inv, NonceInv
    <2> QED
      BY <2>1, <2>2
  <1> QED
    BY Invariance, <1>1, PTL

\* Whatever nip05 publishes was signed for by the device and the Nostr key,
\* for that handle.
THEOREM PublishedIsProven == SafetySpec => []NamesProven
  <1>1. Inv => NamesProven
    BY DEF Inv
  <1> QED
    BY Invariance, <1>1, PTL

\* A name has one key at most and a key one name at most.
THEOREM PublishedIsUnambiguous == SafetySpec => []NamesUnambiguous
  <1>1. Inv => NamesUnambiguous
    <2> SUFFICES ASSUME Inv PROVE NamesUnambiguous
      OBVIOUS
    <2>1. \A h \in Handles : \A k, l \in Nip05(h) : k = l
      BY MarksAssumption DEF Inv, UniqueInv, Nip05
    <2>2. \A h \in Handles : \A g \in Handles \ {h} :
            Nip05(g) \cap Nip05(h) = {}
      BY DEF Inv, UniqueInv, Nip05
    <2> QED
      BY <2>1, <2>2 DEF NamesUnambiguous
  <1> QED
    BY Invariance, <1>1, PTL

\* The subscriber list of the service is the set of attached sessions.
THEOREM SubscribersAreAttached == SafetySpec => []SubscribersExact
  <1>1. Inv => SubscribersExact
    BY DEF Inv
  <1> QED
    BY Invariance, <1>1, PTL

\* claim_handle is the only statement that writes a handle, and it never
\* overwrites one.
THEOREM HandlesArePermanent == SafetySpec => HandlePermanent
  <1> DEFINE Keeps ==
        \A d \in Devices : handle[d] # NoHandle => handle'[d] = handle[d]
  <1>1. Inv /\ [Next]_vars => [Keeps]_vars
    <2> SUFFICES ASSUME Inv, Next PROVE Keeps
      OBVIOUS
    <2>1. ASSUME NEW s \in Sessions, ServiceClaim(s) PROVE Keeps
      BY <2>1 DEF ServiceClaim, MayClaim, Inv, TypeOK
    <2>2. CASE ~ \E s \in Sessions : ServiceClaim(s)
      <3>1. handle' = handle
        BY <2>2, OnlyWriters
    DEF Tick, ServiceProve, ServiceRemember, ServiceApply, db
      <3> QED
        BY SMTT(40), <3>1
    <2> QED
      BY <2>1, <2>2
  <1> QED
    BY Invariance, <1>1, PTL DEF SafetySpec, HandlePermanent

\* Only an applied proof for this device, handle and, to unbind, this key
\* removes or replaces a binding.
THEOREM UnbindsAreExact == SafetySpec => UnbindExact
  <1> DEFINE Exact ==
        \A d \in Devices : key[d] # NoKey /\ key'[d] # key[d] =>
         /\ svc = "remembered" /\ dev[cur] = d
         /\ LET p == req[cur].proof IN
            /\ p.device = d /\ p.handle = handle[d]
            /\ uses[p] > 0
            /\ key'[d] = NoKey => p.kind = "unbind" /\ p.key = key[d]
  <1>1. Inv /\ [Next]_vars => [Exact]_vars
    <2> SUFFICES ASSUME Inv, Next PROVE Exact
      OBVIOUS
    <2>1. CASE ServiceApply
      <3> DEFINE p == req[cur].proof
      <3>1. /\ svc = "remembered"
            /\ key' = [key EXCEPT ![dev[cur]] = NewKey(p, dev[cur])]
        BY SMTT(40), <2>1 DEF ServiceApply
      <3>2. /\ dev[cur] \in Devices /\ p \in Proof
            /\ uses[p] > 0
            /\ p.device = dev[cur] /\ p.handle = handle[dev[cur]]
            /\ p.kind = "unbind" => key[dev[cur]] = p.key
        BY <3>1, ServedProof DEF Verified
      <3>3. p.key # NoKey /\ p.kind \in {"bind", "unbind"}
        BY <3>2, MarksAssumption DEF Proof
      <3>4. NewKey(p, dev[cur]) \in {key[dev[cur]], p.key} \/ p.kind = "unbind"
        BY <3>3 DEF NewKey
      <3>5. key \in [Devices -> NostrKeys \cup {NoKey}]
        BY DEF Inv, TypeOK
      <3> QED
        BY <3>1, <3>2, <3>3, <3>4, <3>5
    <2>2. CASE ~ServiceApply
      <3>1. key' = key
        BY <2>2, OnlyWriters
    DEF Tick, ServiceClaim, ServiceProve, ServiceRemember, db
      <3> QED
        BY SMTT(40), <3>1
    <2> QED
      BY <2>1, <2>2
  <1> QED
    BY Invariance, <1>1, PTL DEF SafetySpec, UnbindExact

=============================================================================
