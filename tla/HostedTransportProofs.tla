----------------------- MODULE HostedTransportProofs -----------------------
(***************************************************************************)
(* The safety properties of the hosted transport, for any number of calls, *)
(* any channel capacities and any number of connections.  Inv is           *)
(* inductive; its parts are preserved one by one.                          *)
(***************************************************************************)
EXTENDS HostedTransport, SequenceTheorems, TLAPS

\* A leaf is tried with Zenon, which is soon done, and then with SMT, unless it
\* names its prover.
USE ZenonT(10), SMTT(20)

\* What the fields of a frame on its way from the server are.
LEMMA FrameFields ==
  ASSUME TypeOK, NEW i \in DOMAIN fromServer
  PROVE  fromServer[i].id \in Nat /\ fromServer[i].ok \in BOOLEAN
PROOF
<1>1. fromServer[i] \in Frame
    BY SMTT(40) DEF TypeOK
<1>2. QED
    BY SMTT(40), <1>1 DEF Frame

\* Every step keeps the types.
LEMMA TypeStep == Inv /\ [Next]_vars => TypeOK'
PROOF
<1> SUFFICES ASSUME Inv, [Next]_vars PROVE TypeOK'
    OBVIOUS
<1> USE DepthAssumption, BoundsAssumption, CallsAssumption
<1> USE DEF TypeOK, Inv, vars, callerVars, handleVars, taskVars, daemonVars,
       serverVars
<1>1. ASSUME NEW c \in Calls, CallStart(c) PROVE TypeOK'
    BY <1>1, SMTT(20) DEF CallStart, Outcomes, Handle, State, Event, Idle, Plain, Frame
<1>2. ASSUME NEW c \in Calls, CallQueue(c) PROVE TypeOK'
    BY <1>2, SMTT(20) DEF CallQueue, Outcomes, Handle, State, Event, Idle, Plain, Frame
<1>3. ASSUME NEW c \in Calls, CallRefused(c) PROVE TypeOK'
    BY <1>3, SMTT(20) DEF CallRefused, Outcomes, Handle, State, Event, Idle, Plain, Frame
<1>4. ASSUME NEW c \in Calls, CallTimeout(c) PROVE TypeOK'
    BY <1>4, SMTT(20) DEF CallTimeout, Outcomes, Handle, State, Event, Idle, Plain, Frame
<1>5. ASSUME NEW c \in Calls, CallFinish(c) PROVE TypeOK'
    BY <1>5, SMTT(20) DEF CallFinish, Outcomes, Handle, State, Event, Idle, Plain, Frame
<1>6. ASSUME NEW c \in Calls, ServerLate(c) PROVE TypeOK'
    BY <1>6, SMTT(20) DEF ServerLate, Claim, Outcomes, Handle, State, Event, Idle,
       Plain, Frame
<1>7. CASE Stop
    BY <1>7, SMTT(20) DEF Stop, Outcomes, Handle, State, Event, Idle, Plain, Frame
<1>8. CASE Consume
  <2>1. Head(events) \in Event /\ Tail(events) \in Seq(Event)
    BY <1>8, SMTT(20) DEF Consume
  <2>2. Len(Tail(events)) <= EventDepth
    BY <1>8, SMTT(20) DEF Consume
  <2>3. Head(events).handle \in Handle
    BY <2>1, SMTT(20) DEF Event, State, Plain, Handle
  <2>4. QED
    BY <1>8, <2>1, <2>2, <2>3 DEF Consume
<1>9. CASE TaskPublished
    BY <1>9, SMTT(20) DEF TaskPublished, Outcomes, Handle, State, Event, Idle, Plain,
       Frame
<1>10. CASE TaskStop
    BY <1>10, SMTT(20) DEF TaskStop, Answer, Abandon, Publish, Plain, Outcomes, Handle,
       State, Event, Idle, Frame
<1>11. CASE TaskConnecting
    BY <1>11 DEF TaskConnecting, Publish, Plain, Outcomes, Handle, State,
       Event, Idle, Frame
<1>12. CASE TaskConnect
    BY <1>12, SMTT(20) DEF TaskConnect, Publish, Outcomes, Handle, State, Event, Idle,
       Plain, Frame
<1>13. CASE TaskConnectFail
    BY <1>13 DEF TaskConnectFail, Publish, Plain, Outcomes, Handle, State,
       Event, Idle, Frame
<1>14. CASE SessionSend
    BY SMTT(40), <1>14 DEF SessionSend, SessionReady, Outcomes, Handle, State, Event,
       Idle, Plain, Frame
<1>15. CASE SessionSendFails
    BY <1>15, SMTT(20) DEF SessionSendFails, SessionReady, EndSession, Answer, Abandon,
       Publish, Plain, Outcomes, Handle, State, Event, Idle, Frame
<1>16. CASE SessionReceive
    BY <1>16, SMTT(20) DEF SessionReceive, SessionReady, Answer, Plain, Outcomes,
       Handle, State, Event, Idle, Frame
<1>17. CASE SessionLost
    BY <1>17, SMTT(20) DEF SessionLost, SessionReady, EndSession, Answer, Abandon,
       Publish, Plain, Outcomes, Handle, State, Event, Idle, Frame
<1>18. CASE BackoffReply
    BY <1>18, SMTT(20) DEF BackoffReply, Answer, Outcomes, Handle, State, Event, Idle,
       Plain, Frame
<1>19. CASE TaskClose
    BY <1>19 DEF TaskClose, Outcomes, Handle, State, Event, Idle, Plain, Frame
<1>20. CASE TaskDrain
    BY <1>20, SMTT(20) DEF TaskDrain, Answer, Outcomes, Handle, State, Event, Idle,
       Plain, Frame
<1>21. CASE TaskEnd
    BY <1>21, SMTT(20) DEF TaskEnd, Outcomes, Handle, State, Event, Idle, Plain, Frame
<1>22. CASE BackoffWake
    BY SMTT(40), <1>22 DEF BackoffWake, Outcomes, Handle, State, Event, Idle, Plain, Frame
<1>23. CASE ServerAnswer
    BY <1>23, SMTT(20) DEF ServerAnswer, Claim, Outcomes, Handle, State, Event, Idle,
       Plain, Frame
<1>24. CASE ServerPush
    BY <1>24, SMTT(20) DEF ServerPush, Outcomes, Handle, State, Event, Idle, Plain, Frame
<1>25. CASE Break
  <2>1. PICK n \in 0 .. Len(fromServer) : fromServer' = SubSeq(fromServer, 1, n)
    BY <1>25 DEF Break
  <2>2. fromServer' \in Seq(Frame)
    <3>1. fromServer \in Seq(Frame) /\ 1 \in 1 .. Len(fromServer) + 1
      BY SMTT(20)
    <3>2. n \in 1 - 1 .. Len(fromServer)
      BY SMTT(20)
    <3>3. QED
      BY <2>1, <3>1, <3>2, SubSeqProperties, SMTT(20)
  <2>3. QED
    BY <1>25, <2>2 DEF Break
<1>26. CASE Settled
    BY <1>26, SMTT(20) DEF Settled, Outcomes, Handle, State, Event, Idle, Plain, Frame
<1>27. CASE UNCHANGED vars
    BY <1>27
<1>28. QED
    BY <1>1, <1>2, <1>3, <1>4, <1>5, <1>6, <1>7, <1>8, <1>9, <1>10,
       <1>11, <1>12, <1>13, <1>14, <1>15, <1>16, <1>17, <1>18, <1>19, <1>20,
       <1>21, <1>22, <1>23, <1>24, <1>25, <1>26, <1>27
       DEF Next, TaskStep, CallStep

\* Every step keeps the session's data within the session.
LEMMA PhaseStep == Inv /\ [Next]_vars => PhaseInv'
PROOF
<1> SUFFICES ASSUME Inv, [Next]_vars PROVE PhaseInv'
    OBVIOUS
<1> USE DepthAssumption, BoundsAssumption, CallsAssumption
<1> USE DEF PhaseInv, Inv, TypeOK, vars, callerVars, handleVars, taskVars,
       daemonVars, serverVars, Plain
<1>1. ASSUME NEW c \in Calls, CallStart(c) PROVE PhaseInv'
    BY <1>1 DEF CallStart
<1>2. ASSUME NEW c \in Calls, CallQueue(c) PROVE PhaseInv'
    BY <1>2 DEF CallQueue
<1>3. ASSUME NEW c \in Calls, CallRefused(c) PROVE PhaseInv'
    BY <1>3 DEF CallRefused
<1>4. ASSUME NEW c \in Calls, CallTimeout(c) PROVE PhaseInv'
    BY <1>4 DEF CallTimeout
<1>5. ASSUME NEW c \in Calls, CallFinish(c) PROVE PhaseInv'
    BY <1>5 DEF CallFinish
<1>6. ASSUME NEW c \in Calls, ServerLate(c) PROVE PhaseInv'
    BY <1>6 DEF ServerLate, Claim
<1>7. CASE Stop
    BY <1>7 DEF Stop
<1>8. CASE Consume
    BY <1>8 DEF Consume
<1>9. CASE TaskPublished
    BY <1>9 DEF TaskPublished
<1>10. CASE TaskStop
    BY <1>10 DEF TaskStop, Answer, Abandon, Publish, Plain
<1>11. CASE TaskConnecting
    BY <1>11 DEF TaskConnecting, Publish, Plain
<1>12. CASE TaskConnect
    BY <1>12 DEF TaskConnect, Publish
<1>13. CASE TaskConnectFail
    BY <1>13 DEF TaskConnectFail, Publish, Plain
<1>14. CASE SessionSend
    BY <1>14 DEF SessionSend, SessionReady
<1>15. CASE SessionSendFails
    BY <1>15 DEF SessionSendFails, SessionReady, EndSession, Answer, Abandon,
       Publish, Plain
<1>16. CASE SessionReceive
    BY <1>16 DEF SessionReceive, SessionReady, Answer, Plain
<1>17. CASE SessionLost
    BY <1>17 DEF SessionLost, SessionReady, EndSession, Answer, Abandon,
       Publish, Plain
<1>18. CASE BackoffReply
    BY <1>18 DEF BackoffReply, Answer
<1>19. CASE TaskClose
    BY <1>19 DEF TaskClose
<1>20. CASE TaskDrain
    BY <1>20 DEF TaskDrain, Answer
<1>21. CASE TaskEnd
    BY <1>21 DEF TaskEnd
<1>22. CASE BackoffWake
    BY <1>22 DEF BackoffWake
<1>23. CASE ServerAnswer
    BY <1>23 DEF ServerAnswer, Claim
<1>24. CASE ServerPush
    BY <1>24 DEF ServerPush
<1>25. CASE Break
    BY <1>25 DEF Break
<1>26. CASE Settled
    BY <1>26 DEF Settled
<1>27. CASE UNCHANGED vars
    BY <1>27
<1>28. QED
    BY <1>1, <1>2, <1>3, <1>4, <1>5, <1>6, <1>7, <1>8, <1>9, <1>10,
       <1>11, <1>12, <1>13, <1>14, <1>15, <1>16, <1>17, <1>18, <1>19, <1>20,
       <1>21, <1>22, <1>23, <1>24, <1>25, <1>26, <1>27
       DEF Next, TaskStep, CallStep

\* Every step keeps ids unambiguous within a session.
LEMMA IdStep == Inv /\ [Next]_vars => IdInv'
PROOF
<1> SUFFICES ASSUME Inv, [Next]_vars PROVE IdInv'
    OBVIOUS
<1> USE DepthAssumption, BoundsAssumption, CallsAssumption
<1> USE DEF IdInv, PhaseInv, Inv, TypeOK, vars, callerVars, handleVars,
       taskVars, daemonVars, serverVars
<1>1. ASSUME NEW c \in Calls, CallStart(c) PROVE IdInv'
    BY <1>1 DEF CallStart
<1>2. ASSUME NEW c \in Calls, CallQueue(c) PROVE IdInv'
    BY <1>2 DEF CallQueue
<1>3. ASSUME NEW c \in Calls, CallRefused(c) PROVE IdInv'
    BY <1>3 DEF CallRefused
<1>4. ASSUME NEW c \in Calls, CallTimeout(c) PROVE IdInv'
    BY <1>4 DEF CallTimeout
<1>5. ASSUME NEW c \in Calls, CallFinish(c) PROVE IdInv'
    BY SMTT(40), <1>5 DEF CallFinish
<1>6. ASSUME NEW c \in Calls, ServerLate(c) PROVE IdInv'
    BY <1>6 DEF ServerLate, Claim
<1>7. CASE Stop
    BY SMTT(40), <1>7 DEF Stop
<1>8. CASE Consume
    BY <1>8 DEF Consume
<1>9. CASE TaskPublished
    BY SMTT(40), <1>9 DEF TaskPublished
<1>10. CASE TaskStop
    BY <1>10, SMTT(20) DEF TaskStop, Answer, Abandon, Publish, Plain
<1>11. CASE TaskConnecting
    BY SMTT(40), <1>11 DEF TaskConnecting, Publish, Plain
<1>12. CASE TaskConnect
    BY <1>12, SMTT(20) DEF TaskConnect, Publish
<1>13. CASE TaskConnectFail
    BY SMTT(40), <1>13 DEF TaskConnectFail, Publish, Plain
<1>14. CASE SessionSend
  <2> DEFINE e == <<nextId, Head(requests)>>
  <2>1. /\ pending' = pending \cup {e}
        /\ toServer' = Append(toServer, e)
        /\ nextId' = nextId + 1
        /\ e \in Nat \X Calls /\ e[1] = nextId
    BY SMTT(40), <1>14 DEF SessionSend, SessionReady
  <2>2. \A p \in pending' : p[1] \in 1 .. nextId' - 1
    BY <2>1, SMTT(20)
  <2>3. \A p, q \in pending' : p[1] = q[1] => p = q
    <3>1. \A p \in pending : p[1] # e[1]
      BY <2>1, SMTT(20)
    <3>2. QED
      BY <2>1, <3>1
  <2>4. ASSUME NEW i \in DOMAIN toServer'
        PROVE  /\ toServer'[i][1] \in 1 .. nextId' - 1
               /\ \A p \in pending' : p[1] = toServer'[i][1] => p = toServer'[i]
    <3>1. CASE i \in DOMAIN toServer
      <4>1. toServer'[i] = toServer[i]
        BY <2>1, <3>1, SMTT(20)
      <4>2. QED
        BY SMTT(40), <2>1, <3>1, <4>1
    <3>2. CASE i = Len(toServer) + 1
      <4>1. toServer'[i] = e
        BY <2>1, <3>2, SMTT(20)
      <4>2. QED
        BY SMTT(40), <2>1, <2>2, <2>3, <4>1
    <3>3. QED
      BY <2>1, <3>1, <3>2, SMTT(20)
  <2>5. QED
    BY <2>2, <2>3, <2>4
<1>15. CASE SessionSendFails
    BY SMTT(40), <1>15 DEF SessionSendFails, SessionReady, EndSession, Answer, Abandon,
       Publish, Plain
<1>16. CASE SessionReceive
    BY <1>16 DEF SessionReceive, SessionReady, Answer, Plain
<1>17. CASE SessionLost
    BY SMTT(40), <1>17 DEF SessionLost, SessionReady, EndSession, Answer, Abandon,
       Publish, Plain
<1>18. CASE BackoffReply
    BY <1>18 DEF BackoffReply, Answer
<1>19. CASE TaskClose
    BY SMTT(40), <1>19 DEF TaskClose
<1>20. CASE TaskDrain
    BY <1>20 DEF TaskDrain, Answer
<1>21. CASE TaskEnd
    BY SMTT(40), <1>21 DEF TaskEnd
<1>22. CASE BackoffWake
    BY <1>22 DEF BackoffWake
<1>23. CASE ServerAnswer
  <2>1. /\ toServer # <<>> /\ toServer' = Tail(toServer)
        /\ UNCHANGED <<pending, nextId>>
    BY <1>23 DEF ServerAnswer
  <2>2. ASSUME NEW i \in DOMAIN toServer'
        PROVE  i + 1 \in DOMAIN toServer /\ toServer'[i] = toServer[i + 1]
    BY SMTT(40), <2>1
  <2>3. QED
    BY SMTT(40), <2>1, <2>2
<1>24. CASE ServerPush
    BY <1>24 DEF ServerPush
<1>25. CASE Break
    BY SMTT(40), <1>25 DEF Break
<1>26. CASE Settled
    BY <1>26 DEF Settled
<1>27. CASE UNCHANGED vars
    BY <1>27
<1>28. QED
    BY <1>1, <1>2, <1>3, <1>4, <1>5, <1>6, <1>7, <1>8, <1>9, <1>10,
       <1>11, <1>12, <1>13, <1>14, <1>15, <1>16, <1>17, <1>18, <1>19, <1>20,
       <1>21, <1>22, <1>23, <1>24, <1>25, <1>26, <1>27
       DEF Next, TaskStep, CallStep

\* Every step keeps positive answers tied to the server's handle.
LEMMA AnswerStep == Inv /\ [Next]_vars => AnswerInv'
PROOF
<1> SUFFICES ASSUME Inv, [Next]_vars PROVE AnswerInv'
    OBVIOUS
<1> USE DEF vars, callerVars, handleVars, taskVars, daemonVars, serverVars
<1>f. ASSUME UNCHANGED <<pending, nextId, fromServer, serverHandle>> PROVE AnswerInv'
    BY <1>f DEF Inv, AnswerInv
<1>1. ASSUME NEW c \in Calls, CallStart(c) PROVE AnswerInv'
    BY <1>f, <1>1 DEF CallStart
<1>2. ASSUME NEW c \in Calls, CallQueue(c) PROVE AnswerInv'
    BY <1>f, <1>2 DEF CallQueue
<1>3. ASSUME NEW c \in Calls, CallRefused(c) PROVE AnswerInv'
    BY <1>f, <1>3 DEF CallRefused
<1>4. ASSUME NEW c \in Calls, CallTimeout(c) PROVE AnswerInv'
    BY <1>f, <1>4 DEF CallTimeout
<1>5. ASSUME NEW c \in Calls, CallFinish(c) PROVE AnswerInv'
    BY <1>f, <1>5 DEF CallFinish
<1>6. CASE Stop
    BY <1>f, <1>6 DEF Stop
<1>7. CASE Consume
    BY <1>f, <1>7 DEF Consume
<1>8. CASE TaskPublished
    BY <1>f, <1>8 DEF TaskPublished
<1>9. CASE TaskConnecting
    BY <1>f, <1>9 DEF TaskConnecting, Publish, Plain
<1>10. CASE TaskConnectFail
    BY <1>f, <1>10 DEF TaskConnectFail, Publish, Plain
<1>11. CASE BackoffReply
    BY <1>f, <1>11 DEF BackoffReply, Answer
<1>12. CASE TaskClose
    BY <1>f, <1>12 DEF TaskClose
<1>13. CASE TaskDrain
    BY <1>f, <1>13 DEF TaskDrain, Answer
<1>14. CASE TaskEnd
    BY <1>f, <1>14 DEF TaskEnd
<1>15. CASE BackoffWake
    BY <1>f, <1>15 DEF BackoffWake
<1>16. CASE Settled
    BY <1>f, <1>16 DEF Settled
<1>17. CASE UNCHANGED vars
    BY <1>f, <1>17
<1> USE DepthAssumption, BoundsAssumption, CallsAssumption
<1> USE DEF AnswerInv, IdInv, PhaseInv, Inv, TypeOK, Frame
<1>18. ASSUME NEW c \in Calls, ServerLate(c) PROVE AnswerInv'
    BY <1>18 DEF ServerLate, Claim
<1>19. CASE TaskStop
    BY <1>19, SMTT(20) DEF TaskStop, Answer, Abandon, Publish, Plain
<1>20. CASE TaskConnect
    BY <1>20, SMTT(20) DEF TaskConnect, Publish
<1>21. CASE SessionSend
  <2> DEFINE e == <<nextId, Head(requests)>>
  <2>1. /\ pending' = pending \cup {e}
        /\ nextId' = nextId + 1
        /\ e[1] = nextId
        /\ UNCHANGED <<fromServer, serverHandle>>
    BY <1>21 DEF SessionSend, SessionReady
  <2>2. ASSUME NEW i \in DOMAIN fromServer
        PROVE  fromServer[i].id \in Nat /\ fromServer[i].id < nextId
    BY FrameFields
  <2>3. QED
    BY SMTT(40), <2>1, <2>2
<1>22. CASE SessionSendFails
    BY SMTT(40), <1>22 DEF SessionSendFails, SessionReady, EndSession, Answer, Abandon,
       Publish, Plain
<1>23. CASE SessionReceive
    BY SMTT(40), <1>23 DEF SessionReceive, SessionReady, Answer, Plain
<1>24. CASE SessionLost
    BY <1>24 DEF SessionLost, SessionReady, EndSession, Answer, Abandon,
       Publish, Plain
<1>25. CASE ServerAnswer
  <2>0. PICK ok \in BOOLEAN :
          /\ Claim(Head(toServer)[2], ok)
          /\ fromServer' = Append(fromServer, [id |-> Head(toServer)[1], ok |-> ok])
    BY <1>25 DEF ServerAnswer
  <2> DEFINE e == toServer[1]
             f == [id |-> e[1], ok |-> ok]
  <2>1. /\ 1 \in DOMAIN toServer /\ e \in Nat \X Calls
        /\ fromServer' = Append(fromServer, f)
        /\ ok \in BOOLEAN /\ (ok => serverHandle = NoHandle)
        /\ serverHandle' = IF ok THEN e[2] ELSE serverHandle
        /\ UNCHANGED <<pending, nextId>>
    BY SMTT(40), <1>25, <2>0 DEF ServerAnswer, Claim
  <2>2. /\ e[1] < nextId /\ e[2] # NoHandle
        /\ \A p \in pending : p[1] = e[1] => p = e
    BY SMTT(40), <2>1
  <2>3. ASSUME NEW i \in DOMAIN fromServer'
        PROVE  /\ fromServer'[i].id < nextId'
               /\ fromServer'[i].id # 0 /\ fromServer'[i].ok =>
                    /\ serverHandle' # NoHandle
                    /\ \A p \in pending' :
                         p[1] = fromServer'[i].id => p[2] = serverHandle'
    <3>1. CASE i \in DOMAIN fromServer
      <4>1. fromServer'[i] = fromServer[i]
        BY SMTT(40), <2>1, <3>1
      <4>2. QED
        BY SMTT(40), <2>1, <3>1, <4>1
    <3>2. CASE i = Len(fromServer) + 1
      <4>1. fromServer'[i] = f
        BY <2>1, <3>2, SMTT(20)
      <4>2. f.id = e[1] /\ (f.ok = ok)
        OBVIOUS
      <4>3. QED
        BY SMTT(40), <2>1, <2>2, <4>1, <4>2
    <3>3. QED
      BY SMTT(40), <2>1, <3>1, <3>2
  <2>4. QED
    BY SMTT(40), <2>3
<1>26. CASE ServerPush
  <2> DEFINE f == [id |-> 0, ok |-> TRUE]
  <2>1. /\ fromServer' = Append(fromServer, f)
        /\ UNCHANGED <<pending, nextId, serverHandle>>
    BY <1>26 DEF ServerPush
  <2>2. ASSUME NEW i \in DOMAIN fromServer'
        PROVE  \/ i \in DOMAIN fromServer /\ fromServer'[i] = fromServer[i]
               \/ fromServer'[i] = f
    BY SMTT(40), <2>1
  <2>3. f.id = 0
    OBVIOUS
  <2>4. QED
    BY SMTT(40), <2>1, <2>2, <2>3
<1>27. CASE Break
    BY SMTT(40), <1>27 DEF Break
<1> HIDE DEF AnswerInv, IdInv, PhaseInv, Inv, TypeOK, Frame
<1>28. QED
    BY <1>1, <1>2, <1>3, <1>4, <1>5, <1>6, <1>7, <1>8, <1>9, <1>10,
       <1>11, <1>12, <1>13, <1>14, <1>15, <1>16, <1>17, <1>18, <1>19, <1>20,
       <1>21, <1>22, <1>23, <1>24, <1>25, <1>26, <1>27
       DEF Next, TaskStep, CallStep

\* Every step keeps queued snapshots within what the server had.
LEMMA SnapshotStep == Inv /\ [Next]_vars => SnapshotInv'
PROOF
<1> SUFFICES ASSUME Inv, [Next]_vars PROVE SnapshotInv'
    OBVIOUS
<1> USE DEF vars, callerVars, handleVars, taskVars, daemonVars, serverVars
<1>f. ASSUME UNCHANGED <<publishing, events, serverHandle>> PROVE SnapshotInv'
    BY <1>f DEF Inv, SnapshotInv
<1>1. ASSUME NEW c \in Calls, CallStart(c) PROVE SnapshotInv'
    BY <1>f, <1>1 DEF CallStart
<1>2. ASSUME NEW c \in Calls, CallQueue(c) PROVE SnapshotInv'
    BY <1>f, <1>2 DEF CallQueue
<1>3. ASSUME NEW c \in Calls, CallRefused(c) PROVE SnapshotInv'
    BY <1>f, <1>3 DEF CallRefused
<1>4. ASSUME NEW c \in Calls, CallTimeout(c) PROVE SnapshotInv'
    BY <1>f, <1>4 DEF CallTimeout
<1>5. ASSUME NEW c \in Calls, CallFinish(c) PROVE SnapshotInv'
    BY <1>f, <1>5 DEF CallFinish
<1>6. CASE Stop
    BY <1>f, <1>6 DEF Stop
<1>7. CASE SessionSend
    BY <1>f, <1>7 DEF SessionSend, SessionReady
<1>8. CASE BackoffReply
    BY <1>f, <1>8 DEF BackoffReply, Answer
<1>9. CASE TaskClose
    BY <1>f, <1>9 DEF TaskClose
<1>10. CASE TaskDrain
    BY <1>f, <1>10 DEF TaskDrain, Answer
<1>11. CASE TaskEnd
    BY <1>f, <1>11 DEF TaskEnd
<1>12. CASE BackoffWake
    BY <1>f, <1>12 DEF BackoffWake
<1>13. CASE ServerPush
    BY <1>f, <1>13 DEF ServerPush
<1>14. CASE Break
    BY <1>f, <1>14 DEF Break
<1>15. CASE Settled
    BY <1>f, <1>15 DEF Settled
<1>16. CASE UNCHANGED vars
    BY <1>f, <1>16
<1> USE DepthAssumption, BoundsAssumption, CallsAssumption
<1> USE DEF SnapshotInv, Inv, TypeOK, Event, State, Idle, Plain
<1>17. ASSUME NEW c \in Calls, ServerLate(c) PROVE SnapshotInv'
    BY SMTT(40), <1>17 DEF ServerLate, Claim
<1>18. CASE Consume
    BY SMTT(40), <1>18 DEF Consume
<1>19. CASE TaskPublished
    BY SMTT(40), <1>19 DEF TaskPublished
<1>20. CASE TaskStop
    BY SMTT(40), <1>20 DEF TaskStop, Answer, Abandon, Publish, Plain
<1>21. CASE TaskConnecting
    BY SMTT(40), <1>21 DEF TaskConnecting, Publish, Plain
<1>22. CASE TaskConnect
    BY SMTT(40), <1>22 DEF TaskConnect, Publish
<1>23. CASE TaskConnectFail
    BY SMTT(40), <1>23 DEF TaskConnectFail, Publish, Plain
<1>24. CASE SessionSendFails
    BY SMTT(40), <1>24 DEF SessionSendFails, SessionReady, EndSession, Answer, Abandon,
       Publish, Plain
<1>25. CASE SessionReceive
    BY SMTT(40), <1>25 DEF SessionReceive, SessionReady, Answer, Plain
<1>26. CASE SessionLost
    BY SMTT(40), <1>26 DEF SessionLost, SessionReady, EndSession, Answer, Abandon,
       Publish, Plain
<1>27. CASE ServerAnswer
    BY SMTT(40), <1>27 DEF ServerAnswer, Claim
<1> HIDE DEF SnapshotInv, Inv, TypeOK, Event, State, Idle, Plain
<1>28. QED
    BY <1>1, <1>2, <1>3, <1>4, <1>5, <1>6, <1>7, <1>8, <1>9, <1>10,
       <1>11, <1>12, <1>13, <1>14, <1>15, <1>16, <1>17, <1>18, <1>19, <1>20,
       <1>21, <1>22, <1>23, <1>24, <1>25, <1>26, <1>27
       DEF Next, TaskStep, CallStep

\* Every step keeps successful replies true.
LEMMA ReplyStep == Inv /\ [Next]_vars => ReplyMatches'
PROOF
<1> SUFFICES ASSUME Inv, [Next]_vars PROVE ReplyMatches'
    OBVIOUS
<1> USE DEF vars, callerVars, handleVars, taskVars, daemonVars, serverVars
<1>f. ASSUME UNCHANGED <<outcome, serverHandle>> PROVE ReplyMatches'
    BY <1>f DEF Inv, ReplyMatches
<1>1. ASSUME NEW c \in Calls, CallStart(c) PROVE ReplyMatches'
    BY <1>f, <1>1 DEF CallStart
<1>2. ASSUME NEW c \in Calls, CallQueue(c) PROVE ReplyMatches'
    BY <1>f, <1>2 DEF CallQueue
<1>3. ASSUME NEW c \in Calls, CallFinish(c) PROVE ReplyMatches'
    BY <1>f, <1>3 DEF CallFinish
<1>4. CASE Stop
    BY <1>f, <1>4 DEF Stop
<1>5. CASE Consume
    BY <1>f, <1>5 DEF Consume
<1>6. CASE TaskPublished
    BY <1>f, <1>6 DEF TaskPublished
<1>7. CASE TaskConnecting
    BY <1>f, <1>7 DEF TaskConnecting, Publish, Plain
<1>8. CASE TaskConnect
    BY <1>f, <1>8 DEF TaskConnect, Publish
<1>9. CASE TaskConnectFail
    BY <1>f, <1>9 DEF TaskConnectFail, Publish, Plain
<1>10. CASE SessionSend
    BY <1>f, <1>10 DEF SessionSend, SessionReady
<1>11. CASE TaskClose
    BY <1>f, <1>11 DEF TaskClose
<1>12. CASE TaskEnd
    BY <1>f, <1>12 DEF TaskEnd
<1>13. CASE BackoffWake
    BY <1>f, <1>13 DEF BackoffWake
<1>14. CASE ServerPush
    BY <1>f, <1>14 DEF ServerPush
<1>15. CASE Break
    BY <1>f, <1>15 DEF Break
<1>16. CASE Settled
    BY <1>f, <1>16 DEF Settled
<1>17. CASE UNCHANGED vars
    BY <1>f, <1>17
<1> USE DepthAssumption, BoundsAssumption, CallsAssumption
<1> USE DEF ReplyMatches, AnswerInv, Inv, TypeOK, Frame, Handle
<1>18. ASSUME NEW c \in Calls, CallRefused(c) PROVE ReplyMatches'
    BY SMTT(40), <1>18 DEF CallRefused
<1>19. ASSUME NEW c \in Calls, CallTimeout(c) PROVE ReplyMatches'
    BY <1>19 DEF CallTimeout
<1>20. ASSUME NEW c \in Calls, ServerLate(c) PROVE ReplyMatches'
    BY <1>20 DEF ServerLate, Claim
<1>21. CASE TaskStop
    BY SMTT(40), <1>21 DEF TaskStop, Answer, Abandon, Publish, Plain
<1>22. CASE SessionSendFails
    BY SMTT(40), <1>22 DEF SessionSendFails, SessionReady, EndSession, Answer, Abandon,
       Publish, Plain
<1>23. CASE SessionReceive
  <2> DEFINE f == Head(fromServer)
             mine == {p \in pending : p[1] = f.id}
             called == {p[2] : p \in mine}
  <2>0. fromServer # <<>> /\ serverHandle' = serverHandle
    BY <1>23 DEF SessionReceive
  <2>a. Answer(called, IF f.ok THEN "ok" ELSE "refused")
    BY <1>23 DEF SessionReceive
  <2>1. 1 \in DOMAIN fromServer /\ f = fromServer[1]
    BY SMTT(40), <2>0
  <2>2. ASSUME NEW c \in Calls, outcome'[c] = "ok"
        PROVE  outcome[c] = "ok" \/ (c \in called /\ f.ok)
    BY SMTT(40), <2>a, <2>2 DEF Answer
  <2>3. ASSUME NEW c \in called, f.ok
        PROVE  c = serverHandle
    <3>1. PICK p \in mine : p[2] = c
      BY SMTT(40), <2>3
    <3>2. f.id # 0
      BY SMTT(40), <3>1 DEF IdInv
    <3>3. QED
      BY SMTT(40), <2>1, <2>3, <3>1, <3>2
  <2>4. QED
    BY <2>0, <2>2, <2>3
<1>24. CASE SessionLost
    BY SMTT(40), <1>24 DEF SessionLost, SessionReady, EndSession, Answer, Abandon,
       Publish, Plain
<1>25. CASE BackoffReply
    BY SMTT(40), <1>25 DEF BackoffReply, Answer
<1>26. CASE TaskDrain
    BY SMTT(40), <1>26 DEF TaskDrain, Answer
<1>27. CASE ServerAnswer
    BY SMTT(40), <1>27 DEF ServerAnswer, Claim
<1> HIDE DEF ReplyMatches, AnswerInv, Inv, TypeOK, Frame, Handle
<1>28. QED
    BY <1>1, <1>2, <1>3, <1>4, <1>5, <1>6, <1>7, <1>8, <1>9, <1>10,
       <1>11, <1>12, <1>13, <1>14, <1>15, <1>16, <1>17, <1>18, <1>19, <1>20,
       <1>21, <1>22, <1>23, <1>24, <1>25, <1>26, <1>27
       DEF Next, TaskStep, CallStep

\* Every step keeps the cached handle one the server has.
LEMMA AccountStep == Inv /\ [Next]_vars => AccountNotInvented'
PROOF
<1> SUFFICES ASSUME Inv, [Next]_vars PROVE AccountNotInvented'
    OBVIOUS
<1> USE DEF vars, callerVars, handleVars, taskVars, daemonVars, serverVars
<1>f. ASSUME UNCHANGED <<account, serverHandle>> PROVE AccountNotInvented'
    BY <1>f DEF Inv, AccountNotInvented
<1>1. ASSUME NEW c \in Calls, CallStart(c) PROVE AccountNotInvented'
    BY <1>f, <1>1 DEF CallStart
<1>2. ASSUME NEW c \in Calls, CallQueue(c) PROVE AccountNotInvented'
    BY <1>f, <1>2 DEF CallQueue
<1>3. ASSUME NEW c \in Calls, CallRefused(c) PROVE AccountNotInvented'
    BY <1>f, <1>3 DEF CallRefused
<1>4. ASSUME NEW c \in Calls, CallTimeout(c) PROVE AccountNotInvented'
    BY <1>f, <1>4 DEF CallTimeout
<1>5. CASE Stop
    BY <1>f, <1>5 DEF Stop
<1>6. CASE TaskPublished
    BY <1>f, <1>6 DEF TaskPublished
<1>7. CASE TaskStop
    BY <1>f, <1>7 DEF TaskStop, Answer, Abandon, Publish, Plain
<1>8. CASE TaskConnecting
    BY <1>f, <1>8 DEF TaskConnecting, Publish, Plain
<1>9. CASE TaskConnect
    BY <1>f, <1>9 DEF TaskConnect, Publish
<1>10. CASE TaskConnectFail
    BY <1>f, <1>10 DEF TaskConnectFail, Publish, Plain
<1>11. CASE SessionSend
    BY <1>f, <1>11 DEF SessionSend, SessionReady
<1>12. CASE SessionSendFails
    BY <1>f, <1>12 DEF SessionSendFails, SessionReady, EndSession, Answer, Abandon,
    Publish, Plain
<1>13. CASE SessionReceive
    BY <1>f, <1>13 DEF SessionReceive, SessionReady, Answer, Plain
<1>14. CASE SessionLost
    BY <1>f, <1>14 DEF SessionLost, SessionReady, EndSession, Answer, Abandon,
    Publish, Plain
<1>15. CASE BackoffReply
    BY <1>f, <1>15 DEF BackoffReply, Answer
<1>16. CASE TaskClose
    BY <1>f, <1>16 DEF TaskClose
<1>17. CASE TaskDrain
    BY <1>f, <1>17 DEF TaskDrain, Answer
<1>18. CASE TaskEnd
    BY <1>f, <1>18 DEF TaskEnd
<1>19. CASE BackoffWake
    BY <1>f, <1>19 DEF BackoffWake
<1>20. CASE ServerPush
    BY <1>f, <1>20 DEF ServerPush
<1>21. CASE Break
    BY <1>f, <1>21 DEF Break
<1>22. CASE Settled
    BY <1>f, <1>22 DEF Settled
<1>23. CASE UNCHANGED vars
    BY <1>f, <1>23
<1> USE DepthAssumption, BoundsAssumption, CallsAssumption
<1> USE DEF AccountNotInvented, ReplyMatches, SnapshotInv, Inv, TypeOK, Handle, Event, State, Plain
<1>24. ASSUME NEW c \in Calls, CallFinish(c) PROVE AccountNotInvented'
    BY SMTT(40), <1>24 DEF CallFinish
<1>25. ASSUME NEW c \in Calls, ServerLate(c) PROVE AccountNotInvented'
    BY SMTT(40), <1>25 DEF ServerLate, Claim
<1>26. CASE Consume
    BY SMTT(40), <1>26 DEF Consume
<1>27. CASE ServerAnswer
    BY SMTT(40), <1>27 DEF ServerAnswer, Claim
<1> HIDE DEF AccountNotInvented, ReplyMatches, SnapshotInv, Inv, TypeOK, Handle, Event, State, Plain
<1>28. QED
    BY <1>1, <1>2, <1>3, <1>4, <1>5, <1>6, <1>7, <1>8, <1>9, <1>10,
       <1>11, <1>12, <1>13, <1>14, <1>15, <1>16, <1>17, <1>18, <1>19, <1>20,
       <1>21, <1>22, <1>23, <1>24, <1>25, <1>26, <1>27
       DEF Next, TaskStep, CallStep

\* The initial state satisfies the invariant.
LEMMA InvInit == Init => Inv
PROOF
<1> SUFFICES ASSUME Init PROVE Inv
    BY SMTT(40)
<1> USE DepthAssumption, BoundsAssumption, CallsAssumption
<1> USE DEF Init, Plain
<1>1. TypeOK
  <2>1. /\ caller \in [Calls -> {"new", "sending", "waiting", "answered", "done"}]
        /\ outcome \in [Calls -> Outcomes]
    BY SMTT(40) DEF Outcomes
  <2>2. state \in State /\ publishing \in Event \cup {Idle}
    BY DEF State, Handle, Event, Idle
  <2>3. requests \in Seq(Calls) /\ Len(requests) <= RequestDepth
    OBVIOUS
  <2>4. events \in Seq(Event) /\ Len(events) <= EventDepth
    OBVIOUS
  <2>5. toServer \in Seq(Nat \X Calls) /\ fromServer \in Seq(Frame)
    OBVIOUS
  <2>6. account \in Handle \cup {NoAccount} /\ serverHandle \in Handle
    BY DEF Handle
  <2>7. connections \in 0 .. MaxConnections /\ pushes \in 0 .. MaxPushes
    OBVIOUS
  <2>8. /\ pending \subseteq (Nat \X Calls) /\ nextId \in Nat \ {0}
        /\ linger \subseteq Calls
    OBVIOUS
  <2>b. closed \in BOOLEAN /\ stop \in BOOLEAN
    OBVIOUS
  <2>9. /\ phase \in {"top", "connecting", "session", "backoff", "stopping",
                      "draining", "ended"}
        /\ socket \in {"none", "open", "broken"}
    OBVIOUS
  <2> HIDE DEF Init
  <2>10. QED
    BY <2>1, <2>2, <2>3, <2>4, <2>5, <2>6, <2>7, <2>8, <2>9,
       <2>b DEF TypeOK
<1>2. PhaseInv /\ IdInv /\ AnswerInv
    BY SMTT(40) DEF PhaseInv, IdInv, AnswerInv
<1>3. SnapshotInv
    BY DEF SnapshotInv, Idle
<1>4. ReplyMatches /\ AccountNotInvented
    BY DEF ReplyMatches, AccountNotInvented
<1>5. QED
    BY <1>1, <1>2, <1>3, <1>4 DEF Inv

\* The inductive invariant holds throughout: a session's ids, answers and
\* snapshots (hosted_service.rs, run and session) stay consistent.
THEOREM Invariance == SafetySpec => []Inv
PROOF
<1>1. Inv /\ [Next]_vars => Inv'
    BY TypeStep, PhaseStep, IdStep, AnswerStep, SnapshotStep, ReplyStep,
       AccountStep DEF Inv
<1>2. QED
    BY InvInit, <1>1, PTL DEF SafetySpec

\* Every queue, table and state of the transport keeps its type, also the
\* request ids and the calls of callers that gave up (hosted_service.rs).
THEOREM TypeCorrect == SafetySpec => []TypeOK
PROOF
<1>1. Inv => TypeOK
    BY DEF Inv
<1>2. QED
    BY Invariance, <1>1, PTL

\* A call that returns success was carried out by the server, across lost
\* connections, reused ids and callers that gave up (session()).
THEOREM RepliesMatch == SafetySpec => []ReplyMatches
PROOF
<1>1. Inv => ReplyMatches
    BY DEF Inv
<1>2. QED
    BY Invariance, <1>1, PTL

\* The cached account never shows a handle the server does not have (core.rs,
\* receive_hosted_event and hosted_claim_handle).
THEOREM AccountsAreReal == SafetySpec => []AccountNotInvented
PROOF
<1>1. Inv => AccountNotInvented
    BY DEF Inv
<1>2. QED
    BY Invariance, <1>1, PTL

\* Once the watch says Stopped, which is what quiesce() waits for, the transport
\* sends nothing and holds no socket (hosted_service.rs, run).
THEOREM StoppedStaysQuiet == SafetySpec => StoppedIsQuiet
PROOF
<1> DEFINE Quiet == /\ state' = state
               /\ toServer' = <<>>
               /\ socket' = "none"
               /\ pending' = {}
<1>1. ASSUME Inv, state.label = "stopped", [Next]_vars
      PROVE  Quiet
  <2> USE DEF Inv, PhaseInv, TypeOK, State, vars, callerVars, handleVars,
              taskVars, daemonVars, serverVars
  <2>1. /\ phase \in {"stopping", "draining", "ended"}
        /\ toServer = <<>> /\ socket = "none" /\ pending = {}
    BY SMTT(40), <1>1
  <2>2. ASSUME NEW c \in Calls, CallStart(c) \/ CallStep(c) \/ ServerLate(c)
        PROVE  Quiet
    BY SMTT(40), <2>1, <2>2 DEF CallStart, CallStep, CallQueue, CallRefused, CallTimeout,
                      CallFinish, ServerLate
  <2>3. CASE Stop \/ Consume \/ Settled
    BY SMTT(40), <2>1, <2>3 DEF Stop, Consume, Settled
  <2>4. CASE TaskStep \/ BackoffWake
    BY <2>1, <2>4 DEF TaskStep, TaskPublished, TaskStop, TaskConnecting,
    TaskConnect, TaskConnectFail, SessionSend, SessionSendFails,
    SessionReceive, SessionLost, SessionReady, BackoffReply, BackoffWake,
    TaskClose, TaskDrain, TaskEnd
  <2>5. CASE ServerAnswer \/ ServerPush \/ Break
    BY <2>1, <2>5 DEF ServerAnswer, ServerPush, Break
  <2>6. CASE UNCHANGED vars
    BY <2>1, <2>6
  <2>7. QED
    BY <1>1, <2>2, <2>3, <2>4, <2>5, <2>6 DEF Next
<1>2. Inv /\ [Next]_vars => [state.label = "stopped" => Quiet]_vars
    BY <1>1
<1>3. QED
    BY Invariance, <1>2, PTL DEF SafetySpec, StoppedIsQuiet
=============================================================================
