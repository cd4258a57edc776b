-------------------------- MODULE DaemonCoreProofs --------------------------
(* Machine-checked proofs of the safety properties of DaemonCore, for every *)
(* set of clients and every capacity of the queues.                         *)
EXTENDS DaemonCore, TLAPS

\* A leaf is tried with Zenon, which is soon done, and then with SMT, unless it
\* names its prover.
USE ZenonT(10), SMTT(20)

(* The daemon starts in a state of the declared type. *)
LEMMA TypeInit == Init => TypeOK
<1> SUFFICES ASSUME Init PROVE TypeOK
  OBVIOUS
<1>1. slot \in BOOLEAN /\ stop \in BOOLEAN /\ notified \in BOOLEAN /\ failed \in BOOLEAN
  BY ConfigAssumption DEF Init
<1>2. erased \in BOOLEAN /\ shutdown \in BOOLEAN /\ seen \in [{"main", "watcher"} -> BOOLEAN]
  BY DEF Init
<1>3. hosted \in {"connecting", "connected", "writing", "closing", "stopped", "ended"}
  BY DEF Init
<1>4. pc \in [Clients -> ClientSteps] /\ mailbox = <<>> /\ events = <<>>
  BY SMTT(40) DEF Init, ClientSteps
<1>5. requests \in 0..RequestQueue
  BY QueueAssumption, SMTT(20) DEF Init
<1> QED
  BY <1>1, <1>2, <1>3, <1>4, <1>5, SMTT(20) DEF Init, TypeOK, States, WorkerSteps, Files, Events

(* Every step of every task keeps the types. *)
LEMMA TypeStep == TypeOK /\ [Next]_vars => TypeOK'
<1> SUFFICES ASSUME TypeOK, [Next]_vars PROVE TypeOK'
  OBVIOUS
<1> USE ConfigAssumption, ClientsAssumption
      DEF TypeOK, States, Terminal, ClientSteps, WorkerSteps, Files, Events,
          lifeVars, lockVars, workVars, chatVars, hostVars, dataVars, mainVars
<1>1. ASSUME NEW c \in Clients, ClientConnect(c) PROVE TypeOK'
  BY <1>1, SMTT(20) DEF ClientConnect, Become
<1>2. ASSUME NEW c \in Clients, ClientLeave(c) PROVE TypeOK'
  BY <1>2, SMTT(20) DEF ClientLeave, Become
<1>3. ASSUME NEW c \in Clients, ClientRequest(c) PROVE TypeOK'
  BY <1>3, SMTT(20) DEF ClientRequest, Become, IsActive
<1>4. ASSUME NEW c \in Clients, ClientRespond(c) PROVE TypeOK'
  BY <1>4, SMTT(20) DEF ClientRespond, Become
<1>5. ASSUME NEW c \in Clients, DispatchAcquire(c) PROVE TypeOK'
  BY <1>5, SMTT(20) DEF DispatchAcquire, Become, IsActive
<1>6. ASSUME NEW c \in Clients, RunRead(c) PROVE TypeOK'
  BY <1>6, SMTT(20) DEF RunRead, Done, Become
<1>7. ASSUME NEW c \in Clients, RunIdentityWrite(c) PROVE TypeOK'
  <2>1. disk' \subseteq Files
    BY <1>7 DEF RunIdentityWrite, StoreWrite
  <2>2. pc' \in [Clients -> ClientSteps] /\ readers' \subseteq Clients \cup {"consumer"}
    BY <1>7, SMTT(20) DEF RunIdentityWrite, Done, Become
  <2> QED
    BY <1>7, <2>1, <2>2, SMTT(20) DEF RunIdentityWrite
<1>8. ASSUME NEW c \in Clients, RunIssueToken(c) PROVE TypeOK'
  <2>1. disk' \subseteq Files /\ token' \in {"none", "live"}
    BY <1>8 DEF RunIssueToken
  <2>2. pc' \in [Clients -> ClientSteps] /\ readers' \subseteq Clients \cup {"consumer"}
    BY <1>8 DEF RunIssueToken, Done, Become
  <2> QED
    BY <1>8, <2>1, <2>2, SMTT(20) DEF RunIssueToken
<1>9. ASSUME NEW c \in Clients, RunChat(c) PROVE TypeOK'
  BY <1>9, SMTT(20) DEF RunChat, Become
<1>10. ASSUME NEW c \in Clients, RunHosted(c) PROVE TypeOK'
  BY <1>10, SMTT(20) DEF RunHosted, Done, Become
<1>11. ASSUME NEW c \in Clients, ChatSend(c) PROVE TypeOK'
  BY <1>11, SMTT(20) DEF ChatSend, Become
<1>12. ASSUME NEW c \in Clients, ChatStopped(c) PROVE TypeOK'
  BY <1>12, SMTT(20) DEF ChatStopped, Done, Become
<1>13. ASSUME NEW c \in Clients, HostedReturn(c) PROVE TypeOK'
  BY <1>13, SMTT(20) DEF HostedReturn, Done, Become
<1>14. ASSUME NEW c \in Clients, PanicRedeem(c) PROVE TypeOK'
  BY <1>14, SMTT(20) DEF PanicRedeem, Become
<1>15. ASSUME NEW c \in Clients, PanicBegin(c) PROVE TypeOK'
  BY <1>15, SMTT(20) DEF PanicBegin, Become, IsActive
<1>16. ASSUME NEW c \in Clients, PanicSupervised(c) PROVE TypeOK'
  BY <1>16, SMTT(20) DEF PanicSupervised, Become
<1>17. ASSUME NEW c \in Clients, ClientAborted(c) PROVE TypeOK'
  BY <1>17, SMTT(20) DEF ClientAborted, Become
<1>18. ASSUME ChatNotification PROVE TypeOK'
  BY <1>18, SMTT(20) DEF ChatNotification, StoreWrite
<1>19. ASSUME ChatTake PROVE TypeOK'
  BY <1>19, SMTT(20) DEF ChatTake
<1>20. ASSUME ChatServe PROVE TypeOK'
  <2>1. disk' \subseteq Files
    BY <1>20 DEF ChatServe, StoreWrite
  <2>2. pc' \in [Clients -> ClientSteps] /\ readers' \subseteq Clients \cup {"consumer"}
    BY <1>20 DEF ChatServe
  <2> QED
    BY <1>20, <2>1, <2>2, SMTT(20) DEF ChatServe
<1>21. ASSUME ChatClosed PROVE TypeOK'
  BY <1>21, SMTT(20) DEF ChatClosed
<1>22. ASSUME TransportConnect PROVE TypeOK'
  BY <1>22, SMTT(20) DEF TransportConnect, Transport
<1>23. ASSUME TransportDrop PROVE TypeOK'
  BY <1>23, SMTT(20) DEF TransportDrop, Transport
<1>24. ASSUME TransportReport PROVE TypeOK'
  BY <1>24, SMTT(20) DEF TransportReport, Transport
<1>25. ASSUME TransportStop PROVE TypeOK'
  BY <1>25, SMTT(20) DEF TransportStop, Transport
<1>26. ASSUME TransportEnd PROVE TypeOK'
  <2>1. 0 \in 0..RequestQueue
    BY ONLY QueueAssumption, SMTT(20)
  <2> QED
    BY <1>26, <2>1, SMTT(20) DEF TransportEnd, Transport
<1>27. ASSUME TransportPublish PROVE TypeOK'
  BY <1>27, SMTT(20) DEF TransportPublish
<1>28. ASSUME EventReceive PROVE TypeOK'
  BY <1>28, SMTT(20) DEF EventReceive
<1>29. ASSUME EventAcquire PROVE TypeOK'
  BY <1>29, SMTT(20) DEF EventAcquire, IsActive
<1>30. ASSUME EventApply PROVE TypeOK'
  BY <1>30, SMTT(20) DEF EventApply
<1>31. ASSUME WorkerChatSend PROVE TypeOK'
  BY <1>31, SMTT(20) DEF WorkerChatSend, WorkerStep
<1>32. ASSUME WorkerChatStopped PROVE TypeOK'
  BY <1>32, SMTT(20) DEF WorkerChatStopped, WorkerStep
<1>33. ASSUME WorkerTakeHosted PROVE TypeOK'
  <2>1. stop' \in BOOLEAN /\ slot' \in BOOLEAN
    BY <1>33 DEF WorkerTakeHosted
  <2>2. worker' \in WorkerSteps
    BY <1>33 DEF WorkerTakeHosted, WorkerStep
  <2> QED
    BY <1>33, <2>1, <2>2, SMTT(20) DEF WorkerTakeHosted
<1>34. ASSUME WorkerQuiesced PROVE TypeOK'
  BY <1>34, SMTT(20) DEF WorkerQuiesced, WorkerStep
<1>35. ASSUME WorkerLock PROVE TypeOK'
  BY <1>35, SMTT(20) DEF WorkerLock, WorkerStep
<1>36. ASSUME WorkerLocked PROVE TypeOK'
  BY <1>36, SMTT(20) DEF WorkerLocked, WorkerStep
<1>37. ASSUME WorkerWipe PROVE TypeOK'
  BY <1>37, SMTT(20) DEF WorkerWipe, WorkerStep
<1>38. ASSUME WorkerEraseKey PROVE TypeOK'
  <2>1. failed' \in BOOLEAN
    BY <1>38 DEF WorkerEraseKey
  <2>2. disk' \subseteq Files /\ erased' \in BOOLEAN
    BY <1>38 DEF WorkerEraseKey
  <2>3. worker' \in WorkerSteps
    BY <1>38 DEF WorkerEraseKey, WorkerStep
  <2> QED
    BY <1>38, <2>1, <2>2, <2>3, SMTT(20) DEF WorkerEraseKey
<1>39. ASSUME WorkerDeleteKey PROVE TypeOK'
  <2>1. failed' \in BOOLEAN
    BY <1>39 DEF WorkerDeleteKey
  <2>2. disk' \subseteq Files /\ erased' \in BOOLEAN
    BY <1>39 DEF WorkerDeleteKey
  <2>3. worker' \in WorkerSteps
    BY <1>39 DEF WorkerDeleteKey, WorkerStep
  <2> QED
    BY <1>39, <2>1, <2>2, <2>3, SMTT(20) DEF WorkerDeleteKey
<1>40. ASSUME WorkerRemoveDir PROVE TypeOK'
  <2>1. failed' \in BOOLEAN
    BY <1>40 DEF WorkerRemoveDir
  <2>2. disk' \subseteq Files /\ erased' \in BOOLEAN
    BY <1>40 DEF WorkerRemoveDir, InDirectory
  <2>3. worker' \in WorkerSteps
    BY <1>40 DEF WorkerRemoveDir, WorkerStep
  <2> QED
    BY <1>40, <2>1, <2>2, <2>3, SMTT(20) DEF WorkerRemoveDir
<1>41. ASSUME WorkerUnlock PROVE TypeOK'
  BY <1>41, SMTT(20) DEF WorkerUnlock, WorkerStep
<1>42. ASSUME WorkerPanics PROVE TypeOK'
  BY <1>42, SMTT(20) DEF WorkerPanics
<1>43. ASSUME WorkerFinish PROVE TypeOK'
  BY <1>43, SMTT(20) DEF WorkerFinish, WorkerStep
<1>44. ASSUME WorkerNotify PROVE TypeOK'
  BY <1>44, SMTT(20) DEF WorkerNotify, WorkerStep
<1>45. ASSUME Signal PROVE TypeOK'
  BY <1>45, SMTT(20) DEF Signal
<1>46. ASSUME WatcherSubscribe PROVE TypeOK'
  BY <1>46, SMTT(20) DEF WatcherSubscribe
<1>47. ASSUME WatcherCheck PROVE TypeOK'
  <2>1. shutdown' \in BOOLEAN /\ watcher' \in {"start", "check", "blocked", "fired"}
    BY <1>47 DEF WatcherCheck
  <2> QED
    BY <1>47, <2>1, SMTT(20) DEF WatcherCheck
<1>48. ASSUME WatcherWake PROVE TypeOK'
  BY <1>48, SMTT(20) DEF WatcherWake
<1>49. ASSUME MainDrain PROVE TypeOK'
  BY <1>49, SMTT(20) DEF MainDrain, MainKeeps, MainStep
<1>50. ASSUME MainDrainTimeout PROVE TypeOK'
  BY <1>50, SMTT(20) DEF MainDrainTimeout, MainKeeps, MainStep
<1>51. ASSUME MainDrained PROVE TypeOK'
  BY <1>51, SMTT(20) DEF MainDrained, MainKeeps
<1>52. ASSUME MainPrepare PROVE TypeOK'
  BY <1>52, SMTT(20) DEF MainPrepare, IsActive, MainKeeps
<1>53. ASSUME MainSubscribe PROVE TypeOK'
  BY <1>53, SMTT(20) DEF MainSubscribe, MainKeeps, MainStep
<1>54. ASSUME MainCheck PROVE TypeOK'
  BY <1>54, SMTT(20) DEF MainCheck, Terminal, MainKeeps, MainStep
<1>55. ASSUME MainWake PROVE TypeOK'
  BY <1>55, SMTT(20) DEF MainWake, MainKeeps, MainStep
<1>56. ASSUME MainStopHosted PROVE TypeOK'
  BY <1>56, SMTT(20) DEF MainStopHosted, MainKeeps, MainStep
<1>57. ASSUME MainJoinHosted PROVE TypeOK'
  BY <1>57, SMTT(20) DEF MainJoinHosted, MainKeeps, MainStep
<1>58. ASSUME UNCHANGED vars PROVE TypeOK'
  BY <1>58, SMTT(20) DEF vars
<1>59. ASSUME NEW c \in Clients, HostedSend(c) PROVE TypeOK'
  BY <1>59, QueueAssumption, SMTT(20) DEF HostedSend, Become
<1>60. ASSUME NEW c \in Clients, HostedSendFails(c) PROVE TypeOK'
  BY <1>60, QueueAssumption, SMTT(20) DEF HostedSendFails, Done, Become
<1>61. ASSUME TransportTake PROVE TypeOK'
  <2>1. hosted' \in {"connecting", "connected", "writing", "closing", "stopped", "ended"}
    BY <1>61 DEF TransportTake, Transport
  <2>2. publishing' \in Events \cup {"none"}
    BY <1>61 DEF TransportTake, Transport
  <2>3. requests' \in 0..RequestQueue
    <3>1. requests \in 0..RequestQueue
      BY DEF TypeOK
    <3>2. requests > 0 /\ requests' = requests - 1
      BY <1>61 DEF TransportTake
    <3> QED
      BY ONLY <3>1, <3>2, QueueAssumption, SMTT(20)
  <2>4. UNCHANGED <<lifeVars, pc, lockVars, workVars, chatVars, slot, stop, events, consumer,
                    event, dataVars, mainVars>>
    BY <1>61 DEF TransportTake, Transport
  <2> QED
    BY <2>1, <2>2, <2>3, <2>4, SMTT(20)
<1>62. ASSUME TransportPing PROVE TypeOK'
  BY <1>62, QueueAssumption, SMTT(20) DEF TransportPing, Transport
<1>63. ASSUME TransportClose PROVE TypeOK'
  BY <1>63, QueueAssumption, SMTT(20) DEF TransportClose, Transport
<1>64. ASSUME TransportWritten PROVE TypeOK'
  <2>1. hosted' \in {"connecting", "connected", "writing", "closing", "stopped", "ended"}
    BY <1>64 DEF TransportWritten, Transport
  <2>2. publishing' \in Events \cup {"none"}
    BY <1>64 DEF TransportWritten, Transport
  <2>3. requests' \in 0..RequestQueue
    <3>1. requests \in 0..RequestQueue
      BY DEF TypeOK
    <3>2. requests' = requests
      BY <1>64 DEF TransportWritten
    <3> QED
      BY ONLY <3>1, <3>2, QueueAssumption, SMTT(20)
  <2>4. UNCHANGED <<lifeVars, pc, lockVars, workVars, chatVars, slot, stop, events, consumer,
                    event, dataVars, mainVars>>
    BY <1>64 DEF TransportWritten, Transport
  <2> QED
    BY <2>1, <2>2, <2>3, <2>4, SMTT(20)
<1> QED
  BY <1>1, <1>2, <1>3, <1>4, <1>5, <1>6, <1>7, <1>8, <1>9, <1>10, <1>11,
     <1>12, <1>13, <1>14, <1>15, <1>16, <1>17, <1>18, <1>19, <1>20, <1>21, <1>22, <1>23, <1>24,
     <1>25, <1>26, <1>27, <1>28, <1>29, <1>30, <1>31, <1>32, <1>33, <1>34, <1>35, <1>36,
     <1>37, <1>38, <1>39, <1>40, <1>41, <1>42, <1>43, <1>44, <1>45, <1>46, <1>47, <1>48,
     <1>49, <1>50, <1>51, <1>52, <1>53, <1>54, <1>55, <1>56, <1>57, <1>58,
     <1>59, <1>60, <1>61, <1>62, <1>63, <1>64
  DEF Next, Environment, ClientStep, ChatActor, TransportTask, EventConsumer, Worker,
     Watcher, Main, Exited

(* Every reachable state of the daemon is of the declared type. *)
THEOREM TypeCorrect == SafetySpec => []TypeOK
<1> QED
  BY TypeInit, TypeStep, PTL DEF SafetySpec

-----------------------------------------------------------------------------
(* The invariant holds when the daemon has opened its store. *)
LEMMA InvInit == Init => Inv
<1> SUFFICES ASSUME Init PROVE Inv
  OBVIOUS
<1>1. TypeOK
  BY TypeInit
<1>2. WorkerInv /\ LockInv /\ KeyInv /\ NoUserOutlivesKeys /\ CleanInv /\ ExitInv
  BY DEF Init, WorkerInv, LockInv, KeyInv, NoUserOutlivesKeys, CleanInv, ExitInv,
     Locked, InOperation, Terminal
<1>3. QuietInv
  BY SMTT(40), ConfigAssumption DEF Init, QuietInv, AfterChat, Locked
<1> QED
  BY <1>1, <1>2, <1>3 DEF Inv

(* A client connecting, sending, reading its answer or leaving preserves the
   invariant. *)
LEMMA InvClientWire ==
  ASSUME Inv, TypeOK', NEW c \in Clients,
         ClientConnect(c) \/ ClientLeave(c) \/ ClientRequest(c)
         \/ ClientRespond(c) \/ ClientAborted(c)
  PROVE  Inv'
<1>0. pc \in [Clients -> ClientSteps] /\ state \in States /\ worker \in WorkerSteps
  BY DEF Inv, TypeOK
<1> USE ConfigAssumption, ClientsAssumption, <1>0
    DEF Inv, WorkerInv, LockInv, QuietInv, KeyInv, NoUserOutlivesKeys, CleanInv, ExitInv,
        Locked, AfterChat, Quiet, InOperation, Terminal, States, WorkerSteps, lifeVars,
        lockVars, workVars, chatVars, hostVars, dataVars, mainVars
<1>1. CASE ClientConnect(c)
  BY SMTT(40), <1>1 DEF ClientConnect, Become
<1>2. CASE ClientLeave(c)
  BY SMTT(40), <1>2 DEF ClientLeave, Become
<1>3. CASE ClientRequest(c)
  BY SMTT(40), <1>3 DEF ClientRequest, Become, IsActive
<1>4. CASE ClientRespond(c)
  BY SMTT(40), <1>4 DEF ClientRespond, Become
<1>5. CASE ClientAborted(c)
  BY SMTT(40), <1>5 DEF ClientAborted, Become
<1> HIDE DEF Inv
<1> QED
  BY <1>1, <1>2, <1>3, <1>4, <1>5

(* The request handlers preserve the invariant.  The delicate cases are
   DispatchAcquire (a new reader only while Active, hence before the worker
   exists) and RunIssueToken (a write no key guards). *)
LEMMA InvDispatch ==
  ASSUME Inv, TypeOK', NEW c \in Clients,
         DispatchAcquire(c) \/ RunRead(c) \/ RunIdentityWrite(c)
         \/ RunIssueToken(c) \/ RunChat(c) \/ RunHosted(c) \/ ChatSend(c)
         \/ ChatStopped(c) \/ HostedSend(c) \/ HostedSendFails(c) \/ HostedReturn(c)
  PROVE  Inv'
<1>0. pc \in [Clients -> ClientSteps] /\ state \in States /\ worker \in WorkerSteps
  BY DEF Inv, TypeOK
<1> USE ConfigAssumption, ClientsAssumption, <1>0
    DEF Inv, WorkerInv, LockInv, QuietInv, KeyInv, NoUserOutlivesKeys, CleanInv, ExitInv,
        Locked, AfterChat, Quiet, InOperation, Terminal, States, WorkerSteps, lifeVars,
        lockVars, workVars, chatVars, hostVars, dataVars, mainVars
<1>1. CASE DispatchAcquire(c)
  BY SMTT(40), <1>1 DEF DispatchAcquire, Become, IsActive
<1>2. CASE RunRead(c)
  BY SMTT(40), <1>2 DEF RunRead, Done, Become
<1>3. CASE RunIdentityWrite(c)
  BY SMTT(40), <1>3 DEF RunIdentityWrite, Done, StoreWrite, Become
<1>4. CASE RunIssueToken(c)
  BY SMTT(40), <1>4 DEF RunIssueToken, Done, Become
<1>5. CASE RunChat(c)
  BY SMTT(40), <1>5 DEF RunChat, Become
<1>6. CASE RunHosted(c)
  BY SMTT(40), <1>6 DEF RunHosted, Done, Become
<1>7. CASE ChatSend(c)
  BY SMTT(40), <1>7 DEF ChatSend, Become
<1>8. CASE ChatStopped(c)
  BY SMTT(40), <1>8 DEF ChatStopped, Done, Become
<1>9. CASE HostedReturn(c)
  BY SMTT(40), <1>9 DEF HostedReturn, Done, Become
<1>10. CASE HostedSend(c)
  BY SMTT(40), <1>10 DEF HostedSend, Become
<1>11. CASE HostedSendFails(c)
  BY SMTT(40), <1>11 DEF HostedSendFails, Done, Become
<1> HIDE DEF Inv
<1> QED
  BY <1>1, <1>2, <1>3, <1>4, <1>5, <1>6, <1>7, <1>8, <1>9, <1>10, <1>11

(* The panic request preserves the invariant; PanicRedeem removes a file
   outside the lock. *)
LEMMA InvPanicRequest ==
  ASSUME Inv, TypeOK', NEW c \in Clients,
         PanicRedeem(c) \/ PanicBegin(c) \/ PanicSupervised(c)
  PROVE  Inv'
<1>0. pc \in [Clients -> ClientSteps] /\ state \in States /\ worker \in WorkerSteps
  BY DEF Inv, TypeOK
<1> USE ConfigAssumption, ClientsAssumption, <1>0
    DEF Inv, WorkerInv, LockInv, QuietInv, KeyInv, NoUserOutlivesKeys, CleanInv, ExitInv,
        Locked, AfterChat, Quiet, InOperation, Terminal, States, WorkerSteps, lifeVars,
        lockVars, workVars, chatVars, hostVars, dataVars, mainVars
<1>1. CASE PanicRedeem(c)
  BY SMTT(40), <1>1 DEF PanicRedeem, Become
<1>2. CASE PanicBegin(c)
  BY SMTT(40), <1>2 DEF PanicBegin, Become, IsActive
<1>3. CASE PanicSupervised(c)
  BY SMTT(40), <1>3 DEF PanicSupervised, Become
<1> HIDE DEF Inv
<1> QED
  BY <1>1, <1>2, <1>3

(* The chat actor preserves the invariant. *)
LEMMA InvChat ==
  ASSUME Inv, TypeOK',
         ChatNotification \/ ChatTake \/ ChatServe \/ ChatClosed
  PROVE  Inv'
<1>0. pc \in [Clients -> ClientSteps] /\ state \in States /\ worker \in WorkerSteps
  BY DEF Inv, TypeOK
<1> USE ConfigAssumption, ClientsAssumption, <1>0
    DEF Inv, WorkerInv, LockInv, QuietInv, KeyInv, NoUserOutlivesKeys, CleanInv, ExitInv,
        Locked, AfterChat, Quiet, InOperation, Terminal, States, WorkerSteps, lifeVars,
        lockVars, workVars, chatVars, hostVars, dataVars, mainVars
<1>1. CASE ChatNotification
  BY SMTT(40), <1>1 DEF ChatNotification, StoreWrite
<1>2. CASE ChatTake
  BY SMTT(40), <1>2 DEF ChatTake
<1>3. CASE ChatServe
  BY SMTT(40), <1>3 DEF ChatServe, StoreWrite
<1>4. CASE ChatClosed
  BY SMTT(40), <1>4 DEF ChatClosed
<1> HIDE DEF Inv
<1> QED
  BY <1>1, <1>2, <1>3, <1>4

(* The transport and the consumer of its events preserve the invariant;
   EventAcquire, like DispatchAcquire, is a new reader only while Active. *)
LEMMA InvHosted ==
  ASSUME Inv, TypeOK',
         TransportConnect \/ TransportDrop \/ TransportReport
         \/ TransportTake \/ TransportPing \/ TransportClose \/ TransportWritten
         \/ TransportStop \/ TransportEnd \/ TransportPublish \/ EventReceive
         \/ EventAcquire \/ EventApply
  PROVE  Inv'
<1>0. pc \in [Clients -> ClientSteps] /\ state \in States /\ worker \in WorkerSteps
  BY DEF Inv, TypeOK
<1> USE ConfigAssumption, ClientsAssumption, <1>0
    DEF Inv, WorkerInv, LockInv, QuietInv, KeyInv, NoUserOutlivesKeys, CleanInv, ExitInv,
        Locked, AfterChat, Quiet, InOperation, Terminal, States, WorkerSteps, lifeVars,
        lockVars, workVars, chatVars, hostVars, dataVars, mainVars
<1>1. CASE TransportConnect
  BY SMTT(40), <1>1 DEF TransportConnect, Transport
<1>2. CASE TransportDrop
  BY SMTT(40), <1>2 DEF TransportDrop, Transport
<1>3. CASE TransportReport
  BY SMTT(40), <1>3 DEF TransportReport, Transport
<1>4. CASE TransportStop
  BY SMTT(40), <1>4 DEF TransportStop, Transport
<1>5. CASE TransportEnd
  BY SMTT(40), <1>5 DEF TransportEnd, Transport
<1>6. CASE TransportPublish
  BY SMTT(40), <1>6 DEF TransportPublish
<1>7. CASE EventReceive
  BY SMTT(40), <1>7 DEF EventReceive
<1>8. CASE EventAcquire
  BY SMTT(40), <1>8 DEF EventAcquire, IsActive
<1>9. CASE EventApply
  BY SMTT(40), <1>9 DEF EventApply
<1>10. CASE TransportTake
  BY SMTT(40), <1>10 DEF TransportTake, Transport
<1>11. CASE TransportPing
  BY SMTT(40), <1>11 DEF TransportPing, Transport
<1>12. CASE TransportClose
  BY SMTT(40), <1>12 DEF TransportClose, Transport
<1>13. CASE TransportWritten
  BY SMTT(40), <1>13 DEF TransportWritten, Transport
<1> HIDE DEF Inv
<1> QED
  BY <1>1, <1>2, <1>3, <1>4, <1>5, <1>6, <1>7, <1>8, <1>9, <1>10, <1>11, <1>12, <1>13

(* The erasure worker preserves the invariant; WorkerLocked finds no reader
   left. *)
LEMMA InvWorker ==
  ASSUME Inv, TypeOK',
         WorkerChatSend \/ WorkerChatStopped \/ WorkerTakeHosted
         \/ WorkerQuiesced \/ WorkerLock \/ WorkerLocked \/ WorkerWipe
         \/ WorkerEraseKey \/ WorkerDeleteKey \/ WorkerRemoveDir
         \/ WorkerUnlock \/ WorkerPanics \/ WorkerFinish \/ WorkerNotify
  PROVE  Inv'
<1>0. pc \in [Clients -> ClientSteps] /\ state \in States /\ worker \in WorkerSteps
  BY DEF Inv, TypeOK
<1> USE ConfigAssumption, ClientsAssumption, <1>0
    DEF Inv, WorkerInv, LockInv, QuietInv, KeyInv, NoUserOutlivesKeys, CleanInv, ExitInv,
        Locked, AfterChat, Quiet, InOperation, Terminal, States, WorkerSteps, lifeVars,
        lockVars, workVars, chatVars, hostVars, dataVars, mainVars
<1>1. CASE WorkerChatSend
  BY SMTT(40), <1>1 DEF WorkerChatSend, WorkerStep
<1>2. CASE WorkerChatStopped
  BY SMTT(40), <1>2 DEF WorkerChatStopped, WorkerStep
<1>3. CASE WorkerTakeHosted
  BY SMTT(40), <1>3 DEF WorkerTakeHosted, WorkerStep
<1>4. CASE WorkerQuiesced
  BY SMTT(40), <1>4 DEF WorkerQuiesced, WorkerStep
<1>5. CASE WorkerLock
  BY SMTT(40), <1>5 DEF WorkerLock, WorkerStep
<1>6. CASE WorkerLocked
  BY SMTT(40), <1>6 DEF WorkerLocked, WorkerStep
<1>7. CASE WorkerWipe
  BY SMTT(40), <1>7 DEF WorkerWipe, WorkerStep
<1>8. CASE WorkerEraseKey
  BY SMTT(40), <1>8 DEF WorkerEraseKey
<1>9. CASE WorkerDeleteKey
  BY SMTT(40), <1>9 DEF WorkerDeleteKey, WorkerStep
<1>10. CASE WorkerRemoveDir
  <2>1. disk \subseteq Files
    BY DEF TypeOK
  <2>2. ~failed' => disk' = {}
    BY <1>10, <2>1 DEF WorkerRemoveDir, InDirectory, WorkerStep, Files
  <2> QED
    BY SMTT(40), <1>10, <2>2 DEF WorkerRemoveDir, WorkerStep
<1>11. CASE WorkerUnlock
  BY SMTT(40), <1>11 DEF WorkerUnlock, WorkerStep
<1>12. CASE WorkerPanics
  BY SMTT(40), <1>12 DEF WorkerPanics
<1>13. CASE WorkerFinish
  BY SMTT(40), <1>13 DEF WorkerFinish, WorkerStep
<1>14. CASE WorkerNotify
  BY SMTT(40), <1>14 DEF WorkerNotify, WorkerStep
<1> HIDE DEF Inv
<1> QED
  BY <1>1, <1>2, <1>3, <1>4, <1>5, <1>6, <1>7, <1>8, <1>9, <1>10, <1>11, <1>12
   , <1>13, <1>14

(* Signals, the watcher, main and stuttering preserve the invariant. *)
LEMMA InvMain ==
  ASSUME Inv, TypeOK',
         Signal \/ WatcherSubscribe \/ WatcherCheck \/ WatcherWake
         \/ MainDrain \/ MainDrainTimeout \/ MainDrained \/ MainPrepare
         \/ MainSubscribe \/ MainCheck \/ MainWake \/ MainStopHosted
         \/ MainJoinHosted \/ UNCHANGED vars
  PROVE  Inv'
<1>0. pc \in [Clients -> ClientSteps] /\ state \in States /\ worker \in WorkerSteps
  BY DEF Inv, TypeOK
<1> USE ConfigAssumption, ClientsAssumption, <1>0
    DEF Inv, WorkerInv, LockInv, QuietInv, KeyInv, NoUserOutlivesKeys, CleanInv, ExitInv,
        Locked, AfterChat, Quiet, InOperation, Terminal, States, WorkerSteps, lifeVars,
        lockVars, workVars, chatVars, hostVars, dataVars, mainVars
<1>1. CASE Signal
  BY SMTT(40), <1>1 DEF Signal
<1>2. CASE WatcherSubscribe
  BY SMTT(40), <1>2 DEF WatcherSubscribe
<1>3. CASE WatcherCheck
  BY SMTT(40), <1>3 DEF WatcherCheck
<1>4. CASE WatcherWake
  BY SMTT(40), <1>4 DEF WatcherWake
<1>5. CASE MainDrain
  BY SMTT(40), <1>5 DEF MainDrain, MainKeeps, MainStep
<1>6. CASE MainDrainTimeout
  BY SMTT(40), <1>6 DEF MainDrainTimeout, MainKeeps, MainStep
<1>7. CASE MainDrained
  BY SMTT(40), <1>7 DEF MainDrained, MainKeeps
<1>8. CASE MainPrepare
  BY SMTT(40), <1>8 DEF MainPrepare, IsActive, MainKeeps
<1>9. CASE MainSubscribe
  BY SMTT(40), <1>9 DEF MainSubscribe, MainKeeps, MainStep
<1>10. CASE MainCheck
  BY SMTT(40), <1>10 DEF MainCheck, MainKeeps, MainStep
<1>11. CASE MainWake
  BY SMTT(40), <1>11 DEF MainWake, MainKeeps, MainStep
<1>12. CASE MainStopHosted
  BY SMTT(40), <1>12 DEF MainStopHosted, MainKeeps, MainStep
<1>13. CASE MainJoinHosted
  BY SMTT(40), <1>13 DEF MainJoinHosted, MainKeeps, MainStep
<1>14. CASE UNCHANGED vars
  BY SMTT(40), <1>14 DEF vars
<1> HIDE DEF Inv
<1> QED
  BY <1>1, <1>2, <1>3, <1>4, <1>5, <1>6, <1>7, <1>8, <1>9, <1>10, <1>11, <1>12
   , <1>13, <1>14

(* Every step of every task preserves the invariant. *)
LEMMA InvStep == Inv /\ [Next]_vars => Inv'
<1> SUFFICES ASSUME Inv, [Next]_vars PROVE Inv'
  OBVIOUS
<1>1. TypeOK'
  BY SMTT(40), TypeStep DEF Inv
<1> QED
  BY <1>1, InvClientWire, InvDispatch, InvPanicRequest, InvChat, InvHosted,
   InvWorker, InvMain
 DEF Next, Environment, ClientStep, ChatActor, TransportTask, EventConsumer, Worker,
   Watcher, Main, Exited

(* The invariant holds in every reachable state. *)
THEOREM Invariance == SafetySpec => []Inv
<1> QED
  BY InvInit, InvStep, PTL DEF SafetySpec

(* No operation, event or transport outlives the keys it would use. *)
THEOREM FenceHolds == SafetySpec => []NoUserOutlivesKeys
<1>1. Inv => NoUserOutlivesKeys
  BY DEF Inv
<1> QED
  BY <1>1, Invariance, PTL

(* A reported complete cleanup has left nothing behind, and nothing returns. *)
THEOREM CompleteIsErased == SafetySpec => []CompleteMeansErased
<1>1. Inv => CompleteMeansErased
  BY DEF Inv, WorkerInv, CleanInv, CompleteMeansErased, Terminal
<1> QED
  BY <1>1, Invariance, PTL

(* The process does not end in the middle of an erasure. *)
THEOREM ExitIsFinal == SafetySpec => []NoExitMidErase
<1>1. Inv => NoExitMidErase
  BY DEF Inv, ExitInv, NoExitMidErase
<1> QED
  BY <1>1, Invariance, PTL

(* A shutdown that came first leaves the store as it was. *)
THEOREM StopExcludesErase == SafetySpec => []StoppingExcludesErase
<1>1. Inv => StoppingExcludesErase
  BY SMTT(40) DEF Inv, WorkerInv, KeyInv, CleanInv, StoppingExcludesErase
<1> QED
  BY <1>1, Invariance, PTL

-----------------------------------------------------------------------------
(* Once the master key is erased no step brings a file, the identity or     *)
(* the account back.                                                        *)
LEMMA RevivalStep ==
  Inv /\ [Next]_vars /\ erased => disk' \subseteq disk /\ identity' = identity /\ account' = account
<1> DEFINE Kept == disk' \subseteq disk /\ identity' = identity /\ account' = account
<1> SUFFICES ASSUME Inv, [Next]_vars, erased PROVE Kept
  OBVIOUS
<1>0. /\ \A c \in Clients : pc[c] \notin InOperation
      /\ consumer # "apply" /\ worker \notin {"wipe", "eraseKey"}
  BY DEF Inv, NoUserOutlivesKeys, KeyInv, Locked
<1> USE <1>0 DEF lifeVars, lockVars, workVars, chatVars, hostVars, dataVars, mainVars
<1>1. ASSUME NEW c \in Clients, ClientConnect(c) PROVE Kept
  BY <1>1 DEF ClientConnect
<1>2. ASSUME NEW c \in Clients, ClientLeave(c) PROVE Kept
  BY <1>2 DEF ClientLeave
<1>3. ASSUME NEW c \in Clients, ClientRequest(c) PROVE Kept
  BY <1>3 DEF ClientRequest
<1>4. ASSUME NEW c \in Clients, ClientRespond(c) PROVE Kept
  BY <1>4 DEF ClientRespond
<1>5. ASSUME NEW c \in Clients, DispatchAcquire(c) PROVE Kept
  BY <1>5 DEF DispatchAcquire
<1>6. ASSUME NEW c \in Clients, RunRead(c) PROVE Kept
  BY <1>6 DEF RunRead
<1>7. ASSUME NEW c \in Clients, RunIdentityWrite(c) PROVE Kept
  BY <1>7 DEF RunIdentityWrite, StoreWrite, InOperation
<1>8. ASSUME NEW c \in Clients, RunIssueToken(c) PROVE Kept
  BY <1>8 DEF RunIssueToken, InOperation
<1>9. ASSUME NEW c \in Clients, RunChat(c) PROVE Kept
  BY <1>9 DEF RunChat
<1>10. ASSUME NEW c \in Clients, RunHosted(c) PROVE Kept
  BY <1>10 DEF RunHosted
<1>11. ASSUME NEW c \in Clients, ChatSend(c) PROVE Kept
  BY <1>11 DEF ChatSend
<1>12. ASSUME NEW c \in Clients, ChatStopped(c) PROVE Kept
  BY <1>12 DEF ChatStopped
<1>13. ASSUME NEW c \in Clients, HostedReturn(c) PROVE Kept
  BY <1>13 DEF HostedReturn
<1>14. ASSUME NEW c \in Clients, PanicRedeem(c) PROVE Kept
  BY <1>14 DEF PanicRedeem
<1>15. ASSUME NEW c \in Clients, PanicBegin(c) PROVE Kept
  BY <1>15 DEF PanicBegin
<1>16. ASSUME NEW c \in Clients, PanicSupervised(c) PROVE Kept
  BY <1>16 DEF PanicSupervised
<1>17. ASSUME NEW c \in Clients, ClientAborted(c) PROVE Kept
  BY <1>17 DEF ClientAborted
<1>18. ASSUME ChatNotification PROVE Kept
  BY <1>18 DEF ChatNotification, StoreWrite
<1>19. ASSUME ChatTake PROVE Kept
  BY <1>19 DEF ChatTake
<1>20. ASSUME ChatServe PROVE Kept
  BY <1>20 DEF ChatServe, StoreWrite
<1>21. ASSUME ChatClosed PROVE Kept
  BY <1>21 DEF ChatClosed
<1>22. ASSUME TransportConnect PROVE Kept
  BY <1>22 DEF TransportConnect, Transport
<1>23. ASSUME TransportDrop PROVE Kept
  BY <1>23 DEF TransportDrop, Transport
<1>24. ASSUME TransportReport PROVE Kept
  BY <1>24 DEF TransportReport, Transport
<1>25. ASSUME TransportStop PROVE Kept
  BY <1>25 DEF TransportStop, Transport
<1>26. ASSUME TransportEnd PROVE Kept
  BY <1>26 DEF TransportEnd, Transport
<1>27. ASSUME TransportPublish PROVE Kept
  BY <1>27 DEF TransportPublish
<1>28. ASSUME EventReceive PROVE Kept
  BY <1>28 DEF EventReceive
<1>29. ASSUME EventAcquire PROVE Kept
  BY <1>29 DEF EventAcquire
<1>30. ASSUME EventApply PROVE Kept
  BY <1>30 DEF EventApply
<1>31. ASSUME WorkerChatSend PROVE Kept
  BY <1>31 DEF WorkerChatSend
<1>32. ASSUME WorkerChatStopped PROVE Kept
  BY <1>32 DEF WorkerChatStopped
<1>33. ASSUME WorkerTakeHosted PROVE Kept
  BY <1>33 DEF WorkerTakeHosted
<1>34. ASSUME WorkerQuiesced PROVE Kept
  BY <1>34 DEF WorkerQuiesced
<1>35. ASSUME WorkerLock PROVE Kept
  BY <1>35 DEF WorkerLock
<1>36. ASSUME WorkerLocked PROVE Kept
  BY <1>36 DEF WorkerLocked
<1>37. ASSUME WorkerWipe PROVE Kept
  BY <1>37 DEF WorkerWipe, WorkerStep
<1>38. ASSUME WorkerEraseKey PROVE Kept
  BY <1>38 DEF WorkerEraseKey
<1>39. ASSUME WorkerDeleteKey PROVE Kept
  BY <1>39 DEF WorkerDeleteKey
<1>40. ASSUME WorkerRemoveDir PROVE Kept
  BY <1>40 DEF WorkerRemoveDir, InDirectory
<1>41. ASSUME WorkerUnlock PROVE Kept
  BY <1>41 DEF WorkerUnlock
<1>42. ASSUME WorkerPanics PROVE Kept
  BY <1>42 DEF WorkerPanics
<1>43. ASSUME WorkerFinish PROVE Kept
  BY <1>43 DEF WorkerFinish
<1>44. ASSUME WorkerNotify PROVE Kept
  BY <1>44 DEF WorkerNotify
<1>45. ASSUME Signal PROVE Kept
  BY <1>45 DEF Signal
<1>46. ASSUME WatcherSubscribe PROVE Kept
  BY <1>46 DEF WatcherSubscribe
<1>47. ASSUME WatcherCheck PROVE Kept
  BY <1>47 DEF WatcherCheck
<1>48. ASSUME WatcherWake PROVE Kept
  BY <1>48 DEF WatcherWake
<1>49. ASSUME MainDrain PROVE Kept
  BY <1>49 DEF MainDrain, MainKeeps
<1>50. ASSUME MainDrainTimeout PROVE Kept
  BY <1>50 DEF MainDrainTimeout, MainKeeps
<1>51. ASSUME MainDrained PROVE Kept
  BY <1>51 DEF MainDrained, MainKeeps
<1>52. ASSUME MainPrepare PROVE Kept
  BY <1>52 DEF MainPrepare, MainKeeps
<1>53. ASSUME MainSubscribe PROVE Kept
  BY <1>53 DEF MainSubscribe, MainKeeps
<1>54. ASSUME MainCheck PROVE Kept
  BY <1>54 DEF MainCheck, MainKeeps
<1>55. ASSUME MainWake PROVE Kept
  BY <1>55 DEF MainWake, MainKeeps
<1>56. ASSUME MainStopHosted PROVE Kept
  BY <1>56 DEF MainStopHosted, MainKeeps
<1>57. ASSUME MainJoinHosted PROVE Kept
  BY <1>57 DEF MainJoinHosted, MainKeeps
<1>58. ASSUME UNCHANGED vars PROVE Kept
  BY <1>58 DEF vars
<1>59. ASSUME NEW c \in Clients, HostedSend(c) PROVE Kept
  BY <1>59 DEF HostedSend
<1>60. ASSUME NEW c \in Clients, HostedSendFails(c) PROVE Kept
  BY <1>60 DEF HostedSendFails
<1>61. ASSUME TransportTake PROVE Kept
  BY <1>61 DEF TransportTake, Transport
<1>62. ASSUME TransportPing PROVE Kept
  BY <1>62 DEF TransportPing, Transport
<1>63. ASSUME TransportClose PROVE Kept
  BY <1>63 DEF TransportClose, Transport
<1>64. ASSUME TransportWritten PROVE Kept
  BY <1>64 DEF TransportWritten, Transport
<1> QED
  BY <1>1, <1>2, <1>3, <1>4, <1>5, <1>6, <1>7, <1>8, <1>9, <1>10, <1>11,
     <1>12, <1>13, <1>14, <1>15, <1>16, <1>17, <1>18, <1>19, <1>20, <1>21, <1>22, <1>23, <1>24,
     <1>25, <1>26, <1>27, <1>28, <1>29, <1>30, <1>31, <1>32, <1>33, <1>34, <1>35, <1>36,
     <1>37, <1>38, <1>39, <1>40, <1>41, <1>42, <1>43, <1>44, <1>45, <1>46, <1>47, <1>48,
     <1>49, <1>50, <1>51, <1>52, <1>53, <1>54, <1>55, <1>56, <1>57, <1>58,
     <1>59, <1>60, <1>61, <1>62, <1>63, <1>64
  DEF Next, Environment, ClientStep, ChatActor, TransportTask, EventConsumer, Worker,
      Watcher, Main, Exited

(* Erasure is final in every behaviour of the daemon. *)
THEOREM EraseIsFinal == SafetySpec => NothingRevived
<1>1. Inv /\ [Next]_vars =>
        [erased => disk' \subseteq disk /\ identity' = identity /\ account' = account]_vars
  BY SMTT(40), RevivalStep
<1> QED
  BY <1>1, Invariance, PTL DEF SafetySpec, NothingRevived

-----------------------------------------------------------------------------
(* Every step of the daemon is a step of the contract or leaves it as it is. *)
LEMMA ContractStep == Inv /\ [Next]_vars => [Contract!Next]_(Contract!contractVars)
<1> DEFINE Allowed == Contract!Next \/ UNCHANGED <<state, Secrets, Process>>
<1> SUFFICES ASSUME Inv, [Next]_vars PROVE Allowed
  BY DEF Contract!contractVars
<1>a. ASSUME UNCHANGED <<state, identity, erased, disk, main>> PROVE Allowed
  BY <1>a DEF Secrets, Process
<1>b. ASSUME UNCHANGED <<state, identity, erased, disk>>, Running, Running' PROVE Allowed
  BY <1>b DEF Secrets, Process, Running
<1>0. ASSUME Running PROVE Process = "up"
  BY <1>0 DEF Running, Process
<1> USE <1>0 DEF Allowed, Inv, WorkerInv, KeyInv, CleanInv, ExitInv, Secrets, Process,
        Terminal, Contract!Next, Contract!BeginErase, Contract!Destroy,
        Contract!ReportComplete, Contract!ReportFailed, Contract!BeginStop,
        Contract!Exit, Contract!Reported, lifeVars, lockVars, workVars, chatVars,
        hostVars, dataVars, mainVars
<1>7. ASSUME Running, NEW c \in Clients, RunIdentityWrite(c) PROVE Allowed
  BY <1>7 DEF RunIdentityWrite, StoreWrite
<1>8. ASSUME Running, NEW c \in Clients, RunIssueToken(c) PROVE Allowed
  BY <1>8 DEF RunIssueToken
<1>14. ASSUME Running, NEW c \in Clients, PanicRedeem(c) PROVE Allowed
  BY SMTT(40), <1>14 DEF PanicRedeem
<1>15. ASSUME Running, NEW c \in Clients, PanicBegin(c) PROVE Allowed
  BY SMTT(40), <1>15 DEF PanicBegin, IsActive
<1>18. ASSUME Running, ChatNotification PROVE Allowed
  BY <1>18 DEF ChatNotification, StoreWrite
<1>20. ASSUME Running, ChatServe PROVE Allowed
  BY <1>20 DEF ChatServe, StoreWrite
<1>37. ASSUME Running, WorkerWipe PROVE Allowed
  BY <1>37 DEF WorkerWipe, WorkerStep
<1>38. ASSUME Running, WorkerEraseKey PROVE Allowed
  <2>1. state = "Erasing" /\ state' = state /\ Process = "up" /\ Process' = Process
    BY <1>38 DEF WorkerEraseKey, TypeOK, States
  <2>2. identity' = identity /\ (erased => erased') /\ disk' = disk
    BY <1>38 DEF WorkerEraseKey
  <2>3. Secrets = "gone" => Secrets' = "gone"
    BY <2>2 DEF Secrets
  <2>4. Secrets \in {"present", "gone"} /\ Secrets' \in {"present", "gone"}
    BY DEF Secrets
  <2> HIDE DEF Secrets, Process
  <2> QED
    BY <2>1, <2>3, <2>4
<1>39. ASSUME Running, WorkerDeleteKey PROVE Allowed
  <2>1. state = "Erasing" /\ state' = state /\ Process = "up" /\ Process' = Process
    BY <1>39 DEF WorkerDeleteKey, WorkerStep, TypeOK, States
  <2>2. identity' = identity /\ erased' = erased /\ disk' \subseteq disk
    BY <1>39 DEF WorkerDeleteKey
  <2>3. Secrets = "gone" => Secrets' = "gone"
    BY SMTT(40), <2>2 DEF Secrets
  <2>4. Secrets \in {"present", "gone"} /\ Secrets' \in {"present", "gone"}
    BY DEF Secrets
  <2> HIDE DEF Secrets, Process
  <2> QED
    BY <2>1, <2>3, <2>4
<1>40. ASSUME Running, WorkerRemoveDir PROVE Allowed
  <2>1. state = "Erasing" /\ state' = state /\ Process = "up" /\ Process' = Process
    BY <1>40 DEF WorkerRemoveDir, WorkerStep, TypeOK, States
  <2>2. identity' = identity /\ erased' = erased /\ disk' \subseteq disk
    BY SMTT(40), <1>40 DEF WorkerRemoveDir
  <2>3. Secrets = "gone" => Secrets' = "gone"
    BY <2>2 DEF Secrets
  <2>4. Secrets \in {"present", "gone"} /\ Secrets' \in {"present", "gone"}
    BY DEF Secrets
  <2> HIDE DEF Secrets, Process
  <2> QED
    BY <2>1, <2>3, <2>4
<1>42. ASSUME Running, WorkerPanics PROVE Allowed
  BY SMTT(40), <1>42 DEF WorkerPanics
<1>43. ASSUME Running, WorkerFinish PROVE Allowed
  <2>1. state = "Erasing" /\ Process = "up" /\ Process' = Process /\ Secrets' = Secrets
    BY SMTT(40), <1>43 DEF WorkerFinish, WorkerStep, TypeOK, States
  <2>2. CASE failed
    <3>1. state' = "CleanupFailed"
      BY SMTT(40), <1>43, <2>2 DEF WorkerFinish
    <3> QED
      BY <2>1, <3>1
  <2>3. CASE ~failed
    <3>1. state' = "CleanupComplete" /\ Secrets = "gone"
      BY SMTT(40), <1>43, <2>3 DEF WorkerFinish, WorkerStep
    <3> QED
      BY <2>1, <3>1
  <2> HIDE DEF Allowed, Inv
  <2> QED
    BY <2>2, <2>3
<1>52. ASSUME Running, MainPrepare PROVE Allowed
  BY SMTT(40), <1>52 DEF MainPrepare, IsActive, MainKeeps
<1>56. ASSUME Running, MainStopHosted PROVE Allowed
  BY SMTT(40), <1>56 DEF MainStopHosted, MainKeeps, MainStep
<1>57. ASSUME Running, MainJoinHosted PROVE Allowed
  BY SMTT(40), <1>57 DEF MainJoinHosted, MainKeeps, MainStep
<1> HIDE <1>0 DEF Allowed, Inv, WorkerInv, KeyInv, CleanInv, ExitInv, Secrets, Process,
         Terminal, Contract!Next, Contract!BeginErase, Contract!Destroy,
         Contract!ReportComplete, Contract!ReportFailed, Contract!BeginStop,
         Contract!Exit, Contract!Reported
<1>1. ASSUME Running, NEW c \in Clients, ClientConnect(c) PROVE Allowed
  BY <1>a, <1>1 DEF ClientConnect
<1>2. ASSUME Running, NEW c \in Clients, ClientLeave(c) PROVE Allowed
  BY <1>a, <1>2 DEF ClientLeave
<1>3. ASSUME Running, NEW c \in Clients, ClientRequest(c) PROVE Allowed
  BY <1>a, <1>3 DEF ClientRequest
<1>4. ASSUME Running, NEW c \in Clients, ClientRespond(c) PROVE Allowed
  BY <1>a, <1>4 DEF ClientRespond
<1>5. ASSUME Running, NEW c \in Clients, DispatchAcquire(c) PROVE Allowed
  BY <1>a, <1>5 DEF DispatchAcquire
<1>6. ASSUME Running, NEW c \in Clients, RunRead(c) PROVE Allowed
  BY <1>a, <1>6 DEF RunRead
<1>9. ASSUME Running, NEW c \in Clients, RunChat(c) PROVE Allowed
  BY <1>a, <1>9 DEF RunChat
<1>10. ASSUME Running, NEW c \in Clients, RunHosted(c) PROVE Allowed
  BY <1>a, <1>10 DEF RunHosted
<1>11. ASSUME Running, NEW c \in Clients, ChatSend(c) PROVE Allowed
  BY <1>a, <1>11 DEF ChatSend
<1>12. ASSUME Running, NEW c \in Clients, ChatStopped(c) PROVE Allowed
  BY <1>a, <1>12 DEF ChatStopped
<1>13. ASSUME Running, NEW c \in Clients, HostedReturn(c) PROVE Allowed
  BY <1>a, <1>13 DEF HostedReturn
<1>16. ASSUME Running, NEW c \in Clients, PanicSupervised(c) PROVE Allowed
  BY <1>a, <1>16 DEF PanicSupervised
<1>17. ASSUME Running, NEW c \in Clients, ClientAborted(c) PROVE Allowed
  BY <1>a, <1>17 DEF ClientAborted
<1>19. ASSUME Running, ChatTake PROVE Allowed
  BY <1>a, <1>19 DEF ChatTake
<1>21. ASSUME Running, ChatClosed PROVE Allowed
  BY <1>a, <1>21 DEF ChatClosed
<1>22. ASSUME Running, TransportConnect PROVE Allowed
  BY <1>a, <1>22 DEF TransportConnect, Transport
<1>23. ASSUME Running, TransportDrop PROVE Allowed
  BY <1>a, <1>23 DEF TransportDrop, Transport
<1>24. ASSUME Running, TransportReport PROVE Allowed
  BY <1>a, <1>24 DEF TransportReport, Transport
<1>25. ASSUME Running, TransportStop PROVE Allowed
  BY <1>a, <1>25 DEF TransportStop, Transport
<1>26. ASSUME Running, TransportEnd PROVE Allowed
  BY <1>a, <1>26 DEF TransportEnd, Transport
<1>27. ASSUME Running, TransportPublish PROVE Allowed
  BY <1>a, <1>27 DEF TransportPublish
<1>28. ASSUME Running, EventReceive PROVE Allowed
  BY <1>a, <1>28 DEF EventReceive
<1>29. ASSUME Running, EventAcquire PROVE Allowed
  BY <1>a, <1>29 DEF EventAcquire
<1>30. ASSUME Running, EventApply PROVE Allowed
  BY <1>a, <1>30 DEF EventApply
<1>31. ASSUME Running, WorkerChatSend PROVE Allowed
  BY <1>a, <1>31 DEF WorkerChatSend, WorkerStep
<1>32. ASSUME Running, WorkerChatStopped PROVE Allowed
  BY <1>a, <1>32 DEF WorkerChatStopped, WorkerStep
<1>33. ASSUME Running, WorkerTakeHosted PROVE Allowed
  BY <1>a, <1>33 DEF WorkerTakeHosted, WorkerStep
<1>34. ASSUME Running, WorkerQuiesced PROVE Allowed
  BY <1>a, <1>34 DEF WorkerQuiesced, WorkerStep
<1>35. ASSUME Running, WorkerLock PROVE Allowed
  BY <1>a, <1>35 DEF WorkerLock, WorkerStep
<1>36. ASSUME Running, WorkerLocked PROVE Allowed
  BY <1>a, <1>36 DEF WorkerLocked, WorkerStep
<1>41. ASSUME Running, WorkerUnlock PROVE Allowed
  BY <1>a, <1>41 DEF WorkerUnlock, WorkerStep
<1>44. ASSUME Running, WorkerNotify PROVE Allowed
  BY <1>a, <1>44 DEF WorkerNotify, WorkerStep
<1>45. ASSUME Running, Signal PROVE Allowed
  BY <1>a, <1>45 DEF Signal
<1>46. ASSUME Running, WatcherSubscribe PROVE Allowed
  BY <1>a, <1>46 DEF WatcherSubscribe
<1>47. ASSUME Running, WatcherCheck PROVE Allowed
  BY <1>a, <1>47 DEF WatcherCheck
<1>48. ASSUME Running, WatcherWake PROVE Allowed
  BY <1>a, <1>48 DEF WatcherWake
<1>49. ASSUME Running, MainDrain PROVE Allowed
  BY <1>b, <1>49 DEF Running, MainDrain, MainKeeps, MainStep
<1>50. ASSUME Running, MainDrainTimeout PROVE Allowed
  BY <1>b, <1>50 DEF Running, MainDrainTimeout, MainKeeps, MainStep
<1>51. ASSUME Running, MainDrained PROVE Allowed
  BY <1>b, <1>51 DEF Running, MainDrained, MainKeeps
<1>53. ASSUME Running, MainSubscribe PROVE Allowed
  BY <1>b, <1>53 DEF Running, MainSubscribe, MainKeeps, MainStep
<1>54. ASSUME Running, MainCheck PROVE Allowed
  BY <1>b, <1>54 DEF Running, MainCheck, MainKeeps, MainStep
<1>55. ASSUME Running, MainWake PROVE Allowed
  BY <1>b, <1>55 DEF Running, MainWake, MainKeeps, MainStep
<1>58. ASSUME UNCHANGED vars PROVE Allowed
  BY <1>a, <1>58 DEF vars
<1>59. ASSUME Running, NEW c \in Clients, HostedSend(c) PROVE Allowed
  BY <1>a, <1>59 DEF HostedSend
<1>60. ASSUME Running, NEW c \in Clients, HostedSendFails(c) PROVE Allowed
  BY <1>a, <1>60 DEF HostedSendFails
<1>61. ASSUME Running, TransportTake PROVE Allowed
  BY <1>a, <1>61 DEF TransportTake, Transport
<1>62. ASSUME Running, TransportPing PROVE Allowed
  BY <1>a, <1>62 DEF TransportPing, Transport
<1>63. ASSUME Running, TransportClose PROVE Allowed
  BY <1>a, <1>63 DEF TransportClose, Transport
<1>64. ASSUME Running, TransportWritten PROVE Allowed
  BY <1>a, <1>64 DEF TransportWritten, Transport
<1> QED
  BY <1>1, <1>2, <1>3, <1>4, <1>5, <1>6, <1>7, <1>8, <1>9, <1>10, <1>11,
     <1>12, <1>13, <1>14, <1>15, <1>16, <1>17, <1>18, <1>19, <1>20, <1>21, <1>22, <1>23, <1>24,
     <1>25, <1>26, <1>27, <1>28, <1>29, <1>30, <1>31, <1>32, <1>33, <1>34, <1>35, <1>36,
     <1>37, <1>38, <1>39, <1>40, <1>41, <1>42, <1>43, <1>44, <1>45, <1>46, <1>47, <1>48,
     <1>49, <1>50, <1>51, <1>52, <1>53, <1>54, <1>55, <1>56, <1>57, <1>58,
     <1>59, <1>60, <1>61, <1>62, <1>63, <1>64
  DEF Next, Environment, ClientStep, ChatActor, TransportTask, EventConsumer, Worker,
      Watcher, Main, Exited

(* The daemon implements the contract of panic erasure. *)
THEOREM Refinement == SafetySpec => KeepsContract
<1>1. Init => Contract!Init
  BY DEF Init, Contract!Init, Secrets, Process
<1> QED
  BY <1>1, ContractStep, Invariance, PTL DEF SafetySpec, KeepsContract,
     Contract!SafetySpec

=============================================================================
