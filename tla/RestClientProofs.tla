-------------------------- MODULE RestClientProofs --------------------------
(***************************************************************************)
(* Theorems about RestClient, for any set of clients and any bounds.       *)
(*                                                                         *)
(* Every step of the system is a step of HttpWorker or leaves its          *)
(* variables alone, so what HttpWorkerProofs shows of the queue and the    *)
(* worker holds of the system (Lifted), and serves as a lemma for what     *)
(* the parts say only together.                                            *)
(***************************************************************************)
EXTENDS RestClient, TLAPS

QP == INSTANCE HttpWorkerProofs

(***************************************************************************)
(* What the queue's own theorems give each step here, and the part of the  *)
(* inductive invariant that is about the system.  CallersHold: a client in *)
(* a call holds the facade, so nobody is destroying it.  CurlLife: libcurl *)
(* is released between the join and the end of the members.  PollersOnly:  *)
(* only PostPollingData waits for the mutex.                               *)
(***************************************************************************)
Threads == Clients \cup {mHttpThread}

CallersHold ==
    \A c \in Clients :
        phase[c] # "idle" \/ c \in getting => life = "running" /\ c \in refs

CurlLife ==
    /\ curl = "released" => life = "joined"
    /\ curl = "closed" => life = "destroyed"

PollersOnly ==
    /\ phase[mHttpThread] # "waiting"
    /\ \A c \in Clients : phase[c] = "waiting" => making[c] = "POST"

OwnTypes ==
    /\ H!TypeOK
    /\ getting \subseteq Clients
    /\ direct \in 0 .. MaxDirect
    /\ curl \in CurlStages

SInv ==
    /\ OwnTypes
    /\ CallersHold
    /\ CurlLife
    /\ PollersOnly
    /\ SendsItsPayload
    /\ OnePollAtATime

-----------------------------------------------------------------------------
(***************************************************************************)
(* The queue and its worker.                                               *)
(***************************************************************************)
LEMMA QueueStep == [Next]_vars => [Q!Next]_(Q!vars)
  <1> SUFFICES ASSUME [Next]_vars PROVE Q!Next \/ UNCHANGED Q!vars
    OBVIOUS
  <1> USE DEF Q!vars, Q!queueVars, Q!workerVars, Q!facadeVars, Q!clientVars, queueVars
  <1>1. CASE Life
    <2> USE DEF Q!Next, Q!Facade
    <2>1. CASE Start BY <2>1 DEF Start
    <2>2. CASE Shutdown BY <2>2 DEF Shutdown
    <2>3. CASE Join BY <2>3 DEF Join
    <2>4. CASE GlobalCleanup BY <2>4 DEF GlobalCleanup
    <2>5. CASE DestroyMembers BY <2>5 DEF DestroyMembers
    <2>6. ASSUME NEW c \in Clients, Construct(c) PROVE Q!Next
      BY <2>6 DEF Construct
    <2>7. ASSUME NEW c \in Clients, GetInstance(c) PROVE Q!Next
      BY <2>7 DEF GetInstance
    <2>8. ASSUME NEW owner \in Clients \cup {Static}, Release(owner) PROVE Q!Next
      BY <2>8 DEF Release
    <2> QED BY <1>1, <2>1, <2>2, <2>3, <2>4, <2>5, <2>6, <2>7, <2>8 DEF Life
  <1>2. CASE Client
    <2> PICK c \in Clients :
          \/ QueueCall(c)
          \/ PostPollingData(c) \/ SetCertificateAttributes(c) \/ GetDeviceData(c)
          \/ LockPolling(c) \/ CallReturns(c) \/ GetReturns(c)
      BY <1>2 DEF Client
    <2>1. CASE QueueCall(c) BY <2>1 DEF QueueCall, Q!Next, Q!Client
    <2>2. CASE PostPollingData(c) BY <2>2 DEF PostPollingData, CallDirectly
    <2>3. CASE SetCertificateAttributes(c)
      BY <2>3 DEF SetCertificateAttributes, CallDirectly
    <2>4. CASE GetDeviceData(c) BY <2>4 DEF GetDeviceData, CallDirectly
    <2>5. CASE LockPolling(c) BY <2>5 DEF LockPolling
    <2>6. CASE CallReturns(c) BY <2>6 DEF CallReturns
    <2>7. CASE GetReturns(c) BY <2>7 DEF GetReturns
    <2> QED BY <2>1, <2>2, <2>3, <2>4, <2>5, <2>6, <2>7
  <1>3. CASE WorkerThread
    <2>1. CASE QueueSide BY <2>1 DEF QueueSide, Q!Next, Q!Worker
    <2>2. CASE Send BY <2>2 DEF Send
    <2>3. CASE SendReturns BY <2>3 DEF SendReturns, Q!Next, Q!Worker
    <2> QED BY <1>3, <2>1, <2>2, <2>3 DEF WorkerThread
  <1>4. CASE SpuriousWakeup BY <1>4 DEF SpuriousWakeup, Q!Next
  <1>5. CASE UNCHANGED vars BY <1>5 DEF vars
  <1> QED BY <1>1, <1>2, <1>3, <1>4, <1>5 DEF Next

\* The system implements HttpWorker: transfers that take time, and the other
\* calls made meanwhile, show in the queue and the worker as stuttering.
THEOREM WorkerSafety == Spec => Q!Spec
  <1>1. Init => Q!Init
    BY DEF Init
  <1> QED BY <1>1, QueueStep, PTL DEF Spec, Q!Spec

\* The worker as RestClient and as HttpWorkerProofs name it is one.
LEMMA OneWorker == Q!Spec => QP!Spec
  <1>1. Q!Init <=> QP!Init
    BY DEF Q!Init, QP!Init
  <1>2. [Q!Next]_(Q!vars) <=> [QP!Next]_(QP!vars)
    BY DEF Q!Init, QP!Init, Q!Next, QP!Next, Q!vars, QP!vars, Q!Facade,
           QP!Facade, Q!Client, QP!Client, Q!Worker, QP!Worker, Q!Construct,
           QP!Construct, Q!Start, QP!Start, Q!GetInstance, QP!GetInstance,
           Q!Release, QP!Release, Q!Shutdown, QP!Shutdown, Q!Join, QP!Join,
           Q!DestroyMembers, QP!DestroyMembers, Q!NewRequest, QP!NewRequest,
           Q!Return, QP!Return, Q!Push, QP!Push, Q!PushThrows, QP!PushThrows,
           Q!CreateDeviceData, QP!CreateDeviceData, Q!UpdateDeviceData,
           QP!UpdateDeviceData, Q!RemoveDeviceData, QP!RemoveDeviceData,
           Q!ReadyWait, QP!ReadyWait, Q!ReadyWake, QP!ReadyWake, Q!LoopTest,
           QP!LoopTest, Q!Fetch, QP!Fetch, Q!Perform, QP!Perform, Q!Recheck,
           QP!Recheck, Q!IdleWait, QP!IdleWait, Q!IdleWake, QP!IdleWake,
           Q!SpuriousWakeup, QP!SpuriousWakeup, Q!queueVars, QP!queueVars,
           Q!workerVars, QP!workerVars, Q!facadeVars, QP!facadeVars,
           Q!clientVars, QP!clientVars, Q!NoNotify, QP!NoNotify, Q!NotifyOne,
           QP!NotifyOne, Q!Blocked, QP!Blocked, Q!ReadyPredicate,
           QP!ReadyPredicate, Q!IdlePredicate, QP!IdlePredicate, Q!Wait, QP!Wait,
           Q!HTTP_METHOD, QP!HTTP_METHOD
  <1> QED BY <1>1, <1>2, PTL DEF Q!Spec, QP!Spec

LEMMA WorkerBounds == QP!HttpWorkerAssumption
  BY RestClientAssumption DEF QP!HttpWorkerAssumption

\* What is proved of the queue and the worker alone is true of them here.
THEOREM Lifted == Spec => []QP!IInv
  <1>1. QP!Spec => []QP!IInv
    BY WorkerBounds, QP!Inductive
  <1> QED BY <1>1, WorkerSafety, OneWorker, PTL

-----------------------------------------------------------------------------
(***************************************************************************)
(* The system's own invariant, one lemma per conjunct.                     *)
(***************************************************************************)
LEMMA SInvInit == Init => SInv
  BY RestClientAssumption
  DEF Init, Q!Init, H!Init, SInv, OwnTypes, H!TypeOK, H!Users, CallersHold, CurlLife,
      PollersOnly, SendsItsPayload, OnePollAtATime, CurlStages

\* The worker never holds a payload whose method Post and Put cannot send.
LEMMA PayloadSendable ==
  ASSUME QP!IInv, wpc = "perform"
  PROVE  pl.method \in {"POST", "PUT"}
  BY DEF QP!IInv, QP!Holding, QP!QueueRequest

\* The steps on the handle, by who makes them.
LEMMA HandleSteps ==
  ASSUME QP!IInv, [Next]_vars
  PROVE  \/ Send
         \/ SendReturns
         \/ \E c \in Clients :
               \/ PostPollingData(c) \/ SetCertificateAttributes(c)
               \/ LockPolling(c) \/ CallReturns(c)
         \/ UNCHANGED handleVars
  <1>1. CASE Life
    BY <1>1 DEF Life, Start, Shutdown, Join, GlobalCleanup, DestroyMembers,
       Construct, GetInstance, Release
  <1>2. CASE Client
    BY <1>2 DEF Client, QueueCall, GetDeviceData, GetReturns
  <1>3. CASE WorkerThread
    BY <1>3 DEF WorkerThread, QueueSide
  <1>4. CASE SpuriousWakeup \/ UNCHANGED vars
    BY <1>4 DEF SpuriousWakeup, vars
  <1> QED BY <1>1, <1>2, <1>3, <1>4 DEF Next

\* Every step on the handle is one that HandleCalls allows.
LEMMA HandleStep == QP!IInv /\ [Next]_vars => [H!Next]_(H!vars)
  <1> SUFFICES ASSUME QP!IInv, [Next]_vars PROVE H!Next \/ UNCHANGED H!vars
    OBVIOUS
  <1>1. CASE Send
    <2>1. pl.method \in {"POST", "PUT"}
      BY <1>1, PayloadSendable DEF Send
    <2> QED BY <1>1, <2>1 DEF Send, H!Next
  <1>2. CASE SendReturns
    BY <1>2 DEF SendReturns, H!Next, H!Users
  <1>3. ASSUME NEW c \in Clients,
               \/ PostPollingData(c) \/ SetCertificateAttributes(c)
               \/ LockPolling(c) \/ CallReturns(c)
        PROVE  H!Next
    BY <1>3 DEF PostPollingData, SetCertificateAttributes, LockPolling, CallReturns,
       H!Next, H!Users
  <1>4. CASE UNCHANGED handleVars
    BY <1>4 DEF handleVars, H!vars
  <1> QED BY <1>1, <1>2, <1>3, <1>4, HandleSteps

LEMMA OwnTypesNext == QP!IInv /\ OwnTypes /\ [Next]_vars => OwnTypes'
  <1> SUFFICES ASSUME QP!IInv, OwnTypes, [Next]_vars PROVE OwnTypes'
    OBVIOUS
  <1>1. H!TypeOK'
    <2> USE DEF OwnTypes, H!TypeOK, H!Users, H!Kinds
    <2>1. CASE Send
      BY <2>1, PayloadSendable DEF Send, H!Post, H!Begin
    <2>2. CASE SendReturns
      BY <2>2 DEF SendReturns, H!Return
    <2>3. ASSUME NEW c \in Clients, PostPollingData(c) \/ SetCertificateAttributes(c)
          PROVE  H!TypeOK'
      BY <2>3 DEF PostPollingData, SetCertificateAttributes, H!PostPollingData,
         H!SetCertificateAttributes, H!Begin
    <2>4. ASSUME NEW c \in Clients, LockPolling(c) \/ CallReturns(c)
          PROVE  H!TypeOK'
      BY <2>4 DEF LockPolling, CallReturns, H!LockPolling, H!Return
    <2>5. CASE UNCHANGED handleVars
      BY <2>5 DEF handleVars
    <2> QED BY <2>1, <2>2, <2>3, <2>4, <2>5, HandleSteps
  <1>2. (getting \subseteq Clients)' /\ (direct \in 0 .. MaxDirect)' /\ (curl \in CurlStages)'
    <2> USE RestClientAssumption DEF OwnTypes, CurlStages
    <2>1. CASE Life
      BY <2>1 DEF Life, Start, Shutdown, Join, GlobalCleanup, DestroyMembers,
         Construct, GetInstance, Release
    <2>2. CASE Client
      BY <2>2 DEF Client, QueueCall, PostPollingData, SetCertificateAttributes,
         GetDeviceData, CallDirectly, LockPolling, CallReturns, GetReturns
    <2>3. CASE WorkerThread
      BY <2>3 DEF WorkerThread, QueueSide, Send, SendReturns
    <2>4. CASE SpuriousWakeup \/ UNCHANGED vars
      BY <2>4 DEF SpuriousWakeup, vars
    <2> QED BY <2>1, <2>2, <2>3, <2>4 DEF Next
  <1> QED BY <1>1, <1>2 DEF OwnTypes

LEMMA CallersHoldNext == QP!IInv /\ OwnTypes /\ CallersHold /\ [Next]_vars => CallersHold'
  <1> SUFFICES ASSUME QP!IInv, OwnTypes, CallersHold, [Next]_vars,
                      NEW d \in Clients, (phase[d] # "idle" \/ d \in getting)'
               PROVE  (life = "running" /\ d \in refs)'
    BY DEF CallersHold
  <1> USE RestClientAssumption DEF CallersHold, OwnTypes, H!TypeOK, H!Users
  <1>1. CASE Life
    <2> DEFINE Held == life = "running" /\ d \in refs
    <2>1. CASE Start \/ Join \/ GlobalCleanup \/ DestroyMembers
      BY <1>1, <2>1 DEF Start, Join, GlobalCleanup, DestroyMembers, handleVars, queueVars,
         Q!Start, Q!Join, Q!DestroyMembers
    <2>2. CASE Shutdown
      BY <2>2 DEF Shutdown, Q!Shutdown, handleVars
    <2>3. ASSUME NEW c \in Clients, Construct(c) \/ GetInstance(c) PROVE Held'
      BY <2>3 DEF Construct, GetInstance, Q!Construct, Q!GetInstance, handleVars
    <2>4. ASSUME NEW owner \in Clients \cup {Static}, Release(owner) PROVE Held'
      BY <2>4 DEF Release, Q!Release, Free, handleVars
    <2> QED BY <1>1, <2>1, <2>2, <2>3, <2>4 DEF Life
  <1>2. CASE Client
    <2> PICK c \in Clients :
          \/ QueueCall(c)
          \/ PostPollingData(c) \/ SetCertificateAttributes(c) \/ GetDeviceData(c)
          \/ LockPolling(c) \/ CallReturns(c) \/ GetReturns(c)
      BY <1>2 DEF Client
    <2>1. CASE QueueCall(c)
      BY <2>1 DEF QueueCall, Q!CreateDeviceData, Q!UpdateDeviceData, Q!RemoveDeviceData,
         Q!facadeVars, handleVars
    <2>2. CASE PostPollingData(c) \/ SetCertificateAttributes(c)
      BY <2>2 DEF PostPollingData, SetCertificateAttributes, CallDirectly, queueVars,
         H!PostPollingData, H!SetCertificateAttributes, H!Begin
    <2>3. CASE GetDeviceData(c)
      BY <2>3 DEF GetDeviceData, CallDirectly, queueVars, handleVars
    <2>4. CASE LockPolling(c) \/ CallReturns(c)
      BY <2>4 DEF LockPolling, CallReturns, H!LockPolling, H!Return, queueVars
    <2>5. CASE GetReturns(c)
      BY <2>5 DEF GetReturns, queueVars, handleVars
    <2> QED BY <2>1, <2>2, <2>3, <2>4, <2>5
  <1>3. CASE WorkerThread
    <2>1. CASE QueueSide
      BY <2>1 DEF QueueSide, Q!ReadyWait, Q!ReadyWake, Q!LoopTest, Q!Fetch, Q!Recheck,
         Q!IdleWait, Q!IdleWake, Q!facadeVars, handleVars
    <2>2. CASE Send
      BY <2>2 DEF Send, H!Post, H!Begin, queueVars
    <2>3. CASE SendReturns
      BY <2>3 DEF SendReturns, H!Return, Q!Perform, Q!facadeVars
    <2> QED BY <1>3, <2>1, <2>2, <2>3 DEF WorkerThread
  <1>4. CASE SpuriousWakeup \/ UNCHANGED vars
    BY <1>4 DEF SpuriousWakeup, Q!SpuriousWakeup, Q!facadeVars, vars, queueVars, handleVars
  <1> QED BY <1>1, <1>2, <1>3, <1>4 DEF Next

LEMMA CurlLifeNext == QP!IInv /\ CurlLife /\ [Next]_vars => CurlLife'
  <1> SUFFICES ASSUME QP!IInv, CurlLife, [Next]_vars PROVE CurlLife'
    OBVIOUS
  <1> USE DEF CurlLife
  <1>1. CASE Life
    <2>1. CASE Start \/ Shutdown \/ Join \/ GlobalCleanup \/ DestroyMembers
      BY <2>1 DEF Start, Shutdown, Join, GlobalCleanup, DestroyMembers, queueVars,
         Q!Start, Q!Shutdown, Q!Join, Q!DestroyMembers
    <2>2. ASSUME NEW c \in Clients, Construct(c) \/ GetInstance(c) PROVE CurlLife'
      BY <2>2 DEF Construct, GetInstance, Q!Construct, Q!GetInstance
    <2>3. ASSUME NEW owner \in Clients \cup {Static}, Release(owner) PROVE CurlLife'
      BY <2>3 DEF Release, Q!Release
    <2> QED BY <1>1, <2>1, <2>2, <2>3 DEF Life
  <1>2. CASE Client
    BY <1>2 DEF Client, QueueCall, Q!CreateDeviceData, Q!UpdateDeviceData,
       Q!RemoveDeviceData, Q!facadeVars, PostPollingData, SetCertificateAttributes,
       GetDeviceData, CallDirectly, LockPolling, CallReturns, GetReturns, queueVars
  <1>3. CASE WorkerThread
    BY <1>3 DEF WorkerThread, QueueSide, Q!ReadyWait, Q!ReadyWake, Q!LoopTest, Q!Fetch,
       Q!Recheck, Q!IdleWait, Q!IdleWake, Q!facadeVars, Send, SendReturns, Q!Perform,
       queueVars
  <1>4. CASE SpuriousWakeup \/ UNCHANGED vars
    BY <1>4 DEF SpuriousWakeup, Q!SpuriousWakeup, Q!facadeVars, vars, queueVars
  <1> QED BY <1>1, <1>2, <1>3, <1>4 DEF Next

LEMMA PollersOnlyNext == QP!IInv /\ OwnTypes /\ PollersOnly /\ [Next]_vars => PollersOnly'
  <1> SUFFICES ASSUME QP!IInv, OwnTypes, PollersOnly, [Next]_vars PROVE PollersOnly'
    OBVIOUS
  <1> USE RestClientAssumption DEF PollersOnly, OwnTypes, H!TypeOK, H!Users
  <1>1. CASE Send BY <1>1 DEF Send, H!Post, H!Begin
  <1>2. CASE SendReturns BY <1>2 DEF SendReturns, H!Return
  <1>3. ASSUME NEW c \in Clients, PostPollingData(c) \/ SetCertificateAttributes(c)
        PROVE  PollersOnly'
    BY <1>3 DEF PostPollingData, SetCertificateAttributes, H!PostPollingData,
       H!SetCertificateAttributes, H!Begin
  <1>4. ASSUME NEW c \in Clients, LockPolling(c) \/ CallReturns(c)
        PROVE  PollersOnly'
    BY <1>4 DEF LockPolling, CallReturns, H!LockPolling, H!Return
  <1>5. CASE UNCHANGED handleVars BY <1>5 DEF handleVars
  <1> QED BY <1>1, <1>2, <1>3, <1>4, <1>5, HandleSteps

LEMMA OnePollNext ==
    QP!IInv /\ OwnTypes /\ PollersOnly /\ OnePollAtATime /\ [Next]_vars => OnePollAtATime'
  <1> SUFFICES ASSUME QP!IInv, OwnTypes, PollersOnly, OnePollAtATime, [Next]_vars,
                      NEW d \in Clients
               PROVE  (phase[d] = "inside" /\ making[d] = "POST" <=> mPollingMutex = d)'
    BY DEF OnePollAtATime
  <1> DEFINE Held == phase[d] = "inside" /\ making[d] = "POST" <=> mPollingMutex = d
  <1> USE RestClientAssumption DEF PollersOnly, OnePollAtATime, OwnTypes, H!TypeOK, H!Users
  <1>1. CASE Send BY <1>1 DEF Send, H!Post, H!Begin
  <1>2. CASE SendReturns BY <1>2 DEF SendReturns, H!Return
  <1>3. ASSUME NEW c \in Clients, PostPollingData(c) \/ SetCertificateAttributes(c)
        PROVE  Held'
    BY <1>3 DEF PostPollingData, SetCertificateAttributes, H!PostPollingData,
       H!SetCertificateAttributes, H!Begin
  <1>4. ASSUME NEW c \in Clients, LockPolling(c) PROVE Held'
    BY <1>4 DEF LockPolling, H!LockPolling
  <1>5. ASSUME NEW c \in Clients, CallReturns(c) PROVE Held'
    BY <1>5 DEF CallReturns, H!Return
  <1>6. CASE UNCHANGED handleVars BY <1>6 DEF handleVars
  <1> QED BY <1>1, <1>2, <1>3, <1>4, <1>5, <1>6, HandleSteps

LEMMA SendsNext ==
    QP!IInv /\ OwnTypes /\ SendsItsPayload /\ [Next]_vars => SendsItsPayload'
  <1> SUFFICES ASSUME QP!IInv, OwnTypes, SendsItsPayload, [Next]_vars
               PROVE  SendsItsPayload'
    OBVIOUS
  <1> USE RestClientAssumption DEF SendsItsPayload, OwnTypes, H!TypeOK, H!Users
  <1>1. CASE Life
    <2>1. CASE Start \/ Shutdown \/ Join \/ GlobalCleanup \/ DestroyMembers
      BY <2>1 DEF Start, Shutdown, Join, GlobalCleanup, DestroyMembers, queueVars,
         Q!Start, Q!Shutdown, Q!Join, Q!DestroyMembers, Q!workerVars, handleVars
    <2>2. ASSUME NEW c \in Clients, Construct(c) PROVE SendsItsPayload'
      <3>1. wpc = "none"
        BY <2>2 DEF Construct, Q!Construct, QP!IInv, QP!Life
      <3> QED BY <2>2, <3>1 DEF Construct, handleVars
    <2>3. ASSUME NEW c \in Clients, GetInstance(c) PROVE SendsItsPayload'
      BY <2>3 DEF GetInstance, Q!GetInstance, Q!workerVars, handleVars
    <2>4. ASSUME NEW owner \in Clients \cup {Static}, Release(owner) PROVE SendsItsPayload'
      BY <2>4 DEF Release, Q!Release, Q!workerVars, handleVars
    <2> QED BY <1>1, <2>1, <2>2, <2>3, <2>4 DEF Life
  <1>2. CASE Client
    <2> PICK c \in Clients :
          \/ QueueCall(c)
          \/ PostPollingData(c) \/ SetCertificateAttributes(c) \/ GetDeviceData(c)
          \/ LockPolling(c) \/ CallReturns(c) \/ GetReturns(c)
      BY <1>2 DEF Client
    <2>1. CASE QueueCall(c)
      BY <2>1 DEF QueueCall, Q!CreateDeviceData, Q!UpdateDeviceData, Q!RemoveDeviceData,
         Q!workerVars, handleVars
    <2>2. CASE PostPollingData(c) \/ SetCertificateAttributes(c)
      BY <2>2 DEF PostPollingData, SetCertificateAttributes, CallDirectly, queueVars,
         H!PostPollingData, H!SetCertificateAttributes, H!Begin
    <2>3. CASE GetDeviceData(c) \/ GetReturns(c)
      BY <2>3 DEF GetDeviceData, GetReturns, CallDirectly, queueVars, handleVars
    <2>4. CASE LockPolling(c) \/ CallReturns(c)
      BY <2>4 DEF LockPolling, CallReturns, H!LockPolling, H!Return, queueVars
    <2> QED BY <2>1, <2>2, <2>3, <2>4
  <1>3. CASE QueueSide
    <2>1. wpc # "perform"
      BY <1>3 DEF QueueSide, Q!ReadyWait, Q!ReadyWake, Q!LoopTest, Q!Fetch, Q!Recheck,
         Q!IdleWait, Q!IdleWake
    <2> QED BY <1>3, <2>1 DEF QueueSide, handleVars
  <1>4. CASE Send
    BY <1>4 DEF Send, H!Post, H!Begin, queueVars
  <1>5. CASE SendReturns
    BY <1>5 DEF SendReturns, H!Return
  <1>6. CASE SpuriousWakeup \/ UNCHANGED vars
    BY <1>6 DEF SpuriousWakeup, Q!SpuriousWakeup, Q!workerVars, vars, queueVars, handleVars
  <1> QED BY <1>1, <1>2, <1>3, <1>4, <1>5, <1>6 DEF Next, WorkerThread

THEOREM SystemInductive == Spec => []SInv
  <1>1. QP!IInv /\ SInv /\ [Next]_vars => SInv'
    BY OwnTypesNext, CallersHoldNext, CurlLifeNext, PollersOnlyNext, OnePollNext, SendsNext
    DEF SInv
  <1> QED BY <1>1, SInvInit, Lifted, PTL DEF Spec

-----------------------------------------------------------------------------
(***************************************************************************)
(* The theorems.                                                           *)
(***************************************************************************)
\* The variables keep their types.
THEOREM SystemTypeCorrect == Spec => []TypeOK
  <1>1. QP!IInv /\ SInv => TypeOK
    BY DEF QP!IInv, QP!TypeOK, Q!TypeOK, SInv, OwnTypes, TypeOK,
       QP!QueueRequest, Q!QueueRequest, QP!WorkerStates, Q!WorkerStates,
       QP!Blocked, Q!Blocked, QP!LifeStages, Q!LifeStages
  <1> QED BY <1>1, Lifted, SystemInductive, PTL

\* The handle sees only the calls that HandleCalls allows (safety half).
THEOREM HandleSafety == Spec => H!SafetySpec
  <1>1. Init => H!Init
    BY DEF Init
  <1> QED BY <1>1, HandleStep, Lifted, PTL DEF Spec, H!SafetySpec

\* With all the facade's other calls under way on the same handle, the queue
\* and the worker still are the abstract channel: requests are handed over in
\* the order of their acceptance, each at most once, one at most after Shutdown.
THEOREM SystemIsAChannel == Spec => QP!Channel!SafetySpec
  <1>1. QP!Spec => QP!Channel!SafetySpec
    BY WorkerBounds, QP!ChannelSafety
  <1> QED BY <1>1, WorkerSafety, OneWorker, PTL

\* And the queue's own promises hold of the system: no request is lost or
\* repeated, no wakeup is missed, nobody uses a member that is destroyed.
THEOREM QueuePromisesKept ==
    Spec => [](/\ QP!EachRequestOnceInOrder
               /\ QP!NoLostWakeup
               /\ QP!AtMostOneAfterShutdown
               /\ QP!MembersOutliveUsers)
  <1>1. QP!Spec => [](/\ QP!EachRequestOnceInOrder
                     /\ QP!NoLostWakeup
                     /\ QP!AtMostOneAfterShutdown
                     /\ QP!MembersOutliveUsers)
    BY WorkerBounds, QP!RequestsKeptOnceInOrder, QP!WakeupsAreNotLost,
       QP!ShutdownStopsTheWorker, QP!NoUseAfterDestruction, PTL
  <1> QED BY <1>1, WorkerSafety, OneWorker, PTL

\* The worker's call on the handle is the one its payload asks for.
THEOREM PayloadIsSent == Spec => []SendsItsPayload
  <1>1. SInv => SendsItsPayload
    BY DEF SInv
  <1> QED BY <1>1, SystemInductive, PTL

\* One poll at a time, whatever the worker and the other clients do.
THEOREM PollsExclude == Spec => []OnePollAtATime
  <1>1. SInv => OnePollAtATime
    BY DEF SInv
  <1> QED BY <1>1, SystemInductive, PTL

\* The destructor releases libcurl when no call that uses it is under way.
THEOREM ReleasedLast == Spec => []CleanupIsAfterLastUse
  <1>1. QP!IInv /\ SInv => CleanupIsAfterLastUse
    <2> SUFFICES ASSUME QP!IInv, SInv, curl \in {"released", "closed"}
                 PROVE  /\ \A u \in Threads : phase[u] = "idle"
                        /\ getting = {} /\ refs = {}
                        /\ wpc = "exited"
                        /\ mPollingMutex = None
      BY DEF CleanupIsAfterLastUse, Threads
    <2>1. life \in {"joined", "destroyed"}
      BY DEF SInv, CurlLife
    <2>2. wpc = "exited" /\ refs = {}
      BY <2>1 DEF QP!IInv, QP!Life
    <2>3. phase[mHttpThread] = "idle"
      BY <2>2 DEF SInv, SendsItsPayload
    <2>4. \A c \in Clients : phase[c] = "idle" /\ c \notin getting
      BY <2>1 DEF SInv, CallersHold
    <2>5. getting = {}
      BY <2>4 DEF SInv, OwnTypes
    <2>6. mPollingMutex = None
      BY <2>4 DEF SInv, OwnTypes, H!TypeOK, OnePollAtATime
    <2> QED BY <2>2, <2>3, <2>4, <2>5, <2>6 DEF Threads
  <1> QED BY <1>1, Lifted, SystemInductive, PTL
=============================================================================
