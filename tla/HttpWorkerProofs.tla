-------------------------- MODULE HttpWorkerProofs --------------------------
(***************************************************************************)
(* Theorems about HttpWorker, for any set of clients and any MaxCalls.     *)
(***************************************************************************)
EXTENDS HttpWorker, SequenceTheorems, TLAPS

(***************************************************************************)
(* The inductive invariant.  Life ties the stage of the singleton to       *)
(* mActive, to the owners and to where the worker can stand; LastLap says  *)
(* when the transfer that may follow Shutdown is still to come.            *)
(***************************************************************************)
Life ==
    /\ life = "none" <=> wpc = "none"
    /\ mActive <=> life = "running"
    /\ life = "starting" => wpc \in {"ready", "readyBlocked"}
    /\ life \in {"joining", "joined", "destroyed"} => refs = {}
    /\ life \in {"joined", "destroyed"} => wpc = "exited"
    /\ wpc = "exited" => life \in {"joining", "joined", "destroyed"}

Holding == wpc = "perform" => pl \in QueueRequest

LastLap ==
    life \in {"joining", "joined", "destroyed"} =>
        /\ atShutdown <= Len(attempted)
        /\ Len(attempted) <= atShutdown + 1
        /\ wpc \in {"fetch", "perform"} => Len(attempted) = atShutdown

IInv ==
    /\ TypeOK
    /\ Life
    /\ Holding
    /\ LastLap
    /\ NoLostWakeup
    /\ EachRequestOnceInOrder

-----------------------------------------------------------------------------
(***************************************************************************)
(* Facts about the queue.                                                  *)
(***************************************************************************)
\* Popping the front of a queue takes apart what a concatenation put together.
LEMMA HeadThenTail ==
  ASSUME NEW S, NEW q \in Seq(S), q # <<>>
  PROVE  q = <<Head(q)>> \o Tail(q)
  <1>1. /\ Head(q) \in S
        /\ Tail(q) \in Seq(S)
        /\ Len(Tail(q)) = Len(q) - 1
        /\ \A i \in 1 .. Len(Tail(q)) : Tail(q)[i] = q[i + 1]
    BY HeadTailProperties
  <1>2. Len(q) \in Nat \ {0} /\ Head(q) = q[1]
    BY EmptySeq
  <1>3. <<Head(q)>> \in Seq(S) /\ Len(<<Head(q)>>) = 1
    BY <1>1
  <1>4. /\ <<Head(q)>> \o Tail(q) \in Seq(S)
        /\ Len(<<Head(q)>> \o Tail(q)) = Len(q)
        /\ \A i \in 1 .. Len(q) : (<<Head(q)>> \o Tail(q))[i] =
               IF i <= 1 THEN <<Head(q)>>[i] ELSE Tail(q)[i - 1]
    BY <1>1, <1>2, <1>3, ConcatProperties
  <1>5. ASSUME NEW i \in 1 .. Len(q)
        PROVE  (<<Head(q)>> \o Tail(q))[i] = q[i]
    BY <1>1, <1>2, <1>4
  <1>6. QED
    BY <1>4, <1>5, SeqEqual

\* What comes first in a concatenation is a prefix of it.
LEMMA PrefixOfConcat ==
  ASSUME NEW S, NEW a \in Seq(S), NEW b \in Seq(S)
  PROVE  /\ Len(a) <= Len(a \o b)
         /\ \A i \in 1 .. Len(a) : a[i] = (a \o b)[i]
  <1>1. Len(a) \in Nat /\ Len(b) \in Nat
    OBVIOUS
  <1>2. QED
    BY <1>1, ConcatProperties

-----------------------------------------------------------------------------
(***************************************************************************)
(* Type correctness.  Holding is what makes it inductive: a worker about   *)
(* to append pl to the history holds a request.                            *)
(***************************************************************************)
Typed == TypeOK /\ Holding

LEMMA TypeInit == Init => Typed
  <1> SUFFICES ASSUME Init PROVE Typed
    OBVIOUS
  <1>1. mActive \in BOOLEAN /\ signalled \in BOOLEAN
    BY DEF Init
  <1>2. wpc \in WorkerStates /\ life \in LifeStages /\ atShutdown \in Nat
    BY DEF Init, WorkerStates, LifeStages
  <1>3. /\ mHttpDataQueue \in Seq(QueueRequest)
        /\ accepted \in Seq(QueueRequest)
        /\ attempted \in Seq(QueueRequest)
    BY EmptySeq DEF Init
  <1>4. pl \in QueueRequest \cup {None} /\ refs \subseteq Clients \cup {Static}
    BY DEF Init
  <1>5. calls \in [Clients -> 0 .. MaxCalls]
    BY HttpWorkerAssumption DEF Init
  <1>6. QED
    BY <1>1, <1>2, <1>3, <1>4, <1>5 DEF Init, Typed, TypeOK, Holding

LEMMA NewRequestType ==
  ASSUME TypeOK, NEW c \in Clients, NEW m \in HTTP_METHOD, calls[c] < MaxCalls
  PROVE  /\ NewRequest(c, m) \in Request
         /\ m \in {"POST", "PUT"} => NewRequest(c, m) \in QueueRequest
  BY HttpWorkerAssumption DEF TypeOK, NewRequest, Request, QueueRequest

LEMMA TypeNext == Typed /\ [Next]_vars => Typed'
  <1> SUFFICES ASSUME Typed, [Next]_vars PROVE Typed'
    OBVIOUS
  <1> USE DEF queueVars, workerVars, facadeVars, clientVars
  <1>1. CASE Facade
    <2>1. ASSUME NEW c \in Clients, Construct(c) \/ GetInstance(c) PROVE Typed'
      BY <2>1 DEF Construct, GetInstance, Typed, TypeOK, Holding, WorkerStates, LifeStages
    <2>2. ASSUME NEW o \in Clients \cup {Static}, Release(o) PROVE Typed'
      BY <2>2 DEF Release, Typed, TypeOK, Holding
    <2>3. CASE Start
      BY <2>3 DEF Start, NotifyOne, Typed, TypeOK, Holding, LifeStages
    <2>4. CASE Shutdown
      <3>1. Len(attempted) \in Nat
        BY DEF Typed, TypeOK, Holding
      <3>2. QED
        BY <2>4, <3>1 DEF Shutdown, NotifyOne, Typed, TypeOK, Holding, LifeStages
    <2>5. CASE Join \/ DestroyMembers
      BY <2>5, EmptySeq DEF Join, DestroyMembers, Typed, TypeOK, Holding, LifeStages
    <2>6. QED
      BY <1>1, <2>1, <2>2, <2>3, <2>4, <2>5 DEF Facade
  <1>2. CASE Client
    <2> SUFFICES ASSUME NEW c \in Clients,
                        \/ CreateDeviceData(c)
                        \/ UpdateDeviceData(c)
                        \/ RemoveDeviceData(c)
                 PROVE  Typed'
      BY <1>2 DEF Client
    <2>1. ASSUME NEW m \in {"POST", "PUT"}, NEW r, r = NewRequest(c, m),
                 Return(c), Push(r) \/ PushThrows,
                 UNCHANGED <<mActive, workerVars, facadeVars>>
          PROVE  Typed'
      <3>1. r \in Request /\ r \in QueueRequest
        BY <2>1, NewRequestType DEF Typed, Return, HTTP_METHOD
      <3>2. calls' \in [Clients -> 0 .. MaxCalls]
        BY <2>1, <3>1, HttpWorkerAssumption DEF Return, Typed, TypeOK, Holding
      <3>3. mHttpDataQueue' \in Seq(QueueRequest) /\ accepted' \in Seq(QueueRequest)
        <4>1. CASE Push(r)
          BY <3>1, <4>1, AppendProperties DEF Push, Typed, TypeOK
        <4>2. CASE PushThrows
          BY <4>2 DEF PushThrows, Typed, TypeOK
        <4>3. QED
          BY <2>1, <4>1, <4>2
      <3>4. signalled' \in BOOLEAN
        BY <2>1 DEF Push, PushThrows, NotifyOne, Typed, TypeOK
      <3>5. QED
        BY <2>1, <3>2, <3>3, <3>4 DEF Typed, TypeOK, Holding
    <2>2. CASE CreateDeviceData(c) \/ UpdateDeviceData(c)
      BY <2>1, <2>2 DEF CreateDeviceData, UpdateDeviceData
    <2>3. CASE RemoveDeviceData(c)
      <3>1. calls' \in [Clients -> 0 .. MaxCalls]
        BY <2>3, HttpWorkerAssumption DEF RemoveDeviceData, Return, Typed, TypeOK, Holding
      <3>2. QED
        BY <2>3, <3>1 DEF RemoveDeviceData, Typed, TypeOK, Holding
    <2>4. QED
      BY <2>2, <2>3
  <1>3. CASE Worker
    <2>1. CASE ReadyWait \/ ReadyWake \/ IdleWait \/ IdleWake
      BY <2>1 DEF ReadyWait, ReadyWake, IdleWait, IdleWake, Wait, Typed, TypeOK, Holding,
                  WorkerStates, Blocked
    <2>2. CASE LoopTest \/ Recheck
      BY <2>2 DEF LoopTest, Recheck, Typed, TypeOK, Holding, WorkerStates
    <2>3. CASE Fetch
      BY <2>3, HeadTailProperties DEF Fetch, Typed, TypeOK, Holding, WorkerStates
    <2>4. CASE Perform
      <3>1. pl \in QueueRequest
        BY <2>4 DEF Perform, Typed, Holding
      <3>2. attempted' \in Seq(QueueRequest)
        BY <2>4, <3>1, AppendProperties DEF Perform, Typed, TypeOK, Holding
      <3>3. QED
        BY <2>4, <3>2 DEF Perform, Typed, TypeOK, Holding, WorkerStates
    <2>5. QED
      BY <1>3, <2>1, <2>2, <2>3, <2>4 DEF Worker
  <1>4. CASE SpuriousWakeup
    BY <1>4 DEF SpuriousWakeup, Typed, TypeOK, Holding
  <1>5. CASE UNCHANGED vars
    BY <1>5 DEF vars, Typed, TypeOK, Holding
  <1>6. QED
    BY <1>1, <1>2, <1>3, <1>4, <1>5 DEF Next

\* The variables keep their types in every run of the program.
THEOREM TypeCorrect == Spec => []TypeOK
  <1>1. Typed => TypeOK
    BY DEF Typed
  <1>2. QED
    BY <1>1, TypeInit, TypeNext, PTL DEF Spec

-----------------------------------------------------------------------------
(***************************************************************************)
(* Each conjunct of the inductive invariant is kept by every step.         *)
(***************************************************************************)
\* All a client's call does to the rest is to push one request, or nothing.
LEMMA ClientPushes ==
  ASSUME Typed, Client
  PROVE  /\ life = "running"
         /\ UNCHANGED <<mActive, workerVars, facadeVars>>
         /\ \/ \E r \in QueueRequest : Push(r)
            \/ UNCHANGED <<mHttpDataQueue, accepted, signalled>>
  <1> PICK c \in Clients : \/ CreateDeviceData(c)
                          \/ UpdateDeviceData(c)
                          \/ RemoveDeviceData(c)
    BY DEF Client
  <1>1. ASSUME NEW m \in {"POST", "PUT"}, Return(c)
        PROVE  NewRequest(c, m) \in QueueRequest
    BY <1>1, NewRequestType DEF Typed, Return, HTTP_METHOD
  <1>2. CASE CreateDeviceData(c)
    <2>1. NewRequest(c, "POST") \in QueueRequest
      BY <1>1, <1>2 DEF CreateDeviceData
    <2>2. QED
      BY <1>2, <2>1 DEF CreateDeviceData, Return, PushThrows
  <1>3. CASE UpdateDeviceData(c)
    <2>1. NewRequest(c, "PUT") \in QueueRequest
      BY <1>1, <1>3 DEF UpdateDeviceData
    <2>2. QED
      BY <1>3, <2>1 DEF UpdateDeviceData, Return, PushThrows
  <1>4. CASE RemoveDeviceData(c)
    BY <1>4 DEF RemoveDeviceData, Return, queueVars
  <1>5. QED
    BY <1>2, <1>3, <1>4

LEMMA LifeNext == Typed /\ Life /\ [Next]_vars => Life'
  <1> SUFFICES ASSUME Typed, Life, [Next]_vars PROVE Life'
    OBVIOUS
  <1> USE DEF queueVars, workerVars, facadeVars, clientVars, Life
  <1>1. CASE Facade
    <2>1. ASSUME NEW c \in Clients, Construct(c) PROVE Life'
      BY <2>1 DEF Construct
    <2>2. ASSUME NEW c \in Clients, GetInstance(c) PROVE Life'
      BY <2>2 DEF GetInstance
    <2>3. ASSUME NEW o \in Clients \cup {Static}, Release(o) PROVE Life'
      BY <2>3 DEF Release
    <2>4. CASE Start
      BY <2>4 DEF Start
    <2>5. CASE Shutdown
      BY <2>5 DEF Shutdown
    <2>6. CASE Join
      BY <2>6 DEF Join
    <2>7. CASE DestroyMembers
      BY <2>7 DEF DestroyMembers
    <2>8. QED
      BY <1>1, <2>1, <2>2, <2>3, <2>4, <2>5, <2>6, <2>7 DEF Facade
  <1>2. CASE Client
    BY <1>2, ClientPushes
  <1>3. CASE Worker
    <2>1. CASE ReadyWait \/ ReadyWake
      BY <2>1 DEF ReadyWait, ReadyWake, Wait, ReadyPredicate
    <2>2. CASE IdleWait \/ IdleWake
      BY <2>2 DEF IdleWait, IdleWake, Wait
    <2>3. CASE LoopTest
      BY <2>3 DEF LoopTest, Typed, TypeOK, LifeStages
    <2>4. CASE Fetch
      BY <2>4 DEF Fetch
    <2>5. CASE Perform
      BY <2>5 DEF Perform
    <2>6. CASE Recheck
      BY <2>6 DEF Recheck
    <2>7. QED
      BY <1>3, <2>1, <2>2, <2>3, <2>4, <2>5, <2>6 DEF Worker
  <1>4. CASE SpuriousWakeup
    BY <1>4 DEF SpuriousWakeup
  <1>5. CASE UNCHANGED vars
    BY <1>5 DEF vars
  <1>6. QED
    BY <1>1, <1>2, <1>3, <1>4, <1>5 DEF Next

LEMMA NoLostWakeupNext == Typed /\ Life /\ NoLostWakeup /\ [Next]_vars => NoLostWakeup'
  <1> SUFFICES ASSUME Typed, Life, NoLostWakeup, [Next]_vars PROVE NoLostWakeup'
    OBVIOUS
  <1> USE DEF queueVars, workerVars, facadeVars, clientVars, NoLostWakeup
  <1>1. CASE Facade
    <2>1. ASSUME NEW c \in Clients, Construct(c) \/ GetInstance(c)
          PROVE  NoLostWakeup'
      BY <2>1 DEF Construct, GetInstance
    <2>2. ASSUME NEW o \in Clients \cup {Static}, Release(o) PROVE NoLostWakeup'
      BY <2>2 DEF Release
    <2>3. CASE Start
      BY <2>3 DEF Start, Life
    <2>4. CASE Shutdown
      BY <2>4 DEF Shutdown, NotifyOne, Blocked, Life
    <2>5. CASE Join \/ DestroyMembers
      BY <2>5 DEF Join, DestroyMembers, Life
    <2>6. QED
      BY <1>1, <2>1, <2>2, <2>3, <2>4, <2>5 DEF Facade
  <1>2. CASE Client
    BY <1>2, ClientPushes DEF Push, NotifyOne, Blocked
  <1>3. CASE Worker
    <2>1. CASE ReadyWait \/ ReadyWake
      BY <2>1 DEF ReadyWait, ReadyWake, Wait, ReadyPredicate
    <2>2. CASE IdleWait \/ IdleWake
      BY <2>2 DEF IdleWait, IdleWake, Wait, IdlePredicate
    <2>3. CASE LoopTest \/ Fetch \/ Perform \/ Recheck
      BY <2>3 DEF LoopTest, Fetch, Perform, Recheck
    <2>4. QED
      BY <1>3, <2>1, <2>2, <2>3 DEF Worker
  <1>4. CASE SpuriousWakeup
    BY <1>4 DEF SpuriousWakeup
  <1>5. CASE UNCHANGED vars
    BY <1>5 DEF vars
  <1>6. QED
    BY <1>1, <1>2, <1>3, <1>4, <1>5 DEF Next

LEMMA LastLapNext == Typed /\ Life /\ LastLap /\ [Next]_vars => LastLap'
  <1> SUFFICES ASSUME Typed, Life, LastLap, [Next]_vars PROVE LastLap'
    OBVIOUS
  <1> USE DEF queueVars, workerVars, facadeVars, clientVars, LastLap
  <1>0. Len(attempted) \in Nat /\ atShutdown \in Nat
    BY DEF Typed, TypeOK
  <1>1. CASE Facade
    <2>1. ASSUME NEW c \in Clients, Construct(c) \/ GetInstance(c) PROVE LastLap'
      BY <2>1 DEF Construct, GetInstance
    <2>2. ASSUME NEW o \in Clients \cup {Static}, Release(o) PROVE LastLap'
      BY <2>2 DEF Release
    <2>3. CASE Start
      BY <2>3 DEF Start
    <2>4. CASE Shutdown
      BY <1>0, <2>4 DEF Shutdown
    <2>5. CASE Join \/ DestroyMembers
      BY <2>5 DEF Join, DestroyMembers
    <2>6. QED
      BY <1>1, <2>1, <2>2, <2>3, <2>4, <2>5 DEF Facade
  <1>2. CASE Client
    BY <1>2, ClientPushes
  <1>3. CASE Worker
    <2>1. CASE ReadyWait \/ ReadyWake \/ IdleWait \/ IdleWake
      BY <2>1 DEF ReadyWait, ReadyWake, IdleWait, IdleWake, Wait
    <2>2. CASE LoopTest
      BY <2>2 DEF LoopTest, Life
    <2>3. CASE Fetch
      BY <2>3 DEF Fetch
    <2>4. CASE Perform
      <3>1. Len(attempted') = Len(attempted) + 1
        BY <2>4, AppendProperties DEF Perform, Typed, TypeOK, Holding, QueueRequest
      <3>2. QED
        BY <1>0, <2>4, <3>1 DEF Perform
    <2>5. CASE Recheck
      BY <2>5 DEF Recheck
    <2>6. QED
      BY <1>3, <2>1, <2>2, <2>3, <2>4, <2>5 DEF Worker
  <1>4. CASE SpuriousWakeup
    BY <1>4 DEF SpuriousWakeup
  <1>5. CASE UNCHANGED vars
    BY <1>5 DEF vars
  <1>6. QED
    BY <1>1, <1>2, <1>3, <1>4, <1>5 DEF Next

\* A push extends the queue and the whole sequence of places alike.
LEMMA PushKeepsOrder ==
  ASSUME Typed, NEW r \in QueueRequest
  PROVE  Append(attempted \o InFlight \o mHttpDataQueue, r) =
           attempted \o InFlight \o Append(mHttpDataQueue, r)
  <1>1. /\ attempted \in Seq(QueueRequest)
        /\ InFlight \in Seq(QueueRequest)
        /\ mHttpDataQueue \in Seq(QueueRequest)
        /\ <<r>> \in Seq(QueueRequest)
    BY EmptySeq DEF Typed, TypeOK, Holding, InFlight
  <1>2. attempted \o InFlight \in Seq(QueueRequest)
    BY <1>1, ConcatProperties
  <1>3. (attempted \o InFlight) \o mHttpDataQueue \in Seq(QueueRequest)
    BY <1>1, <1>2, ConcatProperties
  <1>4. Append((attempted \o InFlight) \o mHttpDataQueue, r) =
          ((attempted \o InFlight) \o mHttpDataQueue) \o <<r>>
    BY <1>3, AppendIsConcat
  <1>5. Append(mHttpDataQueue, r) = mHttpDataQueue \o <<r>>
    BY <1>1, AppendIsConcat
  <1>6. ((attempted \o InFlight) \o mHttpDataQueue) \o <<r>> =
          (attempted \o InFlight) \o (mHttpDataQueue \o <<r>>)
    BY <1>1, <1>2, ConcatAssociative
  <1>7. QED
    BY <1>4, <1>5, <1>6

LEMMA OnceNext ==
  Typed /\ Life /\ EachRequestOnceInOrder /\ [Next]_vars => EachRequestOnceInOrder'
  <1> SUFFICES ASSUME Typed, Life, EachRequestOnceInOrder, [Next]_vars
               PROVE  EachRequestOnceInOrder'
    OBVIOUS
  <1> USE DEF queueVars, workerVars, facadeVars, clientVars
  <1>0. /\ InFlight \in Seq(QueueRequest)
        /\ attempted \in Seq(QueueRequest)
        /\ mHttpDataQueue \in Seq(QueueRequest)
    BY EmptySeq DEF Typed, TypeOK, Holding, InFlight
  <1>1. CASE Facade
    <2>1. ASSUME NEW c \in Clients, Construct(c) \/ GetInstance(c)
          PROVE  EachRequestOnceInOrder'
      BY <2>1 DEF Construct, GetInstance, EachRequestOnceInOrder, InFlight, Life
    <2>2. ASSUME NEW o \in Clients \cup {Static}, Release(o)
          PROVE  EachRequestOnceInOrder'
      BY <2>2 DEF Release, EachRequestOnceInOrder, InFlight
    <2>3. CASE Start \/ Shutdown \/ Join
      BY <2>3 DEF Start, Shutdown, Join, EachRequestOnceInOrder, InFlight
    <2>4. CASE DestroyMembers
      BY <2>4 DEF DestroyMembers, EachRequestOnceInOrder
    <2>5. QED
      BY <1>1, <2>1, <2>2, <2>3, <2>4 DEF Facade
  <1>2. CASE Client
    <2>1. life = "running" /\ UNCHANGED <<life, wpc, pl, attempted>>
      BY <1>2, ClientPushes
    <2>2. accepted = attempted \o InFlight \o mHttpDataQueue /\ InFlight' = InFlight
      BY <2>1 DEF EachRequestOnceInOrder, InFlight
    <2>3. ASSUME NEW r \in QueueRequest, Push(r) PROVE EachRequestOnceInOrder'
      <3>1. Append(attempted \o InFlight \o mHttpDataQueue, r) =
              attempted \o InFlight \o Append(mHttpDataQueue, r)
        BY PushKeepsOrder
      <3>2. QED
        BY <2>1, <2>2, <2>3, <3>1 DEF Push, EachRequestOnceInOrder
    <2>4. CASE UNCHANGED <<mHttpDataQueue, accepted, signalled>>
      BY <2>1, <2>2, <2>4 DEF EachRequestOnceInOrder
    <2>5. QED
      BY <1>2, <2>3, <2>4, ClientPushes
  <1>3. CASE Worker
    <2>1. CASE ReadyWait \/ ReadyWake \/ IdleWait \/ IdleWake
      BY <2>1 DEF ReadyWait, ReadyWake, IdleWait, IdleWake, Wait,
                  EachRequestOnceInOrder, InFlight
    <2>2. CASE LoopTest \/ Recheck
      BY <2>2 DEF LoopTest, Recheck, EachRequestOnceInOrder, InFlight
    <2>3. CASE Fetch
      <3>1. CASE mHttpDataQueue = <<>>
        BY <2>3, <3>1 DEF Fetch, EachRequestOnceInOrder, InFlight
      <3>2. CASE mHttpDataQueue # <<>>
        <4>1. InFlight = <<>> /\ InFlight' = <<Head(mHttpDataQueue)>>
          BY <2>3, <3>2 DEF Fetch, InFlight
        <4>2. attempted \o <<>> = attempted
          BY <1>0, ConcatEmptySeq
        <4>3. /\ <<Head(mHttpDataQueue)>> \in Seq(QueueRequest)
              /\ Tail(mHttpDataQueue) \in Seq(QueueRequest)
          BY <1>0, <3>2, HeadTailProperties
        <4>4. attempted \o mHttpDataQueue =
                attempted \o <<Head(mHttpDataQueue)>> \o Tail(mHttpDataQueue)
          BY <1>0, <3>2, <4>3, HeadThenTail, ConcatAssociative
        <4>5. QED
          BY <2>3, <3>2, <4>1, <4>2, <4>4 DEF Fetch, EachRequestOnceInOrder
      <3>3. QED
        BY <3>1, <3>2
    <2>4. CASE Perform
      <3>1. pl \in QueueRequest /\ InFlight = <<pl>> /\ InFlight' = <<>>
        BY <2>4 DEF Perform, Typed, Holding, InFlight
      <3>2. Append(attempted, pl) = attempted \o <<pl>>
        BY <1>0, <3>1, AppendIsConcat
      <3>3. attempted' = attempted \o <<pl>>
        BY <2>4, <3>1, <3>2 DEF Perform, QueueRequest
      <3>4. Append(attempted, pl) \in Seq(QueueRequest)
        BY <1>0, <3>1, AppendProperties
      <3>5. (attempted \o <<pl>>) \o <<>> = attempted \o <<pl>>
        BY <3>2, <3>4, ConcatEmptySeq
      <3>6. QED
        BY <2>4, <3>1, <3>3, <3>5 DEF Perform, EachRequestOnceInOrder
    <2>5. QED
      BY <1>3, <2>1, <2>2, <2>3, <2>4 DEF Worker
  <1>4. CASE SpuriousWakeup
    BY <1>4 DEF SpuriousWakeup, EachRequestOnceInOrder, InFlight
  <1>5. CASE UNCHANGED vars
    BY <1>5 DEF vars, EachRequestOnceInOrder, InFlight
  <1>6. QED
    BY <1>1, <1>2, <1>3, <1>4, <1>5 DEF Next

LEMMA IInvInit == Init => IInv
  <1> SUFFICES ASSUME Init PROVE IInv
    OBVIOUS
  <1>1. Typed
    BY TypeInit
  <1>2. Life /\ LastLap /\ NoLostWakeup
    BY DEF Init, Life, LastLap, NoLostWakeup
  <1>3. EachRequestOnceInOrder
    BY DEF Init, EachRequestOnceInOrder, InFlight
  <1>4. QED
    BY <1>1, <1>2, <1>3 DEF IInv, Typed

LEMMA IInvNext == IInv /\ [Next]_vars => IInv'
  BY TypeNext, LifeNext, LastLapNext, NoLostWakeupNext, OnceNext DEF IInv, Typed

THEOREM Inductive == Spec => []IInv
  BY IInvInit, IInvNext, PTL DEF Spec

-----------------------------------------------------------------------------
(***************************************************************************)
(* The safety properties of HttpWorker, for every number of clients.       *)
(***************************************************************************)
\* Every request pushed is in one place, in the order of the pushes.
THEOREM RequestsKeptOnceInOrder == Spec => []EachRequestOnceInOrder
  <1>1. IInv => EachRequestOnceInOrder
    BY DEF IInv
  <1>2. QED
    BY <1>1, Inductive, PTL

\* The sleeping worker has not missed a push or the shutdown.
THEOREM WakeupsAreNotLost == Spec => []NoLostWakeup
  <1>1. IInv => NoLostWakeup
    BY DEF IInv
  <1>2. QED
    BY <1>1, Inductive, PTL

\* At most one transfer follows Shutdown.
THEOREM ShutdownStopsTheWorker == Spec => []AtMostOneAfterShutdown
  <1>1. IInv => AtMostOneAfterShutdown
    BY DEF IInv, LastLap, AtMostOneAfterShutdown
  <1>2. QED
    BY <1>1, Inductive, PTL

\* Nobody is left to use the members when they are destroyed.
THEOREM NoUseAfterDestruction == Spec => []MembersOutliveUsers
  <1>1. IInv => MembersOutliveUsers
    BY DEF IInv, Life, MembersOutliveUsers
  <1>2. QED
    BY <1>1, Inductive, PTL

-----------------------------------------------------------------------------
(***************************************************************************)
(* Implementation of RequestChannel, the safety half.                      *)
(***************************************************************************)
\* The transfer that Perform makes is the next one of the channel.
LEMMA PerformDeliversNext ==
  ASSUME IInv, Perform
  PROVE  Channel!DeliverNext
  <1>1. pl \in QueueRequest /\ InFlight = <<pl>> /\ life # "destroyed"
    BY DEF Perform, IInv, Holding, InFlight, Life
  <1>2. /\ attempted \in Seq(QueueRequest)
        /\ mHttpDataQueue \in Seq(QueueRequest)
        /\ <<pl>> \in Seq(QueueRequest)
    BY <1>1 DEF IInv, TypeOK
  <1>3. /\ attempted \o <<pl>> \in Seq(QueueRequest)
        /\ Len(attempted \o <<pl>>) = Len(attempted) + 1
        /\ (attempted \o <<pl>>)[Len(attempted) + 1] = pl
    <2>1. attempted \o <<pl>> = Append(attempted, pl)
      BY <1>1, <1>2, AppendIsConcat
    <2>2. QED
      BY <1>1, <1>2, <2>1, AppendProperties
  <1>4. accepted = (attempted \o <<pl>>) \o mHttpDataQueue
    BY <1>1 DEF IInv, EachRequestOnceInOrder
  <1>5. /\ Len(attempted \o <<pl>>) <= Len((attempted \o <<pl>>) \o mHttpDataQueue)
        /\ \A i \in 1 .. Len(attempted \o <<pl>>) :
              (attempted \o <<pl>>)[i] = ((attempted \o <<pl>>) \o mHttpDataQueue)[i]
    BY <1>2, <1>3, PrefixOfConcat
  <1>6. Len(attempted) \in Nat
    BY <1>2
  <1>7. Len(attempted) < Len(accepted) /\ accepted[Len(attempted) + 1] = pl
    BY <1>2, <1>3, <1>4, <1>5, <1>6
  <1>8. attempted' = Append(attempted, pl)
    BY <1>1 DEF Perform, QueueRequest
  <1>9. QED
    BY <1>7, <1>8 DEF Channel!DeliverNext

LEMMA ChannelInit == Init => Channel!Init
  BY DEF Init, Channel!Init

LEMMA ChannelNext == IInv /\ [Next]_vars => [Channel!Next]_Channel!vars
  <1> SUFFICES ASSUME IInv, [Next]_vars PROVE [Channel!Next]_Channel!vars
    OBVIOUS
  <1> USE DEF queueVars, workerVars, facadeVars, clientVars
  <1>0. Len(attempted) \in Nat /\ atShutdown \in Nat /\ life \in LifeStages
    BY DEF IInv, TypeOK
  <1>1. CASE Facade
    <2>1. ASSUME NEW c \in Clients, Construct(c) \/ GetInstance(c)
          PROVE  UNCHANGED Channel!vars
      BY <2>1 DEF Construct, GetInstance, Channel!vars
    <2>2. ASSUME NEW o \in Clients \cup {Static}, Release(o)
          PROVE  UNCHANGED Channel!vars
      BY <2>2 DEF Release, Channel!vars
    <2>3. CASE Start
      BY <2>3 DEF Start, Channel!vars
    <2>4. CASE Shutdown
      BY <1>0, <2>4 DEF Shutdown, Channel!Next, Channel!Close
    <2>5. CASE Join
      BY <2>5 DEF Join, Channel!vars
    <2>6. CASE DestroyMembers
      BY <2>6 DEF DestroyMembers, Channel!Next, Channel!Seal
    <2>7. QED
      BY <1>1, <2>1, <2>2, <2>3, <2>4, <2>5, <2>6 DEF Facade
  <1>2. CASE Client
    <2>1. Typed
      BY DEF IInv, Typed
    <2>2. life = "running" /\ UNCHANGED <<life, attempted, atShutdown>>
      BY <1>2, <2>1, ClientPushes
    <2>3. ASSUME NEW r \in QueueRequest, Push(r) PROVE Channel!Accept(r)
      BY <2>2, <2>3 DEF Push, Channel!Accept
    <2>4. CASE UNCHANGED <<mHttpDataQueue, accepted, signalled>>
      BY <2>2, <2>4 DEF Channel!vars
    <2>5. QED
      BY <1>2, <2>1, <2>3, <2>4, ClientPushes DEF Channel!Next
  <1>3. CASE Worker
    <2>1. CASE Perform
      <3>1. Channel!DeliverNext
        BY <2>1, PerformDeliversNext
      <3>2. life \in {"running", "joining"}
        BY <2>1, <1>0 DEF Perform, IInv, Life, LifeStages
      <3>3. CASE life = "running"
        BY <2>1, <3>1, <3>3 DEF Perform, Channel!Next, Channel!DeliverOpen
      <3>4. CASE life = "joining"
        <4>1. Len(attempted) = atShutdown
          BY <2>1, <3>4 DEF Perform, IInv, LastLap
        <4>2. Len(attempted') = Len(attempted) + 1
          BY <2>1, AppendProperties DEF Perform, IInv, TypeOK, Holding, QueueRequest
        <4>3. QED
          BY <1>0, <2>1, <3>1, <3>4, <4>1, <4>2
          DEF Perform, Channel!Next, Channel!DeliverClosing
      <3>5. QED
        BY <3>2, <3>3, <3>4
    <2>2. CASE ReadyWait \/ ReadyWake \/ IdleWait \/ IdleWake
      BY <2>2 DEF ReadyWait, ReadyWake, IdleWait, IdleWake, Channel!vars
    <2>3. CASE LoopTest \/ Fetch \/ Recheck
      BY <2>3 DEF LoopTest, Fetch, Recheck, Channel!vars
    <2>4. QED
      BY <1>3, <2>1, <2>2, <2>3 DEF Worker
  <1>4. CASE SpuriousWakeup \/ UNCHANGED vars
    BY <1>4 DEF SpuriousWakeup, vars, Channel!vars
  <1>5. QED
    BY <1>1, <1>2, <1>3, <1>4 DEF Next

\* Every run of the facade, the worker, the lock and the condition variable is
\* a run of the channel: what ImplementsChannel says, fairness left out.
THEOREM ChannelSafety == Spec => Channel!SafetySpec
  BY Inductive, ChannelInit, ChannelNext, PTL DEF Spec, Channel!SafetySpec

-----------------------------------------------------------------------------
(***************************************************************************)
(* Variants: what the two liveness properties rest on besides fairness.    *)
(* ToDo counts the steps that the destructor and the worker can still make *)
(* after Shutdown.  Backlog counts the worker's steps while the facade     *)
(* lives: five for a request in the queue (one lap), and what is left of   *)
(* the lap it is in.                                                       *)
(***************************************************************************)
Closing == life \in {"joining", "joined", "destroyed"} /\ PastReady

ToExit ==
    CASE wpc = "fetch" -> 6
      [] wpc = "perform" -> 5
      [] wpc = "recheck" -> 4
      [] wpc \in {"idle", "idleBlocked"} -> 3
      [] wpc = "loop" -> 2
      [] OTHER -> 1

ToDo == CASE life = "joining" -> ToExit + 1
          [] life = "joined" -> 1
          [] OTHER -> 0

Lap == CASE wpc = "fetch" -> 1
         [] wpc = "loop" -> 2
         [] wpc = "perform" -> 4
         [] OTHER -> 3

Backlog == 5 * Len(mHttpDataQueue) + Lap

Pending == mHttpDataQueue # <<>> \/ wpc = "perform"

\* Once it is past its first wait the worker never comes back to it, and a
\* worker asleep in its second wait when the facade closes has been woken.
LEMMA ClosingWorkerIsAwake ==
  ASSUME IInv, Closing
  PROVE  wpc = "idleBlocked" => signalled
  BY DEF IInv, Closing, NoLostWakeup, Life

\* A step of the worker while the facade closes.
LEMMA ClosingWorkerStep ==
  ASSUME IInv, Closing, Worker
  PROVE  ToDo' \in Nat /\ ToDo' < ToDo
  <1> USE DEF Closing, PastReady, ToDo, ToExit
  <1>1. ~mActive /\ life = "joining" /\ life' = life
    <2>1. wpc # "exited"
      BY DEF Worker, ReadyWait, ReadyWake, LoopTest, Fetch, Perform, Recheck,
             IdleWait, IdleWake
    <2>2. life' = life
      BY DEF Worker, ReadyWait, ReadyWake, LoopTest, Fetch, Perform, Recheck,
             IdleWait, IdleWake, facadeVars
    <2>3. QED
      BY <2>1, <2>2 DEF IInv, Life
  <1>2. CASE LoopTest
    BY <1>1, <1>2 DEF LoopTest
  <1>3. CASE Fetch
    BY <1>1, <1>3 DEF Fetch
  <1>4. CASE Perform
    BY <1>1, <1>4 DEF Perform
  <1>5. CASE Recheck
    BY <1>1, <1>5 DEF Recheck
  <1>6. CASE IdleWait \/ IdleWake
    BY <1>1, <1>6 DEF IdleWait, IdleWake, Wait, IdlePredicate
  <1>7. QED
    BY <1>2, <1>3, <1>4, <1>5, <1>6 DEF Worker, ReadyWait, ReadyWake

\* Any step that changes something while the facade closes.
LEMMA ClosingStep ==
  ASSUME IInv, Closing, Next, vars' # vars
  PROVE  ToDo' \in Nat /\ ToDo' < ToDo
  <1> USE DEF Closing, PastReady, ToDo, ToExit
  <1>1. CASE Facade
    <2>1. refs = {}
      BY DEF IInv, Life
    <2>2. CASE Join
      BY <2>2 DEF Join, workerVars
    <2>3. CASE DestroyMembers
      BY <2>3 DEF DestroyMembers, workerVars
    <2>4. QED
      BY <1>1, <2>1, <2>2, <2>3
      DEF Facade, Construct, GetInstance, Release, Start, Shutdown
  <1>2. CASE Client
    BY <1>2 DEF Client, CreateDeviceData, UpdateDeviceData, RemoveDeviceData, Return
  <1>3. CASE Worker
    BY <1>3, ClosingWorkerStep
  <1>4. CASE SpuriousWakeup
    <2>1. signalled' = signalled
      BY <1>4, ClosingWorkerIsAwake DEF SpuriousWakeup, Blocked, IInv, TypeOK
    <2>2. UNCHANGED vars
      BY <1>4, <2>1
      DEF SpuriousWakeup, vars, queueVars, workerVars, facadeVars, clientVars
    <2>3. QED
      BY <2>2
  <1>5. QED
    BY <1>1, <1>2, <1>3, <1>4 DEF Next

\* Shutdown leaves at most eight steps to do, and from then on every step of
\* any thread is one of them, if the worker had got past its first wait: no
\* push, no wakeup and no lap of HandleHttpRequest's loop can keep the join
\* of ~CurlHttpWrapper waiting longer.
THEOREM DestructorTakesFewSteps ==
    Spec => [][/\ Shutdown => ToDo' <= 8
               /\ Closing => ToDo' \in Nat /\ ToDo' < ToDo]_vars
  <1> DEFINE Few == /\ Shutdown => ToDo' <= 8
                    /\ Closing => ToDo' \in Nat /\ ToDo' < ToDo
  <1>1. IInv /\ [Next]_vars => [Few]_vars
    <2> SUFFICES ASSUME IInv, Next, vars' # vars PROVE Few
      OBVIOUS
    <2>1. Shutdown => ToDo' <= 8
      BY DEF Shutdown, ToDo, ToExit
    <2>2. QED
      BY <2>1, ClosingStep
  <1>2. QED
    BY <1>1, Inductive, PTL DEF Spec

\* Nothing is left for ever: while the facade closes the worker is at a step
\* without a guard, is awake in its wait, or has left and can be joined.
THEOREM NobodyWaitsAtTheEnd ==
    Spec => [](Closing => \/ wpc \in {"loop", "fetch", "perform", "recheck", "idle"}
                          \/ wpc = "idleBlocked" /\ signalled
                          \/ wpc = "exited")
  <1>1. IInv => (Closing => \/ wpc \in {"loop", "fetch", "perform", "recheck", "idle"}
                            \/ wpc = "idleBlocked" /\ signalled
                            \/ wpc = "exited")
    BY ClosingWorkerIsAwake DEF Closing, PastReady, IInv, TypeOK, WorkerStates, Blocked
  <1>2. QED
    BY <1>1, Inductive, PTL

\* A step of the worker with a request in the queue or in hand.
LEMMA WorkerWorksOff ==
  ASSUME IInv, mActive, PastReady, Pending, Worker
  PROVE  Backlog' \in Nat /\ Backlog' < Backlog
  <1> USE DEF PastReady, Pending, Backlog, Lap
  <1>1. mHttpDataQueue \in Seq(QueueRequest) /\ Len(mHttpDataQueue) \in Nat
    BY DEF IInv, TypeOK
  <1>2. CASE LoopTest
    BY <1>1, <1>2 DEF LoopTest, queueVars
  <1>3. CASE Fetch
    <2>1. mHttpDataQueue # <<>> /\ wpc' = "perform"
          /\ mHttpDataQueue' = Tail(mHttpDataQueue)
      BY <1>3 DEF Fetch
    <2>2. Len(mHttpDataQueue') = Len(mHttpDataQueue) - 1 /\ Len(mHttpDataQueue) >= 1
      BY <1>1, <2>1, HeadTailProperties, EmptySeq
    <2>3. QED
      BY <1>1, <1>3, <2>1, <2>2 DEF Fetch
  <1>4. CASE Perform
    BY <1>1, <1>4 DEF Perform, queueVars
  <1>5. CASE Recheck
    BY <1>1, <1>5 DEF Recheck, queueVars
  <1>6. CASE IdleWait \/ IdleWake
    <2>1. wpc \in {"idle", "idleBlocked"} /\ mHttpDataQueue # <<>>
      BY <1>6 DEF IdleWait, IdleWake
    <2>2. wpc' = "loop" /\ mHttpDataQueue' = mHttpDataQueue
      BY <1>6, <2>1 DEF IdleWait, IdleWake, Wait, IdlePredicate
    <2>3. QED
      BY <1>1, <2>1, <2>2
  <1>7. QED
    BY <1>2, <1>3, <1>4, <1>5, <1>6 DEF Worker, ReadyWait, ReadyWake

\* A step of anyone else: one push more, or nothing.
LEMMA OthersOnlyPush ==
  ASSUME IInv, mActive, Next, ~Worker
  PROVE  \/ accepted' = accepted /\ Backlog' = Backlog
         \/ Len(accepted') = Len(accepted) + 1 /\ Backlog' = Backlog + 5
  <1> USE DEF Backlog, Lap, queueVars, workerVars, facadeVars, clientVars
  <1>1. /\ mHttpDataQueue \in Seq(QueueRequest) /\ Len(mHttpDataQueue) \in Nat
        /\ accepted \in Seq(QueueRequest)
        /\ life = "running"
        /\ Typed
    BY DEF IInv, TypeOK, Life, Typed
  <1>2. CASE Facade
    BY <1>1, <1>2
    DEF Facade, Construct, GetInstance, Release, Start, Shutdown, Join, DestroyMembers
  <1>3. CASE Client
    <2>1. UNCHANGED workerVars
      BY <1>3 DEF Client, CreateDeviceData, UpdateDeviceData, RemoveDeviceData
    <2>2. ASSUME NEW r \in QueueRequest, Push(r)
          PROVE  Len(accepted') = Len(accepted) + 1 /\ Backlog' = Backlog + 5
      <3>1. /\ Len(accepted') = Len(accepted) + 1
            /\ Len(mHttpDataQueue') = Len(mHttpDataQueue) + 1
        BY <1>1, <2>2, AppendProperties DEF Push
      <3>2. QED
        BY <1>1, <2>1, <3>1
    <2>3. QED
      BY <1>1, <1>3, <2>1, <2>2, ClientPushes
  <1>4. CASE SpuriousWakeup
    BY <1>4 DEF SpuriousWakeup
  <1>5. QED
    BY <1>2, <1>3, <1>4 DEF Next

\* While the facade lives and a request is queued or in hand, every step of
\* HandleHttpRequest brings the worker nearer to having attempted all of them;
\* only a push of PostData or UpdateDeviceData adds to what is left, five
\* steps each, and no wakeup, GetInstance or Release does.
THEOREM WorkerMakesProgress ==
    Spec => [][mActive /\ PastReady =>
                 /\ Worker /\ Pending => Backlog' \in Nat /\ Backlog' < Backlog
                 /\ ~Worker =>
                      \/ accepted' = accepted /\ Backlog' = Backlog
                      \/ /\ Len(accepted') = Len(accepted) + 1
                         /\ Backlog' = Backlog + 5]_vars
  <1> DEFINE Progress ==
        mActive /\ PastReady =>
          /\ Worker /\ Pending => Backlog' \in Nat /\ Backlog' < Backlog
          /\ ~Worker => \/ accepted' = accepted /\ Backlog' = Backlog
                        \/ /\ Len(accepted') = Len(accepted) + 1
                           /\ Backlog' = Backlog + 5
  <1>1. IInv /\ [Next]_vars => [Progress]_vars
    <2> SUFFICES ASSUME IInv, Next PROVE Progress
      OBVIOUS
    <2>1. QED
      BY WorkerWorksOff, OthersOnlyPush
  <1>2. QED
    BY <1>1, Inductive, PTL DEF Spec
=============================================================================
