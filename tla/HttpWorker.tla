----------------------------- MODULE HttpWorker -----------------------------
(***************************************************************************)
(* The asynchronous half of libRest: client threads that hold the facade's *)
(* shared_ptr and push POST/PUT requests, the queue and condition variable *)
(* of CurlHttpWrapper, the worker thread that drains the queue, and the    *)
(* life of the singleton from GetInstance to the end of its destructor.    *)
(*                                                                         *)
(* Every critical section of mHttpQueueMutex is one action: whatever it    *)
(* touches is touched under that mutex only, except mActive, an atomic     *)
(* that is written under the mutex and read outside it by the worker's     *)
(* while (LoopTest).  A wait on the condition variable is two actions, the *)
(* evaluation of its predicate that blocks and the wakeup that evaluates   *)
(* it again.  Module Construction looks at the members before they exist;  *)
(* here the constructor is over when the worker takes its first step.      *)
(***************************************************************************)
EXTENDS Naturals, Sequences, FiniteSets

CONSTANTS Clients,      \* the application's threads
          Static,       \* the function-local static shared_ptr of GetInstance
          None,         \* the empty payload of the worker
          MaxCalls      \* bound: calls of the facade by one client

ASSUME HttpWorkerAssumption ==
    /\ Static \notin Clients
    /\ MaxCalls \in Nat

VARIABLES
    mActive,            \* std::atomic<bool> mActive
    mHttpDataQueue,     \* std::queue<payload> mHttpDataQueue
    wpc,                \* where the worker thread stands in HandleHttpRequest
    pl,                 \* the payload the worker has moved out of the queue
    signalled,          \* the blocked worker has been woken, or woke spuriously
    life,               \* stage of the singleton's life
    refs,               \* owners of the shared_ptr<RestAPIFacade>
    calls,              \* calls made so far by each client
    accepted,           \* history: requests pushed, in the order of the lock
    attempted,          \* history: requests a transfer was made for, in order
    atShutdown          \* history: Len(attempted) when mActive was cleared

queueVars   == <<mActive, mHttpDataQueue, signalled>>
workerVars  == <<wpc, pl, attempted>>
facadeVars  == <<life, refs, atShutdown>>
clientVars  == <<calls, accepted>>
vars == <<queueVars, workerVars, facadeVars, clientVars>>

HTTP_METHOD == {"GET", "POST", "PUT", "DELETE"}

Request == [by: Clients, method: HTTP_METHOD, nth: 1 .. MaxCalls]

Blocked == {"readyBlocked", "idleBlocked"}
WorkerStates == {"none", "ready", "loop", "fetch", "perform", "recheck",
                 "idle", "exited"} \cup Blocked
LifeStages == {"none", "starting", "running", "joining", "joined", "destroyed"}

Init ==
    /\ mActive = FALSE
    /\ mHttpDataQueue = <<>>
    /\ wpc = "none"
    /\ pl = None
    /\ signalled = FALSE
    /\ life = "none"
    /\ refs = {}
    /\ calls = [c \in Clients |-> 0]
    /\ accepted = <<>>
    /\ attempted = <<>>
    /\ atShutdown = 0

-----------------------------------------------------------------------------
(***************************************************************************)
(* cvHttpDataQueue.  Only the worker ever waits on it, so notify_one wakes *)
(* the worker if it is blocked and is lost otherwise.                      *)
(***************************************************************************)
NoNotify == UNCHANGED signalled

NotifyOne == signalled' = IF wpc \in Blocked THEN TRUE ELSE signalled

ReadyPredicate == mActive

NonEmptyPredicate == mHttpDataQueue # <<>>
IdlePredicate == mHttpDataQueue # <<>> \/ ~mActive

\* cvHttpDataQueue.wait(lock, predicate): go on, or block.
Wait(predicate, go, block) ==
    /\ wpc' = IF predicate THEN go ELSE block
    /\ signalled' = FALSE

-----------------------------------------------------------------------------
(***************************************************************************)
(* The facade's life.                                                      *)
(***************************************************************************)
\* The first GetInstance builds the static: the constructors run and start
\* the thread.  Other callers of GetInstance block until Start is over.
Construct(c) ==
    /\ life = "none"
    /\ life' = "starting"
    /\ refs' = {c}
    /\ wpc' = "ready"
    /\ UNCHANGED <<queueVars, pl, attempted, atShutdown, clientVars>>

Start ==
    /\ life = "starting"
    /\ IF ~mActive
       THEN /\ mActive' = TRUE
            /\ NotifyOne
       ELSE UNCHANGED <<mActive, signalled>>
    /\ life' = "running"
    /\ refs' = refs \cup {Static}
    /\ UNCHANGED <<mHttpDataQueue, workerVars, atShutdown, clientVars>>

GetInstance(c) ==
    /\ life = "running"
    /\ Static \in refs
    /\ refs' = refs \cup {c}
    /\ UNCHANGED <<queueVars, workerVars, life, atShutdown, clientVars>>

\* An owner lets its shared_ptr go; process exit does so for Static.
Release(owner) ==
    /\ life = "running"
    /\ owner \in refs
    /\ refs' = refs \ {owner}
    /\ UNCHANGED <<queueVars, workerVars, life, atShutdown, clientVars>>

\* The last owner is gone: ~RestAPIFacade calls Shutdown.
Shutdown ==
    /\ life = "running"
    /\ refs = {}
    /\ IF mActive
       THEN /\ mActive' = FALSE
            /\ NotifyOne
       ELSE UNCHANGED <<mActive, signalled>>
    /\ life' = "joining"
    /\ atShutdown' = Len(attempted)
    /\ UNCHANGED <<mHttpDataQueue, workerVars, refs, clientVars>>

\* ~CurlHttpWrapper: join the thread ...
JoinNoWait ==
    /\ life = "joining"
    /\ life' = "joined"
    /\ UNCHANGED <<queueVars, workerVars, refs, atShutdown, clientVars>>

Join ==
    /\ life = "joining"
    /\ wpc = "exited"
    /\ life' = "joined"
    /\ UNCHANGED <<queueVars, workerVars, refs, atShutdown, clientVars>>

\* ... then release libcurl and the logger and destroy the members, the queue
\* with whatever it still holds among them.
DestroyMembers ==
    /\ life = "joined"
    /\ life' = "destroyed"
    /\ mHttpDataQueue' = <<>>
    /\ UNCHANGED <<mActive, signalled, workerVars, refs, atShutdown, clientVars>>

-----------------------------------------------------------------------------
(***************************************************************************)
(* Client calls.  A client calls through a shared_ptr it holds.            *)
(***************************************************************************)
NewRequest(c, m) == [by |-> c, method |-> m, nth |-> calls[c] + 1]

\* The call returns rest::SUCCESS.
Return(c) ==
    /\ life = "running"
    /\ c \in refs
    /\ calls[c] < MaxCalls
    /\ calls' = [calls EXCEPT ![c] = @ + 1]

\* The critical section of PostData and of UpdateDeviceData.
PushQuietly(r) ==
    /\ mHttpDataQueue' = Append(mHttpDataQueue, r)
    /\ accepted' = Append(accepted, r)
    /\ NoNotify

Push(r) ==
    /\ mHttpDataQueue' = Append(mHttpDataQueue, r)
    /\ accepted' = Append(accepted, r)
    /\ NotifyOne

\* push threw (no memory): the exception is caught and logged, and the call
\* still returns rest::SUCCESS.
PushThrows == UNCHANGED <<mHttpDataQueue, accepted, signalled>>

CreateDeviceData(c) ==
    LET r == NewRequest(c, "POST") IN
    /\ Return(c)
    /\ Push(r) \/ PushThrows
    /\ UNCHANGED <<mActive, workerVars, facadeVars>>

UpdateDeviceData(c) ==
    LET r == NewRequest(c, "PUT") IN
    /\ Return(c)
    /\ Push(r) \/ PushThrows
    /\ UNCHANGED <<mActive, workerVars, facadeVars>>

RemovePushes(c) ==
    LET r == NewRequest(c, "DELETE") IN
    /\ Return(c)
    /\ Push(r)
    /\ UNCHANGED <<mActive, workerVars, facadeVars>>

RemoveDeviceData(c) ==
    /\ Return(c)
    /\ UNCHANGED <<accepted, queueVars, workerVars, facadeVars>>

-----------------------------------------------------------------------------
(***************************************************************************)
(* The worker thread, HandleHttpRequest.  The flag queueEmpty is the       *)
(* choice between "perform" and "idle", then between "loop" and "idle".    *)
(***************************************************************************)
ReadyWait ==
    /\ wpc = "ready"
    /\ Wait(ReadyPredicate, "loop", "readyBlocked")
    /\ UNCHANGED <<mActive, mHttpDataQueue, pl, attempted, facadeVars, clientVars>>

ReadyWake ==
    /\ wpc = "readyBlocked"
    /\ signalled
    /\ Wait(ReadyPredicate, "loop", "readyBlocked")
    /\ UNCHANGED <<mActive, mHttpDataQueue, pl, attempted, facadeVars, clientVars>>

LoopForever ==
    /\ wpc = "loop"
    /\ wpc' = "fetch"
    /\ UNCHANGED <<queueVars, pl, attempted, facadeVars, clientVars>>

LoopTest ==
    /\ wpc = "loop"
    /\ wpc' = IF mActive THEN "fetch" ELSE "exited"
    /\ UNCHANGED <<queueVars, pl, attempted, facadeVars, clientVars>>

FetchNoPop ==
    /\ wpc = "fetch"
    /\ IF mHttpDataQueue = <<>>
       THEN /\ wpc' = "idle"
            /\ UNCHANGED <<pl, mHttpDataQueue>>
       ELSE /\ wpc' = "perform"
            /\ pl' = Head(mHttpDataQueue)
            /\ UNCHANGED mHttpDataQueue
    /\ UNCHANGED <<mActive, signalled, attempted, facadeVars, clientVars>>

Fetch ==
    /\ wpc = "fetch"
    /\ IF mHttpDataQueue = <<>>
       THEN /\ wpc' = "idle"
            /\ UNCHANGED <<pl, mHttpDataQueue>>
       ELSE /\ wpc' = "perform"
            /\ pl' = Head(mHttpDataQueue)
            /\ mHttpDataQueue' = Tail(mHttpDataQueue)
    /\ UNCHANGED <<mActive, signalled, attempted, facadeVars, clientVars>>

\* Post or Put returns, with SUCCESS or FAILURE: a failure is logged and the
\* request is not tried again.  Any other method is INVALID and only logged.
Perform ==
    /\ wpc = "perform"
    /\ attempted' = IF pl.method \in {"POST", "PUT"}
                    THEN Append(attempted, pl)
                    ELSE attempted
    /\ pl' = None
    /\ wpc' = "recheck"
    /\ UNCHANGED <<queueVars, facadeVars, clientVars>>

Recheck ==
    /\ wpc = "recheck"
    /\ wpc' = IF mHttpDataQueue = <<>> THEN "idle" ELSE "loop"
    /\ UNCHANGED <<queueVars, pl, attempted, facadeVars, clientVars>>

IdleWait ==
    /\ wpc = "idle"
    /\ Wait(IdlePredicate, "loop", "idleBlocked")
    /\ UNCHANGED <<mActive, mHttpDataQueue, pl, attempted, facadeVars, clientVars>>

IdleWake ==
    /\ wpc = "idleBlocked"
    /\ signalled
    /\ Wait(IdlePredicate, "loop", "idleBlocked")
    /\ UNCHANGED <<mActive, mHttpDataQueue, pl, attempted, facadeVars, clientVars>>

\* std::condition_variable may wake a waiter nobody notified.
SpuriousWakeup ==
    /\ wpc \in Blocked
    /\ signalled' = TRUE
    /\ UNCHANGED <<mActive, mHttpDataQueue, workerVars, facadeVars, clientVars>>

-----------------------------------------------------------------------------
Facade ==
    \/ \E c \in Clients : Construct(c) \/ GetInstance(c)
    \/ \E owner \in Clients \cup {Static} : Release(owner)
    \/ Start \/ Shutdown \/ Join \/ DestroyMembers

Client == \E c \in Clients :
    CreateDeviceData(c) \/ UpdateDeviceData(c) \/ RemoveDeviceData(c)

Worker ==
    \/ ReadyWait \/ ReadyWake
    \/ LoopTest \/ Fetch \/ Perform \/ Recheck
    \/ IdleWait \/ IdleWake

Next == Facade \/ Client \/ Worker \/ SpuriousWakeup

Spec == Init /\ [][Next]_vars

(***************************************************************************)
(* The threads are scheduled: the worker while it can step (Perform is in  *)
(* it: every transfer ends, a premise about the network, for the code sets *)
(* no timeout), Start, and the destructor once it runs.  Nobody has to     *)
(* call or to let go of the facade, and spurious wakeups come or do not.   *)
(***************************************************************************)
FairSpec ==
    /\ Spec
    /\ WF_vars(Worker)
    /\ WF_vars(Start)
    /\ WF_vars(Shutdown)
    /\ WF_vars(Join)
    /\ WF_vars(DestroyMembers)

-----------------------------------------------------------------------------
(***************************************************************************)
(* Properties.                                                             *)
(***************************************************************************)
QueueRequest == [by: Clients, method: {"POST", "PUT"}, nth: 1 .. MaxCalls]

\* Types of the variables.
TypeOK ==
    /\ mActive \in BOOLEAN
    /\ mHttpDataQueue \in Seq(QueueRequest)
    /\ wpc \in WorkerStates
    /\ pl \in QueueRequest \cup {None}
    /\ signalled \in BOOLEAN
    /\ life \in LifeStages
    /\ refs \subseteq Clients \cup {Static}
    /\ calls \in [Clients -> 0 .. MaxCalls]
    /\ accepted \in Seq(QueueRequest)
    /\ attempted \in Seq(QueueRequest)
    /\ atShutdown \in Nat

InFlight == IF wpc = "perform" THEN <<pl>> ELSE <<>>

\* Until the members are destroyed every request pushed is exactly once in
\* one place: attempted, held by the worker, or queued, in the order of the
\* pushes.  So no interleaving of pushes, pops and transfers loses, repeats
\* or reorders a request (PostData, UpdateDeviceData, HandleHttpRequest).
EachRequestOnceInOrder ==
    life # "destroyed" => accepted = attempted \o InFlight \o mHttpDataQueue

\* A worker that sleeps unnotified in its second wait has nothing to do: no
\* push and no shutdown slipped in between the predicate and the block.
NoLostWakeup ==
    (wpc = "idleBlocked" /\ ~signalled) => (mHttpDataQueue = <<>> /\ mActive)

\* After Shutdown the worker makes at most one more transfer, the one in hand
\* or the one its last lap pops; the backlog is not drained.
AtMostOneAfterShutdown ==
    life \in {"joining", "joined", "destroyed"} =>
        Len(attempted) <= atShutdown + 1

\* The members (queue, mutex, curl handle) are gone only when the worker has
\* left its function and no client can reach them any more.
MembersOutliveUsers ==
    life \in {"joined", "destroyed"} => wpc = "exited" /\ refs = {}

PastReady == wpc \notin {"none", "ready", "readyBlocked"}

\* While the facade lives every request pushed is attempted in the end.
PushedIsAttempted ==
    \A i \in 1 .. Cardinality(Clients) * MaxCalls :
        Len(accepted) >= i ~> (Len(attempted) >= i \/ ~mActive)

\* The destructor returns if the worker had got past its first wait.
DestructorReturns == (life = "joining" /\ PastReady) ~> life = "destroyed"

Channel == INSTANCE RequestChannel WITH
    Request <- QueueRequest,
    accepted <- accepted,
    delivered <- attempted,
    phase <- CASE life \in {"none", "starting", "running"} -> "open"
               [] life \in {"joining", "joined"} -> "closing"
               [] life = "destroyed" -> "closed",
    spare <- IF life \in {"none", "starting", "running"} THEN 1
             ELSE atShutdown + 1 - Len(attempted)

\* The worker, the lock and the condition variable implement the channel.
ImplementsChannel == Channel!Spec

-----------------------------------------------------------------------------
(***************************************************************************)
(* A statement of the sources that the code does not keep (see README).    *)
(***************************************************************************)
\* "Wait untill the ready signal is received.": once Start has signalled, the
\* worker leaves its first wait.
ReadySignalReceived == life = "running" ~> PastReady
=============================================================================
