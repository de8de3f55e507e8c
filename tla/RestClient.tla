----------------------------- MODULE RestClient -----------------------------
(***************************************************************************)
(* libRest put together: the queue and its worker (HttpWorker), the calls  *)
(* on the shared easy handle (HandleCalls, which EasyHandle implements)    *)
(* and the release of libcurl in the destructor.  HttpWorker's one step    *)
(* Perform becomes a call of Post or Put that begins and returns, while    *)
(* clients poll, set certificates and GET at the same time.                *)
(*                                                                         *)
(* A client thread makes one call at a time, through a shared_ptr that it  *)
(* holds until the call is over.  GetDeviceData has a handle of its own    *)
(* (module GetData): here it is a call that begins and returns.            *)
(***************************************************************************)
EXTENDS Naturals, Sequences, FiniteSets

CONSTANTS Clients,      \* the application's threads
          mHttpThread,  \* the worker thread
          Static,       \* the function-local static shared_ptr of GetInstance
          None,         \* no payload, no call
          MaxCalls,     \* bound: queueing calls by one client
          MaxDirect     \* bound: other calls, by all clients together

ASSUME RestClientAssumption ==
    /\ mHttpThread \notin Clients
    /\ Static \notin Clients
    /\ None \notin Clients
    /\ None \notin {"POST", "PUT", "CERT"}
    /\ MaxCalls \in Nat
    /\ MaxDirect \in Nat

VARIABLES
    mActive, mHttpDataQueue, wpc, pl, signalled, life, refs,
    calls, accepted, attempted, atShutdown,     \* of HttpWorker
    phase, making, mPollingMutex,               \* of HandleCalls
    getting,            \* clients inside GetDeviceData
    direct,             \* calls other than queueing ones so far
    curl                \* libcurl: not initialised, in use, released, mCurl gone

Q == INSTANCE HttpWorker

H == INSTANCE HandleCalls WITH
    Workers <- {mHttpThread}, Pollers <- Clients, Setters <- Clients

queueVars == <<mActive, mHttpDataQueue, signalled, wpc, pl, attempted,
               life, refs, atShutdown, calls, accepted>>
handleVars == <<phase, making, mPollingMutex>>
vars == <<queueVars, handleVars, getting, direct, curl>>

CurlStages == {"none", "up", "released", "closed"}

Init ==
    /\ Q!Init
    /\ H!Init
    /\ getting = {}
    /\ direct = 0
    /\ curl = "none"

-----------------------------------------------------------------------------
(***************************************************************************)
(* The facade's life.  The thread that lets go last runs the destructors.  *)
(***************************************************************************)
\* The client is in no call: it may make the next, or let the facade go.
Free(c) == phase[c] = "idle" /\ c \notin getting

Construct(c) ==
    /\ Q!Construct(c)
    /\ curl' = "up"
    /\ UNCHANGED <<handleVars, getting, direct>>

Start == Q!Start /\ UNCHANGED <<handleVars, getting, direct, curl>>

GetInstance(c) ==
    /\ Free(c)
    /\ Q!GetInstance(c)
    /\ UNCHANGED <<handleVars, getting, direct, curl>>

ReleaseInCall(owner) ==
    /\ Q!Release(owner)
    /\ UNCHANGED <<handleVars, getting, direct, curl>>

Release(owner) ==
    /\ owner \in Clients => Free(owner)
    /\ Q!Release(owner)
    /\ UNCHANGED <<handleVars, getting, direct, curl>>

Shutdown == Q!Shutdown /\ UNCHANGED <<handleVars, getting, direct, curl>>

Join == Q!Join /\ UNCHANGED <<handleVars, getting, direct, curl>>

\* The destructor's body ends with curl_global_cleanup ...
GlobalCleanup ==
    /\ life = "joined"
    /\ curl = "up"
    /\ curl' = "released"
    /\ UNCHANGED <<queueVars, handleVars, getting, direct>>

\* ... and only then do the members go, mCurl with its curl_easy_cleanup.
DestroyMembers ==
    /\ curl = "released"
    /\ Q!DestroyMembers
    /\ curl' = "closed"
    /\ UNCHANGED <<handleVars, getting, direct>>

-----------------------------------------------------------------------------
(***************************************************************************)
(* The clients' calls.                                                     *)
(***************************************************************************)
QueueCall(c) ==
    /\ Free(c)
    /\ Q!CreateDeviceData(c) \/ Q!UpdateDeviceData(c) \/ Q!RemoveDeviceData(c)
    /\ UNCHANGED <<handleVars, getting, direct, curl>>

CallDirectly(c) ==
    /\ life = "running"
    /\ c \in refs
    /\ Free(c)
    /\ direct < MaxDirect
    /\ direct' = direct + 1
    /\ UNCHANGED <<queueVars, curl>>

PollUnlocked(c) ==
    /\ CallDirectly(c)
    /\ H!Post(c, "POST")
    /\ UNCHANGED getting

PostPollingData(c) ==
    /\ CallDirectly(c)
    /\ H!PostPollingData(c)
    /\ UNCHANGED getting

SetCertificateAttributes(c) ==
    /\ CallDirectly(c)
    /\ H!SetCertificateAttributes(c)
    /\ UNCHANGED getting

GetDeviceData(c) ==
    /\ CallDirectly(c)
    /\ getting' = getting \cup {c}
    /\ UNCHANGED handleVars

GetReturns(c) ==
    /\ c \in getting
    /\ getting' = getting \ {c}
    /\ UNCHANGED <<queueVars, handleVars, direct, curl>>

LockPolling(c) ==
    /\ H!LockPolling(c)
    /\ UNCHANGED <<queueVars, getting, direct, curl>>

CallReturns(c) ==
    /\ H!Return(c)
    /\ UNCHANGED <<queueVars, getting, direct, curl>>

-----------------------------------------------------------------------------
(***************************************************************************)
(* The worker thread.                                                      *)
(***************************************************************************)
QueueSide ==
    /\ \/ Q!ReadyWait \/ Q!ReadyWake
       \/ Q!LoopTest \/ Q!Fetch \/ Q!Recheck
       \/ Q!IdleWait \/ Q!IdleWake
    /\ UNCHANGED <<handleVars, getting, direct, curl>>

SpuriousWakeup ==
    /\ Q!SpuriousWakeup
    /\ UNCHANGED <<handleVars, getting, direct, curl>>

AlwaysPost ==
    /\ wpc = "perform"
    /\ H!Post(mHttpThread, "POST")
    /\ UNCHANGED <<queueVars, getting, direct, curl>>

\* switch (pl.method): the call of Post or of Put ...
Send ==
    /\ wpc = "perform"
    /\ H!Post(mHttpThread, pl.method)
    /\ UNCHANGED <<queueVars, getting, direct, curl>>

SendAgain ==
    /\ H!Return(mHttpThread)
    /\ UNCHANGED <<queueVars, getting, direct, curl>>

\* ... and its return, whatever its status.
SendReturns ==
    /\ H!Return(mHttpThread)
    /\ Q!Perform
    /\ UNCHANGED <<getting, direct, curl>>

-----------------------------------------------------------------------------
Life ==
    \/ Start \/ Shutdown \/ Join \/ GlobalCleanup \/ DestroyMembers
    \/ \E c \in Clients : Construct(c) \/ GetInstance(c)
    \/ \E owner \in Clients \cup {Static} : Release(owner)

Client == \E c \in Clients :
    \/ QueueCall(c)
    \/ PostPollingData(c) \/ SetCertificateAttributes(c) \/ GetDeviceData(c)
    \/ LockPolling(c) \/ CallReturns(c) \/ GetReturns(c)

WorkerThread == QueueSide \/ Send \/ SendReturns

Next == Life \/ Client \/ WorkerThread \/ SpuriousWakeup

Spec == Init /\ [][Next]_vars

(***************************************************************************)
(* As in the two parts: a thread that can run does, transfers end, and the *)
(* thread that is destroying the facade goes on.  Nobody has to call.      *)
(***************************************************************************)
FairSpec ==
    /\ Spec
    /\ WF_vars(WorkerThread)
    /\ WF_vars(Start) /\ WF_vars(Shutdown) /\ WF_vars(Join)
    /\ WF_vars(GlobalCleanup) /\ WF_vars(DestroyMembers)
    /\ \A c \in Clients :
          WF_vars(LockPolling(c)) /\ WF_vars(CallReturns(c)) /\ WF_vars(GetReturns(c))

-----------------------------------------------------------------------------
(***************************************************************************)
(* Properties.                                                             *)
(***************************************************************************)
\* Types of the variables.
TypeOK ==
    /\ Q!TypeOK
    /\ H!TypeOK
    /\ getting \subseteq Clients
    /\ direct \in 0 .. MaxDirect
    /\ curl \in CurlStages

\* The call the worker is making is the one its payload asks for, and the
\* payload stays in its hands until the call has returned.
SendsItsPayload ==
    phase[mHttpThread] # "idle" => wpc = "perform" /\ making[mHttpThread] = pl.method

\* curl_global_cleanup comes after everybody's last use of libcurl but mCurl's
\* own clean-up: no poll, certificate update, GET or transfer of the worker is
\* under way, and none can begin.
CleanupIsAfterLastUse ==
    curl \in {"released", "closed"} =>
        /\ \A u \in Clients \cup {mHttpThread} : phase[u] = "idle"
        /\ getting = {} /\ refs = {}
        /\ wpc = "exited"
        /\ mPollingMutex = None

\* The mutex is held by a thread that is in PostPollingData, and by no other:
\* pollers, but not the worker, wait for each other.
OnePollAtATime ==
    \A c \in Clients : phase[c] = "inside" /\ making[c] = "POST" <=> mPollingMutex = c

\* Queue, worker and facade still do what HttpWorker says, with its fairness,
\* when a transfer takes time and other threads use the handle meanwhile.
ImplementsWorker == Q!FairSpec

\* The handle is called only in the ways HandleCalls allows, and every call
\* returns, while the facade's life decides who may call.
ImplementsCalls == H!Spec
=============================================================================
