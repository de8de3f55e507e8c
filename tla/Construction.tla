----------------------------- MODULE Construction -----------------------------
(***************************************************************************)
(* The birth of the singleton: threads that call GetInstance, the guard of *)
(* its function-local static, the member initialisers of CurlHttpWrapper   *)
(* in the order the class declares them, the worker thread that the fifth  *)
(* of them starts, and Start, which the facade's constructor calls.        *)
(*                                                                         *)
(* The members that follow mHttpThread are raw memory when the thread      *)
(* starts: its mutex, mActive and its condition variable among them.  What *)
(* the worker does with a raw member is a choice among what a build can    *)
(* do: a raw mActive reads as TRUE or FALSE, a raw mutex may hold the       *)
(* worker for ever, and a condition variable that is constructed while the *)
(* worker waits on it keeps the waiter or loses it ("deaf").  What follows *)
(* Start, HttpWorker models.                                               *)
(*                                                                         *)
(* A constructor that throws once the thread runs destroys a joinable      *)
(* std::thread, which ends the process; and its handler logs through the   *)
(* destroyed mLogger, which is undefined and may end it too.  Start itself *)
(* is taken not to throw.                                                  *)
(***************************************************************************)
EXTENDS Naturals, Sequences

CONSTANTS Callers,          \* threads that call GetInstance
          None,             \* no caller
          MaxFailures       \* bound: constructions that throw

ASSUME ConstructionAssumption ==
    /\ None \notin Callers
    /\ MaxFailures \in Nat

\* The members in declaration order, which is the order of initialisation.
Members == <<"mLogger", "mCurl", "LogError", "FreeHeader", "mHttpThread",
             "mHttpQueueMutex", "mActive", "cert", "strHttpStatus",
             "mPollingMutex", "cvHttpDataQueue", "mHttpDataQueue", "strHttpGetData">>

All == 13

VARIABLES
    caller,         \* where each thread stands in GetInstance
    initialiser,    \* the thread that runs the static's initialiser, or None
    built,          \* the static is initialised
    made,           \* how many members are constructed
    mActive,        \* the flag's memory, constructed or not
    started,        \* Start is over
    worker,         \* where the worker stands in its first wait
    early,          \* it got there before what it waits with was constructed
    signalled,      \* the blocked worker has been woken, or woke spuriously
    inits,          \* calls of curl_global_init
    failures,       \* constructions that threw
    terminated      \* the process has ended of a construction that threw

vars == <<caller, initialiser, built, made, mActive, started, worker,
          early, signalled, inits, failures, terminated>>

CallerStates == {"idle", "called", "building", "has", "threw"}
WorkerStates == {"none", "started", "blocked", "deaf", "past"}

Init ==
    /\ caller = [c \in Callers |-> "idle"]
    /\ initialiser = None
    /\ built = FALSE
    /\ made = 0
    /\ mActive = FALSE
    /\ started = FALSE
    /\ worker = "none"
    /\ early = FALSE
    /\ signalled = FALSE
    /\ inits = 0
    /\ failures = 0
    /\ terminated = FALSE

Made(m) == \E i \in 1 .. made : Members[i] = m

Building ==
    /\ ~terminated
    /\ initialiser # None
    /\ caller[initialiser] = "building"

-----------------------------------------------------------------------------
\* A thread calls GetInstance, after an exception perhaps once more.
GetInstance(c) ==
    /\ ~terminated
    /\ caller[c] \in {"idle", "threw"}
    /\ caller' = [caller EXCEPT ![c] = "called"]
    /\ UNCHANGED <<initialiser, built, made, mActive, started, worker,
                   signalled, inits, failures, early, terminated>>

\* The static is there: its copy is returned.
ReturnInstance(c) ==
    /\ ~terminated
    /\ caller[c] = "called"
    /\ built
    /\ caller' = [caller EXCEPT ![c] = "has"]
    /\ UNCHANGED <<initialiser, built, made, mActive, started, worker,
                   signalled, inits, failures, early, terminated>>

\* It is not, and nobody is at it: new RestAPIFacade, new CurlHttpWrapper.
BeginConstruction(c) ==
    /\ ~terminated
    /\ caller[c] = "called"
    /\ ~built
    /\ initialiser = None
    /\ initialiser' = c
    /\ caller' = [caller EXCEPT ![c] = "building"]
    /\ mActive' \in BOOLEAN
    /\ UNCHANGED <<built, made, started, worker, signalled, inits, failures, early,
                   terminated>>

InitCurl == inits' = inits + 1

\* The next member initialiser.
MakeMember ==
    /\ Building
    /\ made < All
    /\ made' = made + 1
    /\ IF Members[made + 1] = "mCurl" THEN InitCurl ELSE UNCHANGED inits
    /\ worker' = IF Members[made + 1] = "mHttpThread" THEN "started" ELSE worker
    /\ mActive' = IF Members[made + 1] = "mActive" THEN FALSE ELSE mActive
    /\ UNCHANGED <<caller, initialiser, built, started, early, signalled,
                   failures, terminated>>

KeepGuard == UNCHANGED initialiser
ReleaseGuard == initialiser' = None

\* A constructor that throws destroys the members it has made: with the thread
\* among them the process ends, without it the handler's log line may end it.
DestroyMembers ==
    /\ terminated' \in (IF Made("mHttpThread") THEN {TRUE} ELSE BOOLEAN)
    /\ made' = 0

\* InitCurl throws, after curl_global_init, or std::thread does, the queue's
\* allocation or the log line of the body.  The destructor's body does not run,
\* and the exception leaves GetInstance.
ConstructionThrows ==
    /\ Building
    /\ ~started
    /\ \/ made = All
       \/ made < All /\ Members[made + 1] \in {"mCurl", "mHttpThread", "mHttpDataQueue"}
    /\ failures < MaxFailures
    /\ failures' = failures + 1
    /\ IF made + 1 \in DOMAIN Members /\ Members[made + 1] = "mCurl"
       THEN InitCurl ELSE UNCHANGED inits
    /\ DestroyMembers
    /\ caller' = [caller EXCEPT ![initialiser] = "threw"]
    /\ ReleaseGuard
    /\ UNCHANGED <<built, mActive, started, worker, early, signalled>>

StartQuietly ==
    /\ Building
    /\ made = All
    /\ ~started
    /\ mActive' = TRUE
    /\ started' = TRUE
    /\ UNCHANGED <<caller, initialiser, built, made, worker, early, signalled,
                   inits, failures, terminated>>

Start ==
    /\ Building
    /\ made = All
    /\ ~started
    /\ IF ~mActive
       THEN /\ mActive' = TRUE
            /\ signalled' = (signalled \/ worker = "blocked")
       ELSE UNCHANGED <<mActive, signalled>>
    /\ started' = TRUE
    /\ UNCHANGED <<caller, initialiser, built, made, worker, inits, failures,
                   early, terminated>>

\* The initialiser is over; the static is there for everybody.
ShareBeforeStart ==
    /\ Building
    /\ made = All
    /\ built' = TRUE
    /\ caller' = [caller EXCEPT ![initialiser] = "has"]
    /\ initialiser' = None
    /\ UNCHANGED <<made, mActive, started, worker, signalled, inits, failures,
                   early, terminated>>

EndConstruction ==
    /\ Building
    /\ started
    /\ built' = TRUE
    /\ caller' = [caller EXCEPT ![initialiser] = "has"]
    /\ initialiser' = None
    /\ UNCHANGED <<made, mActive, started, worker, signalled, inits, failures,
                   early, terminated>>

-----------------------------------------------------------------------------
\* The worker gets to its first wait.
EnterWait ==
    /\ ~terminated
    /\ worker = "started"
    /\ early' = ~Made("cvHttpDataQueue")
    /\ \/ /\ mActive
          /\ worker' = "past"
       \/ /\ ~mActive
          /\ worker' = "blocked"
       \/ /\ early'
          /\ worker' = "deaf"
    /\ UNCHANGED <<caller, initialiser, built, made, mActive, started,
                   signalled, inits, failures, terminated>>

WakeUnchecked ==
    /\ ~terminated
    /\ worker = "blocked"
    /\ signalled
    /\ worker' = "past"
    /\ signalled' = FALSE
    /\ UNCHANGED <<caller, initialiser, built, made, mActive, started, early,
                   inits, failures, terminated>>

Wake ==
    /\ ~terminated
    /\ worker = "blocked"
    /\ signalled
    /\ worker' = IF mActive THEN "past" ELSE "blocked"
    /\ signalled' = FALSE
    /\ UNCHANGED <<caller, initialiser, built, made, mActive, started, early,
                   inits, failures, terminated>>

SpuriousWakeup ==
    /\ ~terminated
    /\ worker = "blocked"
    /\ signalled' = TRUE
    /\ UNCHANGED <<caller, initialiser, built, made, mActive, started, worker,
                   inits, failures, early, terminated>>

-----------------------------------------------------------------------------
Constructor == MakeMember \/ ConstructionThrows \/ Start \/ EndConstruction

Next ==
    \/ \E c \in Callers : GetInstance(c) \/ ReturnInstance(c) \/ BeginConstruction(c)
    \/ Constructor
    \/ EnterWait \/ Wake \/ SpuriousWakeup

Spec == Init /\ [][Next]_vars

\* The threads that can run do; nobody has to call GetInstance.
FairSpec ==
    /\ Spec
    /\ \A c \in Callers : WF_vars(ReturnInstance(c) \/ BeginConstruction(c))
    /\ WF_vars(Constructor)
    /\ WF_vars(EnterWait \/ Wake)

-----------------------------------------------------------------------------
\* Types of the variables; curl_global_init runs once per construction.
TypeOK ==
    /\ caller \in [Callers -> CallerStates]
    /\ initialiser \in Callers \cup {None}
    /\ built \in BOOLEAN
    /\ made \in 0 .. All
    /\ mActive \in BOOLEAN
    /\ started \in BOOLEAN
    /\ worker \in WorkerStates
    /\ early \in BOOLEAN
    /\ signalled \in BOOLEAN
    /\ inits \in 0 .. MaxFailures + 1
    /\ failures \in 0 .. MaxFailures
    /\ terminated \in BOOLEAN

\* Whoever holds the facade holds a complete and started one, whichever thread
\* built it and however many constructions threw before.
StartedWhenShared ==
    \A c \in Callers : caller[c] = "has" => started /\ made = All /\ mActive

\* A worker that finds its mutex, flag and condition variable constructed leaves
\* its first wait for nothing but the signal of Start, however the rest of the
\* construction and spurious wakeups go.
LateReadyBeforeWork == ~early => (worker = "past" => started)

\* And the signal of Start is never lost on it.
SignalArrives == started /\ ~early ~> worker = "past"

\* Every call of GetInstance returns the facade or throws, unless a construction
\* that threw has ended the process.
CallersServed == \A c \in Callers :
    caller[c] = "called" ~> (caller[c] \in {"has", "threw"} \/ terminated)
=============================================================================
