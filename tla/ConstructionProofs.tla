-------------------------- MODULE ConstructionProofs --------------------------
(***************************************************************************)
(* Theorems about Construction, for any number of callers and of failed    *)
(* constructions.                                                          *)
(***************************************************************************)
EXTENDS Construction, TLAPS

\* Who is at the initialiser, and how far it is.
Guarded ==
    /\ initialiser # None => caller[initialiser] = "building"
    /\ initialiser = None /\ ~built => made = 0 /\ ~started
    /\ built => started /\ initialiser = None
    /\ \A c \in Callers : caller[c] = "has" => built
    /\ started => made = All /\ mActive

\* From its own initialiser to Start the flag is FALSE.
FlagIsStart == made >= 7 /\ mActive => started

\* Each construction, failed or not, has initialised libcurl once.
InitsCounted == inits = IF made >= 2 THEN failures + 1 ELSE failures

IInv == TypeOK /\ Guarded /\ FlagIsStart /\ InitsCounted

LEMMA MemberOrder ==
  /\ Members[2] = "mCurl"
  /\ Members[5] = "mHttpThread"
  /\ Members[7] = "mActive"
  /\ \A i \in 1 .. 13 : /\ Members[i] = "mCurl" => i = 2
                        /\ Members[i] = "mHttpThread" => i = 5
                        /\ Members[i] = "mActive" => i = 7
                        /\ Members[i] = "cvHttpDataQueue" => i = 11
                        /\ Members[i] = "mHttpDataQueue" => i = 12
  BY DEF Members

LEMMA IInvInit == Init => IInv
  <1> SUFFICES ASSUME Init PROVE IInv
    OBVIOUS
  <1>1. 0 \in 0 .. MaxFailures + 1 /\ 0 \in 0 .. MaxFailures /\ 0 \in 0 .. 13
    BY ConstructionAssumption
  <1>2. TypeOK
    BY <1>1 DEF Init, TypeOK, CallerStates, WorkerStates, All
  <1>3. Guarded
    BY DEF Init, Guarded
  <1>4. FlagIsStart /\ InitsCounted
    BY DEF Init, FlagIsStart, InitsCounted
  <1>5. QED
    BY <1>2, <1>3, <1>4 DEF IInv

LEMMA IInvNext == IInv /\ [Next]_vars => IInv'
  <1> SUFFICES ASSUME IInv, [Next]_vars PROVE IInv'
    OBVIOUS
  <1> USE DEF All
  <1>0. TypeOK /\ Guarded /\ FlagIsStart /\ InitsCounted
    BY DEF IInv
  <1>1. CASE UNCHANGED vars
    BY <1>0, <1>1 DEF IInv, TypeOK, Guarded, FlagIsStart, InitsCounted, vars
  <1>2. ASSUME NEW c \in Callers, GetInstance(c) \/ ReturnInstance(c)
        PROVE  IInv'
    <2>1. TypeOK'
      BY <1>0, <1>2 DEF TypeOK, GetInstance, ReturnInstance, CallerStates
    <2>2. Guarded'
      BY <1>0, <1>2 DEF TypeOK, Guarded, GetInstance, ReturnInstance
    <2>3. FlagIsStart' /\ InitsCounted'
      BY <1>0, <1>2 DEF FlagIsStart, InitsCounted, GetInstance, ReturnInstance
    <2>4. QED
      BY <2>1, <2>2, <2>3 DEF IInv
  <1>3. ASSUME NEW c \in Callers, BeginConstruction(c)
        PROVE  IInv'
    <2>1. TypeOK'
      BY <1>0, <1>3 DEF TypeOK, BeginConstruction, CallerStates
    <2>2. Guarded'
      BY <1>0, <1>3 DEF TypeOK, Guarded, BeginConstruction
    <2>3. FlagIsStart' /\ InitsCounted'
      BY <1>0, <1>3 DEF FlagIsStart, InitsCounted, Guarded, BeginConstruction
    <2>4. QED
      BY <2>1, <2>2, <2>3 DEF IInv
  <1>4. CASE MakeMember
    <2>1. /\ Building /\ made \in 0 .. 12 /\ made' = made + 1
          /\ made + 1 = 2 => inits' = inits + 1
          /\ made + 1 # 2 => inits' = inits
          /\ worker' \in {"started", worker}
          /\ made + 1 = 7 => mActive' = FALSE
          /\ made + 1 # 7 => mActive' = mActive
      <3>1. Building /\ made \in 0 .. 12 /\ made' = made + 1
        BY <1>0, <1>4 DEF TypeOK, MakeMember
      <3>2. made + 1 \in 1 .. 13
        BY <3>1
      <3>3. /\ Members[made + 1] = "mCurl" <=> made + 1 = 2
            /\ Members[made + 1] = "mActive" <=> made + 1 = 7
        BY <3>2, MemberOrder
      <3>4. /\ made + 1 = 2 => inits' = inits + 1
            /\ made + 1 # 2 => inits' = inits
        BY <1>4, <3>3 DEF MakeMember, InitCurl
      <3>5. /\ made + 1 = 7 => mActive' = FALSE
            /\ made + 1 # 7 => mActive' = mActive
        BY <1>4, <3>3 DEF MakeMember
      <3>6. worker' \in {"started", worker}
        BY <1>4 DEF MakeMember
      <3>7. QED
        BY <3>1, <3>4, <3>5, <3>6
    <2>2. InitsCounted'
      <3>1. failures' = failures
        BY <1>4 DEF MakeMember
      <3>2. QED
        BY <1>0, <2>1, <3>1 DEF TypeOK, InitsCounted
    <2>3. TypeOK'
      <3>1. inits' \in 0 .. MaxFailures + 1
        <4>1. failures' \in 0 .. MaxFailures
          BY <1>0, <1>4 DEF TypeOK, MakeMember
        <4>2. inits' = failures' \/ inits' = failures' + 1
          BY <2>2 DEF InitsCounted
        <4>3. QED
          BY <4>1, <4>2, ConstructionAssumption
      <3>2. made' \in 0 .. 13
        BY <2>1
      <3>3. worker' \in WorkerStates
        BY <1>0, <2>1 DEF TypeOK, WorkerStates
      <3>4. mActive' \in BOOLEAN
        BY <1>0, <2>1 DEF TypeOK
      <3>5. QED
        BY <1>0, <1>4, <3>1, <3>2, <3>3, <3>4 DEF TypeOK, MakeMember
    <2>4. Guarded' /\ FlagIsStart'
      BY <1>0, <1>4, <2>1 DEF TypeOK, Guarded, FlagIsStart, MakeMember, Building
    <2>5. QED
      BY <2>2, <2>3, <2>4 DEF IInv
  <1>5. CASE ConstructionThrows
    <2>1. /\ Building /\ made' = 0 /\ made \in {1, 4, 11, 13} /\ ~started
          /\ made = 1 => inits' = inits + 1
          /\ made # 1 => inits' = inits
          /\ failures' = failures + 1 /\ failures < MaxFailures
          /\ terminated' \in BOOLEAN
      <3>1. made \in {1, 4, 11, 13}
        BY <1>0, <1>5, MemberOrder DEF TypeOK, ConstructionThrows
      <3>2. made + 1 \in DOMAIN Members /\ Members[made + 1] = "mCurl" <=> made = 1
        <4>1. DOMAIN Members = 1 .. 13
          BY DEF Members
        <4>2. QED
          BY <3>1, <4>1, MemberOrder
      <3>3. QED
        BY <1>5, <3>1, <3>2 DEF ConstructionThrows, DestroyMembers, InitCurl
    <2>2. InitsCounted'
      BY <1>0, <2>1 DEF TypeOK, InitsCounted
    <2>3. inits' \in 0 .. MaxFailures + 1
      BY <1>0, <2>1, ConstructionAssumption DEF TypeOK, InitsCounted
    <2>4. TypeOK'
      <3>1. made' \in 0 .. 13 /\ failures' \in 0 .. MaxFailures
        BY <1>0, <2>1, ConstructionAssumption DEF TypeOK
      <3>2. caller' \in [Callers -> CallerStates]
        BY <1>0, <1>5 DEF TypeOK, ConstructionThrows, CallerStates
      <3>3. QED
        BY <1>0, <1>5, <2>1, <2>3, <3>1, <3>2 DEF TypeOK, ConstructionThrows, ReleaseGuard
    <2>5. Guarded' /\ FlagIsStart'
      BY <1>0, <1>5, <2>1
      DEF TypeOK, Guarded, FlagIsStart, ConstructionThrows, ReleaseGuard, Building
    <2>6. QED
      BY <2>2, <2>4, <2>5 DEF IInv
  <1>6. CASE Start
    BY <1>0, <1>6
    DEF IInv, TypeOK, Guarded, FlagIsStart, InitsCounted, Start, Building
  <1>7. CASE EndConstruction
    <2>1. TypeOK'
      BY <1>0, <1>7 DEF TypeOK, EndConstruction, Building, CallerStates
    <2>2. Guarded' /\ FlagIsStart' /\ InitsCounted'
      BY <1>0, <1>7
      DEF TypeOK, Guarded, FlagIsStart, InitsCounted, EndConstruction, Building
    <2>3. QED
      BY <2>1, <2>2 DEF IInv
  <1>8. CASE EnterWait \/ Wake \/ SpuriousWakeup
    <2>1. /\ UNCHANGED <<caller, initialiser, built, made, mActive, started,
                         inits, failures, terminated>>
          /\ early' \in BOOLEAN
          /\ worker' \in {"past", "blocked", "deaf", worker}
          /\ signalled' \in {signalled, TRUE, FALSE}
      BY <1>0, <1>8 DEF EnterWait, Wake, SpuriousWakeup, TypeOK
    <2>2. TypeOK'
      BY <1>0, <2>1 DEF TypeOK, WorkerStates
    <2>3. Guarded' /\ FlagIsStart' /\ InitsCounted'
      BY <1>0, <2>1 DEF Guarded, FlagIsStart, InitsCounted
    <2>4. QED
      BY <2>2, <2>3 DEF IInv
  <1>9. QED
    BY <1>1, <1>2, <1>3, <1>4, <1>5, <1>6, <1>7, <1>8 DEF Next, Constructor

LEMMA IInvAlways == Spec => []IInv
  BY IInvInit, IInvNext, PTL DEF Spec

\* Types, and one curl_global_init for each construction that was tried.
THEOREM ConstructionTypeCorrect == Spec => []TypeOK
  <1>1. IInv => TypeOK
    BY DEF IInv
  <1>2. QED
    BY <1>1, IInvAlways, PTL

\* However many threads call GetInstance and however many constructions throw,
\* whoever gets the facade gets a complete and started one.
THEOREM SharedIsStarted == Spec => []StartedWhenShared
  <1>1. IInv => StartedWhenShared
    BY DEF IInv, Guarded, StartedWhenShared
  <1>2. QED
    BY <1>1, IInvAlways, PTL

-----------------------------------------------------------------------------
\* A worker that was not early has met constructed members only.
LateWorker ==
    ~early => /\ worker \notin {"none", "started"} => made >= 11 \/ terminated
              /\ worker = "past" => started

LEMMA LateNext == IInv /\ LateWorker /\ [Next]_vars => LateWorker'
  <1> SUFFICES ASSUME IInv, LateWorker, [Next]_vars PROVE LateWorker'
    OBVIOUS
  <1>0. TypeOK /\ Guarded /\ FlagIsStart
    BY DEF IInv
  <1> USE DEF LateWorker, All
  <1>1. CASE UNCHANGED vars
    BY <1>1 DEF vars
  <1>2. ASSUME NEW c \in Callers,
               GetInstance(c) \/ ReturnInstance(c) \/ BeginConstruction(c)
        PROVE  LateWorker'
    BY <1>2 DEF GetInstance, ReturnInstance, BeginConstruction
  <1>3. CASE MakeMember
    <2>1. /\ made \in 0 .. 12 /\ made' = made + 1 /\ started' = started
          /\ early' = early /\ ~terminated
      BY <1>0, <1>3 DEF MakeMember, Building, TypeOK
    <2>2. worker' \in {"started", worker}
      BY <1>3 DEF MakeMember
    <2>3. QED
      BY <2>1, <2>2
  <1>4. CASE ConstructionThrows
    <2>1. worker' = worker /\ early' = early /\ started' = started /\ ~terminated
      BY <1>4 DEF ConstructionThrows, Building
    <2>2. made >= 11 => terminated'
      <3>1. made >= 11 => Made("mHttpThread")
        BY <1>0, MemberOrder DEF Made, TypeOK
      <3>2. QED
        BY <1>4, <3>1 DEF ConstructionThrows, DestroyMembers
    <2>3. QED
      BY <2>1, <2>2
  <1>5. CASE Start \/ EndConstruction
    BY <1>5 DEF Start, EndConstruction
  <1>6. CASE EnterWait
    <2>1. early' = FALSE => made \in 11 .. 13
      <3>1. Made("cvHttpDataQueue") => made \in 11 .. 13
        BY <1>0, MemberOrder DEF Made, TypeOK
      <3>2. QED
        BY <1>6, <3>1 DEF EnterWait
    <2>2. early' = FALSE /\ worker' = "past" => mActive
      BY <1>6 DEF EnterWait
    <2>3. early' = FALSE /\ worker' = "past" => started
      BY <1>0, <2>1, <2>2 DEF FlagIsStart
    <2>4. made' = made /\ started' = started
      BY <1>6 DEF EnterWait
    <2>5. early' \in BOOLEAN
      BY <1>6 DEF EnterWait
    <2>6. QED
      BY <2>1, <2>3, <2>4, <2>5
  <1>7. CASE Wake
    <2>1. ~early => made >= 11
      BY <1>7 DEF Wake
    <2>2. ~early /\ mActive => started
      BY <1>0, <2>1 DEF FlagIsStart, TypeOK
    <2>3. QED
      BY <1>7, <2>1, <2>2 DEF Wake
  <1>8. CASE SpuriousWakeup
    BY <1>8 DEF SpuriousWakeup
  <1>9. QED
    BY <1>1, <1>2, <1>3, <1>4, <1>5, <1>6, <1>7, <1>8 DEF Next, Constructor

\* A worker that finds what it waits with constructed leaves its first wait
\* only once Start has run.
THEOREM LateWorkerIsReady == Spec => []LateReadyBeforeWork
  <1>1. Init => LateWorker
    BY DEF Init, LateWorker
  <1>2. LateWorker => LateReadyBeforeWork
    BY DEF LateWorker, LateReadyBeforeWork
  <1>3. QED
    BY <1>1, <1>2, LateNext, IInvAlways, PTL DEF Spec
=============================================================================
