---------------------------- MODULE GetDataProofs ----------------------------
(***************************************************************************)
(* Theorems about GetData for any number of threads, calls and pieces:     *)
(* every handle is closed on every path however the GETs overlap, a caller *)
(* whose GET was not overlapped gets its own response and no more, and no  *)
(* caller gets a piece of a GET that was over before its own began.        *)
(***************************************************************************)
EXTENDS GetData, TLAPS

-----------------------------------------------------------------------------
(***************************************************************************)
(* The inductive invariant of the handles.                                 *)
(***************************************************************************)
\* A thread inside GetData makes the last of its calls.
CurrentCall == \A g \in Getters :
    /\ stage[g] = "idle" => current[g] = None
    /\ stage[g] # "idle" => calls[g] >= 1 /\ current[g] = [by |-> g, nth |-> calls[g]]

\* GetData's status stays FAILURE until the transfer has succeeded.
FailsByDefault == \A g \in Getters :
    stage[g] \in {"open", "set", "transfer", "catch"} => status[g] = "FAILURE"

Over(c) == c.nth < calls[c.by] \/ (c.nth = calls[c.by] /\ stage[c.by] = "idle")
Latest(c) == c.nth = calls[c.by]

\* How often a handle has been closed, by the stage its call has reached.
CloseCount(c) ==
    /\ c \notin opened => closed[c] = 0
    /\ c.nth > calls[c.by] => c \notin opened
    /\ Over(c) => closed[c] <= 2 /\ (c \in opened => closed[c] >= 1)
    /\ Latest(c) /\ stage[c.by] = "open" => c \notin opened
    /\ Latest(c) /\ stage[c.by] \in {"set", "transfer", "catch"} => closed[c] = 0
    /\ Latest(c) /\ stage[c.by] \in {"assign", "close"} =>
          /\ closed[c] <= 1
          /\ status[c.by] = "SUCCESS" => closed[c] = 0

CloseCounts == \A c \in Call : CloseCount(c)

IInv == TypeOK /\ CurrentCall /\ FailsByDefault /\ CloseCounts

-----------------------------------------------------------------------------
\* The call a thread is in is one of its own.
LEMMA CurrentType ==
  ASSUME IInv, NEW g \in Getters, stage[g] # "idle"
  PROVE  /\ current[g] \in Call
         /\ current[g].by = g
         /\ current[g].nth = calls[g]
         /\ current[g] # None
  BY GetDataAssumption DEF IInv, TypeOK, CurrentCall, Call

\* What cleanCurl does to the counts, in the two stages that call it.
LEMMA CleanCounts ==
  ASSUME IInv, NEW g \in Getters, stage[g] \in {"catch", "close"}, CleanCurl(g)
  PROVE  /\ closed' \in [Call -> 0 .. 2]
         /\ dead' \in BOOLEAN
         /\ \A c \in Call : c # current[g] => closed'[c] = closed[c]
         /\ current[g] \in opened => closed'[current[g]] = closed[current[g]] + 1
         /\ current[g] \notin opened => closed'[current[g]] = closed[current[g]]
  <1>1. /\ current[g] \in Call
        /\ current[g].by = g
        /\ current[g].nth = calls[g]
    BY CurrentType
  <1>2. closed[current[g]] \in 0 .. 1
    BY <1>1 DEF IInv, TypeOK, CloseCounts, CloseCount, Latest
  <1>3. CASE current[g] \in opened
    <2>1. closed' = [closed EXCEPT ![current[g]] = @ + 1]
      BY <1>3 DEF CleanCurl
    <2>2. closed[current[g]] + 1 \in 0 .. 2
      BY <1>2
    <2>3. closed \in [Call -> 0 .. 2]
      BY DEF IInv, TypeOK
    <2>4. closed' \in [Call -> 0 .. 2]
      BY <1>1, <2>1, <2>2, <2>3
    <2>5. dead' \in BOOLEAN
      BY <1>3 DEF CleanCurl, IInv, TypeOK
    <2>6. QED
      BY <1>1, <1>3, <2>1, <2>3, <2>4, <2>5
  <1>4. CASE current[g] \notin opened
    BY <1>4 DEF CleanCurl, IInv, TypeOK
  <1>5. QED
    BY <1>3, <1>4

LEMMA IInvInit == Init => IInv
  <1> SUFFICES ASSUME Init PROVE IInv
    OBVIOUS
  <1>1. TypeOK
    <2>1. /\ 0 \in 0 .. MaxCalls /\ 0 \in 0 .. MaxPieces /\ 0 \in 0 .. 2
          /\ {} \in SUBSET Call
      BY GetDataAssumption
    <2>2. <<>> \in Seq(Call)
      OBVIOUS
    <2>3. QED
      BY <2>1, <2>2 DEF Init, TypeOK, Stages
  <1>2. CurrentCall /\ FailsByDefault
    BY DEF Init, CurrentCall, FailsByDefault
  <1>3. ASSUME NEW c \in Call PROVE CloseCount(c)
    <2>1. c.by \in Getters /\ c.nth \in Nat /\ c.nth >= 1
      BY GetDataAssumption DEF Call
    <2>2. calls[c.by] = 0 /\ stage[c.by] = "idle" /\ closed[c] = 0 /\ c \notin opened
      BY <2>1 DEF Init
    <2>3. QED
      BY <2>1, <2>2 DEF CloseCount, Over, Latest
  <1>4. QED
    BY <1>1, <1>2, <1>3 DEF IInv, CloseCounts

-----------------------------------------------------------------------------
LEMMA TypeNext == IInv /\ [Next]_vars => TypeOK'
  <1> SUFFICES ASSUME IInv, [Next]_vars PROVE TypeOK'
    OBVIOUS
  <1> USE GetDataAssumption
  <1>0. TypeOK
    BY DEF IInv
  <1>1. CASE UNCHANGED vars
    BY <1>0, <1>1 DEF TypeOK, vars
  <1>2. ASSUME NEW g \in Getters, GetDeviceData(g)
        PROVE  TypeOK'
    <2>1. [by |-> g, nth |-> calls[g] + 1] \in Call
      BY <1>0, <1>2 DEF At, GetDeviceData, TypeOK, Call
    <2>2. strHttpGetData' \in Seq(Call)
      BY <1>2 DEF At, GetDeviceData, ClearBuffer
    <2>3. met' \in [Getters -> SUBSET Call]
      <3>1. \A k \in UnderWay : current[k] \in Call
        BY CurrentType DEF UnderWay
      <3>2. QED
        BY <1>0, <1>2, <2>1, <3>1 DEF GetDeviceData, Enter, TypeOK
    <2>4. /\ calls' \in [Getters -> 0 .. MaxCalls]
          /\ received' \in [Getters -> 0 .. MaxPieces]
      BY <1>0, <1>2 DEF GetDeviceData, TypeOK
    <2>5. /\ stage' \in [Getters -> Stages]
          /\ current' \in [Getters -> Call \cup {None}]
          /\ status' \in [Getters -> {"SUCCESS", "FAILURE"}]
      BY <1>0, <1>2, <2>1 DEF GetDeviceData, TypeOK, GoTo, Stages
    <2>6. /\ UNCHANGED <<data, opened, closed, dead>>
          /\ alone' \subseteq Getters
      BY <1>2 DEF GetDeviceData
    <2>7. QED
      BY <1>0, <2>2, <2>3, <2>4, <2>5, <2>6 DEF TypeOK
  <1>3. ASSUME NEW g \in Getters, OpenHandle(g)
        PROVE  TypeOK'
    <2>1. current[g] \in Call
      BY <1>3, CurrentType DEF At, OpenHandle
    <2>2. QED
      BY <1>0, <1>3, <2>1 DEF At, OpenHandle, TypeOK, GoTo, Stages
  <1>4. ASSUME NEW g \in Getters, SetOptions(g)
        PROVE  TypeOK'
    BY <1>0, <1>4 DEF At, SetOptions, TypeOK, GoTo, Stages
  <1>5. ASSUME NEW g \in Getters, GetWriteCallback(g)
        PROVE  TypeOK'
    <2>1. current[g] \in Call
      BY <1>5, CurrentType DEF At, GetWriteCallback
    <2>2. strHttpGetData' \in Seq(Call)
      BY <1>0, <1>5, <2>1 DEF At, GetWriteCallback, TypeOK
    <2>3. QED
      BY <1>0, <1>5, <2>2 DEF At, GetWriteCallback, TypeOK
  <1>6. ASSUME NEW g \in Getters, PerformReturns(g)
        PROVE  TypeOK'
    BY <1>0, <1>6 DEF At, PerformReturns, TypeOK, GoTo, Stages
  <1>7. ASSUME NEW g \in Getters, Catch(g)
        PROVE  TypeOK'
    <2>1. closed' \in [Call -> 0 .. 2] /\ dead' \in BOOLEAN
      BY <1>7, CleanCounts DEF At, Catch
    <2>2. QED
      BY <1>0, <1>7, <2>1 DEF At, Catch, TypeOK, GoTo, Stages
  <1>8. ASSUME NEW g \in Getters, Assign(g)
        PROVE  TypeOK'
    BY <1>0, <1>8 DEF At, Assign, TypeOK, GoTo, Stages
  <1>9. ASSUME NEW g \in Getters, Close(g)
        PROVE  TypeOK'
    <2>1. closed' \in [Call -> 0 .. 2] /\ dead' \in BOOLEAN
      BY <1>9, CleanCounts DEF At, Close
    <2>2. met' \in [Getters -> SUBSET Call]
      BY <1>0, <1>9 DEF Close, TypeOK
    <2>3. QED
      BY <1>0, <1>9, <2>1, <2>2 DEF At, Close, TypeOK, GoTo, Stages
  <1>10. QED
    BY <1>1, <1>2, <1>3, <1>4, <1>5, <1>6, <1>7, <1>8, <1>9 DEF Next

LEMMA StageNext == IInv /\ [Next]_vars => (CurrentCall /\ FailsByDefault)'
  <1> SUFFICES ASSUME IInv, [Next]_vars PROVE (CurrentCall /\ FailsByDefault)'
    OBVIOUS
  <1>0. TypeOK /\ CurrentCall /\ FailsByDefault
    BY DEF IInv
  <1>1. CASE UNCHANGED vars
    BY <1>0, <1>1 DEF CurrentCall, FailsByDefault, vars
  <1>2. ASSUME NEW g \in Getters, GetDeviceData(g)
        PROVE  (CurrentCall /\ FailsByDefault)'
    BY <1>0, <1>2 DEF At, GetDeviceData, TypeOK, CurrentCall, FailsByDefault, GoTo
  <1>3. ASSUME NEW g \in Getters,
               OpenHandle(g) \/ SetOptions(g) \/ GetWriteCallback(g) \/ PerformReturns(g)
        PROVE  (CurrentCall /\ FailsByDefault)'
    BY <1>0, <1>3 DEF At, OpenHandle, SetOptions, GetWriteCallback, PerformReturns,
                      TypeOK, CurrentCall, FailsByDefault, GoTo
  <1>4. ASSUME NEW g \in Getters, Catch(g) \/ Assign(g) \/ Close(g)
        PROVE  (CurrentCall /\ FailsByDefault)'
    BY <1>0, <1>4 DEF At, Catch, Assign, Close, TypeOK, CurrentCall, FailsByDefault, GoTo
  <1>5. QED
    BY <1>1, <1>2, <1>3, <1>4 DEF Next

\* A step of thread g disturbs the counts of its own calls only.
LEMMA CountsOfOthers ==
  ASSUME IInv, NEW g \in Getters, NEW c \in Call, c.by # g,
         calls'[c.by] = calls[c.by], stage'[c.by] = stage[c.by],
         status'[c.by] = status[c.by], closed'[c] = closed[c],
         c \in opened' <=> c \in opened
  PROVE  CloseCount(c)'
  BY DEF IInv, CloseCounts, CloseCount, Over, Latest

LEMMA CountsNext == IInv /\ [Next]_vars => CloseCounts'
  <1> SUFFICES ASSUME IInv, [Next]_vars, NEW c \in Call PROVE CloseCount(c)'
    BY DEF CloseCounts
  <1>a. TypeOK /\ CloseCount(c) /\ FailsByDefault
    BY DEF IInv, CloseCounts
  <1>b. c.by \in Getters /\ c.nth \in Nat
    BY GetDataAssumption DEF Call
  <1>c. /\ calls[c.by] \in Nat
        /\ closed[c] \in 0 .. 2
        /\ status[c.by] \in {"SUCCESS", "FAILURE"}
    BY <1>a, <1>b, GetDataAssumption DEF TypeOK
  <1>1. CASE UNCHANGED vars
    BY <1>a, <1>1 DEF CloseCount, Over, Latest, vars
  <1>2. ASSUME NEW g \in Getters, GetDeviceData(g)
        PROVE  CloseCount(c)'
    <2>1. CASE c.by # g
      BY <1>2, <1>a, <1>b, <2>1, CountsOfOthers DEF At, GetDeviceData, GoTo, TypeOK
    <2>2. CASE c.by = g
      <3>1. /\ stage[c.by] = "idle" /\ stage'[c.by] = "open"
            /\ calls'[c.by] = calls[c.by] + 1
            /\ closed' = closed /\ opened' = opened
        BY <1>2, <1>a, <2>2 DEF At, GetDeviceData, GoTo, TypeOK
      <3>2. QED
        BY <1>a, <1>b, <1>c, <3>1 DEF CloseCount, Over, Latest
    <2>3. QED
      BY <2>1, <2>2
  <1>3. ASSUME NEW g \in Getters, OpenHandle(g)
        PROVE  CloseCount(c)'
    <2>0. current[g] \in Call /\ current[g].by = g /\ current[g].nth = calls[g]
      BY <1>3, CurrentType DEF At, OpenHandle
    <2>1. CASE c.by # g
      BY <1>3, <1>a, <1>b, <2>0, <2>1, CountsOfOthers DEF At, OpenHandle, GoTo, TypeOK
    <2>2. CASE c.by = g
      <3>1. /\ stage[c.by] = "open" /\ stage'[c.by] \in {"set", "catch"}
            /\ calls' = calls /\ status' = status /\ closed' = closed
            /\ opened' = opened \/ opened' = opened \cup {current[g]}
        BY <1>3, <1>a, <2>2 DEF At, OpenHandle, GoTo, TypeOK
      <3>2. Latest(c) <=> c = current[g]
        BY <2>0, <2>2 DEF Latest, Call
      <3>3. QED
        BY <1>a, <1>b, <1>c, <3>1, <3>2 DEF CloseCount, Over, Latest
    <2>3. QED
      BY <2>1, <2>2
  <1>4. ASSUME NEW g \in Getters, SetOptions(g) \/ GetWriteCallback(g) \/ PerformReturns(g)
        PROVE  CloseCount(c)'
    <2>1. CASE c.by # g
      BY <1>4, <1>a, <1>b, <2>1, CountsOfOthers
      DEF At, SetOptions, GetWriteCallback, PerformReturns, GoTo, TypeOK
    <2>2. CASE c.by = g
      <3>1. /\ stage[c.by] \in {"set", "transfer"}
            /\ stage'[c.by] \in {"transfer", "catch", "assign"}
            /\ calls' = calls /\ closed' = closed /\ opened' = opened
        BY <1>4, <1>a, <2>2
        DEF At, SetOptions, GetWriteCallback, PerformReturns, GoTo, TypeOK
      <3>2. QED
        BY <1>a, <1>b, <1>c, <3>1 DEF CloseCount, Over, Latest
    <2>3. QED
      BY <2>1, <2>2
  <1>5. ASSUME NEW g \in Getters, Assign(g)
        PROVE  CloseCount(c)'
    BY <1>5, <1>a, <1>b, <1>c DEF At, Assign, GoTo, TypeOK, CloseCount, Over, Latest
  <1>6. ASSUME NEW g \in Getters, Catch(g) \/ Close(g)
        PROVE  CloseCount(c)'
    <2>0. stage[g] \in {"catch", "close"} /\ CleanCurl(g)
      BY <1>6 DEF At, Catch, Close
    <2>1. current[g] \in Call /\ current[g].by = g /\ current[g].nth = calls[g]
      BY <2>0, CurrentType
    <2>2. /\ c # current[g] => closed'[c] = closed[c]
          /\ c = current[g] /\ c \in opened => closed'[c] = closed[c] + 1
          /\ c = current[g] /\ c \notin opened => closed'[c] = closed[c]
      BY <2>0, CleanCounts
    <2>3. calls' = calls /\ opened' = opened /\ status' = status
      BY <1>6 DEF At, Catch, Close
    <2>4. CASE c.by # g
      BY <1>6, <1>a, <1>b, <2>1, <2>2, <2>3, <2>4, CountsOfOthers
      DEF At, Catch, Close, GoTo, TypeOK
    <2>5. CASE c.by = g
      <3>1. Latest(c) <=> c = current[g]
        BY <2>1, <2>5 DEF Latest, Call
      <3>2. \/ stage[c.by] = "catch" /\ stage'[c.by] = "assign"
            \/ stage[c.by] = "close" /\ stage'[c.by] = "idle"
        BY <1>6, <1>a, <2>5 DEF At, Catch, Close, GoTo, TypeOK
      <3>3. stage[c.by] = "catch" => status[c.by] = "FAILURE"
        BY <1>a, <1>b DEF FailsByDefault
      <3>4. QED
        BY <1>a, <1>b, <1>c, <2>2, <2>3, <3>1, <3>2, <3>3
        DEF CloseCount, Over, Latest
    <2>6. QED
      BY <2>4, <2>5
  <1>7. QED
    BY <1>1, <1>2, <1>3, <1>4, <1>5, <1>6 DEF Next

LEMMA IInvAlways == Spec => []IInv
  <1>1. IInv /\ [Next]_vars => IInv'
    BY TypeNext, StageNext, CountsNext DEF IInv
  <1>2. QED
    BY <1>1, IInvInit, PTL DEF Spec

\* The variables of GetData keep their types; no handle is closed three times.
THEOREM GetDataTypeCorrect == Spec => []TypeOK
  <1>1. IInv => TypeOK
    BY DEF IInv
  <1>2. QED
    BY <1>1, IInvAlways, PTL

\* Each GET closes its handle on every path, however the GETs overlap, and a
\* GET that succeeds has not closed it early.
THEOREM HandlesAreClosed == Spec => []HandleIsClosed
  <1>1. ASSUME IInv, NEW c \in opened, \A g \in Getters : current[g] # c
        PROVE  closed[c] >= 1
    <2>1. c \in Call /\ c.by \in Getters /\ c.nth \in Nat
      BY <1>1, GetDataAssumption DEF IInv, TypeOK, Call
    <2>2. CloseCount(c) /\ calls[c.by] \in Nat
      BY <1>1, <2>1, GetDataAssumption DEF IInv, CloseCounts, TypeOK
    <2>3. Over(c)
      <3>1. CASE c.nth = calls[c.by] /\ stage[c.by] # "idle"
        <4>1. current[c.by] = c
          BY <1>1, <2>1, <3>1 DEF IInv, CurrentCall, Call
        <4>2. QED
          BY <1>1, <2>1, <4>1
      <3>2. QED
        BY <1>1, <2>1, <2>2, <3>1 DEF CloseCount, Over
    <2>4. QED
      BY <2>2, <2>3 DEF CloseCount
  <1>2. ASSUME IInv, NEW g \in Getters, status[g] = "SUCCESS", current[g] # None
        PROVE  closed[current[g]] = 0
    <2>1. stage[g] # "idle"
      BY <1>2 DEF IInv, CurrentCall
    <2>2. stage[g] \in {"assign", "close"}
      BY <1>2, <2>1 DEF IInv, TypeOK, Stages, FailsByDefault
    <2>3. current[g] \in Call /\ current[g].by = g /\ current[g].nth = calls[g]
      BY <1>2, <2>1, CurrentType
    <2>4. QED
      BY <1>2, <2>2, <2>3 DEF IInv, CloseCounts, CloseCount, Latest
  <1>3. IInv => HandleIsClosed
    BY <1>1, <1>2 DEF HandleIsClosed
  <1>4. QED
    BY <1>3, IInvAlways, PTL

-----------------------------------------------------------------------------
(***************************************************************************)
(* GETs that no other overlaps.                                            *)
(***************************************************************************)
Pieces(g) == [i \in 1 .. received[g] |-> current[g]]

LoneAtWork == \A g \in alone : stage[g] # "idle" =>
    \A h \in Getters : stage[h] # "idle" => h = g

BufferIsOwn == \A g \in alone : stage[g] # "idle" => strHttpGetData = Pieces(g)

RInv == LoneAtWork /\ BufferIsOwn /\ LoneResponse

LEMMA OneMorePiece ==
  ASSUME NEW S, NEW c \in S, NEW n \in Nat
  PROVE  Append([i \in 1 .. n |-> c], c) = [i \in 1 .. n + 1 |-> c]
  OBVIOUS

LEMMA RInvInit == Init => RInv
  BY DEF Init, RInv, LoneAtWork, BufferIsOwn, LoneResponse

LEMMA RInvNext == IInv /\ RInv /\ [Next]_vars => RInv'
  <1> SUFFICES ASSUME IInv, RInv, [Next]_vars PROVE RInv'
    OBVIOUS
  <1>0. TypeOK
    BY DEF IInv
  <1>1. CASE UNCHANGED vars
    BY <1>1 DEF RInv, LoneAtWork, BufferIsOwn, LoneResponse, HasOwn, Pieces, vars
  <1>2. ASSUME NEW g \in Getters, GetDeviceData(g)
        PROVE  RInv'
    <2>1. CASE UnderWay = {}
      <3>0. \A h \in Getters : stage[h] = "idle"
        BY <2>1 DEF UnderWay
      <3>1. /\ stage' = [stage EXCEPT ![g] = "open"]
            /\ strHttpGetData' = <<>>
            /\ received'[g] = 0
            /\ alone' = {g}
        BY <1>0, <1>2, <2>1 DEF GetDeviceData, TypeOK, GoTo, ClearBuffer
      <3>2. \A h \in Getters : stage'[h] # "idle" => h = g
        BY <1>0, <3>0, <3>1 DEF TypeOK
      <3>3. Pieces(g)' = <<>>
        BY <3>1 DEF Pieces
      <3>4. stage'[g] # "close"
        BY <1>0, <3>1 DEF TypeOK
      <3>5. QED
        BY <3>1, <3>2, <3>3, <3>4 DEF RInv, LoneAtWork, BufferIsOwn, LoneResponse, HasOwn
    <2>2. CASE UnderWay # {}
      <3>1. alone' = {}
        BY <1>2, <2>2 DEF GetDeviceData
      <3>2. QED
        BY <3>1 DEF RInv, LoneAtWork, BufferIsOwn, LoneResponse
    <2>3. QED
      BY <2>1, <2>2
  <1>3. ASSUME NEW g \in Getters, GetWriteCallback(g)
        PROVE  RInv'
    <2>1. /\ stage' = stage /\ stage[g] = "transfer" /\ current' = current /\ data' = data
          /\ strHttpGetData' = Append(strHttpGetData, current[g])
          /\ received' = [received EXCEPT ![g] = received[g] + 1]
          /\ received[g] \in Nat /\ alone' = alone
      BY <1>0, <1>3, GetDataAssumption DEF At, GetWriteCallback, TypeOK
    <2>2. \A h \in alone : stage[h] # "idle" => h = g
      BY <2>1 DEF RInv, LoneAtWork
    <2>3. LoneAtWork'
      BY <2>1 DEF RInv, LoneAtWork
    <2>4. CASE g \in alone
      <3>1. strHttpGetData = Pieces(g) /\ current[g] \in Call
        BY <2>1, <2>4, CurrentType DEF RInv, BufferIsOwn
      <3>2. strHttpGetData' = Pieces(g)'
        BY <1>0, <2>1, <3>1, OneMorePiece DEF Pieces, TypeOK
      <3>3. QED
        BY <2>1, <2>2, <2>3, <3>2 DEF RInv, BufferIsOwn, LoneResponse, HasOwn
    <2>5. CASE g \notin alone
      BY <2>1, <2>2, <2>3, <2>5 DEF RInv, BufferIsOwn, LoneResponse, HasOwn
    <2>6. QED
      BY <2>4, <2>5
  <1>4. ASSUME NEW g \in Getters, Assign(g)
        PROVE  RInv'
    <2>1. /\ stage[g] = "assign" /\ stage' = [stage EXCEPT ![g] = "close"]
          /\ current' = current /\ received' = received /\ alone' = alone
          /\ data' = [data EXCEPT ![g] = strHttpGetData]
          /\ strHttpGetData' = strHttpGetData
      BY <1>4 DEF At, Assign, GoTo
    <2>2. \A h \in alone : stage'[h] # "idle" => h = g
      BY <1>0, <2>1 DEF RInv, LoneAtWork, TypeOK
    <2>3. LoneAtWork'
      BY <1>0, <2>1, <2>2 DEF RInv, LoneAtWork, TypeOK
    <2>4. g \in alone => strHttpGetData = Pieces(g)
      BY <2>1 DEF RInv, BufferIsOwn
    <2>5. QED
      BY <1>0, <2>1, <2>2, <2>3, <2>4
      DEF RInv, BufferIsOwn, LoneResponse, HasOwn, Pieces, TypeOK
  <1>5. ASSUME NEW g \in Getters,
               OpenHandle(g) \/ SetOptions(g) \/ PerformReturns(g) \/ Catch(g)
        PROVE  RInv'
    <2>1. /\ stage[g] # "idle"
          /\ \E s \in {"set", "catch", "transfer", "assign"} :
                stage' = [stage EXCEPT ![g] = s]
          /\ current' = current /\ received' = received /\ alone' = alone
          /\ data' = data /\ strHttpGetData' = strHttpGetData
      BY <1>5 DEF At, OpenHandle, SetOptions, PerformReturns, Catch, GoTo
    <2>2. QED
      BY <1>0, <2>1
      DEF RInv, LoneAtWork, BufferIsOwn, LoneResponse, HasOwn, Pieces, TypeOK
  <1>6. ASSUME NEW g \in Getters, Close(g)
        PROVE  RInv'
    <2>1. /\ stage[g] # "idle" /\ stage' = [stage EXCEPT ![g] = "idle"]
          /\ current' = [current EXCEPT ![g] = None]
          /\ received' = received /\ alone' = alone
          /\ data' = data /\ strHttpGetData' = strHttpGetData
      BY <1>6 DEF At, Close, GoTo
    <2>2. \A h \in alone : stage'[h] = "idle"
      BY <1>0, <2>1 DEF RInv, LoneAtWork, TypeOK
    <2>3. QED
      BY <2>1, <2>2 DEF RInv, LoneAtWork, BufferIsOwn, LoneResponse, HasOwn
  <1>7. QED
    BY <1>1, <1>2, <1>3, <1>4, <1>5, <1>6 DEF Next

\* A caller whose GET no other overlapped gets exactly the pieces of its own
\* response, whatever the GETs before it left behind.
THEOREM LoneResponsesAreOwn == Spec => []LoneResponse
  <1>1. RInv => LoneResponse
    BY DEF RInv
  <1>2. QED
    BY <1>1, RInvInit, RInvNext, IInvAlways, PTL DEF Spec

-----------------------------------------------------------------------------
(***************************************************************************)
(* GETs that overlap.                                                      *)
(***************************************************************************)
\* Two GETs under way have met, whichever began first.
MeetEachOther == \A g, h \in UnderWay : current[h] \in met[g]

\* Every GET under way has met the GETs whose pieces the buffer holds.
BufferIsMet == \A g \in UnderWay : \A i \in DOMAIN strHttpGetData :
    strHttpGetData[i] \in met[g]

MInv == MeetEachOther /\ BufferIsMet /\ ResponseIsMet

LEMMA MInvInit == Init => MInv
  BY DEF Init, MInv, MeetEachOther, BufferIsMet, ResponseIsMet, UnderWay

LEMMA MInvNext == IInv /\ MInv /\ [Next]_vars => MInv'
  <1> SUFFICES ASSUME IInv, MInv, [Next]_vars PROVE MInv'
    OBVIOUS
  <1>0. TypeOK
    BY DEF IInv
  <1>1. CASE UNCHANGED vars
    BY <1>1 DEF MInv, MeetEachOther, BufferIsMet, ResponseIsMet, UnderWay, vars
  <1>2. ASSUME NEW g \in Getters, GetDeviceData(g)
        PROVE  MInv'
    <2> DEFINE c == [by |-> g, nth |-> calls[g] + 1]
    <2>1. /\ stage' = [stage EXCEPT ![g] = "open"]
          /\ current' = [current EXCEPT ![g] = c]
          /\ strHttpGetData' = <<>> /\ data' = data
          /\ stage[g] = "idle"
      BY <1>2 DEF At, GetDeviceData, GoTo, ClearBuffer
    <2>2. UnderWay' = UnderWay \cup {g} /\ g \notin UnderWay
      BY <1>0, <2>1 DEF UnderWay, TypeOK
    <2>3. \A h \in UnderWay' : /\ c \in met'[h]
                               /\ h # g => met[h] \subseteq met'[h]
      BY <1>2, <2>2 DEF GetDeviceData, Enter, UnderWay
    <2>4. \A k \in UnderWay : current[k] \in met'[g]
      BY <1>2 DEF GetDeviceData, Enter
    <2>5. current'[g] = c /\ \A k \in UnderWay : current'[k] = current[k]
      BY <1>0, <2>1, <2>2 DEF TypeOK, UnderWay
    <2>6. MeetEachOther'
      BY <2>2, <2>3, <2>4, <2>5 DEF MInv, MeetEachOther
    <2>7. BufferIsMet'
      BY <2>1 DEF BufferIsMet
    <2>8. ResponseIsMet'
      <3>1. \A h \in Getters : stage'[h] = "close" => h # g /\ h \in UnderWay' /\ stage[h] = "close"
        BY <1>0, <2>1 DEF UnderWay, TypeOK
      <3>2. QED
        BY <2>1, <2>3, <3>1 DEF MInv, ResponseIsMet
    <2>9. QED
      BY <2>6, <2>7, <2>8 DEF MInv
  <1>3. ASSUME NEW g \in Getters, GetWriteCallback(g)
        PROVE  MInv'
    <2>1. /\ stage' = stage /\ stage[g] = "transfer" /\ current' = current
          /\ data' = data /\ met' = met
          /\ strHttpGetData' = Append(strHttpGetData, current[g])
      BY <1>3 DEF At, GetWriteCallback
    <2>2. UnderWay' = UnderWay /\ g \in UnderWay
      BY <2>1 DEF UnderWay
    <2>3. \A i \in DOMAIN strHttpGetData' :
             \/ strHttpGetData'[i] = current[g]
             \/ i \in DOMAIN strHttpGetData /\ strHttpGetData'[i] = strHttpGetData[i]
      BY <1>0, <2>1 DEF TypeOK
    <2>4. BufferIsMet'
      BY <2>1, <2>2, <2>3 DEF MInv, MeetEachOther, BufferIsMet
    <2>5. QED
      BY <2>1, <2>2, <2>4 DEF MInv, MeetEachOther, ResponseIsMet
  <1>4. ASSUME NEW g \in Getters, Assign(g)
        PROVE  MInv'
    <2>1. /\ stage[g] = "assign" /\ stage' = [stage EXCEPT ![g] = "close"]
          /\ current' = current /\ met' = met
          /\ data' = [data EXCEPT ![g] = strHttpGetData]
          /\ strHttpGetData' = strHttpGetData
      BY <1>4 DEF At, Assign, GoTo
    <2>2. UnderWay' = UnderWay /\ g \in UnderWay
      BY <1>0, <2>1 DEF UnderWay, TypeOK
    <2>3. ResponseIsMet'
      BY <1>0, <2>1, <2>2 DEF MInv, BufferIsMet, ResponseIsMet, TypeOK
    <2>4. QED
      BY <2>1, <2>2, <2>3 DEF MInv, MeetEachOther, BufferIsMet
  <1>5. ASSUME NEW g \in Getters,
               OpenHandle(g) \/ SetOptions(g) \/ PerformReturns(g) \/ Catch(g)
        PROVE  MInv'
    <2>1. /\ stage[g] # "idle"
          /\ \E s \in {"set", "catch", "transfer", "assign"} :
                stage' = [stage EXCEPT ![g] = s]
          /\ current' = current /\ met' = met
          /\ data' = data /\ strHttpGetData' = strHttpGetData
      BY <1>5 DEF At, OpenHandle, SetOptions, PerformReturns, Catch, GoTo
    <2>2. UnderWay' = UnderWay
      BY <1>0, <2>1 DEF UnderWay, TypeOK
    <2>3. ResponseIsMet'
      BY <1>0, <2>1 DEF MInv, ResponseIsMet, TypeOK
    <2>4. QED
      BY <2>1, <2>2, <2>3 DEF MInv, MeetEachOther, BufferIsMet
  <1>6. ASSUME NEW g \in Getters, Close(g)
        PROVE  MInv'
    <2>1. /\ stage' = [stage EXCEPT ![g] = "idle"]
          /\ current' = [current EXCEPT ![g] = None]
          /\ met' = [met EXCEPT ![g] = {}]
          /\ data' = data /\ strHttpGetData' = strHttpGetData
      BY <1>6 DEF At, Close, GoTo
    <2>2. \A h \in UnderWay' : /\ h \in UnderWay /\ stage'[h] = stage[h]
                               /\ met'[h] = met[h] /\ current'[h] = current[h]
      BY <1>0, <2>1 DEF UnderWay, TypeOK
    <2>3. MeetEachOther' /\ BufferIsMet'
      BY <2>1, <2>2 DEF MInv, MeetEachOther, BufferIsMet
    <2>4. \A h \in Getters : stage'[h] = "close" => h \in UnderWay'
      BY DEF UnderWay
    <2>5. ResponseIsMet'
      BY <2>1, <2>2, <2>4 DEF MInv, ResponseIsMet
    <2>6. QED
      BY <2>3, <2>5 DEF MInv
  <1>7. QED
    BY <1>1, <1>2, <1>3, <1>4, <1>5, <1>6 DEF Next

\* However GETs overlap, no caller gets a piece of a GET that was over before
\* its own began.
THEOREM ResponsesAreMet == Spec => []ResponseIsMet
  <1>1. MInv => ResponseIsMet
    BY DEF MInv
  <1>2. QED
    BY <1>1, MInvInit, MInvNext, IInvAlways, PTL DEF Spec
=============================================================================
