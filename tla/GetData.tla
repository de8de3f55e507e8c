------------------------------- MODULE GetData -------------------------------
(***************************************************************************)
(* The synchronous GET of libRest: GetDeviceData runs GetData on the       *)
(* caller's own thread, with an easy handle of its own and no lock, and    *)
(* collects the response in the member strHttpGetData that all callers     *)
(* share.                                                                  *)
(*                                                                         *)
(* The options are set on a handle nobody else knows, so setting them all  *)
(* is one step.  A piece of response body is abstracted to the call it     *)
(* answers.  cleanCurl takes the pointer by value: its "ptr = nullptr"     *)
(* leaves curlPtr as it was.  Closing a handle twice is undefined: the     *)
(* process dies there, or goes on.                                         *)
(***************************************************************************)
EXTENDS Naturals, Sequences

CONSTANTS Getters,      \* client threads
          None,         \* no call
          MaxCalls,     \* bound: calls by one thread
          MaxPieces     \* bound: pieces in which a response arrives

Call == [by: Getters, nth: 1 .. MaxCalls]

ASSUME GetDataAssumption ==
    /\ MaxCalls \in Nat
    /\ MaxPieces \in Nat
    /\ None \notin Call

VARIABLES
    stage,              \* where each thread stands in GetData
    current,            \* the call each thread is making
    calls,              \* calls each thread has made
    strHttpGetData,     \* the shared buffer: the call each piece answers
    received,           \* pieces libcurl has passed on in the current call
    data,               \* the caller's string, assigned from the buffer
    status,             \* what GetData returns
    opened,             \* calls whose curl_easy_init gave a handle
    closed,             \* how often each call's handle was cleaned up
    dead,               \* the process died of closing a handle twice
    alone,              \* threads whose latest GET no other has overlapped
    met                 \* each GET under way: itself and those it overlapped

vars == <<stage, current, calls, strHttpGetData, received, data, status,
          opened, closed, dead, alone, met>>

Stages == {"idle", "open", "set", "transfer", "catch", "assign", "close"}

Init ==
    /\ stage = [g \in Getters |-> "idle"]
    /\ current = [g \in Getters |-> None]
    /\ calls = [g \in Getters |-> 0]
    /\ strHttpGetData = <<>>
    /\ received = [g \in Getters |-> 0]
    /\ data = [g \in Getters |-> <<>>]
    /\ status = [g \in Getters |-> "FAILURE"]
    /\ opened = {}
    /\ closed = [c \in Call |-> 0]
    /\ dead = FALSE
    /\ alone = {}
    /\ met = [g \in Getters |-> {}]

At(g, s) == ~dead /\ stage[g] = s
GoTo(g, s) == stage' = [stage EXCEPT ![g] = s]

UnderWay == {h \in Getters : stage[h] # "idle"}

\* Every GET under way has met the call c that thread g begins, and c them.
Enter(g, c) ==
    met' = [h \in Getters |->
              IF h = g THEN {c} \cup {current[k] : k \in UnderWay}
              ELSE IF h \in UnderWay THEN met[h] \cup {c} ELSE met[h]]

-----------------------------------------------------------------------------
KeepBuffer == UNCHANGED strHttpGetData
ClearBuffer == strHttpGetData' = <<>>

GetDeviceData(g) ==
    /\ At(g, "idle")
    /\ calls[g] < MaxCalls
    /\ calls' = [calls EXCEPT ![g] = @ + 1]
    /\ current' = [current EXCEPT ![g] = [by |-> g, nth |-> calls[g] + 1]]
    /\ Enter(g, [by |-> g, nth |-> calls[g] + 1])
    /\ received' = [received EXCEPT ![g] = 0]
    /\ status' = [status EXCEPT ![g] = "FAILURE"]
    /\ ClearBuffer
    /\ GoTo(g, "open")
    /\ alone' = IF UnderWay = {} THEN {g} ELSE {}
    /\ UNCHANGED <<data, opened, closed, dead>>

\* curl_easy_init gives a handle or, without memory, a null pointer, on which
\* the first checked setopt fails.
OpenHandle(g) ==
    /\ At(g, "open")
    /\ \/ /\ opened' = opened \cup {current[g]}
          /\ GoTo(g, "set")
       \/ /\ UNCHANGED opened
          /\ GoTo(g, "catch")
    /\ UNCHANGED <<current, calls, strHttpGetData, received, data, status,
                   closed, dead, alone, met>>

SetOptions(g) ==
    /\ At(g, "set")
    /\ GoTo(g, "transfer") \/ GoTo(g, "catch")
    /\ UNCHANGED <<current, calls, strHttpGetData, received, data, status,
                   opened, closed, dead, alone, met>>

GetWriteCallback(g) ==
    /\ At(g, "transfer")
    /\ received[g] < MaxPieces
    /\ strHttpGetData' = Append(strHttpGetData, current[g])
    /\ received' = [received EXCEPT ![g] = @ + 1]
    /\ UNCHANGED <<stage, current, calls, data, status, opened, closed, dead, alone,
                   met>>

\* curl_easy_perform returns CURLE_OK, or an error that throws.
PerformReturns(g) ==
    /\ At(g, "transfer")
    /\ \/ /\ status' = [status EXCEPT ![g] = "SUCCESS"]
          /\ GoTo(g, "assign")
       \/ /\ UNCHANGED status
          /\ GoTo(g, "catch")
    /\ UNCHANGED <<current, calls, strHttpGetData, received, data,
                   opened, closed, dead, alone, met>>

\* cleanCurl(curlPtr): nothing for a null pointer.
CleanNothing(g) == UNCHANGED <<closed, dead>>

CleanCurl(g) ==
    IF current[g] \in opened
    THEN /\ closed' = [closed EXCEPT ![current[g]] = @ + 1]
         /\ dead' \in (IF closed[current[g]] = 0 THEN {dead} ELSE BOOLEAN)
    ELSE UNCHANGED <<closed, dead>>

Catch(g) ==
    /\ At(g, "catch")
    /\ CleanCurl(g)
    /\ GoTo(g, "assign")
    /\ UNCHANGED <<current, calls, strHttpGetData, received, data, status, opened,
                   alone, met>>

Assign(g) ==
    /\ At(g, "assign")
    /\ data' = [data EXCEPT ![g] = strHttpGetData]
    /\ GoTo(g, "close")
    /\ UNCHANGED <<current, calls, strHttpGetData, received, status,
                   opened, closed, dead, alone, met>>

\* The last cleanCurl(curlPtr), on the success path and after a catch alike.
Close(g) ==
    /\ At(g, "close")
    /\ CleanCurl(g)
    /\ GoTo(g, "idle")
    /\ current' = [current EXCEPT ![g] = None]
    /\ met' = [met EXCEPT ![g] = {}]
    /\ UNCHANGED <<calls, strHttpGetData, received, data, status, opened, alone>>

-----------------------------------------------------------------------------
Next == \E g \in Getters :
    \/ GetDeviceData(g)
    \/ OpenHandle(g) \/ SetOptions(g)
    \/ GetWriteCallback(g) \/ PerformReturns(g)
    \/ Catch(g) \/ Assign(g) \/ Close(g)

Spec == Init /\ [][Next]_vars

-----------------------------------------------------------------------------
\* Types of the variables.
TypeOK ==
    /\ stage \in [Getters -> Stages]
    /\ current \in [Getters -> Call \cup {None}]
    /\ calls \in [Getters -> 0 .. MaxCalls]
    /\ strHttpGetData \in Seq(Call)
    /\ received \in [Getters -> 0 .. MaxPieces]
    /\ data \in [Getters -> Seq(Call)]
    /\ status \in [Getters -> {"SUCCESS", "FAILURE"}]
    /\ opened \subseteq Call
    /\ closed \in [Call -> 0 .. 2]
    /\ dead \in BOOLEAN
    /\ alone \subseteq Getters
    /\ met \in [Getters -> SUBSET Call]

\* The caller's string is the response to its own GET, all of it that arrived
\* and nothing else.
HasOwn(g) == stage[g] = "close" => data[g] = [i \in 1 .. received[g] |-> current[g]]

\* A caller whose GET no other overlapped has the data of its own GET: nothing
\* is left in the shared buffer by the GETs before, which may have overlapped
\* each other and failed half way.
LoneResponse == \A g \in alone : HasOwn(g)

\* However GETs overlap, a caller's string holds pieces of its own GET and of
\* those that overlapped it, and none of a GET that was over before.
ResponseIsMet == \A g \in Getters : stage[g] = "close" =>
    \A i \in DOMAIN data[g] : data[g][i] \in met[g]

\* A handle is cleaned up by the time its call is over, on every path; and no
\* path that succeeds cleans it up twice.
HandleIsClosed ==
    /\ \A c \in opened : (\A g \in Getters : current[g] # c) => closed[c] >= 1
    /\ \A g \in Getters : status[g] = "SUCCESS" /\ current[g] # None =>
          closed[current[g]] = 0

\* "if (ptr != nullptr)" ... "ptr = nullptr": no handle is cleaned up twice.
ClosedOnce == \A c \in Call : closed[c] <= 1
=============================================================================
