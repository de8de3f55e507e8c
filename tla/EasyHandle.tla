----------------------------- MODULE EasyHandle -----------------------------
(***************************************************************************)
(* The one libcurl easy handle of CurlHttpWrapper, mCurl, and everybody    *)
(* who sets options on it: the worker thread (Post, Put), client threads   *)
(* that poll (PostPollingData, under mPollingMutex) and a client thread    *)
(* that changes the certificate (SetCertificateAttributes, UpdateTLSInfo). *)
(* The worker and the certificate setter hold no lock, and nobody but the  *)
(* pollers holds mPollingMutex: calls may overlap in every way but one.  A *)
(* thread that polls and sets certificates counts as two users, which only *)
(* adds interleavings.                                                     *)
(*                                                                         *)
(* Every curl_easy_setopt is one action; curl_easy_perform is a beginning, *)
(* any number of WriteCallbacks and an end.  An option is abstracted to    *)
(* the call whose value it holds: the body, the length and the URL of call *)
(* k are all just k.  libcurl copies the values of "url", "method" and the *)
(* TLS options; in "errbuf", "headers" and "fields" it keeps the caller's  *)
(* pointer and follows it until the transfer is over.                      *)
(*                                                                         *)
(* Three history variables, which no guard reads, are there for the        *)
(* properties: met, before and settled.                                    *)
(***************************************************************************)
EXTENDS Naturals, Sequences

CONSTANTS Workers,      \* the worker thread, or nobody
          Pollers,      \* client threads that call PostPollingData
          Setters,      \* client threads that call SetCertificateAttributes
          None,         \* no call
          MaxCalls      \* bound: calls by all threads together

Users == Workers \cup Pollers \cup Setters

Call == [by: Users, nth: 1 .. MaxCalls, op: {"POST", "PUT", "CERT"}]

ASSUME EasyHandleAssumption ==
    /\ Workers \cap Pollers = {}
    /\ Setters \cap (Workers \cup Pollers) = {}
    /\ MaxCalls \in Nat
    /\ None \notin Call \cup Users

\* The options in the order in which the functions set them.
RequestOptions == <<"errbuf", "url", "headers", "method", "size", "fields">>
TLSOptions == <<"errbuf", "certtype", "cert", "passwd", "keytype", "key",
                "cainfo", "verify">>

OfRequest == {"errbuf", "url", "headers", "method", "size", "fields"}
OfCertificate == {"certtype", "cert", "passwd", "keytype", "key", "cainfo", "verify"}
Options == OfRequest \cup OfCertificate

Path(op) == IF op = "CERT" THEN TLSOptions ELSE RequestOptions

VARIABLES
    handle,             \* mCurl: each option's value, the call it came from
    stage,              \* where each thread stands in its call
    at,                 \* index in Path of the option it sets next, 1 outside
    current,            \* the call each thread is making
    calls,              \* calls made so far
    sent,               \* the options libcurl had when the transfer began
    strHttpStatus,      \* the calls whose response bytes the buffer holds
    mPollingMutex,      \* the poller that holds it, or None
    cert,               \* member cert: the call it was assigned by
    met,                \* history: the calls on the handle during each call
    before,             \* history: settled as each call came to the handle
    settled             \* history: the certificate update that is in force, if
                        \* UpdateTLSInfo returned SUCCESS for it, no other update
                        \* overlapped it and none was begun since

vars == <<handle, stage, at, current, calls, sent, strHttpStatus,
          mPollingMutex, cert, met, before, settled>>

Stages == {"idle", "waiting", "setting", "perform", "transfer", "free", "return",
           "throw"}

Unset == [o \in Options |-> None]

Init ==
    /\ handle = Unset
    /\ stage = [u \in Users |-> "idle"]
    /\ at = [u \in Users |-> 1]
    /\ current = [u \in Users |-> None]
    /\ calls = 0
    /\ sent = [u \in Users |-> Unset]
    /\ strHttpStatus = {}
    /\ mPollingMutex = None
    /\ cert = None
    /\ met = [u \in Users |-> {}]
    /\ before = [u \in Users |-> None]
    /\ settled = None

-----------------------------------------------------------------------------
Active(u) == stage[u] \notin {"idle", "waiting"}

UnderWay == {current[u] : u \in {v \in Users : Active(v)}}

\* Call c of thread u comes to the handle.
Enter(u, c) ==
    /\ met' = [v \in Users |->
                 IF v = u THEN UnderWay \cup {c}
                 ELSE IF Active(v) THEN met[v] \cup {c}
                 ELSE met[v]]
    /\ before' = [before EXCEPT ![u] = settled]

Begin(u, op, first) ==
    /\ stage[u] = "idle"
    /\ calls < MaxCalls
    /\ calls' = calls + 1
    /\ current' = [current EXCEPT ![u] = [by |-> u, nth |-> calls + 1, op |-> op]]
    /\ stage' = [stage EXCEPT ![u] = first]
    /\ UNCHANGED <<handle, at, sent>>

KeepStatus == UNCHANGED strHttpStatus
ClearStatus == strHttpStatus' = {}

\* Post or Put, up to the first setopt.
Post(u, op) ==
    /\ Begin(u, op, "setting")
    /\ Enter(u, current'[u])
    /\ ClearStatus
    /\ UNCHANGED <<mPollingMutex, cert, settled>>

\* PostPollingData waits for mPollingMutex ...
PollWithoutLock(u) ==
    /\ Begin(u, "POST", "setting")
    /\ Enter(u, current'[u])
    /\ ClearStatus
    /\ UNCHANGED <<mPollingMutex, cert, settled>>

PostPollingData(u) ==
    /\ Begin(u, "POST", "waiting")
    /\ UNCHANGED <<strHttpStatus, mPollingMutex, cert, met, before, settled>>

\* ... and clears the status once it holds it, unless copying the URL or the
\* content throws before.
LockPolling(u) ==
    /\ stage[u] = "waiting"
    /\ mPollingMutex = None
    /\ mPollingMutex' = u
    /\ Enter(u, current[u])
    /\ \/ /\ stage' = [stage EXCEPT ![u] = "setting"]
          /\ ClearStatus
       \/ /\ stage' = [stage EXCEPT ![u] = "throw"]
          /\ UNCHANGED strHttpStatus
    /\ UNCHANGED <<handle, at, current, calls, sent, cert, settled>>

\* this->cert = cert, which may throw with only a part of it copied, and then
\* UpdateTLSInfo.
SetCertificateAttributes(u) ==
    /\ Begin(u, "CERT", "setting") \/ Begin(u, "CERT", "throw")
    /\ Enter(u, current'[u])
    /\ cert' = current'[u]
    /\ settled' = None
    /\ UNCHANGED <<strHttpStatus, mPollingMutex>>

-----------------------------------------------------------------------------
Option(u) == Path(current[u].op)[at[u]]

\* The value a setopt stores: UpdateTLSInfo reads the member cert.
Value(u) == IF Option(u) \in OfCertificate THEN cert ELSE current[u]

StoreAllButSize(u) ==
    handle' = IF Option(u) = "size" THEN handle
              ELSE [handle EXCEPT ![Option(u)] = Value(u)]

Store(u) == handle' = [handle EXCEPT ![Option(u)] = Value(u)]

\* UpdateTLSInfo has set its last option.
Settle(u) ==
    settled' = IF \A c \in met[u] : c.op = "CERT" => c = current[u]
               THEN current[u] ELSE settled

SetOption(u) ==
    /\ stage[u] = "setting"
    /\ Store(u)
    /\ \/ /\ at[u] < Len(Path(current[u].op))
          /\ at' = [at EXCEPT ![u] = @ + 1]
          /\ UNCHANGED <<stage, settled>>
       \/ /\ at[u] = Len(Path(current[u].op))
          /\ current[u].op # "CERT"
          /\ stage' = [stage EXCEPT ![u] = "perform"]
          /\ at' = [at EXCEPT ![u] = 1]
          /\ UNCHANGED settled
       \/ /\ at[u] = Len(Path(current[u].op))
          /\ current[u].op = "CERT"
          /\ stage' = [stage EXCEPT ![u] = "return"]
          /\ at' = [at EXCEPT ![u] = 1]
          /\ Settle(u)
    /\ UNCHANGED <<current, calls, sent, strHttpStatus, mPollingMutex, cert, met, before>>

\* What the catch blocks report of an update: FAILURE.
FailureIsSuccess(u) == IF current[u].op = "CERT" THEN Settle(u) ELSE UNCHANGED settled
FailureStatus(u) == UNCHANGED settled

\* They free the headers of a request.
FailureStage(op) == IF op = "CERT" THEN "return" ELSE "free"

\* A setopt whose result is checked fails, or copying the content throws: the
\* function leaves by its catch block and the options set so far stay set.
SetOptionFails(u) ==
    /\ stage[u] = "setting"
    /\ Option(u) # "errbuf"
    /\ stage' = [stage EXCEPT ![u] = FailureStage(current[u].op)]
    /\ at' = [at EXCEPT ![u] = 1]
    /\ FailureStatus(u)
    /\ UNCHANGED <<handle, current, calls, sent, strHttpStatus, mPollingMutex, cert,
                   met, before>>

Perform(u) ==
    /\ stage[u] = "perform"
    /\ stage' = [stage EXCEPT ![u] = "transfer"]
    /\ sent' = [sent EXCEPT ![u] = handle]
    /\ UNCHANGED <<handle, at, current, calls, strHttpStatus, mPollingMutex, cert,
                   met, before, settled>>

\* A piece of the response arrives.
WriteCallback(u) ==
    /\ stage[u] = "transfer"
    /\ strHttpStatus' = strHttpStatus \cup {current[u]}
    /\ UNCHANGED <<handle, stage, at, current, calls, sent, mPollingMutex, cert,
                   met, before, settled>>

\* curl_easy_perform returns, whatever its result.
PerformReturns(u) ==
    /\ stage[u] = "transfer"
    /\ stage' = [stage EXCEPT ![u] = "free"]
    /\ UNCHANGED <<handle, at, current, calls, sent, strHttpStatus, mPollingMutex, cert,
                   met, before, settled>>

\* The list itself is the subject of SecurityHeaders.
FreeHeader(u) ==
    /\ stage[u] = "free"
    /\ stage' = [stage EXCEPT ![u] = "return"]
    /\ UNCHANGED <<handle, at, current, calls, sent, strHttpStatus, mPollingMutex, cert,
                   met, before, settled>>

KeepLock(u) == UNCHANGED mPollingMutex
Unlock(u) == mPollingMutex' = IF u = mPollingMutex THEN None ELSE mPollingMutex

\* strHttpStatus is logged, or an exception leaves the function; the stack
\* frame and the lock_guard go.
Return(u) ==
    /\ stage[u] \in {"return", "throw"}
    /\ stage' = [stage EXCEPT ![u] = "idle"]
    /\ current' = [current EXCEPT ![u] = None]
    /\ sent' = [sent EXCEPT ![u] = Unset]
    /\ met' = [met EXCEPT ![u] = {}]
    /\ before' = [before EXCEPT ![u] = None]
    /\ Unlock(u)
    /\ UNCHANGED <<handle, at, calls, strHttpStatus, cert, settled>>

-----------------------------------------------------------------------------
\* A thread starts a call: what the application, or the queue, decides.
Starts ==
    \/ \E u \in Workers : Post(u, "POST") \/ Post(u, "PUT")
    \/ \E u \in Pollers : PostPollingData(u)
    \/ \E u \in Setters : SetCertificateAttributes(u)

\* A thread goes on with the call it is in.
Continues(u) ==
    \/ LockPolling(u)
    \/ SetOption(u) \/ SetOptionFails(u)
    \/ Perform(u) \/ WriteCallback(u) \/ PerformReturns(u)
    \/ FreeHeader(u) \/ Return(u)

Next == Starts \/ \E u \in Users : Continues(u)

Spec == Init /\ [][Next]_vars

\* The scheduler runs every thread that can run; transfers end.
Fairness ==
    \A u \in Users :
        /\ WF_vars(LockPolling(u))
        /\ WF_vars(SetOption(u) \/ SetOptionFails(u))
        /\ WF_vars(Perform(u) \/ PerformReturns(u) \/ FreeHeader(u) \/ Return(u))

FairSpec == Spec /\ Fairness

-----------------------------------------------------------------------------
\* Types of the variables.
TypeOK ==
    /\ handle \in [Options -> Call \cup {None}]
    /\ stage \in [Users -> Stages]
    /\ at \in [Users -> 1 .. 8]
    /\ current \in [Users -> Call \cup {None}]
    /\ calls \in 0 .. MaxCalls
    /\ sent \in [Users -> [Options -> Call \cup {None}]]
    /\ strHttpStatus \subseteq Call
    /\ mPollingMutex \in Pollers \cup {None}
    /\ cert \in Call \cup {None}
    /\ met \in [Users -> SUBSET Call]
    /\ before \in [Users -> Call \cup {None}]
    /\ settled \in Call \cup {None}

\* However calls overlap and fail, what a transfer uses of the handle is its
\* own or that of a call it overlaps: nothing an earlier call set, or set part
\* of before it failed, is left, and nothing is unset.
OwnTransfer ==
    \A u \in Users : stage[u] = "transfer" =>
        \A o \in OfRequest : {sent[u][o], handle[o]} \subseteq met[u]

\* What Post, Put and PostPollingData log as their status came from their own
\* transfer or from that of a call they overlap, never from an earlier one.
StatusIsOwn ==
    \A u \in Users : Active(u) /\ current[u].op # "CERT" /\ stage[u] # "throw" =>
        strHttpStatus \subseteq met[u]

\* mPollingMutex keeps polling calls from mixing with one another, whatever
\* the worker and the setters do meanwhile: no option and no byte of status
\* that a polling call uses is that of another polling call.
PollersDoNotMix ==
    \A u \in Pollers :
        /\ stage[u] = "transfer" =>
              \A o \in OfRequest : \A c \in {sent[u][o], handle[o]} :
                  c.by \in Pollers => c = current[u]
        /\ Active(u) /\ stage[u] # "throw" =>
              \A c \in strHttpStatus : c.by \in Pollers => c = current[u]

\* A call that comes to the handle when an update is in force uses that
\* certificate, in all seven options, but for options of updates it overlaps:
\* what an earlier failed update set is never used again.
WholeCertificate ==
    \A u \in Users : stage[u] = "transfer" /\ before[u] # None =>
        \A o \in OfCertificate :
            sent[u][o] \in {before[u]} \cup {c \in met[u] : c.op = "CERT"}

Calls == INSTANCE HandleCalls WITH
    phase <- [u \in Users |-> IF stage[u] \in {"idle", "waiting"} THEN stage[u]
                              ELSE "inside"],
    making <- [u \in Users |-> IF current[u] = None THEN None ELSE current[u].op]

\* Seen from outside, every call is begun, waits for the mutex if it polls,
\* and returns: no path, failed or not, keeps mPollingMutex or never ends.
ImplementsCalls == Calls!Spec

-----------------------------------------------------------------------------
(***************************************************************************)
(* A statement of the sources that overlapping calls do not keep.          *)
(***************************************************************************)
\* "First set the URL that is about to receive our POST."
OwnUrlReceivesPost ==
    \A u \in Users : stage[u] = "transfer" => sent[u]["url"] = current[u]
=============================================================================
