---------------------------- MODULE HandleCalls ----------------------------
(***************************************************************************)
(* The calls on libRest's shared easy handle, seen from outside: who is in *)
(* Post, Put, PostPollingData or SetCertificateAttributes, who waits for   *)
(* mPollingMutex, and that every call returns.  EasyHandle implements it,  *)
(* option by option; RestClient builds on it.                              *)
(***************************************************************************)
CONSTANTS Workers,      \* the worker thread
          Pollers,      \* threads that may call PostPollingData
          Setters,      \* threads that may call SetCertificateAttributes
          None          \* no call, no thread

Users == Workers \cup Pollers \cup Setters

VARIABLES
    phase,              \* where each thread stands: outside, at the mutex, inside
    making,             \* the kind of call each thread is making
    mPollingMutex       \* the thread that holds it, or None

vars == <<phase, making, mPollingMutex>>

Init ==
    /\ phase = [u \in Users |-> "idle"]
    /\ making = [u \in Users |-> None]
    /\ mPollingMutex = None

Begin(u, op, first) ==
    /\ phase[u] = "idle"
    /\ phase' = [phase EXCEPT ![u] = first]
    /\ making' = [making EXCEPT ![u] = op]

Post(u, op) ==
    /\ Begin(u, op, "inside")
    /\ UNCHANGED mPollingMutex

PostPollingData(u) ==
    /\ Begin(u, "POST", "waiting")
    /\ UNCHANGED mPollingMutex

SetCertificateAttributes(u) ==
    /\ Begin(u, "CERT", "inside")
    /\ UNCHANGED mPollingMutex

LockPolling(u) ==
    /\ phase[u] = "waiting"
    /\ mPollingMutex = None
    /\ mPollingMutex' = u
    /\ phase' = [phase EXCEPT ![u] = "inside"]
    /\ UNCHANGED making

Return(u) ==
    /\ phase[u] = "inside"
    /\ phase' = [phase EXCEPT ![u] = "idle"]
    /\ making' = [making EXCEPT ![u] = None]
    /\ mPollingMutex' = IF u = mPollingMutex THEN None ELSE mPollingMutex

Next ==
    \/ \E u \in Workers : Post(u, "POST") \/ Post(u, "PUT")
    \/ \E u \in Pollers : PostPollingData(u)
    \/ \E u \in Setters : SetCertificateAttributes(u)
    \/ \E u \in Users : LockPolling(u) \/ Return(u)

\* The safety half, then the whole promise.
SafetySpec == Init /\ [][Next]_vars

Spec ==
    /\ SafetySpec
    /\ \A u \in Users : WF_vars(LockPolling(u)) /\ WF_vars(Return(u))

Kinds == {"POST", "PUT", "CERT"}

TypeOK ==
    /\ phase \in [Users -> {"idle", "waiting", "inside"}]
    /\ making \in [Users -> Kinds \cup {None}]
    /\ mPollingMutex \in Pollers \cup {None}
=============================================================================
