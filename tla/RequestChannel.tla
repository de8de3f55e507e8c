--------------------------- MODULE RequestChannel ---------------------------
(***************************************************************************)
(* What the asynchronous half of libRest promises its callers, with the    *)
(* threads, the lock and the condition variable left out.  A POST or PUT   *)
(* that is accepted joins the end of a FIFO channel; requests leave it in  *)
(* that order, each at most once and never again after a failed transfer;  *)
(* while the channel is open every accepted request leaves it in the end;  *)
(* and once it is closing at most one more request leaves it.              *)
(***************************************************************************)
EXTENDS Naturals, Sequences

CONSTANT Request            \* the requests a caller can submit

VARIABLES accepted,         \* every request accepted so far, in order
          delivered,        \* every request handed to the transport so far
          phase,            \* "open", "closing" or "closed"
          spare             \* deliveries still allowed once closing

vars == <<accepted, delivered, phase, spare>>

Init ==
    /\ accepted = <<>>
    /\ delivered = <<>>
    /\ phase = "open"
    /\ spare = 1

Accept(r) ==
    /\ phase = "open"
    /\ accepted' = Append(accepted, r)
    /\ UNCHANGED <<delivered, phase, spare>>

DeliverNext ==
    /\ Len(delivered) < Len(accepted)
    /\ delivered' = Append(delivered, accepted[Len(delivered) + 1])

DeliverOpen ==
    /\ phase = "open"
    /\ DeliverNext
    /\ UNCHANGED <<accepted, phase, spare>>

DeliverClosing ==
    /\ phase = "closing"
    /\ spare > 0
    /\ DeliverNext
    /\ spare' = spare - 1
    /\ UNCHANGED <<accepted, phase>>

Close ==
    /\ phase = "open"
    /\ phase' = "closing"
    /\ UNCHANGED <<accepted, delivered, spare>>

Seal ==
    /\ phase = "closing"
    /\ phase' = "closed"
    /\ UNCHANGED <<accepted, delivered, spare>>

Next ==
    \/ \E r \in Request : Accept(r)
    \/ DeliverOpen
    \/ DeliverClosing
    \/ Close
    \/ Seal

\* The safety half, then the whole promise.
SafetySpec == Init /\ [][Next]_vars

Spec == SafetySpec /\ WF_vars(DeliverOpen)
=============================================================================
