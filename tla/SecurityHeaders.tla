-------------------------- MODULE SecurityHeaders --------------------------
(***************************************************************************)
(* The header list of a request: addSecurityHeaders builds it node by      *)
(* node, the caller (Post, Put or PostPollingData) gives libcurl a pointer *)
(* to it and frees it when the transfer is over.  EasyHandle sees the list *)
(* as one thing that is there or not; this module looks inside, at a       *)
(* sequence of calls by one thread.                                        *)
(*                                                                         *)
(* libcurl's side, from how it is used: curl_slist_append allocates a node *)
(* and returns the list with the node at its end, or returns NULL and      *)
(* leaves its argument alone; CURLOPT_HTTPHEADER keeps the pointer it is   *)
(* given, NULL included, and a transfer follows it.                        *)
(***************************************************************************)
EXTENDS Naturals, Sequences, SequencesExt

CONSTANT MaxCalls       \* bound: requests

ASSUME SecurityHeadersAssumption == MaxCalls \in Nat

Types == {"TYPE_JSON", "TYPE_WWW_FORM"}

\* The headers in the order of the appends; the encoded ones are strings
\* that stay empty when computing them threw.
Order == <<"cache-control", "public_key", "sstm", "token", "content-type">>

Encoded == {"public_key", "sstm", "token"}

\* A node of a list: the call and the append that allocated it, and its text.
Texts == {"", "filled", "json", "form"}
Node == [by: 1 .. MaxCalls, nth: 1 .. Len(Order), text: Texts]

VARIABLES
    stage,              \* where the call stands
    calls,              \* requests so far
    type,               \* data_type
    filled,             \* which of Data1, Data2, Data3 have been computed
    nth,                \* the append that comes next
    headers,            \* the list the variable headers points to, <<>> if NULL
    HTTPHEADER,         \* the list mCurl points to, freed or not
    live,               \* nodes allocated and not freed
    failed              \* history: the appends that returned NULL, by call

headersVars == <<stage, calls, type, filled, nth, headers, HTTPHEADER, live, failed>>

Stages == {"idle", "url", "encode", "hash", "append", "attach", "options",
           "transfer", "free"}

HeadersInit ==
    /\ stage = "idle"
    /\ calls = 0
    /\ type = "TYPE_JSON"
    /\ filled = {}
    /\ nth = 1
    /\ headers = <<>>
    /\ HTTPHEADER = <<>>
    /\ live = {}
    /\ failed = [k \in 1 .. MaxCalls |-> {}]

-----------------------------------------------------------------------------
(***************************************************************************)
(* The caller, up to the call of addSecurityHeaders.                       *)
(***************************************************************************)
Begin(t) ==
    /\ stage = "idle"
    /\ calls < MaxCalls
    /\ calls' = calls + 1
    /\ stage' = "url"
    /\ type' = t
    /\ filled' = {}
    /\ nth' = 1
    /\ headers' = <<>>
    /\ UNCHANGED <<HTTPHEADER, live, failed>>

\* The content is copied and the URL set; either may fail.
SetUrl ==
    /\ stage = "url"
    /\ stage' \in {"encode", "free"}
    /\ UNCHANGED <<calls, type, filled, nth, headers, HTTPHEADER, live, failed>>

-----------------------------------------------------------------------------
(***************************************************************************)
(* addSecurityHeaders.                                                     *)
(***************************************************************************)
\* Data1 then Data2, in one try block; Data3 in the next.
Encode ==
    /\ stage = "encode"
    /\ filled' \in {{}, {"sstm"}, {"sstm", "public_key"}}
    /\ stage' = "hash"
    /\ UNCHANGED <<calls, type, nth, headers, HTTPHEADER, live, failed>>

Hash ==
    /\ stage = "hash"
    /\ filled' \in {filled, filled \cup {"token"}}
    /\ stage' = "append"
    /\ UNCHANGED <<calls, type, nth, headers, HTTPHEADER, live, failed>>

ContentType == IF type = "TYPE_WWW_FORM" THEN "form" ELSE "json"

Text ==
    CASE Order[nth] = "content-type" -> ContentType
      [] Order[nth] \in Encoded \ filled -> ""
      [] OTHER -> "filled"

NewNode == [by |-> calls, nth |-> nth, text |-> Text]

\* The append that returns NULL: the variable headers is assigned it.
KeepsTheList == headers
AssignsNull == <<>>

OneTooMany == nth <= Len(Order)
More == nth < Len(Order)

\* headers = curl_slist_append(headers, ...), five times.
AppendHeader ==
    /\ stage = "append"
    /\ \/ /\ headers' = Append(headers, NewNode)
          /\ live' = live \cup {NewNode}
          /\ UNCHANGED failed
       \/ /\ headers' = AssignsNull
          /\ failed' = [failed EXCEPT ![calls] = @ \cup {nth}]
          /\ UNCHANGED live
    /\ IF More
       THEN nth' = nth + 1 /\ UNCHANGED stage
       ELSE stage' = "attach" /\ UNCHANGED nth
    /\ UNCHANGED <<calls, type, filled, HTTPHEADER>>

-----------------------------------------------------------------------------
(***************************************************************************)
(* The caller, with the list.                                              *)
(***************************************************************************)
AttachUnlessNull == HTTPHEADER' = IF headers = <<>> THEN HTTPHEADER ELSE headers
Attach == HTTPHEADER' = headers

SetHeaders ==
    /\ stage = "attach"
    /\ \/ Attach /\ stage' = "options"
       \/ UNCHANGED HTTPHEADER /\ stage' = "free"
    /\ UNCHANGED <<calls, type, filled, nth, headers, live, failed>>

\* The options after the headers, up to curl_easy_perform.
SetOptions ==
    /\ stage = "options"
    /\ stage' \in {"transfer", "free"}
    /\ UNCHANGED <<calls, type, filled, nth, headers, HTTPHEADER, live, failed>>

PerformReturns ==
    /\ stage = "transfer"
    /\ stage' = "free"
    /\ UNCHANGED <<calls, type, filled, nth, headers, HTTPHEADER, live, failed>>

FreeFirstNode == live \ {n \in ToSet(headers) : n = headers[1]}
FreeAll == live \ ToSet(headers)

\* FreeHeader(headers), then the call returns.  mCurl keeps its pointer.
FreeHeader ==
    /\ stage = "free"
    /\ live' = FreeAll
    /\ headers' = <<>>
    /\ stage' = "idle"
    /\ UNCHANGED <<calls, type, filled, nth, HTTPHEADER, failed>>

-----------------------------------------------------------------------------
HeadersNext ==
    \/ \E t \in Types : Begin(t)
    \/ SetUrl \/ Encode \/ Hash \/ AppendHeader
    \/ SetHeaders \/ SetOptions \/ PerformReturns \/ FreeHeader

HeadersSpec == HeadersInit /\ [][HeadersNext]_headersVars

-----------------------------------------------------------------------------
(***************************************************************************)
(* Properties.                                                             *)
(***************************************************************************)
\* Types of the variables.
HeadersTypeOK ==
    /\ stage \in Stages
    /\ calls \in 0 .. MaxCalls
    /\ type \in Types
    /\ filled \subseteq Encoded
    /\ nth \in 1 .. Len(Order)
    /\ headers \in Seq(Node)
    /\ HTTPHEADER \in Seq(Node)
    /\ live \subseteq Node
    /\ failed \in [1 .. MaxCalls -> SUBSET (1 .. Len(Order))]

\* A header goes out exactly when no append from its own to the last failed:
\* a request can lose its first headers, never one in the middle.  The last to
\* stay is the content type the request was made with; when that is lost all
\* are, and libcurl sends a content type of its own, the one of a form.
SuffixIsSent ==
    stage = "transfer" =>
        /\ \A i \in 1 .. Len(Order) :
              (\E n \in ToSet(HTTPHEADER) : n.by = calls /\ n.nth = i)
                  <=> failed[calls] \cap i .. Len(Order) = {}
        /\ HTTPHEADER # <<>> =>
              Last(HTTPHEADER).text = [TYPE_JSON |-> "json", TYPE_WWW_FORM |-> "form"][type]

\* The list libcurl follows in a transfer is this call's and is allocated: no
\* pointer to a list that an earlier call freed is followed.
SentListIsLive ==
    stage = "transfer" =>
        \A n \in ToSet(HTTPHEADER) : n \in live /\ n.by = calls

\* Between calls the only nodes left are those that stood in the list when a
\* later append of the same call failed; a call without such a failure leaks
\* nothing, whichever way it ended.
OnlyFailedAppendsLeak ==
    stage = "idle" =>
        \A n \in live : \E j \in failed[n.by] : n.nth < j
=============================================================================
