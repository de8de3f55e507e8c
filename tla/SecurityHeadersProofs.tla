------------------------ MODULE SecurityHeadersProofs ------------------------
(***************************************************************************)
(* Theorems about what a request is signed with: the list of headers that  *)
(* addSecurityHeaders builds, for any number of requests, and the hash     *)
(* that its token header carries, for any block size above 9, any word and *)
(* any message that fits.                                                  *)
(***************************************************************************)
EXTENDS SecurityHeaders, Sha256Stream, SequenceTheorems, TLAPS

-----------------------------------------------------------------------------
(***************************************************************************)
(* The list of headers.  Appended is how many appends of the call are      *)
(* over once they have begun.                                              *)
(***************************************************************************)
Appended == IF stage = "append" THEN nth - 1 ELSE Len(Order)

Listed(i) == \E n \in ToSet(headers) : n.nth = i

\* A call is counted; before its appends its list is empty, and no append of
\* it or of a later call has failed.
Beginning ==
    /\ stage # "idle" => calls \in 1 .. MaxCalls
    /\ stage \in {"idle", "url", "encode", "hash"} => headers = <<>>
    /\ stage \in {"url", "encode", "hash"} => nth = 1 /\ failed[calls] = {}
    /\ \A k \in 1 .. MaxCalls : k > calls => failed[k] = {}

\* The list is the call's own, allocated, and ends in its content type.
OwnList ==
    \A n \in ToSet(headers) :
        /\ n \in live /\ n.by = calls
        /\ stage = "append" => n.nth < nth
        /\ n.nth = Len(Order) => n.text = ContentType

\* The list has what has been appended since the last failure.
SinceFailure ==
    stage \in {"append", "attach", "options", "transfer"} =>
        /\ failed[calls] \subseteq 1 .. Appended
        /\ \A i \in 1 .. Appended : Listed(i) <=> failed[calls] \cap i .. Appended = {}
        /\ headers # <<>> => Last(headers).nth = Appended

\* libcurl's pointer is the call's from the attaching to the transfer.
Attached == stage \in {"options", "transfer"} => HTTPHEADER = headers

\* A node is in the list or was lost by a later append.
ListedOrLost ==
    \A n \in live : n \in ToSet(headers) \/ \E j \in failed[n.by] : n.nth < j

HInv ==
    /\ HeadersTypeOK
    /\ Beginning
    /\ OwnList
    /\ SinceFailure
    /\ Attached
    /\ ListedOrLost

\* The empty list has no node.
LEMMA EmptyList == ToSet(<<>>) = {}
  BY DEF ToSet

\* An append adds its element to the list's, as its last.
LEMMA AppendFacts ==
  ASSUME NEW S, NEW s \in Seq(S), NEW e \in S
  PROVE  /\ Append(s, e) \in Seq(S) /\ Append(s, e) # <<>>
         /\ ToSet(Append(s, e)) = ToSet(s) \cup {e}
         /\ Last(Append(s, e)) = e
  <1> DEFINE t == Append(s, e)
  <1>1. /\ t \in Seq(S) /\ t # <<>>
        /\ Len(t) = Len(s) + 1 /\ Len(s) \in Nat
        /\ \A i \in 1 .. Len(s) : t[i] = s[i]
        /\ t[Len(s) + 1] = e
    BY AppendProperties
  <1> HIDE DEF t
  <1>2. DOMAIN t = 1 .. Len(s) + 1 /\ DOMAIN s = 1 .. Len(s)
    BY <1>1
  <1>3. ToSet(t) = ToSet(s) \cup {e}
    <2>1. ASSUME NEW x \in ToSet(t) PROVE x \in ToSet(s) \cup {e}
      BY <1>1, <1>2, <2>1 DEF ToSet
    <2>2. ASSUME NEW x \in ToSet(s) PROVE x \in ToSet(t)
      BY <1>1, <1>2, <2>2 DEF ToSet
    <2>3. e \in ToSet(t)
      BY <1>1, <1>2 DEF ToSet
    <2>4. QED
      BY <2>1, <2>2, <2>3
  <1>4. Last(t) = e
    BY <1>1 DEF Last
  <1>5. QED
    BY <1>1, <1>3, <1>4 DEF t

\* The five appends, the content type's last.
LEMMA OrderFacts ==
  /\ Len(Order) = 5
  /\ \A i \in 1 .. 5 : Order[i] = "content-type" <=> i = 5
  BY DEF Order

LEMMA HInvInit == HeadersInit => HInv
  BY EmptyList, OrderFacts, SecurityHeadersAssumption
  DEF HeadersInit, HInv, HeadersTypeOK, Beginning, OwnList, SinceFailure, Attached,
      ListedOrLost, Stages, Types

\* A node that is appended has a type, and the text of its place.
LEMMA NewNodeFacts ==
  ASSUME HInv, stage = "append"
  PROVE  /\ NewNode \in Node
         /\ NewNode.by = calls /\ NewNode.nth = nth
         /\ nth = Len(Order) => NewNode.text = ContentType
  <1>1. calls \in 1 .. MaxCalls /\ nth \in 1 .. Len(Order)
    BY DEF HInv, HeadersTypeOK, Beginning
  <1>2. Text \in Texts /\ (nth = Len(Order) => Text = ContentType)
    <2>1. nth = 5 <=> Order[nth] = "content-type"
      BY <1>1, OrderFacts
    <2>2. CASE nth = 5
      <3>1. Order[nth] = "content-type" /\ ~(Order[nth] \in Encoded \ filled)
        BY <2>1, <2>2 DEF Encoded
      <3>2. Text = ContentType
        BY <3>1 DEF Text
      <3>3. QED
        BY <3>2 DEF Texts, ContentType
    <2>3. CASE nth # 5
      <3>1. Order[nth] # "content-type"
        BY <2>1, <2>3
      <3>2. Text \in {"", "filled"}
        BY <3>1 DEF Text
      <3>3. QED
        BY <2>3, <3>2, OrderFacts DEF Texts
    <2>4. QED
      BY <2>2, <2>3
  <1>3. QED
    BY <1>1, <1>2 DEF NewNode, Node

\* An append that works adds its node to the list.
LEMMA AppendWorks ==
  ASSUME HInv, AppendHeader, headers' = Append(headers, NewNode),
         live' = live \cup {NewNode}, failed' = failed
  PROVE  HInv'
  <1>1. /\ headers \in Seq(Node) /\ calls \in 1 .. MaxCalls /\ nth \in 1 .. 5
        /\ live \subseteq Node /\ stage = "append"
        /\ failed \in [1 .. MaxCalls -> SUBSET (1 .. 5)]
    BY OrderFacts DEF HInv, HeadersTypeOK, Beginning, AppendHeader
  <1>2. /\ NewNode \in Node /\ NewNode.by = calls /\ NewNode.nth = nth
        /\ nth = 5 => NewNode.text = ContentType
    BY <1>1, NewNodeFacts, OrderFacts
  <1>3. /\ headers' \in Seq(Node) /\ headers' # <<>>
        /\ ToSet(headers') = ToSet(headers) \cup {NewNode}
        /\ Last(headers') = NewNode
    BY <1>1, <1>2, AppendFacts
  <1>4. /\ calls' = calls /\ type' = type /\ filled' = filled /\ HTTPHEADER' = HTTPHEADER
        /\ \/ nth < 5 /\ nth' = nth + 1 /\ stage' = "append"
           \/ nth = 5 /\ nth' = nth /\ stage' = "attach"
    BY <1>1, OrderFacts DEF AppendHeader, More
  <1>5. ContentType' = ContentType
    BY <1>4 DEF ContentType
  <1>6. HeadersTypeOK'
    BY <1>1, <1>2, <1>3, <1>4, OrderFacts DEF HInv, HeadersTypeOK, Stages
  <1>7. Beginning'
    BY <1>1, <1>4 DEF HInv, Beginning
  <1>8. OwnList'
    <2> SUFFICES ASSUME NEW n \in ToSet(headers')
                 PROVE  /\ n \in live' /\ n.by = calls'
                        /\ stage' = "append" => n.nth < nth'
                        /\ n.nth = 5 => n.text = ContentType'
      BY OrderFacts DEF OwnList
    <2>1. CASE n = NewNode
      BY <1>1, <1>2, <1>4, <1>5, <2>1
    <2>2. CASE n \in ToSet(headers)
      <3>1. /\ n \in live /\ n.by = calls /\ n.nth < nth
            /\ n.nth = 5 => n.text = ContentType
        BY <1>1, <2>2, OrderFacts DEF HInv, OwnList
      <3>2. n.nth \in Nat
        BY <1>1, <3>1, OrderFacts DEF Node
      <3>3. QED
        BY <1>1, <1>4, <1>5, <3>1, <3>2
    <2>3. QED
      BY <1>3, <2>1, <2>2
  <1>9. Appended = nth - 1 /\ Appended' = nth
    BY <1>1, <1>4, OrderFacts DEF Appended
  <1>10. SinceFailure'
    <2>1. /\ failed[calls] \subseteq 1 .. nth - 1
          /\ \A i \in 1 .. nth - 1 : Listed(i) <=> failed[calls] \cap i .. nth - 1 = {}
      BY <1>1, <1>9 DEF HInv, SinceFailure
    <2>2. failed[calls] \subseteq 1 .. nth
      BY <1>1, <2>1
    <2>3. ASSUME NEW i \in 1 .. nth
          PROVE  Listed(i)' <=> failed[calls] \cap i .. nth = {}
      <3>1. CASE i = nth
        BY <1>1, <1>2, <1>3, <2>1, <3>1 DEF Listed
      <3>2. CASE i # nth
        <4>1. i \in 1 .. nth - 1
          BY <1>1, <3>2
        <4>2. Listed(i)' <=> Listed(i)
          BY <1>2, <1>3, <3>2 DEF Listed
        <4>3. failed[calls] \cap i .. nth = failed[calls] \cap i .. nth - 1
          BY <1>1, <2>1
        <4>4. QED
          BY <2>1, <4>1, <4>2, <4>3
      <3>3. QED
        BY <3>1, <3>2
    <2>4. QED
      BY <1>2, <1>3, <1>4, <1>9, <2>2, <2>3 DEF SinceFailure
  <1>11. Attached'
    BY <1>4 DEF Attached
  <1>12. ListedOrLost'
    BY <1>3 DEF HInv, ListedOrLost
  <1>13. QED
    BY <1>6, <1>7, <1>8, <1>10, <1>11, <1>12 DEF HInv

\* An append that fails loses the list so far.
LEMMA AppendFails ==
  ASSUME HInv, AppendHeader, headers' = <<>>, live' = live,
         failed' = [failed EXCEPT ![calls] = @ \cup {nth}]
  PROVE  HInv'
  <1>1. /\ headers \in Seq(Node) /\ calls \in 1 .. MaxCalls /\ nth \in 1 .. 5
        /\ live \subseteq Node /\ stage = "append"
        /\ failed \in [1 .. MaxCalls -> SUBSET (1 .. 5)]
    BY OrderFacts DEF HInv, HeadersTypeOK, Beginning, AppendHeader
  <1>2. /\ calls' = calls /\ type' = type /\ filled' = filled /\ HTTPHEADER' = HTTPHEADER
        /\ \/ nth < 5 /\ nth' = nth + 1 /\ stage' = "append"
           \/ nth = 5 /\ nth' = nth /\ stage' = "attach"
    BY <1>1, OrderFacts DEF AppendHeader, More
  <1>3. /\ failed'[calls] = failed[calls] \cup {nth}
        /\ \A k \in 1 .. MaxCalls : k # calls => failed'[k] = failed[k]
        /\ failed' \in [1 .. MaxCalls -> SUBSET (1 .. 5)]
    BY <1>1
  <1>4. HeadersTypeOK'
    BY <1>1, <1>2, <1>3, OrderFacts DEF HInv, HeadersTypeOK, Stages
  <1>5. Beginning'
    BY <1>1, <1>2, <1>3 DEF HInv, Beginning
  <1>6. OwnList'
    BY EmptyList DEF OwnList
  <1>7. Appended = nth - 1 /\ Appended' = nth
    BY <1>1, <1>2, OrderFacts DEF Appended
  <1>8. SinceFailure'
    <2>1. failed[calls] \subseteq 1 .. nth - 1
      BY <1>1, <1>7 DEF HInv, SinceFailure
    <2>2. \A i \in 1 .. nth : nth \in failed'[calls] \cap i .. nth
      BY <1>1, <1>3
    <2>3. \A i : ~Listed(i)'
      BY EmptyList DEF Listed
    <2>4. failed'[calls] \subseteq 1 .. nth
      BY <1>1, <1>3, <2>1
    <2>5. QED
      BY <1>2, <1>7, <2>2, <2>3, <2>4 DEF SinceFailure
  <1>9. Attached'
    BY <1>2 DEF Attached
  <1>10. ListedOrLost'
    <2>1. ASSUME NEW n \in live PROVE \E j \in failed'[n.by] : n.nth < j
      <3>1. n.by \in 1 .. MaxCalls
        BY <1>1 DEF Node
      <3>2. CASE n \in ToSet(headers)
        <4>1. n.by = calls /\ n.nth < nth
          BY <1>1, <3>2 DEF HInv, OwnList
        <4>2. QED
          BY <1>3, <4>1
      <3>3. CASE \E j \in failed[n.by] : n.nth < j
        BY <1>3, <3>1, <3>3
      <3>4. QED
        BY <3>2, <3>3 DEF HInv, ListedOrLost
    <2>2. QED
      BY <2>1 DEF ListedOrLost
  <1>11. QED
    BY <1>4, <1>5, <1>6, <1>8, <1>9, <1>10 DEF HInv

\* The steps that leave the list and its nodes alone.
LEMMA KeepsList ==
  ASSUME HInv, SetUrl \/ Encode \/ Hash \/ SetHeaders \/ SetOptions \/ PerformReturns
  PROVE  HInv'
  <1>1. /\ calls' = calls /\ type' = type /\ nth' = nth /\ headers' = headers
        /\ live' = live /\ failed' = failed
    BY DEF SetUrl, Encode, Hash, SetHeaders, SetOptions, PerformReturns, Attach
  <1>2. HeadersTypeOK'
    BY DEF HInv, HeadersTypeOK, SetUrl, Encode, Hash, SetHeaders, SetOptions,
       PerformReturns, Attach, Stages, Encoded
  <1>3. Beginning'
    BY <1>1 DEF HInv, Beginning, SetUrl, Encode, Hash, SetHeaders, SetOptions, PerformReturns
  <1>4. OwnList'
    <2>1. ContentType' = ContentType
      BY <1>1 DEF ContentType
    <2>2. CASE stage' = "append"
      <3>1. headers = <<>>
        BY <2>2 DEF HInv, Beginning, SetUrl, Encode, Hash, SetHeaders, SetOptions,
           PerformReturns
      <3>2. QED
        BY <1>1, <3>1, EmptyList DEF OwnList
    <2>3. QED
      BY <1>1, <2>1, <2>2 DEF HInv, OwnList
  <1>5. SinceFailure'
    <2>1. CASE stage' = "append"
      <3>1. headers = <<>> /\ nth = 1 /\ failed[calls] = {}
        BY <2>1 DEF HInv, Beginning, SetUrl, Encode, Hash, SetHeaders, SetOptions,
           PerformReturns
      <3>2. Appended' = 0
        BY <1>1, <2>1, <3>1 DEF Appended
      <3>3. QED
        BY <1>1, <3>1, <3>2 DEF SinceFailure
    <2>2. CASE stage' \in {"attach", "options", "transfer"}
      <3>1. stage \in {"attach", "options", "transfer"}
        BY <2>2 DEF SetUrl, Encode, Hash, SetHeaders, SetOptions, PerformReturns
      <3>2. Appended' = Appended /\ \A i : Listed(i)' <=> Listed(i)
        BY <1>1, <2>2, <3>1 DEF Appended, Listed
      <3>3. QED
        BY <1>1, <3>1, <3>2 DEF HInv, SinceFailure
    <2>3. QED
      BY <2>1, <2>2 DEF SinceFailure
  <1>6. Attached'
    BY <1>1 DEF HInv, Attached, SetUrl, Encode, Hash, SetHeaders, SetOptions,
       PerformReturns, Attach
  <1>7. ListedOrLost'
    BY <1>1 DEF HInv, ListedOrLost
  <1>8. QED
    BY <1>2, <1>3, <1>4, <1>5, <1>6, <1>7 DEF HInv

\* A call begins with no list.
LEMMA BeginStep ==
  ASSUME HInv, NEW t \in Types, Begin(t)
  PROVE  HInv'
  <1>1. /\ stage = "idle" /\ stage' = "url" /\ calls' = calls + 1 /\ calls < MaxCalls
        /\ type' = t /\ filled' = {} /\ nth' = 1 /\ headers' = <<>> /\ headers = <<>>
        /\ HTTPHEADER' = HTTPHEADER /\ live' = live /\ failed' = failed
    BY DEF Begin, HInv, Beginning
  <1>2. calls \in 0 .. MaxCalls /\ calls + 1 \in 1 .. MaxCalls
    BY <1>1, SecurityHeadersAssumption DEF HInv, HeadersTypeOK
  <1>3. HeadersTypeOK'
    BY <1>1, <1>2, OrderFacts, SecurityHeadersAssumption DEF HInv, HeadersTypeOK, Stages
  <1>4. Beginning'
    BY <1>1, <1>2 DEF HInv, Beginning
  <1>5. OwnList'
    BY <1>1, EmptyList DEF OwnList
  <1>6. SinceFailure' /\ Attached'
    BY <1>1 DEF SinceFailure, Attached
  <1>7. ListedOrLost'
    BY <1>1 DEF HInv, ListedOrLost
  <1>8. QED
    BY <1>3, <1>4, <1>5, <1>6, <1>7 DEF HInv

\* Freeing frees what is listed and keeps what was lost.
LEMMA FreeHeaderStep ==
  ASSUME HInv, FreeHeader
  PROVE  HInv'
  <1>1. /\ stage = "free" /\ stage' = "idle" /\ headers' = <<>>
        /\ live' = live \ ToSet(headers)
        /\ calls' = calls /\ type' = type /\ filled' = filled /\ nth' = nth
        /\ HTTPHEADER' = HTTPHEADER /\ failed' = failed
    BY DEF FreeHeader, FreeAll
  <1>2. HeadersTypeOK'
    BY <1>1 DEF HInv, HeadersTypeOK, Stages
  <1>3. Beginning'
    BY <1>1 DEF HInv, Beginning
  <1>4. OwnList'
    BY <1>1, EmptyList DEF OwnList
  <1>5. SinceFailure' /\ Attached'
    BY <1>1 DEF SinceFailure, Attached
  <1>6. ListedOrLost'
    BY <1>1 DEF HInv, ListedOrLost
  <1>7. QED
    BY <1>2, <1>3, <1>4, <1>5, <1>6 DEF HInv

LEMMA HInvNext == HInv /\ [HeadersNext]_headersVars => HInv'
  <1> SUFFICES ASSUME HInv, [HeadersNext]_headersVars PROVE HInv'
    OBVIOUS
  <1>1. ASSUME NEW t \in Types, Begin(t) PROVE HInv'
    BY <1>1, BeginStep
  <1>2. CASE SetUrl \/ Encode \/ Hash \/ SetHeaders \/ SetOptions \/ PerformReturns
    BY <1>2, KeepsList
  <1>3. CASE AppendHeader
    BY <1>3, AppendWorks, AppendFails DEF AppendHeader, AssignsNull
  <1>4. CASE FreeHeader
    BY <1>4, FreeHeaderStep
  <1>5. CASE UNCHANGED headersVars
    BY <1>5 DEF headersVars, HInv, HeadersTypeOK, Beginning, OwnList, SinceFailure,
       Attached, ListedOrLost, Appended, Listed, ContentType
  <1>6. QED
    BY <1>1, <1>2, <1>3, <1>4, <1>5 DEF HeadersNext

LEMMA HInvAlways == HeadersSpec => []HInv
  BY HInvInit, HInvNext, PTL DEF HeadersSpec

\* The variables of SecurityHeaders keep their types.
THEOREM HeadersTypeCorrect == HeadersSpec => []HeadersTypeOK
  <1>1. HInv => HeadersTypeOK
    BY DEF HInv
  <1>2. QED
    BY <1>1, HInvAlways, PTL

\* A transfer sends the headers whose appends, and all after them, worked; the
\* last of them is the content type that was asked for.
THEOREM HeadersSent == HeadersSpec => []SuffixIsSent
  <1>1. HInv => SuffixIsSent
    <2> SUFFICES ASSUME HInv, stage = "transfer"
                 PROVE  /\ \A i \in 1 .. Len(Order) :
                              (\E n \in ToSet(HTTPHEADER) : n.by = calls /\ n.nth = i)
                                  <=> failed[calls] \cap i .. Len(Order) = {}
                        /\ HTTPHEADER # <<>> =>
                              Last(HTTPHEADER).text =
                                  [TYPE_JSON |-> "json", TYPE_WWW_FORM |-> "form"][type]
      BY DEF SuffixIsSent
    <2>1. HTTPHEADER = headers /\ Appended = Len(Order)
      BY DEF HInv, Attached, Appended
    <2>2. \A n \in ToSet(headers) : n.by = calls
      BY DEF HInv, OwnList
    <2>3. \A i \in 1 .. Len(Order) :
              Listed(i) <=> failed[calls] \cap i .. Len(Order) = {}
      BY <2>1 DEF HInv, SinceFailure
    <2>4. ASSUME headers # <<>> PROVE Last(headers).text = ContentType
      <3>1. Last(headers) \in ToSet(headers)
        <4>1. headers \in Seq(Node) /\ Len(headers) \in DOMAIN headers
          BY <2>4, EmptySeq, LenProperties DEF HInv, HeadersTypeOK
        <4>2. QED
          BY <4>1 DEF Last, ToSet
      <3>2. Last(headers).nth = Len(Order)
        BY <2>1, <2>4 DEF HInv, SinceFailure
      <3>3. QED
        BY <3>1, <3>2 DEF HInv, OwnList
    <2>5. ContentType = [TYPE_JSON |-> "json", TYPE_WWW_FORM |-> "form"][type]
      BY DEF HInv, HeadersTypeOK, Types, ContentType
    <2>6. QED
      BY <2>1, <2>2, <2>3, <2>4, <2>5 DEF Listed
  <1>2. QED
    BY <1>1, HInvAlways, PTL

\* No transfer follows a pointer to a freed list.
THEOREM ListOutlivesTransfer == HeadersSpec => []SentListIsLive
  <1>1. HInv => SentListIsLive
    BY DEF HInv, Attached, OwnList, SentListIsLive
  <1>2. QED
    BY <1>1, HInvAlways, PTL

\* What leaks is what a failed append made the code forget.
THEOREM LeaksAreLostLists == HeadersSpec => []OnlyFailedAppendsLeak
  <1>1. HInv => OnlyFailedAppendsLeak
    BY EmptyList DEF HInv, Beginning, ListedOrLost, OnlyFailedAppendsLeak
  <1>2. QED
    BY <1>1, HInvAlways, PTL

-----------------------------------------------------------------------------
(***************************************************************************)
(* The hash.                                                               *)
(***************************************************************************)
\* The types that the buffer and the counters of SHA256 keep.
Typed ==
    /\ m_block = [i \in Buffer |-> m_block[i]]
    /\ finished \in BOOLEAN
    /\ m_len \in 0 .. BLOCK - 1
    /\ total \in 0 .. MaxTotal
    /\ m_tot_len \in 0 .. WORD - 1

\* While the message grows: what has been transformed is its beginning, what
\* waits in the buffer the rest, and the two lengths say so.
Streaming ==
    /\ m_len <= total
    /\ m_tot_len = total - m_len
    /\ hashed = Message(0, total - m_len)
    /\ \A i \in 0 .. m_len - 1 : m_block[i] = Byte(total - m_len + i)

IInv == Typed /\ (~finished => Streaming)

-----------------------------------------------------------------------------
Bytes == {Byte(k) : k \in Nat}

LEMMA MessageType ==
  ASSUME NEW a \in Nat, NEW b \in Nat, a <= b
  PROVE  Message(a, b) \in Seq(Bytes) /\ Len(Message(a, b)) = b - a
  <1>1. b - a \in Nat
    OBVIOUS
  <1>2. ASSUME NEW i \in 1 .. b - a
        PROVE  Byte(a + i - 1) \in Bytes
    <2>1. a + i - 1 \in Nat
      OBVIOUS
    <2>2. QED
      BY <2>1 DEF Bytes
  <1>3. Message(a, b) \in [1 .. b - a -> Bytes]
    BY <1>2 DEF Message
  <1>4. Message(a, b) \in Seq(Bytes)
    BY <1>1, <1>3, SeqDef
  <1>5. QED
    BY <1>1, <1>3, <1>4, LenProperties

\* Adjacent pieces of the message make one.
LEMMA MessageConcat ==
  ASSUME NEW a \in Nat, NEW b \in Nat, NEW c \in Nat, a <= b, b <= c
  PROVE  Message(a, b) \o Message(b, c) = Message(a, c)
  <1>1. /\ Message(a, b) \in Seq(Bytes) /\ Len(Message(a, b)) = b - a
        /\ Message(b, c) \in Seq(Bytes) /\ Len(Message(b, c)) = c - b
        /\ Message(a, c) \in Seq(Bytes) /\ Len(Message(a, c)) = c - a
    <2>1. a <= c
      OBVIOUS
    <2>2. QED
      BY <2>1, MessageType
  <1> DEFINE both == Message(a, b) \o Message(b, c)
  <1>2. /\ both \in Seq(Bytes) /\ Len(both) = c - a
        /\ \A i \in 1 .. c - a : both[i] =
               IF i <= b - a THEN Message(a, b)[i] ELSE Message(b, c)[i - (b - a)]
    <2>1. Len(Message(a, b)) + Len(Message(b, c)) = c - a
      <3>1. (b - a) + (c - b) = c - a
        OBVIOUS
      <3>2. QED
        BY <1>1, <3>1
    <2>2. /\ both \in Seq(Bytes) /\ Len(both) = Len(Message(a, b)) + Len(Message(b, c))
          /\ \A i \in 1 .. Len(Message(a, b)) + Len(Message(b, c)) : both[i] =
                 IF i <= Len(Message(a, b)) THEN Message(a, b)[i]
                 ELSE Message(b, c)[i - Len(Message(a, b))]
      BY <1>1, ConcatProperties
    <2>3. QED
      BY <1>1, <2>1, <2>2
  <1> HIDE DEF both
  <1>3. ASSUME NEW i \in 1 .. c - a
        PROVE  (IF i <= b - a THEN Message(a, b)[i] ELSE Message(b, c)[i - (b - a)])
               = Byte(a + i - 1)
    <2>1. CASE i <= b - a
      BY <2>1 DEF Message
    <2>2. CASE ~(i <= b - a)
      <3>1. i - (b - a) \in 1 .. c - b
        BY <2>2
      <3>2. b + (i - (b - a)) - 1 = a + i - 1
        BY <2>2
      <3>3. QED
        BY <2>2, <3>1, <3>2 DEF Message
    <2>3. QED
      BY <2>1, <2>2
  <1>4. \A i \in 1 .. c - a : both[i] = Message(a, c)[i]
    BY <1>2, <1>3 DEF Message
  <1>5. both = Message(a, c)
    BY <1>1, <1>2, <1>4, SeqEqual
  <1>6. QED
    BY <1>5 DEF both

\* Cells that hold consecutive bytes are a piece of the message.
LEMMA CellsAreMessage ==
  ASSUME NEW block, NEW from \in Nat, NEW n \in Nat,
         \A i \in 0 .. n - 1 : block[i] = Byte(from + i)
  PROVE  Cells(block, 0, n) = Message(from, from + n)
  <1>1. (from + n) - from = n /\ n - 0 = n
    OBVIOUS
  <1>2. ASSUME NEW i \in 1 .. n
        PROVE  block[0 + i - 1] = Byte(from + i - 1)
    <2>1. i - 1 \in 0 .. n - 1
      OBVIOUS
    <2>2. 0 + i - 1 = i - 1 /\ from + (i - 1) = from + i - 1
      OBVIOUS
    <2>3. QED
      BY <2>1, <2>2
  <1>3. QED
    BY <1>1, <1>2 DEF Cells, Message

\* Products of naturals, in the form the block arithmetic needs.
LEMMA Products ==
  ASSUME NEW q \in Nat, NEW b \in Nat
  PROVE  q * b \in Nat /\ q * b = b * q /\ (q + 1) * b = q * b + b
  OBVIOUS

\* The length of what is left splits into whole blocks and less than one.
LEMMA Division ==
  ASSUME NEW n \in Nat
  PROVE  /\ n \div BLOCK \in Nat
         /\ n % BLOCK \in 0 .. BLOCK - 1
         /\ (n \div BLOCK) * BLOCK \in Nat
         /\ n = (n \div BLOCK) * BLOCK + (n % BLOCK)
  <1>1. BLOCK \in Nat /\ BLOCK > 0
    BY Sha256Assumption
  <1>2. n \div BLOCK \in Nat /\ n % BLOCK \in 0 .. BLOCK - 1
    BY <1>1
  <1>3. (n \div BLOCK) * BLOCK \in Nat
    BY <1>1, <1>2, Products
  <1>4. n = (n \div BLOCK) * BLOCK + (n % BLOCK)
    BY <1>1
  <1>5. QED
    BY <1>2, <1>3, <1>4

\* A number below the word's size is its own remainder.
LEMMA SmallModulo ==
  ASSUME NEW n \in Nat, n < WORD
  PROVE  n % WORD = n
  BY Sha256Assumption

-----------------------------------------------------------------------------
LEMMA IInvInit == Init => IInv
  <1> SUFFICES ASSUME Init PROVE IInv
    OBVIOUS
  <1>1. Typed
    <2>1. 0 \in 0 .. BLOCK - 1 /\ 0 \in 0 .. WORD - 1 /\ 0 \in 0 .. MaxTotal
      BY Sha256Assumption
    <2>2. m_block = [i \in Buffer |-> m_block[i]]
      BY DEF Init
    <2>3. QED
      BY <2>1, <2>2 DEF Init, Typed
  <1>2. Message(0, 0) = <<>>
    BY DEF Message
  <1>3. Streaming
    BY <1>2 DEF Init, Streaming
  <1>4. QED
    BY <1>1, <1>3 DEF IInv

\* What the invariant says while the message grows.
LEMMA Known ==
  ASSUME IInv, ~finished
  PROVE  Streaming /\ m_len \in Nat /\ total \in Nat /\ m_len < BLOCK /\ m_len <= total
  <1>1. Typed /\ Streaming
    BY DEF IInv
  <1>2. m_len \in 0 .. BLOCK - 1 /\ BLOCK \in Nat
    BY <1>1, Sha256Assumption DEF Typed
  <1>3. m_len \in Nat /\ m_len < BLOCK
    BY <1>2
  <1>4. total \in Nat
    BY <1>1, Sha256Assumption DEF Typed
  <1>5. QED
    BY <1>1, <1>3, <1>4 DEF Streaming

\* An update that does not fill the block keeps the invariant.
LEMMA CollectStep ==
  ASSUME IInv, NEW len \in Nat, Update(len), Fits(len)
  PROVE  IInv'
  <1>1. /\ ~finished /\ ~finished' /\ total' = total + len /\ total + len <= MaxTotal
        /\ m_block' = Copy(m_block, m_len, total, len)
        /\ m_len' = m_len + len /\ m_len + len < BLOCK
        /\ m_tot_len' = m_tot_len /\ hashed' = hashed
    BY DEF Update, Fits, Collect, IInv, Typed
  <1>2. /\ m_len \in Nat /\ total \in Nat /\ m_tot_len \in 0 .. WORD - 1
        /\ m_len + len \in Nat /\ total + len \in Nat
        /\ Streaming
    BY <1>1, Sha256Assumption DEF IInv, Typed
  <1>3. Typed'
    <2>1. m_block' = [i \in Buffer |-> m_block'[i]]
      BY <1>1 DEF Copy
    <2>2. m_len' \in 0 .. BLOCK - 1 /\ total' \in 0 .. MaxTotal
      BY <1>1, <1>2, Sha256Assumption
    <2>3. finished' \in BOOLEAN /\ m_tot_len' \in 0 .. WORD - 1
      <3>1. finished' = FALSE
        BY <1>1
      <3>2. QED
        BY <1>1, <1>2, <3>1
    <2>4. QED
      BY <2>1, <2>2, <2>3 DEF Typed
  <1>4. total' - m_len' = total - m_len /\ m_len' <= total'
    BY <1>1, <1>2 DEF Streaming
  <1>5. ASSUME NEW i \in 0 .. m_len' - 1
        PROVE  m_block'[i] = Byte(total' - m_len' + i)
    <2>1. i \in Nat /\ i < m_len + len /\ i \in Buffer
      BY <1>1, <1>2, Sha256Assumption DEF Buffer
    <2>2. CASE i < m_len
      BY <1>1, <1>2, <1>4, <2>1, <2>2 DEF Copy, Streaming
    <2>3. CASE m_len <= i
      <3>1. m_block'[i] = Byte(total + i - m_len)
        BY <1>1, <2>1, <2>3 DEF Copy
      <3>2. total + i - m_len = total - m_len + i
        BY <1>2, <2>1
      <3>3. QED
        BY <1>4, <3>1, <3>2
    <2>4. QED
      BY <1>2, <2>1, <2>2, <2>3
  <1>6. QED
    BY <1>1, <1>2, <1>3, <1>4, <1>5 DEF IInv, Streaming

\* An update that fills the block, transforms it and every whole block after
\* it, and keeps the rest, keeps the invariant.
LEMMA TransformStep ==
  ASSUME IInv, NEW len \in Nat, Update(len), ~Fits(len)
  PROVE  IInv'
  <1> DEFINE rem     == BLOCK - m_len
             left    == len - rem
             kept    == left % BLOCK
             blocks  == left \div BLOCK
             whole   == blocks * BLOCK
             shifted == total + rem
             first   == Copy(m_block, m_len, total, rem)
  <1>1. /\ ~finished /\ finished' = FALSE /\ total' = total + len /\ total + len <= MaxTotal
        /\ hashed' = hashed \o Cells(first, 0, BLOCK) \o Message(shifted, shifted + whole)
        /\ m_block' = Copy(first, 0, shifted + whole, kept)
        /\ m_len' = kept
        /\ m_tot_len' = (m_tot_len + (blocks + 1) * BLOCK) % WORD
    BY DEF Update, Transform, IInv, Typed
  <1>2. Streaming /\ m_len \in Nat /\ total \in Nat /\ m_len < BLOCK /\ m_len <= total
    BY <1>1, Known
  <1>3. BLOCK \in Nat /\ WORD \in Nat /\ MaxTotal \in Nat /\ MaxTotal < WORD
    BY Sha256Assumption
  <1>4. m_len + len >= BLOCK
    BY <1>2, <1>3 DEF Fits
  <1>5. rem \in Nat /\ left \in Nat /\ shifted \in Nat
    BY <1>2, <1>3, <1>4
  <1>6. blocks \in Nat /\ kept \in 0 .. BLOCK - 1 /\ whole \in Nat /\ left = whole + kept
    <2> HIDE DEF left
    <2>1. QED
      BY <1>5, Division
  <1>7. (blocks + 1) * BLOCK = whole + BLOCK
    BY <1>3, <1>6, Products
  <1> HIDE DEF kept, blocks, whole
  <1>8. /\ total + len = shifted + whole + kept
        /\ (total + len) - kept = shifted + whole
        /\ kept <= total + len
    <2>1. total + len = shifted + left
      BY <1>2, <1>3
    <2>2. QED
      BY <1>2, <1>5, <1>6, <2>1
  <1>9. \A i \in 0 .. BLOCK - 1 : first[i] = Byte((total - m_len) + i)
    <2> SUFFICES ASSUME NEW i \in 0 .. BLOCK - 1
                 PROVE  first[i] = Byte((total - m_len) + i)
      OBVIOUS
    <2>1. i \in Buffer /\ i \in Nat /\ i < BLOCK /\ m_len + rem = BLOCK
      BY <1>2, <1>3 DEF Buffer
    <2>2. CASE i < m_len
      <3>1. first[i] = m_block[i]
        BY <1>2, <2>1, <2>2 DEF Copy
      <3>2. i \in 0 .. m_len - 1
        BY <1>2, <2>1, <2>2
      <3>3. QED
        BY <1>2, <3>1, <3>2 DEF Streaming
    <2>3. CASE m_len <= i
      <3>1. first[i] = Byte(total + i - m_len)
        BY <2>1, <2>3 DEF Copy
      <3>2. total + i - m_len = (total - m_len) + i
        BY <1>2, <2>1
      <3>3. QED
        BY <3>1, <3>2
    <2>4. QED
      BY <1>2, <2>1, <2>2, <2>3
  <1>10. hashed' = Message(0, shifted + whole)
    <2>1. total - m_len \in Nat /\ (total - m_len) + BLOCK = shifted
      BY <1>2, <1>3
    <2>2. Cells(first, 0, BLOCK) = Message(total - m_len, shifted)
      <3> HIDE DEF first, shifted
      <3>1. Cells(first, 0, BLOCK) = Message(total - m_len, (total - m_len) + BLOCK)
        BY <1>3, <1>9, <2>1, CellsAreMessage, Zenon
      <3>2. QED
        BY <2>1, <3>1
    <2>3. Message(0, total - m_len) \o Message(total - m_len, shifted) = Message(0, shifted)
      <3>1. 0 \in Nat /\ 0 <= total - m_len /\ total - m_len <= shifted
        BY <1>2, <1>3, <2>1
      <3>2. QED
        BY <1>5, <2>1, <3>1, MessageConcat, Zenon
    <2>4. Message(0, shifted) \o Message(shifted, shifted + whole) = Message(0, shifted + whole)
      <3> HIDE DEF shifted
      <3>1. shifted + whole \in Nat /\ 0 \in Nat /\ 0 <= shifted /\ shifted <= shifted + whole
        BY <1>5, <1>6
      <3>2. QED
        BY <1>5, <3>1, MessageConcat, Zenon
    <2>5. hashed = Message(0, total - m_len)
      BY <1>2 DEF Streaming
    <2>6. QED
      BY <1>1, <2>2, <2>3, <2>4, <2>5
  <1>11. ASSUME NEW i \in 0 .. kept - 1
         PROVE  m_block'[i] = Byte(shifted + whole + i)
    <2>1. i \in Buffer /\ i \in Nat /\ i < kept
      BY <1>3, <1>6 DEF Buffer
    <2>2. m_block'[i] = Byte(shifted + whole + i - 0)
      <3>1. i \in Buffer /\ 0 <= i /\ i < 0 + kept
        BY <1>6, <2>1
      <3> HIDE DEF shifted, first
      <3>2. QED
        BY <1>1, <3>1 DEF Copy
    <2>3. shifted + whole + i - 0 = shifted + whole + i
      BY <1>5, <1>6, <2>1
    <2>4. QED
      BY <2>2, <2>3
  <1>12. m_tot_len' = shifted + whole
    <2>1. m_tot_len = total - m_len
      BY <1>2 DEF Streaming
    <2>2. m_tot_len + (whole + BLOCK) = shifted + whole
      BY <1>2, <1>3, <1>6, <2>1
    <2>3. shifted + whole \in Nat /\ shifted + whole < WORD
      BY <1>1, <1>2, <1>3, <1>5, <1>6, <1>8
    <2>4. QED
      BY <1>1, <1>7, <2>2, <2>3, SmallModulo
  <1>13. Typed'
    <2>1. m_block' = [i \in Buffer |-> m_block'[i]]
      BY <1>1 DEF Copy
    <2>2. m_len' \in 0 .. BLOCK - 1
      BY <1>1, <1>6
    <2>3. total' \in 0 .. MaxTotal
      BY <1>1, <1>2, <1>3
    <2>4. m_tot_len' \in 0 .. WORD - 1
      <3>1. shifted + whole <= total + len
        BY <1>2, <1>5, <1>6, <1>8
      <3>2. QED
        BY <1>1, <1>2, <1>3, <1>5, <1>6, <1>12, <3>1
    <2>5. finished' \in BOOLEAN
      BY <1>1
    <2>6. QED
      BY <2>1, <2>2, <2>3, <2>4, <2>5 DEF Typed
  <1>14. Streaming'
    <2>1. total' - m_len' = shifted + whole /\ m_len' <= total'
      BY <1>1, <1>8
    <2>2. QED
      BY <1>1, <1>10, <1>11, <1>12, <2>1 DEF Streaming
  <1>15. QED
    BY <1>13, <1>14 DEF IInv

LEMMA IInvNext == IInv /\ [Next]_vars => IInv'
  <1> SUFFICES ASSUME IInv, [Next]_vars PROVE IInv'
    OBVIOUS
  <1>1. CASE UNCHANGED vars
    BY <1>1 DEF IInv, Typed, Streaming, vars
  <1>2. ASSUME NEW len \in 0 .. MaxUpdate, Update(len)
        PROVE  IInv'
    <2>1. len \in Nat
      BY Sha256Assumption
    <2>2. QED
      BY <1>2, <2>1, CollectStep, TransformStep
  <1>3. CASE Final
    <2>1. /\ finished' /\ m_len' = m_len /\ total' = total /\ m_tot_len' = m_tot_len
          /\ m_block' = [i \in Buffer |-> m_block'[i]]
      BY <1>3 DEF Final
    <2>2. QED
      BY <2>1 DEF IInv, Typed
  <1>4. CASE Reset
    <2>1. Message(0, 0) = <<>>
      BY DEF Message
    <2>2. 0 \in 0 .. BLOCK - 1 /\ 0 \in 0 .. WORD - 1 /\ 0 \in 0 .. MaxTotal
      BY Sha256Assumption
    <2>3. /\ m_len' = 0 /\ m_tot_len' = 0 /\ hashed' = <<>> /\ total' = 0
          /\ finished' = FALSE /\ m_block' = m_block
      BY <1>4 DEF Reset
    <2>4. Typed'
      BY <2>2, <2>3 DEF IInv, Typed
    <2>5. Streaming'
      BY <2>1, <2>3 DEF Streaming
    <2>6. QED
      BY <2>4, <2>5 DEF IInv
  <1>5. QED
    BY <1>1, <1>2, <1>3, <1>4 DEF Next

LEMMA IInvAlways == Spec => []IInv
  BY IInvInit, IInvNext, PTL DEF Spec

\* Types: between calls less than a block waits, and the counters fit.
THEOREM Sha256TypeCorrect == Spec => []TypeOK
  <1>1. IInv => TypeOK
    BY DEF IInv, Typed, TypeOK
  <1>2. QED
    BY <1>1, IInvAlways, PTL

\* However a message is cut into updates, transform and the buffer have each
\* of its bytes once and in order.
THEOREM NoByteIsLost == Spec => []NothingLost
  <1>1. ASSUME IInv, ~finished
        PROVE  hashed \o Cells(m_block, 0, m_len) = Message(0, total)
    <2>1. /\ m_len \in Nat /\ total \in Nat /\ total - m_len \in Nat
          /\ (total - m_len) + m_len = total /\ total - m_len <= total
          /\ Streaming
      BY <1>1, Known
    <2>2. Cells(m_block, 0, m_len) = Message(total - m_len, total)
      BY <2>1, CellsAreMessage DEF Streaming
    <2>3. 0 \in Nat /\ 0 <= total - m_len
      BY <2>1
    <2>4. Message(0, total - m_len) \o Message(total - m_len, total) = Message(0, total)
      BY <2>1, <2>3, MessageConcat, Zenon
    <2>5. QED
      BY <2>1, <2>2, <2>4 DEF Streaming
  <1>2. IInv => NothingLost
    BY <1>1 DEF NothingLost
  <1>3. QED
    BY <1>2, IInvAlways, PTL

-----------------------------------------------------------------------------
(***************************************************************************)
(* The hash of the padded message.  What has been transformed is a whole   *)
(* number of blocks, so that the one or two that final adds complete the   *)
(* padded message and no shorter padding would.                            *)
(***************************************************************************)
WholeBlocks == ~finished => \E q \in Nat : total - m_len = q * BLOCK

\* Multiples add up.
LEMMA Multiples ==
  ASSUME NEW p \in Nat, NEW q \in Nat, NEW b \in Nat
  PROVE  p * b \in Nat /\ (p + q) * b = p * b + q * b
  OBVIOUS

\* A number between two multiples of BLOCK.
LEMMA Quotient ==
  ASSUME NEW k \in Nat, NEW n \in Nat, k * BLOCK <= n, n < k * BLOCK + BLOCK
  PROVE  n \div BLOCK = k
  <1> DEFINE d == n \div BLOCK
             r == n % BLOCK
  <1>1. BLOCK \in Nat /\ BLOCK > 0
    BY Sha256Assumption
  <1>2. d \in Nat /\ r \in 0 .. BLOCK - 1 /\ n = d * BLOCK + r
    BY Division
  <1> HIDE DEF d, r
  <1>3. ASSUME NEW x \in Nat, NEW y \in Nat, x < y
        PROVE  x * BLOCK + BLOCK <= y * BLOCK
    <2>1. y - x - 1 \in Nat /\ y = x + (1 + (y - x - 1))
      BY <1>3
    <2>2. y * BLOCK = x * BLOCK + (1 + (y - x - 1)) * BLOCK
      BY <1>1, <2>1, Multiples
    <2>3. (1 + (y - x - 1)) * BLOCK = BLOCK + (y - x - 1) * BLOCK
      BY <1>1, <2>1, Multiples
    <2>4. (y - x - 1) * BLOCK \in Nat /\ x * BLOCK \in Nat
      BY <1>1, <2>1, Multiples
    <2>5. QED
      BY <1>1, <2>2, <2>3, <2>4
  <1>4. d * BLOCK \in Nat /\ k * BLOCK \in Nat
    BY <1>1, <1>2, Multiples
  <1>5. ~(d < k)
    <2> SUFFICES ASSUME d < k PROVE FALSE
      OBVIOUS
    <2>1. d * BLOCK + BLOCK <= k * BLOCK
      BY <1>2, <1>3
    <2>2. QED
      BY <1>1, <1>2, <1>4, <2>1
  <1>6. ~(k < d)
    <2> SUFFICES ASSUME k < d PROVE FALSE
      OBVIOUS
    <2>1. k * BLOCK + BLOCK <= d * BLOCK
      BY <1>2, <1>3
    <2>2. QED
      BY <1>1, <1>2, <1>4, <2>1
  <1>7. QED
    BY <1>2, <1>5, <1>6 DEF d

\* update keeps the transformed bytes a whole number of blocks.
LEMMA WholeBlocksStep ==
  ASSUME IInv, IInv', WholeBlocks, [Next]_vars
  PROVE  WholeBlocks'
  <1> USE DEF WholeBlocks
  <1>1. CASE UNCHANGED vars
    BY <1>1 DEF vars
  <1>2. ASSUME NEW len \in 0 .. MaxUpdate, Update(len), Fits(len)
        PROVE  WholeBlocks'
    <2>1. m_len \in Nat /\ total \in Nat /\ len \in Nat
      BY <1>2, Known, Sha256Assumption DEF Update
    <2>2. ~finished /\ m_len' = m_len + len /\ total' = total + len
      BY <1>2 DEF Update, Collect
    <2>3. total' - m_len' = total - m_len
      BY <2>1, <2>2
    <2>4. QED
      BY <2>2, <2>3
  <1>3. ASSUME NEW len \in 0 .. MaxUpdate, Update(len), ~Fits(len)
        PROVE  WholeBlocks'
    <2> DEFINE left == len - (BLOCK - m_len)
    <2>1. /\ ~finished /\ total' = total + len
          /\ m_len' = left % BLOCK
      BY <1>3 DEF Update, Transform
    <2>2. m_len \in Nat /\ total \in Nat /\ m_len < BLOCK /\ len \in Nat /\ BLOCK \in Nat
      BY <1>3, <2>1, Known, Sha256Assumption
    <2>3. left \in Nat
      BY <1>3, <2>2 DEF Fits
    <2>4. PICK q \in Nat : total - m_len = q * BLOCK
      BY <2>1
    <2> DEFINE blocks == left \div BLOCK
    <2>5. /\ blocks \in Nat /\ blocks * BLOCK \in Nat
          /\ m_len' \in Nat /\ left = blocks * BLOCK + m_len'
      <3> HIDE DEF left
      <3>1. QED
        BY <2>1, <2>2, <2>3, Division
    <2> HIDE DEF blocks
    <2>6. total' - m_len' = q * BLOCK + (BLOCK + blocks * BLOCK)
      BY <2>1, <2>2, <2>4, <2>5
    <2>7. (1 + blocks) * BLOCK = BLOCK + blocks * BLOCK
      BY <2>2, <2>5, Multiples
    <2>8. (q + (1 + blocks)) * BLOCK = q * BLOCK + (1 + blocks) * BLOCK
      BY <2>2, <2>5, Multiples
    <2>9. total' - m_len' = (q + (1 + blocks)) * BLOCK
      BY <2>6, <2>7, <2>8
    <2>10. q + (1 + blocks) \in Nat
      BY <2>5
    <2>11. QED
      BY <2>9, <2>10
  <1>4. CASE Final
    BY <1>4 DEF Final
  <1>5. CASE Reset
    <2>1. total' - m_len' = 0 * BLOCK
      BY <1>5, Sha256Assumption DEF Reset
    <2>2. QED
      BY <2>1
  <1>6. QED
    BY <1>1, <1>2, <1>3, <1>4, <1>5 DEF Next

\* final pads to the least whole number of blocks with room for mark and length.
LEMMA PaddedSize ==
  ASSUME NEW q \in Nat, NEW l \in 0 .. BLOCK - 1
  PROVE  LET pads == IF BLOCK - 9 < l % BLOCK THEN 2 ELSE 1
             n    == q * BLOCK + l
         IN  ((n + 9 + BLOCK - 1) \div BLOCK) * BLOCK = q * BLOCK + pads * BLOCK
  <1> DEFINE pads == IF BLOCK - 9 < l % BLOCK THEN 2 ELSE 1
             n    == q * BLOCK + l
  <1>1. BLOCK \in Nat /\ BLOCK > 9 /\ l \in Nat /\ l < BLOCK /\ q * BLOCK \in Nat
    BY Sha256Assumption, Multiples
  <1>2. l % BLOCK = l
    BY <1>1
  <1>3. /\ (q + 1) * BLOCK = q * BLOCK + BLOCK
        /\ (q + 2) * BLOCK = q * BLOCK + 2 * BLOCK
        /\ q + 1 \in Nat /\ q + 2 \in Nat
    BY <1>1, Multiples
  <1>4. n + 9 + BLOCK - 1 \in Nat /\ n + 9 + BLOCK - 1 = q * BLOCK + l + 8 + BLOCK
    BY <1>1
  <1>5. CASE BLOCK - 9 < l
    <2>1. (n + 9 + BLOCK - 1) \div BLOCK = q + 2
      <3>1. (q + 2) * BLOCK <= n + 9 + BLOCK - 1 /\ n + 9 + BLOCK - 1 < (q + 2) * BLOCK + BLOCK
        BY <1>1, <1>3, <1>4, <1>5
      <3> HIDE DEF n
      <3>2. QED
        BY <1>3, <1>4, <3>1, Quotient
    <2>2. QED
      BY <1>2, <1>3, <1>5, <2>1
  <1>6. CASE ~(BLOCK - 9 < l)
    <2>1. (n + 9 + BLOCK - 1) \div BLOCK = q + 1
      <3>1. (q + 1) * BLOCK <= n + 9 + BLOCK - 1 /\ n + 9 + BLOCK - 1 < (q + 1) * BLOCK + BLOCK
        BY <1>1, <1>3, <1>4, <1>6
      <3> HIDE DEF n
      <3>2. QED
        BY <1>3, <1>4, <3>1, Quotient
    <2>2. QED
      BY <1>1, <1>2, <1>3, <1>6, <2>1
  <1>7. QED
    BY <1>5, <1>6

\* An array of n cells is a sequence of length n.
LEMMA Arrays ==
  ASSUME NEW S, NEW n \in Nat, NEW f \in [1 .. n -> S]
  PROVE  f \in Seq(S) /\ Len(f) = n
  <1>1. f \in Seq(S)
    BY SeqDef
  <1>2. QED
    BY <1>1, LenProperties

\* The padded message is an array, whatever its length.
LEMMA PaddedIsArray ==
  ASSUME NEW n
  PROVE  Padded(n) = [i \in 1 .. ((n + 9 + BLOCK - 1) \div BLOCK) * BLOCK |-> Padded(n)[i]]
  <1> DEFINE size == ((n + 9 + BLOCK - 1) \div BLOCK) * BLOCK
             Cell(i) == CASE i < n         -> Byte(i)
                          [] i = n         -> Mark
                          [] i >= size - 4 -> Length((8 * n) % WORD, i - (size - 4))
                          [] i >= size - 8 /\ 8 * n >= WORD ->
                                 Length((8 * n) \div WORD, i - (size - 8))
                          [] OTHER         -> Zero
  <1>1. Padded(n) = [i \in 1 .. size |-> Cell(i - 1)]
    BY DEF Padded
  <1> HIDE DEF Cell, size
  <1>2. Padded(n) = [i \in 1 .. size |-> Padded(n)[i]]
    BY <1>1
  <1>3. QED
    BY <1>2 DEF size

\* A message this short has no bits in the upper word of the length field.
ShortMessages == 8 * MaxTotal < WORD

\* final's last blocks complete what was transformed to the padded message.
LEMMA FinalStep ==
  ASSUME ShortMessages, IInv, WholeBlocks, Final
  PROVE  hashed' = Padded(total')
  <1> DEFINE pm_len == PadBlocks * BLOCK
             len_b  == (((m_tot_len + m_len) % WORD) * 8) % WORD
             start  == total - m_len
             size   == ((total + 9 + BLOCK - 1) \div BLOCK) * BLOCK
             cells  == Cells(m_block', 0, pm_len)
  <1>1. /\ ~finished /\ total' = total
        /\ hashed' = hashed \o cells
        /\ m_block' = [i \in Buffer |->
               IF pm_len - 4 <= i /\ i < pm_len THEN Length(len_b, i - (pm_len - 4))
               ELSE [[j \in Buffer |-> IF m_len <= j /\ j < pm_len THEN Zero ELSE m_block[j]]
                     EXCEPT ![m_len] = Mark][i]]
    BY DEF Final
  <1>2. /\ Streaming /\ m_len \in Nat /\ total \in Nat /\ m_len < BLOCK /\ m_len <= total
        /\ BLOCK \in Nat /\ BLOCK > 9 /\ WORD \in Nat /\ total <= MaxTotal /\ MaxTotal \in Nat
    BY <1>1, Known, Sha256Assumption DEF IInv, Typed
  <1>3. start \in Nat /\ start + m_len = total
    BY <1>2
  <1>4. /\ PadBlocks \in {1, 2}
        /\ pm_len \in Nat /\ m_len + 9 <= pm_len /\ pm_len <= 2 * BLOCK
    <2>1. m_len % BLOCK = m_len
      BY <1>2
    <2>2. CASE BLOCK - 9 < m_len
      BY <1>2, <2>1, <2>2 DEF PadBlocks
    <2>3. CASE ~(BLOCK - 9 < m_len)
      BY <1>2, <2>1, <2>3 DEF PadBlocks
    <2>4. QED
      BY <2>2, <2>3
  <1>5. size = start + pm_len
    <2>1. PICK q \in Nat : total - m_len = q * BLOCK
      BY <1>1 DEF WholeBlocks
    <2>2. m_len \in 0 .. BLOCK - 1 /\ total = q * BLOCK + m_len
      BY <1>2, <2>1
    <2>3. QED
      BY <2>1, <2>2, PaddedSize DEF PadBlocks
  <1>6. len_b = (8 * total) % WORD
    <2>1. m_tot_len + m_len = total
      BY <1>2 DEF Streaming
    <2>2. total % WORD = total
      BY <1>2, SmallModulo, Sha256Assumption
    <2>3. QED
      BY <1>2, <2>1, <2>2
  <1> HIDE DEF pm_len, len_b, size
  \* The cells that final gives to transform.
  <1>7. ASSUME NEW j \in 0 .. pm_len - 1
        PROVE  m_block'[j] = CASE j < m_len       -> Byte(start + j)
                               [] j = m_len       -> Mark
                               [] j >= pm_len - 4 -> Length((8 * total) % WORD, j - (pm_len - 4))
                               [] OTHER           -> Zero
    <2>1. j \in Buffer /\ m_len \in Buffer
      BY <1>2, <1>4 DEF Buffer
    <2>2. CASE j < m_len
      <3>1. m_block[j] = Byte(start + j)
        BY <1>2, <2>2 DEF Streaming
      <3>2. m_block'[j] = m_block[j]
        BY <1>1, <1>2, <1>4, <2>1, <2>2
      <3>3. ~(j = m_len) /\ ~(j >= pm_len - 4)
        BY <1>2, <1>4, <2>2
      <3>4. QED
        BY <2>2, <3>1, <3>2, <3>3
    <2>3. CASE j = m_len
      <3>1. ~(pm_len - 4 <= j) /\ ~(j < m_len)
        BY <1>2, <1>4, <2>3
      <3>2. m_block'[j] = Mark
        BY <1>1, <2>1, <2>3, <3>1
      <3>3. QED
        BY <2>3, <3>1, <3>2
    <2>4. CASE j > m_len /\ j >= pm_len - 4
      <3>1. m_block'[j] = Length(len_b, j - (pm_len - 4))
        BY <1>1, <1>4, <2>1, <2>4
      <3>2. QED
        BY <1>2, <1>6, <2>4, <3>1
    <2>5. CASE j > m_len /\ ~(j >= pm_len - 4)
      <3>1. m_block'[j] = Zero
        BY <1>1, <1>2, <1>4, <2>1, <2>5
      <3>2. QED
        BY <1>2, <2>5, <3>1
    <2>6. QED
      BY <1>2, <2>2, <2>3, <2>4, <2>5
  \* The same cells in the padded message.
  <1>8. ASSUME NEW i \in 1 .. size
        PROVE  Padded(total)[i] =
                   CASE i - 1 < total     -> Byte(i - 1)
                     [] i - 1 = total     -> Mark
                     [] i - 1 >= size - 4 -> Length((8 * total) % WORD, i - 1 - (size - 4))
                     [] OTHER             -> Zero
    <2>1. ~(8 * total >= WORD)
      BY <1>2 DEF ShortMessages
    <2>2. QED
      BY <2>1 DEF Padded, size
  <1>9. /\ hashed = [i \in 1 .. start |-> Byte(i - 1)]
        /\ cells = [i \in 1 .. pm_len |-> m_block'[i - 1]]
    <2>1. hashed = [i \in 1 .. start - 0 |-> Byte(0 + i - 1)]
      BY <1>2 DEF Streaming, Message
    <2>2. cells = [i \in 1 .. pm_len - 0 |-> m_block'[0 + i - 1]]
      BY DEF Cells
    <2>3. start - 0 = start /\ pm_len - 0 = pm_len /\ \A i \in Int : 0 + i - 1 = i - 1
      BY <1>3, <1>4
    <2>4. QED
      BY <2>1, <2>2, <2>3
  <1>10. /\ hashed \o cells = [i \in 1 .. start + pm_len |-> (hashed \o cells)[i]]
         /\ \A i \in 1 .. start + pm_len : (hashed \o cells)[i] =
                IF i <= start THEN hashed[i] ELSE cells[i - start]
    <2> DEFINE S == {Byte(i - 1) : i \in 1 .. start} \cup {m_block'[i - 1] : i \in 1 .. pm_len}
    <2>1. hashed \in [1 .. start -> S] /\ cells \in [1 .. pm_len -> S]
      BY <1>9
    <2> HIDE DEF cells, S, start
    <2>2. start \in Nat /\ pm_len \in Nat
      BY <1>3, <1>4
    <2>3. /\ hashed \o cells = [i \in 1 .. start + pm_len |-> (hashed \o cells)[i]]
          /\ \A i \in 1 .. start + pm_len : (hashed \o cells)[i] =
                 IF i <= start THEN hashed[i] ELSE cells[i - start]
      <3>1. /\ hashed \in Seq(S) /\ Len(hashed) = start
            /\ cells \in Seq(S) /\ Len(cells) = pm_len
        BY ONLY <2>1, <2>2, Arrays
      <3> DEFINE fg == hashed \o cells
      <3>2. /\ fg \in Seq(S) /\ Len(fg) = start + pm_len
            /\ \A i \in 1 .. start + pm_len :
                   fg[i] = IF i <= start THEN hashed[i] ELSE cells[i - start]
        BY ONLY <3>1, ConcatProperties
      <3> HIDE DEF fg
      <3>3. fg = [i \in 1 .. start + pm_len |-> fg[i]]
        BY ONLY <3>2, LenProperties
      <3>4. QED
        BY ONLY <3>2, <3>3 DEF fg
    <2>4. QED
      BY <2>3
  <1> HIDE DEF start, cells
  <1>11. ASSUME NEW i \in 1 .. size
         PROVE  (hashed \o cells)[i] = Padded(total)[i]
    <2>1. i \in 1 .. start + pm_len
      BY <1>5
    <2>2. (hashed \o cells)[i] = IF i <= start THEN Byte(i - 1) ELSE m_block'[i - start - 1]
      <3>1. CASE i <= start
        <4>1. i \in 1 .. start
          BY <1>3, <1>4, <2>1, <3>1
        <4>2. QED
          BY <1>9, <1>10, <2>1, <3>1, <4>1
      <3>2. CASE ~(i <= start)
        <4>1. i - start \in 1 .. pm_len
          BY <1>3, <1>4, <2>1, <3>2
        <4>2. QED
          BY <1>9, <1>10, <2>1, <3>2, <4>1
      <3>3. QED
        BY <3>1, <3>2
    <2>3. CASE i <= start
      <3>1. i - 1 < total /\ ~(i - 1 = total) /\ ~(i - 1 >= size - 4)
        BY <1>2, <1>3, <1>4, <1>5, <2>1, <2>3
      <3>2. Padded(total)[i] = Byte(i - 1)
        BY <1>8, <3>1
      <3>3. QED
        BY <2>2, <2>3, <3>2
    <2>4. CASE ~(i <= start)
      <3> DEFINE j == i - start - 1
      <3>1. j \in 0 .. pm_len - 1 /\ start + j = i - 1
        BY <1>3, <1>4, <2>1, <2>4
      <3>2. (hashed \o cells)[i] = m_block'[j]
        BY <1>3, <2>1, <2>2, <2>4
      <3>3. /\ j < m_len <=> i - 1 < total
            /\ j = m_len <=> i - 1 = total
            /\ j >= pm_len - 4 <=> i - 1 >= size - 4
            /\ j - (pm_len - 4) = i - 1 - (size - 4)
        BY <1>2, <1>3, <1>4, <1>5, <3>1
      <3> HIDE DEF j
      <3>4. m_block'[j] = CASE j < m_len       -> Byte(start + j)
                            [] j = m_len       -> Mark
                            [] j >= pm_len - 4 -> Length((8 * total) % WORD, j - (pm_len - 4))
                            [] OTHER           -> Zero
        BY <1>7, <3>1
      <3>5. QED
        BY <1>8, <3>1, <3>2, <3>3, <3>4
    <2>5. QED
      BY <2>3, <2>4
  <1>12. /\ Padded(total) = [i \in 1 .. size |-> Padded(total)[i]]
         /\ hashed \o cells = [i \in 1 .. size |-> (hashed \o cells)[i]]
    <2>1. Padded(total) = [i \in 1 .. size |-> Padded(total)[i]]
      BY PaddedIsArray DEF size
    <2>2. hashed \o cells = [i \in 1 .. size |-> (hashed \o cells)[i]]
      BY <1>5, <1>10
    <2>3. QED
      BY <2>1, <2>2
  <1>13. hashed \o cells = Padded(total)
    BY <1>11, <1>12
  <1>14. QED
    BY <1>1, <1>13

\* transform is given the padded message of FIPS 180-2, for every block size
\* above 9, every cut into updates and every message whose length in bits fits
\* the 32-bit word that final writes.
THEOREM PaddedIsHashed ==
  ASSUME ShortMessages
  PROVE  Spec => []HashOfPadded
  <1> DEFINE Inv == IInv /\ WholeBlocks /\ HashOfPadded
  <1>1. Init => Inv
    <2> SUFFICES ASSUME Init PROVE Inv
      OBVIOUS
    <2>1. total - m_len = 0 * BLOCK /\ ~finished
      BY Sha256Assumption DEF Init
    <2>2. WholeBlocks /\ HashOfPadded
      BY <2>1 DEF WholeBlocks, HashOfPadded
    <2>3. QED
      BY <2>2, IInvInit
  <1>2. Inv /\ [Next]_vars => Inv'
    <2> SUFFICES ASSUME Inv, [Next]_vars PROVE Inv'
      OBVIOUS
    <2>1. IInv' /\ WholeBlocks'
      BY IInvNext, WholeBlocksStep
    <2>2. CASE Final
      BY <2>1, <2>2, FinalStep DEF HashOfPadded
    <2>3. CASE UNCHANGED vars
      BY <2>1, <2>3 DEF HashOfPadded, Padded, vars
    <2>4. CASE Reset \/ \E len \in 0 .. MaxUpdate : Update(len)
      <3>1. ~finished'
        BY <2>4 DEF Reset, Update
      <3>2. QED
        BY <2>1, <3>1 DEF HashOfPadded
    <2>5. QED
      BY <2>2, <2>3, <2>4 DEF Next
  <1>3. QED
    BY <1>1, <1>2, PTL DEF Spec

=============================================================================
