-------------------------- MODULE JsonReaderProofs --------------------------
(***************************************************************************)
(* Theorems about JsonReader, for documents of any length, any limit and   *)
(* any features: the stack nodes_ follows the recursion, the recursion is  *)
(* bounded, parse fails exactly when it has recorded an error, and without *)
(* comments and without the flags that change the language it accepts      *)
(* documents of the grammar alone and refuses nothing that begins one.     *)
(***************************************************************************)
EXTENDS JsonReader, SequenceTheorems, WellFoundedInduction, TLAPS

(***************************************************************************)
(* The inductive invariant, by where parse stands: how the calls under     *)
(* way, nodes_ and the errors go together.                                 *)
(***************************************************************************)
Inside == {"name", "colon", "comma", "afterComment", "first", "next", "recover"}

Depth ==
    /\ stage \in {"ready", "rest"} => frames = <<>>
    /\ stage = "rest" => nodes = 1
    /\ stage = "value" => nodes = Len(frames) + 1
    /\ stage \in Inside => frames # <<>> /\ nodes = Len(frames)
    /\ Len(frames) <= StackLimit

Errs ==
    /\ stage \in ({"value"} \cup Inside) \ {"recover"} => errors = 0
    /\ stage = "recover" => errors = 1
    /\ stage = "rest" => \/ result = "ok" /\ errors = 0
                         \/ result = "failed" /\ errors = 1
    /\ stage = "ready" => \/ result \in {"none", "ok", "thrown"} /\ errors = 0
                          \/ result = "failed" /\ errors = 1
                          \/ result = "failed" /\ errors = 2 /\ "strictRoot" \in features

\* Types, of the machine and of its input.
Machine ==
    /\ features \in FeatureSets
    /\ stage \in Stages
    /\ frames \in Seq(Frame)
    /\ nodes \in Nat
    /\ errors \in Nat
    /\ container \in BOOLEAN
    /\ result \in Results
    /\ parses \in 0 .. MaxParses

Input ==
    /\ count \in 0 .. MaxTokens
    /\ ended \in BOOLEAN
    /\ ahead \in Tokens \cup {"end", None}
    /\ read \in Seq(Tokens \cup {"end"})

IInv == Machine /\ Depth /\ Errs

-----------------------------------------------------------------------------
LEMMA Initially == Init => IInv /\ Input
  <1> SUFFICES ASSUME Init PROVE IInv /\ Input
    OBVIOUS
  <1>1. Machine
    <2>1. frames \in Seq(Frame)
      BY EmptySeq DEF Init
    <2>2. parses \in 0 .. MaxParses
      BY JsonReaderAssumption DEF Init
    <2> QED BY <2>1, <2>2 DEF Init, Machine, Stages, Results
  <1>2. Input
    <2>1. read \in Seq(Tokens \cup {"end"})
      BY EmptySeq DEF Init
    <2>2. count \in 0 .. MaxTokens
      BY JsonReaderAssumption DEF Init
    <2> QED BY <2>1, <2>2 DEF Init, Input
  <1>3. Depth
    BY JsonReaderAssumption DEF Init, Depth, Inside
  <1>4. Errs
    BY DEF Init, Errs, Inside
  <1> QED BY <1>1, <1>2, <1>3, <1>4 DEF IInv

-----------------------------------------------------------------------------
(***************************************************************************)
(* The input.                                                              *)
(***************************************************************************)
LEMMA FetchTypes ==
  ASSUME Input, NEW t, Fetch(t)
  PROVE  /\ t \in Tokens \cup {"end"}
         /\ count' \in 0 .. MaxTokens
         /\ ended' \in BOOLEAN
  <1>1. t \in Tokens \cup {"end"}
    BY DEF Fetch, NextTokens, Input
  <1>2. ended' \in BOOLEAN
    BY DEF Fetch
  <1>3. CASE ahead = None /\ t # "end"
    <2>1. count # MaxTokens
      BY <1>3 DEF Fetch, NextTokens
    <2>2. MaxTokens \in Nat
      BY JsonReaderAssumption
    <2>3. count' = count + 1
      BY <1>3 DEF Fetch
    <2> QED BY <1>1, <1>2, <2>1, <2>2, <2>3 DEF Input
  <1>4. CASE ~(ahead = None /\ t # "end")
    BY <1>1, <1>2, <1>4 DEF Fetch, Input
  <1> QED BY <1>3, <1>4

LEMMA ReadTypes == ASSUME Input, NEW t, Read(t) \/ Skip(t) \/ Leave(t) PROVE Input'
  <1>1. Fetch(t)
    BY DEF Read, Skip, Leave
  <1>2. /\ t \in Tokens \cup {"end"}
        /\ count' \in 0 .. MaxTokens
        /\ ended' \in BOOLEAN
    BY <1>1, FetchTypes
  <1>3. CASE Read(t)
    BY <1>2, <1>3 DEF Read, Input
  <1>4. CASE Skip(t) \/ Leave(t)
    BY <1>2, <1>4 DEF Skip, Leave, Input
  <1> QED BY <1>3, <1>4

LEMMA InputNext == Input /\ [Next]_vars => Input'
  <1> SUFFICES ASSUME Input, [Next]_vars PROVE Input'
    OBVIOUS
  <1>1. CASE Parse
    <2>1. read' \in Seq(Tokens \cup {"end"})
      BY <1>1, EmptySeq DEF Parse
    <2>2. count' \in 0 .. MaxTokens
      BY <1>1, JsonReaderAssumption DEF Parse
    <2> QED BY <1>1, <2>1, <2>2 DEF Parse, Input
  <1>2. CASE StackLimitExceeded \/ UNCHANGED vars
    BY <1>2 DEF StackLimitExceeded, vars, inputVars, Input
  <1>3. CASE ReadValue
    BY <1>3, ReadTypes DEF ReadValue, BeginContainer, ReadScalar, SkipComment, Dropped,
       ValueFails
  <1>4. CASE ReadName
    BY <1>4, ReadTypes DEF ReadName
  <1>5. CASE ReadColon
    BY <1>5, ReadTypes DEF ReadColon
  <1>6. CASE ReadComma
    BY <1>6, ReadTypes DEF ReadComma
  <1>7. CASE ReadAfterComment
    BY <1>7, ReadTypes DEF ReadAfterComment
  <1>8. CASE ReadFirst
    BY <1>8, ReadTypes DEF ReadFirst
  <1>9. CASE ReadNext
    BY <1>9, ReadTypes DEF ReadNext
  <1>10. CASE Recover
    BY <1>10, ReadTypes DEF Recover
  <1>11. CASE Finish
    BY <1>11, ReadTypes DEF Finish
  <1> QED
    BY <1>1, <1>2, <1>3, <1>4, <1>5, <1>6, <1>7, <1>8, <1>9, <1>10, <1>11
    DEF Next, Reading

-----------------------------------------------------------------------------
(***************************************************************************)
(* The ways out.                                                           *)
(***************************************************************************)
\* What a step leaves, the input and the count of parses apart.
Good == /\ stage' \in Stages
        /\ frames' \in Seq(Frame)
        /\ nodes' \in Nat
        /\ errors' \in Nat
        /\ result' \in Results
        /\ Depth'
        /\ Errs'

\* A value that returns pops what its caller pushed.
LEMMA ValueReturnsGood ==
  ASSUME NEW calling \in Seq(Frame), NEW ok \in BOOLEAN,
         Len(calling) <= StackLimit, nodes = Len(calling) + 1,
         result \in Results, ValueReturns(calling, ok),
         errors' = IF ok THEN 0 ELSE 1
  PROVE  Good
  <1>1. StackLimit \in Nat
    BY JsonReaderAssumption
  <1>2. CASE calling = <<>>
    BY <1>1, <1>2 DEF ValueReturns, Good, Depth, Errs, Inside, Stages, Results
  <1>3. CASE calling # <<>>
    <2>1. Len(calling) \in Nat \ {0}
      BY <1>3, EmptySeq
    <2>2. stage' = IF ~ok THEN "recover" ELSE AfterChild(Last(calling).kind)
      BY <1>3 DEF ValueReturns
    <2>3. AfterChild(Last(calling).kind) \in {"comma", "next"}
      BY DEF AfterChild
    <2>5. stage' \in Inside /\ (stage' = "recover" <=> ~ok)
      BY <2>2, <2>3 DEF Inside
    <2>4. nodes' = Len(calling) /\ frames' = calling /\ result' = result
      BY <1>3, <2>1 DEF ValueReturns
    <2> QED
      BY <1>1, <1>3, <2>1, <2>4, <2>5 DEF Good, Depth, Errs, Inside, Stages, Results
  <1> QED BY <1>2, <1>3

\* The arithmetic of one element more or less.
LEMMA SmallNumbers ==
  ASSUME NEW n \in Nat \ {0}
  PROVE  /\ n \in Nat
         /\ n \in 1 .. n
         /\ (IF 1 <= n - 1 THEN n - 1 - 1 + 1 ELSE 0) = n - 1
  OBVIOUS

\* Naming the innermost object changes no depth.
LEMMA ReplaceLast ==
  ASSUME NEW s \in Seq(Frame), s # <<>>, NEW f \in Frame
  PROVE  /\ [s EXCEPT ![Len(s)] = f] \in Seq(Frame)
         /\ Len([s EXCEPT ![Len(s)] = f]) = Len(s)
  <1>1. Len(s) \in 1 .. Len(s)
    BY EmptySeq, SmallNumbers, Zenon
  <1> DEFINE n == Len(s)
  <1>2. n \in 1 .. Len(s)
    BY <1>1
  <1> HIDE DEF n
  <1>3. [s EXCEPT ![n] = f] \in Seq(Frame) /\ Len([s EXCEPT ![n] = f]) = Len(s)
    BY <1>2, ExceptSeq
  <1> QED BY <1>3 DEF n

\* The calls without the innermost one.
LEMMA FrontOfFrames ==
  ASSUME frames \in Seq(Frame), frames # <<>>
  PROVE  /\ Front(frames) \in Seq(Frame)
         /\ Len(frames) \in Nat
         /\ Len(Front(frames)) = Len(frames) - 1
  <1>1. Len(frames) \in Nat \ {0}
    BY EmptySeq
  <1>2. \A i \in 1 .. Len(frames) - 1 : frames[i] \in Frame
    BY <1>1
  <1>3. /\ SubSeq(frames, 1, Len(frames) - 1) \in Seq(Frame)
        /\ Len(SubSeq(frames, 1, Len(frames) - 1)) =
              IF 1 <= Len(frames) - 1 THEN Len(frames) - 1 - 1 + 1 ELSE 0
    BY <1>1, <1>2, SubSeqProperties
  <1>4. (IF 1 <= Len(frames) - 1 THEN Len(frames) - 1 - 1 + 1 ELSE 0) = Len(frames) - 1
    BY <1>1, SmallNumbers, Zenon
  <1> QED BY <1>1, <1>3, <1>4 DEF Front

LEMMA ContainerReturnsGood ==
  ASSUME IInv, stage \in Inside, NEW ok \in BOOLEAN, ContainerReturns(ok),
         errors' = IF ok THEN 0 ELSE 1
  PROVE  Good
  <1>1. /\ frames \in Seq(Frame) /\ frames # <<>> /\ nodes = Len(frames)
        /\ Len(frames) <= StackLimit /\ result \in Results
    BY DEF IInv, Machine, Depth
  <1>2. /\ Front(frames) \in Seq(Frame)
        /\ Len(frames) \in Nat
        /\ Len(Front(frames)) = Len(frames) - 1
    BY <1>1, FrontOfFrames
  <1>3. Len(Front(frames)) <= StackLimit /\ nodes = Len(Front(frames)) + 1
    BY <1>1, <1>2, JsonReaderAssumption
  <1> QED BY <1>1, <1>2, <1>3, ValueReturnsGood DEF ContainerReturns

\* In readObject or readArray, before any error.
LEMMA StepsInside ==
  ASSUME IInv, stage \in Inside \ {"recover"}
  PROVE  /\ AddErrorAndRecover => Good
         /\ ReadChild /\ UNCHANGED errors => Good
         /\ Throw => Good
         /\ \A s \in Inside \ {"recover"} : Stay(s) /\ UNCHANGED errors => Good
  <1>1. /\ frames \in Seq(Frame) /\ frames # <<>> /\ nodes = Len(frames) /\ errors = 0
        /\ Len(frames) <= StackLimit /\ result \in Results /\ nodes \in Nat
        /\ StackLimit \in Nat
    BY JsonReaderAssumption DEF IInv, Machine, Depth, Errs, Inside
  <1>2. ASSUME AddErrorAndRecover PROVE Good
    BY <1>1, <1>2 DEF AddErrorAndRecover, Good, Depth, Errs, Inside, Stages
  <1>3. ASSUME ReadChild, UNCHANGED errors PROVE Good
    BY <1>1, <1>3 DEF ReadChild, Good, Depth, Errs, Inside, Stages
  <1>4. ASSUME Throw PROVE Good
    BY <1>1, <1>4, EmptySeq DEF Throw, Good, Depth, Errs, Inside, Stages, Results
  <1>5. ASSUME NEW s \in Inside \ {"recover"}, Stay(s), UNCHANGED errors PROVE Good
    BY <1>1, <1>5 DEF Stay, Good, Depth, Errs, Inside, Stages
  <1> QED BY <1>2, <1>3, <1>4, <1>5

-----------------------------------------------------------------------------
(***************************************************************************)
(* The steps.                                                              *)
(***************************************************************************)
LEMMA ParseGood == ASSUME IInv, Parse PROVE Good
  <1>1. frames = <<>> /\ StackLimit \in Nat
    BY JsonReaderAssumption DEF IInv, Depth, Parse
  <1> QED
    BY <1>1, EmptySeq
    DEF Parse, OnlyRoot, NoErrors, Good, Depth, Errs, Inside, Stages, Results

LEMMA StackLimitGood == ASSUME IInv, StackLimitExceeded PROVE Good
  <1>1. errors = 0 /\ nodes \in Nat /\ StackLimit \in Nat
    BY JsonReaderAssumption DEF IInv, Machine, Errs, StackLimitExceeded
  <1> QED
    BY <1>1, EmptySeq
    DEF StackLimitExceeded, Throw, Good, Depth, Errs, Inside, Stages, Results

LEMMA ReadValueGood == ASSUME IInv, ReadValue PROVE Good
  <1>1. /\ stage = "value" /\ frames \in Seq(Frame) /\ nodes = Len(frames) + 1
        /\ nodes \in Nat /\ errors = 0 /\ result \in Results /\ StackLimit \in Nat
        /\ Len(frames) \in Nat
    BY JsonReaderAssumption DEF IInv, Machine, Depth, Errs, ReadValue
  <1>2. Len(frames) + 1 <= StackLimit
    BY <1>1 DEF ReadValue, TooDeep
  <1>3. Len(frames) <= StackLimit
    BY <1>1, <1>2
  <1> PICK t : \/ BeginContainer(t) \/ ReadScalar(t) \/ SkipComment(t)
               \/ Dropped(t) \/ ValueFails(t)
    BY DEF ReadValue
  <1>4. CASE BeginContainer(t)
    <2> DEFINE f == [kind |-> IF t = "{" THEN "object" ELSE "array", name |-> "empty"]
    <2>1. f \in Frame
      BY DEF Frame
    <2>2. frames' = Append(frames, f)
      BY <1>4 DEF BeginContainer
    <2> HIDE DEF f
    <2>3. frames' \in Seq(Frame) /\ Len(frames') = Len(frames) + 1 /\ frames' # <<>>
      BY <1>1, <2>1, <2>2, AppendProperties
    <2>4. stage' \in {"name", "first"} /\ UNCHANGED <<nodes, errors, result>>
      BY <1>4 DEF BeginContainer
    <2> QED
      BY <1>1, <1>2, <2>3, <2>4 DEF Good, Depth, Errs, Inside, Stages
  <1>5. CASE ReadScalar(t) \/ Dropped(t)
    <2>1. ValueReturns(frames, TRUE) /\ errors' = errors
      BY <1>5 DEF ReadScalar, Dropped
    <2>2. errors' = IF TRUE THEN 0 ELSE 1
      BY <1>1, <2>1
    <2> QED BY <1>1, <1>3, <2>1, <2>2, ValueReturnsGood
  <1>6. CASE ValueFails(t)
    <2>1. ValueReturns(frames, FALSE) /\ errors' = errors + 1
      BY <1>6 DEF ValueFails
    <2>2. errors' = IF FALSE THEN 0 ELSE 1
      BY <1>1, <2>1
    <2> QED BY <1>1, <1>3, <2>1, <2>2, ValueReturnsGood
  <1>7. CASE SkipComment(t)
    BY <1>1, <1>2, <1>7 DEF SkipComment, Stay, Good, Depth, Errs, Inside, Stages
  <1> QED BY <1>4, <1>5, <1>6, <1>7

\* readObject and readArray, before an error.
LEMMA InsideGood ==
  ASSUME IInv,
         \/ ReadName \/ ReadColon \/ ReadComma \/ ReadAfterComment
         \/ ReadFirst \/ ReadNext
  PROVE  Good
  <1>1. stage \in Inside \ {"recover"} /\ stage \in Inside
    BY DEF ReadName, ReadColon, ReadComma, ReadAfterComment, ReadFirst, ReadNext, Inside
  <1>2. errors = 0
    BY <1>1 DEF IInv, Errs
  <1>3. ContainerReturns(TRUE) /\ UNCHANGED errors => Good
    BY <1>1, <1>2, ContainerReturnsGood
  <1>4. /\ {"name", "colon", "afterComment", "next"} \subseteq Inside \ {"recover"}
    BY DEF Inside
  <1>5. CASE ReadName
    <2> PICK t : \/ Name(t) \/ NumericName(t) \/ NotAName(t)
                 \/ t = "comment" /\ Stay("name") /\ UNCHANGED errors
                 \/ t = "}" /\ ClosesEmpty /\ ContainerReturns(TRUE) /\ UNCHANGED errors
      BY <1>5 DEF ReadName
    <2>1. CASE Name(t)
      <3>1. /\ frames \in Seq(Frame) /\ frames # <<>> /\ nodes = Len(frames)
            /\ Len(frames) <= StackLimit /\ result \in Results /\ nodes \in Nat
        BY <1>1 DEF IInv, Machine, Depth
      <3>2. Len(frames) \in 1 .. Len(frames) /\ Len(frames) \in Nat
        <4>1. Len(frames) \in Nat \ {0}
          BY <3>1, EmptySeq
        <4> QED BY <4>1, SmallNumbers, Zenon
      <3> DEFINE f == [frames[Len(frames)] EXCEPT !.name = DecodedName(t)]
      <3>3. f \in Frame
        <4>1. frames[Len(frames)] \in Frame
          BY <3>1, <3>2, LenProperties, Zenon
        <4>2. DecodedName(t) \in {"empty", "some"}
          BY DEF DecodedName
        <4> QED BY <4>1, <4>2 DEF Frame
      <3>4. frames' = [frames EXCEPT ![Len(frames)] = f]
        BY <2>1 DEF Name
      <3> HIDE DEF f
      <3>5. frames' \in Seq(Frame) /\ Len(frames') = Len(frames)
        BY <3>1, <3>3, <3>4, ReplaceLast
      <3>6. stage' = "colon" /\ UNCHANGED <<nodes, errors, result>>
        BY <2>1 DEF Name
      <3>7. frames' # <<>>
        <4>1. Len(frames) # 0
          BY <3>1, EmptySeq
        <4> QED BY <3>5, <4>1, EmptySeq
      <3> QED
        BY <1>2, <3>1, <3>5, <3>6, <3>7 DEF Good, Depth, Errs, Inside, Stages
    <2>2. CASE NumericName(t) \/ NotAName(t)
      BY <1>1, <2>2, StepsInside DEF NumericName, NotAName
    <2> QED BY <1>1, <1>3, <1>4, <2>1, <2>2, StepsInside
  <1>6. CASE ReadColon
    BY <1>1, <1>6, StepsInside DEF ReadColon
  <1>7. CASE ReadComma
    BY <1>1, <1>3, <1>4, <1>7, StepsInside DEF ReadComma
  <1>8. CASE ReadAfterComment
    BY <1>1, <1>3, <1>4, <1>8, StepsInside DEF ReadAfterComment
  <1>9. CASE ReadFirst
    BY <1>1, <1>3, <1>4, <1>9, StepsInside DEF ReadFirst
  <1>10. CASE ReadNext
    BY <1>1, <1>3, <1>4, <1>10, StepsInside DEF ReadNext
  <1> QED BY <1>5, <1>6, <1>7, <1>8, <1>9, <1>10

LEMMA RecoverGood == ASSUME IInv, Recover PROVE Good
  <1>1. /\ stage = "recover" /\ stage \in Inside /\ errors = 1 /\ errors' = 1
        /\ frames \in Seq(Frame) /\ nodes \in Nat /\ result \in Results
    BY DEF IInv, Machine, Errs, Recover, Inside
  <1>2. CASE ContainerReturns(FALSE)
    BY <1>1, <1>2, ContainerReturnsGood
  <1>3. CASE Stay("recover")
    BY <1>1, <1>3 DEF IInv, Stay, Good, Depth, Errs, Inside, Stages
  <1> QED BY <1>2, <1>3 DEF Recover

LEMMA FinishGood == ASSUME IInv, Finish PROVE Good
  <1>1. /\ frames = <<>> /\ nodes = 1 /\ StackLimit \in Nat /\ errors \in Nat
        /\ UNCHANGED <<features, frames, nodes>>
        /\ \/ result = "ok" /\ errors = 0
           \/ result = "failed" /\ errors = 1
    BY JsonReaderAssumption DEF IInv, Machine, Depth, Errs, Finish
  <1>2. CASE UNCHANGED <<stage, errors, result>>
    BY <1>1, <1>2 DEF Finish, IInv, Good, Depth, Errs, Inside, Stages, Results
  <1>3. CASE /\ stage' = "ready"
             /\ errors' = IF StrictError THEN errors + 1 ELSE errors
             /\ result' = IF StrictError THEN "failed" ELSE result
    <2>1. frames' \in Seq(Frame) /\ nodes' \in Nat /\ errors' \in Nat
      BY <1>1, <1>3
    <2>2. stage' \in Stages /\ result' \in Results
      BY <1>1, <1>3 DEF Stages, Results
    <2>3. Depth'
      BY <1>1, <1>3, EmptySeq DEF Depth, Inside, IInv
    <2>4. Errs'
      BY <1>1, <1>3 DEF Errs, Inside, StrictError
    <2> QED BY <2>1, <2>2, <2>3, <2>4 DEF Good
  <1> QED BY <1>2, <1>3 DEF Finish

LEMMA IInvNext == IInv /\ [Next]_vars => IInv'
  <1> SUFFICES ASSUME IInv, [Next]_vars PROVE IInv'
    OBVIOUS
  <1>1. features' = features /\ container' \in BOOLEAN /\ parses' \in 0 .. MaxParses
    <2> USE DEF IInv, Machine
    <2>1. CASE Parse
      BY <2>1, JsonReaderAssumption DEF Parse
    <2>2. CASE ReadValue
      BY <2>2 DEF ReadValue, BeginContainer, ReadScalar, SkipComment, Dropped,
         ValueFails, SetsRoot
    <2>3. CASE StackLimitExceeded \/ UNCHANGED vars
      BY <2>3 DEF StackLimitExceeded, vars
    <2>4. CASE \/ ReadName \/ ReadColon \/ ReadComma \/ ReadAfterComment
               \/ ReadFirst \/ ReadNext \/ Recover \/ Finish
      BY <2>4 DEF ReadName, ReadColon, ReadComma, ReadAfterComment, ReadFirst,
         ReadNext, Recover, Finish
    <2> QED BY <2>1, <2>2, <2>3, <2>4 DEF Next, Reading
  <1>2. CASE Next
    <2>1. Good
      BY <1>2, ParseGood, StackLimitGood, ReadValueGood, InsideGood, RecoverGood, FinishGood
      DEF Next, Reading
    <2> QED BY <1>1, <2>1 DEF IInv, Machine, Good
  <1>3. CASE UNCHANGED vars
    BY <1>3 DEF vars, IInv, Machine, Depth, Errs
  <1> QED BY <1>2, <1>3

-----------------------------------------------------------------------------
(***************************************************************************)
(* The theorems.                                                           *)
(***************************************************************************)
\* The variables keep their types.
THEOREM JsonReaderTypeCorrect == Spec => []TypeOK
  <1>1. IInv /\ Input => TypeOK
    BY DEF IInv, Machine, Input, TypeOK
  <1> QED BY <1>1, Initially, IInvNext, InputNext, PTL DEF Spec

\* The node stack follows the recursion, whatever document a Reader had
\* before, and the recursion never goes deeper than the limit.
THEOREM NodesAreFollowed == Spec => []NodesFollowCalls
  <1>1. IInv => NodesFollowCalls
    BY DEF IInv, Machine, Depth, NodesFollowCalls, Inside, Stages
  <1> QED BY <1>1, Initially, IInvNext, PTL DEF Spec

\* parse answers false exactly with an error recorded, and records no more
\* than one, or two with a strict root.
THEOREM FailureIsRecorded == Spec => []FailsWithItsError
  <1>1. IInv => FailsWithItsError
    BY DEF IInv, Machine, Errs, FailsWithItsError, Inside, Stages, Results
  <1> QED BY <1>1, Initially, IInvNext, PTL DEF Spec

-----------------------------------------------------------------------------
(***************************************************************************)
(* Induction over the numbers, over a set: the least number outside it.    *)
(***************************************************************************)
\* The order of the numbers, as a relation that is well-founded.
LEMMA NatLess == \E R : IsWellFoundedOn(R, Nat) /\ \A m, n \in Nat : m < n => <<m, n>> \in R
  <1>1. IsWellFoundedOn(OpToRel(<, Nat), Nat)
    BY NatLessThanWellFounded
  <1>2. \A m, n \in Nat : m < n => <<m, n>> \in OpToRel(<, Nat)
    BY DEF OpToRel
  <1> QED BY <1>1, <1>2

\* A set of numbers has a least one.
LEMMA Least ==
  ASSUME NEW T, T \subseteq Nat, T # {}
  PROVE  \E n \in T : \A m \in T : n <= m
  <1> PICK R : IsWellFoundedOn(R, Nat) /\ \A m, n \in Nat : m < n => <<m, n>> \in R
    BY NatLess
  <1>1. IsWellFoundedOn(R, Nat)
    OBVIOUS
  <1>2. \E n \in T : \A m \in T : ~ (<<m, n>> \in R)
    BY ONLY T \subseteq Nat, T # {}, <1>1, WFMin, Zenon
  <1> PICK n \in T : \A m \in T : ~ (<<m, n>> \in R)
    BY <1>2
  <1>3. n \in Nat /\ \A m \in T : m \in Nat /\ ~(m < n)
    OBVIOUS
  <1> QED BY <1>3

\* What holds of all smaller numbers carries over, so holds of every number.
LEMMA Induction ==
  ASSUME NEW S, \A n \in Nat : (\A m \in 0 .. n - 1 : m \in S) => n \in S
  PROVE  \A n \in Nat : n \in S
  <1> DEFINE T == {n \in Nat : n \notin S}
  <1> SUFFICES ASSUME T # {} PROVE FALSE
    OBVIOUS
  <1> PICK n \in T : \A m \in T : n <= m
    BY Least
  <1>1. \A m \in 0 .. n - 1 : m \in S
    OBVIOUS
  <1> QED BY <1>1

-----------------------------------------------------------------------------
(***************************************************************************)
(* The grammar is what its equation says: a table of the rows below a      *)
(* length exists for every length, and the function is such a table.       *)
(***************************************************************************)
Row(g, n) == [value |-> Value(g, n), elements |-> Elements(g, n),
              members |-> [x \in Names |-> Members(g, x, n)]]

Below(g, n) == [k \in 0 .. n - 1 |-> g[k]]

LEMMA SameBelow ==
  ASSUME NEW n, NEW g, NEW h, \A k \in 0 .. n - 1 : g[k] = h[k]
  PROVE  Below(g, n) = Below(h, n)
  BY DEF Below

\* For every length there is a table of the rows below it.
LEMMA TableExists == \A n \in Nat : \E g : g = [i \in 0 .. n - 1 |-> Row(Below(g, i), i)]
  <1> DEFINE S == {n \in Nat : \E g : g = [i \in 0 .. n - 1 |-> Row(Below(g, i), i)]}
  <1>1. ASSUME NEW n \in Nat, \A m \in 0 .. n - 1 : m \in S PROVE n \in S
    <2>1. CASE n = 0
      <3> DEFINE g == [i \in 0 .. n - 1 |-> {}]
      <3>1. g = [i \in 0 .. n - 1 |-> Row(Below(g, i), i)]
        BY <2>1
      <3> QED BY <3>1
    <2>2. CASE n # 0
      <3> DEFINE p == n - 1
      <3>1. p \in Nat /\ p \in S
        BY <1>1, <2>2
      <3>2. PICK g : g = [i \in 0 .. p - 1 |-> Row(Below(g, i), i)]
        BY <3>1
      <3> DEFINE h == [i \in 0 .. p |-> IF i < p THEN g[i] ELSE Row(Below(g, p), p)]
      <3> HIDE DEF p
      <3>3. ASSUME NEW i \in 0 .. p PROVE h[i] = Row(Below(h, i), i)
        <4>1. Below(g, i) = Below(h, i)
          BY <3>1, SameBelow
        <4>2. CASE i < p
          <5>1. h[i] = g[i] /\ g[i] = Row(Below(g, i), i)
            BY <3>1, <3>2, <4>2
          <5> QED BY <4>1, <5>1
        <4>3. CASE ~(i < p)
          <5>1. i = p
            BY <3>1, <4>3
          <5>2. h[i] = Row(Below(g, i), i)
            BY <3>1, <5>1
          <5> QED BY <4>1, <5>2
        <4> QED BY <4>2, <4>3
      <3> HIDE DEF h
      <3>4. h = [i \in 0 .. p |-> h[i]]
        BY DEF h
      <3>5. h = [i \in 0 .. p |-> Row(Below(h, i), i)]
        BY <3>3, <3>4
      <3>6. 0 .. p = 0 .. n - 1
        BY DEF p
      <3>7. h = [i \in 0 .. n - 1 |-> Row(Below(h, i), i)]
        BY <3>5, <3>6
      <3> QED BY <3>7
    <2> QED BY <2>1, <2>2
  <1> HIDE DEF S
  <1>2. \A n \in Nat : n \in S
    BY <1>1, Induction
  <1> QED BY <1>2 DEF S

\* Grammar satisfies its defining equation.
LEMMA GrammarRows == \A n \in 0 .. MaxTokens : Grammar[n] = Row(Below(Grammar, n), n)
  <1>1. Grammar = CHOOSE g : g = [n \in 0 .. MaxTokens |-> Row(Below(g, n), n)]
    BY DEF Grammar, Row, Below
  <1> DEFINE N == MaxTokens + 1
  <1>2. N \in Nat /\ N - 1 = MaxTokens
    BY JsonReaderAssumption
  <1> HIDE DEF N
  <1>3. \E g : g = [n \in 0 .. N - 1 |-> Row(Below(g, n), n)]
    BY <1>2, TableExists
  <1>4. \E g : g = [n \in 0 .. MaxTokens |-> Row(Below(g, n), n)]
    BY <1>2, <1>3
  <1>5. Grammar = [n \in 0 .. MaxTokens |-> Row(Below(Grammar, n), n)]
    BY <1>1, <1>4, Zenon
  <1> QED BY <1>5

-----------------------------------------------------------------------------
(***************************************************************************)
(* Token sequences, and what is in the sets the grammar is made of.        *)
(***************************************************************************)
Toks == Tokens \cup {"end"}
Text == Seq(Toks)

\* Pieces of a document, of any length the bound allows.
Fits(s) == s \in Text /\ Len(s) \in 1 .. MaxTokens
IsValue(v) == Fits(v) /\ v \in Grammar[Len(v)].value
AreElements(e) == Fits(e) /\ e \in Grammar[Len(e)].elements
AreMembers(m, x) == Fits(m) /\ x \in Names /\ m \in Grammar[Len(m)].members[x]

LEMMA Joined ==
  ASSUME NEW a \in Text, NEW b \in Text
  PROVE  a \o b \in Text /\ Len(a \o b) = Len(a) + Len(b)
  BY ConcatProperties DEF Text

LEMMA Regrouped ==
  ASSUME NEW a \in Text, NEW b \in Text, NEW c \in Text
  PROVE  (a \o b) \o c = a \o (b \o c)
  BY ConcatAssociative DEF Text

LEMMA OneToken == \A t \in Toks : <<t>> \in Text /\ Len(<<t>>) = 1
  BY DEF Text

LEMMA TwoTokens ==
  ASSUME NEW a \in Toks, NEW b \in Toks
  PROVE  <<a, b>> \in Text /\ Len(<<a, b>>) = 2
  BY DEF Text

LEMMA TwoPieces ==
  ASSUME NEW a \in Toks, NEW b \in Toks
  PROVE  <<a>> \o <<b>> = <<a, b>>
  <1>1. <<a>> \in Seq(Toks) /\ <<b>> \in Seq(Toks) /\ <<a, b>> \in Seq(Toks)
    OBVIOUS
  <1>2. /\ <<a>> \o <<b>> \in Seq(Toks)
        /\ Len(<<a>> \o <<b>>) = 2
        /\ (<<a>> \o <<b>>)[1] = a
        /\ (<<a>> \o <<b>>)[2] = b
    BY <1>1, ConcatProperties
  <1>3. \A i \in 1 .. 2 : (<<a>> \o <<b>>)[i] = <<a, b>>[i]
    BY <1>2
  <1>4. Len(<<a, b>>) = 2
    OBVIOUS
  <1> HIDE DEF Toks
  <1> QED BY <1>1, <1>2, <1>3, <1>4, SeqEqual

\* The punctuation is among the tokens.
LEMMA Punctuation ==
    /\ {"{", "}", "[", "]", ",", ":", "comment", "end"} \subseteq Toks
    /\ Scalars \subseteq Toks /\ Names \subseteq Toks
  BY DEF Toks, Tokens, Scalars, Names

LEMMA Rows ==
  ASSUME NEW n \in 1 .. MaxTokens
  PROVE  \E g : /\ \A k \in 0 .. n - 1 : g[k] = Grammar[k]
               /\ Grammar[n].value = Value(g, n)
               /\ Grammar[n].elements = Elements(g, n)
               /\ \A x \in Names : Grammar[n].members[x] = Members(g, x, n)
  <1> DEFINE g == Below(Grammar, n)
  <1>1. \A k \in 0 .. n - 1 : g[k] = Grammar[k]
    BY DEF Below
  <1>2. n \in 0 .. MaxTokens
    BY JsonReaderAssumption
  <1>3. Grammar[n] = Row(g, n)
    BY <1>2, GrammarRows
  <1> HIDE DEF g
  <1>4. /\ Grammar[n].value = Value(g, n)
        /\ Grammar[n].elements = Elements(g, n)
        /\ \A x \in Names : Grammar[n].members[x] = Members(g, x, n)
    BY <1>3 DEF Row
  <1> QED BY <1>1, <1>4

LEMMA InListed ==
  ASSUME NEW A, NEW B, NEW l
  PROVE  l \in Listed(A, B) <=> \E a \in A, b \in B : l = Comma(a, b)
  BY DEF Listed

LEMMA InElements ==
  ASSUME NEW g, NEW n, NEW l
  PROVE  l \in Elements(g,n) <=>
             \/ l \in Value(g,n)
             \/ \E k \in 0..n-1 : \E e \in g[k].elements, v \in g[n - 1 - k].value : l = Comma(e, v)
  <1>1. l \in Elements(g,n) <=>
             \/ l \in Value(g,n)
             \/ \E k \in 0..n-1 : l \in Listed(g[k].elements, g[n - 1 - k].value)
    BY DEF Elements
  <1> QED BY <1>1, InListed

LEMMA InMember ==
  ASSUME NEW g, NEW n, NEW l, NEW x
  PROVE  l \in Member(g, x, n) <=> ~(n < 3) /\ \E v \in g[n - 2].value : l = <<x, ":">> \o v
  BY DEF Member

LEMMA InMembers ==
  ASSUME NEW g, NEW n, NEW l, NEW x
  PROVE  l \in Members(g, x, n) <=>
             \/ l \in Member(g, x, n)
             \/ \E k \in 0..n-1, y \in Names :
                   \E m \in g[k].members[y], o \in Member(g, x, n - 1 - k) : l = Comma(m, o)
  <1>1. l \in Members(g, x, n) <=>
             \/ l \in Member(g, x, n)
             \/ \E k \in 0..n-1 :
                   l \in Listed(UNION {g[k].members[y] : y \in Names}, Member(g, x, n - 1 - k))
    BY DEF Members
  <1>2. \A k : l \in Listed(UNION {g[k].members[y] : y \in Names}, Member(g, x, n - 1 - k))
               <=> \E m \in UNION {g[k].members[y] : y \in Names} :
                      \E o \in Member(g, x, n - 1 - k) : l = Comma(m, o)
    BY InListed, SMTT(20)
  <1>3. \A k : \A m : m \in UNION {g[k].members[y] : y \in Names}
                        <=> \E y \in Names : m \in g[k].members[y]
    OBVIOUS
  <1>4. \A k : l \in Listed(UNION {g[k].members[y] : y \in Names}, Member(g, x, n - 1 - k))
               <=> \E y \in Names : \E m \in g[k].members[y] :
                      \E o \in Member(g, x, n - 1 - k) : l = Comma(m, o)
    BY <1>2, <1>3, Zenon
  <1> QED BY <1>1, <1>4, Zenon

LEMMA InObjectText ==
  ASSUME NEW g, NEW n, NEW l
  PROVE  l \in InObject(g, n) <=>
            \/ \E x \in Names : l \in g[n - 2].members[x]
            \/ \E m \in g[n - 3].members["emptyString"] : l = m \o <<",">>
  BY DEF InObject

LEMMA InValue ==
  ASSUME NEW g, NEW n, NEW l, n # 0, n # 1, n # 2
  PROVE  l \in Value(g, n) <=>
            \/ \E m \in InObject(g, n) : l = <<"{">> \o m \o <<"}">>
            \/ \E e \in g[n - 2].elements : l = <<"[">> \o e \o <<"]">>
  BY DEF Value

LEMMA Lengths == \A s \in Text : Len(s) \in Nat
  BY LenProperties DEF Text

\* A piece after an opening bracket.
LEMMA Opened ==
  ASSUME NEW a \in Toks, NEW m \in Text
  PROVE  /\ <<a>> \o m \in Text
         /\ Len(<<a>> \o m) = Len(m) + 1
         /\ Len(m) \in Nat
         /\ m \o <<a>> \in Text
         /\ Len(m \o <<a>>) = Len(m) + 1
  <1>1. <<a>> \in Text /\ Len(<<a>>) = 1
    BY OneToken
  <1>2. /\ <<a>> \o m \in Text /\ Len(<<a>> \o m) = 1 + Len(m)
        /\ m \o <<a>> \in Text /\ Len(m \o <<a>>) = Len(m) + 1
    BY <1>1, Joined
  <1> QED BY <1>2, Lengths

LEMMA ValueText == ASSUME NEW v, IsValue(v) PROVE v \in Text /\ Len(v) \in Nat /\ Len(v) >= 1
  BY DEF IsValue, Fits

LEMMA Bracketed ==
  ASSUME NEW a \in Toks, NEW m \in Text, NEW b \in Toks
  PROVE  <<a>> \o m \o <<b>> \in Text /\ Len(<<a>> \o m \o <<b>>) = Len(m) + 2
  <1>1. <<a>> \in Text /\ <<b>> \in Text /\ Len(<<a>>) = 1 /\ Len(<<b>>) = 1
    BY OneToken
  <1>2. <<a>> \o m \in Text /\ Len(<<a>> \o m) = 1 + Len(m)
    BY <1>1, Joined
  <1> QED BY <1>1, <1>2, Lengths, Joined

LEMMA CommaText ==
  ASSUME NEW a \in Text, NEW b \in Text
  PROVE  Comma(a, b) \in Text /\ Len(Comma(a, b)) = Len(a) + 1 + Len(b)
  <1>1. <<",">> \in Text /\ Len(<<",">>) = 1
    BY OneToken, Punctuation
  <1>2. a \o <<",">> \in Text /\ Len(a \o <<",">>) = Len(a) + 1
    BY <1>1, Joined
  <1> QED BY <1>1, <1>2, Joined DEF Comma

LEMMA PairText ==
  ASSUME NEW x \in Names, NEW v \in Text
  PROVE  <<x, ":">> \o v \in Text /\ Len(<<x, ":">> \o v) = Len(v) + 2
  <1>1. <<x, ":">> \in Text /\ Len(<<x, ":">>) = 2
    BY TwoTokens, Punctuation
  <1>2. <<x, ":">> \o v \in Text /\ Len(<<x, ":">> \o v) = 2 + Len(v)
    BY <1>1, Joined
  <1> QED BY <1>2, Lengths

\* One piece of n tokens and its place in the table.
LEMMA Piece ==
  ASSUME NEW s \in Text, NEW n \in 1 .. MaxTokens, Len(s) = n
  PROVE  /\ s \in Grammar[n].value => IsValue(s)
         /\ s \in Grammar[n].elements => AreElements(s)
         /\ \A x \in Names : s \in Grammar[n].members[x] => AreMembers(s, x)
  BY DEF IsValue, AreElements, AreMembers, Fits

-----------------------------------------------------------------------------
(***************************************************************************)
(* The grammar's pieces, put together one by one.                          *)
(***************************************************************************)
LEMMA ScalarIsValue == ASSUME NEW t \in Scalars, MaxTokens >= 1 PROVE IsValue(<<t>>)
  <1>1. 1 \in 1 .. MaxTokens
    BY JsonReaderAssumption
  <1>2. \A g : <<t>> \in Value(g, 1)
    BY DEF Value
  <1>3. <<t>> \in Grammar[1].value
    BY <1>1, <1>2, Rows
  <1>4. <<t>> \in Text /\ Len(<<t>>) = 1
    BY OneToken, Punctuation
  <1> QED BY <1>1, <1>3, <1>4, Piece

LEMMA EmptyIsValue ==
  ASSUME MaxTokens >= 2 PROVE IsValue(<<"{", "}">>) /\ IsValue(<<"[", "]">>)
  <1>1. 2 \in 1 .. MaxTokens
    BY JsonReaderAssumption
  <1>2. PICK g : Grammar[2].value = Value(g, 2)
    BY <1>1, Rows
  <1> DEFINE n == 2
  <1>3. n # 0 /\ n # 1 /\ n = 2
    OBVIOUS
  <1> HIDE DEF n
  <1>4. Value(g, n) = {<<"{", "}">>, <<"[", "]">>}
    BY <1>3, Zenon DEF Value
  <1>5. <<"{", "}">> \in Value(g, 2) /\ <<"[", "]">> \in Value(g, 2)
    BY <1>3, <1>4
  <1>6. /\ <<"{", "}">> \in Text /\ Len(<<"{", "}">>) = 2
        /\ <<"[", "]">> \in Text /\ Len(<<"[", "]">>) = 2
    BY TwoTokens, Punctuation
  <1>7. /\ Len(<<"{", "}">>) \in 1 .. MaxTokens
        /\ Len(<<"[", "]">>) \in 1 .. MaxTokens
    BY <1>1, <1>6
  <1> QED BY <1>2, <1>5, <1>6, <1>7 DEF IsValue, Fits

LEMMA ObjectIsValue ==
  ASSUME NEW m, NEW x, AreMembers(m, x), Len(m) + 2 <= MaxTokens
  PROVE  IsValue(<<"{">> \o m \o <<"}">>)
  <1> DEFINE n == Len(m) + 2
  <1>1. /\ m \in Text /\ n \in 1 .. MaxTokens /\ n # 0 /\ n # 1 /\ n # 2
        /\ n - 2 = Len(m) /\ n - 2 \in 0 .. n - 1
    BY JsonReaderAssumption DEF AreMembers, Fits
  <1>2. m \in Grammar[n - 2].members[x] /\ x \in Names
    BY <1>1 DEF AreMembers
  <1>3. <<"{">> \o m \o <<"}">> \in Text /\ Len(<<"{">> \o m \o <<"}">>) = n
    <2>1. "{" \in Toks /\ "}" \in Toks
      BY Punctuation
    <2>2. /\ <<"{">> \o m \o <<"}">> \in Text
          /\ Len(<<"{">> \o m \o <<"}">>) = Len(m) + 2
      BY <1>1, <2>1, Bracketed
    <2> QED BY <2>2
  <1> HIDE DEF n
  <1> PICK g : /\ \A k \in 0 .. n - 1 : g[k] = Grammar[k]
               /\ Grammar[n].value = Value(g, n)
    BY <1>1, Rows
  <1>4. m \in g[n - 2].members[x]
    BY <1>1, <1>2
  <1>5. m \in InObject(g, n)
    BY <1>2, <1>4, InObjectText
  <1>6. <<"{">> \o m \o <<"}">> \in Value(g, n)
    BY <1>1, <1>5, InValue
  <1> QED BY <1>1, <1>3, <1>6, Piece

\* The liberty: a comma after a member with an empty name.
LEMMA LooseObjectIsValue ==
  ASSUME NEW m, AreMembers(m, "emptyString"), Len(m) + 3 <= MaxTokens
  PROVE  IsValue(<<"{">> \o (m \o <<",">>) \o <<"}">>)
  <1> DEFINE n == Len(m) + 3
             l == m \o <<",">>
  <1>1. /\ m \in Text /\ n \in 1 .. MaxTokens /\ n # 0 /\ n # 1 /\ n # 2
        /\ n - 3 = Len(m) /\ n - 3 \in 0 .. n - 1
    BY JsonReaderAssumption DEF AreMembers, Fits
  <1>2. m \in Grammar[n - 3].members["emptyString"]
    BY <1>1 DEF AreMembers
  <1>3. l \in Text /\ Len(l) = Len(m) + 1
    BY <1>1, OneToken, Joined, Punctuation
  <1> HIDE DEF l
  <1>4. Len(l) + 2 = n
    BY <1>1, <1>3
  <1>5. <<"{">> \o l \o <<"}">> \in Text /\ Len(<<"{">> \o l \o <<"}">>) = Len(l) + 2
    <2>1. "{" \in Toks /\ "}" \in Toks
      BY Punctuation
    <2>2. /\ <<"{">> \o l \o <<"}">> \in Text
          /\ Len(<<"{">> \o l \o <<"}">>) = Len(l) + 2
      BY <1>3, <2>1, Bracketed
    <2> QED BY <2>2
  <1> HIDE DEF n
  <1> PICK g : /\ \A k \in 0 .. n - 1 : g[k] = Grammar[k]
               /\ Grammar[n].value = Value(g, n)
    BY <1>1, Rows
  <1>6. m \in g[n - 3].members["emptyString"]
    BY <1>1, <1>2
  <1>7. l \in InObject(g, n)
    BY <1>6, InObjectText DEF l
  <1>8. <<"{">> \o l \o <<"}">> \in Value(g, n)
    BY <1>1, <1>7, InValue
  <1>9. IsValue(<<"{">> \o l \o <<"}">>)
    BY <1>1, <1>4, <1>5, <1>8, Piece
  <1> QED BY <1>9 DEF l

LEMMA ArrayIsValue ==
  ASSUME NEW e, AreElements(e), Len(e) + 2 <= MaxTokens
  PROVE  IsValue(<<"[">> \o e \o <<"]">>)
  <1> DEFINE n == Len(e) + 2
  <1>1. /\ e \in Text /\ n \in 1 .. MaxTokens /\ n # 0 /\ n # 1 /\ n # 2
        /\ n - 2 = Len(e) /\ n - 2 \in 0 .. n - 1
    BY JsonReaderAssumption DEF AreElements, Fits
  <1>2. e \in Grammar[n - 2].elements
    BY <1>1 DEF AreElements
  <1>3. <<"[">> \o e \o <<"]">> \in Text /\ Len(<<"[">> \o e \o <<"]">>) = n
    BY <1>1, Bracketed, Punctuation
  <1> HIDE DEF n
  <1> PICK g : /\ \A k \in 0 .. n - 1 : g[k] = Grammar[k]
               /\ Grammar[n].value = Value(g, n)
    BY <1>1, Rows
  <1>4. e \in g[n - 2].elements
    BY <1>1, <1>2
  <1>5. <<"[">> \o e \o <<"]">> \in Value(g, n)
    BY <1>1, <1>4, InValue
  <1> QED BY <1>1, <1>3, <1>5, Piece

LEMMA ValueIsElements == ASSUME NEW v, IsValue(v) PROVE AreElements(v)
  <1> DEFINE n == Len(v)
  <1>1. v \in Text /\ n \in 1 .. MaxTokens /\ v \in Grammar[n].value /\ Len(v) = n
    BY DEF IsValue, Fits
  <1> HIDE DEF n
  <1> PICK g : Grammar[n].value = Value(g, n) /\ Grammar[n].elements = Elements(g, n)
    BY <1>1, Rows
  <1>2. v \in Grammar[n].elements
    BY <1>1, InElements
  <1> QED BY <1>1, <1>2, Piece

LEMMA OneMoreElement ==
  ASSUME NEW e, AreElements(e), NEW v, IsValue(v), Len(e) + 1 + Len(v) <= MaxTokens
  PROVE  AreElements(Comma(e, v))
  <1> DEFINE k == Len(e)
             j == Len(v)
             n == k + 1 + j
  <1>1. /\ e \in Text /\ v \in Text /\ n \in 1 .. MaxTokens
        /\ k \in 0 .. n - 1 /\ j \in 0 .. n - 1 /\ n - 1 - k = j
    BY JsonReaderAssumption DEF AreElements, IsValue, Fits
  <1>2. Comma(e, v) \in Text /\ Len(Comma(e, v)) = n
    BY <1>1, CommaText
  <1>3. e \in Grammar[k].elements /\ v \in Grammar[j].value
    BY DEF AreElements, IsValue
  <1> HIDE DEF k, j, n
  <1> PICK g : /\ \A i \in 0 .. n - 1 : g[i] = Grammar[i]
               /\ Grammar[n].elements = Elements(g, n)
    BY <1>1, Rows
  <1>4. e \in g[k].elements /\ v \in g[n - 1 - k].value
    BY <1>1, <1>3
  <1>5. Comma(e, v) \in Elements(g, n)
    BY <1>1, <1>4, InElements
  <1> QED BY <1>1, <1>2, <1>5, Piece

\* A name, a colon and a value.
LEMMA PairInTable ==
  ASSUME NEW g, NEW v, NEW x, IsValue(v), g[Len(v)] = Grammar[Len(v)]
  PROVE  <<x, ":">> \o v \in Member(g, x, Len(v) + 2)
  <1> DEFINE i == Len(v) + 2
  <1>1. ~(i < 3) /\ i - 2 = Len(v) /\ v \in Grammar[Len(v)].value
    BY DEF IsValue, Fits
  <1> HIDE DEF i
  <1>2. v \in g[i - 2].value
    BY <1>1
  <1>3. <<x, ":">> \o v \in Member(g, x, i)
    BY <1>1, <1>2, InMember
  <1> QED BY <1>3 DEF i

LEMMA ValueIsMembers ==
  ASSUME NEW v, NEW x \in Names, IsValue(v), Len(v) + 2 <= MaxTokens
  PROVE  AreMembers(<<x, ":">> \o v, x)
  <1> DEFINE n == Len(v) + 2
  <1>1. v \in Text /\ n \in 1 .. MaxTokens /\ Len(v) \in 0 .. n - 1
    BY JsonReaderAssumption DEF IsValue, Fits
  <1>2. <<x, ":">> \o v \in Text /\ Len(<<x, ":">> \o v) = n
    BY <1>1, PairText
  <1>3. n = Len(v) + 2
    OBVIOUS
  <1> HIDE DEF n
  <1> PICK g : /\ \A i \in 0 .. n - 1 : g[i] = Grammar[i]
               /\ \A y \in Names : Grammar[n].members[y] = Members(g, y, n)
    BY <1>1, Rows
  <1>4. <<x, ":">> \o v \in Member(g, x, n)
    BY <1>1, <1>3, PairInTable
  <1>5. <<x, ":">> \o v \in Grammar[n].members[x]
    BY <1>4, InMembers
  <1> QED BY <1>1, <1>2, <1>5, Piece

LEMMA OneMoreMember ==
  ASSUME NEW m, NEW y, AreMembers(m, y), NEW v, NEW x \in Names, IsValue(v),
         Len(m) + 3 + Len(v) <= MaxTokens
  PROVE  AreMembers(Comma(m, <<x, ":">> \o v), x)
  <1> DEFINE k == Len(m)
             j == Len(v) + 2
             n == k + 1 + j
             o == <<x, ":">> \o v
  <1>1. /\ m \in Text /\ v \in Text /\ n \in 1 .. MaxTokens
        /\ k \in 0 .. n - 1 /\ Len(v) \in 0 .. n - 1 /\ n - 1 - k = j /\ j = Len(v) + 2
    BY JsonReaderAssumption DEF AreMembers, IsValue, Fits
  <1>2. o \in Text /\ Len(o) = j
    BY <1>1, PairText
  <1>3. m \in Grammar[k].members[y] /\ y \in Names
    BY DEF AreMembers
  <1> HIDE DEF o
  <1>4. Comma(m, o) \in Text /\ Len(Comma(m, o)) = n
    BY <1>1, <1>2, CommaText
  <1> HIDE DEF k, j, n
  <1> PICK g : /\ \A i \in 0 .. n - 1 : g[i] = Grammar[i]
               /\ \A z \in Names : Grammar[n].members[z] = Members(g, z, n)
    BY <1>1, Rows
  <1>5. m \in g[k].members[y]
    BY <1>1, <1>3
  <1>6. o \in Member(g, x, n - 1 - k)
    BY <1>1, PairInTable DEF o
  <1>7. Comma(m, o) \in Members(g, x, n)
    BY <1>1, <1>3, <1>5, <1>6, InMembers
  <1>8. AreMembers(Comma(m, o), x)
    BY <1>1, <1>4, <1>7, Piece
  <1> QED BY <1>8 DEF o

-----------------------------------------------------------------------------
(***************************************************************************)
(* What a call f under way has read, from its opening bracket on, by the   *)
(* stage it is at.  The name of a member that was read last is f's.        *)
(***************************************************************************)
DocBegun(f, s) ==
    /\ f.kind = "object"
    /\ \/ s = <<"{">> /\ f.name = "empty"
       \/ \E m \in Text, x \in Names : /\ AreMembers(m, x)
                                       /\ DecodedName(x) = f.name
                                       /\ s = <<"{">> \o (m \o <<",">>)

Named(f, s) ==
    /\ f.kind = "object"
    /\ \E b \in Text, e \in Frame, x \in Names :
          DocBegun(e, b) /\ DecodedName(x) = f.name /\ s = b \o <<x>>

AtMember(f, s) ==
    /\ f.kind = "object"
    /\ \E b \in Text, e \in Frame, x \in Names :
          DocBegun(e, b) /\ DecodedName(x) = f.name /\ s = b \o <<x, ":">>

AfterMember(f, s) ==
    /\ f.kind = "object"
    /\ \E m \in Text, x \in Names :
          AreMembers(m, x) /\ DecodedName(x) = f.name /\ s = <<"{">> \o m

AtElement(f, s) ==
    /\ f.kind = "array"
    /\ s = <<"[">> \/ \E e \in Text : AreElements(e) /\ s = <<"[">> \o (e \o <<",">>)

AfterElement(f, s) ==
    /\ f.kind = "array"
    /\ \E e \in Text : AreElements(e) /\ s = <<"[">> \o e

LEMMA MemberRead ==
  ASSUME NEW f, NEW s \in Text, AtMember(f, s), NEW v, IsValue(v),
         Len(s) + Len(v) <= MaxTokens
  PROVE  AfterMember(f, s \o v)
  <1>1. PICK b \in Text, e \in Frame, x \in Names :
           DocBegun(e, b) /\ DecodedName(x) = f.name /\ s = b \o <<x, ":">>
    BY DEF AtMember
  <1> DEFINE c == <<x, ":">>
             o == c \o v
  <1>2. c \in Text /\ Len(c) = 2
    BY TwoTokens, Punctuation
  <1>3. v \in Text /\ o \in Text /\ Len(o) = Len(v) + 2 /\ Len(v) \in Nat
    BY PairText, ValueText
  <1>4. s = b \o c
    BY <1>1
  <1> HIDE DEF c
  <1>5. s \o v = b \o o
    BY <1>2, <1>3, <1>4, Regrouped
  <1>6. Len(s) = Len(b) + 2 /\ Len(b) \in Nat
    BY <1>2, <1>4, Joined, Lengths
  <1>7. "{" \in Toks /\ "," \in Toks
    BY Punctuation
  <1>8. CASE b = <<"{">>
    <2>1. Len(b) = 1
      BY <1>7, <1>8, OneToken
    <2>2. Len(v) + 2 <= MaxTokens
      BY <1>3, <1>6, <2>1, JsonReaderAssumption
    <2>3. AreMembers(o, x)
      BY <2>2, ValueIsMembers DEF c
    <2>4. s \o v = <<"{">> \o o
      BY <1>5, <1>8
    <2> HIDE DEF o
    <2> QED BY <1>1, <1>3, <2>3, <2>4 DEF AfterMember, AtMember
  <1>9. ASSUME NEW m \in Text, NEW y \in Names, AreMembers(m, y),
               b = <<"{">> \o (m \o <<",">>)
        PROVE  AfterMember(f, s \o v)
    <2> DEFINE l == m \o <<",">>
    <2>1. Comma(m, o) = l \o o
      BY DEF Comma
    <2>2. l \in Text /\ Len(l) = Len(m) + 1 /\ Len(m) \in Nat
      BY <1>7, Opened
    <2> DEFINE begin == <<"{">>
    <2>3. begin \in Text
      BY <1>7, OneToken
    <2>4. b = begin \o l
      BY <1>9
    <2> HIDE DEF o, l
    <2>5. Len(b) = Len(l) + 1
      BY <1>7, <2>2, <2>4, Opened
    <2> HIDE DEF begin
    <2>6. s \o v = begin \o Comma(m, o)
      <3>1. (begin \o l) \o o = begin \o (l \o o)
        BY <1>3, <2>2, <2>3, Regrouped
      <3> QED BY <1>5, <2>1, <2>4, <3>1
    <2>7. Len(m) + 3 + Len(v) <= MaxTokens
      BY <1>3, <1>6, <2>2, <2>5, JsonReaderAssumption
    <2>8. AreMembers(Comma(m, o), x)
      BY <1>9, <2>7, OneMoreMember DEF o, c
    <2>9. Comma(m, o) \in Text
      BY <1>3, CommaText
    <2> QED BY <1>1, <2>6, <2>8, <2>9 DEF AfterMember, AtMember, begin
  <1> QED BY <1>1, <1>8, <1>9 DEF DocBegun

LEMMA ElementRead ==
  ASSUME NEW f, NEW s \in Text, AtElement(f, s), NEW v, IsValue(v),
         Len(s) + Len(v) <= MaxTokens
  PROVE  AfterElement(f, s \o v)
  <1>1. v \in Text /\ Len(v) \in Nat
    BY ValueText
  <1>2. "[" \in Toks /\ "," \in Toks
    BY Punctuation
  <1>3. CASE s = <<"[">>
    BY <1>1, <1>3, ValueIsElements DEF AtElement, AfterElement
  <1>4. ASSUME NEW e \in Text, AreElements(e), s = <<"[">> \o (e \o <<",">>)
        PROVE  AfterElement(f, s \o v)
    <2> DEFINE l == e \o <<",">>
               begin == <<"[">>
    <2>1. Comma(e, v) = l \o v
      BY DEF Comma
    <2>2. l \in Text /\ Len(l) = Len(e) + 1 /\ Len(e) \in Nat
      BY <1>2, Opened
    <2>3. begin \in Text
      BY <1>2, OneToken
    <2>4. s = begin \o l
      BY <1>4
    <2> HIDE DEF l
    <2>5. Len(s) = Len(l) + 1
      BY <1>2, <2>2, <2>4, Opened
    <2> HIDE DEF begin
    <2>6. s \o v = begin \o Comma(e, v)
      BY <1>1, <2>1, <2>2, <2>3, <2>4, Regrouped
    <2>7. Len(e) + 1 + Len(v) <= MaxTokens
      BY <1>1, <2>2, <2>5, JsonReaderAssumption
    <2>8. AreElements(Comma(e, v))
      BY <1>4, <2>7, OneMoreElement
    <2>9. Comma(e, v) \in Text
      BY <1>1, CommaText
    <2> QED BY <2>6, <2>8, <2>9 DEF AfterElement, AtElement, begin
  <1> QED BY <1>3, <1>4 DEF AtElement

\* What a closing bracket makes of the text before it.
LEMMA ObjectCloses ==
  ASSUME NEW f, NEW s \in Text, Len(s) + 1 <= MaxTokens,
         AfterMember(f, s) \/ (DocBegun(f, s) /\ f.name = "empty")
  PROVE  IsValue(s \o <<"}">>)
  <1>1. "{" \in Toks /\ "," \in Toks
    BY Punctuation
  <1>2. ASSUME NEW m \in Text, NEW x \in Names, AreMembers(m, x), s = <<"{">> \o m
        PROVE  IsValue(s \o <<"}">>)
    <2>1. Len(s) = Len(m) + 1 /\ Len(m) \in Nat
      BY <1>1, <1>2, Opened
    <2>2. Len(m) + 2 <= MaxTokens
      BY <2>1
    <2> QED BY <1>2, <2>2, ObjectIsValue
  <1>3. ASSUME NEW m \in Text, AreMembers(m, "emptyString"), s = <<"{">> \o (m \o <<",">>)
        PROVE  IsValue(s \o <<"}">>)
    <2> DEFINE l == m \o <<",">>
    <2>1. l \in Text /\ Len(l) = Len(m) + 1 /\ Len(m) \in Nat
      BY <1>1, Opened
    <2>2. s = <<"{">> \o l
      BY <1>3
    <2> HIDE DEF l
    <2>3. Len(s) = Len(l) + 1
      BY <1>1, <2>1, <2>2, Opened
    <2>4. Len(m) + 3 <= MaxTokens
      BY <2>1, <2>3
    <2> QED BY <1>3, <2>4, LooseObjectIsValue
  <1>4. CASE s = <<"{">>
    <2>1. <<"{">> \o <<"}">> = <<"{", "}">>
      BY TwoPieces, Punctuation
    <2>2. Len(s) = 1
      BY <1>1, <1>4, OneToken
    <2>3. MaxTokens >= 2
      BY <2>2, JsonReaderAssumption
    <2> QED BY <1>4, <2>1, <2>3, EmptyIsValue
  <1>5. ASSUME NEW x \in Names, DecodedName(x) = "empty" PROVE x = "emptyString"
    BY <1>5 DEF DecodedName, Names
  <1> QED BY <1>2, <1>3, <1>4, <1>5 DEF AfterMember, DocBegun

LEMMA ArrayCloses ==
  ASSUME NEW f, NEW s \in Text, Len(s) + 1 <= MaxTokens, AfterElement(f, s) \/ s = <<"[">>
  PROVE  IsValue(s \o <<"]">>)
  <1>1. "[" \in Toks
    BY Punctuation
  <1>2. ASSUME NEW e \in Text, AreElements(e), s = <<"[">> \o e
        PROVE  IsValue(s \o <<"]">>)
    <2>1. Len(s) = Len(e) + 1 /\ Len(e) \in Nat
      BY <1>1, <1>2, Opened
    <2>2. Len(e) + 2 <= MaxTokens
      BY <2>1
    <2> QED BY <1>2, <2>2, ArrayIsValue
  <1>3. CASE s = <<"[">>
    <2>1. <<"[">> \o <<"]">> = <<"[", "]">>
      BY TwoPieces, Punctuation
    <2>2. Len(s) = 1
      BY <1>1, <1>3, OneToken
    <2>3. MaxTokens >= 2
      BY <2>2, JsonReaderAssumption
    <2> QED BY <1>3, <2>1, <2>3, EmptyIsValue
  <1> QED BY <1>2, <1>3 DEF AfterElement

-----------------------------------------------------------------------------
(***************************************************************************)
(* The calls under way divide what has been read: each has read a text up  *)
(* to its child, the last of them up to here.                              *)
(***************************************************************************)
AtChild(f, s) == AtMember(f, s) \/ AtElement(f, s)

\* r is the text of the calls fs, each with its child still to come.
Open(fs, r) ==
    \E p \in Seq(Text) :
        /\ Len(p) = Len(fs) + 1
        /\ p[1] = <<>>
        /\ p[Len(fs) + 1] = r
        /\ \A i \in 1 .. Len(fs) :
              \E s \in Text : AtChild(fs[i], s) /\ p[i + 1] = p[i] \o s

LEMMA OpenNothing ==
  /\ Open(<<>>, <<>>)
  /\ \A r : Open(<<>>, r) => r = <<>>
  <1> DEFINE p == <<  <<>>  >>
  <1>1. p \in Seq(Text) /\ Len(p) = 1 /\ p[1] = <<>>
    BY EmptySeq DEF Text
  <1>2. Len(<<>>) = 0 /\ 0 + 1 = 1 /\ 1 .. 0 = {}
    BY EmptySeq
  <1> HIDE DEF p
  <1>3. Open(<<>>, <<>>)
    BY <1>1, <1>2 DEF Open
  <1> QED BY <1>2, <1>3 DEF Open

LEMMA OpenOneMore ==
  ASSUME NEW fs \in Seq(Frame), NEW r \in Text, Open(fs, r), NEW f \in Frame,
         NEW s \in Text, AtChild(f, s)
  PROVE  Open(Append(fs, f), r \o s)
  <1> DEFINE n == Len(fs)
             gs == Append(fs, f)
             q == r \o s
  <1>1. PICK p \in Seq(Text) :
            /\ Len(p) = n + 1
            /\ p[1] = <<>>
            /\ p[n + 1] = r
            /\ \A i \in 1 .. n : \E u \in Text : AtChild(fs[i], u) /\ p[i + 1] = p[i] \o u
    BY DEF Open
  <1>2. n \in Nat /\ gs \in Seq(Frame) /\ Len(gs) = n + 1 /\ gs[n + 1] = f
        /\ \A i \in 1 .. n : gs[i] = fs[i]
    BY AppendProperties, LenProperties
  <1>3. q \in Text
    BY Joined
  <1> DEFINE pp == Append(p, q)
  <1> HIDE DEF q, n, gs
  <1>4. pp \in Seq(Text) /\ Len(pp) = (n + 1) + 1 /\ pp[(n + 1) + 1] = q
        /\ \A i \in 1 .. n + 1 : pp[i] = p[i]
    BY <1>1, <1>2, <1>3, AppendProperties
  <1> HIDE DEF pp
  <1>5. 1 \in 1 .. n + 1 /\ n + 1 \in 1 .. n + 1
    BY <1>2
  <1>6. pp[1] = <<>> /\ pp[n + 1] = r
    BY <1>1, <1>4, <1>5
  <1>7. ASSUME NEW i \in 1 .. n + 1
        PROVE  \E u \in Text : AtChild(gs[i], u) /\ pp[i + 1] = pp[i] \o u
    <2>1. CASE i = n + 1
      BY <1>2, <1>4, <1>6, <2>1 DEF q
    <2>2. CASE i # n + 1
      <3>1. i \in 1 .. n /\ i + 1 \in 1 .. n + 1
        BY <1>2, <2>2
      <3>2. PICK u \in Text : AtChild(fs[i], u) /\ p[i + 1] = p[i] \o u
        BY <1>1, <3>1
      <3> QED BY <1>2, <1>4, <3>1, <3>2
    <2> QED BY <2>1, <2>2
  <1>8. /\ Len(pp) = Len(gs) + 1 /\ pp[Len(gs) + 1] = q
        /\ \A i \in 1 .. Len(gs) :
              \E u \in Text : AtChild(gs[i], u) /\ pp[i + 1] = pp[i] \o u
    <2>1. Len(gs) = n + 1
      BY <1>2
    <2> QED BY <1>4, <1>7, <2>1, Zenon
  <1>9. Open(gs, q)
    BY <1>4, <1>6, <1>8, Zenon DEF Open
  <1> QED BY <1>9 DEF gs, q

LEMMA OpenInnermost ==
  ASSUME NEW fs \in Seq(Frame), fs # <<>>, NEW r \in Text, Open(fs, r)
  PROVE  \E b \in Text, s \in Text :
            Open(Front(fs), b) /\ r = b \o s /\ AtChild(Last(fs), s)
  <1> DEFINE n == Len(fs) - 1
             gs == Front(fs)
  <1>1. n \in Nat /\ n + 1 = Len(fs) /\ n + 1 \in 1 .. n + 1
    BY EmptySeq
  <1>2. Last(fs) = fs[n + 1]
    BY <1>1 DEF Last
  <1>3. Len(gs) = n /\ \A i \in 1 .. n : gs[i] = fs[i]
    <2>1. \A i \in 1 .. n : fs[i] \in Frame
      BY <1>1
    <2> HIDE DEF n
    <2>2. gs = SubSeq(fs, 1, n)
      BY DEF Front, n
    <2>3. /\ Len(SubSeq(fs, 1, n)) = IF 1 <= n THEN n - 1 + 1 ELSE 0
          /\ \A i \in 1 .. n - 1 + 1 : SubSeq(fs, 1, n)[i] = fs[1 + i - 1]
      BY <1>1, <2>1, SubSeqProperties
    <2> HIDE DEF gs
    <2>4. \A i \in 1 .. n : 1 + i - 1 = i
      BY <1>1
    <2> QED BY <1>1, <2>2, <2>3, <2>4
  <1> HIDE DEF n, gs
  <1>4. PICK p \in Seq(Text) :
            /\ Len(p) = (n + 1) + 1
            /\ p[1] = <<>>
            /\ p[(n + 1) + 1] = r
            /\ \A i \in 1 .. n + 1 : \E u \in Text : AtChild(fs[i], u) /\ p[i + 1] = p[i] \o u
    BY <1>1 DEF Open
  <1>5. PICK s \in Text : AtChild(fs[n + 1], s) /\ r = p[n + 1] \o s
    BY <1>1, <1>4
  <1> DEFINE q == SubSeq(p, 1, n + 1)
  <1>6. q \in Seq(Text) /\ Len(q) = n + 1 /\ \A i \in 1 .. n + 1 : q[i] = p[i]
    <2> DEFINE k == n + 1
    <2>1. k \in Nat /\ k \in Int /\ 1 <= k /\ k - 1 + 1 = k /\ k <= Len(p)
      BY <1>1, <1>4
    <2>2. \A i \in 1 .. k : p[i] \in Text
      BY <1>4, <2>1
    <2> HIDE DEF k
    <2>3. /\ SubSeq(p, 1, k) \in Seq(Text)
          /\ Len(SubSeq(p, 1, k)) = IF 1 <= k THEN k - 1 + 1 ELSE 0
          /\ \A i \in 1 .. k - 1 + 1 : SubSeq(p, 1, k)[i] = p[1 + i - 1]
      BY <2>1, <2>2, SubSeqProperties
    <2>4. \A i \in 1 .. k : 1 + i - 1 = i
      BY <2>1
    <2>5. Len(SubSeq(p, 1, k)) = k /\ \A i \in 1 .. k : SubSeq(p, 1, k)[i] = p[i]
      BY <2>1, <2>3, <2>4
    <2> QED BY <2>3, <2>5 DEF k
  <1> HIDE DEF q
  <1>7. p[n + 1] \in Text
    BY <1>1, <1>4
  <1>8. q[1] = <<>> /\ q[n + 1] = p[n + 1]
    BY <1>1, <1>4, <1>6
  <1>9. ASSUME NEW i \in 1 .. n
        PROVE  \E u \in Text : AtChild(gs[i], u) /\ q[i + 1] = q[i] \o u
    <2>1. i \in 1 .. n + 1 /\ i + 1 \in 1 .. n + 1
      BY <1>1
    <2>2. PICK u \in Text : AtChild(fs[i], u) /\ p[i + 1] = p[i] \o u
      BY <1>4, <2>1
    <2> QED BY <1>3, <1>6, <2>1, <2>2
  <1>10. Open(gs, p[n + 1])
    BY <1>3, <1>6, <1>8, <1>9 DEF Open
  <1> QED BY <1>2, <1>5, <1>7, <1>10 DEF gs

-----------------------------------------------------------------------------
(***************************************************************************)
(* The innermost call.                                                     *)
(***************************************************************************)
LEMMA FrontLast ==
  ASSUME NEW fs \in Seq(Frame), fs # <<>>
  PROVE  /\ Len(fs) \in Nat \ {0}
         /\ Last(fs) \in Frame
         /\ Front(fs) \in Seq(Frame)
         /\ Len(Front(fs)) = Len(fs) - 1
         /\ \A i \in 1 .. Len(fs) - 1 : Front(fs)[i] = fs[i]
  <1> DEFINE n == Len(fs) - 1
  <1>1. Len(fs) \in Nat \ {0} /\ n \in Nat /\ n \in Int /\ Len(fs) \in 1 .. Len(fs)
    BY EmptySeq
  <1>2. Last(fs) \in Frame
    BY <1>1 DEF Last
  <1>3. \A i \in 1 .. n : fs[i] \in Frame
    BY <1>1
  <1>4. Front(fs) = SubSeq(fs, 1, n)
    BY DEF Front
  <1>5. n = Len(fs) - 1
    OBVIOUS
  <1> HIDE DEF n
  <1>6. /\ SubSeq(fs, 1, n) \in Seq(Frame)
        /\ Len(SubSeq(fs, 1, n)) = IF 1 <= n THEN n - 1 + 1 ELSE 0
        /\ \A i \in 1 .. n - 1 + 1 : SubSeq(fs, 1, n)[i] = fs[1 + i - 1]
    BY <1>1, <1>3, SubSeqProperties
  <1>7. /\ (IF 1 <= n THEN n - 1 + 1 ELSE 0) = n
        /\ \A i \in 1 .. n : i \in 1 .. n - 1 + 1 /\ 1 + i - 1 = i
    BY <1>1
  <1>8. Len(Front(fs)) = n /\ \A i \in 1 .. n : Front(fs)[i] = fs[i]
    BY <1>4, <1>6, <1>7
  <1> QED BY <1>1, <1>2, <1>4, <1>5, <1>6, <1>8

LEMMA SameCalls ==
  ASSUME NEW fs \in Seq(Frame), NEW gs \in Seq(Frame), NEW n \in Nat, Len(fs) = n, Len(gs) = n,
         \A i \in 1 .. n : fs[i] = gs[i]
  PROVE  fs = gs
  BY SeqEqual

LEMMA FrontThenLast ==
  ASSUME NEW fs \in Seq(Frame), fs # <<>>
  PROVE  Append(Front(fs), Last(fs)) = fs
  <1> DEFINE n == Len(fs) - 1
             gs == Front(fs)
             f == Last(fs)
  <1>1. /\ n + 1 = Len(fs) /\ n \in Nat /\ f \in Frame /\ gs \in Seq(Frame) /\ Len(gs) = n
        /\ \A i \in 1 .. n : gs[i] = fs[i]
    BY FrontLast
  <1>2. f = fs[n + 1]
    BY <1>1 DEF Last
  <1> HIDE DEF n, gs, f
  <1>3. /\ Append(gs, f) \in Seq(Frame) /\ Len(Append(gs, f)) = n + 1
        /\ \A i \in 1 .. n : Append(gs, f)[i] = gs[i]
        /\ Append(gs, f)[n + 1] = f
    BY <1>1, AppendProperties
  <1>4. ASSUME NEW i \in 1 .. n + 1 PROVE Append(gs, f)[i] = fs[i]
    <2>1. i \in 1 .. n \/ i = n + 1
      BY <1>1
    <2> QED BY <1>1, <1>2, <1>3, <2>1
  <1>5. n + 1 \in Nat
    BY <1>1
  <1>6. Append(gs, f) = fs
    BY <1>1, <1>3, <1>4, <1>5, SameCalls
  <1> QED BY <1>6 DEF gs, f

LEMMA AppendedCall ==
  ASSUME NEW fs \in Seq(Frame), NEW f \in Frame
  PROVE  Front(Append(fs, f)) = fs /\ Last(Append(fs, f)) = f
  <1> DEFINE gs == Append(fs, f)
             n == Len(fs)
  <1>1. /\ n \in Nat /\ gs \in Seq(Frame) /\ Len(gs) = n + 1 /\ gs # <<>> /\ gs[n + 1] = f
        /\ \A i \in 1 .. n : gs[i] = fs[i]
    BY LenProperties, AppendProperties
  <1>2. Len(fs) = n
    OBVIOUS
  <1> HIDE DEF gs, n
  <1>3. Len(gs) - 1 = n
    BY <1>1
  <1>4. Front(gs) \in Seq(Frame) /\ Len(Front(gs)) = n /\ \A i \in 1 .. n : Front(gs)[i] = gs[i]
    <2>1. /\ Front(gs) \in Seq(Frame) /\ Len(Front(gs)) = Len(gs) - 1
          /\ \A i \in 1 .. Len(gs) - 1 : Front(gs)[i] = gs[i]
      BY <1>1, FrontLast
    <2> QED BY <1>3, <2>1
  <1>5. Front(gs) = fs
    BY <1>1, <1>2, <1>4, SameCalls
  <1>6. Last(gs) = f
    BY <1>1 DEF Last
  <1> QED BY <1>5, <1>6 DEF gs

LEMMA RenamedCall ==
  ASSUME NEW fs \in Seq(Frame), fs # <<>>, NEW f \in Frame
  PROVE  /\ Front([fs EXCEPT ![Len(fs)] = f]) = Front(fs)
         /\ Last([fs EXCEPT ![Len(fs)] = f]) = f
  <1> DEFINE n == Len(fs)
             gs == [fs EXCEPT ![n] = f]
  <1>1. n \in Nat \ {0} /\ n \in 1 .. n /\ n \in 1 .. Len(fs) /\ n - 1 \in Nat
    BY FrontLast
  <1>2. Len(fs) = n
    OBVIOUS
  <1> HIDE DEF n
  <1>3. /\ gs \in Seq(Frame) /\ Len(gs) = n
        /\ \A i \in 1 .. n : gs[i] = IF i = n THEN f ELSE fs[i]
    BY <1>1, <1>2, ExceptSeq
  <1> HIDE DEF gs
  <1>4. gs # <<>>
    BY <1>1, <1>3, EmptySeq
  <1>5. /\ Front(gs) \in Seq(Frame) /\ Len(Front(gs)) = n - 1
        /\ \A i \in 1 .. n - 1 : Front(gs)[i] = gs[i]
    BY <1>3, <1>4, FrontLast
  <1>6. /\ Front(fs) \in Seq(Frame) /\ Len(Front(fs)) = n - 1
        /\ \A i \in 1 .. n - 1 : Front(fs)[i] = fs[i]
    BY <1>2, FrontLast
  <1>7. ASSUME NEW i \in 1 .. n - 1 PROVE Front(gs)[i] = Front(fs)[i]
    <2>1. i \in 1 .. n /\ i # n
      BY <1>1
    <2> QED BY <1>3, <1>5, <1>6, <2>1
  <1>8. Front(gs) = Front(fs)
    BY <1>1, <1>5, <1>6, <1>7, SameCalls
  <1>9. Last(gs) = f
    BY <1>1, <1>3 DEF Last
  <1> QED BY <1>8, <1>9 DEF gs, n

-----------------------------------------------------------------------------
(***************************************************************************)
(* Where a parse without comments stands in the document it has read.      *)
(***************************************************************************)
Early == {"value", "name", "colon", "comma", "first", "next"}

\* The text f has read when it is at this stage.
Here(at, f, s) ==
    \/ at = "name" /\ DocBegun(f, s)
    \/ at = "colon" /\ Named(f, s)
    \/ at = "comma" /\ AfterMember(f, s)
    \/ at = "first" /\ f.kind = "array" /\ s = <<"[">>
    \/ at = "next" /\ AfterElement(f, s)

\* The bound on the document bounds what is read.
Counted == Len(read) + (IF ahead \in {None, "end"} THEN 0 ELSE 1) <= count

Told ==
    /\ stage # "afterComment"
    /\ stage \in Early => Counted
    /\ stage = "value" => Open(frames, read)
    /\ stage \in Early \ {"value"} =>
          \E b, s \in Text : Open(Front(frames), b) /\ read = b \o s
                             /\ Here(stage, Last(frames), s)
    /\ stage = "rest" /\ result = "ok" => IsValue(read)

Story == Plain => Told

LEMMA ReadsToken ==
  ASSUME Input, Counted, NEW t, t # "end", Read(t)
  PROVE  /\ t \in Toks /\ read \in Text /\ <<t>> \in Text /\ Len(<<t>>) = 1
         /\ read' = read \o <<t>>
         /\ Len(read) + 1 <= MaxTokens
         /\ Counted'
  <1>1. t \in Toks /\ count' \in 0 .. MaxTokens
    BY FetchTypes DEF Read, Toks
  <1>2. read \in Text
    BY DEF Input, Text, Toks
  <1>3. read' = Append(read, t) /\ ahead' = None
    BY DEF Read
  <1>4. <<t>> \in Text /\ Len(<<t>>) = 1
    BY <1>1, OneToken
  <1>5. read' = read \o <<t>>
    BY <1>1, <1>2, <1>3, AppendIsConcat DEF Text
  <1>6. Len(read') = Len(read) + 1 /\ Len(read) \in Nat
    BY <1>2, <1>4, <1>5, Joined, Lengths
  <1>7. Len(read) + 1 <= count'
    <2>1. CASE ahead = None
      <3>1. count' = count + 1 /\ Len(read) + 0 <= count
        BY <2>1 DEF Read, Fetch, Counted
      <3> QED BY <1>6, <3>1 DEF Input
    <2>2. CASE ahead # None
      <3>1. count' = count /\ t = ahead
        BY <2>2 DEF Read, Fetch, NextTokens
      <3>2. Len(read) + 1 <= count
        BY <2>2, <3>1 DEF Counted
      <3> QED BY <3>1, <3>2
    <2> QED BY <2>1, <2>2
  <1>8. Counted'
    BY <1>3, <1>6, <1>7, <1>1 DEF Counted
  <1>9. Len(read) + 1 <= MaxTokens
    BY <1>1, <1>6, <1>7, JsonReaderAssumption
  <1> QED BY <1>1, <1>2, <1>4, <1>5, <1>8, <1>9

LEMMA LeavesToken ==
  ASSUME Input, Counted, NEW t, Leave(t)
  PROVE  read \in Text /\ read' = read /\ Counted'
  <1>1. read \in Text /\ Len(read) \in Nat /\ count \in Nat
    BY Lengths DEF Input, Text, Toks
  <1>2. read' = read /\ ahead' = t
    BY DEF Leave
  <1>3. CASE ahead = None /\ t # "end"
    <2>1. count' = count + 1 /\ Len(read) + 0 <= count
      BY <1>3 DEF Leave, Fetch, Counted
    <2>2. Len(read) + 0 <= count + 1 /\ Len(read) + 1 <= count + 1
      BY <1>1, <2>1
    <2> QED BY <1>1, <1>2, <2>1, <2>2 DEF Counted
  <1>4. CASE ahead = None /\ t = "end"
    <2>1. count' = count /\ Len(read) + 0 <= count
      BY <1>4 DEF Leave, Fetch, Counted
    <2> QED BY <1>1, <1>2, <1>4, <2>1 DEF Counted
  <1>5. CASE ahead # None
    <2>1. count' = count /\ t = ahead
      BY <1>5 DEF Leave, Fetch, NextTokens
    <2> QED BY <1>1, <1>2, <2>1 DEF Counted
  <1> QED BY <1>3, <1>4, <1>5

\* A comment read is remembered, and Plain only ever ends.
LEMMA PlainBefore ==
  ASSUME Input, NEW t, Read(t) \/ Leave(t) \/ Skip(t), UNCHANGED features, Plain'
  PROVE  Plain /\ (Read(t) => t # "comment")
  <1>1. CASE UNCHANGED read
    BY <1>1 DEF Plain, Read, ToSet
  <1> QED BY <1>1 DEF Plain, ToSet, Read, Leave, Skip

\* A value is complete.
LEMMA ValueDone ==
  ASSUME NEW calling \in Seq(Frame), NEW b \in Text, Open(calling, b),
         NEW v, IsValue(v), read' = b \o v, Len(b) + Len(v) <= MaxTokens,
         ValueReturns(calling, TRUE), Counted'
  PROVE  Told'
  <1>1. CASE calling = <<>>
    <2>1. b = <<>> /\ v \in Text
      BY <1>1, OpenNothing, ValueText
    <2>2. read' = v
      BY <2>1, ConcatEmptySeq DEF Text
    <2>3. stage' = "rest"
      BY <1>1 DEF ValueReturns
    <2> QED BY <2>2, <2>3 DEF Told, Early
  <1>2. CASE calling # <<>>
    <2>1. PICK c \in Text, s \in Text :
             Open(Front(calling), c) /\ b = c \o s /\ AtChild(Last(calling), s)
      BY <1>2, OpenInnermost
    <2>2. v \in Text /\ Len(v) \in Nat
      BY ValueText
    <2>3. read' = c \o (s \o v) /\ s \o v \in Text
      BY <2>1, <2>2, Regrouped, Joined
    <2>4. Len(s) + Len(v) <= MaxTokens
      <3>1. Len(b) = Len(c) + Len(s) /\ Len(c) \in Nat /\ Len(s) \in Nat
        BY <2>1, Joined, Lengths
      <3> QED BY <2>2, <3>1, JsonReaderAssumption
    <2>5. frames' = calling /\ stage' = AfterChild(Last(calling).kind)
      BY <1>2 DEF ValueReturns
    <2>6. CASE AtMember(Last(calling), s)
      <3>1. AfterMember(Last(calling), s \o v)
        BY <2>4, <2>6, MemberRead
      <3>2. stage' = "comma"
        BY <2>5, <2>6 DEF AtMember, AfterChild
      <3>3. Here("comma", Last(calling), s \o v)
        BY <3>1 DEF Here
      <3> QED BY <2>1, <2>3, <2>5, <3>2, <3>3 DEF Told, Early
    <2>7. CASE AtElement(Last(calling), s)
      <3>1. AfterElement(Last(calling), s \o v)
        BY <2>4, <2>7, ElementRead
      <3>2. stage' = "next"
        BY <2>5, <2>7 DEF AtElement, AfterChild
      <3>3. Here("next", Last(calling), s \o v)
        BY <3>1 DEF Here
      <3> QED BY <2>1, <2>3, <2>5, <3>2, <3>3 DEF Told, Early
    <2> QED BY <2>1, <2>6, <2>7 DEF AtChild
  <1> QED BY <1>1, <1>2

-----------------------------------------------------------------------------
(***************************************************************************)
(* Each step of a parse without comments tells the story on.               *)
(***************************************************************************)
\* What a step starts from, inside a readObject or readArray.
LEMMA InsideACall ==
  ASSUME IInv, Input, Told, stage \in Early \ {"value"}
  PROVE  /\ frames \in Seq(Frame) /\ frames # <<>>
         /\ Front(frames) \in Seq(Frame) /\ Last(frames) \in Frame
         /\ Append(Front(frames), Last(frames)) = frames
         /\ Counted
         /\ \E b, s \in Text : Open(Front(frames), b) /\ read = b \o s
                               /\ Here(stage, Last(frames), s)
  <1>1. frames \in Seq(Frame) /\ frames # <<>>
    BY DEF IInv, Machine, Depth, Inside, Early
  <1> QED BY <1>1, FrontLast, FrontThenLast DEF Told, Early

\* The closing bracket of the innermost call.
LEMMA CallClosed ==
  ASSUME IInv, Input, Counted, frames # <<>>, NEW t, t # "end", Read(t),
         NEW b \in Text, NEW s \in Text, Open(Front(frames), b), read = b \o s,
         Len(s) + 1 <= MaxTokens => IsValue(s \o <<t>>), ContainerReturns(TRUE)
  PROVE  Told'
  <1>1. /\ <<t>> \in Text /\ Len(<<t>>) = 1 /\ read' = read \o <<t>>
        /\ Len(read) + 1 <= MaxTokens /\ Counted'
    BY ReadsToken
  <1> DEFINE v == s \o <<t>>
  <1>2. read' = b \o v /\ v \in Text /\ Len(v) = Len(s) + 1
    BY <1>1, Regrouped, Joined
  <1>3. Len(read) = Len(b) + Len(s) /\ Len(b) \in Nat /\ Len(s) \in Nat
    BY Joined, Lengths
  <1>4. Len(s) + 1 <= MaxTokens /\ Len(b) + Len(v) <= MaxTokens
    <2>1. Len(v) = Len(s) + 1 /\ Len(b) + Len(s) + 1 <= MaxTokens
      BY <1>1, <1>2, <1>3
    <2> HIDE DEF v
    <2> QED BY <1>3, <2>1, JsonReaderAssumption
  <1>5. IsValue(v)
    BY <1>4
  <1>6. Front(frames) \in Seq(Frame)
    BY FrontLast DEF IInv, Machine
  <1> HIDE DEF v
  <1> QED BY <1>1, <1>2, <1>4, <1>5, <1>6, ValueDone DEF ContainerReturns

\* A token inside a call that changes the stage alone, or the name too.
LEMMA CallGoesOn ==
  ASSUME Input, Counted, NEW t, t # "end", Read(t),
         NEW b \in Text, NEW s \in Text, Open(Front(frames), b), read = b \o s,
         Front(frames') = Front(frames),
         stage' \in Early \ {"value"}, Here(stage', Last(frames'), s \o <<t>>)
  PROVE  Told'
  <1>1. <<t>> \in Text /\ read' = read \o <<t>> /\ Counted'
    BY ReadsToken
  <1>2. read' = b \o (s \o <<t>>) /\ s \o <<t>> \in Text
    BY <1>1, Regrouped, Joined
  <1> QED BY <1>1, <1>2 DEF Told, Early

\* A child is to be read.
LEMMA ChildNext ==
  ASSUME IInv, frames # <<>>, Counted', NEW b \in Text, NEW s \in Text,
         Open(Front(frames), b), read' = b \o s, AtChild(Last(frames), s), ReadChild
  PROVE  Told'
  <1>1. /\ frames \in Seq(Frame) /\ Front(frames) \in Seq(Frame) /\ Last(frames) \in Frame
        /\ Append(Front(frames), Last(frames)) = frames
    BY FrontLast, FrontThenLast DEF IInv, Machine
  <1>2. Open(frames, read')
    BY <1>1, OpenOneMore
  <1>3. stage' = "value" /\ frames' = frames
    BY DEF ReadChild
  <1> QED BY <1>2, <1>3 DEF Told, Early

LEMMA FailureReturned ==
  ASSUME NEW calling, NEW ok \in BOOLEAN, ~ok, ValueReturns(calling, ok)
  PROVE  stage' = "recover" \/ (stage' = "rest" /\ result' = "failed")
  <1>1. CASE calling = <<>>
    BY <1>1 DEF ValueReturns
  <1>2. CASE calling # <<>>
    <2>1. stage' = IF ~ok THEN "recover" ELSE AfterChild(Last(calling).kind)
      BY <1>2 DEF ValueReturns
    <2> QED BY <2>1, Zenon
  <1> QED BY <1>1, <1>2

LEMMA StoryBegins == ASSUME IInv, Parse PROVE Told'
  <1>1. frames' = <<>> /\ read' = <<>> /\ stage' = "value" /\ ahead' = None /\ count' = 0
    BY DEF IInv, Depth, Parse
  <1>2. Len(<<>>) + 0 <= 0
    BY EmptySeq
  <1> QED BY <1>1, <1>2, OpenNothing DEF Told, Early, Counted

LEMMA StoryValue == ASSUME IInv, Input, Story, ReadValue, Plain' PROVE Told'
  <1>1. /\ stage = "value" /\ frames \in Seq(Frame)
        /\ UNCHANGED features
    BY DEF IInv, Machine, ReadValue
  <1> PICK t \in NextTokens :
              \/ BeginContainer(t) \/ ReadScalar(t) \/ SkipComment(t)
              \/ Dropped(t) \/ ValueFails(t)
    BY DEF ReadValue
  <1>2. Plain /\ (Read(t) => t # "comment")
    BY <1>1, PlainBefore
    DEF BeginContainer, ReadScalar, SkipComment, Dropped, ValueFails
  <1>3. Counted /\ Open(frames, read)
    BY <1>1, <1>2 DEF Story, Told, Early
  <1>4. CASE BeginContainer(t)
    <2> DEFINE f == [kind |-> IF t = "{" THEN "object" ELSE "array", name |-> "empty"]
    <2>1. /\ f \in Frame /\ f.name = "empty"
          /\ t = "{" => f.kind = "object"
          /\ t = "[" => f.kind = "array"
      BY DEF Frame
    <2>2. t \in {"{", "["} /\ Read(t) /\ frames' = Append(frames, f)
          /\ stage' = IF t = "{" THEN "name" ELSE "first"
      BY <1>4 DEF BeginContainer
    <2> HIDE DEF f
    <2>3. Front(frames') = frames /\ Last(frames') = f
      BY <1>1, <2>1, <2>2, AppendedCall
    <2>4. read \in Text /\ <<t>> \in Text /\ read' = read \o <<t>> /\ Counted'
      BY <1>3, <2>2, ReadsToken
    <2>5. stage' \in Early \ {"value"} /\ Here(stage', f, <<t>>)
      BY <2>1, <2>2 DEF Here, DocBegun, Early
    <2> QED BY <1>3, <2>3, <2>4, <2>5 DEF Told, Early
  <1>5. CASE ReadScalar(t)
    <2>1. t \in Scalars /\ t # "end" /\ Read(t) /\ ValueReturns(frames, TRUE)
      BY <1>5 DEF ReadScalar, Scalars
    <2>2. /\ read \in Text /\ Len(<<t>>) = 1 /\ read' = read \o <<t>> /\ Counted'
          /\ Len(read) + 1 <= MaxTokens
      BY <1>3, <2>1, ReadsToken
    <2>3. Len(read) \in Nat
      BY <2>2, Lengths
    <2>4. MaxTokens >= 1
      BY <2>2, <2>3, JsonReaderAssumption
    <2>5. IsValue(<<t>>)
      BY <2>1, <2>4, ScalarIsValue
    <2> QED BY <1>1, <1>3, <2>1, <2>2, <2>5, ValueDone
  <1>6. CASE SkipComment(t)
    BY <1>2, <1>6 DEF SkipComment
  <1>7. CASE Dropped(t)
    BY <1>2, <1>7 DEF Dropped, Plain
  <1>8. CASE ValueFails(t)
    <2>1. stage' = "recover" \/ (stage' = "rest" /\ result' = "failed")
      BY <1>8, FailureReturned DEF ValueFails
    <2> QED BY <2>1 DEF Told, Early
  <1> QED BY <1>4, <1>5, <1>6, <1>7, <1>8

LEMMA StoryName == ASSUME IInv, Input, Story, ReadName, Plain' PROVE Told'
  <1>1. PICK t \in NextTokens :
          /\ Read(t)
          /\ \/ Name(t) \/ NumericName(t) \/ NotAName(t)
             \/ t = "comment"
             \/ t = "}" /\ ClosesEmpty /\ ContainerReturns(TRUE) /\ UNCHANGED errors
    BY DEF ReadName
  <1>2. Plain /\ t # "comment" /\ stage = "name"
    BY <1>1, PlainBefore DEF ReadName
  <1>3. Told /\ stage \in Early \ {"value"}
    BY <1>2 DEF Story, Early
  <1>4. /\ frames \in Seq(Frame) /\ frames # <<>> /\ Last(frames) \in Frame /\ Counted
    BY <1>3, InsideACall
  <1>5. PICK b \in Text, s \in Text :
           Open(Front(frames), b) /\ read = b \o s /\ DocBegun(Last(frames), s)
    BY <1>2, <1>3, InsideACall DEF Here
  <1>6. CASE Name(t)
    <2> DEFINE f == [frames[Len(frames)] EXCEPT !.name = DecodedName(t)]
    <2>1. t \in Names /\ t # "end"
      BY <1>6 DEF Name, Names
    <2>2. f \in Frame /\ f.kind = "object" /\ f.name = DecodedName(t)
      BY <1>4, <1>5 DEF Last, Frame, DecodedName, DocBegun
    <2>3. frames' = [frames EXCEPT ![Len(frames)] = f] /\ stage' = "colon"
      BY <1>6 DEF Name
    <2> HIDE DEF f
    <2>4. Front(frames') = Front(frames) /\ Last(frames') = f
      BY <1>4, <2>2, <2>3, RenamedCall
    <2>5. Here("colon", f, s \o <<t>>)
      BY <1>4, <1>5, <2>1, <2>2 DEF Here, Named
    <2> QED BY <1>1, <1>4, <1>5, <2>1, <2>3, <2>4, <2>5, CallGoesOn DEF Early
  <1>7. CASE NumericName(t)
    BY <1>2, <1>7 DEF NumericName, Plain
  <1>8. CASE NotAName(t)
    BY <1>8 DEF NotAName, AddErrorAndRecover, Told, Early
  <1>9. CASE t = "}" /\ ClosesEmpty /\ ContainerReturns(TRUE)
    <2>1. Last(frames).name = "empty" /\ t # "end"
      BY <1>9 DEF ClosesEmpty, Object
    <2>2. Len(s) + 1 <= MaxTokens => IsValue(s \o <<t>>)
      BY <1>5, <1>9, <2>1, ObjectCloses
    <2> QED BY <1>1, <1>4, <1>5, <1>9, <2>1, <2>2, CallClosed
  <1> QED BY <1>1, <1>2, <1>6, <1>7, <1>8, <1>9

LEMMA StoryColon == ASSUME IInv, Input, Story, ReadColon, Plain' PROVE Told'
  <1>1. PICK t \in NextTokens :
          /\ Read(t)
          /\ (t = ":" /\ ReadChild) \/ AddErrorAndRecover
    BY DEF ReadColon
  <1>2. Plain /\ stage = "colon"
    BY <1>1, PlainBefore DEF ReadColon
  <1>3. Told /\ stage \in Early \ {"value"}
    BY <1>2 DEF Story, Early
  <1>4. frames # <<>> /\ Counted
    BY <1>3, InsideACall
  <1>5. PICK b \in Text, s \in Text :
           Open(Front(frames), b) /\ read = b \o s /\ Named(Last(frames), s)
    BY <1>2, <1>3, InsideACall DEF Here
  <1>6. CASE t = ":" /\ ReadChild
    <2>1. /\ t # "end" /\ <<t>> \in Text /\ read' = read \o <<t>> /\ Counted' /\ t \in Toks
      BY <1>1, <1>4, <1>6, ReadsToken
    <2>2. read' = b \o (s \o <<t>>) /\ s \o <<t>> \in Text
      BY <1>5, <2>1, Regrouped, Joined
    <2>3. AtChild(Last(frames), s \o <<t>>)
      <3>1. PICK c \in Text, e \in Frame, x \in Names :
               DocBegun(e, c) /\ DecodedName(x) = Last(frames).name /\ s = c \o <<x>>
        BY <1>5 DEF Named
      <3>2. x \in Toks /\ <<x>> \in Text
        BY Punctuation, OneToken
      <3>3. s \o <<t>> = c \o (<<x>> \o <<t>>)
        BY <2>1, <3>1, <3>2, Regrouped
      <3>4. s \o <<t>> = c \o <<x, ":">>
        BY <1>6, <2>1, <3>2, <3>3, TwoPieces
      <3>5. AtMember(Last(frames), s \o <<t>>)
        BY <1>5, <3>1, <3>4 DEF AtMember, Named
      <3> QED BY <3>5 DEF AtChild
    <2> QED BY <1>4, <1>5, <1>6, <2>1, <2>2, <2>3, ChildNext
  <1>7. CASE AddErrorAndRecover
    BY <1>7 DEF AddErrorAndRecover, Told, Early
  <1> QED BY <1>1, <1>6, <1>7

LEMMA StoryComma == ASSUME IInv, Input, Story, ReadComma, Plain' PROVE Told'
  <1>1. PICK t \in NextTokens :
          /\ Read(t)
          /\ \/ t = "}" /\ ContainerReturns(TRUE)
             \/ t = "," /\ Stay("name")
             \/ t = "comment"
             \/ AddErrorAndRecover
    BY DEF ReadComma
  <1>2. Plain /\ stage = "comma" /\ t # "comment"
    BY <1>1, PlainBefore DEF ReadComma
  <1>3. Told /\ stage \in Early \ {"value"}
    BY <1>2 DEF Story, Early
  <1>4. frames # <<>> /\ Counted
    BY <1>3, InsideACall
  <1>5. PICK b \in Text, s \in Text :
           Open(Front(frames), b) /\ read = b \o s /\ AfterMember(Last(frames), s)
    BY <1>2, <1>3, InsideACall DEF Here
  <1>6. CASE t = "}" /\ ContainerReturns(TRUE)
    <2>1. Len(s) + 1 <= MaxTokens => IsValue(s \o <<"}">>)
      <3> SUFFICES ASSUME Len(s) + 1 <= MaxTokens PROVE IsValue(s \o <<"}">>)
        OBVIOUS
      <3> DEFINE f == Last(frames)
      <3>1. AfterMember(f, s)
        BY <1>5
      <3> HIDE DEF f
      <3>2. AfterMember(f, s) \/ (DocBegun(f, s) /\ f.name = "empty")
        BY <3>1, Zenon
      <3> QED BY <3>2, ObjectCloses
    <2> QED BY <1>1, <1>4, <1>5, <1>6, <2>1, CallClosed
  <1>7. CASE t = "," /\ Stay("name")
    <2>1. PICK m \in Text, x \in Names :
             AreMembers(m, x) /\ DecodedName(x) = Last(frames).name /\ s = <<"{">> \o m
      BY <1>5 DEF AfterMember
    <2>2. <<"{">> \in Text /\ <<",">> \in Text
      BY Punctuation, OneToken
    <2>3. s \o <<t>> = <<"{">> \o (m \o <<",">>)
      BY <1>7, <2>1, <2>2, Regrouped
    <2>4. Here("name", Last(frames), s \o <<t>>)
      BY <1>5, <2>1, <2>3 DEF Here, DocBegun, AfterMember
    <2>5. frames' = frames /\ stage' = "name" /\ t # "end"
      BY <1>7 DEF Stay
    <2> QED BY <1>1, <1>4, <1>5, <2>4, <2>5, CallGoesOn DEF Early
  <1>8. CASE AddErrorAndRecover
    BY <1>8 DEF AddErrorAndRecover, Told, Early
  <1> QED BY <1>1, <1>2, <1>6, <1>7, <1>8

LEMMA StoryFirst == ASSUME IInv, Input, Story, ReadFirst, Plain' PROVE Told'
  <1>1. PICK t \in NextTokens :
          \/ t = "]" /\ Read(t) /\ ContainerReturns(TRUE)
          \/ t # "]" /\ Leave(t) /\ ReadChild
    BY DEF ReadFirst
  <1>2. Plain /\ stage = "first"
    BY <1>1, PlainBefore DEF ReadFirst
  <1>3. Told /\ stage \in Early \ {"value"}
    BY <1>2 DEF Story, Early
  <1>4. frames # <<>> /\ Counted
    BY <1>3, InsideACall
  <1>5. PICK b \in Text, s \in Text :
           Open(Front(frames), b) /\ read = b \o s /\ Last(frames).kind = "array" /\ s = <<"[">>
    BY <1>2, <1>3, InsideACall DEF Here
  <1>6. CASE t = "]" /\ Read(t) /\ ContainerReturns(TRUE)
    <2>1. Len(s) + 1 <= MaxTokens => IsValue(s \o <<t>>)
      BY <1>5, <1>6, ArrayCloses
    <2> QED BY <1>4, <1>5, <1>6, <2>1, CallClosed
  <1>7. CASE Leave(t) /\ ReadChild
    <2>1. read' = read /\ Counted'
      BY <1>4, <1>7, LeavesToken
    <2>2. AtChild(Last(frames), s)
      BY <1>5 DEF AtChild, AtElement
    <2> QED BY <1>4, <1>5, <1>7, <2>1, <2>2, ChildNext
  <1> QED BY <1>1, <1>6, <1>7

LEMMA StoryNext == ASSUME IInv, Input, Story, ReadNext, Plain' PROVE Told'
  <1>1. PICK t \in NextTokens :
          /\ Read(t)
          /\ \/ t = "comment"
             \/ t = "," /\ ReadChild
             \/ t = "]" /\ ContainerReturns(TRUE)
             \/ AddErrorAndRecover
    BY DEF ReadNext
  <1>2. Plain /\ stage = "next" /\ t # "comment"
    BY <1>1, PlainBefore DEF ReadNext
  <1>3. Told /\ stage \in Early \ {"value"}
    BY <1>2 DEF Story, Early
  <1>4. frames # <<>> /\ Counted
    BY <1>3, InsideACall
  <1>5. PICK b \in Text, s \in Text :
           Open(Front(frames), b) /\ read = b \o s /\ AfterElement(Last(frames), s)
    BY <1>2, <1>3, InsideACall DEF Here
  <1>6. CASE t = "]" /\ ContainerReturns(TRUE)
    <2>1. Len(s) + 1 <= MaxTokens => IsValue(s \o <<t>>)
      BY <1>5, <1>6, ArrayCloses
    <2> QED BY <1>1, <1>4, <1>5, <1>6, <2>1, CallClosed
  <1>7. CASE t = "," /\ ReadChild
    <2>1. t # "end" /\ <<t>> \in Text /\ read' = read \o <<t>> /\ Counted'
      BY <1>1, <1>4, <1>7, ReadsToken
    <2>2. read' = b \o (s \o <<t>>) /\ s \o <<t>> \in Text
      BY <1>5, <2>1, Regrouped, Joined
    <2>3. PICK e \in Text : AreElements(e) /\ s = <<"[">> \o e
      BY <1>5 DEF AfterElement
    <2>4. <<"[">> \in Text
      BY Punctuation, OneToken
    <2>5. s \o <<t>> = <<"[">> \o (e \o <<",">>)
      BY <1>7, <2>1, <2>3, <2>4, Regrouped
    <2>6. AtChild(Last(frames), s \o <<t>>)
      BY <1>5, <2>3, <2>5 DEF AtChild, AtElement, AfterElement
    <2> QED BY <1>4, <1>5, <1>7, <2>1, <2>2, <2>6, ChildNext
  <1>8. CASE AddErrorAndRecover
    BY <1>8 DEF AddErrorAndRecover, Told, Early
  <1> QED BY <1>1, <1>2, <1>6, <1>7, <1>8

LEMMA StoryAtTheEnd ==
  ASSUME IInv, Input, Story, Plain',
         ReadAfterComment \/ StackLimitExceeded \/ Recover \/ Finish
  PROVE  Told'
  <1>1. CASE ReadAfterComment
    BY <1>1, PlainBefore DEF ReadAfterComment, Story, Told
  <1>2. CASE StackLimitExceeded
    BY <1>2 DEF StackLimitExceeded, Throw, Told, Early
  <1>3. CASE Recover
    <2>1. Stay("recover") \/ ValueReturns(Front(frames), FALSE)
      BY <1>3 DEF Recover, ContainerReturns
    <2>2. stage' = "recover" \/ (stage' = "rest" /\ result' = "failed")
      <3>1. CASE Stay("recover")
        BY <3>1 DEF Stay
      <3>2. CASE ValueReturns(Front(frames), FALSE)
        BY <3>2, FailureReturned
      <3> QED BY <2>1, <3>1, <3>2
    <2> QED BY <2>2 DEF Told, Early
  <1>4. CASE Finish
    <2>1. PICK t :
             /\ Skip(t)
             /\ IF t = "comment" /\ "allowComments" \in features
                THEN UNCHANGED <<stage, errors, result>>
                ELSE /\ stage' = "ready"
                     /\ errors' = IF StrictError THEN errors + 1 ELSE errors
                     /\ result' = IF StrictError THEN "failed" ELSE result
      BY <1>4 DEF Finish
    <2>2. Plain /\ read' = read
      BY <1>4, <2>1, PlainBefore DEF Finish, Skip
    <2>3. Told /\ stage = "rest"
      BY <1>4, <2>2 DEF Story, Finish
    <2>4. stage' = "ready" \/ (stage' = stage /\ result' = result)
      <3>1. CASE t = "comment" /\ "allowComments" \in features
        BY <2>1, <3>1
      <3>2. CASE ~(t = "comment" /\ "allowComments" \in features)
        <4>1. stage' = "ready"
          BY <2>1, <3>2, Zenon
        <4> QED BY <4>1
      <3> QED BY <3>1, <3>2
    <2> QED BY <2>2, <2>3, <2>4 DEF Told, Early
  <1> QED BY <1>1, <1>2, <1>3, <1>4

\* Every step of the program tells the story on.
LEMMA StoryGoesOn == IInv /\ Input /\ Story /\ [Next]_vars => Story'
  <1> SUFFICES ASSUME IInv, Input, Story, [Next]_vars, Plain' PROVE Told'
    BY DEF Story
  <1>1. CASE UNCHANGED vars
    BY <1>1 DEF vars, inputVars, Story, Told, Plain, Counted
  <1> QED
    BY <1>1, StoryBegins, StoryValue, StoryName, StoryColon, StoryComma, StoryFirst,
       StoryNext, StoryAtTheEnd
    DEF Next, Reading

\* What a parse without comments accepts is a document.
THEOREM AcceptedAreDocuments == Spec => []AcceptsDocuments
  <1>1. Init => Story
    BY DEF Init, Story, Told, Early
  <1>2. Story => AcceptsDocuments
    <2> SUFFICES ASSUME Told, stage = "rest", result = "ok" PROVE read \in Documents
      BY DEF Story, AcceptsDocuments
    <2>1. IsValue(read)
      BY DEF Told
    <2>2. Len(read) \in 0 .. MaxTokens /\ read \in Grammar[Len(read)].value
      BY <2>1 DEF IsValue, Fits
    <2> QED BY <2>2 DEF Documents
  <1> QED BY <1>1, <1>2, Initially, IInvNext, InputNext, StoryGoesOn, PTL DEF Spec

-----------------------------------------------------------------------------
(***************************************************************************)
(* The Reader without comments and flags, as a machine that a text drives: *)
(* where it is and the calls under way; "stuck" is an error.               *)
(***************************************************************************)
Ats == {"value", "name", "colon", "comma", "first", "next", "rest", "stuck"}
State(at, fs) == [at |-> at, calls |-> fs]
Reader == [at: Ats, calls: Seq(Frame)]

Start == State("value", <<>>)
Stuck == State("stuck", <<>>)

AfterValue(fs) ==
    State(IF fs = <<>> THEN "rest" ELSE AfterChild(Last(fs).kind), fs)

ObjectCall(n) == [kind |-> "object", name |-> n]
ArrayCall == [kind |-> "array", name |-> "empty"]

FromValue(fs, t) ==
    IF t \in Scalars THEN AfterValue(fs)
    ELSE IF t = "{" THEN State("name", Append(fs, ObjectCall("empty")))
    ELSE IF t = "[" THEN State("first", Append(fs, ArrayCall))
    ELSE Stuck

FromFirst(fs, t) == IF t = "]" THEN AfterValue(Front(fs)) ELSE FromValue(fs, t)

FromName(fs, t) ==
    IF t \in Names THEN State("colon", Append(Front(fs), ObjectCall(DecodedName(t))))
    ELSE IF t = "}" /\ Last(fs).name = "empty" THEN AfterValue(Front(fs))
    ELSE Stuck

FromColon(fs, t) == IF t = ":" THEN State("value", fs) ELSE Stuck

FromComma(fs, t) ==
    IF t = "}" THEN AfterValue(Front(fs))
    ELSE IF t = "," THEN State("name", fs)
    ELSE Stuck

FromNext(fs, t) ==
    IF t = "]" THEN AfterValue(Front(fs))
    ELSE IF t = "," THEN State("value", fs)
    ELSE Stuck

Move(c, t) ==
    CASE c.at = "value" -> FromValue(c.calls, t)
      [] c.at = "first" -> FromFirst(c.calls, t)
      [] c.at = "name" -> FromName(c.calls, t)
      [] c.at = "colon" -> FromColon(c.calls, t)
      [] c.at = "comma" -> FromComma(c.calls, t)
      [] c.at = "next" -> FromNext(c.calls, t)
      [] OTHER -> Stuck

-----------------------------------------------------------------------------
(***************************************************************************)
(* Runs of that machine, which its text determines.                        *)
(***************************************************************************)
\* q are the states on the way from c through the tokens of s to d.
Through(q, c, s, d) ==
    /\ q \in Seq(Reader)
    /\ Len(q) = Len(s) + 1
    /\ q[1] = c
    /\ q[Len(s) + 1] = d
    /\ \A i \in 1 .. Len(s) + 1 : q[i] # Stuck
    /\ \A i \in 1 .. Len(s) : q[i + 1] = Move(q[i], s[i])

Run(c, s, d) == \E q : Through(q, c, s, d)

LEMMA MoveFrom ==
  ASSUME NEW fs, NEW t
  PROVE  /\ Move(State("value", fs), t) = FromValue(fs, t)
         /\ Move(State("first", fs), t) = FromFirst(fs, t)
         /\ Move(State("name", fs), t) = FromName(fs, t)
         /\ Move(State("colon", fs), t) = FromColon(fs, t)
         /\ Move(State("comma", fs), t) = FromComma(fs, t)
         /\ Move(State("next", fs), t) = FromNext(fs, t)
  BY DEF Move, State

LEMMA RunNowhere == ASSUME NEW c \in Reader, c # Stuck PROVE Run(c, <<>>, c)
  <1> DEFINE q == <<c>>
  <1>1. q \in Seq(Reader) /\ Len(q) = 1 /\ q[1] = c
    OBVIOUS
  <1>2. Len(<<>>) = 0 /\ 0 + 1 = 1 /\ 1 .. 0 = {}
    BY EmptySeq
  <1> HIDE DEF q
  <1>3. Through(q, c, <<>>, c)
    BY <1>1, <1>2 DEF Through
  <1> QED BY <1>3 DEF Run

LEMMA RunStep ==
  ASSUME NEW c \in Reader, c # Stuck, NEW t \in Toks, Move(c, t) \in Reader, Move(c, t) # Stuck
  PROVE  Run(c, <<t>>, Move(c, t))
  <1> DEFINE d == Move(c, t)
             q == <<c, d>>
  <1>1. d \in Reader /\ d # Stuck
    OBVIOUS
  <1> HIDE DEF d
  <1>2. q \in Seq(Reader) /\ Len(q) = 2 /\ q[1] = c /\ q[2] = d
    BY <1>1
  <1> DEFINE s == <<t>>
  <1>3. Len(s) = 1 /\ s[1] = t
    OBVIOUS
  <1> HIDE DEF q, s
  <1>4. \A i \in 1 .. 1 + 1 : q[i] # Stuck
    BY <1>1, <1>2
  <1>5. \A i \in 1 .. 1 : q[i + 1] = Move(q[i], s[i])
    BY <1>2, <1>3 DEF d
  <1>6. Through(q, c, s, d)
    BY <1>2, <1>3, <1>4, <1>5 DEF Through
  <1> QED BY <1>6 DEF Run, d, s

\* Runs are composed.
LEMMA RunOn ==
  ASSUME NEW c, NEW s \in Text, NEW d, Run(c, s, d), NEW u \in Text, NEW e, Run(d, u, e)
  PROVE  Run(c, s \o u, e)
  <1>1. PICK p : Through(p, c, s, d)
    BY DEF Run
  <1>2. PICK r : Through(r, d, u, e)
    BY DEF Run
  <1> DEFINE n == Len(s)
             m == Len(u)
             z == s \o u
  <1>3. n \in Nat /\ m \in Nat
    BY Lengths
  <1>4. z \in Text /\ Len(z) = n + m
        /\ \A i \in 1 .. n + m : z[i] = IF i <= n THEN s[i] ELSE u[i - n]
    BY ConcatProperties DEF Text
  <1>5. /\ p \in Seq(Reader) /\ Len(p) = n + 1 /\ p[1] = c /\ p[n + 1] = d
        /\ \A i \in 1 .. n + 1 : p[i] # Stuck
        /\ \A i \in 1 .. n : p[i + 1] = Move(p[i], s[i])
    BY <1>1 DEF Through
  <1>6. /\ r \in Seq(Reader) /\ Len(r) = m + 1 /\ r[1] = d /\ r[m + 1] = e
        /\ \A i \in 1 .. m + 1 : r[i] # Stuck
        /\ \A i \in 1 .. m : r[i + 1] = Move(r[i], u[i])
    BY <1>2 DEF Through
  <1> HIDE DEF n, m, z
  <1> DEFINE k == n + m + 1
             At(i) == IF i <= n THEN p[i] ELSE r[i - n]
             q == [i \in 1 .. k |-> At(i)]
  <1>7. k \in Nat /\ n + 1 \in 1 .. k
    BY <1>3
  <1>8. ASSUME NEW i \in 1 .. k PROVE At(i) \in Reader /\ At(i) # Stuck
    <2>1. CASE i <= n
      <3>1. i \in 1 .. n + 1
        BY <1>3, <2>1
      <3> QED BY <1>3, <1>5, <2>1, <3>1
    <2>2. CASE ~(i <= n)
      <3>1. i - n \in 1 .. m + 1
        BY <1>3, <2>2
      <3> QED BY <1>3, <1>6, <2>2, <3>1
    <2> QED BY <2>1, <2>2
  <1>9. \A i \in 1 .. n + 1 : At(i) = p[i]
    <2> SUFFICES ASSUME NEW i \in 1 .. n + 1 PROVE At(i) = p[i]
      OBVIOUS
    <2>1. CASE i = n + 1
      <3>1. i - n = 1 /\ ~(i <= n)
        BY <1>3, <2>1
      <3> QED BY <1>5, <1>6, <2>1, <3>1
    <2>2. CASE i # n + 1
      <3>1. i <= n
        BY <1>3, <2>2
      <3> QED BY <3>1
    <2> QED BY <2>1, <2>2
  <1>10. ASSUME NEW i \in 1 .. n + m PROVE At(i + 1) = Move(At(i), z[i])
    <2>1. CASE i <= n
      <3>1. i \in 1 .. n /\ i \in 1 .. n + 1 /\ i + 1 \in 1 .. n + 1
        BY <1>3, <2>1
      <3>2. At(i) = p[i] /\ At(i + 1) = p[i + 1] /\ z[i] = s[i]
        BY <1>4, <1>9, <2>1, <3>1
      <3> HIDE DEF At
      <3> QED BY <1>5, <3>1, <3>2
    <2>2. CASE ~(i <= n)
      <3>1. i - n \in 1 .. m /\ i + 1 - n = (i - n) + 1 /\ ~(i + 1 <= n)
        BY <1>3, <2>2
      <3> DEFINE j == i + 1
      <3>a. ~(j <= n) /\ j - n = (i - n) + 1
        BY <1>3, <2>2
      <3> HIDE DEF j
      <3>b. At(j) = r[j - n]
        BY <3>a
      <3>c. At(i + 1) = r[(i - n) + 1]
        BY <3>a, <3>b DEF j
      <3>d. At(i) = r[i - n]
        BY <2>2
      <3>2. At(i) = r[i - n] /\ At(i + 1) = r[(i - n) + 1]
        BY <3>c, <3>d
      <3>3. z[i] = u[i - n]
        BY <1>4, <2>2
      <3> HIDE DEF At
      <3> QED BY <1>6, <3>1, <3>2, <3>3
    <2> QED BY <2>1, <2>2
  <1>11. At(1) = c /\ At(k) = e
    <2>1. 1 \in 1 .. n + 1 /\ k - n = m + 1 /\ ~(k <= n)
      BY <1>3
    <2> QED BY <1>5, <1>6, <1>9, <2>1
  <1> HIDE DEF At
  <1>12. q \in Seq(Reader) /\ Len(q) = k /\ \A i \in 1 .. k : q[i] = At(i)
    BY <1>7, <1>8
  <1>13. 1 \in 1 .. k /\ k \in 1 .. k /\ k = Len(z) + 1
    BY <1>3, <1>4, <1>7
  <1>14. \A i \in 1 .. n + m : i \in 1 .. k /\ i + 1 \in 1 .. k
    BY <1>3
  <1> HIDE DEF q, k
  <1>15. Through(q, c, z, e)
    BY <1>4, <1>8, <1>10, <1>11, <1>12, <1>13, <1>14 DEF Through
  <1> QED BY <1>15 DEF Run, z

AlikeTo(n, s, u) == \A i \in 1 .. n : s[i] = u[i]

\* The states on the way are determined by the tokens.
LEMMA RunsAgree ==
  ASSUME NEW c, NEW s \in Text, NEW d, NEW u \in Text, NEW e, NEW n \in Nat,
         NEW p, NEW r, Through(p, c, s, d), Through(r, c, u, e),
         n <= Len(s), n <= Len(u), AlikeTo(n, s, u)
  PROVE  p[n + 1] = r[n + 1]
  <1> DEFINE S == {i \in Nat : i <= n => p[i + 1] = r[i + 1]}
  <1>1. Len(s) \in Nat /\ Len(u) \in Nat
    BY Lengths
  <1>2. ASSUME NEW i \in Nat, \A j \in 0 .. i - 1 : j \in S PROVE i \in S
    <2>1. CASE i = 0
      <3>1. p[1] = r[1] /\ i + 1 = 1
        BY <2>1 DEF Through
      <3> QED BY <3>1
    <2>2. CASE i # 0 /\ i <= n
      <3>1. /\ i - 1 \in 0 .. i - 1 /\ (i - 1) + 1 = i /\ i - 1 \in Nat
            /\ i - 1 <= n /\ i \in 1 .. n /\ i \in 1 .. Len(s) /\ i \in 1 .. Len(u)
        BY <1>1, <2>2
      <3>2. p[i] = r[i]
        BY <1>2, <3>1
      <3>3. p[i + 1] = Move(p[i], s[i]) /\ r[i + 1] = Move(r[i], u[i])
        BY <3>1 DEF Through
      <3>4. s[i] = u[i]
        BY <3>1 DEF AlikeTo
      <3> QED BY <3>1, <3>2, <3>3, <3>4
    <2>3. CASE ~(i <= n)
      BY <2>3
    <2> QED BY <2>1, <2>2, <2>3
  <1> HIDE DEF S
  <1>3. n \in S
    BY <1>2, Induction
  <1> QED BY <1>3 DEF S

\* What makes the Reader stop is not in a text that it reads through.
LEMMA NoWayThrough ==
  ASSUME NEW c, NEW s \in Text, NEW d, Run(c, s, d), NEW t, Move(d, t) = Stuck,
         NEW u \in Text, NEW e, Run(c, u, e), Len(s) + 1 <= Len(u),
         AlikeTo(Len(s), s, u)
  PROVE  u[Len(s) + 1] # t
  <1>1. PICK p : Through(p, c, s, d)
    BY DEF Run
  <1>2. PICK r : Through(r, c, u, e)
    BY DEF Run
  <1> DEFINE n == Len(s)
  <1>3. n \in Nat /\ Len(u) \in Nat
    BY Lengths
  <1>4. n <= Len(s) /\ n <= Len(u)
    BY <1>3
  <1>5. p[n + 1] = d
    BY <1>1 DEF Through
  <1>6. AlikeTo(n, s, u)
    OBVIOUS
  <1>7. n + 1 <= Len(u)
    OBVIOUS
  <1> HIDE DEF n
  <1>8. r[n + 1] = d
    <2>1. p[n + 1] = r[n + 1]
      BY ONLY <1>1, <1>2, <1>3, <1>4, <1>6, RunsAgree, s \in Text, u \in Text
    <2> QED BY <1>5, <2>1
  <1>9. n + 1 \in 1 .. Len(u) /\ (n + 1) + 1 \in 1 .. Len(u) + 1
    BY <1>3, <1>7
  <1>10. r[(n + 1) + 1] = Move(d, u[n + 1]) /\ r[(n + 1) + 1] # Stuck
    BY <1>2, <1>8, <1>9 DEF Through
  <1>11. u[n + 1] # t
    BY <1>10
  <1> QED BY <1>11 DEF n

-----------------------------------------------------------------------------
(***************************************************************************)
(* One token at a time.                                                    *)
(***************************************************************************)
LEMMA States ==
  ASSUME NEW fs \in Seq(Frame), NEW at \in Ats
  PROVE  State(at, fs) \in Reader /\ (at # "stuck" => State(at, fs) # Stuck)
  BY DEF State, Reader, Stuck

LEMMA AfterValueIs ==
  ASSUME NEW fs \in Seq(Frame), NEW f \in Frame
  PROVE  /\ AfterValue(Append(fs, f)) = State(AfterChild(f.kind), Append(fs, f))
         /\ AfterValue(fs) \in Reader
         /\ AfterValue(fs) # Stuck
         /\ Append(fs, f) \in Seq(Frame)
  <1>1. \A g \in Frame : AfterChild(g.kind) \in Ats \ {"stuck"}
    BY DEF Frame, AfterChild, Ats
  <1>2. "rest" \in Ats \ {"stuck"}
    BY DEF Ats
  <1>3. /\ Last(Append(fs, f)) = f /\ Append(fs, f) \in Seq(Frame)
        /\ Append(fs, f) # <<>>
    BY AppendedCall
  <1>4. fs # <<>> => Last(fs) \in Frame
    BY FrontLast
  <1>5. AfterValue(Append(fs, f)) = State(AfterChild(f.kind), Append(fs, f))
    BY <1>3 DEF AfterValue
  <1>6. AfterValue(fs) \in Reader /\ AfterValue(fs) # Stuck
    BY <1>1, <1>2, <1>4, States DEF AfterValue
  <1> QED BY <1>3, <1>5, <1>6

LEMMA Calls ==
  /\ ArrayCall \in Frame
  /\ \A n \in {"empty", "some"} : ObjectCall(n) \in Frame /\ ObjectCall(n).name = n
  BY DEF ArrayCall, ObjectCall, Frame

\* The tokens a value begins with.
LEMMA ValueSteps ==
  ASSUME NEW fs \in Seq(Frame)
  PROVE  /\ \A t \in Scalars : Run(State("value", fs), <<t>>, AfterValue(fs))
         /\ Run(State("value", fs), <<"{">>, State("name", Append(fs, ObjectCall("empty"))))
         /\ Run(State("value", fs), <<"[">>, State("first", Append(fs, ArrayCall)))
  <1>1. /\ State("value", fs) \in Reader /\ State("value", fs) # Stuck
        /\ AfterValue(fs) \in Reader /\ AfterValue(fs) # Stuck
        /\ Append(fs, ArrayCall) \in Seq(Frame) /\ Append(fs, ObjectCall("empty")) \in Seq(Frame)
    BY States, AfterValueIs, Calls DEF Ats
  <1>2. /\ State("name", Append(fs, ObjectCall("empty"))) \in Reader \ {Stuck}
        /\ State("first", Append(fs, ArrayCall)) \in Reader \ {Stuck}
    BY <1>1, States DEF Ats
  <1>3. ASSUME NEW t \in Scalars PROVE Run(State("value", fs), <<t>>, AfterValue(fs))
    <2>1. Move(State("value", fs), t) = AfterValue(fs)
      BY MoveFrom DEF FromValue
    <2>2. t \in Toks
      BY Punctuation
    <2> QED BY <1>1, <2>1, <2>2, RunStep
  <1>4. Run(State("value", fs), <<"{">>, State("name", Append(fs, ObjectCall("empty"))))
    <2>1. Move(State("value", fs), "{") = State("name", Append(fs, ObjectCall("empty")))
      BY MoveFrom DEF FromValue, Scalars
    <2> QED BY <1>1, <1>2, <2>1, Punctuation, RunStep
  <1>5. Run(State("value", fs), <<"[">>, State("first", Append(fs, ArrayCall)))
    <2>1. Move(State("value", fs), "[") = State("first", Append(fs, ArrayCall))
      BY MoveFrom DEF FromValue, Scalars
    <2> QED BY <1>1, <1>2, <2>1, Punctuation, RunStep
  <1> QED BY <1>3, <1>4, <1>5

\* The brackets that end a call.
LEMMA Closings ==
  ASSUME NEW fs \in Seq(Frame), NEW f \in Frame
  PROVE  /\ Run(State("first", Append(fs, f)), <<"]">>, AfterValue(fs))
         /\ Run(State("next", Append(fs, f)), <<"]">>, AfterValue(fs))
         /\ Run(State("comma", Append(fs, f)), <<"}">>, AfterValue(fs))
         /\ f.name = "empty" => Run(State("name", Append(fs, f)), <<"}">>, AfterValue(fs))
  <1> DEFINE gs == Append(fs, f)
  <1>1. Front(gs) = fs /\ Last(gs) = f /\ gs \in Seq(Frame)
    BY AppendedCall
  <1>2. AfterValue(fs) \in Reader /\ AfterValue(fs) # Stuck
    BY AfterValueIs
  <1> HIDE DEF gs
  <1>3. \A at \in {"first", "next", "comma", "name"} :
           State(at, gs) \in Reader /\ State(at, gs) # Stuck
    BY <1>1, States DEF Ats
  <1>4. Move(State("first", gs), "]") = AfterValue(fs)
    BY <1>1, MoveFrom DEF FromFirst
  <1>5. Move(State("next", gs), "]") = AfterValue(fs)
    BY <1>1, MoveFrom DEF FromNext
  <1>6. Move(State("comma", gs), "}") = AfterValue(fs)
    BY <1>1, MoveFrom DEF FromComma
  <1>7. f.name = "empty" => Move(State("name", gs), "}") = AfterValue(fs)
    BY <1>1, MoveFrom DEF FromName, Names
  <1> QED BY <1>2, <1>3, <1>4, <1>5, <1>6, <1>7, Punctuation, RunStep DEF gs

\* The tokens between the parts of an object or an array.
LEMMA GoingOn ==
  ASSUME NEW fs \in Seq(Frame), NEW f \in Frame
  PROVE  /\ Run(State("colon", Append(fs, f)), <<":">>, State("value", Append(fs, f)))
         /\ Run(State("comma", Append(fs, f)), <<",">>, State("name", Append(fs, f)))
         /\ Run(State("next", Append(fs, f)), <<",">>, State("value", Append(fs, f)))
         /\ \A x \in Names : Run(State("name", Append(fs, f)), <<x>>,
                                 State("colon", Append(fs, ObjectCall(DecodedName(x)))))
  <1> DEFINE gs == Append(fs, f)
  <1>1. Front(gs) = fs /\ Last(gs) = f /\ gs \in Seq(Frame)
    BY AppendedCall
  <1> HIDE DEF gs
  <1>3. \A at \in {"colon", "next", "comma", "name", "value"} :
           State(at, gs) \in Reader /\ State(at, gs) # Stuck
    BY <1>1, States DEF Ats
  <1>4. Move(State("colon", gs), ":") = State("value", gs)
    BY MoveFrom DEF FromColon
  <1>5. Move(State("comma", gs), ",") = State("name", gs)
    BY MoveFrom DEF FromComma
  <1>6. Move(State("next", gs), ",") = State("value", gs)
    BY MoveFrom DEF FromNext
  <1>7. ASSUME NEW x \in Names
        PROVE Run(State("name", gs), <<x>>, State("colon", Append(fs, ObjectCall(DecodedName(x)))))
    <2>1. Move(State("name", gs), x) = State("colon", Append(fs, ObjectCall(DecodedName(x))))
      BY <1>1, MoveFrom DEF FromName
    <2>2. ObjectCall(DecodedName(x)) \in Frame
      BY Calls DEF DecodedName
    <2>3. State("colon", Append(fs, ObjectCall(DecodedName(x)))) \in Reader \ {Stuck}
      BY <2>2, AfterValueIs, States DEF Ats
    <2>4. x \in Toks
      BY Punctuation
    <2> QED BY <1>3, <2>1, <2>3, <2>4, RunStep
  <1> QED BY <1>3, <1>4, <1>5, <1>6, <1>7, Punctuation, RunStep DEF gs

-----------------------------------------------------------------------------
(***************************************************************************)
(* Wherever a value may stand it is read, and so are elements, members.    *)
(***************************************************************************)
ReadsValue(v) == \A fs \in Seq(Frame) : Run(State("value", fs), v, AfterValue(fs))

ReadsElements(e) ==
    \A fs \in Seq(Frame) :
        Run(State("value", Append(fs, ArrayCall)), e, State("next", Append(fs, ArrayCall)))

ReadsMembers(m, x) ==
    \A fs \in Seq(Frame), y \in {"empty", "some"} :
        Run(State("name", Append(fs, ObjectCall(y))), m,
            State("comma", Append(fs, ObjectCall(DecodedName(x)))))

\* An array's first element is read as the others are: no value begins with "]".
LEMMA FirstElement ==
  ASSUME NEW fs \in Seq(Frame), NEW s \in Text, Len(s) >= 1, NEW d, Run(State("value", fs), s, d)
  PROVE  Run(State("first", fs), s, d)
  <1> PICK q : Through(q, State("value", fs), s, d)
    BY DEF Run
  <1> DEFINE c == State("first", fs)
             n == Len(s)
             r == [q EXCEPT ![1] = c]
  <1>1. n \in Nat /\ n >= 1
    BY Lengths
  <1>2. /\ q \in Seq(Reader) /\ Len(q) = n + 1 /\ q[1] = State("value", fs) /\ q[n + 1] = d
        /\ \A i \in 1 .. n + 1 : q[i] # Stuck
        /\ \A i \in 1 .. n : q[i + 1] = Move(q[i], s[i])
    BY DEF Through
  <1>3. c \in Reader /\ c # Stuck
    BY States DEF Ats
  <1>4. Move(State("value", fs), s[1]) # Stuck
    <2>1. 1 \in 1 .. n /\ 1 + 1 \in 1 .. n + 1
      BY <1>1
    <2> QED BY <1>2, <2>1
  <1>5. s[1] # "]"
    <2>1. FromValue(fs, "]") = Stuck
      BY DEF FromValue, Scalars
    <2> QED BY <1>4, <2>1, MoveFrom
  <1>6. Move(c, s[1]) = Move(State("value", fs), s[1])
    BY <1>5, MoveFrom DEF FromFirst
  <1> HIDE DEF c, n
  <1>7. 1 \in 1 .. n + 1 /\ 1 \in 1 .. Len(q)
    BY <1>1, <1>2
  <1>8. /\ r \in Seq(Reader) /\ Len(r) = n + 1
        /\ \A i \in 1 .. n + 1 : r[i] = IF i = 1 THEN c ELSE q[i]
    BY <1>2, <1>3, <1>7, ExceptSeq
  <1> HIDE DEF r
  <1>9. r[1] = c /\ r[n + 1] = d
    <2>1. n + 1 \in 1 .. n + 1 /\ n + 1 # 1
      BY <1>1
    <2> QED BY <1>2, <1>7, <1>8, <2>1
  <1>10. \A i \in 1 .. n + 1 : r[i] # Stuck
    BY <1>2, <1>3, <1>8
  <1>11. ASSUME NEW i \in 1 .. n PROVE r[i + 1] = Move(r[i], s[i])
    <2>1. i \in 1 .. n + 1 /\ i + 1 \in 1 .. n + 1 /\ i + 1 # 1
      BY <1>1
    <2>2. r[i + 1] = Move(q[i], s[i])
      BY <1>2, <1>8, <2>1
    <2>3. CASE i = 1
      BY <1>2, <1>6, <1>9, <2>2, <2>3
    <2>4. CASE i # 1
      BY <1>8, <2>1, <2>2, <2>4
    <2> QED BY <2>3, <2>4
  <1>12. Through(r, c, s, d)
    BY <1>8, <1>9, <1>10, <1>11 DEF Through, n
  <1> QED BY <1>12 DEF Run, c

LEMMA ReadsScalar == ASSUME NEW t \in Scalars PROVE ReadsValue(<<t>>)
  BY ValueSteps DEF ReadsValue

LEMMA ReadsEmpty == ReadsValue(<<"{", "}">>) /\ ReadsValue(<<"[", "]">>)
  <1>1. /\ <<"{">> \in Text /\ <<"}">> \in Text /\ <<"[">> \in Text /\ <<"]">> \in Text
        /\ <<"{">> \o <<"}">> = <<"{", "}">> /\ <<"[">> \o <<"]">> = <<"[", "]">>
    BY OneToken, TwoPieces, Punctuation
  <1>2. ASSUME NEW fs \in Seq(Frame) PROVE Run(State("value", fs), <<"{", "}">>, AfterValue(fs))
    <2>1. Run(State("value", fs), <<"{">>, State("name", Append(fs, ObjectCall("empty"))))
      BY ValueSteps
    <2>2. Run(State("name", Append(fs, ObjectCall("empty"))), <<"}">>, AfterValue(fs))
      BY Calls, Closings
    <2>3. Run(State("value", fs), <<"{">> \o <<"}">>, AfterValue(fs))
      BY <1>1, <2>1, <2>2, RunOn
    <2> QED BY <1>1, <2>3
  <1>3. ASSUME NEW fs \in Seq(Frame) PROVE Run(State("value", fs), <<"[", "]">>, AfterValue(fs))
    <2>1. Run(State("value", fs), <<"[">>, State("first", Append(fs, ArrayCall)))
      BY ValueSteps
    <2>2. Run(State("first", Append(fs, ArrayCall)), <<"]">>, AfterValue(fs))
      BY Calls, Closings
    <2>3. Run(State("value", fs), <<"[">> \o <<"]">>, AfterValue(fs))
      BY <1>1, <2>1, <2>2, RunOn
    <2> QED BY <1>1, <2>3
  <1> QED BY <1>2, <1>3 DEF ReadsValue

LEMMA ReadsObject ==
  ASSUME NEW m \in Text, NEW x \in Names, ReadsMembers(m, x)
  PROVE  ReadsValue(<<"{">> \o m \o <<"}">>)
  <1> SUFFICES ASSUME NEW fs \in Seq(Frame)
               PROVE  Run(State("value", fs), <<"{">> \o m \o <<"}">>, AfterValue(fs))
    BY DEF ReadsValue
  <1>1. <<"{">> \in Text /\ <<"}">> \in Text /\ <<"{">> \o m \in Text
    BY OneToken, Opened, Punctuation
  <1>2. Run(State("value", fs), <<"{">>, State("name", Append(fs, ObjectCall("empty"))))
    BY ValueSteps
  <1>3. Run(State("name", Append(fs, ObjectCall("empty"))), m,
            State("comma", Append(fs, ObjectCall(DecodedName(x)))))
    BY DEF ReadsMembers
  <1>4. Run(State("value", fs), <<"{">> \o m,
            State("comma", Append(fs, ObjectCall(DecodedName(x)))))
    BY <1>1, <1>2, <1>3, RunOn
  <1>5. Run(State("comma", Append(fs, ObjectCall(DecodedName(x)))), <<"}">>, AfterValue(fs))
    BY Calls, Closings DEF DecodedName
  <1> QED BY <1>1, <1>4, <1>5, RunOn

\* After a member with an empty name the object may close behind a comma.
LEMMA ReadsLooseObject ==
  ASSUME NEW m \in Text, ReadsMembers(m, "emptyString")
  PROVE  ReadsValue(<<"{">> \o (m \o <<",">>) \o <<"}">>)
  <1> SUFFICES ASSUME NEW fs \in Seq(Frame)
               PROVE  Run(State("value", fs), <<"{">> \o (m \o <<",">>) \o <<"}">>, AfterValue(fs))
    BY DEF ReadsValue
  <1> DEFINE f == ObjectCall("empty")
             l == m \o <<",">>
  <1>0. f \in Frame /\ f.name = "empty" /\ DecodedName("emptyString") = "empty"
    BY Calls DEF DecodedName
  <1>1. /\ <<"{">> \in Text /\ <<"}">> \in Text /\ <<",">> \in Text /\ l \in Text
        /\ <<"{">> \o l \in Text
    BY OneToken, Opened, Punctuation
  <1>2. Run(State("value", fs), <<"{">>, State("name", Append(fs, f)))
    BY ValueSteps
  <1>3. Run(State("name", Append(fs, f)), m, State("comma", Append(fs, f)))
    BY <1>0 DEF ReadsMembers
  <1>4. Run(State("comma", Append(fs, f)), <<",">>, State("name", Append(fs, f)))
    BY <1>0, GoingOn
  <1>5. Run(State("name", Append(fs, f)), <<"}">>, AfterValue(fs))
    BY <1>0, Closings
  <1> HIDE DEF f
  <1>6. Run(State("name", Append(fs, f)), l, State("name", Append(fs, f)))
    BY <1>1, <1>3, <1>4, RunOn
  <1> HIDE DEF l
  <1>7. Run(State("value", fs), <<"{">> \o l, State("name", Append(fs, f)))
    BY <1>1, <1>2, <1>6, RunOn
  <1>8. Run(State("value", fs), (<<"{">> \o l) \o <<"}">>, AfterValue(fs))
    BY <1>1, <1>5, <1>7, RunOn
  <1> QED BY <1>8 DEF l

LEMMA ReadsArray ==
  ASSUME NEW e \in Text, Len(e) >= 1, ReadsElements(e)
  PROVE  ReadsValue(<<"[">> \o e \o <<"]">>)
  <1> SUFFICES ASSUME NEW fs \in Seq(Frame)
               PROVE  Run(State("value", fs), <<"[">> \o e \o <<"]">>, AfterValue(fs))
    BY DEF ReadsValue
  <1>1. <<"[">> \in Text /\ <<"]">> \in Text /\ <<"[">> \o e \in Text
    BY OneToken, Opened, Punctuation
  <1>2. Run(State("value", fs), <<"[">>, State("first", Append(fs, ArrayCall)))
    BY ValueSteps
  <1>3. Append(fs, ArrayCall) \in Seq(Frame)
    BY Calls, AfterValueIs
  <1>4. Run(State("first", Append(fs, ArrayCall)), e, State("next", Append(fs, ArrayCall)))
    BY <1>3, FirstElement DEF ReadsElements
  <1>5. Run(State("value", fs), <<"[">> \o e, State("next", Append(fs, ArrayCall)))
    BY <1>1, <1>2, <1>4, RunOn
  <1>6. Run(State("next", Append(fs, ArrayCall)), <<"]">>, AfterValue(fs))
    BY Calls, Closings
  <1> QED BY <1>1, <1>5, <1>6, RunOn

LEMMA AfterCalls ==
  ASSUME NEW fs \in Seq(Frame)
  PROVE  /\ AfterValue(Append(fs, ArrayCall)) = State("next", Append(fs, ArrayCall))
         /\ \A y \in {"empty", "some"} :
               AfterValue(Append(fs, ObjectCall(y))) = State("comma", Append(fs, ObjectCall(y)))
         /\ Append(fs, ArrayCall) \in Seq(Frame)
         /\ \A y \in {"empty", "some"} : Append(fs, ObjectCall(y)) \in Seq(Frame)
  <1>1. AfterChild(ArrayCall.kind) = "next" /\ \A y : AfterChild(ObjectCall(y).kind) = "comma"
    BY DEF ArrayCall, ObjectCall, AfterChild
  <1> QED BY <1>1, Calls, AfterValueIs

LEMMA ReadsOneElement == ASSUME NEW v, ReadsValue(v) PROVE ReadsElements(v)
  BY AfterCalls DEF ReadsValue, ReadsElements

LEMMA ReadsOneMoreElement ==
  ASSUME NEW e \in Text, ReadsElements(e), NEW v \in Text, ReadsValue(v)
  PROVE  ReadsElements(Comma(e, v))
  <1> SUFFICES ASSUME NEW fs \in Seq(Frame)
               PROVE  Run(State("value", Append(fs, ArrayCall)), Comma(e, v),
                          State("next", Append(fs, ArrayCall)))
    BY DEF ReadsElements
  <1> DEFINE l == e \o <<",">>
  <1>1. <<",">> \in Text /\ l \in Text
    BY OneToken, Opened, Punctuation
  <1>2. Run(State("value", Append(fs, ArrayCall)), e, State("next", Append(fs, ArrayCall)))
    BY DEF ReadsElements
  <1>3. Run(State("next", Append(fs, ArrayCall)), <<",">>, State("value", Append(fs, ArrayCall)))
    BY Calls, GoingOn
  <1>4. Run(State("value", Append(fs, ArrayCall)), v, State("next", Append(fs, ArrayCall)))
    BY ReadsOneElement DEF ReadsElements
  <1>5. Run(State("value", Append(fs, ArrayCall)), l, State("value", Append(fs, ArrayCall)))
    BY <1>1, <1>2, <1>3, RunOn
  <1> HIDE DEF l
  <1>6. Run(State("value", Append(fs, ArrayCall)), l \o v, State("next", Append(fs, ArrayCall)))
    BY <1>1, <1>4, <1>5, RunOn
  <1> QED BY <1>6 DEF Comma, l

LEMMA ReadsPair ==
  ASSUME NEW x \in Names, NEW v \in Text, ReadsValue(v)
  PROVE  ReadsMembers(<<x, ":">> \o v, x)
  <1> SUFFICES ASSUME NEW fs \in Seq(Frame), NEW y \in {"empty", "some"}
               PROVE  Run(State("name", Append(fs, ObjectCall(y))), <<x, ":">> \o v,
                          State("comma", Append(fs, ObjectCall(DecodedName(x)))))
    BY DEF ReadsMembers
  <1> DEFINE gs == Append(fs, ObjectCall(DecodedName(x)))
             p == <<x, ":">>
  <1>1. DecodedName(x) \in {"empty", "some"}
    BY DEF DecodedName
  <1>2. /\ <<x>> \in Text /\ <<":">> \in Text /\ p \in Text /\ <<x>> \o <<":">> = p
    BY OneToken, TwoTokens, TwoPieces, Punctuation
  <1>3. Run(State("name", Append(fs, ObjectCall(y))), <<x>>, State("colon", gs))
    BY Calls, GoingOn
  <1>4. Run(State("colon", gs), <<":">>, State("value", gs))
    BY <1>1, Calls, GoingOn
  <1>5. Run(State("value", gs), v, State("comma", gs))
    BY <1>1, AfterCalls DEF ReadsValue
  <1> HIDE DEF gs, p
  <1>6. Run(State("name", Append(fs, ObjectCall(y))), p, State("value", gs))
    BY <1>2, <1>3, <1>4, RunOn
  <1>7. Run(State("name", Append(fs, ObjectCall(y))), p \o v, State("comma", gs))
    BY <1>2, <1>5, <1>6, RunOn
  <1> QED BY <1>7 DEF gs, p

LEMMA ReadsOneMoreMember ==
  ASSUME NEW y \in Names, NEW m \in Text, ReadsMembers(m, y),
         NEW x \in Names, NEW o \in Text, ReadsMembers(o, x)
  PROVE  ReadsMembers(Comma(m, o), x)
  <1> SUFFICES ASSUME NEW fs \in Seq(Frame), NEW z \in {"empty", "some"}
               PROVE  Run(State("name", Append(fs, ObjectCall(z))), Comma(m, o),
                          State("comma", Append(fs, ObjectCall(DecodedName(x)))))
    BY DEF ReadsMembers
  <1> DEFINE l == m \o <<",">>
             w == DecodedName(y)
  <1>1. <<",">> \in Text /\ l \in Text
    BY OneToken, Opened, Punctuation
  <1>2. w \in {"empty", "some"}
    BY DEF DecodedName
  <1>3. Run(State("name", Append(fs, ObjectCall(z))), m, State("comma", Append(fs, ObjectCall(w))))
    BY DEF ReadsMembers
  <1> HIDE DEF w
  <1>4. Run(State("comma", Append(fs, ObjectCall(w))), <<",">>,
            State("name", Append(fs, ObjectCall(w))))
    BY <1>2, Calls, GoingOn
  <1>5. Run(State("name", Append(fs, ObjectCall(w))), o,
            State("comma", Append(fs, ObjectCall(DecodedName(x)))))
    BY <1>2 DEF ReadsMembers
  <1>6. Run(State("name", Append(fs, ObjectCall(z))), l, State("name", Append(fs, ObjectCall(w))))
    BY <1>1, <1>3, <1>4, RunOn
  <1> HIDE DEF l
  <1>7. Run(State("name", Append(fs, ObjectCall(z))), l \o o,
            State("comma", Append(fs, ObjectCall(DecodedName(x)))))
    BY <1>1, <1>5, <1>6, RunOn
  <1> QED BY <1>7 DEF Comma, l

-----------------------------------------------------------------------------
(***************************************************************************)
(* Every document is read through: the rows of the grammar, one by one.    *)
(***************************************************************************)
ReadValues == {v \in Text : Len(v) >= 1 /\ ReadsValue(v)}
ReadElements == {e \in Text : Len(e) >= 1 /\ ReadsElements(e)}
ReadMembers(x) == {m \in Text : Len(m) >= 1 /\ ReadsMembers(m, x)}

ReadThrough(r) ==
    /\ r.value \subseteq ReadValues
    /\ r.elements \subseteq ReadElements
    /\ \A x \in Names : r.members[x] \subseteq ReadMembers(x)

LEMMA ValuesRead ==
  /\ \A t \in Scalars : <<t>> \in ReadValues
  /\ <<"{", "}">> \in ReadValues
  /\ <<"[", "]">> \in ReadValues
  /\ \A x \in Names : \A m \in ReadMembers(x) : <<"{">> \o m \o <<"}">> \in ReadValues
  /\ \A m \in ReadMembers("emptyString") : <<"{">> \o (m \o <<",">>) \o <<"}">> \in ReadValues
  /\ \A e \in ReadElements : <<"[">> \o e \o <<"]">> \in ReadValues
  <1>0. ASSUME NEW v \in Text, NEW n \in Nat, Len(v) = n, n >= 1, ReadsValue(v)
        PROVE  v \in ReadValues
    BY <1>0 DEF ReadValues
  <1>1. ASSUME NEW t \in Scalars PROVE <<t>> \in ReadValues
    <2>1. <<t>> \in Text /\ Len(<<t>>) = 1
      BY OneToken, Punctuation
    <2>2. ReadsValue(<<t>>)
      BY ReadsScalar
    <2>3. 1 \in Nat /\ 1 >= 1
      OBVIOUS
    <2> QED BY <1>0, <2>1, <2>2, <2>3, Zenon
  <1>2. <<"{", "}">> \in ReadValues /\ <<"[", "]">> \in ReadValues
    <2>1. /\ <<"{", "}">> \in Text /\ Len(<<"{", "}">>) = 2
          /\ <<"[", "]">> \in Text /\ Len(<<"[", "]">>) = 2
      BY TwoTokens, Punctuation
    <2>2. 2 \in Nat /\ 2 >= 1
      OBVIOUS
    <2> QED BY <1>0, <2>1, <2>2, ReadsEmpty
  <1>3. ASSUME NEW m \in Text, NEW a \in Toks, NEW b \in Toks
        PROVE  <<a>> \o m \o <<b>> \in Text /\ Len(<<a>> \o m \o <<b>>) >= 1
    BY Bracketed, Lengths
  <1>4. ASSUME NEW x \in Names, NEW m \in ReadMembers(x)
        PROVE  <<"{">> \o m \o <<"}">> \in ReadValues
    <2>1. m \in Text /\ ReadsMembers(m, x)
      BY DEF ReadMembers
    <2> QED BY <1>3, <2>1, ReadsObject, Punctuation DEF ReadValues
  <1>5. ASSUME NEW m \in ReadMembers("emptyString")
        PROVE  <<"{">> \o (m \o <<",">>) \o <<"}">> \in ReadValues
    <2>1. m \in Text /\ ReadsMembers(m, "emptyString") /\ m \o <<",">> \in Text
      BY Opened, Punctuation DEF ReadMembers
    <2> QED BY <1>3, <2>1, ReadsLooseObject, Punctuation DEF ReadValues
  <1>6. ASSUME NEW e \in ReadElements PROVE <<"[">> \o e \o <<"]">> \in ReadValues
    <2>1. e \in Text /\ ReadsElements(e) /\ Len(e) >= 1
      BY DEF ReadElements
    <2> QED BY <1>3, <2>1, ReadsArray, Punctuation DEF ReadValues
  <1> QED BY <1>1, <1>2, <1>4, <1>5, <1>6

LEMMA PartsRead ==
  /\ ReadValues \subseteq ReadElements
  /\ \A e \in ReadElements, v \in ReadValues : Comma(e, v) \in ReadElements
  /\ \A x \in Names, v \in ReadValues : <<x, ":">> \o v \in ReadMembers(x)
  /\ \A x \in Names, y \in Names : \A m \in ReadMembers(y), o \in ReadMembers(x) :
        Comma(m, o) \in ReadMembers(x)
  <1>1. ReadValues \subseteq ReadElements
    BY ReadsOneElement DEF ReadValues, ReadElements
  <1>2. ASSUME NEW a \in Text, NEW b \in Text PROVE Comma(a, b) \in Text /\ Len(Comma(a, b)) >= 1
    BY CommaText, Lengths
  <1>3. ASSUME NEW e \in ReadElements, NEW v \in ReadValues PROVE Comma(e, v) \in ReadElements
    <2>1. e \in Text /\ ReadsElements(e) /\ v \in Text /\ ReadsValue(v)
      BY DEF ReadElements, ReadValues
    <2> QED BY <1>2, <2>1, ReadsOneMoreElement DEF ReadElements
  <1>4. ASSUME NEW x \in Names, NEW v \in ReadValues PROVE <<x, ":">> \o v \in ReadMembers(x)
    <2>1. v \in Text /\ ReadsValue(v)
      BY DEF ReadValues
    <2>2. <<x, ":">> \o v \in Text /\ Len(<<x, ":">> \o v) >= 1
      BY <2>1, PairText, Lengths
    <2> QED BY <2>1, <2>2, ReadsPair DEF ReadMembers
  <1>5. ASSUME NEW x \in Names, NEW y \in Names, NEW m \in ReadMembers(y), NEW o \in ReadMembers(x)
        PROVE  Comma(m, o) \in ReadMembers(x)
    <2>1. m \in Text /\ ReadsMembers(m, y) /\ o \in Text /\ ReadsMembers(o, x)
      BY DEF ReadMembers
    <2> QED BY <1>2, <2>1, ReadsOneMoreMember DEF ReadMembers
  <1> QED BY <1>1, <1>3, <1>4, <1>5

\* A row is read through if the rows below it are.
LEMMA RowRead ==
  ASSUME NEW n \in Nat, NEW g, \A k \in 0 .. n - 1 : ReadThrough(g[k])
  PROVE  ReadThrough(Row(g, n))
  <1>1. \A k \in 0 .. n - 1 : /\ g[k].value \subseteq ReadValues
                              /\ g[k].elements \subseteq ReadElements
                              /\ \A x \in Names : g[k].members[x] \subseteq ReadMembers(x)
    BY DEF ReadThrough
  <1>2. ASSUME NEW v \in Value(g, n) PROVE v \in ReadValues
    <2>1. CASE n = 0
      BY <2>1 DEF Value
    <2>2. CASE n = 1
      <3>1. Value(g, n) = {<<t>> : t \in Scalars}
        BY <2>2 DEF Value
      <3> QED BY <3>1, ValuesRead
    <2>3. CASE n = 2
      <3>0. n # 0 /\ n # 1
        BY <2>3
      <3>1. Value(g, n) = {<<"{", "}">>, <<"[", "]">>}
        BY <2>3, <3>0, Zenon DEF Value
      <3>2. v = <<"{", "}">> \/ v = <<"[", "]">>
        BY <3>1
      <3>3. CASE v = <<"{", "}">>
        BY <3>3, ValuesRead, Zenon
      <3>4. CASE v = <<"[", "]">>
        BY <3>4, ValuesRead, Zenon
      <3> QED BY <3>2, <3>3, <3>4, Zenon
    <2>4. CASE n # 0 /\ n # 1 /\ n # 2
      <3>1. n - 2 \in 0 .. n - 1 /\ n - 3 \in 0 .. n - 1
        BY <2>4
      <3>2. CASE \E m \in InObject(g, n) : v = <<"{">> \o m \o <<"}">>
        <4> PICK m \in InObject(g, n) : v = <<"{">> \o m \o <<"}">>
          BY <3>2
        <4>1. CASE \E x \in Names : m \in g[n - 2].members[x]
          <5> PICK x \in Names : m \in g[n - 2].members[x]
            BY <4>1
          <5>1. m \in ReadMembers(x)
            BY <1>1, <3>1
          <5> QED BY <5>1, ValuesRead
        <4>2. CASE \E l \in g[n - 3].members["emptyString"] : m = l \o <<",">>
          <5> PICK l \in g[n - 3].members["emptyString"] : m = l \o <<",">>
            BY <4>2
          <5>1. l \in ReadMembers("emptyString")
            BY <1>1, <3>1 DEF Names
          <5> QED BY <5>1, ValuesRead
        <4>3. m \in InObject(g, n) <=>
                 \/ \E x \in Names : m \in g[n - 2].members[x]
                 \/ \E l \in g[n - 3].members["emptyString"] : m = l \o <<",">>
          BY DEF InObject
        <4> QED BY <4>1, <4>2, <4>3
      <3>3. CASE \E e \in g[n - 2].elements : v = <<"[">> \o e \o <<"]">>
        <4> PICK e \in g[n - 2].elements : v = <<"[">> \o e \o <<"]">>
          BY <3>3
        <4>1. e \in ReadElements
          BY <1>1, <3>1
        <4> QED BY <4>1, ValuesRead
      <3>4. v \in Value(g, n) <=>
               \/ \E m \in InObject(g, n) : v = <<"{">> \o m \o <<"}">>
               \/ \E e \in g[n - 2].elements : v = <<"[">> \o e \o <<"]">>
        BY <2>4 DEF Value
      <3> QED BY <3>2, <3>3, <3>4
    <2> QED BY <2>1, <2>2, <2>3, <2>4
  <1>3. ASSUME NEW e \in Elements(g, n) PROVE e \in ReadElements
    <2>1. CASE e \in Value(g, n)
      BY <1>2, <2>1, PartsRead
    <2>2. CASE \E k \in 0 .. n - 1 :
                  \E l \in g[k].elements, v \in g[n - 1 - k].value : e = Comma(l, v)
      <3> PICK k \in 0 .. n - 1 : \E l \in g[k].elements, v \in g[n - 1 - k].value : e = Comma(l, v)
        BY <2>2
      <3> PICK l \in g[k].elements, v \in g[n - 1 - k].value : e = Comma(l, v)
        OBVIOUS
      <3>1. n - 1 - k \in 0 .. n - 1
        OBVIOUS
      <3>2. l \in ReadElements /\ v \in ReadValues
        BY <1>1, <3>1
      <3> QED BY <3>2, PartsRead
    <2> QED BY <2>1, <2>2, InElements
  <1>4. ASSUME NEW j \in 0 .. n, NEW x \in Names, NEW o \in Member(g, x, j)
        PROVE  o \in ReadMembers(x)
    <2>1. ~(j < 3) /\ \E v \in g[j - 2].value : o = <<x, ":">> \o v
      BY InMember
    <2> PICK v \in g[j - 2].value : o = <<x, ":">> \o v
      BY <2>1
    <2>2. j - 2 \in 0 .. n - 1
      BY <2>1
    <2>3. v \in ReadValues
      BY <1>1, <2>2
    <2> QED BY <2>3, PartsRead
  <1>5. ASSUME NEW x \in Names, NEW m \in Members(g, x, n) PROVE m \in ReadMembers(x)
    <2>1. CASE m \in Member(g, x, n)
      <3>1. n \in 0 .. n
        OBVIOUS
      <3> QED BY <1>4, <2>1, <3>1
    <2>2. CASE \E k \in 0 .. n - 1, y \in Names :
                  \E l \in g[k].members[y], o \in Member(g, x, n - 1 - k) : m = Comma(l, o)
      <3> PICK k \in 0 .. n - 1, y \in Names :
                  \E l \in g[k].members[y], o \in Member(g, x, n - 1 - k) : m = Comma(l, o)
        BY <2>2
      <3> PICK l \in g[k].members[y], o \in Member(g, x, n - 1 - k) : m = Comma(l, o)
        OBVIOUS
      <3>1. n - 1 - k \in 0 .. n
        OBVIOUS
      <3>2. l \in ReadMembers(y)
        BY <1>1
      <3>3. o \in ReadMembers(x)
        BY <1>4, <3>1
      <3> QED BY <3>2, <3>3, PartsRead
    <2> QED BY <2>1, <2>2, InMembers
  <1>6. Value(g, n) \subseteq ReadValues /\ Elements(g, n) \subseteq ReadElements
    BY <1>2, <1>3
  <1>7. \A x \in Names : Members(g, x, n) \subseteq ReadMembers(x)
    BY <1>5
  <1> QED BY <1>6, <1>7 DEF Row, ReadThrough

\* The Reader reads every document through, from its first token to its last.
LEMMA DocumentsRead ==
  ASSUME NEW d \in Documents
  PROVE  d \in Text /\ Run(Start, d, State("rest", <<>>))
  <1> DEFINE S == {n \in Nat : n <= MaxTokens => ReadThrough(Grammar[n])}
  <1>1. ASSUME NEW n \in Nat, \A k \in 0 .. n - 1 : k \in S PROVE n \in S
    <2> SUFFICES ASSUME n <= MaxTokens PROVE ReadThrough(Grammar[n])
      OBVIOUS
    <2> DEFINE g == Below(Grammar, n)
    <2>1. n \in 0 .. MaxTokens
      BY JsonReaderAssumption
    <2>2. \A k \in 0 .. n - 1 : ReadThrough(Grammar[k])
      <3> SUFFICES ASSUME NEW k \in 0 .. n - 1 PROVE ReadThrough(Grammar[k])
        OBVIOUS
      <3>1. k \in S /\ k <= MaxTokens
        BY <1>1, JsonReaderAssumption
      <3> QED BY <3>1
    <2>3. \A k \in 0 .. n - 1 : g[k] = Grammar[k]
      BY DEF Below
    <2>4. Grammar[n] = Row(g, n)
      BY <2>1, GrammarRows
    <2> HIDE DEF g
    <2>5. \A k \in 0 .. n - 1 : ReadThrough(g[k])
      BY <2>2, <2>3
    <2> QED BY <2>4, <2>5, RowRead
  <1> HIDE DEF S
  <1>2. \A n \in Nat : n \in S
    BY <1>1, Induction
  <1>3. PICK n \in 0 .. MaxTokens : d \in Grammar[n].value
    BY DEF Documents
  <1>4. n \in Nat /\ n <= MaxTokens
    BY JsonReaderAssumption
  <1>5. d \in ReadValues
    BY <1>2, <1>3, <1>4 DEF S, ReadThrough
  <1>6. <<>> \in Seq(Frame) /\ AfterValue(<<>>) = State("rest", <<>>)
    BY DEF AfterValue
  <1> QED BY <1>5, <1>6 DEF ReadValues, ReadsValue, Start

-----------------------------------------------------------------------------
(***************************************************************************)
(* The program's parse follows the machine until it finds an error.        *)
(***************************************************************************)
\* The text r ends with a token that nothing after the rest of it can read.
Refused(r) == 
    \E s \in Text, t \in Toks :
        r = s \o <<t>> /\ \E c : Run(Start, s, c) /\ Move(c, t) = Stuck

\* The machine stands at c; before an array's first element it has looked ahead.
StandsAt(c) ==
    \/ c = State(stage, frames)
    \/ stage = "value" /\ c = State("first", frames) /\ ahead \notin {None, "]"}

Followed ==
    /\ stage \in Early => \E c : Run(Start, read, c) /\ StandsAt(c)
    /\ stage \in {"recover", "rest"} /\ errors > 0 => Refused(read)

Track == Plain => Followed

LEMMA RunEnds ==
  ASSUME NEW c, NEW s \in Text, NEW d, Run(c, s, d)
  PROVE  d \in Reader /\ d # Stuck
  <1> PICK q : Through(q, c, s, d)
    BY DEF Run
  <1>1. Len(s) \in Nat /\ Len(s) + 1 \in 1 .. Len(s) + 1
    BY Lengths
  <1>2. q \in Seq(Reader) /\ Len(s) + 1 \in 1 .. Len(q) /\ q[Len(s) + 1] = d
        /\ q[Len(s) + 1] # Stuck
    BY <1>1 DEF Through
  <1> QED BY <1>2

LEMMA TokenRead ==
  ASSUME Input, NEW t, Read(t)
  PROVE  t \in Toks /\ read \in Text /\ <<t>> \in Text /\ read' = read \o <<t>>
  <1>1. t \in Toks
    BY FetchTypes DEF Read, Toks
  <1>2. read \in Text
    BY DEF Input, Text, Toks
  <1>3. read' = read \o <<t>>
    BY <1>1, <1>2, AppendIsConcat DEF Read, Text
  <1> QED BY <1>1, <1>2, <1>3, OneToken

\* Reading a token follows the machine's step.
LEMMA MovesOn ==
  ASSUME Input, NEW t, Read(t), NEW c, Run(Start, read, c),
         Move(c, t) \in Reader, Move(c, t) # Stuck
  PROVE  Run(Start, read', Move(c, t))
  <1>1. t \in Toks /\ read \in Text /\ <<t>> \in Text /\ read' = read \o <<t>>
    BY TokenRead
  <1>2. c \in Reader /\ c # Stuck
    BY <1>1, RunEnds
  <1>3. Run(c, <<t>>, Move(c, t))
    BY <1>1, <1>2, RunStep
  <1> QED BY <1>1, <1>3, RunOn

\* A token the machine stops at is the end of a refused text.
LEMMA RefusedHere ==
  ASSUME Input, NEW t, Read(t), NEW c, Run(Start, read, c), Move(c, t) = Stuck,
         stage' \in {"recover", "rest"}
  PROVE  Followed'
  <1>1. t \in Toks /\ read \in Text /\ read' = read \o <<t>>
    BY TokenRead
  <1>2. Refused(read')
    BY <1>1 DEF Refused
  <1>3. stage' \notin Early
    BY DEF Early
  <1> QED BY <1>2, <1>3 DEF Followed

LEMMA GoesOn ==
  ASSUME Input, NEW t, Read(t), NEW c, Run(Start, read, c),
         frames' \in Seq(Frame), stage' \in Early, Move(c, t) = State(stage', frames')
  PROVE  Followed'
  <1>1. State(stage', frames') \in Reader /\ State(stage', frames') # Stuck
    BY States DEF Early, Ats
  <1>2. Run(Start, read', State(stage', frames'))
    BY <1>1, MovesOn
  <1>3. StandsAt(State(stage, frames))'
    BY DEF StandsAt
  <1>4. stage' \notin {"recover", "rest"}
    BY DEF Early
  <1>5. stage' \in Early => (\E c1 : Run(Start, read, c1) /\ StandsAt(c1))'
    BY <1>2, <1>3
  <1> QED BY <1>4, <1>5 DEF Followed

\* A value is complete, and with it a call or the document.
LEMMA Completes ==
  ASSUME Input, NEW t, Read(t), NEW c, Run(Start, read, c), NEW fs \in Seq(Frame),
         Move(c, t) = AfterValue(fs), ValueReturns(fs, TRUE), errors' = 0
  PROVE  Followed'
  <1>1. CASE fs = <<>>
    <2>1. stage' = "rest"
      BY <1>1 DEF ValueReturns
    <2> QED BY <2>1 DEF Followed, Early
  <1>2. CASE fs # <<>>
    <2>1. frames' = fs /\ stage' = AfterChild(Last(fs).kind)
      BY <1>2 DEF ValueReturns
    <2>2. stage' \in Early
      BY <2>1 DEF AfterChild, Early
    <2>3. AfterValue(fs) = State(stage', frames')
      BY <1>2, <2>1 DEF AfterValue
    <2> QED BY <2>1, <2>2, <2>3, GoesOn
  <1> QED BY <1>1, <1>2

LEMMA TrackBegins == ASSUME IInv, Parse PROVE Followed'
  <1>1. frames' = <<>> /\ read' = <<>> /\ stage' = "value"
    BY DEF IInv, Depth, Parse
  <1>2. <<>> \in Seq(Frame)
    OBVIOUS
  <1>3. Start \in Reader /\ Start # Stuck
    BY <1>2, States DEF Start, Ats
  <1>4. Run(Start, read', Start)
    BY <1>1, <1>3, RunNowhere
  <1>5. StandsAt(Start)'
    BY <1>1 DEF StandsAt, Start
  <1> QED BY <1>1, <1>4, <1>5 DEF Followed

\* A value looked ahead at is not the bracket that closes an empty array.
LEMMA StandingAtValue ==
  ASSUME Followed, stage = "value", NEW t \in NextTokens
  PROVE  \E c : Run(Start, read, c) /\ Move(c, t) = FromValue(frames, t)
  <1>1. PICK c : Run(Start, read, c) /\ StandsAt(c)
    BY DEF Followed, Early
  <1>2. CASE c = State(stage, frames)
    BY <1>1, <1>2, MoveFrom
  <1>3. CASE c = State("first", frames) /\ ahead \notin {None, "]"}
    <2>1. t # "]"
      BY <1>3 DEF NextTokens
    <2> QED BY <1>1, <1>3, <2>1, MoveFrom DEF FromFirst
  <1> QED BY <1>1, <1>2, <1>3 DEF StandsAt

LEMMA StandingInside ==
  ASSUME IInv, Followed, stage \in Early \ {"value"}
  PROVE  /\ Run(Start, read, State(stage, frames))
         /\ frames \in Seq(Frame) /\ frames # <<>> /\ Front(frames) \in Seq(Frame)
         /\ Last(frames) \in Frame /\ errors = 0
  <1>1. frames \in Seq(Frame) /\ frames # <<>> /\ errors = 0
    BY DEF IInv, Machine, Depth, Errs, Inside, Early
  <1> QED BY <1>1, FrontLast DEF Followed, StandsAt

LEMMA TrackValue == ASSUME IInv, Input, Track, ReadValue, Plain' PROVE Followed'
  <1>1. stage = "value" /\ frames \in Seq(Frame) /\ UNCHANGED features /\ errors = 0
    BY DEF IInv, Machine, Errs, ReadValue
  <1> PICK t \in NextTokens :
              \/ BeginContainer(t) \/ ReadScalar(t) \/ SkipComment(t)
              \/ Dropped(t) \/ ValueFails(t)
    BY DEF ReadValue
  <1>2. Plain /\ (Read(t) => t # "comment")
    BY <1>1, PlainBefore
    DEF BeginContainer, ReadScalar, SkipComment, Dropped, ValueFails
  <1>3. PICK c : Run(Start, read, c) /\ Move(c, t) = FromValue(frames, t)
    BY <1>1, <1>2, StandingAtValue DEF Track
  <1>4. CASE BeginContainer(t)
    <2>1. t \in {"{", "["} /\ Read(t) /\ t \notin Scalars
      BY <1>4 DEF BeginContainer, Scalars
    <2>2. CASE t = "{"
      <3>1. frames' = Append(frames, ObjectCall("empty")) /\ stage' = "name"
        BY <1>4, <2>2 DEF BeginContainer, ObjectCall
      <3>2. frames' \in Seq(Frame) /\ Move(c, t) = State(stage', frames')
        BY <1>1, <1>3, <2>1, <2>2, <3>1, AfterCalls DEF FromValue
      <3> QED BY <1>3, <2>1, <3>1, <3>2, GoesOn DEF Early
    <2>3. CASE t = "["
      <3>1. frames' = Append(frames, ArrayCall) /\ stage' = "first"
        BY <1>4, <2>3 DEF BeginContainer, ArrayCall
      <3>2. frames' \in Seq(Frame) /\ Move(c, t) = State(stage', frames')
        BY <1>1, <1>3, <2>1, <2>3, <3>1, AfterCalls DEF FromValue
      <3> QED BY <1>3, <2>1, <3>1, <3>2, GoesOn DEF Early
    <2> QED BY <2>1, <2>2, <2>3
  <1>5. CASE ReadScalar(t)
    <2>1. Read(t) /\ ValueReturns(frames, TRUE) /\ errors' = 0 /\ t \in Scalars
      BY <1>1, <1>5 DEF ReadScalar
    <2>2. Move(c, t) = AfterValue(frames)
      BY <1>3, <2>1 DEF FromValue
    <2> QED BY <1>1, <1>3, <2>1, <2>2, Completes
  <1>6. CASE SkipComment(t)
    BY <1>2, <1>6 DEF SkipComment
  <1>7. CASE Dropped(t)
    BY <1>2, <1>7 DEF Dropped, Plain
  <1>8. CASE ValueFails(t)
    <2>1. Read(t) /\ stage' \in {"recover", "rest"}
      BY <1>8, FailureReturned DEF ValueFails
    <2>2. t \notin Scalars /\ t # "{" /\ t # "["
      BY <1>8 DEF ValueFails, NotAValue, Undecodable, Scalars
    <2>3. Move(c, t) = Stuck
      BY <1>3, <2>2 DEF FromValue
    <2> QED BY <1>3, <2>1, <2>3, RefusedHere
  <1> QED BY <1>4, <1>5, <1>6, <1>7, <1>8

LEMMA TrackName == ASSUME IInv, Input, Story, Track, ReadName, Plain' PROVE Followed'
  <1>1. PICK t \in NextTokens :
          /\ Read(t)
          /\ \/ Name(t) \/ NumericName(t) \/ NotAName(t)
             \/ t = "comment"
             \/ t = "}" /\ ClosesEmpty /\ ContainerReturns(TRUE) /\ UNCHANGED errors
    BY DEF ReadName
  <1>2. Plain /\ t # "comment" /\ stage = "name"
    BY <1>1, PlainBefore DEF ReadName
  <1>3. stage \in Early \ {"value"} /\ Followed
    BY <1>2 DEF Track, Early
  <1>4. /\ Run(Start, read, State("name", frames)) /\ frames \in Seq(Frame) /\ frames # <<>>
        /\ Front(frames) \in Seq(Frame) /\ Last(frames) \in Frame /\ errors = 0
    BY <1>2, <1>3, StandingInside
  <1>5. Move(State("name", frames), t) = FromName(frames, t)
    BY MoveFrom
  <1>6. CASE Name(t)
    <2> DEFINE f == [frames[Len(frames)] EXCEPT !.name = DecodedName(t)]
    <2>1. t \in Names
      BY <1>6 DEF Name, Names
    <2>2. Last(frames).kind = "object"
      BY <1>2, <1>3, InsideACall DEF Story, Here, DocBegun
    <2>3. f = ObjectCall(DecodedName(t))
      BY <1>4, <2>2 DEF Last, Frame, ObjectCall
    <2>4. frames' = [frames EXCEPT ![Len(frames)] = f] /\ stage' = "colon"
      BY <1>6 DEF Name
    <2>5. f \in Frame
      BY <2>3, Calls DEF DecodedName
    <2> HIDE DEF f
    <2>6. frames' \in Seq(Frame) /\ frames' # <<>>
      <3>1. Len(frames) \in 1 .. Len(frames)
        BY <1>4, FrontLast
      <3>2. frames' \in Seq(Frame) /\ Len(frames') = Len(frames)
        BY <1>4, <2>4, <2>5, <3>1, ExceptSeq
      <3> QED BY <1>4, <3>1, <3>2, EmptySeq
    <2>7. Front(frames') = Front(frames) /\ Last(frames') = f
      BY <1>4, <2>4, <2>5, RenamedCall
    <2>8. frames' = Append(Front(frames), f)
      BY <2>6, <2>7, FrontThenLast
    <2>9. Move(State("name", frames), t) = State(stage', frames')
      BY <1>5, <2>1, <2>3, <2>4, <2>8 DEF FromName
    <2> QED BY <1>1, <1>4, <2>4, <2>6, <2>9, GoesOn DEF Early
  <1>7. CASE NumericName(t)
    BY <1>2, <1>7 DEF NumericName, Plain
  <1>8. CASE NotAName(t)
    <2>1. stage' = "recover"
      BY <1>8 DEF NotAName, AddErrorAndRecover
    <2>2. t \notin Names /\ ~(t = "}" /\ Last(frames).name = "empty")
      BY <1>8 DEF NotAName, Names, ClosesEmpty, Object
    <2>3. FromName(frames, t) = Stuck
      BY <2>2 DEF FromName
    <2> QED BY <1>1, <1>4, <1>5, <2>1, <2>3, RefusedHere
  <1>9. CASE t = "}" /\ ClosesEmpty /\ ContainerReturns(TRUE) /\ UNCHANGED errors
    <2>1. FromName(frames, t) = AfterValue(Front(frames))
      BY <1>9 DEF FromName, ClosesEmpty, Object, Names
    <2> QED BY <1>1, <1>4, <1>5, <1>9, <2>1, Completes DEF ContainerReturns
  <1> QED BY <1>1, <1>2, <1>6, <1>7, <1>8, <1>9

LEMMA TrackColon == ASSUME IInv, Input, Track, ReadColon, Plain' PROVE Followed'
  <1>1. PICK t \in NextTokens :
          /\ Read(t)
          /\ \/ t = ":" /\ ReadChild
             \/ t # ":" /\ AddErrorAndRecover
    BY DEF ReadColon
  <1>2. Plain /\ stage = "colon"
    BY <1>1, PlainBefore DEF ReadColon
  <1>3. stage \in Early \ {"value"} /\ Followed
    BY <1>2 DEF Track, Early
  <1>4. Run(Start, read, State("colon", frames)) /\ frames \in Seq(Frame)
    BY <1>2, <1>3, StandingInside
  <1>5. Move(State("colon", frames), t) = FromColon(frames, t)
    BY MoveFrom
  <1>6. CASE t = ":" /\ ReadChild
    <2>1. stage' = "value" /\ frames' = frames
      BY <1>6 DEF ReadChild
    <2>2. Move(State("colon", frames), t) = State(stage', frames')
      BY <1>5, <1>6, <2>1 DEF FromColon
    <2> QED BY <1>1, <1>4, <2>1, <2>2, GoesOn DEF Early
  <1>7. CASE t # ":" /\ AddErrorAndRecover
    <2>1. stage' = "recover" /\ FromColon(frames, t) = Stuck
      BY <1>7 DEF AddErrorAndRecover, FromColon
    <2> QED BY <1>1, <1>4, <1>5, <2>1, RefusedHere
  <1> QED BY <1>1, <1>6, <1>7

LEMMA TrackComma == ASSUME IInv, Input, Track, ReadComma, Plain' PROVE Followed'
  <1>1. PICK t \in NextTokens :
          /\ Read(t)
          /\ \/ t = "}" /\ ContainerReturns(TRUE) /\ UNCHANGED errors
             \/ t = "," /\ Stay("name")
             \/ t = "comment"
             \/ t \notin {"}", ",", "comment"} /\ AddErrorAndRecover
    BY DEF ReadComma
  <1>2. Plain /\ stage = "comma" /\ t # "comment"
    BY <1>1, PlainBefore DEF ReadComma
  <1>3. stage \in Early \ {"value"} /\ Followed
    BY <1>2 DEF Track, Early
  <1>4. /\ Run(Start, read, State("comma", frames)) /\ frames \in Seq(Frame)
        /\ Front(frames) \in Seq(Frame) /\ errors = 0
    BY <1>2, <1>3, StandingInside
  <1>5. Move(State("comma", frames), t) = FromComma(frames, t)
    BY MoveFrom
  <1>6. CASE t = "}" /\ ContainerReturns(TRUE) /\ UNCHANGED errors
    <2>1. FromComma(frames, t) = AfterValue(Front(frames))
      BY <1>6 DEF FromComma
    <2> QED BY <1>1, <1>4, <1>5, <1>6, <2>1, Completes DEF ContainerReturns
  <1>7. CASE t = "," /\ Stay("name")
    <2>1. stage' = "name" /\ frames' = frames
      BY <1>7 DEF Stay
    <2>2. Move(State("comma", frames), t) = State(stage', frames')
      BY <1>5, <1>7, <2>1 DEF FromComma
    <2> QED BY <1>1, <1>4, <2>1, <2>2, GoesOn DEF Early
  <1>8. CASE t \notin {"}", ",", "comment"} /\ AddErrorAndRecover
    <2>1. stage' = "recover" /\ FromComma(frames, t) = Stuck
      BY <1>8 DEF AddErrorAndRecover, FromComma
    <2> QED BY <1>1, <1>4, <1>5, <2>1, RefusedHere
  <1> QED BY <1>1, <1>2, <1>6, <1>7, <1>8

LEMMA TrackFirst == ASSUME IInv, Input, Track, ReadFirst, Plain' PROVE Followed'
  <1>1. PICK t \in NextTokens :
          \/ t = "]" /\ Read(t) /\ ContainerReturns(TRUE)
          \/ t # "]" /\ Leave(t) /\ ReadChild
    BY DEF ReadFirst
  <1>2. Plain /\ stage = "first" /\ errors' = errors
    BY <1>1, PlainBefore DEF ReadFirst
  <1>3. stage \in Early \ {"value"} /\ Followed
    BY <1>2 DEF Track, Early
  <1>4. /\ Run(Start, read, State("first", frames)) /\ frames \in Seq(Frame)
        /\ Front(frames) \in Seq(Frame) /\ errors = 0
    BY <1>2, <1>3, StandingInside
  <1>5. CASE t = "]" /\ Read(t) /\ ContainerReturns(TRUE)
    <2>1. Move(State("first", frames), t) = AfterValue(Front(frames))
      BY <1>5, MoveFrom DEF FromFirst
    <2> QED BY <1>2, <1>4, <1>5, <2>1, Completes DEF ContainerReturns
  <1>6. CASE t # "]" /\ Leave(t) /\ ReadChild
    <2>1. stage' = "value" /\ frames' = frames /\ read' = read /\ ahead' = t
      BY <1>6 DEF Leave, ReadChild
    <2>2. t # None
      BY JsonReaderAssumption DEF NextTokens
    <2>3. StandsAt(State("first", frames))'
      BY <1>6, <2>1, <2>2 DEF StandsAt
    <2> QED BY <1>4, <2>1, <2>3 DEF Followed
  <1> QED BY <1>1, <1>5, <1>6

LEMMA TrackNext == ASSUME IInv, Input, Track, ReadNext, Plain' PROVE Followed'
  <1>1. PICK t \in NextTokens :
          /\ Read(t)
          /\ \/ t = "comment"
             \/ t = "," /\ ReadChild
             \/ t = "]" /\ ContainerReturns(TRUE) /\ UNCHANGED errors
             \/ t \notin {"comment", ",", "]"} /\ AddErrorAndRecover
    BY DEF ReadNext
  <1>2. Plain /\ stage = "next" /\ t # "comment"
    BY <1>1, PlainBefore DEF ReadNext
  <1>3. stage \in Early \ {"value"} /\ Followed
    BY <1>2 DEF Track, Early
  <1>4. /\ Run(Start, read, State("next", frames)) /\ frames \in Seq(Frame)
        /\ Front(frames) \in Seq(Frame) /\ errors = 0
    BY <1>2, <1>3, StandingInside
  <1>5. Move(State("next", frames), t) = FromNext(frames, t)
    BY MoveFrom
  <1>6. CASE t = "]" /\ ContainerReturns(TRUE) /\ UNCHANGED errors
    <2>1. FromNext(frames, t) = AfterValue(Front(frames))
      BY <1>6 DEF FromNext
    <2> QED BY <1>1, <1>4, <1>5, <1>6, <2>1, Completes DEF ContainerReturns
  <1>7. CASE t = "," /\ ReadChild
    <2>1. stage' = "value" /\ frames' = frames
      BY <1>7 DEF ReadChild
    <2>2. Move(State("next", frames), t) = State(stage', frames')
      BY <1>5, <1>7, <2>1 DEF FromNext
    <2> QED BY <1>1, <1>4, <2>1, <2>2, GoesOn DEF Early
  <1>8. CASE t \notin {"comment", ",", "]"} /\ AddErrorAndRecover
    <2>1. stage' = "recover" /\ FromNext(frames, t) = Stuck
      BY <1>8 DEF AddErrorAndRecover, FromNext
    <2> QED BY <1>1, <1>4, <1>5, <2>1, RefusedHere
  <1> QED BY <1>1, <1>2, <1>6, <1>7, <1>8

LEMMA TrackAtTheEnd ==
  ASSUME IInv, Input, Story, Track, Plain',
         ReadAfterComment \/ StackLimitExceeded \/ Recover \/ Finish
  PROVE  Followed'
  <1>1. CASE ReadAfterComment
    BY <1>1, PlainBefore DEF ReadAfterComment, Story, Told
  <1>2. CASE StackLimitExceeded
    BY <1>2 DEF StackLimitExceeded, Throw, Followed, Early
  <1>3. CASE Recover
    <2>1. PICK t : Skip(t)
      BY <1>3 DEF Recover
    <2>2. Plain /\ read' = read
      BY <1>3, <2>1, PlainBefore DEF Recover, Skip
    <2>3. Refused(read)
      BY <1>3, <2>2 DEF Track, Followed, Recover, IInv, Errs
    <2>4. Stay("recover") \/ ValueReturns(Front(frames), FALSE)
      BY <1>3 DEF Recover, ContainerReturns
    <2>5. stage' \in {"recover", "rest"}
      <3>1. CASE Stay("recover")
        BY <3>1 DEF Stay
      <3>2. CASE ValueReturns(Front(frames), FALSE)
        BY <3>2, FailureReturned
      <3> QED BY <2>4, <3>1, <3>2
    <2> QED BY <2>2, <2>3, <2>5 DEF Followed, Early
  <1>4. CASE Finish
    <2>1. PICK t :
             /\ Skip(t)
             /\ IF t = "comment" /\ "allowComments" \in features
                THEN UNCHANGED <<stage, errors, result>>
                ELSE /\ stage' = "ready"
                     /\ errors' = IF StrictError THEN errors + 1 ELSE errors
                     /\ result' = IF StrictError THEN "failed" ELSE result
      BY <1>4 DEF Finish
    <2>2. Plain /\ read' = read
      BY <1>4, <2>1, PlainBefore DEF Finish, Skip
    <2>3. Followed /\ stage = "rest"
      BY <1>4, <2>2 DEF Track, Finish
    <2>4. stage' = "ready" \/ (stage' = stage /\ errors' = errors)
      <3>1. CASE t = "comment" /\ "allowComments" \in features
        BY <2>1, <3>1
      <3>2. CASE ~(t = "comment" /\ "allowComments" \in features)
        <4>1. stage' = "ready"
          BY <2>1, <3>2, Zenon
        <4> QED BY <4>1
      <3> QED BY <3>1, <3>2
    <2> QED BY <2>2, <2>3, <2>4 DEF Followed, Early
  <1> QED BY <1>1, <1>2, <1>3, <1>4

\* Every step of the program keeps to the machine.
LEMMA TrackGoesOn == IInv /\ Input /\ Story /\ Track /\ [Next]_vars => Track'
  <1> SUFFICES ASSUME IInv, Input, Story, Track, [Next]_vars, Plain' PROVE Followed'
    BY DEF Track
  <1>1. CASE UNCHANGED vars
    BY <1>1 DEF vars, inputVars, Track, Followed, StandsAt, Plain
  <1> QED
    BY <1>1, TrackBegins, TrackValue, TrackName, TrackColon, TrackComma, TrackFirst,
       TrackNext, TrackAtTheEnd
    DEF Next, Reading

\* What has made the Reader stop begins no document.
LEMMA RefusedBeginsNone == ASSUME NEW r, Refused(r) PROVE r \notin BegunDocuments
  <1> SUFFICES ASSUME r \in BegunDocuments PROVE FALSE
    OBVIOUS
  <1>0. PICK s \in Text, t \in Toks :
           r = s \o <<t>> /\ \E c : Run(Start, s, c) /\ Move(c, t) = Stuck
    BY DEF Refused
  <1>1. PICK c : Run(Start, s, c) /\ Move(c, t) = Stuck
    BY <1>0
  <1>2. PICK d \in Documents : r \in Prefixes(d)
    BY DEF BegunDocuments
  <1>3. d \in Text /\ Run(Start, d, State("rest", <<>>))
    BY DocumentsRead
  <1>4. PICK l \in 0 .. Len(d) : r = SubSeq(d, 1, l)
    BY <1>2 DEF Prefixes
  <1>5. <<t>> \in Text /\ Len(<<t>>) = 1 /\ <<t>>[1] = t
    BY OneToken
  <1> DEFINE n == Len(s)
             m == Len(d)
  <1>6. n \in Nat /\ m \in Nat
    BY <1>3, Lengths
  <1>7. /\ r \in Text /\ Len(r) = n + 1
        /\ \A i \in 1 .. n + 1 : r[i] = IF i <= n THEN s[i] ELSE <<t>>[i - n]
    BY <1>0, <1>5, ConcatProperties DEF Text
  <1>8. /\ Len(r) = IF 1 <= l THEN l - 1 + 1 ELSE 0
        /\ \A i \in 1 .. l - 1 + 1 : r[i] = d[1 + i - 1]
    <2>1. \A i \in 1 .. l : d[i] \in Toks
      BY <1>3 DEF Text
    <2>2. l \in Int
      BY <1>6
    <2> QED BY <1>3, <1>4, <2>1, <2>2, SubSeqProperties DEF Text
  <1> HIDE DEF n, m
  <1>9. l = n + 1 /\ n + 1 <= Len(d)
    BY <1>6, <1>7, <1>8 DEF m
  <1>10. \A i \in 1 .. n + 1 : r[i] = d[i]
    BY <1>6, <1>8, <1>9
  <1>11. AlikeTo(n, s, d)
    <2> SUFFICES ASSUME NEW i \in 1 .. n PROVE s[i] = d[i]
      BY DEF AlikeTo
    <2>1. i \in 1 .. n + 1 /\ i <= n
      BY <1>6
    <2> QED BY <1>7, <1>10, <2>1
  <1>12. d[n + 1] = t
    <2> DEFINE k == n + 1
    <2>2. k \in 1 .. k /\ ~(k <= n) /\ k - n = 1 /\ k = n + 1
      BY <1>6
    <2>3. \A i \in 1 .. k : r[i] = d[i] /\ r[i] = IF i <= n THEN s[i] ELSE <<t>>[i - n]
      BY <1>7, <1>10
    <2> HIDE DEF k
    <2>4. r[k] = d[k] /\ r[k] = <<t>>[k - n]
      BY <2>2, <2>3
    <2> QED BY <1>5, <2>2, <2>4
  <1>13. d[n + 1] # t
    BY <1>1, <1>3, <1>9, <1>11, NoWayThrough DEF n
  <1> QED BY <1>12, <1>13

\* Nothing that could become a document is refused.
THEOREM RefusedAreNoDocuments == Spec => []RefusesNoDocument
  <1>1. Init => Story /\ Track
    BY DEF Init, Story, Told, Track, Followed, Early
  <1>2. Track => RefusesNoDocument
    BY RefusedBeginsNone DEF Track, Followed, RefusesNoDocument
  <1> QED BY <1>1, <1>2, Initially, IInvNext, InputNext, StoryGoesOn, TrackGoesOn, PTL DEF Spec

-----------------------------------------------------------------------------
(***************************************************************************)
(* A parse ends: what it has left to do, by the tokens not used up, the    *)
(* calls under way and the stage, is less with every step.                 *)
(***************************************************************************)
\* Tokens of the document that no step has used yet, at most.
Unread == MaxTokens - count + (IF ahead \in Tokens THEN 1 ELSE 0)

\* How far a stage is from the next token that has to be used up.
Rank == [ready |-> 0, recover |-> 1, rest |-> 1, colon |-> 2, comma |-> 2, next |-> 2,
         value |-> 3, name |-> 3, afterComment |-> 4, first |-> 4]

Height == Len(frames) + Rank[stage]
Work == 3 * Unread + Height

\* What is left to do is a number.
LEMMA WorkTypes ==
  ASSUME IInv, Input
  PROVE  /\ count \in Nat /\ Unread \in Nat /\ Len(frames) \in Nat
         /\ Rank[stage] \in 0 .. 4 /\ Height \in Nat /\ Work \in Nat
  <1>1. count \in 0 .. MaxTokens /\ MaxTokens \in Nat /\ Len(frames) \in Nat
    BY JsonReaderAssumption, LenProperties DEF Input, IInv, Machine
  <1>2. Rank[stage] \in 0 .. 4
    BY DEF IInv, Machine, Stages, Rank
  <1>3. Unread \in Nat
    BY <1>1 DEF Unread
  <1> QED BY <1>1, <1>2, <1>3 DEF Height, Work

\* A token that is used up makes for two steps up.
LEMMA TokenUsed ==
  ASSUME IInv, Input, NEW t, Read(t) \/ Skip(t)
  PROVE  Unread' = IF t = "end" THEN Unread ELSE Unread - 1
  <1>1. count \in Nat /\ MaxTokens \in Nat
    BY WorkTypes, JsonReaderAssumption
  <1>2. None \notin Tokens /\ "end" \notin Tokens
    BY JsonReaderAssumption DEF Tokens, Scalars, Undecodable
  <1>3. /\ t \in NextTokens /\ ahead' = None
        /\ count' = IF ahead = None /\ t # "end" THEN count + 1 ELSE count
    BY DEF Read, Skip, Fetch
  <1>4. Unread' = MaxTokens - count'
    BY <1>1, <1>2, <1>3 DEF Unread
  <1>5. CASE ahead = None
    <2>1. Unread = MaxTokens - count
      BY <1>1, <1>2, <1>5 DEF Unread
    <2> QED BY <1>1, <1>3, <1>4, <1>5, <2>1
  <1>6. CASE ahead # None
    <2>1. t = ahead /\ count' = count
      BY <1>3, <1>6 DEF NextTokens
    <2>2. Unread = MaxTokens - count + IF t = "end" THEN 0 ELSE 1
      BY <1>1, <1>2, <1>6, <2>1 DEF Unread, Input
    <2> QED BY <1>1, <1>4, <2>1, <2>2
  <1> QED BY <1>5, <1>6

\* A token that is only looked at is still to be used.
LEMMA TokenLeft == ASSUME IInv, Input, NEW t, Leave(t) PROVE Unread' = Unread
  <1>1. count \in Nat /\ MaxTokens \in Nat
    BY WorkTypes, JsonReaderAssumption
  <1>2. None \notin Tokens /\ "end" \notin Tokens
    BY JsonReaderAssumption DEF Tokens, Scalars, Undecodable
  <1>3. /\ t \in NextTokens /\ ahead' = t
        /\ count' = IF ahead = None /\ t # "end" THEN count + 1 ELSE count
    BY DEF Leave, Fetch
  <1>4. CASE ahead = None
    <2>1. t # "end" => t \in Tokens
      BY <1>3, <1>4 DEF NextTokens
    <2> QED BY <1>1, <1>2, <1>3, <1>4, <2>1 DEF Unread
  <1>5. CASE ahead # None
    <2>1. t = ahead /\ count' = count
      BY <1>3, <1>5 DEF NextTokens
    <2> QED BY <1>1, <1>3, <2>1 DEF Unread
  <1> QED BY <1>4, <1>5

Less == Work' < Work

\* A step down is less to do, whether it uses a token up or not.
LEMMA LessByStage ==
  ASSUME IInv, Input, NEW t, Read(t) \/ Skip(t) \/ Leave(t), Height' \in Nat, Height' < Height
  PROVE  Less
  <1>1. Unread \in Nat /\ Height \in Nat
    BY WorkTypes
  <1>2. Unread' = Unread \/ Unread' = Unread - 1
    BY TokenUsed, TokenLeft
  <1> QED BY <1>1, <1>2 DEF Less, Work

\* A step that uses a token up may go two up.
LEMMA LessByToken ==
  ASSUME IInv, Input, NEW t, Read(t) \/ Skip(t), t # "end", Height' \in Nat, Height' <= Height + 2
  PROVE  Less
  <1>1. Unread \in Nat /\ Height \in Nat
    BY WorkTypes
  <1>2. Unread' = Unread - 1
    BY TokenUsed
  <1>3. \A u, h, k \in Nat : k <= h + 2 => 3 * (u - 1) + k < 3 * u + h
    OBVIOUS
  <1>4. 3 * (Unread - 1) + Height' < 3 * Unread + Height
    BY <1>1, <1>3
  <1> QED BY <1>2, <1>4 DEF Less, Work

\* The heights of the stages, and of what follows a return.
LEMMA HeightAt ==
  ASSUME NEW n \in Nat, Len(frames) = n
  PROVE  /\ stage = "ready" => Height = n
         /\ stage \in {"recover", "rest"} => Height = n + 1
         /\ stage \in {"colon", "comma", "next"} => Height = n + 2
         /\ stage \in {"value", "name"} => Height = n + 3
         /\ stage \in {"afterComment", "first"} => Height = n + 4
  BY DEF Height, Rank

LEMMA HeightAfter ==
  ASSUME NEW n \in Nat, Len(frames') = n
  PROVE  /\ stage' = "ready" => Height' = n
         /\ stage' \in {"recover", "rest"} => Height' = n + 1
         /\ stage' \in {"colon", "comma", "next"} => Height' = n + 2
         /\ stage' \in {"value", "name"} => Height' = n + 3
         /\ stage' \in {"afterComment", "first"} => Height' = n + 4
  BY DEF Height, Rank

LEMMA ReturnHeight ==
  ASSUME NEW calling \in Seq(Frame), NEW n \in Nat, Len(calling) = n, NEW ok \in BOOLEAN,
         ValueReturns(calling, ok)
  PROVE  /\ Height' \in {n + 1, n + 2}
         /\ ~ok => Height' = n + 1
  <1>1. Len(frames') = n
    BY DEF ValueReturns
  <1>2. CASE ok
    <2>1. stage' \in {"rest", "comma", "next"}
      <3>1. CASE calling = <<>>
        BY <3>1 DEF ValueReturns
      <3>2. CASE calling # <<>>
        <4>1. stage' = IF ~ok THEN "recover" ELSE AfterChild(Last(calling).kind)
          BY <3>2 DEF ValueReturns
        <4>2. AfterChild(Last(calling).kind) \in {"comma", "next"}
          BY DEF AfterChild
        <4> QED BY <1>2, <4>1, <4>2
      <3> QED BY <3>1, <3>2
    <2> QED BY <1>1, <1>2, <2>1, HeightAfter
  <1>3. CASE ~ok
    <2>1. stage' \in {"recover", "rest"}
      BY <1>3, FailureReturned
    <2> QED BY <1>1, <2>1, HeightAfter
  <1> QED BY <1>2, <1>3

\* Where a step starts: the calls under way, at least one inside a call.
LEMMA Calling ==
  ASSUME IInv
  PROVE  /\ Len(frames) \in Nat /\ frames \in Seq(Frame)
         /\ stage \in Inside => /\ Len(frames) >= 1
                                /\ Front(frames) \in Seq(Frame)
                                /\ Len(Front(frames)) = Len(frames) - 1
                                /\ Len(frames) - 1 \in Nat
  <1>1. Len(frames) \in Nat /\ frames \in Seq(Frame)
    BY LenProperties DEF IInv, Machine
  <1>2. stage \in Inside => frames # <<>>
    BY DEF IInv, Depth
  <1> QED BY <1>1, <1>2, FrontLast

\* Every step of readValue, of readObject and readArray, of recovery and parse.
LEMMA LessValue == ASSUME IInv, Input, ReadValue PROVE Less
  <1>1. /\ frames \in Seq(Frame) /\ Len(frames) \in Nat /\ Height = Len(frames) + 3
    BY Calling, HeightAt DEF ReadValue
  <1> DEFINE n == Len(frames)
  <1>2. n \in Nat /\ Height = n + 3 /\ Len(frames) = n
    BY <1>1
  <1> HIDE DEF n
  <1> PICK t \in NextTokens :
              \/ BeginContainer(t) \/ ReadScalar(t) \/ SkipComment(t)
              \/ Dropped(t) \/ ValueFails(t)
    BY DEF ReadValue
  <1>3. CASE BeginContainer(t)
    <2> DEFINE f == [kind |-> IF t = "{" THEN "object" ELSE "array", name |-> "empty"]
    <2>1. f \in Frame
      BY DEF Frame
    <2>2. /\ frames' = Append(frames, f) /\ Read(t) /\ t # "end"
          /\ stage' = "name" \/ stage' = "first"
      BY <1>3 DEF BeginContainer
    <2> HIDE DEF f
    <2>3. Len(frames') = n + 1
      BY <1>1, <1>2, <2>1, <2>2, AppendProperties
    <2>4. Height' = n + 4 \/ Height' = n + 5
      <3>1. n + 1 \in Nat
        BY <1>2
      <3>2. Height' = (n + 1) + 3 \/ Height' = (n + 1) + 4
        BY <2>2, <2>3, <3>1, HeightAfter
      <3> QED BY <1>2, <3>2
    <2>less. Height' \in Nat /\ Height' <= Height + 2
      BY <1>2, <2>2, <2>4
    <2> QED BY <2>less, <1>2, <2>2, <2>4, LessByToken
  <1>4. CASE ReadScalar(t) \/ Dropped(t) \/ ValueFails(t)
    <2>1. /\ Read(t) \/ Leave(t)
          /\ ValueReturns(frames, TRUE) \/ ValueReturns(frames, FALSE)
      BY <1>4 DEF ReadScalar, Dropped, ValueFails
    <2>2. Height' \in {n + 1, n + 2}
      BY <1>1, <1>2, <2>1, ReturnHeight
    <2>less. Height' \in Nat /\ Height' < Height
      BY <1>2, <2>1, <2>2
    <2> QED BY <2>less, <1>2, <2>1, <2>2, LessByStage
  <1>5. CASE SkipComment(t)
    <2>1. Read(t) /\ t # "end" /\ stage' = "value" /\ frames' = frames
      BY <1>5 DEF SkipComment, Stay
    <2>2. Height' = n + 3
      BY <1>2, <2>1, HeightAfter
    <2>less. Height' \in Nat /\ Height' <= Height + 2
      BY <1>2, <2>1, <2>2
    <2> QED BY <2>less, <1>2, <2>1, <2>2, LessByToken
  <1> QED BY <1>3, <1>4, <1>5

\* What a step inside a call does to the height.
LEMMA InsideHeights ==
  ASSUME IInv, stage \in Inside, NEW n \in Nat, Len(frames) = n
  PROVE  /\ ContainerReturns(TRUE) => Height' \in {n, n + 1}
         /\ ContainerReturns(FALSE) => Height' = n
         /\ AddErrorAndRecover => Height' = n + 1
         /\ ReadChild => Height' = n + 3
         /\ Throw => Height' = 0
         /\ \A s \in {"name", "recover", "afterComment", "next"} :
               Stay(s) => Height' = n + Rank[s]
  <1>1. n - 1 \in Nat /\ Front(frames) \in Seq(Frame) /\ Len(Front(frames)) = n - 1
    BY Calling
  <1>2. ASSUME ContainerReturns(TRUE) PROVE Height' \in {n, n + 1}
    <2>1. Height' \in {(n - 1) + 1, (n - 1) + 2}
      BY <1>1, <1>2, ReturnHeight DEF ContainerReturns
    <2> QED BY <2>1
  <1>3. ASSUME ContainerReturns(FALSE) PROVE Height' = n
    <2>1. Height' = (n - 1) + 1
      BY <1>1, <1>3, ReturnHeight DEF ContainerReturns
    <2> QED BY <2>1
  <1>4. AddErrorAndRecover => Height' = n + 1
    BY HeightAfter DEF AddErrorAndRecover
  <1>5. ReadChild => Height' = n + 3
    BY HeightAfter DEF ReadChild
  <1>6. ASSUME Throw PROVE Height' = 0
    <2>1. Len(frames') = 0 /\ stage' = "ready"
      BY <1>6, EmptySeq DEF Throw
    <2> QED BY <2>1, HeightAfter
  <1>7. \A s \in {"name", "recover", "afterComment", "next"} :
           Stay(s) => Height' = n + Rank[s]
    BY DEF Stay, Height
  <1> QED BY <1>2, <1>3, <1>4, <1>5, <1>6, <1>7

LEMMA Ranks ==
  /\ Rank["name"] = 3 /\ Rank["recover"] = 1 /\ Rank["afterComment"] = 4 /\ Rank["next"] = 2
  BY DEF Rank

LEMMA LessInside ==
  ASSUME IInv, Input,
         ReadName \/ ReadColon \/ ReadComma \/ ReadAfterComment \/ ReadFirst \/ ReadNext
  PROVE  Less
  <1>1. stage \in Inside
    BY DEF ReadName, ReadColon, ReadComma, ReadAfterComment, ReadFirst, ReadNext, Inside
  <1> DEFINE n == Len(frames)
  <1>2. n \in Nat /\ n >= 1 /\ Len(frames) = n
    BY <1>1, Calling
  <1> HIDE DEF n
  <1>3. CASE ReadName
    <2>1. PICK t :
            /\ Read(t)
            /\ \/ Name(t) \/ NumericName(t) \/ NotAName(t)
               \/ t = "comment" /\ Stay("name") /\ UNCHANGED errors
               \/ t = "}" /\ ClosesEmpty /\ ContainerReturns(TRUE) /\ UNCHANGED errors
      BY <1>3 DEF ReadName
    <2>read. Read(t)
      BY <2>1
    <2>2. Height = n + 3
      BY <1>2, <1>3, HeightAt DEF ReadName
    <2>3. CASE Name(t)
      <3>1. stage' = "colon" /\ Len(frames') = n
        BY <1>2, <2>3, Calling DEF Name
      <3>2. Height' = n + 2
        BY <1>2, <3>1, HeightAfter
      <3>less. Height' \in Nat /\ Height' < Height
        BY <1>2, <2>2, <3>2
      <3> QED BY <3>less, <1>2, <2>read, <2>2, <3>2, LessByStage
    <2>4. CASE NumericName(t) \/ NotAName(t) \/ ContainerReturns(TRUE)
      <3>1. Height' \in {0, n, n + 1}
        BY <1>1, <1>2, <2>4, InsideHeights DEF NumericName, NotAName
      <3>less. Height' \in Nat /\ Height' < Height
        BY <1>2, <2>2, <3>1
      <3> QED BY <3>less, <1>2, <2>read, <2>2, <3>1, LessByStage
    <2>5. CASE t = "comment" /\ Stay("name")
      <3>1. Height' = n + 3
        BY <1>1, <1>2, <2>5, InsideHeights, Ranks
      <3>less. Height' \in Nat /\ Height' <= Height + 2
        BY <1>2, <2>2, <2>5, <3>1
      <3> QED BY <3>less, <1>2, <2>read, <2>2, <2>5, <3>1, LessByToken
    <2> QED BY <2>1, <2>3, <2>4, <2>5
  <1>4. CASE ReadColon
    <2>1. PICK t :
            /\ Read(t)
            /\ (t = ":" /\ ReadChild) \/ AddErrorAndRecover
      BY <1>4 DEF ReadColon
    <2>read. Read(t)
      BY <2>1
    <2>2. Height = n + 2
      BY <1>2, <1>4, HeightAt DEF ReadColon
    <2>3. CASE t = ":" /\ ReadChild
      <3>1. Height' = n + 3
        BY <1>1, <1>2, <2>3, InsideHeights
      <3>less. Height' \in Nat /\ Height' <= Height + 2
        BY <1>2, <2>2, <2>3, <3>1
      <3> QED BY <3>less, <1>2, <2>read, <2>2, <2>3, <3>1, LessByToken
    <2>4. CASE AddErrorAndRecover
      <3>1. Height' = n + 1
        BY <1>1, <1>2, <2>4, InsideHeights
      <3>less. Height' \in Nat /\ Height' < Height
        BY <1>2, <2>2, <3>1
      <3> QED BY <3>less, <1>2, <2>read, <2>2, <3>1, LessByStage
    <2> QED BY <2>1, <2>3, <2>4
  <1>5. CASE ReadComma
    <2>1. PICK t :
            /\ Read(t)
            /\ \/ ContainerReturns(TRUE)
               \/ t = "," /\ Stay("name")
               \/ t = "comment" /\ Stay("afterComment")
               \/ AddErrorAndRecover
      BY <1>5 DEF ReadComma
    <2>read. Read(t)
      BY <2>1
    <2>2. Height = n + 2
      BY <1>2, <1>5, HeightAt DEF ReadComma
    <2>3. CASE ContainerReturns(TRUE) \/ AddErrorAndRecover
      <3>1. Height' \in {n, n + 1}
        BY <1>1, <1>2, <2>3, InsideHeights
      <3>less. Height' \in Nat /\ Height' < Height
        BY <1>2, <2>2, <3>1
      <3> QED BY <3>less, <1>2, <2>read, <2>2, <3>1, LessByStage
    <2>4. CASE (t = "," /\ Stay("name")) \/ (t = "comment" /\ Stay("afterComment"))
      <3>1. t # "end" /\ Height' \in {n + 3, n + 4}
        BY <1>1, <1>2, <2>4, InsideHeights, Ranks
      <3>less. Height' \in Nat /\ Height' <= Height + 2
        BY <1>2, <2>2, <3>1
      <3> QED BY <3>less, <1>2, <2>read, <2>2, <3>1, LessByToken
    <2> QED BY <2>1, <2>3, <2>4
  <1>6. CASE ReadAfterComment
    <2>1. PICK t :
            /\ Read(t)
            /\ \/ ContainerReturns(TRUE)
               \/ t = "comment" /\ Stay("afterComment")
               \/ Stay("name")
      BY <1>6 DEF ReadAfterComment
    <2>read. Read(t)
      BY <2>1
    <2>2. Height = n + 4
      BY <1>2, <1>6, HeightAt DEF ReadAfterComment
    <2>3. CASE ContainerReturns(TRUE) \/ Stay("name")
      <3>1. Height' \in {n, n + 1, n + 3}
        BY <1>1, <1>2, <2>3, InsideHeights, Ranks
      <3>less. Height' \in Nat /\ Height' < Height
        BY <1>2, <2>2, <3>1
      <3> QED BY <3>less, <1>2, <2>read, <2>2, <3>1, LessByStage
    <2>4. CASE t = "comment" /\ Stay("afterComment")
      <3>1. Height' = n + 4
        BY <1>1, <1>2, <2>4, InsideHeights, Ranks
      <3>less. Height' \in Nat /\ Height' <= Height + 2
        BY <1>2, <2>2, <2>4, <3>1
      <3> QED BY <3>less, <1>2, <2>read, <2>2, <2>4, <3>1, LessByToken
    <2> QED BY <2>1, <2>3, <2>4
  <1>7. CASE ReadFirst
    <2>1. PICK t :
            \/ Read(t) /\ ContainerReturns(TRUE)
            \/ Leave(t) /\ ReadChild
      BY <1>7 DEF ReadFirst
    <2>read. Read(t) \/ Leave(t)
      BY <2>1
    <2>2. Height = n + 4
      BY <1>2, <1>7, HeightAt DEF ReadFirst
    <2>3. Height' \in {n, n + 1, n + 3}
      BY <1>1, <1>2, <2>1, InsideHeights
    <2>less. Height' \in Nat /\ Height' < Height
      BY <1>2, <2>2, <2>3
    <2> QED BY <2>less, <1>2, <2>read, <2>2, <2>3, LessByStage
  <1>8. CASE ReadNext
    <2>1. PICK t :
            /\ Read(t)
            /\ \/ t = "comment" /\ Stay("next")
               \/ t = "," /\ ReadChild
               \/ ContainerReturns(TRUE)
               \/ AddErrorAndRecover
      BY <1>8 DEF ReadNext
    <2>read. Read(t)
      BY <2>1
    <2>2. Height = n + 2
      BY <1>2, <1>8, HeightAt DEF ReadNext
    <2>3. CASE ContainerReturns(TRUE) \/ AddErrorAndRecover
      <3>1. Height' \in {n, n + 1}
        BY <1>1, <1>2, <2>3, InsideHeights
      <3>less. Height' \in Nat /\ Height' < Height
        BY <1>2, <2>2, <3>1
      <3> QED BY <3>less, <1>2, <2>read, <2>2, <3>1, LessByStage
    <2>4. CASE (t = "," /\ ReadChild) \/ (t = "comment" /\ Stay("next"))
      <3>1. t # "end" /\ Height' \in {n + 2, n + 3}
        BY <1>1, <1>2, <2>4, InsideHeights, Ranks
      <3>less. Height' \in Nat /\ Height' <= Height + 2
        BY <1>2, <2>2, <3>1
      <3> QED BY <3>less, <1>2, <2>read, <2>2, <3>1, LessByToken
    <2> QED BY <2>1, <2>3, <2>4
  <1> QED BY <1>3, <1>4, <1>5, <1>6, <1>7, <1>8

LEMMA LessAtTheEnd ==
  ASSUME IInv, Input, StackLimitExceeded \/ Recover \/ Finish
  PROVE  Less
  <1> DEFINE n == Len(frames)
  <1>2. n \in Nat /\ Len(frames) = n
    BY Calling
  <1> HIDE DEF n
  <1>3. CASE StackLimitExceeded
    <2>1. Height = n + 3
      BY <1>2, <1>3, HeightAt DEF StackLimitExceeded
    <2>2. Len(frames') = 0 /\ stage' = "ready"
      BY <1>3, EmptySeq DEF StackLimitExceeded, Throw
    <2>3. Height' = 0
      BY <2>2, HeightAfter
    <2>4. Unread' = Unread
      BY <1>3 DEF StackLimitExceeded, inputVars, Unread
    <2>5. Unread \in Nat
      BY WorkTypes
    <2> QED BY <1>2, <2>1, <2>3, <2>4, <2>5 DEF Less, Work
  <1>4. CASE Recover
    <2>1. PICK t :
            /\ Skip(t)
            /\ \/ t \in Stops /\ ContainerReturns(FALSE)
               \/ t \notin Stops /\ Stay("recover")
      BY <1>4 DEF Recover
    <2>2. Height = n + 1 /\ stage \in Inside
      BY <1>2, <1>4, HeightAt DEF Recover, Inside
    <2>3. CASE ContainerReturns(FALSE)
      <3>1. Height' = n
        BY <1>2, <2>2, <2>3, InsideHeights
      <3>less. Height' \in Nat /\ Height' < Height
        BY <1>2, <2>1, <2>2, <3>1
      <3> QED BY <3>less, <1>2, <2>1, <2>2, <3>1, LessByStage
    <2>4. CASE t \notin Stops /\ Stay("recover")
      <3>1. Height' = n + 1 /\ t # "end"
        BY <1>2, <2>2, <2>4, InsideHeights, Ranks DEF Stops
      <3>less. Height' \in Nat /\ Height' <= Height + 2
        BY <1>2, <2>1, <2>2, <3>1
      <3> QED BY <3>less, <1>2, <2>1, <2>2, <3>1, LessByToken
    <2> QED BY <2>1, <2>3, <2>4
  <1>5. CASE Finish
    <2>1. PICK t :
             /\ Skip(t)
             /\ IF t = "comment" /\ "allowComments" \in features
                THEN UNCHANGED <<stage, errors, result>>
                ELSE /\ stage' = "ready"
                     /\ errors' = IF StrictError THEN errors + 1 ELSE errors
                     /\ result' = IF StrictError THEN "failed" ELSE result
      BY <1>5 DEF Finish
    <2>2. Height = n + 1 /\ frames' = frames /\ stage = "rest"
      BY <1>2, <1>5, HeightAt DEF Finish
    <2>3. CASE t = "comment" /\ "allowComments" \in features
      <3>1. stage' = "rest" /\ t # "end"
        BY <2>1, <2>2, <2>3
      <3>2. Height' = n + 1
        BY <1>2, <2>2, <3>1, HeightAfter
      <3>less. Height' \in Nat /\ Height' <= Height + 2
        BY <1>2, <2>1, <2>2, <3>1, <3>2
      <3> QED BY <3>less, <1>2, <2>1, <2>2, <3>1, <3>2, LessByToken
    <2>4. CASE ~(t = "comment" /\ "allowComments" \in features)
      <3>1. stage' = "ready"
        BY <2>1, <2>4, Zenon
      <3>2. Height' = n
        BY <1>2, <2>2, <3>1, HeightAfter
      <3>less. Height' \in Nat /\ Height' < Height
        BY <1>2, <2>1, <2>2, <3>2
      <3> QED BY <3>less, <1>2, <2>1, <2>2, <3>2, LessByStage
    <2> QED BY <2>3, <2>4
  <1> QED BY <1>3, <1>4, <1>5

\* A parse comes to its end: it has work for at most three steps for each token
\* of the document and three more, and every step of it leaves less to do.
THEOREM EveryParseEnds ==
    Spec => [][/\ Parse => Work' = 3 * MaxTokens + 3
               /\ Reading => Work' \in Nat /\ Work' < Work]_vars
  <1> DEFINE Ends == /\ Parse => Work' = 3 * MaxTokens + 3
                     /\ Reading => Work' \in Nat /\ Work' < Work
  <1>1. IInv /\ Input /\ [Next]_vars /\ IInv' /\ Input' => [Ends]_vars
    <2> SUFFICES ASSUME IInv, Input, Next, IInv', Input' PROVE Ends
      OBVIOUS
    <2>1. ASSUME Parse PROVE Work' = 3 * MaxTokens + 3
      <3>1. /\ frames' = <<>> /\ stage' = "value" /\ ahead' = None /\ count' = 0
        BY <2>1 DEF Parse, IInv, Depth
      <3>2. Height' = 3
        BY <3>1, EmptySeq, HeightAfter
      <3>3. MaxTokens \in Nat /\ None \notin Tokens
        BY JsonReaderAssumption
      <3>4. Unread' = MaxTokens
        BY <3>1, <3>3 DEF Unread
      <3> QED BY <3>2, <3>3, <3>4 DEF Work
    <2>2. Work' \in Nat
      <3>1. (IInv /\ Input => Work \in Nat)'
        BY WorkTypes, PTL
      <3> QED BY <3>1
    <2>3. ASSUME Reading PROVE Work' < Work
      <3>1. Less
        BY <2>3, LessValue, LessInside, LessAtTheEnd DEF Reading
      <3> QED BY <3>1 DEF Less
    <2> QED BY <2>1, <2>2, <2>3
  <1> HIDE DEF Ends
  <1>2. Spec => [][Ends]_vars
    BY <1>1, Initially, IInvNext, InputNext, PTL DEF Spec
  <1> QED BY <1>2 DEF Ends
=============================================================================
