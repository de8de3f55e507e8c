----------------------------- MODULE JsonReader -----------------------------
(***************************************************************************)
(* Json::Reader of jsoncpp: readValue, readObject and readArray as a stack *)
(* machine over tokens, the recovery after an error, and the stack nodes_  *)
(* that outlives an exception.                                             *)
(*                                                                         *)
(* The document is chosen token by token as it is read and may end         *)
(* anywhere.  A token stands for every text readToken turns into it; a     *)
(* string or a number whose decoding fails is a token of its own.  Nothing *)
(* of the values built is kept but whether the root is a container.        *)
(* Collecting comments, offsets and messages changes no step.              *)
(*                                                                         *)
(* parse is that of a pair of pointers or of a stream, and the document    *)
(* has no NUL, which readToken takes for the end.  The overload for a      *)
(* std::string copies capacity() bytes: the string's NUL and whatever lies *)
(* behind it are read as well, which the model leaves out.                 *)
(***************************************************************************)
EXTENDS Naturals, Sequences, SequencesExt

CONSTANTS FeatureSets,  \* the Features a Reader may be made with
          StackLimit,   \* stackLimit_g
          None,         \* no token looked ahead at
          MaxTokens,    \* bound: tokens of a document
          MaxParses     \* bound: calls of parse on one Reader

Flags == {"allowComments", "strictRoot", "allowDroppedNullPlaceholders",
          "allowNumericKeys"}

Scalars == {"string", "emptyString", "number", "literal"}
Undecodable == {"badString", "badNumber"}
Tokens == Scalars \cup Undecodable \cup
          {"{", "}", "[", "]", ",", ":", "comment", "error"}

ASSUME JsonReaderAssumption ==
    /\ \A f \in FeatureSets : f \subseteq Flags
    /\ StackLimit \in Nat
    /\ None \notin Tokens \cup {"end"}
    /\ MaxTokens \in Nat
    /\ MaxParses \in Nat

\* A call of readObject or readArray under way; name is that of readObject.
Frame == [kind: {"object", "array"}, name: {"empty", "some"}]

VARIABLES
    features,           \* features_: the flags that are set
    stage,              \* what is read next
    frames,             \* calls of readObject and readArray, outermost first
    nodes,              \* nodes_.size()
    errors,             \* errors_.size()
    container,          \* the caller's root is an array or an object
    result,             \* of the value read, then of parse
    count,              \* tokens of the document so far
    ended,              \* the end of the document has been reached
    ahead,              \* the token looked at and left for the next read
    read,               \* history: tokens read up to the first error
    parses              \* calls of parse so far

inputVars == <<count, ended, ahead, read>>
vars == <<features, stage, frames, nodes, errors, container, result,
          inputVars, parses>>

Stages == {"ready", "value", "name", "colon", "comma", "afterComment",
           "first", "next", "recover", "rest"}
Results == {"none", "ok", "failed", "thrown"}

Init ==
    /\ features \in FeatureSets
    /\ stage = "ready"
    /\ frames = <<>>
    /\ nodes = 0
    /\ errors = 0
    /\ container = FALSE
    /\ result = "none"
    /\ count = 0
    /\ ended = FALSE
    /\ ahead = None
    /\ read = <<>>
    /\ parses = 0

-----------------------------------------------------------------------------
(***************************************************************************)
(* readToken: past the end it answers tokenEndOfStream for ever.           *)
(***************************************************************************)
NextTokens ==
    IF ahead # None THEN {ahead}
    ELSE {"end"} \cup IF ended \/ count = MaxTokens THEN {} ELSE Tokens

Fetch(t) ==
    /\ t \in NextTokens
    /\ count' = IF ahead = None /\ t # "end" THEN count + 1 ELSE count
    /\ ended' = (t = "end")

Read(t) ==
    /\ Fetch(t)
    /\ ahead' = None
    /\ read' = Append(read, t)

\* Recovery reads tokens nobody looks at.
Skip(t) ==
    /\ Fetch(t)
    /\ ahead' = None
    /\ UNCHANGED read

\* A look at the next character, or current_--.
Leave(t) ==
    /\ Fetch(t)
    /\ ahead' = t
    /\ UNCHANGED read

-----------------------------------------------------------------------------
(***************************************************************************)
(* Ways out of the functions.                                              *)
(***************************************************************************)
AfterChild(kind) == IF kind = "object" THEN "comma" ELSE "next"

\* readValue is over: nodes_.pop() in the calling readObject or readArray,
\* which goes on or recovers; the outermost readValue returns to parse.
ValueReturns(calling, ok) ==
    /\ frames' = calling
    /\ IF calling = <<>>
       THEN /\ stage' = "rest"
            /\ result' = IF ok THEN "ok" ELSE "failed"
            /\ UNCHANGED nodes
       ELSE /\ stage' = IF ~ok THEN "recover" ELSE AfterChild(Last(calling).kind)
            /\ UNCHANGED result
            /\ nodes' = nodes - 1

\* readObject or readArray is over, and with it the readValue that called it.
ContainerReturns(ok) == ValueReturns(Front(frames), ok)

\* addError, then recoverFromError, in a readObject or readArray.
AddErrorAndRecover ==
    /\ errors' = errors + 1
    /\ stage' = "recover"
    /\ UNCHANGED <<frames, nodes, result>>

\* An exception leaves parse: the calls are gone, nodes_ is not popped.
Throw ==
    /\ result' = "thrown"
    /\ stage' = "ready"
    /\ frames' = <<>>
    /\ UNCHANGED <<nodes, errors>>

\* nodes_.push(&value) before the readValue of a member or an element.
ReadChild ==
    /\ nodes' = nodes + 1
    /\ stage' = "value"
    /\ UNCHANGED <<frames, result>>

Stay(s) == stage' = s /\ UNCHANGED <<frames, nodes, result>>

-----------------------------------------------------------------------------
(***************************************************************************)
(* parse and readValue.                                                    *)
(***************************************************************************)
KeepsNodes == nodes + 1
OnlyRoot == 1

KeepsErrors == errors
NoErrors == 0

\* The Reader's state from before, an exception's leftovers too, is dropped.
Parse ==
    /\ stage = "ready"
    /\ parses < MaxParses
    /\ parses' = parses + 1
    /\ stage' = "value"
    /\ nodes' = OnlyRoot
    /\ errors' = NoErrors
    /\ container' \in BOOLEAN
    /\ result' = "none"
    /\ count' = 0 /\ ended' = FALSE /\ ahead' = None /\ read' = <<>>
    /\ UNCHANGED <<features, frames>>

\* The first value read goes into the caller's root.
SetsRoot(isContainer) ==
    container' = IF frames = <<>> THEN isContainer ELSE container

TooDeep == nodes > StackLimit

StackLimitExceeded ==
    /\ stage = "value"
    /\ TooDeep
    /\ Throw
    /\ UNCHANGED <<features, container, inputVars, parses>>

BeginContainer(t) ==
    /\ t \in {"{", "["}
    /\ Read(t)
    /\ frames' = Append(frames, [kind |-> IF t = "{" THEN "object" ELSE "array",
                                 name |-> "empty"])
    /\ stage' = IF t = "{" THEN "name" ELSE "first"
    /\ SetsRoot(TRUE)
    /\ UNCHANGED <<nodes, errors, result>>

ReadScalar(t) ==
    /\ t \in Scalars
    /\ Read(t)
    /\ ValueReturns(frames, TRUE)
    /\ SetsRoot(FALSE)
    /\ UNCHANGED errors

SkipComment(t) ==
    /\ t = "comment"
    /\ "allowComments" \in features
    /\ Read(t)
    /\ Stay("value")
    /\ UNCHANGED <<errors, container>>

\* The placeholder of a dropped null: the token is left to the caller.
Dropped(t) ==
    /\ t \in {",", "}", "]"}
    /\ "allowDroppedNullPlaceholders" \in features
    /\ Leave(t)
    /\ ValueReturns(frames, TRUE)
    /\ SetsRoot(FALSE)
    /\ UNCHANGED errors

NotAValue(t) ==
    \/ t \in Undecodable \cup {":", "error", "end"}
    \/ t = "comment" /\ "allowComments" \notin features
    \/ t \in {",", "}", "]"} /\ "allowDroppedNullPlaceholders" \notin features

ValueFails(t) ==
    /\ NotAValue(t)
    /\ Read(t)
    /\ errors' = errors + 1
    /\ ValueReturns(frames, FALSE)
    /\ UNCHANGED container

ReadValue ==
    /\ stage = "value"
    /\ ~TooDeep
    /\ \E t \in NextTokens :
          \/ BeginContainer(t) \/ ReadScalar(t) \/ SkipComment(t)
          \/ Dropped(t) \/ ValueFails(t)
    /\ UNCHANGED <<features, parses>>

-----------------------------------------------------------------------------
(***************************************************************************)
(* readObject.                                                             *)
(***************************************************************************)
Object == Last(frames)

DecodedName(t) == IF t = "emptyString" THEN "empty" ELSE "some"

Name(t) ==
    /\ t \in {"string", "emptyString"}
    /\ frames' = [frames EXCEPT ![Len(frames)].name = DecodedName(t)]
    /\ stage' = "colon"
    /\ UNCHANGED <<nodes, errors, result>>

ExpectsAName == FALSE
AlwaysCloses == TRUE
ClosesEmpty == Object.name = "empty"

\* asCString on a number: allowNumericKeys_ ends in an exception.
NumericName(t) == t = "number" /\ "allowNumericKeys" \in features /\ Throw

NotAName(t) ==
    /\ t \notin {"string", "emptyString", "comment"}
    /\ ~(t = "}" /\ ClosesEmpty)
    /\ ~(t = "number" /\ "allowNumericKeys" \in features)
    /\ AddErrorAndRecover

ReadName ==
    /\ stage = "name"
    /\ \E t \in NextTokens :
          /\ Read(t)
          /\ \/ Name(t) \/ NumericName(t) \/ NotAName(t)
             \/ t = "comment" /\ Stay("name") /\ UNCHANGED errors
             \/ t = "}" /\ ClosesEmpty /\ ContainerReturns(TRUE) /\ UNCHANGED errors
    /\ UNCHANGED <<features, container, parses>>

ReadColon ==
    /\ stage = "colon"
    /\ \E t \in NextTokens :
          /\ Read(t)
          /\ \/ t = ":" /\ ReadChild /\ UNCHANGED errors
             \/ t # ":" /\ AddErrorAndRecover
    /\ UNCHANGED <<features, container, parses>>

ReadComma ==
    /\ stage = "comma"
    /\ \E t \in NextTokens :
          /\ Read(t)
          /\ \/ t = "}" /\ ContainerReturns(TRUE) /\ UNCHANGED errors
             \/ t = "," /\ Stay("name") /\ UNCHANGED errors
             \/ t = "comment" /\ Stay("afterComment") /\ UNCHANGED errors
             \/ t \notin {"}", ",", "comment"} /\ AddErrorAndRecover
    /\ UNCHANGED <<features, container, parses>>

\* After a comment the token is not looked at again unless it is "}".
ReadAfterComment ==
    /\ stage = "afterComment"
    /\ \E t \in NextTokens :
          /\ Read(t)
          /\ \/ t = "}" /\ ContainerReturns(TRUE)
             \/ t = "comment" /\ Stay("afterComment")
             \/ t \notin {"}", "comment"} /\ Stay("name")
    /\ UNCHANGED <<features, errors, container, parses>>

-----------------------------------------------------------------------------
(***************************************************************************)
(* readArray.                                                              *)
(***************************************************************************)
ReadFirst ==
    /\ stage = "first"
    /\ \E t \in NextTokens :
          \/ t = "]" /\ Read(t) /\ ContainerReturns(TRUE)
          \/ t # "]" /\ Leave(t) /\ ReadChild
    /\ UNCHANGED <<features, errors, container, parses>>

ReadNext ==
    /\ stage = "next"
    /\ \E t \in NextTokens :
          /\ Read(t)
          /\ \/ t = "comment" /\ Stay("next") /\ UNCHANGED errors
             \/ t = "," /\ ReadChild /\ UNCHANGED errors
             \/ t = "]" /\ ContainerReturns(TRUE) /\ UNCHANGED errors
             \/ t \notin {"comment", ",", "]"} /\ AddErrorAndRecover
    /\ UNCHANGED <<features, container, parses>>

-----------------------------------------------------------------------------
(***************************************************************************)
(* recoverFromError, and what parse does when the value is read.           *)
(***************************************************************************)
Closing == IF Last(frames).kind = "object" THEN "}" ELSE "]"

OnlyAtClosing == {Closing}
Stops == {Closing, "end"}

Recover ==
    /\ stage = "recover"
    /\ \E t \in NextTokens :
          /\ Skip(t)
          /\ \/ t \in Stops /\ ContainerReturns(FALSE)
             \/ t \notin Stops /\ Stay("recover")
    /\ UNCHANGED <<features, errors, container, parses>>

StrictError == "strictRoot" \in features /\ ~container

\* skipCommentTokens, the check of strictRoot_ and parse's return.
Finish ==
    /\ stage = "rest"
    /\ \E t \in NextTokens :
          /\ Skip(t)
          /\ IF t = "comment" /\ "allowComments" \in features
             THEN UNCHANGED <<stage, errors, result>>
             ELSE /\ stage' = "ready"
                  /\ errors' = IF StrictError THEN errors + 1 ELSE errors
                  /\ result' = IF StrictError THEN "failed" ELSE result
    /\ UNCHANGED <<features, frames, nodes, container, parses>>

-----------------------------------------------------------------------------
Reading ==
    \/ StackLimitExceeded \/ ReadValue
    \/ ReadName \/ ReadColon \/ ReadComma \/ ReadAfterComment
    \/ ReadFirst \/ ReadNext
    \/ Recover \/ Finish

Next == Parse \/ Reading

Spec == Init /\ [][Next]_vars

\* parse runs to its end once it is called; nobody has to call it.
FairSpec == Spec /\ WF_vars(Reading)

-----------------------------------------------------------------------------
(***************************************************************************)
(* The reference: the documents of a length, as token sequences.  Grammar  *)
(* is JSON's, with the one liberty the Reader takes without comments or    *)
(* flags: a comma may follow the last member if its name is empty.         *)
(***************************************************************************)
Names == {"string", "emptyString"}

Comma(a, b) == a \o <<",">> \o b
Listed(A, B) == UNION {{Comma(a, b) : b \in B} : a \in A}

\* Of n tokens, given the table g of the lengths below n.
Member(g, x, n) == IF n < 3 THEN {} ELSE {<<x, ":">> \o v : v \in g[n - 2].value}

Members(g, x, n) ==
    Member(g, x, n) \cup
    UNION {Listed(UNION {g[k].members[y] : y \in Names}, Member(g, x, n - 1 - k)) :
              k \in 0 .. n - 1}

InObject(g, n) ==
    (UNION {g[n - 2].members[y] : y \in Names}) \cup
    {m \o <<",">> : m \in g[n - 3].members["emptyString"]}

Value(g, n) ==
    CASE n = 0 -> {}
      [] n = 1 -> {<<s>> : s \in Scalars}
      [] n = 2 -> {<<"{", "}">>, <<"[", "]">>}
      [] OTHER -> {<<"{">> \o m \o <<"}">> : m \in InObject(g, n)} \cup
                  {<<"[">> \o e \o <<"]">> : e \in g[n - 2].elements}

Elements(g, n) ==
    Value(g, n) \cup
    UNION {Listed(g[k].elements, g[n - 1 - k].value) : k \in 0 .. n - 1}

Grammar[n \in 0 .. MaxTokens] ==
    LET g == [k \in 0 .. n - 1 |-> Grammar[k]]
    IN [value |-> Value(g, n), elements |-> Elements(g, n),
        members |-> [x \in Names |-> Members(g, x, n)]]

Documents == UNION {Grammar[n].value : n \in 0 .. MaxTokens}

BegunDocuments == UNION {Prefixes(d) : d \in Documents}

Plain ==
    /\ features \cap {"allowDroppedNullPlaceholders", "allowNumericKeys"} = {}
    /\ "comment" \notin ToSet(read)

-----------------------------------------------------------------------------
(***************************************************************************)
(* Properties.                                                             *)
(***************************************************************************)
\* Types of the variables.
TypeOK ==
    /\ features \in FeatureSets
    /\ stage \in Stages
    /\ frames \in Seq(Frame)
    /\ {nodes, errors} \subseteq Nat
    /\ container \in BOOLEAN
    /\ result \in Results
    /\ count \in 0 .. MaxTokens
    /\ ended \in BOOLEAN
    /\ ahead \in Tokens \cup {"end", None}
    /\ read \in Seq(Tokens \cup {"end"})
    /\ parses \in 0 .. MaxParses

\* What a parse without comments accepts is a document (and what follows it).
AcceptsDocuments == Plain /\ stage = "rest" /\ result = "ok" => read \in Documents

\* An error is found at a token that no document continues with: nothing that
\* could become a document is refused.
RefusesNoDocument ==
    Plain /\ errors > 0 /\ stage \in {"recover", "rest"} => read \notin BegunDocuments

\* parse answers false exactly when it recorded an error, and recovery at each
\* level on the way out adds none: one error, and one more for a strict root.
FailsWithItsError ==
    /\ stage = "ready" /\ result \in {"ok", "failed"} =>
          (result = "failed" <=> errors > 0)
    /\ errors <= IF "strictRoot" \in features THEN 2 ELSE 1

\* nodes_ has the root and one node for each readObject or readArray that waits
\* for a child, also on the Reader's next document after an exception, and so
\* stackLimit_g bounds the depth of the recursion.
NodesFollowCalls ==
    /\ stage = "value" => nodes = Len(frames) + 1
    /\ stage = "rest" => nodes = 1
    /\ stage \notin {"ready", "value", "rest"} => nodes = Len(frames)
    /\ Len(frames) <= StackLimit

\* A parse returns, by its end or by an exception, however the document ends.
ParseReturns == stage # "ready" ~> stage = "ready"
=============================================================================
