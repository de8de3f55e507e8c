-------------------------- MODULE EasyHandleProofs --------------------------
(***************************************************************************)
(* Theorems about EasyHandle, for any number of threads and calls and      *)
(* whatever they overlap.  The argument is one fact about the history met: *)
(* of two calls that are on the handle each is in the other's met          *)
(* (Acquainted).  What a call writes is then in the met of all that can    *)
(* read it, and all else a call reads it has written over itself.          *)
(***************************************************************************)
EXTENDS EasyHandle, TLAPS

-----------------------------------------------------------------------------
(***************************************************************************)
(* The inductive invariant.                                                *)
(***************************************************************************)
WellStaged == \A u \in Users :
    /\ stage[u] = "idle" <=> current[u] = None
    /\ stage[u] # "idle" =>
          /\ current[u] \in Call
          /\ current[u].by = u
          /\ current[u].op = "CERT" <=> u \in Setters
    /\ IF stage[u] = "setting" THEN at[u] <= Len(Path(current[u].op)) ELSE at[u] = 1
    /\ stage[u] = "waiting" => u \in Pollers
    /\ stage[u] \in {"perform", "transfer", "free"} => u \notin Setters

Typed == TypeOK /\ WellStaged

HeldByActive == \A u \in Pollers : Active(u) <=> mPollingMutex = u

Acquainted == \A u, v \in Users : Active(u) /\ Active(v) => current[v] \in met[u]

\* A polling call meets no other.
OnePolling == \A u \in Pollers : Active(u) =>
    \A c \in met[u] : c.by \in Pollers => c = current[u]

\* What a request has set so far is its own or set anew by a call it met.
SetSoFar == \A u \in Users \ Setters :
    /\ stage[u] = "setting" =>
          \A k \in 1 .. at[u] - 1 : handle[RequestOptions[k]] \in met[u]
    /\ stage[u] \in {"perform", "transfer"} => \A o \in OfRequest : handle[o] \in met[u]
    /\ stage[u] = "transfer" => \A o \in OfRequest : sent[u][o] \in met[u]

\* The update of u met no other.
Sole(u) == \A c \in met[u] : c.op = "CERT" => c = current[u]

\* An update that met no other has set what it has set so far ...
UpdatedSoFar == \A u \in Setters : stage[u] = "setting" /\ Sole(u) =>
    /\ cert = current[u]
    /\ \A k \in 2 .. at[u] - 1 : handle[TLSOptions[k]] = current[u]

\* ... and one that is in force has reached every TLS option.
InForce == settled # None =>
    /\ cert = settled
    /\ \A o \in OfCertificate : handle[o] = settled
    /\ \A u \in Setters : stage[u] # "setting"

\* The certificates that u may find on the handle.
Certificates(u) == {before[u]} \cup {c \in met[u] : c.op = "CERT"}

OldOrMet == \A u \in Users : Active(u) /\ before[u] # None =>
    /\ cert \in Certificates(u)
    /\ \A o \in OfCertificate : handle[o] \in Certificates(u)
    /\ stage[u] = "transfer" => \A o \in OfCertificate : sent[u][o] \in Certificates(u)

-----------------------------------------------------------------------------
\* The two paths set each of their options once.
LEMMA RequestPath ==
  /\ Len(RequestOptions) = 6
  /\ \A k \in 1 .. 6 : RequestOptions[k] \in OfRequest
  /\ \A o \in OfRequest : \E k \in 1 .. 6 : RequestOptions[k] = o
  /\ \A i, j \in 1 .. 6 : RequestOptions[i] = RequestOptions[j] => i = j
  BY DEF RequestOptions, OfRequest

LEMMA TLSPath ==
  /\ Len(TLSOptions) = 8
  /\ TLSOptions[1] = "errbuf"
  /\ \A k \in 2 .. 8 : TLSOptions[k] \in OfCertificate
  /\ \A o \in OfCertificate : \E k \in 2 .. 8 : TLSOptions[k] = o
  /\ \A i, j \in 1 .. 8 : TLSOptions[i] = TLSOptions[j] => i = j
  BY DEF TLSOptions, OfCertificate

LEMMA PathLength == \A op : Len(Path(op)) = 6 \/ Len(Path(op)) = 8
  <1> SUFFICES ASSUME NEW op PROVE Len(Path(op)) = 6 \/ Len(Path(op)) = 8
    OBVIOUS
  <1>1. CASE op = "CERT"
    BY <1>1, TLSPath DEF Path
  <1>2. CASE op # "CERT"
    BY <1>2, RequestPath DEF Path
  <1>3. QED
    BY <1>1, <1>2

LEMMA PathNotEmpty == \A op : 1 <= Len(Path(op))
  <1> SUFFICES ASSUME NEW op PROVE 1 <= Len(Path(op))
    OBVIOUS
  <1>1. Len(Path(op)) = 6 \/ Len(Path(op)) = 8
    BY PathLength
  <1>2. QED
    BY <1>1

LEMMA OptionSets ==
  /\ OfRequest \cap OfCertificate = {}
  /\ OfRequest \subseteq Options
  /\ OfCertificate \subseteq Options
  /\ "errbuf" \in OfRequest
  BY DEF OfRequest, OfCertificate, Options

\* A thread that sets options sets one of the handle.
LEMMA OptionType ==
  ASSUME Typed, NEW u \in Users, stage[u] = "setting"
  PROVE  /\ current[u] \in Call
         /\ at[u] \in 1 .. Len(Path(current[u].op))
         /\ Option(u) \in Options
         /\ u \in Setters => Option(u) \in OfCertificate \cup {"errbuf"}
         /\ u \notin Setters => Option(u) \in OfRequest
  <1>1. /\ current[u] \in Call
        /\ current[u].op = "CERT" <=> u \in Setters
        /\ at[u] \in 1 .. 8
        /\ at[u] <= Len(Path(current[u].op))
    BY DEF Typed, TypeOK, WellStaged
  <1>2. CASE u \in Setters
    <2>1. Path(current[u].op) = TLSOptions
      BY <1>1, <1>2 DEF Path
    <2>2. Option(u) \in OfCertificate \cup {"errbuf"}
      <3>1. at[u] = 1 \/ at[u] \in 2 .. 8
        BY <1>1
      <3>2. QED
        BY <2>1, <3>1, TLSPath DEF Option
    <2>3. QED
      BY <1>1, <1>2, <2>1, <2>2, OptionSets
  <1>3. CASE u \notin Setters
    <2>1. Path(current[u].op) = RequestOptions
      BY <1>1, <1>3 DEF Path
    <2>2. at[u] \in 1 .. 6
      BY <1>1, <2>1, RequestPath
    <2>3. Option(u) \in OfRequest
      BY <2>1, <2>2, RequestPath DEF Option
    <2>4. QED
      BY <1>1, <1>3, <2>1, <2>2, <2>3, OptionSets, RequestPath
  <1>4. QED
    BY <1>2, <1>3

-----------------------------------------------------------------------------
(***************************************************************************)
(* The kinds of step.  A thread comes to the handle, at the start of its   *)
(* call or with the mutex; goes on there; leaves it; or begins to wait.    *)
(***************************************************************************)
Comes(u, c, x) ==
    /\ stage[u] \in {"idle", "waiting"}
    /\ stage' = [stage EXCEPT ![u] = x]
    /\ current' = [current EXCEPT ![u] = c]
    /\ c.by = u
    /\ c.op = "CERT" <=> u \in Setters
    /\ Enter(u, c)
    /\ mPollingMutex' = IF u \in Pollers THEN u ELSE mPollingMutex
    /\ u \in Pollers => mPollingMutex = None
    /\ IF u \in Setters
       THEN cert' = c /\ settled' = None /\ UNCHANGED strHttpStatus
       ELSE /\ UNCHANGED <<cert, settled>>
            /\ strHttpStatus' = {} \/ (x = "throw" /\ UNCHANGED strHttpStatus)
    /\ UNCHANGED <<handle, at, sent>>
    /\ calls' \in 0 .. MaxCalls

Waits(u, c) ==
    /\ stage[u] = "idle"
    /\ stage' = [stage EXCEPT ![u] = "waiting"]
    /\ current' = [current EXCEPT ![u] = c]
    /\ c.by = u /\ c.op = "POST"
    /\ calls' \in 0 .. MaxCalls
    /\ UNCHANGED <<handle, at, sent, strHttpStatus, mPollingMutex, cert, met, before,
                   settled>>

\* Between coming and returning a call is on the handle.
Middle(u) ==
    \/ SetOption(u) \/ SetOptionFails(u)
    \/ Perform(u) \/ WriteCallback(u) \/ PerformReturns(u)
    \/ FreeHeader(u)

SomeComes == \E u \in Users, c \in Call, x \in {"setting", "throw"} : Comes(u, c, x)

SomeWaits == \E u \in Pollers, c \in Call : Waits(u, c)

LEMMA NewCallType ==
  ASSUME Typed, NEW u \in Users, NEW op \in {"POST", "PUT", "CERT"}, calls < MaxCalls
  PROVE  /\ [by |-> u, nth |-> calls + 1, op |-> op] \in Call
         /\ calls + 1 \in 0 .. MaxCalls
  <1>1. calls \in 0 .. MaxCalls /\ MaxCalls \in Nat
    BY EasyHandleAssumption DEF Typed, TypeOK
  <1>2. QED
    BY <1>1 DEF Call

\* What Begin does, read off once.
LEMMA BeginStep ==
  ASSUME Typed, NEW u \in Users, NEW op \in {"POST", "PUT", "CERT"}, NEW first,
         Begin(u, op, first)
  PROVE  \E c \in Call :
            /\ c.by = u /\ c.op = op
            /\ stage[u] = "idle"
            /\ stage' = [stage EXCEPT ![u] = first]
            /\ current' = [current EXCEPT ![u] = c]
            /\ current'[u] = c
            /\ calls' \in 0 .. MaxCalls
            /\ UNCHANGED <<handle, at, sent>>
  <1> DEFINE c == [by |-> u, nth |-> calls + 1, op |-> op]
  <1>1. c \in Call /\ calls + 1 \in 0 .. MaxCalls
    BY NewCallType DEF Begin
  <1>2. c.by = u /\ c.op = op
    OBVIOUS
  <1>3. current' = [current EXCEPT ![u] = c] /\ DOMAIN current = Users
    BY DEF Begin, Typed, TypeOK
  <1> HIDE DEF c
  <1>4. QED
    BY <1>1, <1>2, <1>3 DEF Begin

LEMMA StartsStep == Typed /\ Starts => SomeComes \/ SomeWaits
  <1> SUFFICES ASSUME Typed, Starts PROVE SomeComes \/ SomeWaits
    OBVIOUS
  <1>1. ASSUME NEW u \in Workers, NEW op \in {"POST", "PUT"}, Post(u, op)
        PROVE  SomeComes
    <2>1. u \in Users \ (Setters \cup Pollers)
      BY EasyHandleAssumption DEF Users
    <2>2. PICK c \in Call :
            /\ c.by = u /\ c.op = op
            /\ stage[u] = "idle"
            /\ stage' = [stage EXCEPT ![u] = "setting"]
            /\ current' = [current EXCEPT ![u] = c]
            /\ current'[u] = c
            /\ calls' \in 0 .. MaxCalls
            /\ UNCHANGED <<handle, at, sent>>
      BY <1>1, <2>1, BeginStep DEF Post
    <2>3. Comes(u, c, "setting")
      BY <1>1, <2>1, <2>2 DEF Post, ClearStatus, Comes
    <2>4. QED
      BY <2>1, <2>3 DEF SomeComes
  <1>2. ASSUME NEW u \in Pollers, PostPollingData(u) PROVE SomeWaits
    <2>1. PICK c \in Call :
            /\ c.by = u /\ c.op = "POST"
            /\ stage[u] = "idle"
            /\ stage' = [stage EXCEPT ![u] = "waiting"]
            /\ current' = [current EXCEPT ![u] = c]
            /\ calls' \in 0 .. MaxCalls
            /\ UNCHANGED <<handle, at, sent>>
      BY <1>2, BeginStep DEF PostPollingData, Users
    <2>2. Waits(u, c)
      BY <1>2, <2>1 DEF PostPollingData, Waits
    <2>3. QED
      BY <2>2 DEF SomeWaits
  <1>3. ASSUME NEW u \in Setters, SetCertificateAttributes(u) PROVE SomeComes
    <2>1. u \in Users \ (Workers \cup Pollers)
      BY EasyHandleAssumption DEF Users
    <2>2. PICK x \in {"setting", "throw"} : Begin(u, "CERT", x)
      BY <1>3 DEF SetCertificateAttributes
    <2>3. PICK c \in Call :
            /\ c.by = u /\ c.op = "CERT"
            /\ stage[u] = "idle"
            /\ stage' = [stage EXCEPT ![u] = x]
            /\ current' = [current EXCEPT ![u] = c]
            /\ current'[u] = c
            /\ calls' \in 0 .. MaxCalls
            /\ UNCHANGED <<handle, at, sent>>
      BY <2>1, <2>2, BeginStep
    <2>4. Comes(u, c, x)
      BY <1>3, <2>1, <2>3 DEF SetCertificateAttributes, Comes
    <2>5. QED
      BY <2>1, <2>4 DEF SomeComes
  <1>4. QED
    BY <1>1, <1>2, <1>3 DEF Starts

LEMMA LockPollingStep ==
  ASSUME Typed, NEW u \in Users, LockPolling(u)
  PROVE  SomeComes
  <1>1. /\ u \in Pollers /\ u \notin Setters
        /\ current[u] \in Call /\ current[u].by = u
        /\ current[u].op = "CERT" <=> u \in Setters
    BY EasyHandleAssumption DEF LockPolling, Typed, WellStaged
  <1>2. current' = [current EXCEPT ![u] = current[u]] /\ calls' \in 0 .. MaxCalls
    BY DEF LockPolling, Typed, TypeOK
  <1>3. PICK x \in {"setting", "throw"} :
            /\ stage' = [stage EXCEPT ![u] = x]
            /\ strHttpStatus' = {} \/ (x = "throw" /\ UNCHANGED strHttpStatus)
    BY DEF LockPolling, ClearStatus
  <1>4. Comes(u, current[u], x)
    BY <1>1, <1>2, <1>3 DEF LockPolling, Comes
  <1>5. QED
    BY <1>1, <1>4 DEF SomeComes

LEMMA NextStep ==
  ASSUME Typed, [Next]_vars
  PROVE  \/ SomeComes \/ SomeWaits
         \/ \E u \in Users : Middle(u) \/ Return(u)
         \/ UNCHANGED vars
  BY StartsStep, LockPollingStep DEF Next, Continues, Middle

-----------------------------------------------------------------------------
(***************************************************************************)
(* Types, and where a thread stands.                                       *)
(***************************************************************************)
LEMMA TypedInit == Init => Typed
  <1> SUFFICES ASSUME Init PROVE Typed
    OBVIOUS
  <1>1. Unset \in [Options -> Call \cup {None}]
    BY DEF Unset
  <1>2. TypeOK
    BY <1>1, EasyHandleAssumption DEF Init, TypeOK, Stages
  <1>3. WellStaged
    BY DEF Init, WellStaged
  <1>4. QED
    BY <1>2, <1>3 DEF Typed

LEMMA EnterType ==
  ASSUME Typed, NEW u \in Users, NEW c \in Call, Enter(u, c)
  PROVE  /\ met' \in [Users -> SUBSET Call]
         /\ before' \in [Users -> Call \cup {None}]
  <1>1. UnderWay \subseteq Call
    BY DEF UnderWay, Active, Typed, WellStaged
  <1>2. /\ met \in [Users -> SUBSET Call]
        /\ before \in [Users -> Call \cup {None}]
        /\ settled \in Call \cup {None}
    BY DEF Typed, TypeOK
  <1>3. QED
    BY <1>1, <1>2 DEF Enter

LEMMA TypedComes ==
  ASSUME Typed, NEW u \in Users, NEW c \in Call, NEW x \in {"setting", "throw"},
         Comes(u, c, x)
  PROVE  Typed'
  <1>1. TypeOK'
    <2>1. /\ met' \in [Users -> SUBSET Call]
          /\ before' \in [Users -> Call \cup {None}]
      BY EnterType DEF Comes
    <2>2. stage' \in [Users -> Stages] /\ current' \in [Users -> Call \cup {None}]
      BY DEF Comes, Typed, TypeOK, Stages
    <2>3. /\ strHttpStatus' \subseteq Call
          /\ cert' \in Call \cup {None} /\ settled' \in Call \cup {None}
          /\ mPollingMutex' \in Pollers \cup {None}
      BY DEF Comes, Typed, TypeOK
    <2>4. /\ handle' \in [Options -> Call \cup {None}]
          /\ at' \in [Users -> 1 .. 8]
          /\ sent' \in [Users -> [Options -> Call \cup {None}]]
          /\ calls' \in 0 .. MaxCalls
      BY DEF Comes, Typed, TypeOK
    <2>5. QED
      BY <2>1, <2>2, <2>3, <2>4 DEF TypeOK
  <1>2. WellStaged'
    <2> SUFFICES ASSUME NEW v \in Users
        PROVE /\ stage'[v] = "idle" <=> current'[v] = None
              /\ stage'[v] # "idle" =>
                    /\ current'[v] \in Call
                    /\ current'[v].by = v
                    /\ current'[v].op = "CERT" <=> v \in Setters
              /\ IF stage'[v] = "setting" THEN at'[v] <= Len(Path(current'[v].op))
                 ELSE at'[v] = 1
              /\ stage'[v] = "waiting" => v \in Pollers
              /\ stage'[v] \in {"perform", "transfer", "free"} => v \notin Setters
      BY DEF WellStaged
    <2>0. stage \in [Users -> Stages] /\ DOMAIN current = Users
      BY DEF Typed, TypeOK
    <2>1. CASE v = u
      <3>1. stage'[v] = x /\ current'[v] = c /\ at'[v] = 1
        BY <2>0, <2>1 DEF Comes, Typed, WellStaged
      <3>2. 1 <= Len(Path(c.op))
        BY PathNotEmpty
      <3>3. c # None /\ c.by = u /\ (c.op = "CERT" <=> u \in Setters)
        BY EasyHandleAssumption DEF Comes
      <3>4. QED
        BY <2>1, <3>1, <3>2, <3>3
    <2>2. CASE v # u
      <3>1. stage'[v] = stage[v] /\ current'[v] = current[v] /\ at'[v] = at[v]
        BY <2>0, <2>2 DEF Comes
      <3>2. QED
        BY <3>1 DEF Typed, WellStaged
    <2>3. QED
      BY <2>1, <2>2
  <1>3. QED
    BY <1>1, <1>2 DEF Typed

LEMMA TypedWaits ==
  ASSUME Typed, NEW u \in Pollers, NEW c \in Call, Waits(u, c)
  PROVE  Typed'
  <1>1. u \in Users /\ u \notin Setters /\ c # None
    BY EasyHandleAssumption DEF Users
  <1>2. TypeOK'
    BY <1>1 DEF Waits, Typed, TypeOK, Stages
  <1>3. WellStaged'
    BY <1>1 DEF Waits, Typed, TypeOK, WellStaged
  <1>4. QED
    BY <1>2, <1>3 DEF Typed

LEMMA TypedMiddle ==
  ASSUME Typed, NEW u \in Users, Middle(u)
  PROVE  Typed'
  <1>1. CASE SetOption(u)
    <2>1. /\ stage[u] = "setting" /\ current[u] \in Call /\ Option(u) \in Options
          /\ at[u] \in 1 .. Len(Path(current[u].op))
          /\ current[u].op = "CERT" <=> u \in Setters
      BY <1>1, OptionType DEF SetOption, Typed, WellStaged
    <2>2. Len(Path(current[u].op)) \in 6 .. 8
      BY PathLength
    <2>3. Value(u) \in Call \cup {None}
      BY <2>1 DEF Value, Typed, TypeOK
    <2>4. handle' \in [Options -> Call \cup {None}]
      BY <1>1, <2>1, <2>3 DEF SetOption, Store, Typed, TypeOK
    <2>5. CASE at[u] < Len(Path(current[u].op))
      <3>1. at' = [at EXCEPT ![u] = @ + 1] /\ UNCHANGED <<stage, settled>>
        BY <1>1, <2>5, <2>2 DEF SetOption
      <3>2. at[u] + 1 \in 1 .. 8 /\ at[u] + 1 <= Len(Path(current[u].op))
        <4>1. ASSUME NEW n \in 6 .. 8, NEW k \in 1 .. n, k < n
              PROVE  k + 1 \in 1 .. 8 /\ k + 1 <= n
          BY <4>1
        <4>2. QED
          BY <2>1, <2>2, <2>5, <4>1
      <3>3. TypeOK'
        BY <1>1, <2>4, <3>1, <3>2 DEF SetOption, Typed, TypeOK
      <3>4. WellStaged'
        BY <1>1, <2>1, <3>1, <3>2 DEF SetOption, Typed, TypeOK, WellStaged
      <3>5. QED
        BY <3>3, <3>4 DEF Typed
    <2>6. CASE at[u] = Len(Path(current[u].op))
      <3>1. PICK x \in {"return", "perform"} :
                /\ stage' = [stage EXCEPT ![u] = x]
                /\ x = "perform" => u \notin Setters
        BY <1>1, <2>1, <2>2, <2>6 DEF SetOption
      <3>2. at' = [at EXCEPT ![u] = 1] /\ settled' \in Call \cup {None}
        BY <1>1, <2>1, <2>2, <2>6 DEF SetOption, Settle, Typed, TypeOK
      <3>3. TypeOK'
        BY <1>1, <2>4, <3>1, <3>2 DEF SetOption, Typed, TypeOK, Stages
      <3>4. WellStaged'
        BY <1>1, <2>1, <3>1, <3>2 DEF SetOption, Typed, TypeOK, WellStaged
      <3>5. QED
        BY <3>3, <3>4 DEF Typed
    <2>7. QED
      BY <1>1, <2>5, <2>6 DEF SetOption
  <1>2. CASE SetOptionFails(u)
    <2>1. /\ stage[u] = "setting" /\ current[u] \in Call
          /\ current[u].op = "CERT" <=> u \in Setters
      BY <1>2, OptionType DEF SetOptionFails, Typed, WellStaged
    <2>2. PICK x \in {"return", "free"} :
              stage' = [stage EXCEPT ![u] = x] /\ (x = "free" => u \notin Setters)
      BY <1>2, <2>1 DEF SetOptionFails, FailureStage
    <2>3. TypeOK'
      BY <1>2, <2>2 DEF SetOptionFails, FailureStatus, Typed, TypeOK, Stages
    <2>4. WellStaged'
      BY <1>2, <2>1, <2>2 DEF SetOptionFails, Typed, TypeOK, WellStaged
    <2>5. QED
      BY <2>3, <2>4 DEF Typed
  <1>3. CASE Perform(u) \/ WriteCallback(u) \/ PerformReturns(u) \/ FreeHeader(u)
    <2>1. u \notin Setters /\ current[u] \in Call
      BY <1>3 DEF Perform, WriteCallback, PerformReturns, FreeHeader, Typed, WellStaged
    <2>2. TypeOK'
      BY <1>3, <2>1 DEF Perform, WriteCallback, PerformReturns, FreeHeader,
                        Typed, TypeOK, Stages
    <2>3. WellStaged'
      BY <1>3, <2>1 DEF Perform, WriteCallback, PerformReturns, FreeHeader,
                        Typed, TypeOK, WellStaged
    <2>4. QED
      BY <2>2, <2>3 DEF Typed
  <1>4. QED
    BY <1>1, <1>2, <1>3 DEF Middle

LEMMA TypedReturn ==
  ASSUME Typed, NEW u \in Users, Return(u)
  PROVE  Typed'
  <1>1. Unset \in [Options -> Call \cup {None}]
    BY DEF Unset
  <1>2. TypeOK'
    BY <1>1 DEF Return, Unlock, Typed, TypeOK, Stages
  <1>3. WellStaged'
    BY DEF Return, Typed, TypeOK, WellStaged
  <1>4. QED
    BY <1>2, <1>3 DEF Typed

LEMMA TypedNext == Typed /\ [Next]_vars => Typed'
  <1> SUFFICES ASSUME Typed, [Next]_vars PROVE Typed'
    OBVIOUS
  <1>1. CASE UNCHANGED vars
    BY <1>1 DEF vars, Typed, TypeOK, WellStaged
  <1>2. CASE SomeComes
    BY <1>2, TypedComes DEF SomeComes
  <1>3. CASE SomeWaits
    BY <1>3, TypedWaits DEF SomeWaits
  <1>4. QED
    BY <1>1, <1>2, <1>3, TypedMiddle, TypedReturn, NextStep

\* The variables keep their types, whatever overlaps.
THEOREM EasyHandleTypeCorrect == Spec => []TypeOK
  <1>1. Typed => TypeOK
    BY DEF Typed
  <1>2. QED
    BY <1>1, TypedInit, TypedNext, PTL DEF Spec

-----------------------------------------------------------------------------
(***************************************************************************)
(* What a step does to the history, the handle and the status.             *)
(***************************************************************************)
LEMMA MiddleStaysActive ==
  ASSUME Typed, NEW u \in Users, Middle(u)
  PROVE  /\ Active(u)
         /\ \E x \in Stages \ {"idle", "waiting"} : stage' = [stage EXCEPT ![u] = x]
         /\ mPollingMutex' = mPollingMutex
  <1>1. stage \in [Users -> Stages]
    BY DEF Typed, TypeOK
  <1>2. CASE SetOption(u)
    <2>1. PICK x \in {"setting", "return", "perform"} : stage' = [stage EXCEPT ![u] = x]
      BY <1>1, <1>2 DEF SetOption
    <2>2. QED
      BY <1>2, <2>1 DEF SetOption, Active, Stages
  <1>3. CASE SetOptionFails(u)
    <2>1. stage' = [stage EXCEPT ![u] = "return"] \/ stage' = [stage EXCEPT ![u] = "free"]
      BY <1>3 DEF SetOptionFails, FailureStage
    <2>2. QED
      BY <1>3, <2>1 DEF SetOptionFails, Active, Stages
  <1>4. CASE Perform(u) \/ PerformReturns(u) \/ FreeHeader(u)
    BY <1>4 DEF Perform, PerformReturns, FreeHeader, Active, Stages
  <1>5. CASE WriteCallback(u)
    <2>1. stage' = [stage EXCEPT ![u] = "transfer"]
      BY <1>1, <1>5 DEF WriteCallback
    <2>2. QED
      BY <1>5, <2>1 DEF WriteCallback, Active, Stages
  <1>6. QED
    BY <1>2, <1>3, <1>4, <1>5 DEF Middle


\* A call that comes is met by all that are on the handle, and meets them.
LEMMA ComesMeets ==
  ASSUME Typed, NEW u \in Users, NEW c \in Call, NEW x \in {"setting", "throw"},
         Comes(u, c, x)
  PROVE  /\ Active(u)' /\ current'[u] = c /\ stage'[u] = x /\ ~Active(u)
         /\ met'[u] = UnderWay \cup {c} /\ before'[u] = settled
         /\ \A v \in Users \ {u} :
               /\ stage'[v] = stage[v] /\ current'[v] = current[v]
               /\ before'[v] = before[v]
               /\ Active(v)' <=> Active(v)
               /\ Active(v) => met'[v] = met[v] \cup {c} /\ current[v] \in met'[u]
               /\ met[v] \subseteq met'[v]
  <1>1. /\ stage \in [Users -> Stages] /\ DOMAIN current = Users
        /\ DOMAIN met = Users /\ DOMAIN before = Users
    BY DEF Typed, TypeOK
  <1>2. QED
    BY <1>1 DEF Comes, Enter, UnderWay, Active

LEMMA MiddleFrame ==
  ASSUME Typed, NEW u \in Users, Middle(u)
  PROVE  /\ UNCHANGED <<current, cert, met, before>>
         /\ current[u] \in Call
         /\ \A v \in Users : Active(v)' <=> Active(v)
         /\ \A v \in Users \ {u} :
               stage'[v] = stage[v] /\ at'[v] = at[v] /\ sent'[v] = sent[v]
         /\ \A o \in OfRequest : handle'[o] = handle[o] \/ handle'[o] = current[u]
         /\ \A o \in OfCertificate : handle'[o] = handle[o] \/ handle'[o] = cert
         /\ u \notin Setters => \A o \in OfCertificate : handle'[o] = handle[o]
         /\ strHttpStatus' \subseteq strHttpStatus \cup {current[u]}
  <1>1. /\ stage \in [Users -> Stages] /\ DOMAIN at = Users /\ DOMAIN sent = Users
        /\ DOMAIN handle = Options
    BY DEF Typed, TypeOK
  <1>2. UNCHANGED <<current, cert, met, before>>
    BY DEF Middle, SetOption, SetOptionFails, Perform, WriteCallback, PerformReturns,
       FreeHeader
  <1>3. current[u] \in Call
    BY MiddleStaysActive DEF Active, Typed, WellStaged
  <1>4. \A v \in Users : Active(v)' <=> Active(v)
    BY <1>1, MiddleStaysActive DEF Active
  <1>5. \A v \in Users \ {u} :
            stage'[v] = stage[v] /\ at'[v] = at[v] /\ sent'[v] = sent[v]
    <2>1. CASE SetOption(u)
      BY <1>1, <2>1 DEF SetOption
    <2>2. CASE SetOptionFails(u)
      BY <1>1, <2>2 DEF SetOptionFails
    <2>3. CASE Perform(u) \/ WriteCallback(u) \/ PerformReturns(u) \/ FreeHeader(u)
      BY <1>1, <2>3 DEF Perform, WriteCallback, PerformReturns, FreeHeader
    <2>4. QED
      BY <2>1, <2>2, <2>3 DEF Middle
  <1>6. /\ \A o \in OfRequest : handle'[o] = handle[o] \/ handle'[o] = current[u]
        /\ \A o \in OfCertificate : handle'[o] = handle[o] \/ handle'[o] = cert
        /\ u \notin Setters => \A o \in OfCertificate : handle'[o] = handle[o]
    <2>1. CASE SetOption(u)
      <3>1. handle' = [handle EXCEPT ![Option(u)] = Value(u)]
        BY <2>1 DEF SetOption, Store
      <3>2. u \notin Setters => Option(u) \in OfRequest
        BY <2>1, OptionType DEF SetOption
      <3>3. QED
        BY <1>1, <3>1, <3>2, OptionSets DEF Value
    <2>2. CASE ~SetOption(u)
      BY <2>2 DEF Middle, SetOptionFails, Perform, WriteCallback, PerformReturns, FreeHeader
    <2>3. QED
      BY <2>1, <2>2
  <1>7. strHttpStatus' \subseteq strHttpStatus \cup {current[u]}
    BY DEF Middle, SetOption, SetOptionFails, Perform, WriteCallback, PerformReturns,
       FreeHeader
  <1>8. QED
    BY <1>2, <1>3, <1>4, <1>5, <1>6, <1>7

LEMMA ReturnFrame ==
  ASSUME Typed, NEW u \in Users, Return(u)
  PROVE  /\ UNCHANGED <<handle, strHttpStatus, cert, settled>>
         /\ stage'[u] = "idle" /\ ~Active(u)'
         /\ \A v \in Users \ {u} :
               /\ stage'[v] = stage[v] /\ at'[v] = at[v] /\ sent'[v] = sent[v]
               /\ current'[v] = current[v] /\ met'[v] = met[v] /\ before'[v] = before[v]
               /\ Active(v)' <=> Active(v)
  <1>1. /\ stage \in [Users -> Stages] /\ DOMAIN at = Users /\ DOMAIN sent = Users
        /\ DOMAIN current = Users /\ DOMAIN met = Users /\ DOMAIN before = Users
    BY DEF Typed, TypeOK
  <1>2. QED
    BY <1>1 DEF Return, Active

LEMMA WaitsFrame ==
  ASSUME Typed, NEW u \in Pollers, NEW c \in Call, Waits(u, c)
  PROVE  /\ UNCHANGED <<handle, at, sent, strHttpStatus, cert, met, before, settled>>
         /\ ~Active(u) /\ ~Active(u)' /\ stage'[u] = "waiting" /\ u \in Users
         /\ \A v \in Users \ {u} :
               /\ stage'[v] = stage[v] /\ current'[v] = current[v]
               /\ Active(v)' <=> Active(v)
  <1>1. stage \in [Users -> Stages] /\ DOMAIN current = Users
    BY DEF Typed, TypeOK
  <1>2. QED
    BY <1>1 DEF Waits, Active, Users

-----------------------------------------------------------------------------
(***************************************************************************)
(* Who meets whom.                                                         *)
(***************************************************************************)
LEMMA HeldByActiveNext == Typed /\ HeldByActive /\ [Next]_vars => HeldByActive'
  <1> SUFFICES ASSUME Typed, HeldByActive, [Next]_vars PROVE HeldByActive'
    OBVIOUS
  <1>0. Pollers \subseteq Users /\ None \notin Users
    BY EasyHandleAssumption DEF Users
  <1>1. ASSUME NEW u \in Users, NEW c \in Call, NEW x \in {"setting", "throw"},
               Comes(u, c, x)
        PROVE  HeldByActive'
    <2>1. mPollingMutex' = IF u \in Pollers THEN u ELSE mPollingMutex
      BY <1>1 DEF Comes
    <2>2. u \in Pollers => \A v \in Pollers : ~Active(v)
      BY <1>0, <1>1 DEF Comes, HeldByActive
    <2>3. ASSUME NEW v \in Pollers PROVE Active(v)' <=> mPollingMutex' = v
      <3>1. CASE v = u
        BY <1>1, <2>1, <3>1, ComesMeets
      <3>2. CASE v # u
        <4>1. Active(v)' <=> Active(v)
          BY <1>0, <1>1, <3>2, ComesMeets
        <4>2. QED
          BY <2>1, <2>2, <3>2, <4>1 DEF HeldByActive
      <3>3. QED
        BY <3>1, <3>2
    <2>4. QED
      BY <2>3 DEF HeldByActive
  <1>2. ASSUME NEW u \in Pollers, NEW c \in Call, Waits(u, c) PROVE HeldByActive'
    <2>1. mPollingMutex' = mPollingMutex
      BY <1>2 DEF Waits
    <2>2. \A v \in Pollers : Active(v)' <=> Active(v)
      BY <1>0, <1>2, WaitsFrame
    <2>3. QED
      BY <2>1, <2>2 DEF HeldByActive
  <1>3. ASSUME NEW u \in Users, Middle(u) PROVE HeldByActive'
    BY <1>0, <1>3, MiddleFrame, MiddleStaysActive DEF HeldByActive
  <1>4. ASSUME NEW u \in Users, Return(u) PROVE HeldByActive'
    BY <1>0, <1>4, ReturnFrame DEF Return, Unlock, HeldByActive
  <1>5. CASE UNCHANGED vars
    BY <1>5 DEF vars, HeldByActive, Active
  <1>6. QED
    BY <1>1, <1>2, <1>3, <1>4, <1>5, NextStep DEF SomeComes, SomeWaits

LEMMA AcquaintedNext == Typed /\ Acquainted /\ [Next]_vars => Acquainted'
  <1> SUFFICES ASSUME Typed, Acquainted, [Next]_vars PROVE Acquainted'
    OBVIOUS
  <1>1. ASSUME NEW u \in Users, NEW c \in Call, NEW x \in {"setting", "throw"},
               Comes(u, c, x)
        PROVE  Acquainted'
    BY <1>1, ComesMeets DEF Acquainted
  <1>2. ASSUME NEW u \in Pollers, NEW c \in Call, Waits(u, c) PROVE Acquainted'
    BY <1>2, WaitsFrame DEF Acquainted
  <1>3. ASSUME NEW u \in Users, Middle(u) PROVE Acquainted'
    BY <1>3, MiddleFrame DEF Acquainted
  <1>4. ASSUME NEW u \in Users, Return(u) PROVE Acquainted'
    BY <1>4, ReturnFrame DEF Acquainted
  <1>5. CASE UNCHANGED vars
    BY <1>5 DEF vars, Acquainted, Active
  <1>6. QED
    BY <1>1, <1>2, <1>3, <1>4, <1>5, NextStep DEF SomeComes, SomeWaits

LEMMA OnePollingNext ==
  Typed /\ HeldByActive /\ OnePolling /\ [Next]_vars => OnePolling'
  <1> SUFFICES ASSUME Typed, HeldByActive, OnePolling, [Next]_vars PROVE OnePolling'
    OBVIOUS
  <1>0. Pollers \subseteq Users /\ None \notin Users
    BY EasyHandleAssumption DEF Users
  <1>1. ASSUME NEW u \in Users, NEW c \in Call, NEW x \in {"setting", "throw"},
               Comes(u, c, x)
        PROVE  OnePolling'
    <2> SUFFICES ASSUME NEW v \in Pollers, Active(v)', NEW d \in met'[v], d.by \in Pollers
                 PROVE  d = current'[v]
      BY DEF OnePolling
    <2>1. c.by = u
      BY <1>1 DEF Comes
    <2>2. CASE u \in Pollers
      <3>1. \A q \in Pollers : ~Active(q)
        BY <1>0, <1>1, <2>2 DEF Comes, HeldByActive
      <3>2. v = u
        BY <1>0, <1>1, <3>1, ComesMeets
      <3>3. d = c \/ \E q \in Users : Active(q) /\ d = current[q]
        BY <1>1, <3>2, ComesMeets DEF UnderWay
      <3>4. \A q \in Users : Active(q) => current[q].by = q
        BY DEF Active, Typed, WellStaged
      <3>5. QED
        BY <1>1, <3>1, <3>2, <3>3, <3>4, ComesMeets
    <2>3. CASE u \notin Pollers
      <3>1. v # u /\ v \in Users
        BY <1>0, <2>3
      <3>2. Active(v) /\ current'[v] = current[v] /\ d \in met[v] \cup {c}
        BY <1>1, <3>1, ComesMeets
      <3>3. d # c
        BY <2>1, <2>3
      <3>4. QED
        BY <3>2, <3>3 DEF OnePolling
    <2>4. QED
      BY <2>2, <2>3
  <1>2. ASSUME NEW u \in Pollers, NEW c \in Call, Waits(u, c) PROVE OnePolling'
    BY <1>0, <1>2, WaitsFrame DEF OnePolling
  <1>3. ASSUME NEW u \in Users, Middle(u) PROVE OnePolling'
    BY <1>0, <1>3, MiddleFrame DEF OnePolling
  <1>4. ASSUME NEW u \in Users, Return(u) PROVE OnePolling'
    BY <1>0, <1>4, ReturnFrame DEF OnePolling
  <1>5. CASE UNCHANGED vars
    BY <1>5 DEF vars, OnePolling, Active
  <1>6. QED
    BY <1>1, <1>2, <1>3, <1>4, <1>5, NextStep DEF SomeComes, SomeWaits

-----------------------------------------------------------------------------
(***************************************************************************)
(* The request's options and the status.                                   *)
(***************************************************************************)
LEMMA SetSoFarOwnSetOption ==
  ASSUME Typed, Acquainted, SetSoFar, NEW u \in Users \ Setters, SetOption(u)
  PROVE  /\ stage'[u] = "setting" =>
               \A k \in 1 .. at'[u] - 1 : handle'[RequestOptions[k]] \in met[u]
         /\ stage'[u] \in {"setting", "perform"}
         /\ stage'[u] = "perform" => \A o \in OfRequest : handle'[o] \in met[u]
  <1>1. /\ stage[u] = "setting"
        /\ handle' = [handle EXCEPT ![Option(u)] = Value(u)]
    BY DEF SetOption, Store
  <1>2. /\ Path(current[u].op) = RequestOptions
        /\ current[u].op # "CERT"
    BY <1>1 DEF Path, Typed, WellStaged
  <1>3. Len(RequestOptions) = 6 /\ at[u] \in 1 .. 6
    BY <1>1, <1>2, OptionType, RequestPath
  <1>4. /\ Option(u) = RequestOptions[at[u]]
        /\ Value(u) = current[u] /\ current[u] \in met[u]
    BY <1>1, <1>2, <1>3, OptionType, OptionSets DEF Option, Value, Acquainted, Active
  <1>5. ASSUME NEW k \in 1 .. at[u] PROVE handle'[RequestOptions[k]] \in met[u]
    <2>1. k \in 1 .. 6
      BY <1>3
    <2>2. RequestOptions[k] \in Options /\ DOMAIN handle = Options
      BY <2>1, RequestPath, OptionSets DEF Typed, TypeOK
    <2>3. CASE RequestOptions[k] = Option(u)
      BY <1>1, <1>4, <2>2, <2>3
    <2>4. CASE RequestOptions[k] # Option(u)
      <3>1. k \in 1 .. at[u] - 1
        BY <1>3, <1>4, <2>4
      <3>2. handle[RequestOptions[k]] \in met[u]
        BY <1>1, <3>1 DEF SetSoFar
      <3>3. QED
        BY <1>1, <2>2, <2>4, <3>2
    <2>5. QED
      BY <2>3, <2>4
  <1>6. stage \in [Users -> Stages] /\ DOMAIN at = Users
    BY DEF Typed, TypeOK
  <1>7. CASE at[u] < Len(Path(current[u].op))
    <2>1. stage'[u] = "setting" /\ at'[u] = at[u] + 1
      BY <1>1, <1>2, <1>3, <1>6, <1>7 DEF SetOption
    <2>2. at'[u] - 1 = at[u]
      BY <1>3, <2>1
    <2>3. QED
      BY <1>5, <2>1, <2>2
  <1>8. CASE ~(at[u] < Len(Path(current[u].op)))
    <2>1. at[u] = 6
      BY <1>2, <1>3, <1>8
    <2>2. stage'[u] = "perform"
      BY <1>2, <1>6, <1>8 DEF SetOption
    <2>3. \A o \in OfRequest : handle'[o] \in met[u]
      BY <1>5, <2>1, RequestPath
    <2>4. QED
      BY <2>2, <2>3
  <1>9. QED
    BY <1>7, <1>8

LEMMA SetSoFarNext == Typed /\ Acquainted /\ SetSoFar /\ [Next]_vars => SetSoFar'
  <1> SUFFICES ASSUME Typed, Acquainted, SetSoFar, [Next]_vars PROVE SetSoFar'
    OBVIOUS
  <1>0. /\ stage \in [Users -> Stages] /\ at \in [Users -> 1 .. 8] /\ DOMAIN sent = Users
        /\ Setters \subseteq Users
    BY DEF Typed, TypeOK, Users
  <1>1. ASSUME NEW u \in Users, NEW c \in Call, NEW x \in {"setting", "throw"},
               Comes(u, c, x)
        PROVE  SetSoFar'
    <2>1. UNCHANGED <<handle, at, sent>>
      BY <1>1 DEF Comes
    <2>2. stage'[u] = x /\ at[u] = 1
      <3>1. at[u] = 1
        BY <1>1 DEF Comes, Typed, WellStaged
      <3>2. QED
        BY <1>1, <3>1, ComesMeets
    <2>3. \A v \in Users \ {u} : stage'[v] = stage[v] /\ met[v] \subseteq met'[v]
      BY <1>1, ComesMeets
    <2>4. ASSUME NEW v \in Users \ Setters
          PROVE  /\ stage'[v] = "setting" =>
                       \A k \in 1 .. at'[v] - 1 : handle'[RequestOptions[k]] \in met'[v]
                 /\ stage'[v] \in {"perform", "transfer"} =>
                       \A o \in OfRequest : handle'[o] \in met'[v]
                 /\ stage'[v] = "transfer" => \A o \in OfRequest : sent'[v][o] \in met'[v]
      <3>1. CASE v = u
        <4>1. \A k \in 1 .. at[u] - 1 : FALSE
          BY <2>2
        <4>2. QED
          BY <2>1, <2>2, <3>1, <4>1
      <3>2. CASE v # u
        BY <2>1, <2>3, <3>2 DEF SetSoFar
      <3>3. QED
        BY <3>1, <3>2
    <2>5. QED
      BY <2>4 DEF SetSoFar
  <1>2. ASSUME NEW u \in Pollers, NEW c \in Call, Waits(u, c) PROVE SetSoFar'
    BY <1>0, <1>2, WaitsFrame DEF SetSoFar
  <1>3. ASSUME NEW u \in Users, Middle(u) PROVE SetSoFar'
    <2>1. /\ met' = met
          /\ \A v \in Users \ {u} :
                stage'[v] = stage[v] /\ at'[v] = at[v] /\ sent'[v] = sent[v]
          /\ \A o \in OfRequest : handle'[o] = handle[o] \/ handle'[o] = current[u]
      BY <1>3, MiddleFrame
    <2>2. ASSUME NEW v \in Users, Active(v), NEW o \in OfRequest, handle[o] \in met[v]
          PROVE  handle'[o] \in met'[v]
      <3>1. current[u] \in met[v]
        BY <1>3, <2>2, MiddleStaysActive DEF Acquainted
      <3>2. QED
        BY <2>1, <2>2, <3>1
    <2>3. ASSUME NEW v \in Users \ Setters
          PROVE  /\ stage'[v] = "setting" =>
                       \A k \in 1 .. at'[v] - 1 : handle'[RequestOptions[k]] \in met'[v]
                 /\ stage'[v] \in {"perform", "transfer"} =>
                       \A o \in OfRequest : handle'[o] \in met'[v]
                 /\ stage'[v] = "transfer" => \A o \in OfRequest : sent'[v][o] \in met'[v]
      <3>1. CASE v # u
        <4>1. stage'[v] = stage[v] /\ at'[v] = at[v] /\ sent'[v] = sent[v]
          BY <2>1, <3>1
        <4>2. ASSUME stage[v] = "setting", NEW k \in 1 .. at[v] - 1
              PROVE  handle'[RequestOptions[k]] \in met'[v]
          <5>1. Path(current[v].op) = RequestOptions
            BY <4>2 DEF Path, Typed, WellStaged
          <5>2. at[v] \in 1 .. 6
            BY <4>2, <5>1, OptionType, RequestPath
          <5>3. RequestOptions[k] \in OfRequest
            BY <5>2, RequestPath
          <5>4. handle[RequestOptions[k]] \in met[v]
            BY <4>2 DEF SetSoFar
          <5>5. Active(v)
            BY <4>2 DEF Active
          <5>6. QED
            BY <2>2, <5>3, <5>4, <5>5
        <4>3. stage[v] \in {"perform", "transfer"} =>
                 \A o \in OfRequest : handle'[o] \in met'[v]
          BY <2>2 DEF SetSoFar, Active
        <4>4. stage[v] = "transfer" => \A o \in OfRequest : sent[v][o] \in met[v]
          BY DEF SetSoFar
        <4>5. QED
          BY <2>1, <4>1, <4>2, <4>3, <4>4
      <3>2. CASE v = u /\ SetOption(u)
        BY <2>1, <3>2, SetSoFarOwnSetOption
      <3>3. CASE v = u /\ Perform(u)
        <4>1. /\ stage[u] = "perform" /\ stage'[u] = "transfer"
              /\ handle' = handle /\ sent'[u] = handle
          BY <1>0, <3>3 DEF Perform
        <4>2. \A o \in OfRequest : handle[o] \in met[u]
          BY <3>3, <4>1 DEF SetSoFar
        <4>3. QED
          BY <2>1, <3>3, <4>1, <4>2
      <3>4. CASE v = u /\ WriteCallback(u)
        <4>1. /\ stage[u] = "transfer" /\ stage' = stage
              /\ handle' = handle /\ sent' = sent
          BY <3>4 DEF WriteCallback
        <4>2. QED
          BY <2>1, <3>4, <4>1 DEF SetSoFar
      <3>5. CASE v = u /\ (SetOptionFails(u) \/ PerformReturns(u) \/ FreeHeader(u))
        BY <1>0, <3>5 DEF SetOptionFails, FailureStage, PerformReturns, FreeHeader
      <3>6. QED
        BY <1>3, <3>1, <3>2, <3>3, <3>4, <3>5 DEF Middle
    <2>4. QED
      BY <2>3 DEF SetSoFar
  <1>4. ASSUME NEW u \in Users, Return(u) PROVE SetSoFar'
    BY <1>0, <1>4, ReturnFrame DEF SetSoFar
  <1>5. CASE UNCHANGED vars
    BY <1>5 DEF vars, SetSoFar
  <1>6. QED
    BY <1>1, <1>2, <1>3, <1>4, <1>5, NextStep DEF SomeComes, SomeWaits

LEMMA StatusNext == Typed /\ Acquainted /\ StatusIsOwn /\ [Next]_vars => StatusIsOwn'
  <1> SUFFICES ASSUME Typed, Acquainted, StatusIsOwn, [Next]_vars PROVE StatusIsOwn'
    OBVIOUS
  <1>1. ASSUME NEW u \in Users, NEW c \in Call, NEW x \in {"setting", "throw"},
               Comes(u, c, x)
        PROVE  StatusIsOwn'
    <2>1. strHttpStatus' = {} \/ strHttpStatus' = strHttpStatus
      BY <1>1 DEF Comes
    <2>2. c.op # "CERT" /\ x # "throw" => strHttpStatus' = {}
      BY <1>1 DEF Comes
    <2>3. stage'[u] = x /\ current'[u] = c
      BY <1>1, ComesMeets
    <2>4. \A v \in Users \ {u} :
              /\ stage'[v] = stage[v] /\ current'[v] = current[v]
              /\ Active(v)' <=> Active(v)
              /\ met[v] \subseteq met'[v]
      BY <1>1, ComesMeets
    <2>5. ASSUME NEW v \in Users, Active(v)', current'[v].op # "CERT", stage'[v] # "throw"
          PROVE  strHttpStatus' \subseteq met'[v]
      <3>1. CASE v = u
        BY <2>2, <2>3, <2>5, <3>1
      <3>2. CASE v # u
        BY <2>1, <2>4, <2>5, <3>2 DEF StatusIsOwn
      <3>3. QED
        BY <3>1, <3>2
    <2>6. QED
      BY <2>5 DEF StatusIsOwn
  <1>2. ASSUME NEW u \in Pollers, NEW c \in Call, Waits(u, c) PROVE StatusIsOwn'
    BY <1>2, WaitsFrame DEF StatusIsOwn
  <1>3. ASSUME NEW u \in Users, Middle(u) PROVE StatusIsOwn'
    <2>1. /\ UNCHANGED <<current, met>>
          /\ \A v \in Users : Active(v)' <=> Active(v)
          /\ \A v \in Users \ {u} : stage'[v] = stage[v]
          /\ strHttpStatus' \subseteq strHttpStatus \cup {current[u]}
      BY <1>3, MiddleFrame
    <2>2. stage[u] # "throw"
      BY <1>3 DEF Middle, SetOption, SetOptionFails, Perform, WriteCallback, PerformReturns,
         FreeHeader
    <2>3. \A v \in Users : Active(v) => current[u] \in met[v]
      BY <1>3, MiddleStaysActive DEF Acquainted
    <2>4. QED
      BY <2>1, <2>2, <2>3 DEF StatusIsOwn
  <1>4. ASSUME NEW u \in Users, Return(u) PROVE StatusIsOwn'
    BY <1>4, ReturnFrame DEF StatusIsOwn
  <1>5. CASE UNCHANGED vars
    BY <1>5 DEF vars, StatusIsOwn, Active
  <1>6. QED
    BY <1>1, <1>2, <1>3, <1>4, <1>5, NextStep DEF SomeComes, SomeWaits

-----------------------------------------------------------------------------
(***************************************************************************)
(* The certificate.  A second update that begins while one is under way    *)
(* takes Sole from both, for each is in the other's met.                   *)
(***************************************************************************)
\* Two setters on the handle: neither is alone.
LEMMA TwoAreNotSole ==
  ASSUME Typed, Acquainted, NEW u \in Setters, NEW v \in Setters, u # v,
         Active(u), Active(v)
  PROVE  ~Sole(u)
  <1>1. u \in Users /\ v \in Users
    BY DEF Users
  <1>2. current[v].op = "CERT" /\ current[v].by = v /\ current[u].by = u
    BY <1>1 DEF Active, Typed, WellStaged
  <1>3. QED
    BY <1>1, <1>2 DEF Acquainted, Sole

\* A step of u's update.
LEMMA UpdateSetOption ==
  ASSUME Typed, UpdatedSoFar, NEW u \in Setters, SetOption(u), Sole(u)
  PROVE  /\ cert = current[u]
         /\ stage'[u] = "setting" =>
               \A k \in 2 .. at'[u] - 1 : handle'[TLSOptions[k]] = current[u]
         /\ stage'[u] # "setting" => \A o \in OfCertificate : handle'[o] = current[u]
  <1>1. /\ u \in Users /\ stage[u] = "setting"
        /\ handle' = [handle EXCEPT ![Option(u)] = Value(u)]
    BY DEF SetOption, Store, Users
  <1>2. Path(current[u].op) = TLSOptions
    BY <1>1 DEF Path, Typed, WellStaged
  <1>3. Len(TLSOptions) = 8 /\ at[u] \in 1 .. 8 /\ Option(u) = TLSOptions[at[u]]
    BY <1>1, <1>2, OptionType, TLSPath DEF Option
  <1>4. cert = current[u] /\ \A k \in 2 .. at[u] - 1 : handle[TLSOptions[k]] = current[u]
    BY <1>1 DEF UpdatedSoFar
  <1>5. ASSUME NEW k \in 2 .. at[u] PROVE handle'[TLSOptions[k]] = current[u]
    <2>1. k \in 2 .. 8
      BY <1>3
    <2>2. TLSOptions[k] \in OfCertificate
      BY <2>1, TLSPath
    <2>3. TLSOptions[k] \in Options /\ DOMAIN handle = Options
      BY <2>2, OptionSets DEF Typed, TypeOK
    <2>4. CASE TLSOptions[k] = Option(u)
      BY <1>1, <1>4, <2>2, <2>3, <2>4 DEF Value
    <2>5. CASE TLSOptions[k] # Option(u)
      <3>1. k \in 2 .. at[u] - 1
        BY <1>3, <2>5
      <3>2. QED
        BY <1>1, <1>4, <2>3, <2>5, <3>1
    <2>6. QED
      BY <2>4, <2>5
  <1>6. stage \in [Users -> Stages] /\ DOMAIN at = Users
    BY DEF Typed, TypeOK
  <1>7. CASE at[u] < Len(Path(current[u].op))
    <2>1. stage'[u] = "setting" /\ at'[u] = at[u] + 1
      BY <1>1, <1>2, <1>3, <1>6, <1>7 DEF SetOption
    <2>2. at'[u] - 1 = at[u]
      BY <1>3, <2>1
    <2>3. QED
      BY <1>4, <1>5, <2>1, <2>2
  <1>8. CASE ~(at[u] < Len(Path(current[u].op)))
    <2>1. at[u] = 8
      BY <1>2, <1>3, <1>8
    <2>2. stage'[u] # "setting"
      BY <1>1, <1>6, <1>8 DEF SetOption
    <2>3. \A o \in OfCertificate : handle'[o] = current[u]
      BY <1>5, <2>1, TLSPath
    <2>4. QED
      BY <1>4, <2>2, <2>3
  <1>9. QED
    BY <1>7, <1>8

LEMMA UpdatedNext ==
  Typed /\ Acquainted /\ UpdatedSoFar /\ [Next]_vars => UpdatedSoFar'
  <1> SUFFICES ASSUME Typed, Acquainted, UpdatedSoFar, [Next]_vars,
                      NEW v \in Setters, stage'[v] = "setting", Sole(v)'
               PROVE  /\ cert' = current'[v]
                      /\ \A k \in 2 .. at'[v] - 1 : handle'[TLSOptions[k]] = current'[v]
    BY DEF UpdatedSoFar
  <1> DEFINE Goal == /\ cert' = current'[v]
                     /\ \A k \in 2 .. at'[v] - 1 :
                           handle'[TLSOptions[k]] = current'[v]
  <1>0. v \in Users /\ Active(v)'
    BY DEF Active, Users
  <1>1. ASSUME NEW u \in Users, NEW c \in Call, NEW x \in {"setting", "throw"},
               Comes(u, c, x)
        PROVE  Goal
    <2>1. UNCHANGED <<handle, at>>
      BY <1>1 DEF Comes
    <2>2. CASE v = u
      <3>1. at[v] = 1
        BY <1>0, <1>1, <2>2 DEF Comes, Typed, WellStaged
      <3>2. \A k \in 2 .. at[v] - 1 : FALSE
        BY <3>1
      <3>3. cert' = c /\ current'[v] = c
        BY <1>1, <2>2, ComesMeets DEF Comes
      <3>4. QED
        BY <2>1, <3>2, <3>3
    <2>3. CASE v # u
      <3>1. /\ stage[v] = "setting" /\ Active(v) /\ current'[v] = current[v]
            /\ met'[v] = met[v] \cup {c}
        BY <1>0, <1>1, <2>3, ComesMeets
      <3>2. current[v].by = v /\ c.by = u
        BY <1>0, <1>1, <3>1 DEF Comes, Typed, WellStaged
      <3>3. Sole(v) /\ c.op # "CERT"
        BY <2>3, <3>1, <3>2 DEF Sole
      <3>4. cert' = cert
        BY <1>1, <3>3 DEF Comes
      <3>5. QED
        BY <2>1, <3>1, <3>3, <3>4 DEF UpdatedSoFar
    <2>4. QED
      BY <2>2, <2>3
  <1>2. ASSUME NEW u \in Pollers, NEW c \in Call, Waits(u, c) PROVE Goal
    <2>1. v # u
      BY EasyHandleAssumption
    <2>2. QED
      BY <1>0, <1>2, <2>1, WaitsFrame DEF UpdatedSoFar, Sole
  <1>3. ASSUME NEW u \in Users, Middle(u) PROVE Goal
    <2>1. /\ UNCHANGED <<current, cert, met>>
          /\ \A y \in Users \ {u} : stage'[y] = stage[y] /\ at'[y] = at[y]
          /\ u \notin Setters => \A o \in OfCertificate : handle'[o] = handle[o]
      BY <1>3, MiddleFrame
    <2>2. Sole(v)
      BY <2>1 DEF Sole
    <2>3. CASE v # u
      <3>1. stage[v] = "setting" /\ at'[v] = at[v] /\ Active(v)
        BY <1>0, <2>1, <2>3 DEF Active
      <3>2. u \notin Setters
        BY <1>3, <2>2, <2>3, <3>1, MiddleStaysActive, TwoAreNotSole
      <3>3. cert = current[v] /\ \A k \in 2 .. at[v] - 1 : handle[TLSOptions[k]] = current[v]
        BY <2>2, <3>1 DEF UpdatedSoFar
      <3>4. ASSUME NEW k \in 2 .. at[v] - 1 PROVE TLSOptions[k] \in OfCertificate
        <4>1. at[v] \in 1 .. 8
          BY <1>0 DEF Typed, TypeOK
        <4>2. k \in 2 .. 8
          BY <4>1
        <4>3. QED
          BY <4>2, TLSPath
      <3>5. QED
        BY <2>1, <3>1, <3>2, <3>3, <3>4
    <2>4. CASE v = u /\ SetOption(u)
      BY <2>1, <2>2, <2>4, UpdateSetOption
    <2>5. CASE v = u /\ ~SetOption(u)
      <3>1. stage \in [Users -> Stages]
        BY DEF Typed, TypeOK
      <3>2. stage'[u] # "setting"
        BY <1>3, <2>5, <3>1 DEF Middle, SetOptionFails, FailureStage, Perform, WriteCallback,
           PerformReturns, FreeHeader
      <3>3. QED
        BY <2>5, <3>2
    <2>6. QED
      BY <2>3, <2>4, <2>5
  <1>4. ASSUME NEW u \in Users, Return(u) PROVE Goal
    <2>1. v # u
      BY <1>4, ReturnFrame
    <2>2. QED
      BY <1>0, <1>4, <2>1, ReturnFrame DEF UpdatedSoFar, Sole
  <1>5. CASE UNCHANGED vars
    BY <1>5 DEF vars, UpdatedSoFar, Sole
  <1>6. QED
    BY <1>1, <1>2, <1>3, <1>4, <1>5, NextStep DEF SomeComes, SomeWaits

LEMMA InForceNext ==
  Typed /\ Acquainted /\ UpdatedSoFar /\ InForce /\ [Next]_vars => InForce'
  <1> SUFFICES ASSUME Typed, Acquainted, UpdatedSoFar, InForce, [Next]_vars, settled' # None
               PROVE  /\ cert' = settled'
                      /\ \A o \in OfCertificate : handle'[o] = settled'
                      /\ \A v \in Setters : stage'[v] # "setting"
    BY DEF InForce
  <1> DEFINE Goal == /\ cert' = settled'
                     /\ \A o \in OfCertificate : handle'[o] = settled'
                     /\ \A v \in Setters : stage'[v] # "setting"
  <1>0. Setters \subseteq Users /\ stage \in [Users -> Stages]
    BY DEF Typed, TypeOK, Users
  <1>1. ASSUME NEW u \in Users, NEW c \in Call, NEW x \in {"setting", "throw"},
               Comes(u, c, x)
        PROVE  Goal
    <2>1. u \notin Setters /\ UNCHANGED <<handle, cert, settled>>
      BY <1>1 DEF Comes
    <2>2. \A v \in Setters : stage'[v] = stage[v]
      BY <1>0, <1>1, <2>1, ComesMeets
    <2>3. QED
      BY <2>1, <2>2 DEF InForce
  <1>2. ASSUME NEW u \in Pollers, NEW c \in Call, Waits(u, c) PROVE Goal
    <2>1. u \notin Setters
      BY EasyHandleAssumption
    <2>2. \A v \in Setters : stage'[v] = stage[v]
      BY <1>0, <1>2, <2>1, WaitsFrame
    <2>3. QED
      BY <1>2, <2>2, WaitsFrame DEF InForce
  <1>3. ASSUME NEW u \in Users, SetOption(u), u \in Setters PROVE Goal
    <2>1. stage[u] = "setting" /\ current[u].op = "CERT" /\ cert' = cert
      BY <1>3 DEF SetOption, Typed, WellStaged
    <2>2. settled = None
      BY <1>3, <2>1 DEF InForce
    <2>3. Settle(u) /\ stage'[u] = "return"
      BY <1>0, <1>3, <2>1, <2>2 DEF SetOption
    <2>4. Sole(u) /\ settled' = current[u]
      BY <2>2, <2>3 DEF Settle, Sole
    <2>5. cert = current[u] /\ \A o \in OfCertificate : handle'[o] = current[u]
      BY <1>3, <2>3, <2>4, UpdateSetOption
    <2>6. ASSUME NEW v \in Setters PROVE stage'[v] # "setting"
      <3>1. CASE v = u
        BY <2>3, <3>1
      <3>2. CASE v # u
        <4>1. stage'[v] = stage[v]
          BY <1>0, <1>3, <3>2, MiddleFrame DEF Middle
        <4>2. stage[v] # "setting"
          BY <1>3, <2>1, <2>4, <3>2, TwoAreNotSole DEF Active
        <4>3. QED
          BY <4>1, <4>2
      <3>3. QED
        BY <3>1, <3>2
    <2>7. QED
      BY <2>1, <2>4, <2>5, <2>6
  <1>4. ASSUME NEW u \in Users, Middle(u), ~(SetOption(u) /\ u \in Setters) PROVE Goal
    <2>1. cert' = cert /\ \A y \in Users \ {u} : stage'[y] = stage[y]
      BY <1>4, MiddleFrame
    <2>2. settled' = settled
      <3>1. CASE SetOption(u)
        <4>1. current[u].op # "CERT"
          BY <1>4, <3>1 DEF SetOption, Typed, WellStaged
        <4>2. QED
          BY <3>1, <4>1 DEF SetOption
      <3>2. CASE ~SetOption(u)
        BY <1>4, <3>2 DEF Middle, SetOptionFails, FailureStatus, Perform, WriteCallback,
           PerformReturns, FreeHeader
      <3>3. QED
        BY <3>1, <3>2
    <2>3. \A o \in OfCertificate : handle'[o] = handle[o]
      <3>1. CASE SetOption(u)
        BY <1>4, <3>1, MiddleFrame
      <3>2. CASE ~SetOption(u)
        BY <1>4, <3>2 DEF Middle, SetOptionFails, Perform, WriteCallback, PerformReturns,
           FreeHeader
      <3>3. QED
        BY <3>1, <3>2
    <2>4. u \in Setters => stage'[u] # "setting"
      BY <1>0, <1>4 DEF Middle, SetOptionFails, FailureStage, Perform, WriteCallback,
         PerformReturns, FreeHeader
    <2>5. QED
      BY <1>0, <2>1, <2>2, <2>3, <2>4 DEF InForce
  <1>5. ASSUME NEW u \in Users, Return(u) PROVE Goal
    BY <1>0, <1>5, ReturnFrame DEF InForce
  <1>6. CASE UNCHANGED vars
    BY <1>6 DEF vars, InForce
  <1>7. QED
    BY <1>1, <1>2, <1>3, <1>4, <1>5, <1>6, NextStep DEF SomeComes, SomeWaits, Middle

LEMMA OldOrMetNext ==
  Typed /\ Acquainted /\ InForce /\ OldOrMet /\ [Next]_vars => OldOrMet'
  <1> SUFFICES ASSUME Typed, Acquainted, InForce, OldOrMet, [Next]_vars,
                      NEW v \in Users, Active(v)', before'[v] # None
               PROVE  /\ cert' \in Certificates(v)'
                      /\ \A o \in OfCertificate : handle'[o] \in Certificates(v)'
                      /\ stage'[v] = "transfer" =>
                            \A o \in OfCertificate : sent'[v][o] \in Certificates(v)'
    BY DEF OldOrMet
  <1> DEFINE Goal == /\ cert' \in Certificates(v)'
                     /\ \A o \in OfCertificate : handle'[o] \in Certificates(v)'
                     /\ stage'[v] = "transfer" =>
                           \A o \in OfCertificate : sent'[v][o] \in Certificates(v)'
  <1>1. ASSUME NEW u \in Users, NEW c \in Call, NEW x \in {"setting", "throw"},
               Comes(u, c, x)
        PROVE  Goal
    <2>1. UNCHANGED <<handle, sent>>
      BY <1>1 DEF Comes
    <2>2. \/ cert' = c /\ c.op = "CERT"
          \/ cert' = cert
      BY <1>1 DEF Comes
    <2>3. CASE v = u
      <3>1. before'[v] = settled /\ c \in met'[v] /\ stage'[v] = x
        BY <1>1, <2>3, ComesMeets
      <3>2. cert = settled /\ \A o \in OfCertificate : handle[o] = settled
        BY <3>1 DEF InForce
      <3>3. QED
        BY <2>1, <2>2, <3>1, <3>2 DEF Certificates
    <2>4. CASE v # u
      <3>1. /\ stage'[v] = stage[v] /\ before'[v] = before[v]
            /\ Active(v) /\ met'[v] = met[v] \cup {c}
        BY <1>1, <2>4, ComesMeets
      <3>2. Certificates(v) \subseteq Certificates(v)'
        BY <3>1 DEF Certificates
      <3>3. cert' = c /\ c.op = "CERT" => cert' \in Certificates(v)'
        BY <3>1 DEF Certificates
      <3>4. QED
        BY <2>1, <2>2, <3>1, <3>2, <3>3 DEF OldOrMet
    <2>5. QED
      BY <2>3, <2>4
  <1>2. ASSUME NEW u \in Pollers, NEW c \in Call, Waits(u, c) PROVE Goal
    <2>1. v # u
      BY <1>2, WaitsFrame
    <2>2. QED
      BY <1>2, <2>1, WaitsFrame DEF OldOrMet, Certificates
  <1>3. ASSUME NEW u \in Users, Middle(u) PROVE Goal
    <2>1. /\ UNCHANGED <<cert, met, before>> /\ Active(v)
          /\ \A y \in Users \ {u} : stage'[y] = stage[y] /\ sent'[y] = sent[y]
          /\ \A o \in OfCertificate : handle'[o] = handle[o] \/ handle'[o] = cert
      BY <1>3, MiddleFrame
    <2>2. Certificates(v)' = Certificates(v)
      BY <2>1 DEF Certificates
    <2>3. cert' \in Certificates(v) /\ \A o \in OfCertificate : handle'[o] \in Certificates(v)
      BY <2>1 DEF OldOrMet
    <2>4. ASSUME stage'[v] = "transfer", NEW o \in OfCertificate
          PROVE  sent'[v][o] \in Certificates(v)
      <3>1. CASE v # u \/ WriteCallback(u)
        BY <2>1, <2>4, <3>1 DEF OldOrMet, WriteCallback
      <3>2. CASE v = u /\ Perform(u)
        <4>1. sent'[u] = handle
          BY <3>2 DEF Perform, Typed, TypeOK
        <4>2. QED
          BY <2>1, <3>2, <4>1 DEF OldOrMet
      <3>3. CASE v = u /\ ~Perform(u) /\ ~WriteCallback(u)
        <4>1. stage \in [Users -> Stages]
          BY DEF Typed, TypeOK
        <4>2. stage'[u] # "transfer"
          BY <1>3, <3>3, <4>1 DEF Middle, SetOption, SetOptionFails, FailureStage,
             PerformReturns, FreeHeader
        <4>3. QED
          BY <2>4, <3>3, <4>2
      <3>4. QED
        BY <3>1, <3>2, <3>3
    <2>5. QED
      BY <2>2, <2>3, <2>4
  <1>4. ASSUME NEW u \in Users, Return(u) PROVE Goal
    <2>1. v # u
      BY <1>4, ReturnFrame
    <2>2. QED
      BY <1>4, <2>1, ReturnFrame DEF OldOrMet, Certificates
  <1>5. CASE UNCHANGED vars
    BY <1>5 DEF vars, OldOrMet, Certificates, Active
  <1>6. QED
    BY <1>1, <1>2, <1>3, <1>4, <1>5, NextStep DEF SomeComes, SomeWaits

-----------------------------------------------------------------------------
(***************************************************************************)
(* The theorems.                                                           *)
(***************************************************************************)
IInv ==
    /\ Typed
    /\ HeldByActive /\ Acquainted /\ OnePolling
    /\ SetSoFar /\ StatusIsOwn
    /\ UpdatedSoFar /\ InForce /\ OldOrMet

LEMMA IInvInit == Init => IInv
  <1> SUFFICES ASSUME Init PROVE IInv
    OBVIOUS
  <1>1. Typed
    BY TypedInit
  <1>2. HeldByActive /\ Acquainted /\ OnePolling
    BY EasyHandleAssumption DEF Init, HeldByActive, Acquainted, OnePolling, Active, Users
  <1>3. SetSoFar /\ StatusIsOwn /\ OldOrMet
    BY DEF Init, SetSoFar, StatusIsOwn, OldOrMet, Active
  <1>4. UpdatedSoFar /\ InForce
    BY DEF Init, UpdatedSoFar, InForce, Users
  <1>5. QED
    BY <1>1, <1>2, <1>3, <1>4 DEF IInv

LEMMA IInvNext == IInv /\ [Next]_vars => IInv'
  BY TypedNext, HeldByActiveNext, AcquaintedNext, OnePollingNext, SetSoFarNext, StatusNext,
     UpdatedNext, InForceNext, OldOrMetNext DEF IInv

LEMMA IInvAlways == Spec => []IInv
  BY IInvInit, IInvNext, PTL DEF Spec

LEMMA IInvGivesOwnTransfer == IInv => OwnTransfer
  <1> SUFFICES ASSUME IInv, NEW u \in Users, stage[u] = "transfer", NEW o \in OfRequest
               PROVE  {sent[u][o], handle[o]} \subseteq met[u]
    BY DEF OwnTransfer
  <1>1. u \notin Setters
    BY DEF IInv, Typed, WellStaged
  <1>2. QED
    BY <1>1 DEF IInv, SetSoFar

\* mPollingMutex is held by exactly the poller that is past it: two polling
\* calls are never on the handle together, and a lock_guard left by any path,
\* failed or not, leaves the mutex free, whatever other calls overlap.
THEOREM PollersExclude == Spec => []HeldByActive
  BY IInvAlways, PTL DEF IInv

\* Whatever overlaps, a transfer uses options of its own call or of calls it
\* overlaps, and none that an earlier call left.
THEOREM TransfersAreOwn == Spec => []OwnTransfer
  BY IInvAlways, IInvGivesOwnTransfer, PTL

\* Whatever overlaps, the status a call logs came from its own transfer or
\* from that of a call it overlaps.
THEOREM StatusesAreOwn == Spec => []StatusIsOwn
  <1>1. IInv => StatusIsOwn
    BY DEF IInv
  <1>2. QED
    BY <1>1, IInvAlways, PTL

\* Neither options nor status of two polling calls mix, whatever the worker
\* and the setters do.
THEOREM PollingsAreApart == Spec => []PollersDoNotMix
  <1>1. IInv => PollersDoNotMix
    <2> SUFFICES ASSUME IInv, NEW u \in Pollers
                 PROVE  /\ stage[u] = "transfer" =>
                              \A o \in OfRequest : \A c \in {sent[u][o], handle[o]} :
                                  c.by \in Pollers => c = current[u]
                        /\ Active(u) /\ stage[u] # "throw" =>
                              \A c \in strHttpStatus : c.by \in Pollers => c = current[u]
      BY DEF PollersDoNotMix
    <2>1. u \in Users /\ u \notin Setters
      BY EasyHandleAssumption DEF Users
    <2>2. Active(u) => \A c \in met[u] : c.by \in Pollers => c = current[u]
      BY DEF IInv, OnePolling
    <2>3. Active(u) => current[u].op # "CERT"
      BY <2>1 DEF IInv, Typed, WellStaged, Active
    <2>4. stage[u] = "transfer" => Active(u)
      BY DEF Active
    <2>5. QED
      BY <2>1, <2>2, <2>3, <2>4, IInvGivesOwnTransfer DEF IInv, OwnTransfer, StatusIsOwn
  <1>2. QED
    BY <1>1, IInvAlways, PTL

\* Whatever overlaps, a call that finds a certificate in force uses that one
\* or those of updates it overlaps, and none that an earlier update left.
THEOREM CertificatesAreWhole == Spec => []WholeCertificate
  <1>1. IInv => WholeCertificate
    BY DEF IInv, OldOrMet, WholeCertificate, Certificates, Active
  <1>2. QED
    BY <1>1, IInvAlways, PTL

-----------------------------------------------------------------------------
(***************************************************************************)
(* The refinement: seen from outside, the calls are those of HandleCalls.  *)
(* A step inside a call is a stutter, a step that begins one, takes the    *)
(* mutex or returns is the action of that name.                            *)
(***************************************************************************)
Outside == {"idle", "waiting"}

PhaseOf == [u \in Users |-> IF stage[u] \in Outside THEN stage[u] ELSE "inside"]

MakingOf == [u \in Users |-> IF current[u] = None THEN None ELSE current[u].op]

\* The abstract variables after a step of thread u.
LEMMA PhaseStep ==
  ASSUME Typed, NEW u \in Users, NEW x \in Stages, stage' = [stage EXCEPT ![u] = x]
  PROVE  PhaseOf' = [PhaseOf EXCEPT ![u] = IF x \in Outside THEN x ELSE "inside"]
  <1>1. stage \in [Users -> Stages]
    BY DEF Typed, TypeOK
  <1>2. ASSUME NEW v \in Users
        PROVE  PhaseOf'[v] = [PhaseOf EXCEPT ![u] = IF x \in Outside THEN x ELSE "inside"][v]
    BY <1>1 DEF PhaseOf
  <1> QED BY <1>2 DEF PhaseOf

LEMMA MakingStep ==
  ASSUME Typed, NEW u \in Users, NEW c, current' = [current EXCEPT ![u] = c]
  PROVE  MakingOf' = [MakingOf EXCEPT ![u] = IF c = None THEN None ELSE c.op]
  <1>1. current \in [Users -> Call \cup {None}]
    BY DEF Typed, TypeOK
  <1>2. ASSUME NEW v \in Users
        PROVE  MakingOf'[v] = [MakingOf EXCEPT ![u] = IF c = None THEN None ELSE c.op][v]
    BY <1>1 DEF MakingOf
  <1> QED BY <1>2 DEF MakingOf

LEMMA CallsInit == Init => Calls!Init
  BY DEF Init, Calls!Init, Calls!Users, Users

\* A call begins, at the mutex or past it.
LEMMA BeginMaps ==
  ASSUME Typed, NEW u \in Users, NEW op \in {"POST", "PUT", "CERT"},
         NEW first \in {"setting", "waiting", "throw"}, Begin(u, op, first)
  PROVE  Calls!Begin(u, op, IF first = "waiting" THEN "waiting" ELSE "inside")
  <1>1. PICK c \in Call :
            /\ c.op = op
            /\ stage[u] = "idle"
            /\ stage' = [stage EXCEPT ![u] = first]
            /\ current' = [current EXCEPT ![u] = c]
    BY BeginStep
  <1>2. PhaseOf[u] = "idle"
    BY <1>1 DEF PhaseOf, Outside
  <1>3. PhaseOf' = [PhaseOf EXCEPT ![u] = IF first = "waiting" THEN "waiting" ELSE "inside"]
    BY <1>1, PhaseStep DEF Stages, Outside
  <1>4. MakingOf' = [MakingOf EXCEPT ![u] = op]
    <2>1. MakingOf' = [MakingOf EXCEPT ![u] = IF c = None THEN None ELSE c.op]
      BY <1>1, MakingStep
    <2>2. c # None
      BY EasyHandleAssumption
    <2> QED BY <1>1, <2>1, <2>2
  <1> QED BY <1>2, <1>3, <1>4 DEF Calls!Begin, PhaseOf, MakingOf, Outside

LEMMA StartsMap == Typed /\ Starts => Calls!Next
  <1> SUFFICES ASSUME Typed, Starts PROVE Calls!Next
    OBVIOUS
  <1>1. ASSUME NEW u \in Workers, NEW op \in {"POST", "PUT"}, Post(u, op)
        PROVE  Calls!Next
    <2>1. Calls!Begin(u, op, "inside")
      BY <1>1, BeginMaps DEF Post, Users
    <2> QED BY <1>1, <2>1 DEF Post, Calls!Post, Calls!Next
  <1>2. ASSUME NEW u \in Pollers, PostPollingData(u) PROVE Calls!Next
    <2>1. Calls!Begin(u, "POST", "waiting")
      BY <1>2, BeginMaps DEF PostPollingData, Users
    <2> QED BY <1>2, <2>1 DEF PostPollingData, Calls!PostPollingData, Calls!Next
  <1>3. ASSUME NEW u \in Setters, SetCertificateAttributes(u) PROVE Calls!Next
    <2>1. Calls!Begin(u, "CERT", "inside")
      <3>1. PICK x \in {"setting", "throw"} : Begin(u, "CERT", x)
        BY <1>3 DEF SetCertificateAttributes
      <3>2. Calls!Begin(u, "CERT", IF x = "waiting" THEN "waiting" ELSE "inside")
        BY <3>1, BeginMaps DEF Users
      <3> QED BY <3>2
    <2> QED
      BY <1>3, <2>1 DEF SetCertificateAttributes, Calls!SetCertificateAttributes, Calls!Next
  <1> QED BY <1>1, <1>2, <1>3 DEF Starts

LEMMA MiddleStutters ==
  ASSUME Typed, NEW u \in Users, Middle(u)
  PROVE  UNCHANGED Calls!vars
  <1>1. current' = current /\ mPollingMutex' = mPollingMutex
    BY DEF Middle, SetOption, SetOptionFails, Perform, WriteCallback, PerformReturns,
       FreeHeader
  <1>2. PICK x \in Stages \ Outside : stage' = [stage EXCEPT ![u] = x]
    BY MiddleStaysActive DEF Outside
  <1>3. stage[u] \notin Outside
    BY MiddleStaysActive DEF Active, Outside
  <1>4. PhaseOf' = [PhaseOf EXCEPT ![u] = "inside"]
    BY <1>2, PhaseStep
  <1>5. PhaseOf' = PhaseOf
    BY <1>3, <1>4 DEF PhaseOf
  <1>6. MakingOf' = MakingOf
    BY <1>1 DEF MakingOf
  <1> QED BY <1>1, <1>5, <1>6 DEF Calls!vars, PhaseOf, MakingOf, Outside

LEMMA ContinuesMap ==
  ASSUME Typed, NEW u \in Users, Continues(u)
  PROVE  Calls!Next \/ UNCHANGED Calls!vars
  <1>1. CASE LockPolling(u)
    <2>1. PhaseOf' = [PhaseOf EXCEPT ![u] = "inside"]
      <3>1. PICK x \in {"setting", "throw"} : stage' = [stage EXCEPT ![u] = x]
        BY <1>1 DEF LockPolling
      <3> QED BY <3>1, PhaseStep DEF Stages, Outside
    <2>2. PhaseOf[u] = "waiting" /\ MakingOf' = MakingOf
      BY <1>1 DEF LockPolling, PhaseOf, MakingOf, Outside
    <2> QED
      BY <1>1, <2>1, <2>2 DEF LockPolling, Calls!LockPolling, Calls!Next, Calls!Users,
         Users, PhaseOf, MakingOf, Outside
  <1>2. CASE Return(u)
    <2>1. PhaseOf' = [PhaseOf EXCEPT ![u] = "idle"]
      BY <1>2, PhaseStep DEF Return, Stages, Outside
    <2>2. PhaseOf[u] = "inside"
      BY <1>2 DEF Return, PhaseOf, Outside
    <2>3. MakingOf' = [MakingOf EXCEPT ![u] = None]
      BY <1>2, MakingStep DEF Return
    <2> QED
      BY <1>2, <2>1, <2>2, <2>3 DEF Return, Unlock, Calls!Return, Calls!Next, Calls!Users,
         Users, PhaseOf, MakingOf, Outside
  <1>3. CASE Middle(u)
    BY <1>3, MiddleStutters
  <1> QED BY <1>1, <1>2, <1>3 DEF Continues, Middle

\* The easy handle's calls, option by option, implement the calls of
\* HandleCalls (safety half), whatever overlaps.
THEOREM HandleCallsSafety == Spec => Calls!SafetySpec
  <1>1. Typed /\ [Next]_vars => [Calls!Next]_(Calls!vars)
    <2>1. ASSUME UNCHANGED vars PROVE UNCHANGED Calls!vars
      BY <2>1 DEF vars, Calls!vars
    <2> QED BY <2>1, StartsMap, ContinuesMap DEF Next
  <1> QED BY <1>1, CallsInit, TypedInit, TypedNext, PTL DEF Spec, Calls!SafetySpec

-----------------------------------------------------------------------------
(***************************************************************************)
(* The mutex and the number of steps: what the fairness of HandleCalls     *)
(* rests on, whatever overlaps.  StepsLeft bounds what thread u has still  *)
(* to do in the call it is in, from taking the mutex to returning.         *)
(***************************************************************************)
StepsLeft(u) ==
    CASE stage[u] = "waiting" -> 13
      [] stage[u] = "setting" -> 13 - at[u]
      [] stage[u] = "perform" -> 4
      [] stage[u] = "transfer" -> 3
      [] stage[u] = "free" -> 2
      [] stage[u] \in {"return", "throw"} -> 1
      [] OTHER -> 0

\* A call that begins has at most thirteen steps before it.
LEMMA StartsSteps ==
  ASSUME Typed, Starts, NEW v \in Users
  PROVE  StepsLeft(v)' = StepsLeft(v) \/ (stage[v] = "idle" /\ StepsLeft(v)' <= 13)
  <1>1. PICK u \in Users, first \in {"setting", "waiting", "throw"} :
            /\ stage[u] = "idle"
            /\ stage' = [stage EXCEPT ![u] = first]
            /\ at' = at
    BY DEF Starts, Post, PostPollingData, SetCertificateAttributes, Begin, Users
  <1>2. stage \in [Users -> Stages] /\ at \in [Users -> 1 .. 8] /\ at[u] = 1
    BY <1>1 DEF Typed, TypeOK, WellStaged
  <1>3. CASE v = u
    <2>1. stage'[v] = first /\ at'[v] = 1
      BY <1>1, <1>2, <1>3
    <2>2. QED
      BY <1>1, <1>3, <2>1 DEF StepsLeft
  <1>4. CASE v # u
    <2>1. stage'[v] = stage[v] /\ at'[v] = at[v]
      BY <1>1, <1>2, <1>4
    <2>2. QED
      BY <2>1 DEF StepsLeft
  <1>5. QED
    BY <1>3, <1>4

\* A step of one thread leaves the others where they are.
LEMMA OthersKeepSteps ==
  ASSUME Typed, NEW u \in Users, Continues(u), NEW v \in Users \ {u}
  PROVE  StepsLeft(v)' = StepsLeft(v)
  <1>1. stage'[v] = stage[v] /\ at'[v] = at[v]
    <2>1. stage \in [Users -> Stages] /\ at \in [Users -> 1 .. 8]
      BY DEF Typed, TypeOK
    <2>2. CASE SetOption(u)
      BY <2>1, <2>2 DEF SetOption
    <2>3. CASE ~SetOption(u)
      BY <2>1, <2>3
      DEF Continues, LockPolling, SetOptionFails, Perform, WriteCallback, PerformReturns,
          FreeHeader, Return
    <2>4. QED
      BY <2>2, <2>3
  <1>2. QED
    BY <1>1 DEF StepsLeft

\* A step within a call, but for the arrival of a piece of the response.
LEMMA CallGoesOn ==
  ASSUME Typed, NEW u \in Users, Continues(u), ~WriteCallback(u)
  PROVE  StepsLeft(u)' \in Nat /\ StepsLeft(u)' < StepsLeft(u)
  <1>1. stage \in [Users -> Stages] /\ at \in [Users -> 1 .. 8] /\ at[u] \in 1 .. 8
    BY DEF Typed, TypeOK
  <1>2. CASE LockPolling(u)
    <2>1. stage[u] = "waiting" /\ stage'[u] \in {"setting", "throw"} /\ at'[u] = 1
      BY <1>1, <1>2 DEF LockPolling, Typed, WellStaged
    <2>2. StepsLeft(u) = 13 /\ StepsLeft(u)' \in {1, 12}
      BY <2>1 DEF StepsLeft
    <2>3. QED
      BY <2>2
  <1>3. CASE SetOption(u)
    <2>1. stage[u] = "setting" /\ StepsLeft(u) = 13 - at[u]
      BY <1>3 DEF SetOption, StepsLeft
    <2>2. CASE at[u] < Len(Path(current[u].op))
      <3>1. stage'[u] = "setting" /\ at'[u] = at[u] + 1
        BY <1>1, <1>3, <2>1, <2>2, PathLength DEF SetOption
      <3>2. at'[u] <= 8
        <4>1. Len(Path(current[u].op)) \in 6 .. 8
          BY PathLength
        <4>2. ASSUME NEW n \in 6 .. 8, at[u] < n PROVE at[u] + 1 <= 8
          BY <1>1, <4>2
        <4>3. at[u] + 1 <= 8
          BY <2>2, <4>1, <4>2
        <4>4. QED
          BY <3>1, <4>3
      <3>3. QED
        BY <1>1, <2>1, <3>1, <3>2 DEF StepsLeft
    <2>3. CASE ~(at[u] < Len(Path(current[u].op)))
      <3>1. stage'[u] \in {"return", "perform"}
        BY <1>1, <1>3, <2>3 DEF SetOption
      <3>2. StepsLeft(u)' \in {1, 4}
        BY <3>1 DEF StepsLeft
      <3>3. QED
        BY <1>1, <2>1, <3>2
    <2>4. QED
      BY <2>2, <2>3
  <1>4. CASE SetOptionFails(u)
    <2>1. stage[u] = "setting" /\ stage'[u] \in {"return", "free"}
      BY <1>1, <1>4 DEF SetOptionFails, FailureStage
    <2>2. StepsLeft(u)' \in {1, 2} /\ StepsLeft(u) = 13 - at[u]
      BY <2>1 DEF StepsLeft
    <2>3. QED
      BY <1>1, <2>2
  <1>5. CASE Perform(u)
    BY <1>1, <1>5 DEF Perform, StepsLeft
  <1>6. CASE PerformReturns(u)
    BY <1>1, <1>6 DEF PerformReturns, StepsLeft
  <1>7. CASE FreeHeader(u)
    BY <1>1, <1>7 DEF FreeHeader, StepsLeft
  <1>8. CASE Return(u)
    BY <1>1, <1>8 DEF Return, StepsLeft
  <1>9. QED
    BY <1>2, <1>3, <1>4, <1>5, <1>6, <1>7, <1>8 DEF Continues

\* Post, Put, PostPollingData and UpdateTLSInfo end after at most thirteen
\* steps of their thread besides the WriteCallbacks of the transfer: a failed
\* setopt only shortens a call, no path goes back to an earlier option, and
\* no other thread gives it more to do.
THEOREM CallsTakeFewSteps ==
    Spec => [][/\ Starts => \A u \in Users :
                     \/ StepsLeft(u)' = StepsLeft(u)
                     \/ stage[u] = "idle" /\ StepsLeft(u)' <= 13
               /\ \A u \in Users : Continues(u) =>
                     /\ ~WriteCallback(u) =>
                           StepsLeft(u)' \in Nat /\ StepsLeft(u)' < StepsLeft(u)
                     /\ WriteCallback(u) => StepsLeft(u)' = StepsLeft(u)
                     /\ \A v \in Users \ {u} : StepsLeft(v)' = StepsLeft(v)]_vars
  <1> DEFINE Few ==
        /\ Starts => \A u \in Users :
              \/ StepsLeft(u)' = StepsLeft(u)
              \/ stage[u] = "idle" /\ StepsLeft(u)' <= 13
        /\ \A u \in Users : Continues(u) =>
              /\ ~WriteCallback(u) => StepsLeft(u)' \in Nat /\ StepsLeft(u)' < StepsLeft(u)
              /\ WriteCallback(u) => StepsLeft(u)' = StepsLeft(u)
              /\ \A v \in Users \ {u} : StepsLeft(v)' = StepsLeft(v)
  <1>1. Typed => [Few]_vars
    <2> SUFFICES ASSUME Typed PROVE Few
      OBVIOUS
    <2>1. Starts => \A u \in Users :
              \/ StepsLeft(u)' = StepsLeft(u)
              \/ stage[u] = "idle" /\ StepsLeft(u)' <= 13
      BY StartsSteps
    <2>2. ASSUME NEW u \in Users, Continues(u)
          PROVE  /\ ~WriteCallback(u) =>
                       StepsLeft(u)' \in Nat /\ StepsLeft(u)' < StepsLeft(u)
                 /\ WriteCallback(u) => StepsLeft(u)' = StepsLeft(u)
                 /\ \A v \in Users \ {u} : StepsLeft(v)' = StepsLeft(v)
      <3>1. ~WriteCallback(u) => StepsLeft(u)' \in Nat /\ StepsLeft(u)' < StepsLeft(u)
        BY <2>2, CallGoesOn
      <3>2. WriteCallback(u) => StepsLeft(u)' = StepsLeft(u)
        BY DEF WriteCallback, StepsLeft
      <3>3. \A v \in Users \ {u} : StepsLeft(v)' = StepsLeft(v)
        BY <2>2, OthersKeepSteps
      <3>4. QED
        BY <3>1, <3>2, <3>3
    <2>3. QED
      BY <2>1, <2>2
  <1>2. QED
    BY <1>1, TypedInit, TypedNext, PTL DEF Spec
=============================================================================
