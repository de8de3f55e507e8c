----------------------------- MODULE Base64Proofs -----------------------------
(***************************************************************************)
(* Theorems about Base64, for messages and texts of every length:          *)
(* base64_decode gives back what base64_encode was given, base64_encode    *)
(* writes what RFC 4648 says, and base64_decode reads any text as far as   *)
(* it is letters.                                                          *)
(***************************************************************************)
EXTENDS Base64, SequenceTheorems, TLAPS

Octet == 0 .. 255

\* Group p of a message, filled up with zeros as EncodeRest does.
Triple(m, p) == [j \in 1 .. 3 |-> IF 3 * p + j <= Len(m) THEN m[3 * p + j] ELSE 0]

\* The letters of the first q groups of m are in t.
Groups(m, t, q) ==
    \A p \in 0 .. q - 1 : \A j \in 1 .. 4 : t[4 * p + j] = Sextets(Triple(m, p))[j]

\* t is the encoding of m, which has q groups of three and r bytes more.
Encodes(m, t, q, r) ==
    /\ Len(m) = 3 * q + r
    /\ Len(t) = 4 * q + (IF r = 0 THEN 0 ELSE 4)
    /\ Groups(m, t, q)
    /\ r > 0 =>
          /\ t[4 * q + 1] = Sextets(Triple(m, q))[1]
          /\ t[4 * q + 2] = Sextets(Triple(m, q))[2]
          /\ t[4 * q + 3] = IF r = 2 THEN Sextets(Triple(m, q))[3] ELSE Equals
          /\ t[4 * q + 4] = Equals

-----------------------------------------------------------------------------
(***************************************************************************)
(* Arithmetic of one group.                                                *)
(***************************************************************************)
LEMMA SextetRange ==
    ASSUME NEW a \in [1 .. 3 -> Octet]
    PROVE  \A j \in 1 .. 4 : Sextets(a)[j] \in 0 .. 63
  <1>1. a[1] \in 0 .. 255 /\ a[2] \in 0 .. 255 /\ a[3] \in 0 .. 255
    BY DEF Octet
  <1>2. /\ Sextets(a)[1] \in 0 .. 63 /\ Sextets(a)[2] \in 0 .. 63
        /\ Sextets(a)[3] \in 0 .. 63 /\ Sextets(a)[4] \in 0 .. 63
    BY <1>1 DEF Sextets
  <1> HIDE DEF Sextets
  <1>3. QED
    BY <1>2

\* A letter is found at its own index.
LEMMA FindLetter == \A x \in 0 .. 63 : Find(x) = x
  BY DEF Find

\* A byte comes back from the two letters its bits are in.
LEMMA FirstByte ==
    ASSUME NEW a \in 0 .. 255, NEW b \in 0 .. 255
    PROVE  (((a \div 4) * 4) + (((((a % 4) * 16) + b \div 16) \div 16) % 4)) % 256 = a
  <1>1. b \div 16 \in 0 .. 15 /\ a % 4 \in 0 .. 3
    OBVIOUS
  <1>2. (((a % 4) * 16) + b \div 16) \div 16 = a % 4
    BY <1>1
  <1>3. QED
    BY <1>1, <1>2

\* The third byte comes back from its two letters.
LEMMA ThirdByte ==
    ASSUME NEW b \in 0 .. 255, NEW c \in 0 .. 255
    PROVE  ((((((b % 16) * 4) + c \div 64) % 4) * 64) + (c % 64)) % 256 = c
  <1>1. c \div 64 \in 0 .. 3 /\ b % 16 \in 0 .. 15
    OBVIOUS
  <1>2. (((b % 16) * 4) + c \div 64) % 4 = c \div 64
    BY <1>1
  <1>3. c % 64 \in 0 .. 63 /\ c = 64 * (c \div 64) + (c % 64)
    OBVIOUS
  <1> DEFINE h == c \div 64
             l == c % 64
  <1>4. ((h * 64) + l) % 256 = c
    <2> HIDE DEF h, l
    <2>1. h \in 0 .. 3 /\ l \in 0 .. 63 /\ c = 64 * h + l
      BY <1>1, <1>3 DEF h, l
    <2>2. QED
      BY <2>1
  <1>5. QED
    BY <1>2, <1>4

-----------------------------------------------------------------------------
(***************************************************************************)
(* Short sequences.                                                        *)
(***************************************************************************)
LEMMA FunctionIsSeq ==
    ASSUME NEW S, NEW n \in Nat, NEW f \in [1 .. n -> S]
    PROVE  f \in Seq(S) /\ Len(f) = n
  <1>1. f \in Seq(S)
    BY SeqDef
  <1>2. QED
    BY <1>1, LenProperties

\* A filled-up group has n elements: the group's, then the filler.
LEMMA FilledIsSeq ==
    ASSUME NEW S, group \in Seq(S), NEW n \in Nat, NEW c \in S
    PROVE  /\ Filled(n, c) \in [1 .. n -> S]
           /\ \A k \in 1 .. n : Filled(n, c)[k] = IF k <= Len(group) THEN group[k] ELSE c
  <1>1. Len(group) \in Nat /\ group \in [1 .. Len(group) -> S]
    BY LenProperties
  <1>2. ASSUME NEW k \in 1 .. n
        PROVE  (IF k <= Len(group) THEN group[k] ELSE c) \in S
    BY <1>1
  <1>3. QED
    BY <1>2 DEF Filled

\* Three bytes give four letters.
LEMMA SextetsIsSeq ==
    ASSUME NEW a \in [1 .. 3 -> Octet]
    PROVE  Sextets(a) \in Seq(Octet) /\ Len(Sextets(a)) = 4
  <1>1. \A i \in 1 .. 4 : Sextets(a)[i] \in Octet
    <2>1. \A i \in 1 .. 4 : Sextets(a)[i] \in 0 .. 63
      BY SextetRange
    <2>2. QED
      BY <2>1 DEF Octet
  <1>2. Sextets(a) = [i \in 1 .. 4 |-> Sextets(a)[i]]
    BY DEF Sextets
  <1>3. Sextets(a) \in [1 .. 4 -> Octet]
    BY <1>1, <1>2
  <1>4. QED
    BY <1>3, FunctionIsSeq

\* Four indices give three bytes.
LEMMA OctetsIsSeq ==
    ASSUME NEW c \in [1 .. 4 -> Octet]
    PROVE  Octets(c) \in [1 .. 3 -> Octet] /\ Octets(c) \in Seq(Octet) /\ Len(Octets(c)) = 3
  <1>1. \A i \in {1, 2, 3} : Octets(c)[i] \in Octet
    <2>1. c[1] \in Octet /\ c[2] \in Octet /\ c[3] \in Octet /\ c[4] \in Octet
      OBVIOUS
    <2>2. QED
      BY <2>1 DEF Octets, Octet
  <1>2. Octets(c) = [i \in 1 .. 3 |-> Octets(c)[i]]
    BY DEF Octets
  <1>3. Octets(c) \in [1 .. 3 -> Octet]
    BY <1>1, <1>2
  <1>4. QED
    BY <1>3, FunctionIsSeq

\* The indices of a group are unsigned chars.
LEMMA FoundType ==
    ASSUME NEW g \in [1 .. 4 -> Octet]
    PROVE  [k \in 1 .. 4 |-> Find(g[k])] \in [1 .. 4 -> Octet]
  BY DEF Find, Octet

\* What a concatenation has at each place.
LEMMA ConcatAt ==
    ASSUME NEW S, NEW s \in Seq(S), NEW t \in Seq(S)
    PROVE  /\ s \o t \in Seq(S)
           /\ Len(s \o t) = Len(s) + Len(t)
           /\ \A k \in 1 .. Len(s) : (s \o t)[k] = s[k]
           /\ \A k \in 1 .. Len(t) : (s \o t)[Len(s) + k] = t[k]
  <1>1. Len(s) \in Nat /\ Len(t) \in Nat
    OBVIOUS
  <1>2. ASSUME NEW k \in 1 .. Len(t)
        PROVE  (s \o t)[Len(s) + k] = t[k]
    <2>1. Len(s) + k \in 1 .. Len(s) + Len(t) /\ ~(Len(s) + k <= Len(s))
          /\ Len(s) + k - Len(s) = k
      BY <1>1
    <2>2. QED
      BY <2>1, ConcatProperties
  <1>3. ASSUME NEW k \in 1 .. Len(s)
        PROVE  (s \o t)[k] = s[k]
    <2>1. k \in 1 .. Len(s) + Len(t) /\ k <= Len(s)
      BY <1>1
    <2>2. QED
      BY <2>1, ConcatProperties
  <1>4. QED
    BY <1>2, <1>3, ConcatProperties

Typed ==
    /\ message \in Seq(Octet) /\ input \in Seq(Octet)
    /\ group \in Seq(Octet) /\ ret \in Seq(Octet)
    /\ in_ \in 0 .. Len(input)

LEMMA TypesAreOctets == TypeOK => Typed
  BY DEF TypeOK, Typed, Octet

\* ConcatAt for the result and a chunk of known length.
LEMMA RetConcat ==
    ASSUME Typed, NEW t \in Seq(Octet), NEW n \in Nat, Len(t) = n
    PROVE  /\ ret \o t \in Seq(Octet) /\ Len(ret \o t) = Len(ret) + n
           /\ \A k \in 1 .. Len(ret) : (ret \o t)[k] = ret[k]
           /\ \A k \in 1 .. n : (ret \o t)[Len(ret) + k] = t[k]
  <1>1. ret \in Seq(Octet)
    BY DEF Typed
  <1>2. ret \o t \in Seq(Octet)
    BY <1>1, ConcatAt
  <1>3. Len(ret \o t) = Len(ret) + n
    BY <1>1, ConcatAt
  <1>4. \A k \in 1 .. Len(ret) : (ret \o t)[k] = ret[k]
    BY <1>1, ConcatAt
  <1>5. \A k \in 1 .. n : (ret \o t)[Len(ret) + k] = t[k]
    BY <1>1, ConcatAt
  <1>6. QED
    BY <1>2, <1>3, <1>4, <1>5

-----------------------------------------------------------------------------
(***************************************************************************)
(* What each step does to sequences of octets.                             *)
(***************************************************************************)
\* Both loops gather one more character ...
LEMMA Gathers ==
    ASSUME Typed, in_ < Len(input)
    PROVE  LET g == Append(group, input[in_ + 1]) IN
           /\ g \in Seq(Octet) /\ Len(g) = Len(group) + 1
           /\ g \in [1 .. Len(g) -> Octet]
           /\ \A k \in 1 .. Len(group) : g[k] = group[k]
           /\ g[Len(group) + 1] = input[in_ + 1]
  <1> DEFINE x == input[in_ + 1]
  <1>1. in_ + 1 \in 1 .. Len(input)
    BY DEF Typed
  <1>2. x \in Octet
    BY <1>1, ElementOfSeq DEF Typed
  <1> HIDE DEF x
  <1>3. /\ Append(group, x) \in Seq(Octet) /\ Len(Append(group, x)) = Len(group) + 1
        /\ \A k \in 1 .. Len(group) : Append(group, x)[k] = group[k]
        /\ Append(group, x)[Len(group) + 1] = x
    BY <1>2, AppendProperties DEF Typed
  <1>4. Append(group, x) \in [1 .. Len(Append(group, x)) -> Octet]
    BY <1>3, LenProperties
  <1>5. QED
    BY <1>3, <1>4 DEF x

\* ... and write a full group.
LEMMA WritesLetters ==
    ASSUME Typed, NEW g \in [1 .. 3 -> Octet]
    PROVE  LET r == ret \o Sextets(g) IN
           /\ r \in Seq(Octet) /\ Len(r) = Len(ret) + 4
           /\ \A k \in 1 .. Len(ret) : r[k] = ret[k]
           /\ \A k \in 1 .. 4 : r[Len(ret) + k] = Sextets(g)[k]
  <1> DEFINE t == Sextets(g)
  <1>1. t \in Seq(Octet) /\ Len(t) = 4
    BY SextetsIsSeq
  <1> HIDE DEF t
  <1>2. /\ ret \o t \in Seq(Octet) /\ Len(ret \o t) = Len(ret) + 4
        /\ \A k \in 1 .. Len(ret) : (ret \o t)[k] = ret[k]
        /\ \A k \in 1 .. 4 : (ret \o t)[Len(ret) + k] = t[k]
    BY <1>1, RetConcat
  <1>3. QED
    BY <1>2 DEF t

\* A decoded group adds its three bytes to the result and changes none before.
LEMMA WritesBytes ==
    ASSUME Typed, NEW g \in [1 .. 4 -> Octet]
    PROVE  LET c == [k \in 1 .. 4 |-> Find(g[k])]
               r == ret \o Octets(c) IN
           /\ r \in Seq(Octet) /\ Len(r) = Len(ret) + 3
           /\ \A k \in 1 .. Len(ret) : r[k] = ret[k]
           /\ \A k \in 1 .. 3 : r[Len(ret) + k] = Octets(c)[k]
  <1> DEFINE t == Octets([k \in 1 .. 4 |-> Find(g[k])])
  <1>1. t \in Seq(Octet) /\ Len(t) = 3
    BY FoundType, OctetsIsSeq
  <1> HIDE DEF t
  <1>2. /\ ret \o t \in Seq(Octet) /\ Len(ret \o t) = Len(ret) + 3
        /\ \A k \in 1 .. Len(ret) : (ret \o t)[k] = ret[k]
        /\ \A k \in 1 .. 3 : (ret \o t)[Len(ret) + k] = t[k]
    BY <1>1, RetConcat
  <1>3. QED
    BY <1>2 DEF t

\* What EncodeRest writes of an incomplete group of i bytes ...
LEMMA PadsLetters ==
    ASSUME Typed, NEW i \in {1, 2}, Len(group) = i
    PROVE  LET a == Sextets(Filled(3, 0))
               r == ret \o SubSeq(a, 1, LettersOfRest(i)) \o [k \in 1 .. 3 - i |-> Equals] IN
           /\ r \in Seq(Octet) /\ Len(r) = Len(ret) + 4
           /\ \A k \in 1 .. Len(ret) : r[k] = ret[k]
           /\ \A k \in 1 .. i + 1 : r[Len(ret) + k] = a[k]
           /\ \A k \in i + 2 .. 4 : r[Len(ret) + k] = Equals
  <1> DEFINE a == Sextets(Filled(3, 0))
             b == SubSeq(a, 1, i + 1)
             e == [k \in 1 .. 3 - i |-> Equals]
             n == Len(ret)
  <1>0. n \in Nat
    BY DEF Typed
  <1>1. a \in Seq(Octet) /\ Len(a) = 4
    <2>1. 0 \in Octet
      BY DEF Octet
    <2>2. Filled(3, 0) \in [1 .. 3 -> Octet]
      BY <2>1, FilledIsSeq DEF Typed
    <2>3. QED
      BY <2>2, SextetsIsSeq
  <1> HIDE DEF a
  <1>2. b \in Seq(Octet) /\ Len(b) = i + 1 /\ \A k \in 1 .. i + 1 : b[k] = a[k]
    <2>1. ASSUME NEW k \in 1 .. i + 1 PROVE a[k] \in Octet
      <3>1. k \in 1 .. Len(a)
        BY <1>1
      <3>2. QED
        BY <1>1, <3>1, ElementOfSeq
    <2>2. /\ b \in Seq(Octet)
          /\ Len(b) = IF 1 <= i + 1 THEN (i + 1) - 1 + 1 ELSE 0
          /\ \A k \in 1 .. (i + 1) - 1 + 1 : b[k] = a[1 + k - 1]
      BY <2>1, SubSeqProperties
    <2>3. QED
      BY <2>2
  <1> HIDE DEF b
  <1>3. e \in Seq(Octet) /\ Len(e) = 3 - i /\ \A k \in 1 .. 3 - i : e[k] = Equals
    <2>1. e \in [1 .. 3 - i -> Octet] /\ 3 - i \in Nat
      BY DEF Equals, Octet
    <2>2. QED
      BY <2>1, FunctionIsSeq
  <1> HIDE DEF e
  <1>4. /\ ret \o b \in Seq(Octet) /\ Len(ret \o b) = n + i + 1
        /\ \A k \in 1 .. n : (ret \o b)[k] = ret[k]
        /\ \A k \in 1 .. i + 1 : (ret \o b)[n + k] = a[k]
    BY <1>2, ConcatAt DEF Typed
  <1>5. /\ (ret \o b) \o e \in Seq(Octet) /\ Len((ret \o b) \o e) = (n + i + 1) + (3 - i)
        /\ \A k \in 1 .. n + i + 1 : ((ret \o b) \o e)[k] = (ret \o b)[k]
        /\ \A k \in 1 .. 3 - i : ((ret \o b) \o e)[n + i + 1 + k] = Equals
    BY <1>3, <1>4, ConcatAt
  <1>6. ASSUME NEW k \in i + 2 .. 4
        PROVE  ((ret \o b) \o e)[n + k] = Equals
    <2>1. k - (i + 1) \in 1 .. 3 - i /\ n + i + 1 + (k - (i + 1)) = n + k
      BY <1>0
    <2>2. QED
      BY <1>5, <2>1
  <1>7. \A k \in 1 .. n : ((ret \o b) \o e)[k] = ret[k]
    BY <1>0, <1>4, <1>5
  <1>8. ASSUME NEW k \in 1 .. i + 1
        PROVE  ((ret \o b) \o e)[n + k] = a[k]
    <2>1. n + k \in 1 .. n + i + 1
      BY <1>0
    <2>2. QED
      BY <1>4, <1>5, <2>1
  <1>9. Len((ret \o b) \o e) = n + 4
    BY <1>0, <1>5
  <1> DEFINE r == ret \o b \o e
  <1> HIDE DEF r
  <1>10. /\ r \in Seq(Octet) /\ Len(r) = n + 4
         /\ \A k \in 1 .. n : r[k] = ret[k]
         /\ \A k \in 1 .. i + 1 : r[n + k] = a[k]
         /\ \A k \in i + 2 .. 4 : r[n + k] = Equals
    BY <1>5, <1>6, <1>7, <1>8, <1>9 DEF r
  <1>11. QED
    BY <1>10 DEF r, a, b, e, LettersOfRest

\* ... and DecodeRest of one of i letters.
LEMMA WritesRest ==
    ASSUME Typed, NEW i \in {1, 2, 3}, Len(group) = i
    PROVE  LET last == Filled(4, Foreign)
               a == Octets([k \in 1 .. 4 |-> Find(last[k])])
               r == ret \o SubSeq(a, 1, BytesOfRest(i)) IN
           /\ r \in Seq(Octet) /\ Len(r) = Len(ret) + (i - 1)
           /\ \A k \in 1 .. Len(ret) : r[k] = ret[k]
           /\ \A k \in 1 .. i - 1 : r[Len(ret) + k] = a[k]
  <1> DEFINE last == Filled(4, Foreign)
             a == Octets([k \in 1 .. 4 |-> Find(last[k])])
             b == SubSeq(a, 1, i - 1)
  <1>1. a \in Seq(Octet) /\ Len(a) = 3
    <2>1. Foreign \in Octet
      BY DEF Octet, Foreign
    <2>2. last \in [1 .. 4 -> Octet]
      BY <2>1, FilledIsSeq DEF Typed
    <2> HIDE DEF last
    <2>3. QED
      BY <2>2, FoundType, OctetsIsSeq
  <1> HIDE DEF a
  <1>2. b \in Seq(Octet) /\ Len(b) = i - 1 /\ \A k \in 1 .. i - 1 : b[k] = a[k]
    <2>1. ASSUME NEW k \in 1 .. i - 1 PROVE a[k] \in Octet
      <3>1. k \in 1 .. Len(a)
        BY <1>1
      <3>2. QED
        BY <1>1, <3>1, ElementOfSeq
    <2>2. /\ b \in Seq(Octet)
          /\ Len(b) = IF 1 <= i - 1 THEN (i - 1) - 1 + 1 ELSE 0
          /\ \A k \in 1 .. (i - 1) - 1 + 1 : b[k] = a[1 + k - 1]
      BY <2>1, SubSeqProperties
    <2>3. QED
      BY <2>2
  <1> HIDE DEF b
  <1>3. /\ ret \o b \in Seq(Octet) /\ Len(ret \o b) = Len(ret) + (i - 1)
        /\ \A k \in 1 .. Len(ret) : (ret \o b)[k] = ret[k]
        /\ \A k \in 1 .. i - 1 : (ret \o b)[Len(ret) + k] = a[k]
    BY <1>2, RetConcat
  <1>4. QED
    BY <1>3 DEF a, b, BytesOfRest
-----------------------------------------------------------------------------
(***************************************************************************)
(* Types.                                                                  *)
(***************************************************************************)
LEMMA SmallNumbers ==
    /\ \A n \in Nat : n # 0 /\ n <= 2 => n \in {1, 2}
    /\ \A n \in Nat : n # 0 /\ n <= 3 => n \in {1, 2, 3}
    /\ \A n \in Nat : n <= 2 => n \in 0 .. 2
    /\ \A n \in Nat : n <= 3 => n \in 0 .. 3
    /\ \A n \in Nat : n + 1 = 3 => n = 2
    /\ \A n \in Nat : n + 1 = 4 => n = 3
  OBVIOUS

LEMMA TypeInit == Init => TypeOK
  <1> SUFFICES ASSUME Init PROVE TypeOK
    OBVIOUS
  <1>1. ASSUME NEW S \in SUBSET Octet, NEW x \in SeqUpTo(S, MaxLength)
        PROVE  x \in Seq(Octet)
    <2>1. PICK k \in 0 .. MaxLength : x \in [1 .. k -> S]
      BY <1>1 DEF SeqUpTo
    <2>2. k \in Nat /\ x \in [1 .. k -> Octet]
      BY <2>1, Base64Assumption
    <2>3. QED
      BY <2>2, FunctionIsSeq
  <1>2. (Letters \cup {Equals, Foreign}) \in SUBSET Octet /\ Bytes \in SUBSET Octet
    BY Base64Assumption DEF Equals, Foreign, Octet
  <1>3. <<>> \in Seq(Octet)
    BY EmptySeq
  <1>4. message \in Seq(Octet) /\ input \in Seq(Octet)
    BY <1>1, <1>2, <1>3 DEF Init
  <1>5. group \in Seq(Octet) /\ ret \in Seq(Octet) /\ Len(group) = 0
    BY <1>3, EmptySeq DEF Init
  <1>6. in_ \in 0 .. Len(input)
    BY <1>4 DEF Init
  <1>7. QED
    BY <1>4, <1>5, <1>6 DEF Init, TypeOK, Octet

LEMMA TypeNext == TypeOK /\ [Next]_vars => TypeOK'
  <1> SUFFICES ASSUME TypeOK, [Next]_vars PROVE TypeOK'
    OBVIOUS
  <1>0. /\ Typed
        /\ Len(group) \in Nat /\ Len(input) \in Nat /\ in_ \in Nat
        /\ doing \in {"encode", "encoded"} => Len(group) <= 2
        /\ Len(group) <= 3
    BY TypesAreOctets DEF TypeOK
  \* It is enough to keep the sequences, the index and the group's room.
  <1>a. ASSUME Typed', doing' \in {"encode", "encoded", "decode", "decoded"},
               Len(group') <= (IF doing' \in {"encode", "encoded"} THEN 2 ELSE 3)
        PROVE  TypeOK'
    BY <1>a DEF Typed, TypeOK, Octet
  <1>b. <<>> \in Seq(Octet) /\ Len(<<>>) = 0
    BY EmptySeq
  <1>1. CASE EncodeByte
    <2> DEFINE g == Append(group, input[in_ + 1])
    <2>1. /\ in_ < Len(input) /\ doing = "encode" /\ in_' = in_ + 1
          /\ UNCHANGED <<doing, message, input>>
      BY <1>1 DEF EncodeByte
    <2>2. g \in Seq(Octet) /\ Len(g) = Len(group) + 1 /\ g \in [1 .. Len(g) -> Octet]
      BY <1>0, <2>1, Gathers
    <2>3. CASE Len(g) = 3
      <3>1. ret' = ret \o Sextets(g) /\ group' = <<>>
        BY <1>1, <2>3 DEF EncodeByte, Full
      <3> HIDE DEF g
      <3>2. ret' \in Seq(Octet)
        BY <1>0, <2>2, <2>3, <3>1, WritesLetters
      <3>3. QED
        BY <1>0, <1>a, <1>b, <2>1, <3>1, <3>2 DEF Typed
    <2>4. CASE Len(g) # 3
      <3>1. ret' = ret /\ group' = g
        BY <1>1, <2>4 DEF EncodeByte, Full
      <3> HIDE DEF g
      <3>2. Len(g) <= 2
        BY <1>0, <2>1, <2>2, <2>4
      <3>3. QED
        BY <1>0, <1>a, <2>1, <2>2, <3>1, <3>2 DEF Typed
    <2>5. QED
      BY <2>3, <2>4
  <1>2. CASE EncodeRest
    <2>1. /\ doing = "encode" /\ doing' = "encoded"
          /\ UNCHANGED <<message, input, in_, group>>
      BY <1>2 DEF EncodeRest
    <2>2. ret' \in Seq(Octet)
      <3>1. CASE Len(group) = 0
        BY <1>0, <1>2, <3>1 DEF EncodeRest, Typed
      <3>2. CASE Len(group) # 0
        <4>1. Len(group) \in {1, 2}
          BY <1>0, <2>1, <3>2, SmallNumbers
        <4>2. ret' = ret \o SubSeq(Sextets(Filled(3, 0)), 1, LettersOfRest(Len(group)))
                        \o [k \in 1 .. 3 - Len(group) |-> Equals]
          BY <1>2, <3>2 DEF EncodeRest
        <4>3. QED
          BY <1>0, <4>1, <4>2, PadsLetters
      <3>3. QED
        BY <3>1, <3>2
    <2>3. QED
      BY <1>0, <1>a, <2>1, <2>2 DEF Typed
  <1>3. CASE Decode
    BY <1>0, <1>3, <1>a, <1>b DEF Decode, Typed
  <1>4. CASE DecodeLetter
    <2> DEFINE g == Append(group, input[in_ + 1])
    <2>1. /\ in_ < Len(input) /\ doing = "decode" /\ in_' = in_ + 1
          /\ UNCHANGED <<doing, message, input>>
      BY <1>4 DEF DecodeLetter, MoreLetters
    <2>2. g \in Seq(Octet) /\ Len(g) = Len(group) + 1 /\ g \in [1 .. Len(g) -> Octet]
      BY <1>0, <2>1, Gathers
    <2>3. CASE Len(g) = 4
      <3>1. ret' = ret \o Octets([k \in 1 .. 4 |-> Find(g[k])]) /\ group' = <<>>
        BY <1>4, <2>3 DEF DecodeLetter, Full
      <3> HIDE DEF g
      <3>2. ret' \in Seq(Octet)
        BY <1>0, <2>2, <2>3, <3>1, WritesBytes
      <3>3. QED
        BY <1>0, <1>a, <1>b, <2>1, <3>1, <3>2 DEF Typed
    <2>4. CASE Len(g) # 4
      <3>1. ret' = ret /\ group' = g
        BY <1>4, <2>4 DEF DecodeLetter, Full
      <3> HIDE DEF g
      <3>2. Len(g) <= 3
        BY <1>0, <2>1, <2>2, <2>4
      <3>3. QED
        BY <1>0, <1>a, <2>1, <2>2, <3>1, <3>2 DEF Typed
    <2>5. QED
      BY <2>3, <2>4
  <1>5. CASE DecodeRest
    <2>1. /\ doing = "decode" /\ doing' = "decoded"
          /\ UNCHANGED <<message, input, in_, group>>
      BY <1>5 DEF DecodeRest
    <2>2. ret' \in Seq(Octet)
      <3>1. CASE Len(group) = 0
        BY <1>0, <1>5, <3>1 DEF DecodeRest, Typed
      <3>2. CASE Len(group) # 0
        <4>1. Len(group) \in {1, 2, 3}
          BY <1>0, <2>1, <3>2, SmallNumbers
        <4>2. ret' = ret \o SubSeq(Octets([k \in 1 .. 4 |-> Find(Filled(4, Foreign)[k])]),
                                   1, BytesOfRest(Len(group)))
          BY <1>5, <3>2 DEF DecodeRest
        <4>3. QED
          BY <1>0, <4>1, <4>2, WritesRest
      <3>3. QED
        BY <3>1, <3>2
    <2>3. QED
      BY <1>0, <1>a, <2>1, <2>2 DEF Typed
  <1>6. CASE UNCHANGED vars
    BY <1>6 DEF vars, TypeOK
  <1>7. QED
    BY <1>1, <1>2, <1>3, <1>4, <1>5, <1>6 DEF Next

\* Every variable of Base64 keeps its type, and no array is overrun: a group
\* never holds more than char_array_3, char_array_4 have room for.
THEOREM Base64TypeCorrect == Spec => []TypeOK
  BY TypeInit, TypeNext, PTL DEF Spec
-----------------------------------------------------------------------------
(***************************************************************************)
(* The round trip.  Letters are compared with those of whole groups of the *)
(* message, filled up with zeros.                                          *)
(***************************************************************************)
LEMMA TripleType ==
    ASSUME NEW m \in Seq(Octet), NEW p \in Nat
    PROVE  Triple(m, p) \in [1 .. 3 -> Octet]
  <1>1. ASSUME NEW j \in 1 .. 3
        PROVE  (IF 3 * p + j <= Len(m) THEN m[3 * p + j] ELSE 0) \in Octet
    <2>1. CASE 3 * p + j <= Len(m)
      <3>1. 3 * p + j \in 1 .. Len(m)
        BY <2>1
      <3>2. QED
        BY <2>1, <3>1, ElementOfSeq
    <2>2. CASE ~(3 * p + j <= Len(m))
      BY <2>2 DEF Octet
    <2>3. QED
      BY <2>1, <2>2
  <1>2. QED
    BY <1>1 DEF Triple

\* Two, three and four letters of a group give back one, two and three bytes.
LEMMA OctetsOfSextets ==
    ASSUME NEW a \in [1 .. 3 -> Octet], NEW c \in [1 .. 4 -> Octet],
           c[1] = Sextets(a)[1], c[2] = Sextets(a)[2]
    PROVE  /\ Octets(c)[1] = a[1]
           /\ c[3] = Sextets(a)[3] => Octets(c)[2] = a[2]
           /\ c[3] = Sextets(a)[3] /\ c[4] = Sextets(a)[4] => Octets(c)[3] = a[3]
  <1>1. a[1] \in 0 .. 255 /\ a[2] \in 0 .. 255 /\ a[3] \in 0 .. 255
    BY DEF Octet
  <1>2. /\ c[1] = a[1] \div 4
        /\ c[2] = ((a[1] % 4) * 16) + a[2] \div 16
        /\ c[3] = Sextets(a)[3] => c[3] = ((a[2] % 16) * 4) + a[3] \div 64
        /\ c[4] = Sextets(a)[4] => c[4] = a[3] % 64
    BY DEF Sextets
  <1>3. /\ Octets(c)[1] = ((c[1] * 4) + ((c[2] \div 16) % 4)) % 256
        /\ Octets(c)[2] = (((c[2] % 16) * 16) + ((c[3] \div 4) % 16)) % 256
        /\ Octets(c)[3] = (((c[3] % 4) * 64) + c[4]) % 256
    BY DEF Octets
  <1> HIDE DEF Octets, Sextets
  <1>4. Octets(c)[1] = a[1]
    BY <1>1, <1>2, <1>3, FirstByte
  <1>5. c[3] = Sextets(a)[3] => Octets(c)[2] = a[2]
    <2>1. SUFFICES ASSUME c[3] = Sextets(a)[3] PROVE Octets(c)[2] = a[2]
      OBVIOUS
    <2>2. c[2] = ((a[1] % 4) * 16) + a[2] \div 16 /\ c[3] = ((a[2] % 16) * 4) + a[3] \div 64
      BY <1>2, <2>1
    <2> DEFINE u == a[1]
               v == a[2]
               w == a[3]
               x == c[2]
               y == c[3]
    <2>3. /\ u \in 0 .. 255 /\ v \in 0 .. 255 /\ w \in 0 .. 255
          /\ x = ((u % 4) * 16) + v \div 16 /\ y = ((v % 16) * 4) + w \div 64
      BY <1>1, <2>2
    <2> HIDE DEF u, v, w, x, y
    <2>4. (((x % 16) * 16) + ((y \div 4) % 16)) % 256 = v
      <3>1. v \div 16 \in 0 .. 15 /\ u % 4 \in 0 .. 3 /\ w \div 64 \in 0 .. 3 /\ v % 16 \in 0 .. 15
        BY <2>3
      <3>2. x % 16 = v \div 16
        BY <2>3, <3>1
      <3>3. y \div 4 = v % 16
        BY <2>3, <3>1
      <3>4. QED
        BY <2>3, <3>1, <3>2, <3>3
    <2>5. QED
      BY <1>3, <2>4 DEF v, x, y
  <1>6. c[3] = Sextets(a)[3] /\ c[4] = Sextets(a)[4] => Octets(c)[3] = a[3]
    BY <1>1, <1>2, <1>3, ThirdByte
  <1>7. QED
    BY <1>4, <1>5, <1>6

\* While base64_encode reads: the whole groups read so far are written.
EncodesSoFar(q) ==
    /\ in_ = 3 * q + Len(group)
    /\ Len(ret) = 4 * q
    /\ \A j \in 1 .. Len(group) : group[j] = message[3 * q + j]
    /\ Groups(message, ret, q)

\* While base64_decode reads the encoding of the message: p of its q groups
\* have given their bytes, and letters of the next are at hand.
DecodesSoFar(q, r, p) ==
    /\ Encodes(message, input, q, r)
    /\ p <= q
    /\ in_ = 4 * p + Len(group)
    /\ Len(ret) = 3 * p
    /\ \A j \in 1 .. Len(group) : group[j] = input[4 * p + j] /\ IsBase64(group[j])
    /\ \A k \in 1 .. 3 * p : ret[k] = message[k]

IInv ==
    /\ TypeOK
    /\ doing = "encode" => input = message /\ \E q \in Nat : EncodesSoFar(q)
    /\ doing = "encoded" => \E q \in Nat, r \in 0 .. 2 : Encodes(message, ret, q, r)
    /\ doing = "decode" /\ message # <<>> =>
          \E q \in Nat, r \in 0 .. 2, p \in Nat : DecodesSoFar(q, r, p)
    /\ RoundTrip

LEMMA IInvInit == Init => IInv
  <1> SUFFICES ASSUME Init PROVE IInv
    OBVIOUS
  <1>1. TypeOK
    BY TypeInit
  <1>2. doing = "encode" => EncodesSoFar(0) /\ input = message
    BY EmptySeq DEF Init, EncodesSoFar, Groups
  <1>3. doing \in {"encode", "decode"} /\ (doing = "decode" => message = <<>>)
    BY DEF Init
  <1>4. QED
    BY <1>1, <1>2, <1>3 DEF IInv, RoundTrip

LEMMA EncodeByteStep ==
    ASSUME IInv, EncodeByte
    PROVE  \E q \in Nat : EncodesSoFar(q)'
  <1> DEFINE g == Append(group, input[in_ + 1])
  <1>1. /\ in_ < Len(input) /\ doing = "encode" /\ in_' = in_ + 1
        /\ UNCHANGED <<doing, message, input>>
    BY DEF EncodeByte
  <1>2. Typed /\ Len(group) \in Nat /\ Len(group) <= 2 /\ input = message
        /\ Len(message) \in Nat /\ message \in Seq(Octet)
    BY <1>1, TypesAreOctets DEF IInv, TypeOK, Typed
  <1>3. PICK q \in Nat : EncodesSoFar(q)
    BY <1>1 DEF IInv
  <1>4. /\ g \in Seq(Octet) /\ Len(g) = Len(group) + 1 /\ g \in [1 .. Len(g) -> Octet]
        /\ \A k \in 1 .. Len(group) : g[k] = group[k]
        /\ g[Len(group) + 1] = input[in_ + 1]
    BY <1>1, <1>2, Gathers
  <1> HIDE DEF g
  <1>5. \A j \in 1 .. Len(g) : g[j] = message[3 * q + j]
    <2>1. \A j \in 1 .. Len(group) : g[j] = message[3 * q + j]
      BY <1>3, <1>4 DEF EncodesSoFar
    <2>2. g[Len(group) + 1] = message[3 * q + (Len(group) + 1)]
      <3>1. in_ + 1 = 3 * q + (Len(group) + 1)
        BY <1>2, <1>3 DEF EncodesSoFar
      <3>2. QED
        BY <1>2, <1>4, <3>1
    <2>3. QED
      BY <1>2, <1>4, <2>1, <2>2
  <1>6. CASE Len(g) # 3
    <2>1. ret' = ret /\ group' = g
      BY <1>6 DEF EncodeByte, Full, g
    <2>2. in_' = 3 * q + Len(g)
      BY <1>1, <1>2, <1>3, <1>4 DEF EncodesSoFar
    <2>3. EncodesSoFar(q)'
      BY <1>1, <1>3, <1>5, <2>1, <2>2 DEF EncodesSoFar, Groups
    <2>4. QED
      BY <2>3
  <1>7. CASE Len(g) = 3
    <2>1. ret' = ret \o Sextets(g) /\ group' = <<>>
      BY <1>7 DEF EncodeByte, Full, g
    <2>2. g \in [1 .. 3 -> Octet] /\ \A j \in 1 .. 3 : g[j] = message[3 * q + j]
      BY <1>4, <1>5, <1>7
    <2>3. Len(group) = 2 /\ 3 * q + 3 <= Len(message)
      <3>1. Len(group) = 2
        BY <1>2, <1>4, <1>7, SmallNumbers
      <3>2. in_ = 3 * q + 2 /\ in_ < Len(message)
        BY <1>1, <1>2, <1>3, <3>1 DEF EncodesSoFar
      <3>3. QED
        BY <1>2, <3>1, <3>2
    <2>4. g = Triple(message, q)
      <3>1. \A j \in 1 .. 3 : Triple(message, q)[j] = message[3 * q + j]
        BY <2>3, <1>2 DEF Triple
      <3>2. Triple(message, q) \in [1 .. 3 -> Octet]
        BY <1>2, TripleType
      <3>3. QED
        BY <2>2, <3>1, <3>2
    <2>5. /\ Len(ret') = 4 * q + 4
          /\ \A k \in 1 .. 4 * q : ret'[k] = ret[k]
          /\ \A k \in 1 .. 4 : ret'[4 * q + k] = Sextets(Triple(message, q))[k]
      BY <1>2, <1>3, <2>1, <2>2, <2>4, WritesLetters DEF EncodesSoFar
    <2>6. Groups(message, ret', q + 1)
      <3>1. SUFFICES ASSUME NEW p \in 0 .. q
                     PROVE  \A j \in 1 .. 4 : ret'[4 * p + j] = Sextets(Triple(message, p))[j]
        BY DEF Groups
      <3>2. CASE p = q
        BY <2>5, <3>2
      <3>3. CASE p # q
        <4>1. p \in 0 .. q - 1
          BY <3>3
        <4>2. \A j \in 1 .. 4 : 4 * p + j \in 1 .. 4 * q
          BY <4>1
        <4>3. \A j \in 1 .. 4 : ret[4 * p + j] = Sextets(Triple(message, p))[j]
          BY <1>3, <4>1 DEF EncodesSoFar, Groups
        <4>4. QED
          BY <2>5, <4>2, <4>3
      <3>4. QED
        BY <3>2, <3>3
    <2>7. in_' = 3 * (q + 1) + 0 /\ Len(ret') = 4 * (q + 1) /\ Len(group') = 0
      BY <1>1, <1>3, <2>1, <2>3, <2>5, EmptySeq DEF EncodesSoFar
    <2>8. EncodesSoFar(q + 1)'
      BY <1>1, <2>6, <2>7 DEF EncodesSoFar, Groups
    <2>9. q + 1 \in Nat
      OBVIOUS
    <2>10. QED
      BY <2>8, <2>9
  <1>8. QED
    BY <1>6, <1>7

LEMMA EncodeRestStep ==
    ASSUME IInv, EncodeRest
    PROVE  \E q \in Nat, r \in 0 .. 2 : Encodes(message, ret, q, r)'
  <1> DEFINE i == Len(group)
  <1>1. doing = "encode" /\ in_ = Len(input) /\ UNCHANGED message
    BY DEF EncodeRest
  <1>2. Typed /\ i \in 0 .. 2 /\ input = message
        /\ Len(message) \in Nat /\ message \in Seq(Octet)
    <2>1. Typed /\ input = message /\ i <= 2
      BY <1>1, TypesAreOctets DEF IInv, TypeOK
    <2>2. i \in Nat /\ Len(message) \in Nat /\ message \in Seq(Octet)
      BY <2>1 DEF Typed
    <2>3. QED
      BY <2>1, <2>2, SmallNumbers
  <1>3. PICK q \in Nat : EncodesSoFar(q)
    BY <1>1 DEF IInv
  <1>4. Len(message) = 3 * q + i
    BY <1>1, <1>2, <1>3 DEF EncodesSoFar
  <1>5. CASE i = 0
    <2>1. ret' = ret
      BY <1>5 DEF EncodeRest
    <2>2. Encodes(message, ret, q, 0)'
      BY <1>1, <1>3, <1>4, <1>5, <2>1 DEF Encodes, EncodesSoFar, Groups
    <2>3. QED
      BY <2>2
  <1>6. CASE i # 0
    <2>1. i \in {1, 2}
      BY <1>2, <1>6
    <2>2. ret' = ret \o SubSeq(Sextets(Filled(3, 0)), 1, LettersOfRest(Len(group)))
                     \o [k \in 1 .. 3 - Len(group) |-> Equals]
      BY <1>6 DEF EncodeRest
    <2>3. Filled(3, 0) = Triple(message, q)
      <3>1. Filled(3, 0) \in [1 .. 3 -> Octet]
            /\ \A k \in 1 .. 3 : Filled(3, 0)[k] = IF k <= i THEN group[k] ELSE 0
        <4>1. 0 \in Octet
          BY DEF Octet
        <4>2. group \in Seq(Octet)
          BY <1>2 DEF Typed
        <4>3. Filled(3, 0) \in [1 .. 3 -> Octet]
          BY <4>1, <4>2, FilledIsSeq
        <4>4. QED
          BY <4>3 DEF Filled
      <3>2. \A k \in 1 .. 3 : Triple(message, q)[k] = IF k <= i THEN message[3 * q + k] ELSE 0
        BY <1>2, <1>4 DEF Triple
      <3>3. \A k \in 1 .. i : group[k] = message[3 * q + k]
        BY <1>3 DEF EncodesSoFar
      <3>4. \A k \in 1 .. 3 : Filled(3, 0)[k] = Triple(message, q)[k]
        BY <1>2, <3>1, <3>2, <3>3
      <3>5. QED
        BY <1>2, <3>1, <3>4, TripleType
    <2>4. /\ Len(ret') = 4 * q + 4
          /\ \A k \in 1 .. 4 * q : ret'[k] = ret[k]
          /\ \A k \in 1 .. i + 1 : ret'[4 * q + k] = Sextets(Triple(message, q))[k]
          /\ \A k \in i + 2 .. 4 : ret'[4 * q + k] = Equals
      BY <1>2, <1>3, <2>1, <2>2, <2>3, PadsLetters DEF EncodesSoFar
    <2>5. Groups(message, ret', q)
      <3>1. SUFFICES ASSUME NEW p \in 0 .. q - 1
                     PROVE  \A j \in 1 .. 4 : ret'[4 * p + j] = Sextets(Triple(message, p))[j]
        BY DEF Groups
      <3>2. \A j \in 1 .. 4 : 4 * p + j \in 1 .. 4 * q
        OBVIOUS
      <3>3. \A j \in 1 .. 4 : ret[4 * p + j] = Sextets(Triple(message, p))[j]
        BY <1>3 DEF EncodesSoFar, Groups
      <3>4. \A j \in 1 .. 4 : ret'[4 * p + j] = ret[4 * p + j]
        BY <2>4, <3>2
      <3>5. QED
        BY <3>3, <3>4
    <2>6. /\ ret'[4 * q + 1] = Sextets(Triple(message, q))[1]
          /\ ret'[4 * q + 2] = Sextets(Triple(message, q))[2]
          /\ ret'[4 * q + 3] = IF i = 2 THEN Sextets(Triple(message, q))[3] ELSE Equals
          /\ ret'[4 * q + 4] = Equals
      <3>1. CASE i = 1
        BY <2>4, <3>1
      <3>2. CASE i = 2
        BY <2>4, <3>2
      <3>3. QED
        BY <2>1, <3>1, <3>2
    <2>7. Encodes(message, ret', q, i)
      BY <1>4, <1>6, <2>4, <2>5, <2>6 DEF Encodes
    <2>8. QED
      BY <1>1, <1>2, <2>7
  <1>7. QED
    BY <1>5, <1>6

LEMMA DecodeStep ==
    ASSUME IInv, Decode, message # <<>>
    PROVE  \E q \in Nat, r \in 0 .. 2, p \in Nat : DecodesSoFar(q, r, p)'
  <1>1. doing = "encoded" /\ input' = ret /\ in_' = 0 /\ group' = <<>> /\ ret' = <<>>
        /\ UNCHANGED message
    BY DEF Decode
  <1>2. PICK q \in Nat, r \in 0 .. 2 : Encodes(message, ret, q, r)
    BY <1>1 DEF IInv
  <1>3. Encodes(message, input, q, r)'
    BY <1>1, <1>2 DEF Encodes, Groups
  <1>4. Len(group') = 0 /\ Len(ret') = 0
    BY <1>1, EmptySeq
  <1>5. DecodesSoFar(q, r, 0)'
    BY <1>1, <1>3, <1>4 DEF DecodesSoFar
  <1>6. QED
    BY <1>5

LEMMA DecodeLetterStep ==
    ASSUME IInv, DecodeLetter, message # <<>>
    PROVE  \E q \in Nat, r \in 0 .. 2, p \in Nat : DecodesSoFar(q, r, p)'
  <1> DEFINE g == Append(group, input[in_ + 1])
  <1>1. /\ in_ < Len(input) /\ doing = "decode" /\ in_' = in_ + 1
        /\ input[in_ + 1] \in 0 .. 63
        /\ UNCHANGED <<doing, message, input>>
    BY DEF DecodeLetter, MoreLetters, IsBase64
  <1>2. Typed /\ Len(group) \in Nat /\ message \in Seq(Octet) /\ Len(input) \in Nat
        /\ Len(message) \in Nat /\ in_ \in Nat
    <2>1. Typed
      BY TypesAreOctets DEF IInv
    <2>2. QED
      BY <2>1 DEF Typed
  <1>3. PICK q \in Nat, r \in 0 .. 2, p \in Nat : DecodesSoFar(q, r, p)
    BY <1>1 DEF IInv
  <1>4. /\ g \in Seq(Octet) /\ Len(g) = Len(group) + 1 /\ g \in [1 .. Len(g) -> Octet]
        /\ \A k \in 1 .. Len(group) : g[k] = group[k]
        /\ g[Len(group) + 1] = input[in_ + 1]
    BY <1>1, <1>2, Gathers
  <1> HIDE DEF g
  <1>5. \A j \in 1 .. Len(g) : g[j] = input[4 * p + j] /\ IsBase64(g[j])
    <2>1. \A j \in 1 .. Len(group) : g[j] = input[4 * p + j] /\ IsBase64(g[j])
      BY <1>3, <1>4 DEF DecodesSoFar
    <2>2. g[Len(group) + 1] = input[4 * p + (Len(group) + 1)] /\ IsBase64(g[Len(group) + 1])
      <3>1. in_ + 1 = 4 * p + (Len(group) + 1)
        BY <1>2, <1>3 DEF DecodesSoFar
      <3>2. QED
        BY <1>1, <1>2, <1>4, <3>1 DEF IsBase64
    <2>3. ASSUME NEW j \in 1 .. Len(g)
          PROVE  g[j] = input[4 * p + j] /\ IsBase64(g[j])
      <3>1. j \in 1 .. Len(group) \/ j = Len(group) + 1
        BY <1>2, <1>4
      <3>2. QED
        BY <2>1, <2>2, <3>1
    <2>4. QED
      BY <2>3
  <1>6. Encodes(message, input, q, r)'
    BY <1>1, <1>3 DEF DecodesSoFar, Encodes, Groups
  <1>7. CASE Len(g) # 4
    <2>1. ret' = ret /\ group' = g
      BY <1>7 DEF DecodeLetter, Full, g
    <2>2. in_' = 4 * p + Len(g)
      BY <1>1, <1>2, <1>3, <1>4 DEF DecodesSoFar
    <2>3. DecodesSoFar(q, r, p)'
      BY <1>1, <1>3, <1>5, <1>6, <2>1, <2>2 DEF DecodesSoFar
    <2>4. QED
      BY <2>3
  <1>8. CASE Len(g) = 4
    <2> DEFINE c == [k \in 1 .. 4 |-> Find(g[k])]
               T == Triple(message, p)
    <2>1. ret' = ret \o Octets(c) /\ group' = <<>>
      BY <1>8 DEF DecodeLetter, Full, g
    <2>2. g \in [1 .. 4 -> Octet] /\ \A j \in 1 .. 4 : g[j] = input[4 * p + j]
      BY <1>4, <1>5, <1>8
    <2>3. Len(group) = 3 /\ in_ + 1 = 4 * p + 4
      <3>1. Len(group) = 3
        BY <1>2, <1>4, <1>8, SmallNumbers
      <3>2. QED
        BY <1>2, <1>3, <3>1 DEF DecodesSoFar
    <2>4. p <= q - 1
      <3>1. SUFFICES ASSUME p = q PROVE FALSE
        BY <1>3 DEF DecodesSoFar
      <3>2. 4 * q + 4 <= Len(input)
        BY <1>1, <1>2, <2>3, <3>1
      <3>3. r > 0
        BY <1>2, <1>3, <3>2 DEF DecodesSoFar, Encodes
      <3>4. input[4 * q + 4] = Equals
        BY <1>3, <3>3 DEF DecodesSoFar, Encodes
      <3>5. QED
        <4>1. in_ + 1 = 4 * q + 4
          BY <2>3, <3>1
        <4>2. input[in_ + 1] = Equals /\ Equals = 64
          BY <3>4, <4>1 DEF Equals
        <4>3. QED
          BY <1>1, <4>2
    <2>5. \A j \in 1 .. 4 : g[j] = Sextets(T)[j]
      <3>1. p \in 0 .. q - 1
        BY <2>4
      <3>2. \A j \in 1 .. 4 : input[4 * p + j] = Sextets(T)[j]
        BY <1>3, <3>1 DEF DecodesSoFar, Encodes, Groups
      <3>3. QED
        BY <2>2, <3>2
    <2>6. T \in [1 .. 3 -> Octet] /\ \A j \in 1 .. 3 : T[j] = message[3 * p + j]
      <3>1. T \in [1 .. 3 -> Octet]
        BY <1>2, TripleType
      <3>2. 3 * p + 3 <= Len(message)
        BY <1>2, <1>3, <2>4 DEF DecodesSoFar, Encodes
      <3>3. \A j \in 1 .. 3 : 3 * p + j <= Len(message)
        BY <1>2, <3>2
      <3>4. QED
        BY <3>1, <3>3 DEF Triple
    <2> HIDE DEF T
    <2>7. c \in [1 .. 4 -> Octet] /\ \A j \in 1 .. 4 : c[j] = Sextets(T)[j]
      <3>1. c \in [1 .. 4 -> Octet]
        BY <2>2, FoundType
      <3>2. \A j \in 1 .. 4 : Sextets(T)[j] \in 0 .. 63
        BY <2>6, SextetRange
      <3>3. \A j \in 1 .. 4 : Find(g[j]) = g[j]
        BY <2>5, <3>2, FindLetter
      <3>4. QED
        BY <2>5, <3>1, <3>3
    <2>8. \A j \in 1 .. 3 : Octets(c)[j] = message[3 * p + j]
      <3> HIDE DEF c
      <3>1. Octets(c)[1] = T[1] /\ Octets(c)[2] = T[2] /\ Octets(c)[3] = T[3]
        BY <2>6, <2>7, OctetsOfSextets
      <3>2. QED
        BY <2>6, <3>1
    <2>9. /\ Len(ret') = 3 * p + 3
          /\ \A k \in 1 .. 3 * p : ret'[k] = ret[k]
          /\ \A k \in 1 .. 3 : ret'[3 * p + k] = Octets(c)[k]
      BY <1>2, <1>3, <2>1, <2>2, WritesBytes DEF DecodesSoFar
    <2> HIDE DEF c
    <2>10. \A k \in 1 .. 3 * (p + 1) : ret'[k] = message[k]
      <3>1. SUFFICES ASSUME NEW k \in 1 .. 3 * (p + 1) PROVE ret'[k] = message[k]
        OBVIOUS
      <3>2. CASE k <= 3 * p
        BY <1>3, <2>9, <3>2 DEF DecodesSoFar
      <3>3. CASE ~(k <= 3 * p)
        <4>1. k - 3 * p \in 1 .. 3 /\ 3 * p + (k - 3 * p) = k
          BY <3>3
        <4>2. QED
          BY <2>8, <2>9, <4>1
      <3>4. QED
        BY <3>2, <3>3
    <2>11. in_' = 4 * (p + 1) + 0 /\ Len(ret') = 3 * (p + 1) /\ Len(group') = 0 /\ p + 1 <= q
      BY <1>1, <2>1, <2>3, <2>4, <2>9, EmptySeq
    <2>12. DecodesSoFar(q, r, p + 1)'
      BY <1>1, <1>6, <2>10, <2>11 DEF DecodesSoFar
    <2>13. p + 1 \in Nat
      OBVIOUS
    <2>14. QED
      BY <2>12, <2>13
  <1>9. QED
    BY <1>7, <1>8

LEMMA DecodeRestStep ==
    ASSUME IInv, DecodeRest, message # <<>>
    PROVE  ret' = message
  <1> DEFINE i == Len(group)
             last == Filled(4, Foreign)
             c == [k \in 1 .. 4 |-> Find(last[k])]
             T(p) == Triple(message, p)
  <1>1. /\ doing = "decode" /\ ~MoreLetters
        /\ UNCHANGED <<message, input, in_, group>>
    BY DEF DecodeRest
  <1>2. /\ Typed /\ message \in Seq(Octet) /\ ret \in Seq(Octet)
        /\ i \in 0 .. 3 /\ Len(input) \in Nat /\ Len(message) \in Nat /\ in_ \in 0 .. Len(input)
    <2>1. Typed /\ i <= 3
      BY <1>1, TypesAreOctets DEF IInv, TypeOK
    <2>2. i \in Nat /\ message \in Seq(Octet) /\ ret \in Seq(Octet)
          /\ Len(input) \in Nat /\ Len(message) \in Nat /\ in_ \in 0 .. Len(input)
      BY <2>1 DEF Typed
    <2>3. QED
      BY <2>1, <2>2, SmallNumbers
  <1>3. PICK q \in Nat, r \in 0 .. 2, p \in Nat : DecodesSoFar(q, r, p)
    BY <1>1 DEF IInv
  <1>4. /\ Len(message) = 3 * q + r /\ p <= q /\ in_ = 4 * p + i /\ Len(ret) = 3 * p
        /\ Len(input) = 4 * q + (IF r = 0 THEN 0 ELSE 4)
    BY <1>3 DEF DecodesSoFar, Encodes
  \* Letter j of a whole group is a letter.
  <1>5. ASSUME NEW k \in 0 .. q - 1, NEW j \in 1 .. 4
        PROVE  input[4 * k + j] \in 0 .. 63
    <2>1. input[4 * k + j] = Sextets(T(k))[j]
      BY <1>3 DEF DecodesSoFar, Encodes, Groups
    <2>2. T(k) \in [1 .. 3 -> Octet]
      BY <1>2, TripleType
    <2> HIDE DEF T
    <2>3. Sextets(T(k))[j] \in 0 .. 63
      BY <2>2, SextetRange
    <2>4. QED
      BY <2>1, <2>3
  <1> HIDE DEF i, last, c, T
  <1>6. p = q
    <2>1. SUFFICES ASSUME p # q PROVE FALSE
      OBVIOUS
    <2>2. p \in 0 .. q - 1
      BY <1>4, <2>1
    <2>3. i + 1 \in 1 .. 4 /\ in_ + 1 = 4 * p + (i + 1) /\ in_ < Len(input)
      BY <1>2, <1>4, <2>2
    <2>4. input[in_ + 1] \in 0 .. 63
      BY <1>5, <2>2, <2>3
    <2>5. QED
      BY <1>1, <2>3, <2>4 DEF MoreLetters, IsBase64
  <1>7. CASE r = 0
    <2>1. i = 0
      BY <1>2, <1>4, <1>6, <1>7
    <2>2. ret' = ret
      BY <2>1 DEF DecodeRest, i
    <2>3. Len(ret) = Len(message) /\ \A k \in 1 .. Len(ret) : ret[k] = message[k]
      BY <1>3, <1>4, <1>6, <1>7 DEF DecodesSoFar
    <2>4. ret = message
      BY <1>2, <2>3, SeqEqual
    <2>5. QED
      BY <2>2, <2>4
  <1>8. CASE r # 0
    <2>0. r \in {1, 2}
      BY <1>8
    <2>1. /\ input[4 * q + 1] = Sextets(T(q))[1]
          /\ input[4 * q + 2] = Sextets(T(q))[2]
          /\ input[4 * q + 3] = IF r = 2 THEN Sextets(T(q))[3] ELSE Equals
          /\ input[4 * q + 4] = Equals
      BY <1>3, <2>0 DEF DecodesSoFar, Encodes, T
    <2>2. T(q) \in [1 .. 3 -> Octet]
      BY <1>2, TripleType DEF T
    <2>3. /\ Sextets(T(q))[1] \in 0 .. 63 /\ Sextets(T(q))[2] \in 0 .. 63
          /\ Sextets(T(q))[3] \in 0 .. 63
      BY <2>2, SextetRange
    <2>4. \A j \in 1 .. i : group[j] = input[4 * q + j] /\ group[j] \in 0 .. 63
      BY <1>3, <1>6 DEF DecodesSoFar, IsBase64, i
    \* The loop has stopped at the first '=' of the last group.
    <2>5. i <= r + 1
      <3>1. SUFFICES ASSUME i > r + 1 PROVE FALSE
        BY <1>2
      <3>2. r = 1 /\ i = 3
        BY <1>2, <2>0, <3>1
      <3>3. QED
        <4>1. group[3] = input[4 * q + 3] /\ group[3] \in 0 .. 63
          BY <2>4, <3>2
        <4>2. input[4 * q + 3] = 64
          BY <2>1, <3>2 DEF Equals
        <4>3. QED
          BY <4>1, <4>2
    <2>6. i >= r + 1
      <3>1. SUFFICES ASSUME i < r + 1 PROVE FALSE
        BY <1>2
      <3>2. in_ < Len(input) /\ in_ + 1 = 4 * q + (i + 1)
        BY <1>2, <1>4, <1>6, <2>0, <3>1
      <3>3. input[4 * q + (i + 1)] \in 0 .. 63
        <4>1. i + 1 = 1 \/ i + 1 = 2 \/ (i + 1 = 3 /\ r = 2)
          BY <1>2, <2>0, <3>1
        <4>2. QED
          BY <2>1, <2>3, <4>1
      <3>4. QED
        BY <1>1, <3>2, <3>3 DEF MoreLetters, IsBase64
    <2>7. i = r + 1 /\ i \in {2, 3}
      BY <1>2, <2>0, <2>5, <2>6
    <2>8. ret' = ret \o SubSeq(Octets(c), 1, BytesOfRest(i))
      <3>1. ret' = IF i = 0 THEN ret ELSE ret \o SubSeq(Octets(c), 1, BytesOfRest(i))
        BY DEF DecodeRest, i, c, last
      <3>2. i # 0
        BY <2>7
      <3>3. QED
        BY <3>1, <3>2
    <2>9. /\ ret' \in Seq(Octet) /\ Len(ret') = Len(ret) + (i - 1)
          /\ \A k \in 1 .. Len(ret) : ret'[k] = ret[k]
          /\ \A k \in 1 .. i - 1 : ret'[Len(ret) + k] = Octets(c)[k]
      <3>1. i \in {1, 2, 3}
        BY <2>7
      <3>2. QED
        BY <1>2, <2>8, <3>1, WritesRest DEF i, c, last
    <2>10. /\ c \in [1 .. 4 -> Octet]
           /\ \A k \in 1 .. i : c[k] = group[k]
      <3>1. Foreign \in Octet /\ group \in Seq(Octet)
        BY <1>2 DEF Typed, Octet, Foreign
      <3>2. last \in [1 .. 4 -> Octet]
        BY <3>1, FilledIsSeq DEF last
      <3>3. \A k \in 1 .. i : last[k] = group[k]
        BY <1>2 DEF last, i, Filled
      <3>4. c \in [1 .. 4 -> Octet]
        BY <3>2, FoundType DEF c
      <3>5. \A k \in 1 .. i : c[k] = Find(last[k])
        BY <2>7 DEF c
      <3>6. \A k \in 1 .. i : Find(group[k]) = group[k]
        BY <2>4, FindLetter
      <3>7. QED
        BY <3>3, <3>4, <3>5, <3>6
    <2>11. /\ c[1] = Sextets(T(q))[1] /\ c[2] = Sextets(T(q))[2]
           /\ r = 2 => c[3] = Sextets(T(q))[3]
      BY <2>0, <2>1, <2>4, <2>7, <2>10
    <2>12. \A k \in 1 .. r : Octets(c)[k] = T(q)[k]
      <3>1. Octets(c)[1] = T(q)[1] /\ (r = 2 => Octets(c)[2] = T(q)[2])
        BY <2>2, <2>10, <2>11, OctetsOfSextets
      <3>2. QED
        BY <2>0, <3>1
    <2>13. \A k \in 1 .. r : T(q)[k] = message[3 * q + k]
      BY <1>2, <1>4, <2>0 DEF T, Triple
    <2>14. ASSUME NEW k \in 1 .. Len(ret')
           PROVE  ret'[k] = message[k]
      <3>1. k \in 1 .. 3 * q + r
        BY <1>4, <1>6, <2>7, <2>9, <2>14
      <3>2. CASE k <= 3 * q
        BY <1>3, <1>4, <1>6, <2>9, <3>1, <3>2 DEF DecodesSoFar
      <3>3. CASE ~(k <= 3 * q)
        <4>1. k - 3 * q \in 1 .. r /\ 3 * q + (k - 3 * q) = k
          BY <3>1, <3>3
        <4>2. ret'[3 * q + (k - 3 * q)] = Octets(c)[k - 3 * q]
          BY <1>4, <1>6, <2>7, <2>9, <4>1
        <4>3. QED
          BY <2>12, <2>13, <4>1, <4>2
      <3>4. QED
        BY <3>2, <3>3
    <2>15. Len(ret') = Len(message)
      BY <1>4, <1>6, <2>7, <2>9
    <2>16. QED
      BY <1>2, <2>9, <2>14, <2>15, SeqEqual
  <1>9. QED
    BY <1>7, <1>8

LEMMA IInvNext == IInv /\ [Next]_vars => IInv'
  <1> SUFFICES ASSUME IInv, [Next]_vars PROVE IInv'
    OBVIOUS
  <1>0. TypeOK'
    BY TypeNext DEF IInv
  <1>1. CASE EncodeByte
    <2>1. doing' = "encode" /\ input' = input /\ message' = message /\ doing = "encode"
      BY <1>1 DEF EncodeByte
    <2>2. QED
      BY <1>0, <1>1, <2>1, EncodeByteStep DEF IInv, RoundTrip
  <1>2. CASE EncodeRest
    <2>1. doing' = "encoded"
      BY <1>2 DEF EncodeRest
    <2>2. QED
      BY <1>0, <1>2, <2>1, EncodeRestStep DEF IInv, RoundTrip
  <1>3. CASE Decode
    <2>1. doing' = "decode" /\ message' = message
      BY <1>3 DEF Decode
    <2>2. QED
      BY <1>0, <1>3, <2>1, DecodeStep DEF IInv, RoundTrip
  <1>4. CASE DecodeLetter
    <2>1. doing' = "decode" /\ message' = message
      BY <1>4 DEF DecodeLetter
    <2>2. QED
      BY <1>0, <1>4, <2>1, DecodeLetterStep DEF IInv, RoundTrip
  <1>5. CASE DecodeRest
    <2>1. doing' = "decoded" /\ message' = message
      BY <1>5 DEF DecodeRest
    <2>2. QED
      BY <1>0, <1>5, <2>1, DecodeRestStep DEF IInv, RoundTrip
  <1>6. CASE UNCHANGED vars
    BY <1>0, <1>6 DEF vars, IInv, RoundTrip, EncodesSoFar, DecodesSoFar, Encodes, Groups
  <1>7. QED
    BY <1>1, <1>2, <1>3, <1>4, <1>5, <1>6 DEF Next

\* base64_decode gives back every message that base64_encode has encoded, of
\* whatever bytes and whatever length.
THEOREM DecodeInvertsEncode == Spec => []RoundTrip
  <1>1. IInv => RoundTrip
    BY DEF IInv
  <1>2. QED
    BY <1>1, IInvInit, IInvNext, PTL DEF Spec

-----------------------------------------------------------------------------
(***************************************************************************)
(* RFC 4648, in bits.                                                      *)
(***************************************************************************)
\* The v bits from bit n on are b's first.
BitsAre(s, w, v, n, b) == \A j \in 0 .. v - 1 : Bit(s, w, n + j) = b[j]

\* The numbers that b's first six and first eight bits write.
Six(b) == 32 * b[0] + 16 * b[1] + 8 * b[2] + 4 * b[3] + 2 * b[4] + b[5]
Eight(b) == 128 * b[0] + 64 * b[1] + 32 * b[2] + 16 * b[3]
                + 8 * b[4] + 4 * b[5] + 2 * b[6] + b[7]

\* A number of up to eight bits is the sum of their values: the recursive
\* function that Value defines exists, and these are its values.
LEMMA ValueOfBits ==
    ASSUME NEW s, NEW w \in Nat, NEW v \in 0 .. 8, NEW n \in Nat, NEW b \in [0 .. 7 -> 0 .. 1],
           BitsAre(s, w, v, n, b)
    PROVE  /\ v = 6 => Value(s, w, v, n) = Six(b)
           /\ v = 8 => Value(s, w, v, n) = Eight(b)
  <1> DEFINE F(f) == [j \in 0 .. v |->
                         IF j = 0 THEN 0 ELSE 2 * f[j - 1] + Bit(s, w, n + j - 1)]
             G(f) == [j \in 0 .. v |-> IF j = 0 THEN 0 ELSE 2 * f[j - 1] + b[j - 1]]
             v1 == b[0]
             v2 == 2 * v1 + b[1]
             v3 == 2 * v2 + b[2]
             v4 == 2 * v3 + b[3]
             v5 == 2 * v4 + b[4]
             v6 == 2 * v5 + b[5]
             v7 == 2 * v6 + b[6]
             v8 == 2 * v7 + b[7]
             g == [j \in 0 .. v |->
                      CASE j = 0 -> 0 [] j = 1 -> v1 [] j = 2 -> v2 [] j = 3 -> v3
                        [] j = 4 -> v4 [] j = 5 -> v5 [] j = 6 -> v6 [] j = 7 -> v7
                        [] j = 8 -> v8]
             f0 == CHOOSE f : f = F(f)
  <1>1. \A f : F(f) = G(f)
    <2> SUFFICES ASSUME NEW f, NEW j \in 0 .. v, j # 0
                 PROVE  Bit(s, w, n + j - 1) = b[j - 1]
      OBVIOUS
    <2>1. j - 1 \in 0 .. v - 1 /\ n + j - 1 = n + (j - 1)
      OBVIOUS
    <2>2. QED
      BY <2>1 DEF BitsAre
  <1>2. g = G(g)
    <2>1. v1 \in 0 .. 1
      OBVIOUS
    <2> SUFFICES ASSUME NEW j \in 0 .. v PROVE g[j] = G(g)[j]
      OBVIOUS
    <2>2. j \in {0, 1, 2, 3, 4, 5, 6, 7, 8}
      OBVIOUS
    <2>3. CASE j = 0
      BY <2>3
    <2>4. CASE j = 1
      BY <2>1, <2>4
    <2>5. CASE j = 2
      BY <2>5
    <2>6. CASE j = 3
      BY <2>6
    <2>7. CASE j = 4
      BY <2>7
    <2>8. CASE j = 5
      BY <2>8
    <2>9. CASE j = 6
      BY <2>9
    <2>10. CASE j = 7
      BY <2>10
    <2>11. CASE j = 8
      BY <2>11
    <2> HIDE DEF g, G
    <2>12. QED
      BY <2>2, <2>3, <2>4, <2>5, <2>6, <2>7, <2>8, <2>9, <2>10, <2>11
  <1>3. f0 = G(f0)
    <2>1. g = F(g)
      BY <1>1, <1>2
    <2> HIDE DEF g, F, G
    <2>2. f0 = F(f0)
      BY <2>1
    <2>3. QED
      BY <1>1, <2>2
  <1>4. Value(s, w, v, n) = f0[v]
    BY DEF Value
  <1> HIDE DEF f0
  <1>5. /\ f0[0] = 0
        /\ \A j \in 1 .. v : f0[j] = 2 * f0[j - 1] + b[j - 1]
    BY <1>3
  <1>6. CASE v = 6
    <2>1. /\ f0[1] = 2 * f0[0] + b[0] /\ f0[2] = 2 * f0[1] + b[1]
          /\ f0[3] = 2 * f0[2] + b[2] /\ f0[4] = 2 * f0[3] + b[3]
          /\ f0[5] = 2 * f0[4] + b[4] /\ f0[6] = 2 * f0[5] + b[5]
      BY <1>5, <1>6
    <2>2. QED
      BY <1>4, <1>5, <1>6, <2>1 DEF Six
  <1>7. CASE v = 8
    <2>1. /\ f0[1] = 2 * f0[0] + b[0] /\ f0[2] = 2 * f0[1] + b[1]
          /\ f0[3] = 2 * f0[2] + b[2] /\ f0[4] = 2 * f0[3] + b[3]
          /\ f0[5] = 2 * f0[4] + b[4] /\ f0[6] = 2 * f0[5] + b[5]
          /\ f0[7] = 2 * f0[6] + b[6] /\ f0[8] = 2 * f0[7] + b[7]
      BY <1>5, <1>7
    <2>2. QED
      BY <1>4, <1>5, <1>7, <2>1 DEF Eight
  <1>8. QED
    BY <1>6, <1>7

\* The powers by which Bit divides.
LEMMA Powers ==
    ASSUME NEW e \in 0 .. 7
    PROVE  2 ^ e = IF e = 0 THEN 1 ELSE IF e = 1 THEN 2 ELSE IF e = 2 THEN 4
                   ELSE IF e = 3 THEN 8 ELSE IF e = 4 THEN 16 ELSE IF e = 5 THEN 32
                   ELSE IF e = 6 THEN 64 ELSE 128
  <1>1. CASE e = 0
    BY <1>1
  <1>2. CASE e = 1
    BY <1>2
  <1>3. CASE e = 2
    BY <1>3
  <1>4. CASE e = 3
    BY <1>4
  <1>5. CASE e = 4
    BY <1>5
  <1>6. CASE e = 5
    BY <1>6
  <1>7. CASE e = 6
    BY <1>7
  <1>8. CASE e = 7
    BY <1>8
  <1>9. e \in {0, 1, 2, 3, 4, 5, 6, 7}
    OBVIOUS
  <1>10. QED
    BY <1>1, <1>2, <1>3, <1>4, <1>5, <1>6, <1>7, <1>8, <1>9

\* A letter of bytes, and a byte of letters.
LEMMA ValueOfSix ==
    ASSUME NEW s, NEW n \in Nat, NEW b \in [0 .. 7 -> 0 .. 1], BitsAre(s, 8, 6, n, b)
    PROVE  Value(s, 8, 6, n) = Six(b)
  BY ValueOfBits

LEMMA ValueOfEight ==
    ASSUME NEW s, NEW n \in Nat, NEW b \in [0 .. 7 -> 0 .. 1], BitsAre(s, 6, 8, n, b)
    PROVE  Value(s, 6, 8, n) = Eight(b)
  BY ValueOfBits

\* The bits of a byte, and what they sum to.
BitOf(n, i) == (n \div 2 ^ i) % 2

LEMMA ByteBits ==
    ASSUME NEW a \in 0 .. 255
    PROVE  /\ \A i \in 0 .. 7 : BitOf(a, i) \in 0 .. 1
           /\ a \div 4 = 32 * BitOf(a, 7) + 16 * BitOf(a, 6) + 8 * BitOf(a, 5)
                            + 4 * BitOf(a, 4) + 2 * BitOf(a, 3) + BitOf(a, 2)
           /\ a % 4 = 2 * BitOf(a, 1) + BitOf(a, 0)
           /\ a \div 16 = 8 * BitOf(a, 7) + 4 * BitOf(a, 6) + 2 * BitOf(a, 5) + BitOf(a, 4)
           /\ a % 16 = 8 * BitOf(a, 3) + 4 * BitOf(a, 2) + 2 * BitOf(a, 1) + BitOf(a, 0)
           /\ a \div 64 = 2 * BitOf(a, 7) + BitOf(a, 6)
           /\ a % 64 = 32 * BitOf(a, 5) + 16 * BitOf(a, 4) + 8 * BitOf(a, 3)
                            + 4 * BitOf(a, 2) + 2 * BitOf(a, 1) + BitOf(a, 0)
  <1>1. /\ BitOf(a, 0) = a % 2 /\ BitOf(a, 1) = (a \div 2) % 2
        /\ BitOf(a, 2) = (a \div 4) % 2 /\ BitOf(a, 3) = (a \div 8) % 2
        /\ BitOf(a, 4) = (a \div 16) % 2 /\ BitOf(a, 5) = (a \div 32) % 2
        /\ BitOf(a, 6) = (a \div 64) % 2 /\ BitOf(a, 7) = (a \div 128) % 2
    <2>1. /\ 2 ^ 0 = 1 /\ 2 ^ 1 = 2 /\ 2 ^ 2 = 4 /\ 2 ^ 3 = 8
          /\ 2 ^ 4 = 16 /\ 2 ^ 5 = 32 /\ 2 ^ 6 = 64 /\ 2 ^ 7 = 128
      OBVIOUS
    <2>2. a \div 1 = a
      OBVIOUS
    <2>3. QED
      BY <2>1, <2>2, Zenon DEF BitOf
  <1>2. \A i \in 0 .. 7 : BitOf(a, i) \in 0 .. 1
    <2>1. /\ BitOf(a, 0) \in 0 .. 1 /\ BitOf(a, 1) \in 0 .. 1 /\ BitOf(a, 2) \in 0 .. 1
          /\ BitOf(a, 3) \in 0 .. 1 /\ BitOf(a, 4) \in 0 .. 1 /\ BitOf(a, 5) \in 0 .. 1
          /\ BitOf(a, 6) \in 0 .. 1 /\ BitOf(a, 7) \in 0 .. 1
      BY <1>1
    <2>2. QED
      BY <2>1
  <1>3. /\ a \div 4 = 32 * ((a \div 128) % 2) + 16 * ((a \div 64) % 2)
                + 8 * ((a \div 32) % 2) + 4 * ((a \div 16) % 2)
                + 2 * ((a \div 8) % 2) + ((a \div 4) % 2)
        /\ a % 4 = 2 * ((a \div 2) % 2) + (a % 2)
        /\ a \div 16 = 8 * ((a \div 128) % 2) + 4 * ((a \div 64) % 2)
                + 2 * ((a \div 32) % 2) + ((a \div 16) % 2)
        /\ a % 16 = 8 * ((a \div 8) % 2) + 4 * ((a \div 4) % 2)
                + 2 * ((a \div 2) % 2) + (a % 2)
        /\ a \div 64 = 2 * ((a \div 128) % 2) + ((a \div 64) % 2)
        /\ a % 64 = 32 * ((a \div 32) % 2) + 16 * ((a \div 16) % 2)
                + 8 * ((a \div 8) % 2) + 4 * ((a \div 4) % 2)
                + 2 * ((a \div 2) % 2) + (a % 2)
    OBVIOUS
  <1>4. QED
    BY <1>1, <1>2, <1>3, Zenon

\* The 24 bits of group p of a message are those of its three bytes, the
\* missing ones zero.
LEMMA BitsOfBytes ==
    ASSUME NEW m \in Seq(Octet), NEW p \in Nat, NEW j \in 1 .. 3, NEW i \in 0 .. 7
    PROVE  Bit(m, 8, 24 * p + 8 * (j - 1) + i) = BitOf(Triple(m, p)[j], 7 - i)
  <1> DEFINE k == 3 * p + (j - 1)
  <1>1. /\ (24 * p + 8 * (j - 1) + i) \div 8 = k
        /\ (24 * p + 8 * (j - 1) + i) % 8 = i
        /\ 8 - 1 - i = 7 - i
    OBVIOUS
  <1>2. k \in Nat /\ k + 1 = 3 * p + j /\ Len(m) \in Nat
    OBVIOUS
  <1>3. Bit(m, 8, 24 * p + 8 * (j - 1) + i) =
            IF k < Len(m) THEN BitOf(m[k + 1], 7 - i) ELSE 0
    BY <1>1 DEF Bit, BitOf
  <1> HIDE DEF k
  <1>4. CASE k < Len(m)
    <2>1. Triple(m, p)[j] = m[k + 1]
      BY <1>2, <1>4 DEF Triple
    <2>2. QED
      BY <1>3, <1>4, <2>1
  <1>5. CASE ~(k < Len(m))
    <2>1. Triple(m, p)[j] = 0
      BY <1>2, <1>5 DEF Triple
    <2>2. 7 - i \in 0 .. 7
      OBVIOUS
    <2>3. BitOf(0, 7 - i) = 0
      <3>1. 2 ^ (7 - i) \in {1, 2, 4, 8, 16, 32, 64, 128}
        BY <2>2, Powers
      <3>2. \A x \in {1, 2, 4, 8, 16, 32, 64, 128} : (0 \div x) % 2 = 0
        OBVIOUS
      <3>3. QED
        BY <3>1, <3>2, Zenon DEF BitOf
    <2>4. QED
      BY <1>3, <1>5, <2>1, <2>3
  <1>6. QED
    BY <1>4, <1>5

\* Read in sixes, they are the letters that the group is written as.
LEMMA LettersOfBytes ==
    ASSUME NEW m \in Seq(Octet), NEW p \in Nat, NEW j \in 1 .. 4
    PROVE  Value(m, 8, 6, 24 * p + 6 * (j - 1)) = Sextets(Triple(m, p))[j]
  <1> DEFINE a == Triple(m, p)
             x == a[1]
             y == a[2]
             z == a[3]
             B(k) == Bit(m, 8, 24 * p + k)
  <1>1. x \in 0 .. 255 /\ y \in 0 .. 255 /\ z \in 0 .. 255
    <2>1. a \in [1 .. 3 -> Octet]
      BY TripleType
    <2> HIDE DEF a
    <2>2. QED
      BY <2>1 DEF Octet
  <1>2. ASSUME NEW h \in 1 .. 3, NEW i \in 0 .. 7
        PROVE  B(8 * (h - 1) + i) = BitOf(a[h], 7 - i)
    <2>1. 24 * p + 8 * (h - 1) + i = 24 * p + (8 * (h - 1) + i)
      OBVIOUS
    <2>2. QED
      BY <2>1, BitsOfBytes
  <1> HIDE DEF B, a
  <1>3. /\ \A i \in 0 .. 7 : B(i) = BitOf(x, 7 - i)
        /\ \A i \in 0 .. 7 : B(8 + i) = BitOf(y, 7 - i)
        /\ \A i \in 0 .. 7 : B(16 + i) = BitOf(z, 7 - i)
    <2>1. \A i \in 0 .. 7 : /\ 8 * (1 - 1) + i = i /\ 8 * (2 - 1) + i = 8 + i
                            /\ 8 * (3 - 1) + i = 16 + i
      OBVIOUS
    <2>2. 1 \in 1 .. 3 /\ 2 \in 1 .. 3 /\ 3 \in 1 .. 3
      OBVIOUS
    <2>3. /\ \A i \in 0 .. 7 : B(8 * (1 - 1) + i) = BitOf(a[1], 7 - i)
          /\ \A i \in 0 .. 7 : B(8 * (2 - 1) + i) = BitOf(a[2], 7 - i)
          /\ \A i \in 0 .. 7 : B(8 * (3 - 1) + i) = BitOf(a[3], 7 - i)
      BY <1>2, <2>2, Zenon
    <2>4. QED
      BY <2>1, <2>3, Zenon
  <1> HIDE DEF x, y, z
  <1>4. \A k \in 0 .. 23 : B(k) \in 0 .. 1
    <2>1. \A i \in 0 .. 7 : B(i) \in 0 .. 1 /\ B(8 + i) \in 0 .. 1 /\ B(16 + i) \in 0 .. 1
      <3>1. \A i \in 0 .. 7 : 7 - i \in 0 .. 7
        OBVIOUS
      <3>2. QED
        BY <1>1, <1>3, <3>1, ByteBits
    <2>2. \A k \in 0 .. 23 : \E i \in 0 .. 7 : k = i \/ k = 8 + i \/ k = 16 + i
      <3> SUFFICES ASSUME NEW k \in 0 .. 23
                   PROVE  \E i \in 0 .. 7 : k = i \/ k = 8 + i \/ k = 16 + i
        OBVIOUS
      <3>1. k % 8 \in 0 .. 7 /\ (k = k % 8 \/ k = 8 + (k % 8) \/ k = 16 + (k % 8))
        OBVIOUS
      <3>2. QED
        BY <3>1
    <2>3. QED
      BY <2>1, <2>2
  <1>5. ASSUME NEW o \in 0 .. 18
        PROVE  Value(m, 8, 6, 24 * p + o) = 32 * B(o) + 16 * B(o + 1) + 8 * B(o + 2)
                                              + 4 * B(o + 3) + 2 * B(o + 4) + B(o + 5)
    <2> DEFINE b == [i \in 0 .. 7 |-> IF i < 6 THEN B(o + i) ELSE 0]
    <2>1. b \in [0 .. 7 -> 0 .. 1]
      <3>1. ASSUME NEW i \in 0 .. 7
            PROVE  (IF i < 6 THEN B(o + i) ELSE 0) \in 0 .. 1
        <4>1. CASE i < 6
          <5>1. o + i \in 0 .. 23
            BY <4>1
          <5>2. QED
            BY <1>4, <4>1, <5>1
        <4>2. QED
          BY <4>1
      <3>2. QED
        BY <3>1
    <2>2. ASSUME NEW i \in 0 .. 6 - 1
          PROVE  Bit(m, 8, (24 * p + o) + i) = b[i]
      <3>1. (24 * p + o) + i = 24 * p + (o + i) /\ i \in 0 .. 7 /\ i < 6
        OBVIOUS
      <3>2. QED
        BY <3>1 DEF B
    <2>3. /\ b[0] = B(o) /\ b[1] = B(o + 1) /\ b[2] = B(o + 2)
          /\ b[3] = B(o + 3) /\ b[4] = B(o + 4) /\ b[5] = B(o + 5)
      <3>1. o + 0 = o
        OBVIOUS
      <3>2. QED
        BY <3>1
    <2> HIDE DEF b
    <2>4. 6 \in 0 .. 8 /\ 24 * p + o \in Nat
      OBVIOUS
    <2>5. Value(m, 8, 6, 24 * p + o) = Six(b)
      <3>1. BitsAre(m, 8, 6, 24 * p + o, b)
        BY <2>2 DEF BitsAre
      <3>2. QED
        BY <2>1, <2>4, <3>1, ValueOfSix
    <2>6. QED
      BY <2>3, <2>5, Zenon DEF Six
  <1>6. /\ Sextets(a)[1] = x \div 4
        /\ Sextets(a)[2] = ((x % 4) * 16) + y \div 16
        /\ Sextets(a)[3] = ((y % 16) * 4) + z \div 64
        /\ Sextets(a)[4] = z % 64
    BY DEF Sextets, x, y, z
  <1>7. /\ x \div 4 = 32 * B(0) + 16 * B(1) + 8 * B(2) + 4 * B(3) + 2 * B(4) + B(5)
        /\ x % 4 = 2 * B(6) + B(7)
        /\ y \div 16 = 8 * B(8) + 4 * B(9) + 2 * B(10) + B(11)
        /\ y % 16 = 8 * B(12) + 4 * B(13) + 2 * B(14) + B(15)
        /\ z \div 64 = 2 * B(16) + B(17)
        /\ z % 64 = 32 * B(18) + 16 * B(19) + 8 * B(20) + 4 * B(21) + 2 * B(22) + B(23)
    <2>1. /\ B(0) = BitOf(x, 7) /\ B(1) = BitOf(x, 6) /\ B(2) = BitOf(x, 5)
          /\ B(3) = BitOf(x, 4) /\ B(4) = BitOf(x, 3) /\ B(5) = BitOf(x, 2)
          /\ B(6) = BitOf(x, 1) /\ B(7) = BitOf(x, 0)
      BY <1>3
    <2>2. /\ B(8 + 0) = BitOf(y, 7) /\ B(8 + 1) = BitOf(y, 6) /\ B(8 + 2) = BitOf(y, 5)
          /\ B(8 + 3) = BitOf(y, 4) /\ B(8 + 4) = BitOf(y, 3) /\ B(8 + 5) = BitOf(y, 2)
          /\ B(8 + 6) = BitOf(y, 1) /\ B(8 + 7) = BitOf(y, 0)
      BY <1>3
    <2>3. /\ B(16 + 0) = BitOf(z, 7) /\ B(16 + 1) = BitOf(z, 6)
          /\ B(16 + 2) = BitOf(z, 5) /\ B(16 + 3) = BitOf(z, 4)
          /\ B(16 + 4) = BitOf(z, 3) /\ B(16 + 5) = BitOf(z, 2)
          /\ B(16 + 6) = BitOf(z, 1) /\ B(16 + 7) = BitOf(z, 0)
      BY <1>3
    <2>4. /\ x \div 4 = 32 * BitOf(x, 7) + 16 * BitOf(x, 6) + 8 * BitOf(x, 5)
                             + 4 * BitOf(x, 4) + 2 * BitOf(x, 3) + BitOf(x, 2)
          /\ x % 4 = 2 * BitOf(x, 1) + BitOf(x, 0)
          /\ y \div 16 = 8 * BitOf(y, 7) + 4 * BitOf(y, 6) + 2 * BitOf(y, 5) + BitOf(y, 4)
          /\ y % 16 = 8 * BitOf(y, 3) + 4 * BitOf(y, 2) + 2 * BitOf(y, 1) + BitOf(y, 0)
          /\ z \div 64 = 2 * BitOf(z, 7) + BitOf(z, 6)
          /\ z % 64 = 32 * BitOf(z, 5) + 16 * BitOf(z, 4) + 8 * BitOf(z, 3)
                             + 4 * BitOf(z, 2) + 2 * BitOf(z, 1) + BitOf(z, 0)
      BY <1>1, ByteBits
    <2>5. QED
      BY <2>1, <2>2, <2>3, <2>4
  <1>8. CASE j = 1
    <2>1. Value(m, 8, 6, 24 * p + 0) = x \div 4
      BY <1>5, <1>7
    <2>2. QED
      BY <1>6, <1>8, <2>1 DEF a
  <1>9. CASE j = 2
    <2>1. Value(m, 8, 6, 24 * p + 6) = ((x % 4) * 16) + y \div 16
      <3>1. Value(m, 8, 6, 24 * p + 6) = 32 * B(6) + 16 * B(7) + 8 * B(8) + 4 * B(9)
                                           + 2 * B(10) + B(11)
        BY <1>5
      <3> DEFINE u == x % 4
                 v == y \div 16
      <3>2. u = 2 * B(6) + B(7) /\ v = 8 * B(8) + 4 * B(9) + 2 * B(10) + B(11)
        BY <1>7
      <3>3. /\ B(6) \in 0 .. 1 /\ B(7) \in 0 .. 1 /\ B(8) \in 0 .. 1
            /\ B(9) \in 0 .. 1 /\ B(10) \in 0 .. 1 /\ B(11) \in 0 .. 1
        BY <1>4
      <3> HIDE DEF u, v
      <3>4. Value(m, 8, 6, 24 * p + 6) = (u * 16) + v
        <4> DEFINE c1 == B(6)
                   c2 == B(7)
                   c3 == B(8)
                   c4 == B(9)
                   c5 == B(10)
                   c6 == B(11)
        <4>1. /\ c1 \in 0 .. 1 /\ c2 \in 0 .. 1 /\ c3 \in 0 .. 1
              /\ c4 \in 0 .. 1 /\ c5 \in 0 .. 1 /\ c6 \in 0 .. 1
          BY <3>3
        <4>2. Value(m, 8, 6, 24 * p + 6) =
                  32 * c1 + 16 * c2 + 8 * c3 + 4 * c4 + 2 * c5 + c6
          BY <3>1
        <4>3. u = 2 * c1 + c2 /\ v = 8 * c3 + 4 * c4 + 2 * c5 + c6
          BY <3>2
        <4> HIDE DEF c1, c2, c3, c4, c5, c6
        <4>4. 32 * c1 + 16 * c2 + 8 * c3 + 4 * c4 + 2 * c5 + c6 = (u * 16) + v
          BY <4>1, <4>3
        <4>5. QED
          BY <4>2, <4>4
      <3>5. QED
        BY <3>4 DEF u, v
    <2>2. QED
      BY <1>6, <1>9, <2>1 DEF a
  <1>10. CASE j = 3
    <2>1. Value(m, 8, 6, 24 * p + 12) = ((y % 16) * 4) + z \div 64
      <3>1. Value(m, 8, 6, 24 * p + 12) = 32 * B(12) + 16 * B(13) + 8 * B(14) + 4 * B(15)
                                            + 2 * B(16) + B(17)
        BY <1>5
      <3> DEFINE u == y % 16
                 v == z \div 64
      <3>2. u = 8 * B(12) + 4 * B(13) + 2 * B(14) + B(15) /\ v = 2 * B(16) + B(17)
        BY <1>7
      <3>3. /\ B(12) \in 0 .. 1 /\ B(13) \in 0 .. 1 /\ B(14) \in 0 .. 1
            /\ B(15) \in 0 .. 1 /\ B(16) \in 0 .. 1 /\ B(17) \in 0 .. 1
        BY <1>4
      <3> HIDE DEF u, v
      <3>4. Value(m, 8, 6, 24 * p + 12) = (u * 4) + v
        <4> DEFINE c1 == B(12)
                   c2 == B(13)
                   c3 == B(14)
                   c4 == B(15)
                   c5 == B(16)
                   c6 == B(17)
        <4>1. /\ c1 \in 0 .. 1 /\ c2 \in 0 .. 1 /\ c3 \in 0 .. 1
              /\ c4 \in 0 .. 1 /\ c5 \in 0 .. 1 /\ c6 \in 0 .. 1
          BY <3>3
        <4>2. Value(m, 8, 6, 24 * p + 12) =
                  32 * c1 + 16 * c2 + 8 * c3 + 4 * c4 + 2 * c5 + c6
          BY <3>1
        <4>3. u = 8 * c1 + 4 * c2 + 2 * c3 + c4 /\ v = 2 * c5 + c6
          BY <3>2
        <4> HIDE DEF c1, c2, c3, c4, c5, c6
        <4>4. 32 * c1 + 16 * c2 + 8 * c3 + 4 * c4 + 2 * c5 + c6 = (u * 4) + v
          BY <4>1, <4>3
        <4>5. QED
          BY <4>2, <4>4
      <3>5. QED
        BY <3>4 DEF u, v
    <2>2. QED
      BY <1>6, <1>10, <2>1 DEF a
  <1>11. CASE j = 4
    <2>1. Value(m, 8, 6, 24 * p + 18) = z % 64
      BY <1>5, <1>7
    <2>2. QED
      BY <1>6, <1>11, <2>1 DEF a
  <1>12. QED
    BY <1>8, <1>9, <1>10, <1>11

\* What base64_encode writes is RFC 4648's encoding.
LEMMA EncodesAsRFC ==
    ASSUME NEW m \in Seq(Octet), NEW t \in Seq(Octet), NEW q \in Nat, NEW r \in 0 .. 2,
           Encodes(m, t, q, r)
    PROVE  t = Encoding(m)
  <1> DEFINE letters == (8 * Len(m) + 5) \div 6
             size == 4 * ((Len(m) + 2) \div 3)
  <1>1. Len(m) = 3 * q + r /\ Len(t) = 4 * q + (IF r = 0 THEN 0 ELSE 4)
    BY DEF Encodes
  <1>2. /\ size = Len(t) /\ size \in Nat
        /\ letters = 4 * q + (IF r = 0 THEN 0 ELSE r + 1)
    <2>1. r \in {0, 1, 2}
      OBVIOUS
    <2>2. CASE r = 0
      BY <1>1, <2>2
    <2>3. CASE r = 1
      BY <1>1, <2>3
    <2>4. CASE r = 2
      BY <1>1, <2>4
    <2>5. QED
      BY <2>1, <2>2, <2>3, <2>4
  <1> HIDE DEF letters, size
  <1>3. ASSUME NEW k \in 1 .. size
        PROVE  t[k] = IF k <= letters THEN Value(m, 8, 6, 6 * (k - 1)) ELSE Equals
    <2> DEFINE p == (k - 1) \div 4
               j == ((k - 1) % 4) + 1
    <2>1. /\ p \in Nat /\ j \in 1 .. 4 /\ k = 4 * p + j
          /\ 6 * (k - 1) = 24 * p + 6 * (j - 1)
      BY <1>2
    <2> HIDE DEF p, j
    <2>2. Value(m, 8, 6, 6 * (k - 1)) = Sextets(Triple(m, p))[j]
      BY <2>1, LettersOfBytes
    <2>3. CASE p < q
      <3>1. k <= letters /\ p \in 0 .. q - 1
        BY <1>2, <2>1, <2>3
      <3>2. t[k] = Sextets(Triple(m, p))[j]
        BY <2>1, <3>1 DEF Encodes, Groups
      <3>3. QED
        BY <2>2, <3>1, <3>2
    <2>4. CASE ~(p < q)
      <3>1. r > 0 /\ p = q
        BY <1>1, <1>2, <2>1, <2>4
      <3>2. /\ t[4 * q + 1] = Sextets(Triple(m, q))[1]
            /\ t[4 * q + 2] = Sextets(Triple(m, q))[2]
            /\ t[4 * q + 3] = IF r = 2 THEN Sextets(Triple(m, q))[3] ELSE Equals
            /\ t[4 * q + 4] = Equals
        BY <3>1 DEF Encodes
      <3>3. k <= letters <=> j <= r + 1
        BY <1>2, <2>1, <3>1
      <3>4. k = 4 * q + j /\ (r = 1 \/ r = 2)
        BY <2>1, <3>1
      <3>5. j = 1 \/ j = 2 \/ j = 3 \/ j = 4
        BY <2>1
      <3>6. t[k] = IF j <= r + 1 THEN Sextets(Triple(m, q))[j] ELSE Equals
        <4>1. CASE j = 1
          BY <3>2, <3>4, <4>1
        <4>2. CASE j = 2
          BY <3>2, <3>4, <4>2
        <4>3. CASE j = 3
          BY <3>2, <3>4, <4>3
        <4>4. CASE j = 4
          BY <3>2, <3>4, <4>4
        <4>5. QED
          BY <3>5, <4>1, <4>2, <4>3, <4>4
      <3>7. QED
        BY <2>2, <3>1, <3>3, <3>6
    <2>5. QED
      BY <2>3, <2>4
  <1>4. t = [k \in 1 .. size |-> t[k]]
    BY <1>2
  <1>5. t = [k \in 1 .. size |->
                IF k <= letters THEN Value(m, 8, 6, 6 * (k - 1)) ELSE Equals]
    BY <1>3, <1>4
  <1>6. QED
    BY <1>5, Zenon DEF Encoding, letters, size

\* base64_encode gives RFC 4648's encoding of every message, of any length.
THEOREM EncodingIsRFC == Spec => []EncodesRFC
  <1>1. IInv => EncodesRFC
    <2> SUFFICES ASSUME IInv, doing = "encoded" PROVE ret = Encoding(message)
      BY DEF EncodesRFC
    <2>1. PICK q \in Nat, r \in 0 .. 2 : Encodes(message, ret, q, r)
      BY DEF IInv
    <2>2. message \in Seq(Octet) /\ ret \in Seq(Octet)
      BY TypesAreOctets DEF IInv, Typed
    <2>3. QED
      BY <2>1, <2>2, EncodesAsRFC
  <1>2. QED
    BY <1>1, IInvInit, IInvNext, PTL DEF Spec

-----------------------------------------------------------------------------
(***************************************************************************)
(* Decoding any text.                                                      *)
(***************************************************************************)
\* The bits of a letter, and what they sum to.
LEMMA LetterBits ==
    ASSUME NEW a \in 0 .. 63
    PROVE  /\ \A i \in 0 .. 5 : BitOf(a, i) \in 0 .. 1
           /\ a = 32 * BitOf(a, 5) + 16 * BitOf(a, 4) + 8 * BitOf(a, 3)
                      + 4 * BitOf(a, 2) + 2 * BitOf(a, 1) + BitOf(a, 0)
           /\ a % 4 = 2 * BitOf(a, 1) + BitOf(a, 0)
           /\ a \div 4 = 8 * BitOf(a, 5) + 4 * BitOf(a, 4) + 2 * BitOf(a, 3) + BitOf(a, 2)
           /\ a \div 16 = 2 * BitOf(a, 5) + BitOf(a, 4)
           /\ a % 16 = 8 * BitOf(a, 3) + 4 * BitOf(a, 2) + 2 * BitOf(a, 1) + BitOf(a, 0)
  <1>1. a \in 0 .. 255 /\ a % 64 = a /\ a \div 64 = 0
    OBVIOUS
  <1>2. BitOf(a, 7) = 0 /\ BitOf(a, 6) = 0
    <2>1. 2 ^ 7 = 128 /\ 2 ^ 6 = 64
      OBVIOUS
    <2>2. (a \div 128) % 2 = 0 /\ (a \div 64) % 2 = 0
      OBVIOUS
    <2>3. QED
      BY <2>1, <2>2, Zenon DEF BitOf
  <1> DEFINE b0 == BitOf(a, 0)
             b1 == BitOf(a, 1)
             b2 == BitOf(a, 2)
             b3 == BitOf(a, 3)
             b4 == BitOf(a, 4)
             b5 == BitOf(a, 5)
  <1>3. /\ \A i \in 0 .. 5 : BitOf(a, i) \in 0 .. 1
        /\ b0 \in 0 .. 1 /\ b1 \in 0 .. 1 /\ b2 \in 0 .. 1
        /\ b3 \in 0 .. 1 /\ b4 \in 0 .. 1 /\ b5 \in 0 .. 1
    BY <1>1, ByteBits
  <1>4. /\ a % 64 = 32 * b5 + 16 * b4 + 8 * b3 + 4 * b2 + 2 * b1 + b0
        /\ a % 4 = 2 * b1 + b0
        /\ a \div 4 = 32 * 0 + 16 * 0 + 8 * b5 + 4 * b4 + 2 * b3 + b2
        /\ a \div 16 = 8 * 0 + 4 * 0 + 2 * b5 + b4
        /\ a % 16 = 8 * b3 + 4 * b2 + 2 * b1 + b0
    BY <1>1, <1>2, ByteBits
  <1> HIDE DEF b0, b1, b2, b3, b4, b5
  <1>5. /\ a = 32 * b5 + 16 * b4 + 8 * b3 + 4 * b2 + 2 * b1 + b0
        /\ a % 4 = 2 * b1 + b0
        /\ a \div 4 = 8 * b5 + 4 * b4 + 2 * b3 + b2
        /\ a \div 16 = 2 * b5 + b4
        /\ a % 16 = 8 * b3 + 4 * b2 + 2 * b1 + b0
    BY <1>1, <1>3, <1>4
  <1>6. QED
    BY <1>3, <1>5 DEF b0, b1, b2, b3, b4, b5

\* Bit i of letter h of group u of a text.
LEMMA BitsOfLetters ==
    ASSUME NEW s \in Seq(0 .. 63), NEW u \in Nat, NEW h \in 1 .. 4, NEW i \in 0 .. 5,
           4 * u + h <= Len(s)
    PROVE  Bit(s, 6, 24 * u + 6 * (h - 1) + i) = BitOf(s[4 * u + h], 5 - i)
  <1> DEFINE k == 4 * u + (h - 1)
  <1>1. /\ (24 * u + 6 * (h - 1) + i) \div 6 = k
        /\ (24 * u + 6 * (h - 1) + i) % 6 = i
        /\ 6 - 1 - i = 5 - i
    <2>1. k \in Nat /\ 24 * u + 6 * (h - 1) + i = 6 * k + i
      OBVIOUS
    <2> HIDE DEF k
    <2>2. (6 * k + i) \div 6 = k /\ (6 * k + i) % 6 = i /\ 6 - 1 - i = 5 - i
      BY <2>1
    <2>3. QED
      BY <2>1, <2>2
  <1>2. k + 1 = 4 * u + h /\ k < Len(s)
    OBVIOUS
  <1>3. Bit(s, 6, 24 * u + 6 * (h - 1) + i) =
            IF k < Len(s) THEN BitOf(s[k + 1], 5 - i) ELSE 0
    BY <1>1 DEF Bit, BitOf
  <1> HIDE DEF k
  <1>4. QED
    BY <1>2, <1>3

\* Eight bits from two letters are the byte that Octets makes of them,
\* whatever the group's other letters are.
LEMMA ByteOfLetters ==
    ASSUME NEW s \in Seq(0 .. 63), NEW u \in Nat, NEW j \in 1 .. 3,
           4 * u + j + 1 <= Len(s), NEW c \in [1 .. 4 -> Octet],
           c[j] = s[4 * u + j], c[j + 1] = s[4 * u + j + 1]
    PROVE  Octets(c)[j] = Value(s, 6, 8, 24 * u + 8 * (j - 1))
  <1> DEFINE x == s[4 * u + j]
             y == s[4 * u + (j + 1)]
             n == 24 * u + 8 * (j - 1)
             B(k) == Bit(s, 6, 24 * u + k)
  <1>1. x \in 0 .. 63 /\ y \in 0 .. 63
    <2>1. 4 * u + j \in 1 .. Len(s) /\ 4 * u + (j + 1) \in 1 .. Len(s)
      OBVIOUS
    <2>2. QED
      BY <2>1, ElementOfSeq
  <1>2. c[j] = x /\ c[j + 1] = y /\ n \in Nat
    <2>1. 4 * u + j + 1 = 4 * u + (j + 1)
      OBVIOUS
    <2>2. QED
      BY <2>1
  <1>3. /\ \A i \in 0 .. 5 : B(6 * (j - 1) + i) = BitOf(x, 5 - i)
        /\ \A i \in 0 .. 5 : B(6 * j + i) = BitOf(y, 5 - i)
    <2>1. ASSUME NEW i \in 0 .. 5
          PROVE  B(6 * (j - 1) + i) = BitOf(x, 5 - i)
      <3>1. 24 * u + (6 * (j - 1) + i) = 24 * u + 6 * (j - 1) + i
            /\ j \in 1 .. 4 /\ 4 * u + j <= Len(s)
        OBVIOUS
      <3>2. Bit(s, 6, 24 * u + 6 * (j - 1) + i) = BitOf(s[4 * u + j], 5 - i)
        BY <3>1, BitsOfLetters
      <3>3. QED
        BY <3>1, <3>2
    <2>2. ASSUME NEW i \in 0 .. 5
          PROVE  B(6 * j + i) = BitOf(y, 5 - i)
      <3> DEFINE h == j + 1
      <3>1. 24 * u + (6 * j + i) = 24 * u + 6 * (h - 1) + i
            /\ h \in 1 .. 4 /\ 4 * u + h <= Len(s)
        OBVIOUS
      <3> HIDE DEF h
      <3>2. Bit(s, 6, 24 * u + 6 * (h - 1) + i) = BitOf(s[4 * u + h], 5 - i)
        BY <3>1, BitsOfLetters
      <3>3. QED
        BY <3>1, <3>2 DEF h
    <2>3. QED
      BY <2>1, <2>2
  <1> DEFINE b == [i \in 0 .. 7 |-> B(8 * (j - 1) + i)]
  <1>4. \A i \in 0 .. 7 : b[i] = B(8 * (j - 1) + i)
    OBVIOUS
  <1>5. BitsAre(s, 6, 8, n, b)
    <2> SUFFICES ASSUME NEW i \in 0 .. 7
                 PROVE  Bit(s, 6, n + i) = B(8 * (j - 1) + i)
      BY <1>4 DEF BitsAre
    <2>1. n + i = 24 * u + (8 * (j - 1) + i)
      OBVIOUS
    <2>2. QED
      BY <2>1
  <1>6. b = [i \in 0 .. 7 |-> b[i]]
    OBVIOUS
  <1> HIDE DEF B, b, x, y, n
  <1> DEFINE x0 == BitOf(x, 0)
             x1 == BitOf(x, 1)
             x2 == BitOf(x, 2)
             x3 == BitOf(x, 3)
             x4 == BitOf(x, 4)
             x5 == BitOf(x, 5)
             y0 == BitOf(y, 0)
             y1 == BitOf(y, 1)
             y2 == BitOf(y, 2)
             y3 == BitOf(y, 3)
             y4 == BitOf(y, 4)
             y5 == BitOf(y, 5)
  <1>7. /\ x0 \in 0 .. 1 /\ x1 \in 0 .. 1 /\ x2 \in 0 .. 1
        /\ x3 \in 0 .. 1 /\ x4 \in 0 .. 1 /\ x5 \in 0 .. 1
        /\ y0 \in 0 .. 1 /\ y1 \in 0 .. 1 /\ y2 \in 0 .. 1
        /\ y3 \in 0 .. 1 /\ y4 \in 0 .. 1 /\ y5 \in 0 .. 1
    <2>1. \A a \in 0 .. 63 : \A i \in 0 .. 5 : BitOf(a, i) \in 0 .. 1
      BY LetterBits
    <2>2. \A i \in 0 .. 5 : BitOf(x, i) \in 0 .. 1 /\ BitOf(y, i) \in 0 .. 1
      BY <1>1, <2>1
    <2>3. QED
      BY <2>2
  <1>8. /\ x = 32 * x5 + 16 * x4 + 8 * x3 + 4 * x2 + 2 * x1 + x0
        /\ x % 4 = 2 * x1 + x0
        /\ x % 16 = 8 * x3 + 4 * x2 + 2 * x1 + x0
    BY <1>1, LetterBits
  <1>9. /\ y = 32 * y5 + 16 * y4 + 8 * y3 + 4 * y2 + 2 * y1 + y0
        /\ y \div 4 = 8 * y5 + 4 * y4 + 2 * y3 + y2
        /\ y \div 16 = 2 * y5 + y4
    BY <1>1, LetterBits
  <1>10. /\ B(6 * (j - 1) + 0) = x5 /\ B(6 * (j - 1) + 1) = x4
         /\ B(6 * (j - 1) + 2) = x3 /\ B(6 * (j - 1) + 3) = x2
         /\ B(6 * (j - 1) + 4) = x1 /\ B(6 * (j - 1) + 5) = x0
         /\ B(6 * j + 0) = y5 /\ B(6 * j + 1) = y4 /\ B(6 * j + 2) = y3
         /\ B(6 * j + 3) = y2 /\ B(6 * j + 4) = y1 /\ B(6 * j + 5) = y0
    BY <1>3
  <1>11. /\ b[0] = B(8 * (j - 1) + 0) /\ b[1] = B(8 * (j - 1) + 1)
         /\ b[2] = B(8 * (j - 1) + 2) /\ b[3] = B(8 * (j - 1) + 3)
         /\ b[4] = B(8 * (j - 1) + 4) /\ b[5] = B(8 * (j - 1) + 5)
         /\ b[6] = B(8 * (j - 1) + 6) /\ b[7] = B(8 * (j - 1) + 7)
    BY <1>4
  <1> HIDE DEF x0, x1, x2, x3, x4, x5, y0, y1, y2, y3, y4, y5
  <1>12. ASSUME b[0] \in 0 .. 1, b[1] \in 0 .. 1, b[2] \in 0 .. 1, b[3] \in 0 .. 1,
                b[4] \in 0 .. 1, b[5] \in 0 .. 1, b[6] \in 0 .. 1, b[7] \in 0 .. 1
         PROVE  Value(s, 6, 8, n) = Eight(b)
    <2>1. \A i \in {0, 1, 2, 3, 4, 5, 6, 7} : b[i] \in 0 .. 1
      BY <1>12
    <2>2. \A i \in 0 .. 7 : i \in {0, 1, 2, 3, 4, 5, 6, 7}
      OBVIOUS
    <2>3. b \in [0 .. 7 -> 0 .. 1]
      BY <1>6, <2>1, <2>2
    <2>4. QED
      BY <1>2, <1>5, <2>3, ValueOfEight
  <1>13. CASE j = 1
    <2>1. /\ b[0] = x5 /\ b[1] = x4 /\ b[2] = x3 /\ b[3] = x2
          /\ b[4] = x1 /\ b[5] = x0 /\ b[6] = y5 /\ b[7] = y4
      BY <1>10, <1>11, <1>13
    <2>2. Value(s, 6, 8, n) = 128 * x5 + 64 * x4 + 32 * x3 + 16 * x2
                                  + 8 * x1 + 4 * x0 + 2 * y5 + y4
      BY <1>7, <1>12, <2>1 DEF Eight
    <2>3. Octets(c)[j] = ((x * 4) + ((y \div 16) % 4)) % 256
      BY <1>2, <1>13 DEF Octets
    <2>4. Octets(c)[j] = (((32 * x5 + 16 * x4 + 8 * x3 + 4 * x2 + 2 * x1 + x0) * 4) + ((2 * y5 + y4) % 4)) % 256
      BY <1>8, <1>9, <2>3
    <2>5. (((32 * x5 + 16 * x4 + 8 * x3 + 4 * x2 + 2 * x1 + x0) * 4) + ((2 * y5 + y4) % 4)) % 256
              = 128 * x5 + 64 * x4 + 32 * x3 + 16 * x2
                  + 8 * x1 + 4 * x0 + 2 * y5 + y4
      <3> DEFINE z == 2 * y5 + y4
                 w == ((32 * x5 + 16 * x4 + 8 * x3 + 4 * x2 + 2 * x1 + x0) * 4) + z
      <3>1. z \in 0 .. 3
        BY <1>7
      <3>2. w \in 0 .. 255
        BY <1>7
      <3>3. w = 128 * x5 + 64 * x4 + 32 * x3 + 16 * x2 + 8 * x1 + 4 * x0 + 2 * y5 + y4
        BY <1>7
      <3>4. (\A k \in 0 .. 3 : k % 4 = k) /\ (\A k \in 0 .. 255 : k % 256 = k)
        OBVIOUS
      <3>5. z % 4 = z /\ w % 256 = w
        BY <3>1, <3>2, <3>4, Zenon
      <3>6. QED
        BY <3>3, <3>5, Zenon
    <2>6. QED
      BY <2>2, <2>4, <2>5 DEF n
  <1>14. CASE j = 2
    <2>1. /\ b[0] = x3 /\ b[1] = x2 /\ b[2] = x1 /\ b[3] = x0
          /\ b[4] = y5 /\ b[5] = y4 /\ b[6] = y3 /\ b[7] = y2
      BY <1>10, <1>11, <1>14
    <2>2. Value(s, 6, 8, n) = 128 * x3 + 64 * x2 + 32 * x1 + 16 * x0
                                  + 8 * y5 + 4 * y4 + 2 * y3 + y2
      BY <1>7, <1>12, <2>1 DEF Eight
    <2>3. Octets(c)[j] = (((x % 16) * 16) + ((y \div 4) % 16)) % 256
      BY <1>2, <1>14 DEF Octets
    <2>4. Octets(c)[j] = (((8 * x3 + 4 * x2 + 2 * x1 + x0) * 16) + ((8 * y5 + 4 * y4 + 2 * y3 + y2) % 16)) % 256
      BY <1>8, <1>9, <2>3
    <2>5. (((8 * x3 + 4 * x2 + 2 * x1 + x0) * 16) + ((8 * y5 + 4 * y4 + 2 * y3 + y2) % 16)) % 256
              = 128 * x3 + 64 * x2 + 32 * x1 + 16 * x0
                  + 8 * y5 + 4 * y4 + 2 * y3 + y2
      <3> DEFINE z == 8 * y5 + 4 * y4 + 2 * y3 + y2
                 w == ((8 * x3 + 4 * x2 + 2 * x1 + x0) * 16) + z
      <3>1. z \in 0 .. 15
        BY <1>7
      <3>2. w \in 0 .. 255
        BY <1>7
      <3>3. w = 128 * x3 + 64 * x2 + 32 * x1 + 16 * x0 + 8 * y5 + 4 * y4 + 2 * y3 + y2
        BY <1>7
      <3>4. (\A k \in 0 .. 15 : k % 16 = k) /\ (\A k \in 0 .. 255 : k % 256 = k)
        OBVIOUS
      <3>5. z % 16 = z /\ w % 256 = w
        BY <3>1, <3>2, <3>4, Zenon
      <3>6. QED
        BY <3>3, <3>5, Zenon
    <2>6. QED
      BY <2>2, <2>4, <2>5 DEF n
  <1>15. CASE j = 3
    <2>1. /\ b[0] = x1 /\ b[1] = x0 /\ b[2] = y5 /\ b[3] = y4
          /\ b[4] = y3 /\ b[5] = y2 /\ b[6] = y1 /\ b[7] = y0
      BY <1>10, <1>11, <1>15
    <2>2. Value(s, 6, 8, n) = 128 * x1 + 64 * x0 + 32 * y5 + 16 * y4
                                  + 8 * y3 + 4 * y2 + 2 * y1 + y0
      BY <1>7, <1>12, <2>1 DEF Eight
    <2>3. Octets(c)[j] = (((x % 4) * 64) + y) % 256
      BY <1>2, <1>15 DEF Octets
    <2>4. Octets(c)[j] = (((2 * x1 + x0) * 64) + (32 * y5 + 16 * y4 + 8 * y3 + 4 * y2 + 2 * y1 + y0)) % 256
      BY <1>8, <1>9, <2>3
    <2>5. (((2 * x1 + x0) * 64) + (32 * y5 + 16 * y4 + 8 * y3 + 4 * y2 + 2 * y1 + y0)) % 256
              = 128 * x1 + 64 * x0 + 32 * y5 + 16 * y4
                  + 8 * y3 + 4 * y2 + 2 * y1 + y0
      BY <1>7
    <2>6. QED
      BY <2>2, <2>4, <2>5 DEF n
  <1>16. QED
    BY <1>13, <1>14, <1>15

\* Four letters of a text.
Quad(t, u) == [j \in 1 .. 4 |-> t[4 * u + j]]

\* While base64_decode reads any text: p groups have given their bytes, letters
\* of the next are at hand, and nothing else has been met.
GroupsDecoded(p) ==
    /\ in_ = 4 * p + Len(group)
    /\ Len(ret) = 3 * p
    /\ \A k \in 1 .. in_ : IsBase64(input[k])
    /\ \A j \in 1 .. Len(group) : group[j] = input[4 * p + j]
    /\ \A u \in 0 .. p - 1 : \A j \in 1 .. 3 : ret[3 * u + j] = Octets(Quad(input, u))[j]

\* The invariant of decoding.
DInv ==
    /\ doing = "decode" => \E p \in Nat : GroupsDecoded(p)
    /\ DecodesLetters

\* Nothing read is nothing decoded.
LEMMA NothingDecoded ==
    ASSUME in_ = 0, group = <<>>, ret = <<>>
    PROVE  GroupsDecoded(0)
  BY EmptySeq DEF GroupsDecoded

\* DInv holds before the first step ...
LEMMA DInvInit == Init => DInv
  <1> SUFFICES ASSUME Init PROVE DInv
    OBVIOUS
  <1>1. GroupsDecoded(0)
    BY NothingDecoded DEF Init
  <1>2. doing # "decoded"
    BY DEF Init
  <1>3. QED
    BY <1>1, <1>2 DEF DInv, DecodesLetters

\* ... a letter keeps it, ...
LEMMA GroupsDecodedNext ==
    ASSUME TypeOK, NEW p \in Nat, GroupsDecoded(p), DecodeLetter
    PROVE  \E k \in Nat : GroupsDecoded(k)'
  <1> DEFINE g == Append(group, input[in_ + 1])
  <1>1. /\ in_ < Len(input) /\ in_' = in_ + 1 /\ IsBase64(input[in_ + 1])
        /\ UNCHANGED <<doing, message, input>>
    BY DEF DecodeLetter, MoreLetters
  <1>2. Typed /\ Len(group) \in Nat /\ Len(input) \in Nat /\ in_ \in Nat
    <2>1. Typed
      BY TypesAreOctets
    <2>2. QED
      BY <2>1 DEF Typed
  <1>3. /\ g \in Seq(Octet) /\ Len(g) = Len(group) + 1 /\ g \in [1 .. Len(g) -> Octet]
        /\ \A k \in 1 .. Len(group) : g[k] = group[k]
        /\ g[Len(group) + 1] = input[in_ + 1]
    BY <1>1, <1>2, Gathers
  <1> HIDE DEF g
  <1>4. in_ = 4 * p + Len(group) /\ in_' = 4 * p + Len(g)
    BY <1>1, <1>2, <1>3 DEF GroupsDecoded
  <1>5. \A k \in 1 .. in_' : IsBase64(input'[k])
    BY <1>1, <1>2 DEF GroupsDecoded
  <1>6. \A j \in 1 .. Len(g) : g[j] = input[4 * p + j]
    <2> SUFFICES ASSUME NEW j \in 1 .. Len(g) PROVE g[j] = input[4 * p + j]
      OBVIOUS
    <2>1. CASE j = Len(group) + 1
      <3>1. in_ + 1 = 4 * p + j
        BY <1>2, <1>4, <2>1
      <3>2. QED
        BY <1>3, <2>1, <3>1
    <2>2. CASE j # Len(group) + 1
      <3>1. j \in 1 .. Len(group)
        BY <1>2, <1>3, <2>2
      <3>2. QED
        BY <1>3, <3>1 DEF GroupsDecoded
    <2>3. QED
      BY <2>1, <2>2
  <1>7. CASE Len(g) # 4
    <2>1. ret' = ret /\ group' = g
      BY <1>7 DEF DecodeLetter, Full, g
    <2>2. GroupsDecoded(p)'
      BY <1>1, <1>4, <1>5, <1>6, <2>1 DEF GroupsDecoded
    <2>3. QED
      BY <2>2
  <1>8. CASE Len(g) = 4
    <2> DEFINE c == [k \in 1 .. 4 |-> Find(g[k])]
    <2>1. ret' = ret \o Octets(c) /\ group' = <<>>
      BY <1>8 DEF DecodeLetter, Full, g
    <2>2. g \in [1 .. 4 -> Octet]
      BY <1>3, <1>8
    <2>3. /\ Len(ret') = Len(ret) + 3
          /\ \A k \in 1 .. Len(ret) : ret'[k] = ret[k]
          /\ \A k \in 1 .. 3 : ret'[Len(ret) + k] = Octets(c)[k]
      BY <1>2, <2>1, <2>2, WritesBytes
    <2>4. Len(ret) = 3 * p
      BY DEF GroupsDecoded
    <2>5. c = Quad(input, p)
      <3>1. ASSUME NEW k \in 1 .. 4 PROVE Find(g[k]) = input[4 * p + k]
        <4>1. g[k] = input[4 * p + k] /\ 4 * p + k \in 1 .. in_'
          BY <1>4, <1>6, <1>8
        <4>2. g[k] \in 0 .. 63
          BY <1>1, <1>5, <4>1 DEF IsBase64
        <4>3. QED
          BY <4>1, <4>2, FindLetter
      <3>2. QED
        BY <3>1 DEF Quad
    <2> HIDE DEF c
    <2>6. ASSUME NEW u \in 0 .. p, NEW j \in 1 .. 3
          PROVE  ret'[3 * u + j] = Octets(Quad(input, u))[j]
      <3>1. CASE u = p
        BY <2>3, <2>4, <2>5, <3>1
      <3>2. CASE u # p
        <4>1. u \in 0 .. p - 1 /\ 3 * u + j \in 1 .. 3 * p
          BY <3>2
        <4>2. ret[3 * u + j] = Octets(Quad(input, u))[j]
          BY <4>1 DEF GroupsDecoded
        <4>3. QED
          BY <2>3, <2>4, <4>1, <4>2
      <3>3. QED
        BY <3>1, <3>2
    <2>7. Len(group') = 0 /\ in_' = 4 * (p + 1) + 0 /\ Len(ret') = 3 * (p + 1)
      BY <1>4, <1>8, <2>1, <2>3, <2>4, EmptySeq
    <2>8. GroupsDecoded(p + 1)'
      <3>1. \A j \in 1 .. Len(group') : group'[j] = input'[4 * (p + 1) + j]
        BY <2>7
      <3>2. \A u \in 0 .. (p + 1) - 1 : u \in 0 .. p
        OBVIOUS
      <3>3. QED
        BY <1>1, <1>5, <2>6, <2>7, <3>1, <3>2 DEF GroupsDecoded
    <2>9. p + 1 \in Nat
      OBVIOUS
    <2>10. QED
      BY <2>8, <2>9
  <1>9. QED
    BY <1>7, <1>8

\* The letters that Decoding chooses are those the loop has read.
LEMMA LettersRead ==
    ASSUME NEW s \in Seq(Octet), NEW n \in 0 .. Len(s),
           \A k \in 1 .. n : s[k] < 64,
           n < Len(s) => s[n + 1] >= 64
    PROVE  n = CHOOSE k \in 0 .. Len(s) :
                   /\ \A i \in 1 .. k : s[i] < 64
                   /\ k < Len(s) => s[k + 1] >= 64
  <1> DEFINE P(k) == /\ \A i \in 1 .. k : s[i] < 64
                     /\ k < Len(s) => s[k + 1] >= 64
  <1>1. P(n)
    OBVIOUS
  <1>2. ASSUME NEW k \in 0 .. Len(s), P(k) PROVE k = n
    <2>1. \A i \in 1 .. Len(s) : s[i] \in 0 .. 255
      BY ElementOfSeq DEF Octet
    <2>2. \A x \in 0 .. 255 : ~(x < 64 /\ x >= 64)
      OBVIOUS
    <2>3. CASE k < n
      <3>1. k + 1 \in 1 .. n /\ k < Len(s) /\ k + 1 \in 1 .. Len(s)
        BY <2>3
      <3>2. s[k + 1] < 64 /\ s[k + 1] >= 64 /\ s[k + 1] \in 0 .. 255
        BY <1>2, <2>1, <3>1
      <3>3. QED
        BY <2>2, <3>2, Zenon
    <2>4. CASE n < k
      <3>1. n + 1 \in 1 .. k /\ n < Len(s) /\ n + 1 \in 1 .. Len(s)
        BY <2>4
      <3>2. s[n + 1] < 64 /\ s[n + 1] >= 64 /\ s[n + 1] \in 0 .. 255
        BY <1>2, <2>1, <3>1
      <3>3. QED
        BY <2>2, <3>2, Zenon
    <2>5. QED
      BY <2>3, <2>4
  <1> HIDE DEF P
  <1>3. n = CHOOSE k \in 0 .. Len(s) : P(k)
    BY <1>1, <1>2
  <1>4. QED
    BY <1>3 DEF P

\* The rest of a text is decoded to the whole bytes in front of the first
\* character that is no letter.
LEMMA DecodesRest ==
    ASSUME TypeOK, NEW p \in Nat, GroupsDecoded(p), DecodeRest
    PROVE  ret' = Decoding(input)
  <1> DEFINE i == Len(group)
             n == in_
             last == Filled(4, Foreign)
             c == [k \in 1 .. 4 |-> Find(last[k])]
             s == SubSeq(input, 1, n)
  <1>1. doing = "decode" /\ ~MoreLetters
    BY DEF DecodeRest
  <1>2. /\ Typed /\ input \in Seq(Octet) /\ i \in {0, 1, 2, 3}
        /\ Len(input) \in Nat /\ n \in Nat /\ n <= Len(input)
    <2>1. Typed /\ i <= 3
      BY <1>1, TypesAreOctets DEF TypeOK
    <2>2. i \in Nat /\ input \in Seq(Octet) /\ Len(input) \in Nat /\ n \in 0 .. Len(input)
      BY <2>1 DEF Typed
    <2>3. i = 0 \/ i \in {1, 2, 3}
      BY <2>1, <2>2, SmallNumbers
    <2>4. QED
      BY <2>1, <2>2, <2>3
  <1>3. n = 4 * p + i /\ Len(ret) = 3 * p
    BY DEF GroupsDecoded
  <1>4. \A k \in 1 .. n : input[k] \in 0 .. 63
    BY DEF GroupsDecoded, IsBase64
  <1>5. n = CHOOSE k \in 0 .. Len(input) :
                /\ \A j \in 1 .. k : input[j] < 64
                /\ k < Len(input) => input[k + 1] >= 64
    <2>1. \A k \in 1 .. n : input[k] < 64
      BY <1>4
    <2>2. ASSUME n < Len(input) PROVE input[n + 1] >= 64
      <3>1. input[n + 1] \in 0 .. 255
        <4>1. n + 1 \in 1 .. Len(input)
          BY <1>2, <2>2
        <4>2. QED
          BY <1>2, <4>1, ElementOfSeq DEF Octet
      <3>2. ~(input[n + 1] \in 0 .. 63)
        BY <1>1, <2>2 DEF MoreLetters, IsBase64
      <3>3. QED
        BY <3>1, <3>2
    <2>3. n \in 0 .. Len(input)
      BY <1>2
    <2> HIDE DEF n
    <2>4. QED
      BY <1>2, <2>1, <2>2, <2>3, LettersRead
  <1>6. /\ s \in Seq(0 .. 63) /\ Len(s) = n
        /\ \A k \in 1 .. n : s[k] = input[k]
    <2> HIDE DEF n
    <2>1. \A k \in 1 .. n : input[k] \in 0 .. 63
      BY <1>4
    <2>2. /\ s \in Seq(0 .. 63)
          /\ Len(s) = IF 1 <= n THEN n - 1 + 1 ELSE 0
          /\ \A k \in 1 .. n - 1 + 1 : s[k] = input[1 + k - 1]
      BY <1>2, <2>1, SubSeqProperties
    <2>3. QED
      BY <1>2, <2>2
  <1> DEFINE size == (6 * n) \div 8
  <1>7. size = 3 * p + (IF i = 0 THEN 0 ELSE i - 1) /\ size \in Nat
    <2>1. CASE i = 0
      BY <1>3, <2>1
    <2>2. CASE i = 1
      BY <1>3, <2>2
    <2>3. CASE i = 2
      BY <1>3, <2>3
    <2>4. CASE i = 3
      BY <1>3, <2>4
    <2>5. QED
      BY <1>2, <2>1, <2>2, <2>3, <2>4
  <1>8. /\ ret' \in Seq(Octet) /\ Len(ret') = size
        /\ \A k \in 1 .. 3 * p : ret'[k] = ret[k]
        /\ i > 1 => \A k \in 1 .. i - 1 : ret'[3 * p + k] = Octets(c)[k]
    <2>1. CASE i = 0
      <3>1. ret' = ret
        BY <2>1 DEF DecodeRest
      <3>2. QED
        BY <1>2, <1>3, <1>7, <2>1, <3>1 DEF Typed
    <2>2. CASE i # 0
      <3>1. ret' = ret \o SubSeq(Octets(c), 1, BytesOfRest(i))
        BY <2>2 DEF DecodeRest
      <3>2. i \in {1, 2, 3}
        BY <1>2, <2>2
      <3>3. /\ ret' \in Seq(Octet) /\ Len(ret') = Len(ret) + (i - 1)
            /\ \A k \in 1 .. Len(ret) : ret'[k] = ret[k]
            /\ \A k \in 1 .. i - 1 : ret'[Len(ret) + k] = Octets(c)[k]
        BY <1>2, <3>1, <3>2, WritesRest
      <3>4. QED
        BY <1>3, <1>7, <2>2, <3>3
    <2>3. QED
      BY <2>1, <2>2
  <1>9. c \in [1 .. 4 -> Octet] /\ \A k \in 1 .. i : c[k] = input[4 * p + k]
    <2>1. Foreign \in Octet /\ group \in Seq(Octet)
      BY <1>2 DEF Typed, Octet, Foreign
    <2>2. last \in [1 .. 4 -> Octet]
      BY <2>1, FilledIsSeq
    <2>3. \A k \in 1 .. i : k \in 1 .. 4 /\ last[k] = group[k]
      BY <1>2 DEF Filled
    <2> HIDE DEF last
    <2>4. c \in [1 .. 4 -> Octet]
      BY <2>2, FoundType
    <2>5. ASSUME NEW k \in 1 .. i PROVE c[k] = input[4 * p + k]
      <3>1. group[k] = input[4 * p + k]
        BY DEF GroupsDecoded
      <3>2. 4 * p + k \in 1 .. n
        BY <1>2, <1>3
      <3>3. input[4 * p + k] \in 0 .. 63
        BY <1>4, <3>2
      <3>4. c[k] = Find(last[k])
        BY <2>3
      <3>5. QED
        BY <2>3, <3>1, <3>3, <3>4, FindLetter
    <2>6. QED
      BY <2>4, <2>5
  <1> HIDE DEF c, s, size
  <1>10. ASSUME NEW k \in 1 .. size
         PROVE  ret'[k] = Value(s, 6, 8, 8 * (k - 1))
    <2> DEFINE u == (k - 1) \div 3
               j == ((k - 1) % 3) + 1
    <2>1. /\ u \in Nat /\ j \in 1 .. 3 /\ k = 3 * u + j
          /\ 8 * (k - 1) = 24 * u + 8 * (j - 1)
      BY <1>7
    <2> HIDE DEF u, j
    <2>2. ASSUME NEW d \in [1 .. 4 -> Octet], 4 * u + j + 1 <= n,
                 d[j] = input[4 * u + j], d[j + 1] = input[4 * u + j + 1]
          PROVE  Octets(d)[j] = Value(s, 6, 8, 8 * (k - 1))
      <3>1. 4 * u + j \in 1 .. n /\ 4 * u + j + 1 \in 1 .. n
        BY <1>2, <2>1, <2>2
      <3>2. d[j] = s[4 * u + j] /\ d[j + 1] = s[4 * u + j + 1] /\ 4 * u + j + 1 <= Len(s)
        BY <1>6, <2>2, <3>1
      <3>3. QED
        BY <1>6, <2>1, <3>2, ByteOfLetters
    <2>3. CASE u < p
      <3>1. u \in 0 .. p - 1 /\ k \in 1 .. 3 * p /\ 4 * u + j + 1 <= n
        BY <1>2, <1>3, <2>1, <2>3
      <3>2. ret'[k] = Octets(Quad(input, u))[j]
        <4>1. ret[k] = Octets(Quad(input, u))[j]
          BY <2>1, <3>1 DEF GroupsDecoded
        <4>2. QED
          BY <1>8, <3>1, <4>1
      <3>3. Quad(input, u) \in [1 .. 4 -> Octet]
        <4>1. ASSUME NEW h \in 1 .. 4 PROVE input[4 * u + h] \in Octet
          <5>1. 4 * u + h \in 1 .. Len(input)
            BY <1>2, <1>3, <3>1
          <5>2. QED
            BY <1>2, <5>1, ElementOfSeq
        <4>2. QED
          BY <4>1 DEF Quad
      <3>4. /\ Quad(input, u)[j] = input[4 * u + j]
            /\ Quad(input, u)[j + 1] = input[4 * u + j + 1]
        <4>1. j \in 1 .. 4 /\ j + 1 \in 1 .. 4 /\ 4 * u + (j + 1) = 4 * u + j + 1
          BY <2>1
        <4>2. QED
          BY <4>1 DEF Quad
      <3>5. QED
        BY <2>2, <3>1, <3>2, <3>3, <3>4
    <2>4. CASE ~(u < p)
      <3>1. u = p /\ i > 1 /\ j \in 1 .. i - 1 /\ j + 1 \in 1 .. i
        <4>1. 3 * u + j <= size /\ u >= p
          <5>1. u >= p
            BY <2>1, <2>4
          <5>2. size \in Nat
            BY <1>7
          <5>3. k <= size
            BY <5>2
          <5>4. QED
            BY <2>1, <5>1, <5>3
        <4>2. CASE i = 0
          <5>1. size = 3 * p
            BY <1>7, <4>2
          <5>2. QED
            BY <2>1, <4>1, <5>1
        <4>3. CASE i = 1
          <5>1. size = 3 * p
            BY <1>7, <4>3
          <5>2. QED
            BY <2>1, <4>1, <5>1
        <4>4. CASE i = 2
          <5>1. size = 3 * p + 1
            BY <1>7, <4>4
          <5>2. QED
            BY <2>1, <4>1, <4>4, <5>1
        <4>5. CASE i = 3
          <5>1. size = 3 * p + 2
            BY <1>7, <4>5
          <5>2. QED
            BY <2>1, <4>1, <4>5, <5>1
        <4>6. QED
          BY <1>2, <4>2, <4>3, <4>4, <4>5
      <3>2. ret'[k] = Octets(c)[j]
        BY <1>8, <2>1, <3>1
      <3>3. 4 * u + j + 1 <= n /\ 4 * p + (j + 1) = 4 * u + j + 1 /\ j \in 1 .. i
        BY <1>2, <1>3, <2>1, <3>1
      <3>4. c[j] = input[4 * u + j] /\ c[j + 1] = input[4 * u + j + 1]
        <4>1. c[j] = input[4 * p + j] /\ c[j + 1] = input[4 * p + (j + 1)]
          BY <1>9, <3>1, <3>3
        <4>2. QED
          BY <3>1, <3>3, <4>1
      <3>5. QED
        BY <1>9, <2>2, <3>2, <3>3, <3>4
    <2>5. QED
      BY <2>3, <2>4
  <1>11. ret' = [k \in 1 .. size |-> ret'[k]]
    BY <1>8
  <1>12. ret' = [k \in 1 .. size |-> Value(s, 6, 8, 8 * (k - 1))]
    BY <1>10, <1>11
  <1>13. QED
    <2> DEFINE letters == CHOOSE k \in 0 .. Len(input) :
                              /\ \A j \in 1 .. k : input[j] < 64
                              /\ k < Len(input) => input[k + 1] >= 64
    <2>1. Decoding(input) = [k \in 1 .. (6 * letters) \div 8 |->
                                Value(SubSeq(input, 1, letters), 6, 8, 8 * (k - 1))]
      BY DEF Decoding
    <2>2. letters = n
      BY <1>5
    <2> HIDE DEF letters
    <2>3. QED
      BY <1>12, <2>1, <2>2 DEF s, size

\* ... and so does every step.
LEMMA DInvNext == TypeOK /\ DInv /\ [Next]_vars => DInv'
  <1> SUFFICES ASSUME TypeOK, DInv, [Next]_vars PROVE DInv'
    OBVIOUS
  <1>1. CASE EncodeByte \/ EncodeRest
    BY <1>1 DEF EncodeByte, EncodeRest, DInv, DecodesLetters
  <1>2. CASE Decode
    <2>1. doing' = "decode" /\ in_' = 0 /\ group' = <<>> /\ ret' = <<>>
      BY <1>2 DEF Decode
    <2>2. GroupsDecoded(0)'
      BY <2>1, EmptySeq DEF GroupsDecoded
    <2>3. QED
      BY <2>1, <2>2 DEF DInv, DecodesLetters
  <1>3. CASE DecodeLetter
    <2>1. doing = "decode" /\ doing' = "decode"
      BY <1>3 DEF DecodeLetter
    <2>2. QED
      BY <1>3, <2>1, GroupsDecodedNext DEF DInv, DecodesLetters
  <1>4. CASE DecodeRest
    <2>1. doing = "decode" /\ doing' = "decoded" /\ input' = input
      BY <1>4 DEF DecodeRest
    <2>2. PICK p \in Nat : GroupsDecoded(p)
      BY <2>1 DEF DInv
    <2>3. ret' = Decoding(input)
      BY <1>4, <2>2, DecodesRest
    <2>4. QED
      BY <2>1, <2>3 DEF DInv, DecodesLetters
  <1>5. CASE UNCHANGED vars
    BY <1>5 DEF vars, DInv, DecodesLetters, GroupsDecoded
  <1>6. QED
    BY <1>1, <1>2, <1>3, <1>4, <1>5 DEF Next

\* base64_decode gives the whole bytes in front of the first character that is
\* no letter, for every text of any length, well formed or not.
THEOREM DecodingIsRFC == Spec => []DecodesLetters
  <1>1. DInv => DecodesLetters
    BY DEF DInv
  <1>2. QED
    BY <1>1, DInvInit, DInvNext, Base64TypeCorrect, PTL DEF Spec
=============================================================================
