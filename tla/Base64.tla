-------------------------------- MODULE Base64 --------------------------------
(***************************************************************************)
(* base64_encode and base64_decode, a pass of their loops per step: bytes  *)
(* are gathered in groups of three and written as four letters, letters in *)
(* groups of four and written as three bytes, and what is left over at the *)
(* end is padded.  A run encodes a message and decodes the result, or      *)
(* decodes a text that nobody has encoded.                                 *)
(*                                                                         *)
(* A letter is its index in base64_chars, which has 64 different ones;     *)
(* Equals is '=', and Foreign any other character, the '\0' that fills up  *)
(* the decoder's last group among them.  Arrays count from 1.              *)
(***************************************************************************)
EXTENDS Integers, Sequences

CONSTANTS Bytes,        \* the bytes a message is made of
          Letters,      \* the letters of texts nobody has encoded
          MaxLength     \* bound: the length of a message or text

Equals == 64
Foreign == 65

ASSUME Base64Assumption ==
    /\ Bytes \subseteq 0 .. 255
    /\ Letters \subseteq 0 .. 63
    /\ MaxLength \in Nat

VARIABLES
    doing,              \* "encode", "encoded", "decode", "decoded"
    message,            \* the bytes that were encoded; <<>> for a foreign text
    input,              \* the argument of the function that runs
    in_,                \* how much of it has been read
    group,              \* what has been read of the current group
    ret                 \* the result so far

vars == <<doing, message, input, in_, group, ret>>

SeqUpTo(S, n) == UNION {[1 .. k -> S] : k \in 0 .. n}

Init ==
    /\ \/ /\ doing = "encode"
          /\ message \in SeqUpTo(Bytes, MaxLength)
          /\ input = message
       \/ /\ doing = "decode"
          /\ message = <<>>
          /\ input \in SeqUpTo(Letters \cup {Equals, Foreign}, MaxLength)
    /\ in_ = 0
    /\ group = <<>>
    /\ ret = <<>>

-----------------------------------------------------------------------------
\* The four letters of three bytes.
ShiftedSextets(a) == << a[1] \div 4,
                        ((a[1] % 4) * 16) + a[2] \div 16,
                        ((a[2] % 16) * 4) + a[3] \div 16,
                        a[3] % 64 >>

Sextets(a) == << a[1] \div 4,
                 ((a[1] % 4) * 16) + a[2] \div 16,
                 ((a[2] % 16) * 4) + a[3] \div 64,
                 a[3] % 64 >>

\* base64_chars.find, in an unsigned char: npos becomes 255.
Find(c) == IF c < 64 THEN c ELSE 255

\* The three bytes of four indices, in unsigned chars.
Octets(c) == << ((c[1] * 4) + ((c[2] \div 16) % 4)) % 256,
                (((c[2] % 16) * 16) + ((c[3] \div 4) % 16)) % 256,
                (((c[3] % 4) * 64) + c[4]) % 256 >>

\* The group, filled up to n elements.
Filled(n, c) == [k \in 1 .. n |-> IF k <= Len(group) THEN group[k] ELSE c]

Full(g, n) == Len(g) = n

\* while (in_len--): one pass.
EncodeByte ==
    LET gathered == Append(group, input[in_ + 1]) IN
    /\ doing = "encode"
    /\ in_ < Len(input)
    /\ in_' = in_ + 1
    /\ IF Full(gathered, 3)
       THEN ret' = ret \o Sextets(gathered) /\ group' = <<>>
       ELSE group' = gathered /\ UNCHANGED ret
    /\ UNCHANGED <<doing, message, input>>

\* How many letters, bytes, are written of an incomplete group of i.
OneLetterPerByte(i) == i
LettersOfRest(i) == i + 1

BytesOfRest(i) == i - 1

\* if (i) ... return.
EncodeRest ==
    LET i == Len(group)
        rest == SubSeq(Sextets(Filled(3, 0)), 1, LettersOfRest(i))
    IN  /\ doing = "encode"
        /\ in_ = Len(input)
        /\ ret' = IF i = 0 THEN ret
                  ELSE ret \o rest \o [k \in 1 .. 3 - i |-> Equals]
        /\ doing' = "encoded"
        /\ UNCHANGED <<message, input, in_, group>>

\* Somebody decodes the result.
Decode ==
    /\ doing = "encoded"
    /\ doing' = "decode"
    /\ input' = ret
    /\ in_' = 0
    /\ group' = <<>>
    /\ ret' = <<>>
    /\ UNCHANGED message

NotEquals(c) == c # Equals
IsBase64(c) == c \in 0 .. 63

MoreLetters == in_ < Len(input) /\ IsBase64(input[in_ + 1])

DecodeLetter ==
    LET gathered == Append(group, input[in_ + 1]) IN
    /\ doing = "decode"
    /\ MoreLetters
    /\ in_' = in_ + 1
    /\ IF Full(gathered, 4)
       THEN ret' = ret \o Octets([k \in 1 .. 4 |-> Find(gathered[k])]) /\ group' = <<>>
       ELSE group' = gathered /\ UNCHANGED ret
    /\ UNCHANGED <<doing, message, input>>

\* The loop is over: the end, an '=' or a foreign character.
DecodeRest ==
    LET i == Len(group)
        last == Filled(4, Foreign)
    IN  /\ doing = "decode"
        /\ ~MoreLetters
        /\ ret' = IF i = 0 THEN ret
                  ELSE ret \o SubSeq(Octets([k \in 1 .. 4 |-> Find(last[k])]),
                                     1, BytesOfRest(i))
        /\ doing' = "decoded"
        /\ UNCHANGED <<message, input, in_, group>>

Next == EncodeByte \/ EncodeRest \/ Decode \/ DecodeLetter \/ DecodeRest

Spec == Init /\ [][Next]_vars

-----------------------------------------------------------------------------
(***************************************************************************)
(* RFC 4648, in bits: a string of characters of w bits each is a string of *)
(* bits, most significant first, with zeros after its end; it is read      *)
(* again as characters of another width.                                   *)
(***************************************************************************)
Bit(s, w, n) ==
    LET k == n \div w IN
    IF k < Len(s) THEN (s[k + 1] \div 2 ^ (w - 1 - (n % w))) % 2 ELSE 0

\* The number that the v bits from bit n on write.
Value(s, w, v, n) ==
    LET f[j \in 0 .. v] == IF j = 0 THEN 0 ELSE 2 * f[j - 1] + Bit(s, w, n + j - 1)
    IN  f[v]

\* As many letters as hold all bits, then '=' up to a multiple of four.
Encoding(s) ==
    LET letters == (8 * Len(s) + 5) \div 6
        size == 4 * ((Len(s) + 2) \div 3)
    IN  [k \in 1 .. size |-> IF k <= letters THEN Value(s, 8, 6, 6 * (k - 1)) ELSE Equals]

\* The whole bytes in the text's first letters, up to what is no letter.
Decoding(s) ==
    LET letters == CHOOSE n \in 0 .. Len(s) :
            /\ \A k \in 1 .. n : s[k] < 64
            /\ n < Len(s) => s[n + 1] >= 64
    IN  [k \in 1 .. (6 * letters) \div 8 |-> Value(SubSeq(s, 1, letters), 6, 8, 8 * (k - 1))]

-----------------------------------------------------------------------------
\* Types of the variables; no array is ever overrun.
TypeOK ==
    /\ doing \in {"encode", "encoded", "decode", "decoded"}
    /\ message \in Seq(0 .. 255)
    /\ input \in Seq(0 .. 255)
    /\ in_ \in 0 .. Len(input)
    /\ group \in Seq(0 .. 255)
    /\ Len(group) <= (IF doing \in {"encode", "encoded"} THEN 2 ELSE 3)
    /\ ret \in Seq(0 .. 255)

\* base64_encode gives RFC 4648's encoding of every message.
EncodesRFC == doing = "encoded" => ret = Encoding(message)

\* base64_decode gives the whole bytes in front of the first character that is
\* not a letter, whatever the text: half a byte left over, '=' in the middle and
\* the '\0's that fill up the last group add nothing.
DecodesLetters == doing = "decoded" => ret = Decoding(input)

\* What was encoded is decoded to the same bytes.
RoundTrip == doing = "decoded" /\ message # <<>> => ret = message
=============================================================================
