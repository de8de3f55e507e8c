---------------------------- MODULE Sha256Stream ----------------------------
(***************************************************************************)
(* The buffering of class SHA256: init, any number of updates of any       *)
(* lengths, and final, which pads.  transform, the compression function,   *)
(* is abstracted to the cells it is given: what matters is that it sees    *)
(* the padded message, however the message was cut.                        *)
(*                                                                         *)
(* A cell of memory holds byte k of the message, a zero, the mark 0x80, a  *)
(* byte of the length field, or what was in the memory before init.  The   *)
(* block size and the width of unsigned int are parameters (64 and 2^32).  *)
(***************************************************************************)
EXTENDS Integers, Sequences

CONSTANTS BLOCK,        \* SHA224_256_BLOCK_SIZE
          WORD,         \* unsigned int counts modulo WORD
          MaxUpdate,    \* bound: bytes in one update
          MaxTotal      \* bound: bytes in a message

ASSUME Sha256Assumption ==
    /\ BLOCK \in Nat /\ BLOCK > 9
    /\ WORD \in Nat
    /\ MaxUpdate \in Nat /\ MaxTotal \in Nat
    /\ MaxTotal + 2 * BLOCK < WORD

VARIABLES
    m_block,            \* the buffer, two blocks long
    m_len,              \* bytes of the message that wait in it
    m_tot_len,          \* bytes that have been transformed
    hashed,             \* the cells transform was given, in order
    total,              \* bytes of the message so far
    finished            \* final has run

vars == <<m_block, m_len, m_tot_len, hashed, total, finished>>

Byte(k)      == <<"byte", k>>
Zero         == <<"zero">>
Mark         == <<"mark">>
Length(v, j) == <<"length", v, j>>      \* byte j of the word v, big-endian
Raw          == <<"raw">>

Buffer == 0 .. 2 * BLOCK - 1

\* Cells a .. b - 1 of a buffer, and bytes a .. b - 1 of the message.
Cells(block, a, b) == [i \in 1 .. b - a |-> block[a + i - 1]]
Message(a, b) == [i \in 1 .. b - a |-> Byte(a + i - 1)]

\* memcpy(&block[at], message + from, n)
Copy(block, at, from, n) ==
    [i \in Buffer |-> IF at <= i /\ i < at + n THEN Byte(from + i - at) ELSE block[i]]

Init ==
    /\ m_block = [i \in Buffer |-> Raw]
    /\ m_len = 0
    /\ m_tot_len = 0
    /\ hashed = <<>>
    /\ total = 0
    /\ finished = FALSE

-----------------------------------------------------------------------------
\* update, when the bytes do not fill the block and when they do.
FitsOrFills(len) == m_len + len <= BLOCK
Fits(len) == m_len + len < BLOCK

Collect(len) ==
    /\ m_block' = Copy(m_block, m_len, total, len)
    /\ m_len' = m_len + len
    /\ UNCHANGED <<m_tot_len, hashed>>

KeepWrongTail(len) ==
    LET rem_len   == BLOCK - m_len
        new_len   == len - rem_len
        block_nb  == new_len \div BLOCK
        shifted   == total + rem_len
        first     == Copy(m_block, m_len, total, rem_len)
    IN  /\ hashed' = hashed \o Cells(first, 0, BLOCK)
                            \o Message(shifted, shifted + block_nb * BLOCK)
        /\ m_block' = Copy(first, 0, shifted, new_len % BLOCK)
        /\ m_len' = new_len % BLOCK
        /\ m_tot_len' = (m_tot_len + (block_nb + 1) * BLOCK) % WORD

Transform(len) ==
    LET rem_len   == BLOCK - m_len
        new_len   == len - rem_len
        block_nb  == new_len \div BLOCK
        shifted   == total + rem_len
        first     == Copy(m_block, m_len, total, rem_len)
    IN  /\ hashed' = hashed \o Cells(first, 0, BLOCK)
                            \o Message(shifted, shifted + block_nb * BLOCK)
        /\ m_block' = Copy(first, 0, shifted + block_nb * BLOCK, new_len % BLOCK)
        /\ m_len' = new_len % BLOCK
        /\ m_tot_len' = (m_tot_len + (block_nb + 1) * BLOCK) % WORD

Update(len) ==
    /\ ~finished
    /\ total + len <= MaxTotal
    /\ IF Fits(len) THEN Collect(len) ELSE Transform(len)
    /\ total' = total + len
    /\ UNCHANGED finished

PadTight == IF BLOCK - 8 < m_len % BLOCK THEN 2 ELSE 1
PadBlocks == IF BLOCK - 9 < m_len % BLOCK THEN 2 ELSE 1

\* memset, the mark, and the 32-bit bit length in the last four bytes.
Final ==
    LET pm_len == PadBlocks * BLOCK
        len_b  == (((m_tot_len + m_len) % WORD) * 8) % WORD
        zeroed == [i \in Buffer |-> IF m_len <= i /\ i < pm_len THEN Zero ELSE m_block[i]]
        marked == [zeroed EXCEPT ![m_len] = Mark]
    IN  /\ ~finished
        /\ m_block' = [i \in Buffer |->
               IF pm_len - 4 <= i /\ i < pm_len THEN Length(len_b, i - (pm_len - 4))
               ELSE marked[i]]
        /\ hashed' = hashed \o Cells(m_block', 0, pm_len)
        /\ finished' = TRUE
        /\ UNCHANGED <<m_len, m_tot_len, total>>

\* init, for another message: the buffer keeps what it held.
Reset ==
    /\ finished
    /\ m_len' = 0
    /\ m_tot_len' = 0
    /\ hashed' = <<>>
    /\ total' = 0
    /\ finished' = FALSE
    /\ UNCHANGED m_block

Next ==
    \/ \E len \in 0 .. MaxUpdate : Update(len)
    \/ Final
    \/ Reset

Spec == Init /\ [][Next]_vars

-----------------------------------------------------------------------------
\* The padding of FIPS 180-2: the message, the mark, as few zeros as lead to
\* a whole number of blocks, and the bit length in 64 bits.
Padded(n) ==
    LET size == ((n + 9 + BLOCK - 1) \div BLOCK) * BLOCK
        Cell(i) == CASE i < n         -> Byte(i)
                     [] i = n         -> Mark
                     [] i >= size - 4 -> Length((8 * n) % WORD, i - (size - 4))
                     [] i >= size - 8 /\ 8 * n >= WORD ->
                            Length((8 * n) \div WORD, i - (size - 8))
                     [] OTHER         -> Zero
    IN  [i \in 1 .. size |-> Cell(i - 1)]

\* Types of the variables; the buffered bytes never fill a block.
TypeOK ==
    /\ DOMAIN m_block = Buffer
    /\ finished \in BOOLEAN
    /\ m_len \in 0 .. BLOCK - 1
    /\ m_tot_len \in 0 .. WORD - 1
    /\ total \in 0 .. MaxTotal

\* What has been transformed and what waits in the buffer is the message so
\* far, each byte once and in order, however the updates cut it.
NothingLost ==
    ~finished => hashed \o Cells(m_block, 0, m_len) = Message(0, total)

\* transform has been given the padded message of FIPS 180-2, and nothing that
\* was in the buffer before.
HashOfPadded == finished => hashed = Padded(total)
=============================================================================
