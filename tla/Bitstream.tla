----------------------------- MODULE Bitstream -----------------------------
(***************************************************************************)
(* The bit streams (bitstream.h): an output stream over a buffer nobody    *)
(* has initialised, then an input stream over the bytes it says it wrote.  *)
(* Both go through a word of WORD bytes where there is room for one, and   *)
(* byte by byte in the last bytes of the buffer.                           *)
(*                                                                         *)
(* Memory and words are functions from bit numbers to bits, the least      *)
(* significant bit of the first byte being bit 0.                          *)
(***************************************************************************)
EXTENDS Integers, Sequences

CONSTANTS
  CHAR_BIT,   \* bits of a byte (8)
  WORD,       \* bytes of a word (8)
  MaxCap      \* bound on the size of the buffer, in bytes

ASSUME BitstreamAssumption ==
  CHAR_BIT \in Nat \ {0} /\ WORD \in Nat \ {0} /\ MaxCap \in Nat

Bit == {0, 1}
WordBits == 0 .. CHAR_BIT * WORD - 1
ISTREAM_MIN_BITS == CHAR_BIT * WORD - (CHAR_BIT - 1)   \* 57, and ostream_write's limit
round_up(x, m) == ((x + m - 1) \div m) * m

VARIABLES
  dst, end,    \* the buffer and its size in bytes
  bitpos,      \* the position of the output stream, then of the input stream
  length,      \* the bytes of the input stream, or NotYet
  given        \* the bits given to the output stream, those it skips included

vars == <<dst, end, bitpos, length, given>>

NotYet == -1
Writing == length = NotYet

Init ==
  /\ end \in 0 .. MaxCap
  /\ dst \in [0 .. CHAR_BIT * end - 1 -> Bit]
  /\ bitpos = 0 /\ length = NotYet /\ given = <<>>

-----------------------------------------------------------------------------
read64le(m, p) == [k \in WordBits |-> m[CHAR_BIT * p + k]]
BytesLe(m, p, past) ==
  [k \in WordBits |-> IF CHAR_BIT * p + k < CHAR_BIT * past THEN m[CHAR_BIT * p + k] ELSE 0]
write64le(p, x) == [k \in DOMAIN dst |-> IF k - CHAR_BIT * p \in WordBits THEN x[k - CHAR_BIT * p] ELSE dst[k]]

lsb_All(x, n) == x    \* mutant: what the buffer held stays in the word
lsb(x, n) == [k \in WordBits |-> IF k < n THEN x[k] ELSE 0]
Or(x, y) == [k \in WordBits |-> IF x[k] = 1 \/ y[k] = 1 THEN 1 ELSE 0]
ShiftLeft(bits, n) == [k \in WordBits |-> IF k - n + 1 \in DOMAIN bits THEN bits[k - n + 1] ELSE 0]
ShiftRight(x, n) == [k \in WordBits |-> IF k + n \in WordBits THEN x[k + n] ELSE 0]

(* ostream_write.  The bits above the ones written become zero, up to the  *)
(* end of the word or of the buffer.  Without room nothing changes.        *)
ostream_write(bits) ==
  LET p == bitpos \div CHAR_BIT
      shift == bitpos % CHAR_BIT
      x == IF end - p >= WORD THEN read64le(dst, p) ELSE BytesLe(dst, p, end)
  IN /\ Writing /\ CHAR_BIT * end - bitpos >= Len(bits)
     /\ dst' = write64le(p, Or(lsb(x, shift), ShiftLeft(bits, shift)))
     /\ bitpos' = bitpos + Len(bits) /\ given' = given \o bits
     /\ UNCHANGED <<end, length>>

Zeros(n) == [k \in 1 .. n |-> 0]

(* ostream_write_bytes_aligned skips to the next byte, and copies bytes.   *)
ostream_write_bytes_aligned(bits) ==
  LET at == round_up(bitpos, CHAR_BIT)
  IN /\ Writing /\ CHAR_BIT * end - at >= Len(bits)
     /\ dst' = [k \in DOMAIN dst |-> IF k - at + 1 \in DOMAIN bits THEN bits[k - at + 1] ELSE dst[k]]
     /\ bitpos' = at + Len(bits) /\ given' = given \o Zeros(at - bitpos) \o bits
     /\ UNCHANGED <<end, length>>

ostream_bytes_written == round_up(bitpos, CHAR_BIT) \div CHAR_BIT

(* istream_init over what has been written.                                *)
istream_init ==
  /\ Writing
  /\ length' = ostream_bytes_written /\ bitpos' = 0
  /\ UNCHANGED <<dst, end, given>>

(* What istream_bits returns.                                              *)
istream_bits ==
  LET next == bitpos \div CHAR_BIT
      bits == IF length - next >= WORD THEN read64le(dst, next) ELSE BytesLe(dst, next, length)
  IN ShiftRight(bits, bitpos % CHAR_BIT)

istream_advance(n) ==
  /\ ~Writing /\ bitpos + n <= CHAR_BIT * length
  /\ bitpos' = bitpos + n
  /\ UNCHANGED <<dst, end, length, given>>

istream_byte_align ==
  /\ ~Writing
  /\ bitpos' = round_up(bitpos, CHAR_BIT)
  /\ UNCHANGED <<dst, end, length, given>>

Bits(n) == [1 .. n -> Bit]
Next ==
  \/ \E n \in 0 .. ISTREAM_MIN_BITS : \E bits \in Bits(n) : ostream_write(bits)
  \/ \E n \in 0 .. end : \E bits \in Bits(CHAR_BIT * n) : ostream_write_bytes_aligned(bits)
  \/ istream_init
  \/ \E n \in 0 .. ISTREAM_MIN_BITS : istream_advance(n)
  \/ istream_byte_align

Spec == Init /\ [][Next]_vars

-----------------------------------------------------------------------------
(* Bit k of a stream of the bits given: zeros follow them.                 *)
Stream(k) == IF k + 1 \in DOMAIN given THEN given[k + 1] ELSE 0

(* Whatever the buffer held and whichever path each access took, at every  *)
(* position istream_bits returns the bits that were given, in their order, *)
(* at least ISTREAM_MIN_BITS of them, and zeros for an alignment that was  *)
(* skipped, for the rest of the last byte and after the end.  While the    *)
(* stream is written, the bits below its position are those given.         *)
StreamIsExact ==
  IF Writing
  THEN Len(given) = bitpos /\ \A k \in 0 .. bitpos - 1 : dst[k] = Stream(k)
  ELSE \A k \in 0 .. ISTREAM_MIN_BITS - 1 : istream_bits[k] = Stream(bitpos + k)
=============================================================================
