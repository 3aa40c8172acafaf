------------------------------- MODULE Tables -------------------------------
(***************************************************************************)
(* The tables (tables.c, as generate_tables.c makes them) and the code     *)
(* that goes through them: the symbols and extra bits write_huffman_block  *)
(* takes for a reference and inf_block reads back, the codes of a fixed    *)
(* block, reverse16 and crc32.  A machine word is the set of its 1 bits.   *)
(* Nothing here has a state: what must hold of the tables is stated as     *)
(* assumptions, which TLC evaluates.                                       *)
(***************************************************************************)
LOCAL INSTANCE Integers
LOCAL INSTANCE Sequences
LOCAL INSTANCE FiniteSets

Entry(base, ebits) == [base |-> base, ebits |-> ebits]

LITLEN_TBL_OFFSET == 257
litlen_tbl ==   \* from 0
  LET rows == << <<3, 0>>, <<4, 0>>, <<5, 0>>, <<6, 0>>, <<7, 0>>, <<8, 0>>, <<9, 0>>, <<10, 0>>,
                 <<11, 1>>, <<13, 1>>, <<15, 1>>, <<17, 1>>, <<19, 2>>, <<23, 2>>, <<27, 2>>,
                 <<31, 2>>, <<35, 3>>, <<43, 3>>, <<51, 3>>, <<59, 3>>, <<67, 4>>, <<83, 4>>,
                 <<99, 4>>, <<115, 4>>, <<131, 5>>, <<163, 5>>, <<195, 5>>, <<227, 5>>, <<258, 0>> >>
  IN [s \in 0 .. 28 |-> Entry(rows[s + 1][1], rows[s + 1][2])]

dist_tbl ==     \* from 0
  LET rows == << <<1, 0>>, <<2, 0>>, <<3, 0>>, <<4, 0>>, <<5, 1>>, <<7, 1>>, <<9, 2>>, <<13, 2>>,
                 <<17, 3>>, <<25, 3>>, <<33, 4>>, <<49, 4>>, <<65, 5>>, <<97, 5>>, <<129, 6>>,
                 <<193, 6>>, <<257, 7>>, <<385, 7>>, <<513, 8>>, <<769, 8>>, <<1025, 9>>,
                 <<1537, 9>>, <<2049, 10>>, <<3073, 10>>, <<4097, 11>>, <<6145, 11>>,
                 <<8193, 12>>, <<12289, 12>>, <<16385, 13>>, <<24577, 13>> >>
  IN [s \in 0 .. 29 |-> Entry(rows[s + 1][1], rows[s + 1][2])]

(* The loop of the generator: i moves on when the value reaches the base   *)
(* of the next row, so it counts the rows reached.                         *)
RowOf(tbl, x) == Cardinality({s \in DOMAIN tbl \ {0} : tbl[s].base <= x})

len2litlen == [len \in 3 .. 258 |-> LITLEN_TBL_OFFSET + RowOf(litlen_tbl, len)]
distance2dist == [distance \in 1 .. 32768 |-> RowOf(dist_tbl, distance)]

-----------------------------------------------------------------------------
BitsOf(n) == {b \in 0 .. 15 : (n \div 2^b) % 2 = 1}
LOCAL ValueOf(S) ==
  LET f[b \in -1 .. 15] == IF b = -1 THEN 0 ELSE f[b - 1] + (IF b \in S THEN 2^b ELSE 0)
  IN f[15]
LOCAL Up(S, n) == {b + n : b \in S}
LOCAL Down(S, n) == {b - n : b \in {c \in S : c >= n}}
LOCAL Low(S, n) == S \cap 0 .. n - 1

(* The distance codes of a fixed block; all of them take as many bits.     *)
FIXED_DIST_BITS == 5

(* write_huffman_block, a reference: the bits after the code of litlen.    *)
(* The extra bits are or-ed in as they are, with no mask.                  *)
written(len, distance) ==
  LET row == litlen_tbl[len2litlen[len] - LITLEN_TBL_OFFSET]
      dist == distance2dist[distance]
      codeAt == row.ebits
      extraAt == codeAt + FIXED_DIST_BITS
  IN [bits |-> BitsOf(len - row.base) \cup Up(BitsOf(dist), codeAt)
                 \cup Up(BitsOf(distance - dist_tbl[dist].base), extraAt),
      nbits |-> extraAt + dist_tbl[dist].ebits]

(* inf_block, a reference: the length, the distance and the bits used.     *)
read(litlen, bits) ==
  LET row == litlen_tbl[litlen - LITLEN_TBL_OFFSET]
      rest == Down(bits, row.ebits)
      distsym == ValueOf(Low(rest, FIXED_DIST_BITS))
      rest2 == Down(rest, FIXED_DIST_BITS)
  IN [len |-> row.base + ValueOf(Low(bits, row.ebits)),
      distance |-> dist_tbl[distsym].base + ValueOf(Low(rest2, dist_tbl[distsym].ebits)),
      used |-> row.ebits + FIXED_DIST_BITS + dist_tbl[distsym].ebits]

LOCAL ReadsBack(len, distance) ==
  LET w == written(len, distance)
  IN read(len2litlen[len], w.bits) = [len |-> len, distance |-> distance, used |-> w.nbits]

(* The two directions of the tables agree on every length and on every     *)
(* distance: no extra bits spill into the field behind them, and what is   *)
(* read is the reference that was written, with no bit left over           *)
(* (deflate.c:676 and 111; the range asserts of deflate.c:118 and 136).    *)
ASSUME ReferencesReadBack ==
  /\ \A len \in DOMAIN len2litlen : ReadsBack(len, 1) /\ ReadsBack(len, 32768)
  /\ \A distance \in DOMAIN distance2dist : ReadsBack(257, distance)

(* Whatever the bits are, what is read is a length and a distance of the   *)
(* format, and one look at the stream held all of its bits, with codes of  *)
(* up to 15 bits (the asserts of deflate.c:118, 136 and 138).              *)
ASSUME ReadsInRange ==
  \A l \in DOMAIN litlen_tbl, d \in DOMAIN dist_tbl :
    /\ litlen_tbl[l].base \in 3 .. 259 - 2^litlen_tbl[l].ebits
    /\ dist_tbl[d].base \in 1 .. 32769 - 2^dist_tbl[d].ebits
    /\ 15 + litlen_tbl[l].ebits + 15 + dist_tbl[d].ebits <= 64 - 7

-----------------------------------------------------------------------------
(* The code lengths of a fixed block, as the loops of the generator.       *)
fixed_litlen_lengths ==
  [x \in 0 .. 287 |-> CASE x <= 143 -> 8 [] x \in 144 .. 255 -> 9
                       [] x \in 256 .. 279 -> 7 [] OTHER -> 8]
fixed_dist_lengths == [x \in 0 .. 31 |-> FIXED_DIST_BITS]

(* Both are complete codes: every input decodes to some symbol, so of the  *)
(* results of huffman_decode in a fixed block (deflate.c:85) only the      *)
(* symbols that mean nothing are errors.                                   *)
LOCAL Share(lengths, n) ==   \* the words of n bits that begin with a code
  LET f[k \in Nat] == IF k = 0 THEN 0 ELSE f[k - 1] + 2^(n - lengths[k - 1])
  IN f[Cardinality(DOMAIN lengths)]
ASSUME FixedCodesComplete ==
  Share(fixed_litlen_lengths, 9) = 2^9 /\ Share(fixed_dist_lengths, 5) = 2^5

-----------------------------------------------------------------------------
(* reverse8_tbl, and reverse16, which swaps the halves of a word, reverses *)
(* each by the table and drops the bits behind the n that were asked for.  *)
reverse8(x) == {7 - b : b \in x}
reverse16(x, n) ==
  LET lo == Low(x, 8)
      hi == Down(x, 8)
  IN Down(Up(reverse8(lo), 8) \cup reverse8(hi), 16 - n)

(* It reverses the low n bits of any word that has no others, as the       *)
(* comment of bits.h:12 says.                                              *)
ASSUME ReversesLowBits ==
  \A n \in {1, 7, 8, 9, 15, 16} : \A b \in 0 .. n - 1, c \in 0 .. n - 1 :
    reverse16({b, c}, n) = {n - 1 - b, n - 1 - c}

-----------------------------------------------------------------------------
(* crc32, and the table it goes through: a word is 32 bits.                *)
Xor(x, y) == (x \ y) \cup (y \ x)
POLY == {5, 8, 9, 15, 19, 20, 21, 23, 24, 26, 27, 29, 30, 31}

LOCAL Shifted(crc) == Xor(Down(crc, 1), IF 0 \in crc THEN POLY ELSE {})
crc32_tab_entry(idx) ==
  LET f[k \in 0 .. 8] == IF k = 0 THEN BitsOf(idx) ELSE Shifted(f[k - 1])
  IN f[8]
crc32_tbl == [idx \in 0 .. 255 |-> crc32_tab_entry(idx)]

crc32(src) ==
  LET crc[k \in 0 .. Len(src)] ==
        IF k = 0 THEN 0 .. 31
        ELSE Xor(Down(crc[k - 1], 8), crc32_tbl[ValueOf(Low(Xor(crc[k - 1], BitsOf(src[k])), 8))])
  IN Xor(crc[Len(src)], 0 .. 31)

(* Going through the table a byte at a time is dividing by the polynomial  *)
(* a bit at a time; and the value crc32_test.c:11 gives.                   *)
LOCAL BitAtATime(src) ==
  LET bit(k) == {0} \cap Down(BitsOf(src[(k \div 8) + 1]), k % 8)
      f[k \in 0 .. 8 * Len(src)] ==
        IF k = 0 THEN 0 .. 31 ELSE Shifted(Xor(f[k - 1], bit(k - 1)))
  IN Xor(f[8 * Len(src)], 0 .. 31)
ASSUME CrcDividesByThePolynomial ==
  /\ \A a \in 0 .. 255 : crc32(<<a>>) = BitAtATime(<<a>>)
  /\ \A a, b, c \in {0, 1, 128, 255} : crc32(<<a, b, c>>) = BitAtATime(<<a, b, c>>)
  /\ crc32(<<49, 50, 51, 52, 53, 54, 55, 56, 57>>) =
       {1, 2, 5, 8, 11, 12, 13, 18, 20, 21, 22, 23, 24, 25, 27, 30, 31}
=============================================================================
