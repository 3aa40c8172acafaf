------------------------------ MODULE Huffman ------------------------------
(***************************************************************************)
(* The canonical Huffman code of huffman.c: the decoder's tables           *)
(* (huffman_decoder_init), decoding with them (huffman_decode) and the     *)
(* codewords the encoder gives its symbols (compute_canonical_code).       *)
(*                                                                         *)
(* A word is read with its first bit as its most significant one.  The     *)
(* code keeps codewords and input the other way around and calls reverse16 *)
(* where it compares them; here they are compared as they are.             *)
(***************************************************************************)
EXTENDS Integers, FiniteSets, FiniteSetsExt, Functions

CONSTANTS
  MAX_HUFFMAN_SYMBOLS,        \* bound on the number of symbols (288)
  MAX_HUFFMAN_BITS,           \* the longest codeword (15)
  HUFFMAN_LOOKUP_TABLE_BITS,  \* bits looked up at once (8)
  WORD,                       \* 2 to the width of the tables' integers (65536)
  UNINIT                      \* a table entry nobody has written

ASSUME HuffmanAssumption ==
  /\ MAX_HUFFMAN_SYMBOLS \in Nat /\ MAX_HUFFMAN_SYMBOLS < WORD
  /\ MAX_HUFFMAN_BITS \in Nat /\ HUFFMAN_LOOKUP_TABLE_BITS \in 1 .. MAX_HUFFMAN_BITS
  /\ WORD = 2 ^ (MAX_HUFFMAN_BITS + 1)
  /\ UNINIT \notin Int

VARIABLES
  n, lengths,                                \* the arguments
  table, sentinel_bits,                      \* huffman_decoder_t
  offset_first_sym_idx, syms,
  code, sym_idx, l, i,                       \* the locals of huffman_decoder_init
  pc, result,                                \* "none" or what it returned
  bits, decoded, num_used_bits               \* a call of huffman_decode

args == <<n, lengths>>
decoder == <<table, sentinel_bits, offset_first_sym_idx, syms>>
locals == <<code, sym_idx, l, i>>
answer == <<bits, decoded, num_used_bits>>
vars == <<args, decoder, locals, pc, result, answer>>

Symbols == 0 .. n - 1
Lengths == 0 .. MAX_HUFFMAN_BITS
Words == 0 .. 2 ^ MAX_HUFFMAN_BITS - 1

uint16_Signed(x) == x   \* mutant: the difference is left negative
uint16(x) == x % WORD

(* The first k bits of a word of m bits, as a number.                      *)
First(w, k, m) == w \div 2 ^ (m - k)

(* Codewords of a length; the unused symbols, of length 0, have none.      *)
count_Unused(k) == Cardinality({x \in Symbols : lengths[x] = k})   \* mutant: count[0] is kept
count(k) == IF k = 0 THEN 0 ELSE Cardinality({x \in Symbols : lengths[x] = k})

NoEntry == [sym |-> UNINIT, len |-> 0]

Init ==
  /\ n \in 0 .. MAX_HUFFMAN_SYMBOLS
  /\ lengths \in [Symbols -> Lengths]
  /\ table = [x \in 0 .. 2 ^ HUFFMAN_LOOKUP_TABLE_BITS - 1 |-> NoEntry]
  /\ sentinel_bits = [k \in Lengths |-> UNINIT]
  /\ offset_first_sym_idx = [k \in Lengths |-> UNINIT]
  /\ syms = [x \in 0 .. MAX_HUFFMAN_SYMBOLS - 1 |-> UNINIT]
  /\ code = [k \in Lengths |-> IF k = 0 THEN 0 ELSE UNINIT]
  /\ sym_idx = [k \in Lengths |-> IF k = 0 THEN 0 ELSE UNINIT]
  /\ l = 1 /\ i = 0
  /\ pc = "lengths" /\ result = "none"
  /\ bits = UNINIT /\ decoded = UNINIT /\ num_used_bits = UNINIT

-----------------------------------------------------------------------------
(* The last codeword of length k would need more than k bits.              *)
TooLong_Slack(first, k) == count(k) # 0 /\ first + count(k) - 1 > 2 ^ k   \* mutant: off by one
TooLong(first, k) == count(k) # 0 /\ first + count(k) - 1 > 2 ^ k - 1

FirstCodeword == uint16((code[l - 1] + count(l - 1)) * 2)

LengthStep ==
  /\ pc = "lengths" /\ l <= MAX_HUFFMAN_BITS
  /\ ~TooLong(FirstCodeword, l)
  /\ code' = [code EXCEPT ![l] = FirstCodeword]
  /\ sentinel_bits' =
       [sentinel_bits EXCEPT ![l] = uint16((FirstCodeword + count(l)) * 2 ^ (MAX_HUFFMAN_BITS - l))]
  /\ sym_idx' = [sym_idx EXCEPT ![l] = sym_idx[l - 1] + count(l - 1)]
  /\ offset_first_sym_idx' = [offset_first_sym_idx EXCEPT ![l] = uint16(sym_idx'[l] - code'[l])]
  /\ l' = l + 1
  /\ UNCHANGED <<args, table, syms, i, pc, result, answer>>

NotPrefixCode ==
  /\ pc = "lengths" /\ l <= MAX_HUFFMAN_BITS
  /\ TooLong(FirstCodeword, l)
  /\ code' = [code EXCEPT ![l] = FirstCodeword]
  /\ pc' = "done" /\ result' = "false"
  /\ UNCHANGED <<args, decoder, sym_idx, l, i, answer>>

LengthsEnd ==
  /\ pc = "lengths" /\ l > MAX_HUFFMAN_BITS
  /\ pc' = "symbols"
  /\ UNCHANGED <<args, decoder, locals, result, answer>>

(* Every index that starts with the codeword means the symbol.             *)
table_insert(sym, len, codeword) ==
  table' = [x \in DOMAIN table |->
              IF First(x, len, HUFFMAN_LOOKUP_TABLE_BITS) = codeword
              THEN [sym |-> sym, len |-> len] ELSE table[x]]

(* Symbol i: its place among the symbols of its length, its table entries. *)
SymbolStep ==
  /\ pc = "symbols" /\ i < n
  /\ LET k == lengths[i]
     IN IF k = 0
        THEN UNCHANGED <<syms, sym_idx, table, code>>
        ELSE /\ syms' = [syms EXCEPT ![sym_idx[k]] = i]
             /\ sym_idx' = [sym_idx EXCEPT ![k] = @ + 1]
             /\ IF k <= HUFFMAN_LOOKUP_TABLE_BITS
                THEN table_insert(i, k, code[k]) /\ code' = [code EXCEPT ![k] = @ + 1]
                ELSE UNCHANGED <<table, code>>
  /\ i' = i + 1
  /\ UNCHANGED <<args, sentinel_bits, offset_first_sym_idx, l, pc, result, answer>>

Ready ==
  /\ pc = "symbols" /\ i >= n
  /\ pc' = "ready" /\ result' = "true"
  /\ UNCHANGED <<args, decoder, locals, answer>>

-----------------------------------------------------------------------------
Lookup(w) == table[First(w, HUFFMAN_LOOKUP_TABLE_BITS, MAX_HUFFMAN_BITS)]

(* The long lengths whose codewords w could start with; the loop stops at  *)
(* the shortest.                                                           *)
InCode_Inclusive(w) ==   \* mutant: the word after the last codeword is taken for one
  {k \in HUFFMAN_LOOKUP_TABLE_BITS + 1 .. MAX_HUFFMAN_BITS : w <= sentinel_bits[k]}
InCode(w) ==
  {k \in HUFFMAN_LOOKUP_TABLE_BITS + 1 .. MAX_HUFFMAN_BITS : w < sentinel_bits[k]}

DecodeLookup(w) ==
  /\ Lookup(w).len # 0
  /\ decoded' = Lookup(w).sym /\ num_used_bits' = Lookup(w).len

(* An index past the symbols reads whatever is there.                      *)
DecodeCanonical(w) ==
  /\ Lookup(w).len = 0 /\ InCode(w) # {}
  /\ LET k == Min(InCode(w))
         idx == uint16(offset_first_sym_idx[k] + First(w, k, MAX_HUFFMAN_BITS))
     IN /\ decoded' = IF idx \in DOMAIN syms THEN syms[idx] ELSE UNINIT
        /\ num_used_bits' = k

NoSymbol(w) ==
  /\ Lookup(w).len = 0 /\ InCode(w) = {}
  /\ decoded' = -1 /\ num_used_bits' = 0

huffman_decode ==
  /\ pc = "ready"
  /\ \E w \in Words :
       /\ bits' = w
       /\ DecodeLookup(w) \/ DecodeCanonical(w) \/ NoSymbol(w)
  /\ pc' = "done"
  /\ UNCHANGED <<args, decoder, locals, result>>

Next ==
  \/ LengthStep \/ NotPrefixCode \/ LengthsEnd \/ SymbolStep \/ Ready
  \/ huffman_decode

Spec == Init /\ [][Next]_vars

-----------------------------------------------------------------------------
(* compute_canonical_code: the codewords of a length are consecutive, in   *)
(* the order of their symbols.                                             *)
FirstCode[k \in Lengths] == IF k = 0 THEN 0 ELSE uint16((FirstCode[k - 1] + count(k - 1)) * 2)

codeword(x) ==
  uint16(FirstCode[lengths[x]] + Cardinality({y \in 0 .. x - 1 : lengths[y] = lengths[x]}))

-----------------------------------------------------------------------------
TypeOK ==
  /\ n \in 0 .. MAX_HUFFMAN_SYMBOLS /\ lengths \in [Symbols -> Lengths]
  /\ table \in [0 .. 2 ^ HUFFMAN_LOOKUP_TABLE_BITS - 1 ->
                  [sym : Symbols \cup {UNINIT}, len : 0 .. HUFFMAN_LOOKUP_TABLE_BITS]]
  /\ sentinel_bits \in [Lengths -> 0 .. WORD - 1 \cup {UNINIT}]
  /\ offset_first_sym_idx \in [Lengths -> 0 .. WORD - 1 \cup {UNINIT}]
  /\ syms \in [0 .. MAX_HUFFMAN_SYMBOLS - 1 -> Symbols \cup {UNINIT}]
  /\ code \in [Lengths -> 0 .. WORD - 1 \cup {UNINIT}]
  /\ sym_idx \in [Lengths -> 0 .. n \cup {UNINIT}]
  /\ l \in 1 .. MAX_HUFFMAN_BITS + 1 /\ i \in 0 .. n
  /\ pc \in {"lengths", "symbols", "ready", "done"} /\ result \in {"none", "true", "false"}

(* The words that start with a codeword of at most k bits, were no two of  *)
(* the codewords to share one: Kraft's sum, scaled.                        *)
Covered(k) ==
  SumFunctionOnSet([x \in Symbols |-> 2 ^ (MAX_HUFFMAN_BITS - lengths[x])],
                   {x \in Symbols : lengths[x] \in 1 .. k})

(* The lengths are refused exactly when no prefix code has them            *)
(* (huffman.h:38), however the 16-bit sums wrap on the way.                *)
RefusesNonPrefixCodes ==
  result # "none" => (result = "true" <=> Covered(MAX_HUFFMAN_BITS) <= 2 ^ MAX_HUFFMAN_BITS)

(* The sentinel of a length counts the words that the codewords up to it   *)
(* take, and never wraps (the "No overflow." assert of huffman.c:69): a    *)
(* complete code's last sentinel is one more than the largest word.        *)
SentinelsExact == \A k \in 1 .. l - 1 : sentinel_bits[k] = Covered(k)

(* Decoding undoes encoding: for every word, through the lookup table or   *)
(* the sentinels, the answer is the one symbol whose codeword the word     *)
(* starts with, or -1 and no bits when there is none.                      *)
DecodesTheCode ==
  bits # UNINIT =>
    LET starts == {x \in Symbols : lengths[x] # 0
                                     /\ First(bits, lengths[x], MAX_HUFFMAN_BITS) = codeword(x)}
    IN IF starts = {} THEN decoded = -1 /\ num_used_bits = 0
                      ELSE starts = {decoded} /\ num_used_bits = lengths[decoded]
=============================================================================
