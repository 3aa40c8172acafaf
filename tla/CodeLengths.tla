---------------------------- MODULE CodeLengths ----------------------------
(***************************************************************************)
(* The header of a dynamic block (deflate.c): the lengths of the two codes *)
(* are joined, run-length coded by encode_lens, and written after a third  *)
(* code, the one for the run-length symbols; init_dyn_decoders reads it    *)
(* all back.                                                               *)
(*                                                                         *)
(* A symbol of the third code is written and read as itself, which is what *)
(* module Huffman is about, as long as both sides have the same lengths.   *)
(* The reader is also given streams this compressor did not write.         *)
(***************************************************************************)
EXTENDS Integers, Sequences, FiniteSets, FiniteSetsExt, Functions

CONSTANTS
  LitlenLens, DistLens,   \* the lengths the two codes may have
  LITLEN_EOB, LITLEN_MAX, DISTSYM_MAX,
  HLIT, HDIST, HCLEN,     \* bits of the three numbers (5, 5, 4)
  CODELEN_MAX_LIT,        \* the longest codeword (15)
  codelen_lengths_order,
  COPY_EBITS, ZEROS_EBITS, ZEROS2_EBITS,   \* 2, 3, 7
  COPY_MIN, ZEROS_MIN,                     \* 3, 3
  CodelenLength,          \* lengths compute_huffman_lengths may give the used run-length symbols
  AnySym,                 \* the symbols of other streams
  UNINIT                  \* a length nobody has written

MIN_LITLEN_LENS == LITLEN_EOB + 1
MIN_DIST_LENS == 1
MIN_CODELEN_LENS == 4
MAX_LITLEN_LENS == MIN_LITLEN_LENS + 2 ^ HLIT - 1
MAX_DIST_LENS == MIN_DIST_LENS + 2 ^ HDIST - 1
MAX_CODELEN_LENS == CODELEN_MAX_LIT + 4
CODELEN_COPY == CODELEN_MAX_LIT + 1
CODELEN_ZEROS == CODELEN_MAX_LIT + 2
CODELEN_ZEROS2 == CODELEN_MAX_LIT + 3
CodelenSym == 0 .. CODELEN_ZEROS2
COPY_MAX == COPY_MIN + 2 ^ COPY_EBITS - 1
ZEROS_MAX == ZEROS_MIN + 2 ^ ZEROS_EBITS - 1
ZEROS2_MIN == ZEROS_MAX + 1
ZEROS2_MAX == ZEROS2_MIN + 2 ^ ZEROS2_EBITS - 1

ASSUME CodeLengthsAssumption ==
  /\ HLIT \in Nat /\ HDIST \in Nat /\ HCLEN \in Nat /\ CODELEN_MAX_LIT \in Nat
  /\ COPY_EBITS \in Nat /\ ZEROS_EBITS \in Nat /\ ZEROS2_EBITS \in Nat
  /\ COPY_MIN \in Nat \ {0} /\ ZEROS_MIN \in Nat \ {0}
  /\ LITLEN_EOB \in Nat /\ LITLEN_MAX \in LITLEN_EOB .. MAX_LITLEN_LENS - 1
  /\ DISTSYM_MAX \in 0 .. MAX_DIST_LENS - 1
  /\ LitlenLens \subseteq [0 .. LITLEN_MAX -> 0 .. CODELEN_MAX_LIT]
  /\ \A f \in LitlenLens : f[LITLEN_EOB] # 0
  /\ DistLens \subseteq [0 .. DISTSYM_MAX -> 0 .. CODELEN_MAX_LIT]
  /\ MAX_CODELEN_LENS = MIN_CODELEN_LENS + 2 ^ HCLEN - 1
  /\ codelen_lengths_order \in [1 .. MAX_CODELEN_LENS -> CodelenSym]
  /\ IsInjective(codelen_lengths_order) /\ Range(codelen_lengths_order) = CodelenSym
  /\ \A x \in 1 .. MIN_CODELEN_LENS :
       codelen_lengths_order[x] \in {0, CODELEN_COPY, CODELEN_ZEROS, CODELEN_ZEROS2}
  /\ CodelenLength \subseteq [CodelenSym -> 1 .. 7]
  /\ AnySym \subseteq CodelenSym /\ UNINIT \notin Int

VARIABLES
  litlen_lens, dist_lens,                 \* the two codes
  num_litlen_lens, num_dist_lens, lens,   \* the joined lengths
  i, encoded,                             \* the lengths passed; the symbols made of them
  codelen_lens, num_codelen_lens,         \* the third code
  dyn_len, written,                       \* bits measured, bits written
  stream,                                 \* what has been written: the numbers, the third code, symbols
  any,                                    \* the reader is given another stream
  r_litlen, r_dist, codelen_lengths, code_lengths,   \* the reader's variables
  pc, k, status

codes == <<litlen_lens, dist_lens>>
joined == <<num_litlen_lens, num_dist_lens, lens>>
third == <<codelen_lens, num_codelen_lens, dyn_len>>
output == <<stream, written>>
reader == <<r_litlen, r_dist, codelen_lengths, code_lengths>>
headerVars == <<codes, joined, i, encoded, third, output, any, reader, pc, k, status>>

AnyOf(S) == CHOOSE x \in S : TRUE

HeaderInit ==
  /\ any \in BOOLEAN
  /\ IF any
     THEN litlen_lens = AnyOf(LitlenLens) /\ dist_lens = AnyOf(DistLens)   \* not used
     ELSE litlen_lens \in LitlenLens /\ dist_lens \in DistLens
  /\ num_litlen_lens = 0 /\ num_dist_lens = 0 /\ lens = <<>>
  /\ i = 0 /\ encoded = <<>>
  /\ codelen_lens = [s \in CodelenSym |-> 0] /\ num_codelen_lens = 0 /\ dyn_len = 0
  /\ stream = [numbers |-> 0, codelens |-> <<>>, symbols |-> <<>>] /\ written = 0
  /\ r_litlen = 0 /\ r_dist = 0
  /\ codelen_lengths = [s \in CodelenSym |-> UNINIT]
  /\ code_lengths = [x \in 0 .. MAX_LITLEN_LENS + MAX_DIST_LENS - 1 |-> UNINIT]
  /\ pc = (IF any THEN "read" ELSE "join")
  /\ k = 0 /\ status = "none"

-----------------------------------------------------------------------------
(* encode_dist_litlen_lens: trailing zeros are dropped, the rest joined.   *)
Trimmed(f, low) == Max({low} \cup {x + 1 : x \in {y \in DOMAIN f : f[y] # 0}})

Join ==
  /\ pc = "join"
  /\ num_litlen_lens' = Trimmed(litlen_lens, 0)
  /\ num_dist_lens' = Trimmed(dist_lens, MIN_DIST_LENS)
  /\ lens' = [x \in 0 .. num_litlen_lens' + num_dist_lens' - 1 |->
                IF x < num_litlen_lens' THEN litlen_lens[x] ELSE dist_lens[x - num_litlen_lens']]
  /\ pc' = "encode"
  /\ UNCHANGED <<codes, i, encoded, third, output, any, reader, k, status>>

n == num_litlen_lens + num_dist_lens
Run(v, from, max) == Max({c \in 0 .. max : from + c <= n /\ \A d \in 0 .. c - 1 : lens[from + d] = v})
Lit(v) == [sym |-> v, count |-> 0]

(* encode_lens, a turn of its loop.                                        *)
ZeroRun_Unbounded == Run(0, i, n)   \* mutant: the scan goes past the longest run
ZeroRun == Run(0, i, ZEROS2_MAX)

EncodeZeros ==
  /\ pc = "encode" /\ i < n /\ lens[i] = 0
  /\ IF ZeroRun < ZEROS_MIN
     THEN encoded' = Append(encoded, Lit(0)) /\ i' = i + 1
     ELSE /\ encoded' = Append(encoded, [sym |-> IF ZeroRun <= ZEROS_MAX THEN CODELEN_ZEROS
                                                                        ELSE CODELEN_ZEROS2,
                                         count |-> ZeroRun])
          /\ i' = i + ZeroRun
  /\ UNCHANGED <<codes, joined, third, output, any, reader, pc, k, status>>

CopyRun == Run(lens[i], i + 1, COPY_MAX)

EncodeLen ==
  /\ pc = "encode" /\ i < n /\ lens[i] # 0
  /\ IF CopyRun >= COPY_MIN
     THEN /\ encoded' = encoded \o <<Lit(lens[i]), [sym |-> CODELEN_COPY, count |-> CopyRun]>>
          /\ i' = i + 1 + CopyRun
     ELSE encoded' = Append(encoded, Lit(lens[i])) /\ i' = i + 1
  /\ UNCHANGED <<codes, joined, third, output, any, reader, pc, k, status>>

-----------------------------------------------------------------------------
codelen_freqs == [s \in CodelenSym |-> Cardinality({x \in 1 .. Len(encoded) : encoded[x].sym = s})]
ebits == [s \in CodelenSym |-> CASE s = CODELEN_COPY -> COPY_EBITS
                                 [] s = CODELEN_ZEROS -> ZEROS_EBITS
                                 [] s = CODELEN_ZEROS2 -> ZEROS2_EBITS
                                 [] OTHER -> 0]

count_codelen_lens(lengths) ==
  Max({x \in 1 .. MAX_CODELEN_LENS : lengths[codelen_lengths_order[x]] # 0})

dyn_block_len_NoEbits(lengths) ==         \* mutant: the extra bits of the runs are not measured
  3 + HLIT + HDIST + HCLEN + 3 * count_codelen_lens(lengths)
    + SumFunctionOnSet([s \in CodelenSym |-> codelen_freqs[s] * lengths[s]], CodelenSym)
dyn_block_len(lengths) ==
  3 + HLIT + HDIST + HCLEN + 3 * count_codelen_lens(lengths)
    + SumFunctionOnSet([s \in CodelenSym |-> codelen_freqs[s] * (lengths[s] + ebits[s])], CodelenSym)

(* write_block: the third code, and what the header will take.             *)
ThirdCode ==
  /\ pc = "encode" /\ i = n
  /\ \E c \in CodelenLength :
       codelen_lens' = [s \in CodelenSym |-> IF codelen_freqs[s] = 0 THEN 0 ELSE c[s]]
  /\ num_codelen_lens' = count_codelen_lens(codelen_lens')
  /\ dyn_len' = dyn_block_len(codelen_lens')
  /\ pc' = "write"
  /\ UNCHANGED <<codes, joined, i, encoded, output, any, reader, k, status>>

(* write_dynamic_block: the three numbers are shifted into one word,       *)
WriteNumbers ==
  /\ pc = "write"
  /\ stream' = [stream EXCEPT
       !.numbers = (num_litlen_lens - MIN_LITLEN_LENS)
                   + (num_dist_lens - MIN_DIST_LENS) * 2 ^ HLIT
                   + (num_codelen_lens - MIN_CODELEN_LENS) * 2 ^ (HLIT + HDIST)]
  /\ written' = 3 + HLIT + HDIST + HCLEN
  /\ pc' = "write_codelens" /\ k' = 0
  /\ UNCHANGED <<codes, joined, i, encoded, third, any, reader, status>>

WriteCodelen ==
  /\ pc = "write_codelens" /\ k < num_codelen_lens
  /\ stream' = [stream EXCEPT !.codelens = Append(@, codelen_lens[codelen_lengths_order[k + 1]])]
  /\ written' = written + 3 /\ k' = k + 1
  /\ UNCHANGED <<codes, joined, i, encoded, third, any, reader, pc, status>>

CodelensEnd ==
  /\ pc = "write_codelens" /\ k = num_codelen_lens
  /\ pc' = "write_lens" /\ k' = 0
  /\ UNCHANGED <<codes, joined, i, encoded, third, output, any, reader, status>>

(* and a run is written as its symbol and its length above the shortest.   *)
Shortest(s) == CASE s = CODELEN_COPY -> COPY_MIN
                 [] s = CODELEN_ZEROS -> ZEROS_MIN
                 [] s = CODELEN_ZEROS2 -> ZEROS2_MIN
                 [] OTHER -> 0

WriteLen ==
  /\ pc = "write_lens" /\ k < Len(encoded)
  /\ LET e == encoded[k + 1]
     IN /\ stream' = [stream EXCEPT !.symbols =
                        Append(@, [sym |-> e.sym, extra |-> e.count - Shortest(e.sym)])]
        /\ written' = written + codelen_lens[e.sym] + ebits[e.sym]
  /\ k' = k + 1
  /\ UNCHANGED <<codes, joined, i, encoded, third, any, reader, pc, status>>

HeaderWritten ==
  /\ pc = "write_lens" /\ k = Len(encoded)
  /\ pc' = "read" /\ k' = 0
  /\ UNCHANGED <<codes, joined, i, encoded, third, output, any, reader, status>>

-----------------------------------------------------------------------------
writer == <<codes, joined, i, encoded, third, output, any>>
LowBits(x, w) == x % 2 ^ w   \* lsb of bits.h

(* init_dyn_decoders.  The end of the input, a third code that is none, or *)
(* a word that is no codeword: only in streams from elsewhere.             *)
Fail ==
  /\ pc \in {"read", "read_lens"} /\ any
  /\ status' = "ERR" /\ pc' = "done"
  /\ UNCHANGED <<writer, reader, k>>

ReadNumbers(numbers) ==
  /\ r_litlen' = LowBits(numbers, HLIT) + MIN_LITLEN_LENS
  /\ r_dist' = LowBits(numbers \div 2 ^ HLIT, HDIST) + MIN_DIST_LENS

Hclen == LowBits(stream.numbers \div 2 ^ (HLIT + HDIST), HCLEN) + MIN_CODELEN_LENS
Place(s) == CHOOSE x \in 1 .. MAX_CODELEN_LENS : codelen_lengths_order[x] = s

ReadThirdCode ==
  /\ pc = "read"
  /\ IF any
     THEN /\ \E numbers \in 0 .. 2 ^ (HLIT + HDIST) - 1 : ReadNumbers(numbers)
          /\ UNCHANGED codelen_lengths   \* some code: every symbol of AnySym may come
     ELSE /\ ReadNumbers(stream.numbers)
          /\ codelen_lengths' =
               [s \in CodelenSym |-> IF Place(s) <= Hclen THEN stream.codelens[Place(s)] ELSE 0]
  /\ pc' = "read_lens" /\ k' = 0
  /\ UNCHANGED <<writer, code_lengths, status>>

(* The next symbol and its extra bits; past the header, or with another    *)
(* third code, any symbol may be found.                                    *)
NextSymbol(s, extra) ==
  IF any \/ stream.symbols = <<>> \/ codelen_lengths # codelen_lens
  THEN s \in AnySym
  ELSE /\ s = Head(stream.symbols).sym
       /\ extra = LowBits(Head(stream.symbols).extra, ebits[s])

Consume == stream' = [stream EXCEPT !.symbols = IF @ = <<>> THEN @ ELSE Tail(@)]
total == r_litlen + r_dist

ReadLit(s) ==
  /\ s <= CODELEN_MAX_LIT
  /\ code_lengths' = [code_lengths EXCEPT ![k] = s]
  /\ k' = k + 1
  /\ UNCHANGED <<pc, status>>

RunFits_Slack(count) == k + count <= total + 1   \* mutant: one length too many
RunFits(count) == k + count <= total

(* A copy of the length before, or zeros.                                  *)
ReadRun(s, extra) ==
  LET count == extra + Shortest(s)
  IN /\ s > CODELEN_MAX_LIT
     /\ IF RunFits(count) /\ (s = CODELEN_COPY => k >= 1)
        THEN /\ code_lengths' =
                  [x \in DOMAIN code_lengths |->
                     IF x \in k .. k + count - 1
                     THEN (IF s = CODELEN_COPY THEN code_lengths[k - 1] ELSE 0)
                     ELSE code_lengths[x]]
             /\ k' = k + count
             /\ UNCHANGED <<pc, status>>
        ELSE status' = "ERR" /\ pc' = "done" /\ UNCHANGED <<code_lengths, k>>

ReadSymbol ==
  /\ pc = "read_lens" /\ k < total
  /\ \E s \in CodelenSym : \E extra \in 0 .. 2 ^ ebits[s] - 1 :
       NextSymbol(s, extra) /\ (ReadLit(s) \/ ReadRun(s, extra))
  /\ Consume
  /\ UNCHANGED <<codes, joined, i, encoded, third, written, any, r_litlen, r_dist, codelen_lengths>>

LensRead ==
  /\ pc = "read_lens" /\ k >= total
  /\ status' = "OK" /\ pc' = "done"
  /\ UNCHANGED <<writer, reader, k>>

HeaderNext ==
  \/ Join \/ EncodeZeros \/ EncodeLen \/ ThirdCode
  \/ WriteNumbers \/ WriteCodelen \/ CodelensEnd \/ WriteLen \/ HeaderWritten
  \/ Fail \/ ReadThirdCode \/ ReadSymbol \/ LensRead

HeaderSpec == HeaderInit /\ [][HeaderNext]_headerVars

-----------------------------------------------------------------------------
(* The lengths the decompressor uses are the ones the compressor chose,    *)
(* whatever runs they form, also across the border of the two codes; what  *)
(* was dropped was zero (deflate.c:200-282 against 449-560).               *)
HeaderRoundTrip ==
  pc = "done" /\ ~any =>
    /\ status = "OK" /\ stream.symbols = <<>>
    /\ r_litlen = num_litlen_lens /\ r_dist = num_dist_lens
    /\ \A x \in 0 .. LITLEN_MAX : litlen_lens[x] = IF x < r_litlen THEN code_lengths[x] ELSE 0
    /\ \A x \in 0 .. DISTSYM_MAX : dist_lens[x] = IF x < r_dist THEN code_lengths[r_litlen + x] ELSE 0

(* What dyn_block_len says of a header is what write_dynamic_block writes. *)
HeaderMeasured == pc = "read" /\ ~any => written = dyn_len

(* From any stream: the reader writes no length past those announced, and  *)
(* returns OK only when it has written every one of them (a run may end at *)
(* the last length, deflate.c:238).                                        *)
LengthsAnnounced ==
  /\ k <= total \/ pc \notin {"read_lens", "done"}
  /\ \A x \in DOMAIN code_lengths : x >= total => code_lengths[x] = UNINIT
  /\ status = "OK" => \A x \in 0 .. total - 1 : code_lengths[x] \in 0 .. CODELEN_MAX_LIT
=============================================================================
