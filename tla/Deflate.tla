------------------------------ MODULE Deflate ------------------------------
(***************************************************************************)
(* hwdeflate (deflate.c): the callbacks of the string matcher collect      *)
(* symbols and their frequencies in a block; a block that is full, or the  *)
(* last one, is measured as a stored, a static and a dynamic block and     *)
(* written as the smallest.                                                *)
(*                                                                         *)
(* Which literals and references arrive is lz77_compress's choice (module  *)
(* LzStream says what it promises).  A codeword is its length.  The codes  *)
(* of a dynamic block, and the header that describes them, may have any    *)
(* lengths a Huffman code of the used symbols can have.                    *)
(***************************************************************************)
EXTENDS Integers, Sequences, SequencesExt, FiniteSetsExt

CONSTANTS
  MaxSrcLen, DstCap,       \* the source lengths and the capacities, in bytes
  Lit,                     \* literals, as litlen symbols
  LITLEN_EOB,              \* the end-of-block symbol
  Ref,                     \* references: records [distance, len]
  LenSym, DistSym,         \* the symbols of lengths and of distances
  len2litlen, distance2dist,
  litlen_ebits, dist_ebits, \* extra bits of a symbol
  fixed_litlen_lengths, fixed_dist_lengths,
  DynLitlen, DynDist,      \* codeword lengths a dynamic block may have
  DynHeader,               \* bits its header may take
  MAX_BLOCK_LEN_BYTES,     \* 65534
  WORD,                    \* 2 to the width of a frequency (65536)
  SIZE_RANGE               \* 2 to the width of size_t

Litlen == Lit \cup {LITLEN_EOB} \cup LenSym
LitToken == [distance : {0}, lit : Lit]
Token == LitToken \cup Ref
EOB == [distance |-> 0, lit |-> LITLEN_EOB]
IsRef(t) == t.distance # 0
Bytes(t) == IF IsRef(t) THEN t.len ELSE 1

ASSUME DeflateAssumption ==
  /\ MaxSrcLen \in Nat /\ DstCap \subseteq Nat
  /\ LITLEN_EOB \notin Lit \cup LenSym /\ Lit \cap LenSym = {}
  /\ Ref \subseteq [distance : Nat \ {0}, len : 1 .. MAX_BLOCK_LEN_BYTES]
  /\ \A r \in Ref : len2litlen[r.len] \in LenSym /\ distance2dist[r.distance] \in DistSym
  /\ IsFiniteSet(Litlen) /\ IsFiniteSet(DistSym)
  /\ litlen_ebits \in [Litlen -> Nat] /\ dist_ebits \in [DistSym -> Nat]
  /\ \A s \in Lit \cup {LITLEN_EOB} : litlen_ebits[s] = 0
  /\ fixed_litlen_lengths \in [Litlen -> Nat] /\ fixed_dist_lengths \in [DistSym -> Nat]
  /\ DynLitlen \subseteq [Litlen -> Nat] /\ DynDist \subseteq [DistSym -> Nat]
  /\ DynHeader \subseteq Nat
  /\ MAX_BLOCK_LEN_BYTES \in Nat \ {0} /\ WORD = MAX_BLOCK_LEN_BYTES + 2
  /\ SIZE_RANGE \in Nat /\ \A c \in DstCap : 8 * c < SIZE_RANGE

VARIABLES
  src_len, dst_cap,
  covered,                             \* source bytes the matcher has described
  calls, stream,                       \* its calls, and the blocks written
  block, block_src, block_len_bytes,   \* deflate_state_t
  litlen_freqs, dist_freqs,
  bitpos,                              \* its ostream_t
  pc, call, final,                     \* the call a full block holds up; is it the last block
  old_bit_pos, kind, header, computed, \* write_block: the kind chosen, its bits
  litlen_lens, dist_lens, k,           \* the codes it is written with, and how far it is
  result, dst_used

args == <<src_len, dst_cap>>
matcher == <<covered, calls>>
state == <<block, block_src, block_len_bytes, litlen_freqs, dist_freqs>>
choice == <<old_bit_pos, kind, header, computed, litlen_lens, dist_lens>>
returned == <<result, dst_used>>
vars == <<args, matcher, stream, state, bitpos, pc, call, final, choice, k, returned>>

Stream == INSTANCE DeflateStream

round_up(x, m) == ((x + m - 1) \div m) * m
uint16(x) == x % WORD
bitpos_end == 8 * dst_cap

NoFreqs == [s \in Litlen |-> 0]
NoDists == [s \in DistSym |-> 0]

Init ==
  /\ src_len \in 0 .. MaxSrcLen /\ dst_cap \in DstCap
  /\ covered = 0 /\ calls = <<>> /\ stream = <<>>
  /\ block = <<>> /\ block_src = 0 /\ block_len_bytes = 0
  /\ litlen_freqs = NoFreqs /\ dist_freqs = NoDists
  /\ bitpos = 0
  /\ pc = "lz77" /\ call = EOB /\ final = FALSE
  /\ old_bit_pos = 0 /\ kind = "none" /\ header = 0 /\ computed = 0
  /\ litlen_lens = NoFreqs /\ dist_lens = NoDists /\ k = 1
  /\ result = "none" /\ dst_used = 0

-----------------------------------------------------------------------------
(* A symbol joins a block with these contents.                             *)
AddSymbol(t, tokens, bytes, litlens, dists) ==
  /\ block' = Append(tokens, t)
  /\ block_len_bytes' = bytes + Bytes(t)
  /\ IF IsRef(t)
     THEN /\ litlen_freqs' = [litlens EXCEPT ![len2litlen[t.len]] = uint16(@ + 1)]
          /\ dist_freqs' = [dists EXCEPT ![distance2dist[t.distance]] = uint16(@ + 1)]
     ELSE /\ litlen_freqs' = [litlens EXCEPT ![t.lit] = uint16(@ + 1)]
          /\ dist_freqs' = dists

BlockFull_Late(t) == block_len_bytes > MAX_BLOCK_LEN_BYTES   \* mutant: asked without the new symbol
BlockFull(t) == block_len_bytes + Bytes(t) > MAX_BLOCK_LEN_BYTES

(* lit_callback and backref_callback.                                      *)
Callback(t) ==
  /\ pc = "lz77" /\ covered + Bytes(t) <= src_len
  /\ covered' = covered + Bytes(t) /\ calls' = Append(calls, t)
  /\ IF BlockFull(t)
     THEN pc' = "block" /\ call' = t /\ final' = FALSE /\ UNCHANGED state
     ELSE /\ AddSymbol(t, block, block_len_bytes, litlen_freqs, dist_freqs)
          /\ UNCHANGED <<block_src, pc, call, final>>
  /\ UNCHANGED <<args, stream, bitpos, choice, k, returned>>

(* lz77_compress returns true: the last block, which may be empty.         *)
SourceEnds ==
  /\ pc = "lz77" /\ covered = src_len
  /\ pc' = "block" /\ final' = TRUE
  /\ UNCHANGED <<args, matcher, stream, state, bitpos, call, choice, k, returned>>

-----------------------------------------------------------------------------
huffman_block_body_len(litlens, lits, dists, ds) ==
  SumFunction([s \in Litlen |-> (lits[s] + litlen_ebits[s]) * litlens[s]])
    + SumFunction([s \in DistSym |-> (ds[s] + dist_ebits[s]) * dists[s]])

(* Header, padding to a byte, the length twice, the bytes.                 *)
uncomp_block_len_NoPad == 3 + 2 * 16 + block_len_bytes * 8   \* mutant: the padding is forgotten
uncomp_block_len ==
  3 + (round_up(bitpos + 3, 8) - (bitpos + 3)) + 2 * 16 + block_len_bytes * 8

Kind_StaticFirst(uncomp_len, static_len, dynamic_len) ==   \* mutant: stored is never tried
  IF static_len <= dynamic_len THEN "static" ELSE "dynamic"
Kind(uncomp_len, static_len, dynamic_len) ==
  CASE uncomp_len <= dynamic_len /\ uncomp_len <= static_len -> "stored"
    [] static_len <= dynamic_len /\ static_len < uncomp_len -> "static"
    [] OTHER -> "dynamic"

(* An encoder's lengths: none for a symbol that is not used.               *)
Codes(lengths, freqs) ==
  {[s \in DOMAIN freqs |-> IF freqs[s] = 0 THEN 0 ELSE lens[s]] : lens \in lengths}

(* write_block up to the choice: the end-of-block symbol joins the block,  *)
(* and the three kinds are measured.                                       *)
WriteBlock ==
  /\ pc = "block"
  /\ block' = Append(block, EOB)
  /\ litlen_freqs' = [litlen_freqs EXCEPT ![LITLEN_EOB] = 1]
  /\ old_bit_pos' = bitpos
  /\ \E h \in DynHeader,
        dyn_litlen \in Codes(DynLitlen, litlen_freqs'), dyn_dist \in Codes(DynDist, dist_freqs) :
       LET body_len(lits, dists) == huffman_block_body_len(litlen_freqs', lits, dist_freqs, dists)
           uncomp_len == uncomp_block_len
           static_len == 3 + body_len(fixed_litlen_lengths, fixed_dist_lengths)
           dynamic_len == h + body_len(dyn_litlen, dyn_dist)
       IN /\ kind' = Kind(uncomp_len, static_len, dynamic_len)
          /\ computed' = CASE kind' = "stored" -> uncomp_len
                           [] kind' = "static" -> static_len
                           [] kind' = "dynamic" -> dynamic_len
          /\ header' = IF kind' = "dynamic" THEN h ELSE 3
          /\ litlen_lens' = IF kind' = "dynamic" THEN dyn_litlen ELSE fixed_litlen_lengths
          /\ dist_lens' = IF kind' = "dynamic" THEN dyn_dist ELSE fixed_dist_lengths
  /\ pc' = "header" /\ k' = 1
  /\ UNCHANGED <<args, matcher, stream, block_src, block_len_bytes, dist_freqs, bitpos,
                 call, final, returned>>

-----------------------------------------------------------------------------
(* ostream_write and ostream_write_bytes_aligned: all of it, or false.     *)
(* The bits left are a difference of two unsigned sizes.                   *)
Left(pos) == (bitpos_end - pos) % SIZE_RANGE
ostream_write_Unchecked(n) == bitpos' = bitpos + n   \* mutant
ostream_write(n) == Left(bitpos) >= n /\ bitpos' = bitpos + n
AlignedRoom(n) == Left(round_up(bitpos, 8)) >= 8 * n
ostream_write_bytes_aligned(n) == AlignedRoom(n) /\ bitpos' = round_up(bitpos, 8) + 8 * n

SymbolBits(t) ==
  IF IsRef(t)
  THEN LET litlen == len2litlen[t.len]
           dist == distance2dist[t.distance]
       IN litlen_lens[litlen] + litlen_ebits[litlen] + dist_lens[dist] + dist_ebits[dist]
  ELSE litlen_lens[t.lit]

WriteHeader ==
  /\ pc = "header" /\ ostream_write(header)
  /\ pc' = IF kind = "stored" THEN "len_nlen" ELSE "symbols"
  /\ UNCHANGED <<args, matcher, stream, state, call, final, choice, k, returned>>

WriteLenNlen ==
  /\ pc = "len_nlen" /\ ostream_write_bytes_aligned(4)
  /\ pc' = "bytes"
  /\ UNCHANGED <<args, matcher, stream, state, call, final, choice, k, returned>>

(* A block joins the stream: its symbols without the end of block, or the  *)
(* bytes of the source a stored block copies.                              *)
Emit ==
  /\ stream' = Append(stream, [final |-> final, tokens |-> Front(block),
                               first |-> block_src, bytes |-> block_len_bytes])
  /\ pc' = "written"

WriteStoredBytes ==
  /\ pc = "bytes" /\ ostream_write_bytes_aligned(block_len_bytes)
  /\ Emit
  /\ UNCHANGED <<args, matcher, state, call, final, choice, k, returned>>

WriteSymbol ==
  /\ pc = "symbols" /\ ostream_write(SymbolBits(block[k]))
  /\ k' = k + 1
  /\ IF k = Len(block) THEN Emit ELSE UNCHANGED <<stream, pc>>
  /\ UNCHANGED <<args, matcher, state, call, final, choice, returned>>

(* Any write may find no room; every caller passes the false on.           *)
NoRoom ==
  /\ \/ pc = "header" /\ Left(bitpos) < header
     \/ pc = "symbols" /\ Left(bitpos) < SymbolBits(block[k])
     \/ pc = "len_nlen" /\ ~AlignedRoom(4)
     \/ pc = "bytes" /\ ~AlignedRoom(block_len_bytes)
  /\ result' = "false" /\ pc' = "done"
  /\ UNCHANGED <<args, matcher, stream, state, bitpos, call, final, choice, k, dst_used>>

-----------------------------------------------------------------------------
(* The rest of a callback whose block was full: a new block with its call. *)
reset_block_KeepFreqs(t) ==   \* mutant: the frequencies are not cleared
  AddSymbol(t, <<>>, 0, litlen_freqs, dist_freqs)
reset_block(t) == AddSymbol(t, <<>>, 0, NoFreqs, NoDists)

NextSrc_Stuck == block_src   \* mutant: block_src is not moved
NextSrc == block_src + block_len_bytes

NextBlock ==
  /\ pc = "written" /\ ~final
  /\ block_src' = NextSrc
  /\ reset_block(call)
  /\ pc' = "lz77"
  /\ UNCHANGED <<args, matcher, stream, bitpos, call, final, choice, k, returned>>

Return ==
  /\ pc = "written" /\ final
  /\ result' = "true" /\ dst_used' = round_up(bitpos, 8) \div 8
  /\ pc' = "done"
  /\ UNCHANGED <<args, matcher, stream, state, bitpos, call, final, choice, k>>

Next ==
  \/ \E t \in Token : Callback(t)
  \/ SourceEnds \/ WriteBlock
  \/ WriteHeader \/ WriteLenNlen \/ WriteStoredBytes \/ WriteSymbol \/ NoRoom
  \/ NextBlock \/ Return

Spec == Init /\ [][Next]_vars

-----------------------------------------------------------------------------
TypeOK ==
  /\ src_len \in Nat /\ dst_cap \in Nat /\ covered \in Nat
  /\ calls \in Seq(Token) /\ block \in Seq(Token \cup {EOB})
  /\ block_src \in Nat /\ block_len_bytes \in Nat
  /\ litlen_freqs \in [Litlen -> 0 .. WORD - 1] /\ dist_freqs \in [DistSym -> 0 .. WORD - 1]
  /\ bitpos \in 0 .. bitpos_end /\ bitpos_end < SIZE_RANGE
  /\ pc \in {"lz77", "block", "header", "len_nlen", "bytes", "symbols", "written", "done"}
  /\ call \in Token \cup {EOB} /\ final \in BOOLEAN
  /\ old_bit_pos \in Nat /\ kind \in {"none", "stored", "static", "dynamic"}
  /\ header \in Nat /\ computed \in Nat /\ k \in Nat
  /\ litlen_lens \in [Litlen -> Nat] /\ dist_lens \in [DistSym -> Nat]
  /\ result \in {"none", "true", "false"} /\ dst_used \in Nat

(* A block stays inside its limits (deflate.c:403): its array, the 16-bit  *)
(* length of a stored block, and the frequencies, which are 16 bits wide,  *)
(* one by one and, for compute_huffman_lengths, together, even once the    *)
(* end-of-block symbol has joined a full block.                            *)
BlockWithinLimits ==
  /\ Len(block) <= MAX_BLOCK_LEN_BYTES + 1
  /\ block_len_bytes <= MAX_BLOCK_LEN_BYTES
  /\ SumFunction(litlen_freqs) = Len(block)
  /\ Len(block) < WORD

(* What was measured is what is written: the asserts of write_block        *)
(* (deflate.c:874, 879 and 888), on which the choice of the kind rests.    *)
WrittenAsMeasured == pc = "written" => bitpos - old_bit_pos = computed

(* Compression fails only when the block it chose does not fit, and        *)
(* reports no more than the capacity (deflate.h:26).                       *)
FailsOnlyWhenFull ==
  /\ result = "false" => old_bit_pos + computed > bitpos_end
  /\ result = "true" => dst_used <= dst_cap

(* A block is never longer than it would be stored, header, padding and    *)
(* all, so no input grows by more than the overhead of stored blocks.      *)
NeverLongerThanStored ==
  pc = "written" =>
    bitpos <= round_up(old_bit_pos + 3, 8) + 2 * 16 + 8 * block_len_bytes

(* No call is lost, doubled or reordered when a block is full, stored      *)
(* blocks take up the source where the last block ended, and exactly the   *)
(* last block is final.                                                    *)
WritesStream == Stream!Spec
=============================================================================
