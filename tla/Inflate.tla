------------------------------ MODULE Inflate ------------------------------
(***************************************************************************)
(* hwinflate (deflate.c): the loop over blocks, the symbols of a block,    *)
(* and the three ways a back reference is copied inside the output buffer. *)
(*                                                                         *)
(* The bits of the input are read once each and in order, so the input is  *)
(* what the reads return: every read that finds enough bits may return any *)
(* symbol, and a read past the end fails (the zero padding of istream_bits *)
(* decodes to something, and istream_advance then refuses it).  Which bits *)
(* a code gives a symbol, and the header of a dynamic block, are other     *)
(* modules' business; here they only take a number of bits.                *)
(***************************************************************************)
EXTENDS Integers, Sequences

CONSTANTS
  Byte,
  MaxSrcLen, MaxDstCap,  \* bounds on src_len and dst_cap
  SymBits,               \* bits a literal or end of block may take
  RefBits,               \* bits a reference may take with its extra bits
  HeaderBits,            \* bits the code lengths of a dynamic block may take
  MIN_LEN, MAX_LEN, MAX_DISTANCE, MaxStored,
  WIDE,                  \* bytes of one wide copy (8)
  UNINIT                 \* a byte of the buffer nobody has written

ASSUME InflateAssumption ==
  /\ MaxSrcLen \in Nat /\ MaxDstCap \in Nat /\ MaxStored \in Nat
  /\ SymBits \subseteq Nat \ {0} /\ RefBits \subseteq Nat \ {0} /\ HeaderBits \subseteq Nat \ {0}
  /\ MIN_LEN \in Nat \ {0} /\ MAX_LEN \in Nat /\ MAX_DISTANCE \in Nat
  /\ WIDE \in Nat \ {0}
  /\ UNINIT \notin Byte

VARIABLES
  src_len,             \* bytes of input
  bitpos,              \* istream_t.bitpos
  dst, dst_cap,        \* the output buffer, indexed from 0
  dst_pos,             \* bytes output
  bfinal,              \* this is the last block
  pc,                  \* "header" .. "done"
  dist, len, i,        \* the reference being copied, and how far it is
  symbol,              \* the last symbol output, or the one that could not be
  status, src_used, dst_used   \* what hwinflate returned

buffer == <<dst, dst_pos>>
copy == <<dist, len, i>>
returned == <<status, src_used, dst_used>>
vars == <<src_len, bitpos, dst_cap, buffer, bfinal, pc, copy, symbol, returned>>

round_up(x, m) == ((x + m - 1) \div m) * m
bitpos_end == 8 * src_len

(* The abstract buffer holds the bytes below dst_pos.                      *)
Output == [k \in 1 .. dst_pos |-> dst[k - 1]]
Buffer == INSTANCE Decompressor WITH out <- Output

istream_advance_NoCheck(n) == bitpos' = bitpos + n                             \* mutant
istream_advance_Stays(n) == bitpos + n <= bitpos_end /\ bitpos' = bitpos       \* mutant
istream_advance(n) == bitpos + n <= bitpos_end /\ bitpos' = bitpos + n

Room == dst_cap - dst_pos

Fits_Short(n) == n < Room    \* mutant: the last byte is never used
Fits_Always(n) == TRUE       \* mutant: the room is not checked
Fits(n) == n <= Room

(* A wide copy needs room for its last chunk, and a source that does not   *)
(* overlap what it writes.                                                 *)
WideFits_Exact(n) == n <= Room        \* mutant: the room is not rounded up
WideFits(n) == round_up(n, WIDE) <= Room
Overlaps_Adjacent(d, n) == n > d + 1  \* mutant: off by one
Overlaps(d, n) == n > d

Stop(s) == pc' = "done" /\ status' = s /\ UNCHANGED <<src_used, dst_used>>

Init ==
  /\ src_len \in 0 .. MaxSrcLen /\ dst_cap \in 0 .. MaxDstCap
  /\ bitpos = 0
  /\ dst = [k \in 0 .. dst_cap - 1 |-> UNINIT]
  /\ dst_pos = 0
  /\ bfinal = FALSE
  /\ pc = "header"
  /\ dist = 0 /\ len = 0 /\ i = 0
  /\ symbol = Buffer!NoSymbol
  /\ status = "none" /\ src_used = 0 /\ dst_used = 0

-----------------------------------------------------------------------------
(* A block type: stored, fixed codes, or dynamic codes with a header.      *)
BlockHeader ==
  /\ pc = "header" /\ istream_advance(3)
  /\ bfinal' \in BOOLEAN
  /\ pc' \in {"stored", "symbols", "codes"}
  /\ UNCHANGED <<src_len, dst_cap, buffer, copy, symbol, returned>>

DynamicCodes ==
  /\ pc = "codes"
  /\ \E n \in HeaderBits : istream_advance(n)
  /\ pc' = "symbols"
  /\ UNCHANGED <<src_len, dst_cap, buffer, bfinal, copy, symbol, returned>>

(* The stream ends before the read does: bits it took to be zero.  How far *)
(* it was read before an error does not matter: istream_t is a local.      *)
Truncated ==
  /\ \/ pc = "header" /\ bitpos + 3 > bitpos_end
     \/ pc = "codes" /\ \E n \in HeaderBits : bitpos + n > bitpos_end
     \/ pc = "symbols" /\ \E n \in SymBits \cup RefBits : bitpos + n > bitpos_end
     \/ pc = "stored" /\ \E n \in 0 .. MaxStored :
                           round_up(bitpos, 8) + 32 + 8 * n > bitpos_end
  /\ Stop("ERR")
  /\ UNCHANGED <<src_len, bitpos, dst_cap, buffer, bfinal, copy, symbol>>

(* A block type, code, symbol or stored length that means nothing.         *)
Invalid ==
  /\ pc \in {"header", "codes", "symbols", "stored"}
  /\ Stop("ERR")
  /\ UNCHANGED <<src_len, bitpos, dst_cap, buffer, bfinal, copy, symbol>>

EndOfBlock ==
  /\ pc = "symbols"
  /\ \E n \in SymBits : istream_advance(n)
  /\ pc' = "while"
  /\ UNCHANGED <<src_len, dst_cap, buffer, bfinal, copy, symbol, returned>>

Literal ==
  /\ pc = "symbols"
  /\ \E n \in SymBits : istream_advance(n)
  /\ \E b \in Byte :
       /\ symbol' = Buffer!Lit(b)
       /\ IF ~Fits(1)
          THEN Stop("FULL") /\ UNCHANGED buffer
          ELSE /\ dst' = [dst EXCEPT ![dst_pos] = b]
               /\ dst_pos' = dst_pos + 1
               /\ UNCHANGED <<pc, returned>>
  /\ UNCHANGED <<src_len, dst_cap, bfinal, copy>>

(* A reference: checked against the output, then the copy that fits.       *)
BackRef ==
  /\ pc = "symbols"
  /\ \E n \in RefBits : istream_advance(n)
  /\ \E d \in 1 .. MAX_DISTANCE, l \in MIN_LEN .. MAX_LEN :
       IF d > dst_pos
       THEN Stop("ERR") /\ symbol' = Buffer!Ref(d, l) /\ UNCHANGED copy
       ELSE IF ~Fits(l)
       THEN Stop("FULL") /\ symbol' = Buffer!Ref(d, l) /\ UNCHANGED copy
       ELSE /\ dist' = d /\ len' = l /\ i' = 0
            /\ pc' = IF WideFits(l) /\ ~Overlaps(d, l)
                     THEN "wide" ELSE "bytes"
            /\ UNCHANGED <<symbol, returned>>
  /\ UNCHANGED <<src_len, dst_cap, buffer, bfinal>>

CopyEnds ==
  IF i' < len
  THEN UNCHANGED <<dst_pos, pc, symbol>>
  ELSE dst_pos' = dst_pos + len /\ pc' = "symbols" /\ symbol' = Buffer!Ref(dist, len)

(* output_backref64: WIDE bytes are read, then WIDE bytes written, past    *)
(* the end of the reference if its length is not a multiple.               *)
CopyWide ==
  /\ pc = "wide"
  /\ dst' = [k \in DOMAIN dst |->
               IF k - (dst_pos + i) \in 0 .. WIDE - 1 THEN dst[k - dist] ELSE dst[k]]
  /\ i' = i + WIDE
  /\ CopyEnds
  /\ UNCHANGED <<src_len, bitpos, dst_cap, bfinal, dist, len, returned>>

(* lz77_output_backref: a byte at a time, so a reference may overlap the   *)
(* bytes it makes.                                                         *)
CopyByte ==
  /\ pc = "bytes"
  /\ dst' = [dst EXCEPT ![dst_pos + i] = dst[dst_pos + i - dist]]
  /\ i' = i + 1
  /\ CopyEnds
  /\ UNCHANGED <<src_len, bitpos, dst_cap, bfinal, dist, len, returned>>

StoredBlock ==
  /\ pc = "stored"
  /\ \E n \in 0 .. MaxStored :
       /\ round_up(bitpos, 8) + 32 + 8 * n <= bitpos_end
       /\ bitpos' = round_up(bitpos, 8) + 32 + 8 * n
       /\ symbol' = Buffer!Stored(n)
       /\ IF ~Fits(n)
          THEN Stop("FULL") /\ UNCHANGED buffer
          ELSE /\ \E data \in [0 .. n - 1 -> Byte] :
                    dst' = [k \in DOMAIN dst |->
                              IF k - dst_pos \in 0 .. n - 1 THEN data[k - dst_pos] ELSE dst[k]]
               /\ dst_pos' = dst_pos + n
               /\ pc' = "while"
               /\ UNCHANGED returned
  /\ UNCHANGED <<src_len, dst_cap, bfinal, copy>>

(* The end of the block loop: another header, or the results.              *)
NextBlock ==
  /\ pc = "while" /\ ~bfinal
  /\ pc' = "header"
  /\ UNCHANGED <<src_len, bitpos, dst_cap, buffer, bfinal, copy, symbol, returned>>

Return ==
  /\ pc = "while" /\ bfinal
  /\ bitpos' = round_up(bitpos, 8)
  /\ src_used' = bitpos' \div 8 /\ dst_used' = dst_pos
  /\ pc' = "done" /\ status' = "OK"
  /\ UNCHANGED <<src_len, dst_cap, buffer, bfinal, copy, symbol>>

Next ==
  \/ BlockHeader \/ DynamicCodes \/ Truncated \/ Invalid
  \/ EndOfBlock \/ Literal \/ BackRef \/ CopyWide \/ CopyByte \/ StoredBlock
  \/ NextBlock \/ Return

Spec == Init /\ [][Next]_vars
(* Sequential code: a call that can take its next step takes it.           *)
FairSpec == Spec /\ WF_vars(Next)

-----------------------------------------------------------------------------
TypeOK ==
  /\ src_len \in Nat /\ bitpos \in Nat
  /\ dst_cap \in Nat /\ dst \in [0 .. dst_cap - 1 -> Byte \cup {UNINIT}]
  /\ dst_pos \in 0 .. dst_cap
  /\ bfinal \in BOOLEAN
  /\ pc \in {"header", "codes", "symbols", "stored", "wide", "bytes", "while", "done"}
  /\ dist \in Nat /\ len \in Nat /\ i \in Nat
  /\ status \in {"none", "OK", "FULL", "ERR"}
  /\ src_used \in Nat /\ dst_used \in Nat

(* A wide copy reads and writes whole chunks inside the buffer: the room   *)
(* asked for before it started (deflate.c:147) is enough for the last one. *)
ChunksInBuffer ==
  pc = "wide" => dst_pos + i + WIDE <= dst_cap /\ dist <= dst_pos + i

(* Bytes a wide copy leaves past the end of a reference, or never written, *)
(* are not output: the first dst_pos bytes are always decoded ones.        *)
OutputIsDecoded == \A k \in 0 .. dst_pos - 1 : dst[k] \in Byte

(* No bit past the end of the input decides anything (bitstream.h:65), and *)
(* what is reported on success is within the two buffers (deflate.h:17).   *)
WithinInput ==
  /\ bitpos <= bitpos_end
  /\ status = "OK" => src_used <= src_len /\ dst_used = dst_pos /\ dst_used <= dst_cap

(* The buffer contract: whichever of the three copies runs, a reference    *)
(* becomes the repetition it stands for, only a symbol that does not fit   *)
(* is called full, and a reference is refused only if it reaches before    *)
(* the output.                                                             *)
OutputsSymbols == Buffer!Spec

(* Each turn of the two loops uses up input, so inflation always ends.     *)
Terminates == <>(pc = "done")
=============================================================================
