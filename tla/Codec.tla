------------------------------- MODULE Codec -------------------------------
(***************************************************************************)
(* lz77_compress and the two output functions of lz77.h, as unpack of      *)
(* lz77_test.c applies them to the calls that were made.  The output       *)
(* depends on nothing but the calls, in their order; here each of them is  *)
(* decoded before the compressor goes on.                                  *)
(***************************************************************************)
EXTENDS Lz77

VARIABLES dst, dst_pos   \* the output, as long as the source

output == <<dst, dst_pos>>
codecVars == <<vars, output>>

CodecInit ==
  /\ Init
  /\ dst = [k \in 0 .. len - 1 |-> UNINIT]
  /\ dst_pos = 0

(* A step of the compressor: every byte described so far has been output.  *)
Compress == dst_pos = covered /\ Next /\ UNCHANGED output

lz77_output_lit ==
  /\ dst_pos < covered /\ token.call = "lit"
  /\ dst' = [dst EXCEPT ![dst_pos] = token.lit]
  /\ dst_pos' = dst_pos + 1
  /\ UNCHANGED vars

(* A turn of the loop of lz77_output_backref.                              *)
OutputBackrefByte ==
  /\ dst_pos < covered /\ token.call = "backref"
  /\ dst' = [dst EXCEPT ![dst_pos] = dst[dst_pos - token.dist]]
  /\ dst_pos' = dst_pos + 1
  /\ UNCHANGED vars

CodecNext == Compress \/ lz77_output_lit \/ OutputBackrefByte

CodecSpec == CodecInit /\ [][CodecNext]_codecVars

-----------------------------------------------------------------------------
(* Decompressing undoes compressing, whatever was deferred or cut short on *)
(* the way: what has been output is always the beginning of the source,    *)
(* also where a reference overlaps the bytes it makes; no reference        *)
(* reaches before it (the assert of lz77.h:35); and when the compressor    *)
(* returns true it is the whole source.                                    *)
DecodedIsSource ==
  /\ \A k \in 0 .. dst_pos - 1 : dst[k] = src[k]
  /\ dst_pos < covered /\ token.call = "backref" => token.dist \in 1 .. dst_pos
  /\ result = "true" => dst_pos = len
=============================================================================
