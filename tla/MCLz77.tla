------------------------------- MODULE MCLz77 -------------------------------
(* Small instances of Lz77 for TLC.                                        *)
EXTENDS Lz77

(* Bytes as sets of bits.  In a three-bit hash bit 2 of a byte is shifted  *)
(* out one byte later, so the strings of {} and {2} that end alike have    *)
(* the same hash, and a chain holds positions that do not match.           *)
MCTwoBytes == {{}, {2}}
=============================================================================
