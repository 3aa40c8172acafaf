----------------------------- MODULE MCInflate -----------------------------
(* A small instance of Inflate for TLC.                                    *)
EXTENDS Inflate, Tables

(* Bit counts that leave the stream at every offset in a byte.             *)
MCSymBits == {4}
MCRefBits == {6}
MCHeaderBits == {7}
=============================================================================
