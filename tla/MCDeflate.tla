----------------------------- MODULE MCDeflate -----------------------------
(* A small instance of Deflate for TLC.                                    *)
EXTENDS Deflate

(* "x" has a shorter fixed code than "y"; "L" stands for two lengths with  *)
(* one extra bit, "D" for two distances with one extra bit.                *)
MCLit == {"x", "y"}
MCRef == {[distance |-> 1, len |-> 2], [distance |-> 2, len |-> 3]}
MCLen2Litlen == [n \in 2 .. 3 |-> "L"]
MCDistance2Dist == [d \in 1 .. 2 |-> "D"]
MCLitlenEbits == [s \in Litlen |-> IF s = "L" THEN 1 ELSE 0]
MCDistEbits == [s \in DistSym |-> 1]
(* Coding a small block must be able to cost more than storing it, so the  *)
(* fixed code of "y" is long; the dynamic codes are dear, or short but     *)
(* behind a longer header.                                                 *)
MCFixedLitlen == [s \in Litlen |-> CASE s = "x" -> 8 [] s = "y" -> 21 [] OTHER -> 7]
MCFixedDist == [s \in DistSym |-> 5]
MCDynLitlen == {[s \in Litlen |-> 1], [s \in Litlen |-> IF s = "L" THEN 12 ELSE 22]}
MCDynDist == {[s \in DistSym |-> 1]}
MCDynHeader == {20}

(* Capacities: too small for any block, for the second, for the third, and *)
(* enough.                                                                 *)
MCDstCap == {1, 5, 9, 25}
=============================================================================
