--------------------------- MODULE MCCodeLengths ---------------------------
(* A small instance of CodeLengths for TLC.                                *)
EXTENDS CodeLengths

(* Lengths that change at most MaxChanges times from one symbol to the     *)
(* next: it is runs that the code is about.                                *)
CONSTANT MaxChanges
FewChanges(S) ==
  {f \in S : Cardinality({x \in DOMAIN f : x + 1 \in DOMAIN f /\ f[x] # f[x + 1]}) <= MaxChanges}

MCLitlenLens == {f \in FewChanges([0 .. LITLEN_MAX -> 0 .. 2]) : f[LITLEN_EOB] # 0}
MCDistLens == FewChanges([0 .. DISTSYM_MAX -> 0 .. 2])
MCOrder == <<4, 5, 6, 0, 3, 1, 2>>
MCCodelenLength == {[s \in CodelenSym |-> 2], [s \in CodelenSym |-> (s % 3) + 1]}
=============================================================================
