---------------------------- MODULE Decompressor ----------------------------
(***************************************************************************)
(* What hwinflate promises about its output buffer (deflate.h:17), with    *)
(* the bit stream left out: the output grows one symbol of the input at a  *)
(* time and is never rewritten; a symbol is output whole or not at all,    *)
(* the buffer is called full only when the next symbol does not fit, and a *)
(* reference is an error only when it reaches before the output.           *)
(***************************************************************************)
EXTENDS Integers, Sequences

CONSTANTS
  Byte,              \* byte values
  MIN_LEN, MAX_LEN,  \* lengths of a back reference
  MaxStored,         \* the longest stored block
  MaxDstCap          \* bound on the capacity

VARIABLES
  out,       \* the bytes output so far
  dst_cap,   \* how many there may be
  symbol,    \* the last symbol output, or the one that could not be
  status     \* "none" while running, then the returned status

vars == <<out, dst_cap, symbol, status>>

NoSymbol == [sym |-> "none"]
Lit(b) == [sym |-> "lit", byte |-> b]
Ref(d, n) == [sym |-> "ref", dist |-> d, len |-> n]
Stored(n) == [sym |-> "stored", len |-> n]

(* What comes next in the input, and how many bytes it stands for.         *)
NextLit == \E b \in Byte : symbol' = Lit(b)
NextRef == \E d \in 1 .. Len(out), n \in MIN_LEN .. MAX_LEN : symbol' = Ref(d, n)
NextStored == \E n \in 0 .. MaxStored : symbol' = Stored(n)
Size == IF symbol'.sym = "lit" THEN 1 ELSE symbol'.len

Init == out = <<>> /\ dst_cap \in 0 .. MaxDstCap /\ symbol = NoSymbol /\ status = "none"

Grow ==
  /\ Len(out) + Size <= dst_cap
  /\ out' \in Seq(Byte) /\ Len(out') = Len(out) + Size
  /\ \A k \in 1 .. Len(out) : out'[k] = out[k]
  /\ UNCHANGED <<dst_cap, status>>

Output ==
  /\ status = "none"
  /\ \/ NextLit /\ Grow /\ out'[Len(out) + 1] = symbol'.byte
     \/ NextStored /\ Grow
        \* each byte of a reference equals the one dist before it, which may be new too
     \/ /\ NextRef /\ Grow
        /\ \A k \in Len(out) + 1 .. Len(out') : out'[k] = out'[k - symbol'.dist]

Full ==
  /\ status = "none"
  /\ NextLit \/ NextRef \/ NextStored
  /\ Len(out) + Size > dst_cap
  /\ status' = "FULL"
  /\ UNCHANGED <<out, dst_cap>>

(* A reference to before the output, which ends it with an error.          *)
TooFar ==
  /\ status = "none"
  /\ symbol'.sym = "ref" /\ symbol'.dist > Len(out)
  /\ status' = "ERR"
  /\ UNCHANGED <<out, dst_cap>>

EndOfInput ==
  /\ status = "none"
  /\ status' \in {"OK", "ERR"}
  /\ UNCHANGED <<out, dst_cap, symbol>>

Next == Output \/ Full \/ TooFar \/ EndOfInput

Spec == Init /\ [][Next]_vars
=============================================================================
