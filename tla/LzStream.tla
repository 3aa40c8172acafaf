------------------------------ MODULE LzStream ------------------------------
(***************************************************************************)
(* What an LZ77 compressor promises to the callbacks it feeds (lz77.h:15). *)
(* The calls it makes describe the source from its first byte on, with no  *)
(* gap and no overlap: a literal is the next byte, a back reference        *)
(* repeats bytes that the earlier calls have already described and that    *)
(* lie in the window.  It stops at the first call that is refused, and     *)
(* otherwise only when the whole source has been described.                *)
(***************************************************************************)
EXTENDS Integers

CONSTANTS
  Byte,         \* the values a source byte can take
  MaxSrcLen,    \* bound on the length of the source
  LZ_WND_SIZE,  \* how far back a reference may reach
  LZ_MAX_LEN    \* the longest reference

VARIABLES
  src,       \* the source bytes, indexed from 0
  len,       \* how many there are
  covered,   \* how many of them the accepted calls describe
  token,     \* the last accepted call
  result     \* "none" while running, then what the function returned

vars == <<src, len, covered, token, result>>

MIN_LEN == 3   \* references are three bytes or longer

NoToken == [call |-> "none"]
Literal(b) == [call |-> "lit", lit |-> b]
Backref(d, n) == [call |-> "backref", dist |-> d, len |-> n]

(* The n bytes at p repeat those at m, an earlier place in the window.     *)
Repeats(p, m, n) ==
  /\ n \in MIN_LEN .. LZ_MAX_LEN
  /\ m < p /\ p - m <= LZ_WND_SIZE
  /\ p + n <= len
  /\ \A k \in 0 .. n - 1 : src[m + k] = src[p + k]

Init ==
  /\ len \in 0 .. MaxSrcLen
  /\ src \in [0 .. len - 1 -> Byte]
  /\ covered = 0
  /\ token = NoToken
  /\ result = "none"

DescribeLiteral ==
  /\ result = "none"
  /\ covered < len
  /\ token' = Literal(src[covered])
  /\ covered' = covered + 1
  /\ UNCHANGED <<src, len, result>>

DescribeBackref(m, n) ==
  /\ result = "none"
  /\ Repeats(covered, m, n)
  /\ token' = Backref(covered - m, n)
  /\ covered' = covered + n
  /\ UNCHANGED <<src, len, result>>

CallRefused ==
  /\ result = "none"
  /\ covered < len
  /\ result' = "false"
  /\ UNCHANGED <<src, len, covered, token>>

AllDescribed ==
  /\ result = "none"
  /\ covered = len
  /\ result' = "true"
  /\ UNCHANGED <<src, len, covered, token>>

Next ==
  \/ DescribeLiteral
  \/ \E m \in 0 .. covered - 1, n \in MIN_LEN .. LZ_MAX_LEN : DescribeBackref(m, n)
  \/ CallRefused
  \/ AllDescribed

Spec == Init /\ [][Next]_vars
=============================================================================
