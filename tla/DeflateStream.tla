---------------------------- MODULE DeflateStream ----------------------------
(***************************************************************************)
(* What hwdeflate promises (deflate.h:26): the calls of the string matcher *)
(* come out as blocks, each call in one block and in order, none twice;    *)
(* a block names the bytes of the source that its calls stand for, so a    *)
(* stored block holds the same text as a Huffman block would; the last     *)
(* block and no other is marked final, and it ends where the source ends.  *)
(***************************************************************************)
EXTENDS Integers, Sequences, SequencesExt

CONSTANTS
  Token,                \* a call: a literal or a back reference
  Bytes(_),             \* how many bytes of the source it stands for
  MAX_BLOCK_LEN_BYTES

VARIABLES
  src_len,
  calls,    \* the calls made so far
  stream,   \* the blocks written so far
  result    \* "none" while running, then what the function returned

vars == <<src_len, calls, stream, result>>

TotalBytes(tokens) == SumFunction([x \in DOMAIN tokens |-> Bytes(tokens[x])])

Written == SumFunction([x \in DOMAIN stream |-> Len(stream[x].tokens)])
Unwritten == SubSeq(calls, Written + 1, Len(calls))
Ended == stream # <<>> /\ Last(stream).final

Init == src_len \in Nat /\ calls = <<>> /\ stream = <<>> /\ result = "none"

Call(t) ==
  /\ result = "none" /\ ~Ended
  /\ TotalBytes(calls) + Bytes(t) <= src_len
  /\ calls' = Append(calls, t)
  /\ UNCHANGED <<src_len, stream, result>>

(* The next m calls become a block of at most MAX_BLOCK_LEN_BYTES.         *)
Write(m, final) ==
  LET tokens == SubSeq(Unwritten, 1, m)
  IN /\ result = "none" /\ ~Ended
     /\ TotalBytes(tokens) <= MAX_BLOCK_LEN_BYTES
     /\ final => m = Len(Unwritten) /\ TotalBytes(calls) = src_len
     /\ stream' = Append(stream, [final |-> final, tokens |-> tokens,
                                  first |-> TotalBytes(SubSeq(calls, 1, Written)),
                                  bytes |-> TotalBytes(tokens)])
     /\ UNCHANGED <<src_len, calls, result>>

(* Success needs a final block; no room can be met at any time.            *)
Return ==
  /\ result = "none" /\ Ended
  /\ result' = "true"
  /\ UNCHANGED <<src_len, calls, stream>>

NoRoom ==
  /\ result = "none" /\ ~Ended
  /\ result' = "false"
  /\ UNCHANGED <<src_len, calls, stream>>

Next ==
  \/ \E t \in Token : Call(t)
  \/ \E m \in 0 .. Len(Unwritten), final \in BOOLEAN : Write(m, final)
  \/ Return \/ NoRoom

Spec == Init /\ [][Next]_vars
=============================================================================
