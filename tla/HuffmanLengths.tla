--------------------------- MODULE HuffmanLengths ---------------------------
(***************************************************************************)
(* compute_huffman_lengths (huffman.c): Huffman's algorithm on one array.  *)
(* The array starts with a heap of tree roots; behind it every node has a  *)
(* link element, first the symbols' and then, taken from the end of the    *)
(* shrinking heap, the joined nodes'.  An entry of the heap is a frequency *)
(* above the index of its link element, in one integer; a link is an index.*)
(* Codewords that come out too long are cut by trying again with a lower   *)
(* cap on the frequencies.                                                 *)
(***************************************************************************)
EXTENDS Integers, FiniteSets, Functions

CONSTANTS
  n,        \* the number of symbols
  MaxFreq,  \* bound on a frequency
  MaxLens,  \* the values of max_len
  UNIT,     \* 2 to the width of a frequency and of an index (65536)
  UNINIT    \* an entry of nodes nobody has written

ASSUME LengthsAssumption ==
  /\ n \in Nat \ {0} /\ MaxFreq \in Nat /\ UNIT \in Nat /\ 2 * n < UNIT
  /\ \A m \in MaxLens : m \in Nat \ {0} /\ 2 ^ m >= n
  /\ UNINIT \notin Int

VARIABLES
  freqs, max_len,   \* the arguments
  nodes, h,         \* the array, and the size of its heap
  freq_cap,
  phase, i,         \* the place in the function; the element that moves down
  next,             \* the heapify loop's i, or the symbol whose length is counted
  p, l,             \* the node taken out of the heap, or the link followed; its length
  lengths           \* the result

arguments == <<freqs, max_len>>
lengthsVars == <<arguments, nodes, h, freq_cap, phase, i, next, p, l, lengths>>

Symbols == 1 .. n
Used == {s \in Symbols : freqs[s] # 0}
(* The used symbols in their order.                                        *)
Rank(s) == Cardinality({t \in Used : t <= s})
UsedAt == [x \in 1 .. Cardinality(Used) |-> CHOOSE s \in Used : Rank(s) = x]
Freq(node) == node \div UNIT
Link(node) == node % UNIT
Sum(S) == SumFunctionOnSet(freqs, S)

Capped(s) == IF freqs[s] > freq_cap THEN freq_cap ELSE freqs[s]

LengthsInit ==
  /\ freqs \in [Symbols -> 0 .. MaxFreq] /\ Sum(Symbols) <= UNIT - 1
  /\ max_len \in MaxLens
  /\ nodes = [x \in 1 .. 2 * n |-> UNINIT]
  /\ h = 0 /\ freq_cap = UNIT - 1
  /\ phase = "fill" /\ i = 0 /\ next = 0 /\ p = 0 /\ l = 0
  /\ lengths = [s \in Symbols |-> UNINIT]

-----------------------------------------------------------------------------
(* try_again: the used symbols in order; what lies behind them is left.    *)
Fill ==
  /\ phase = "fill"
  /\ h' = Cardinality(Used)
  /\ nodes' = [x \in DOMAIN nodes |->
                 IF x <= h' THEN Capped(UsedAt[x]) * UNIT + (n + x) ELSE nodes[x]]
  /\ next' = h' \div 2
  /\ phase' = "heapify"
  /\ UNCHANGED <<arguments, freq_cap, i, p, l, lengths>>

(* minheap_down, a step down at a time; phase says who called it.          *)
Child_Left(x) == 2 * x     \* mutant: the right child is not looked at
Child(x) == IF 2 * x + 1 <= h /\ nodes[2 * x + 1] < nodes[2 * x] THEN 2 * x + 1 ELSE 2 * x
Settled == i * 2 <= h => nodes[Child(i)] >= nodes[i]

MoveDown ==
  /\ phase \in {"heapify_down", "take_down", "join_down"} /\ ~Settled
  /\ nodes' = [nodes EXCEPT ![i] = nodes[Child(i)], ![Child(i)] = nodes[i]]
  /\ i' = Child(i)
  /\ UNCHANGED <<arguments, h, freq_cap, phase, next, p, l, lengths>>

DownEnds ==
  /\ phase \in {"heapify_down", "take_down", "join_down"} /\ Settled
  /\ phase' = CASE phase = "heapify_down" -> "heapify"
                [] phase = "take_down" -> "join"
                [] phase = "join_down" -> "merge"
  /\ next' = IF phase = "heapify_down" THEN next - 1 ELSE next
  /\ UNCHANGED <<arguments, nodes, h, freq_cap, i, p, l, lengths>>

Heapify ==
  /\ phase = "heapify"
  /\ IF next >= 1
     THEN i' = next /\ phase' = "heapify_down"
     ELSE phase' = "merge" /\ UNCHANGED i
  /\ UNCHANGED <<arguments, nodes, h, freq_cap, next, p, l, lengths>>

FewSymbols ==
  /\ phase = "merge" /\ Cardinality(Used) < 2
  /\ lengths' = [s \in Symbols |-> IF freqs[s] = 0 THEN 0 ELSE 1]
  /\ phase' = "done"
  /\ UNCHANGED <<arguments, nodes, h, freq_cap, i, next, p, l>>

-----------------------------------------------------------------------------
(* The node with the lowest frequency leaves the heap,                     *)
TakeLowest ==
  /\ phase = "merge" /\ h > 1
  /\ p' = nodes[1]
  /\ nodes' = [nodes EXCEPT ![1] = nodes[h]]
  /\ h' = h - 1
  /\ i' = 1 /\ phase' = "take_down"
  /\ UNCHANGED <<arguments, freq_cap, next, l, lengths>>

(* and is joined with the next lowest: the new node takes its place in the *)
(* heap, and the element the heap has just given up becomes its link.      *)
Joined(q) == ((Freq(p) * UNIT + Freq(q) * UNIT) % (UNIT * UNIT)) + (h + 1)

Join ==
  /\ phase = "join"
  /\ LET q == nodes[1]
     IN nodes' = [nodes EXCEPT ![1] = Joined(q), ![Link(p)] = h + 1, ![Link(q)] = h + 1]
  /\ i' = 1 /\ phase' = "join_down"
  /\ UNCHANGED <<arguments, h, freq_cap, next, p, l, lengths>>

TreeBuilt ==
  /\ phase = "merge" /\ h <= 1 /\ Cardinality(Used) >= 2
  /\ next' = 1 /\ phase' = "symbol" /\ h' = 0
  /\ UNCHANGED <<arguments, nodes, freq_cap, i, p, l, lengths>>

-----------------------------------------------------------------------------
SkipUnused ==
  /\ phase = "symbol" /\ next <= n /\ freqs[next] = 0
  /\ lengths' = [lengths EXCEPT ![next] = 0]
  /\ next' = next + 1
  /\ UNCHANGED <<arguments, nodes, h, freq_cap, phase, i, p, l>>

FirstLink ==
  /\ phase = "symbol" /\ next <= n /\ freqs[next] # 0
  /\ h' = h + 1
  /\ p' = nodes[n + h'] /\ l' = 1
  /\ phase' = "links"
  /\ UNCHANGED <<arguments, nodes, freq_cap, i, next, lengths>>

FollowLink ==
  /\ phase = "links" /\ p # 2
  /\ l' = l + 1 /\ p' = nodes[p]
  /\ UNCHANGED <<arguments, nodes, h, freq_cap, phase, i, next, lengths>>

TooLong_Never == FALSE          \* mutant: the limit is not enforced
TooLong_Strict == l >= max_len  \* mutant: the limit itself is refused
TooLong == l > max_len

SymbolLength ==
  /\ phase = "links" /\ p = 2 /\ ~TooLong
  /\ lengths' = [lengths EXCEPT ![next] = l]
  /\ next' = next + 1 /\ phase' = "symbol"
  /\ UNCHANGED <<arguments, nodes, h, freq_cap, i, p, l>>

LowerCap_Stays == freq_cap            \* mutant: the cap is not lowered
LowerCap == freq_cap \div 2

TryAgain ==
  /\ phase = "links" /\ p = 2 /\ TooLong
  /\ freq_cap' = LowerCap
  /\ phase' = "fill"
  /\ UNCHANGED <<arguments, nodes, h, i, next, p, l, lengths>>

ReturnLengths ==
  /\ phase = "symbol" /\ next > n
  /\ phase' = "done"
  /\ UNCHANGED <<arguments, nodes, h, freq_cap, i, next, p, l, lengths>>

LengthsNext ==
  \/ Fill \/ Heapify \/ MoveDown \/ DownEnds \/ FewSymbols
  \/ TakeLowest \/ Join \/ TreeBuilt
  \/ SkipUnused \/ FirstLink \/ FollowLink \/ SymbolLength \/ TryAgain \/ ReturnLengths

LengthsSpec == LengthsInit /\ [][LengthsNext]_lengthsVars
(* Sequential code: the function takes each step it can take.              *)
FairSpec == LengthsSpec /\ WF_lengthsVars(LengthsNext)

-----------------------------------------------------------------------------
LengthsTypeOK ==
  /\ nodes \in [1 .. 2 * n -> 0 .. UNIT * UNIT - 1 \cup {UNINIT}]
  /\ h \in 0 .. n /\ next \in 0 .. n + 1 /\ i \in 0 .. n /\ l \in 0 .. n
  /\ p \in 0 .. UNIT * UNIT - 1
  /\ freq_cap \in 1 .. UNIT - 1     \* "Cannot lower freq_cap!" (huffman.c:240)
  /\ lengths \in [Symbols -> 0 .. n \cup {UNINIT}]
  /\ phase \in {"fill", "heapify", "heapify_down", "merge", "take_down", "join", "join_down",
                "symbol", "links", "done"}

(* While nodes are joined, the links of each used symbol lead to exactly   *)
(* one entry of the heap, which carries the sum of the frequencies of the  *)
(* symbols that lead to it: no joined node's link element is taken while   *)
(* it is part of the heap or of another node, and the sum never wraps      *)
(* (huffman.c:161).  The lowest entry is the first.                        *)
Roots == {Link(nodes[x]) : x \in 1 .. h}
Root(u) ==
  LET walk[c \in 0 .. n] == IF c = 0 THEN n + u
                            ELSE IF walk[c - 1] \in Roots THEN walk[c - 1] ELSE nodes[walk[c - 1]]
  IN walk[n]
ForestIntact ==
  phase = "merge" =>
    \A x \in 1 .. h :
      LET below == {u \in 1 .. Cardinality(Used) : Root(u) = Link(nodes[x])}
      IN /\ below # {}
         /\ Freq(nodes[x]) = SumFunctionOnSet([u \in below |-> Capped(UsedAt[u])], below)
         /\ nodes[1] <= nodes[x]

(* Kraft's sum of some lengths, in units of the longest codeword's share.  *)
Kraft(lens, S) == SumFunctionOnSet([s \in S |-> 2 ^ (n - lens[s])], S)

(* The result is a code for the used symbols and no others, within the     *)
(* limit, and no codeword is left over, however often the cap was lowered; *)
(* a single symbol gets one bit (huffman.c:143).                           *)
CompleteCode ==
  phase = "done" =>
    /\ \A s \in Symbols : IF s \in Used THEN lengths[s] \in 1 .. max_len ELSE lengths[s] = 0
    /\ Cardinality(Used) >= 2 => Kraft(lengths, Used) = 2 ^ n

(* Unless the cap was lowered, no prefix code makes the text shorter.      *)
Cost(lens) == SumFunctionOnSet([s \in Used |-> freqs[s] * lens[s]], Used)
Optimal ==
  phase = "done" /\ freq_cap = UNIT - 1 /\ Cardinality(Used) >= 2 =>
    \A lens \in [Used -> 1 .. n - 1] : Kraft(lens, Used) <= 2 ^ n => Cost(lengths) <= Cost(lens)

(* The retries end.                                                        *)
Terminates == <>(phase = "done")
=============================================================================
