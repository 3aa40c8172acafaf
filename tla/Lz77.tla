-------------------------------- MODULE Lz77 --------------------------------
(***************************************************************************)
(* lz77_compress (lz77.c): the string matcher of hwzip.  It walks the      *)
(* source once, keeps every position it passes in a hash table whose       *)
(* chains live in a ring of LZ_WND_SIZE slots, searches the chains for an  *)
(* earlier occurrence of what comes next, and holds a match back for one   *)
(* position in case the next position has a better one.                    *)
(*                                                                         *)
(* A byte and a hash are the sets of their 1 bits, so exclusive or is      *)
(* symmetric difference and a left shift adds to each bit's index.         *)
(***************************************************************************)
EXTENDS Integers, FiniteSets

CONSTANTS
  Byte,             \* the byte values of the source: sets of bits
  MaxSrcLen,        \* bound on the length of the source
  HASH_SIZE,        \* bits of a hash (15)
  HASH_SHIFT,       \* bits it moves for each byte (5)
  LZ_WND_SIZE,      \* slots of the ring, and the reach of a reference (32768)
  LZ_MAX_LEN,       \* the longest reference (258)
  MAX_MATCH_STEPS,  \* chain entries one search may visit (4096)
  GOOD_MATCH_LEN,   \* a pending match of this length quarters the budget (32)
  NO_POS,           \* the end of a chain (SIZE_MAX)
  UNINIT            \* a variable the code has not written yet

ASSUME ByteAssumption == Byte \subseteq SUBSET Nat
ASSUME SizeAssumption ==
  /\ MaxSrcLen \in Nat
  /\ LZ_WND_SIZE \in Nat \ {0}
  /\ LZ_MAX_LEN \in Nat /\ LZ_MAX_LEN >= 3
  /\ MAX_MATCH_STEPS \in Nat
  /\ GOOD_MATCH_LEN \in Nat
(* Three shifts push a byte out of the hash, so it hashes three bytes.     *)
ASSUME HashAssumption ==
  HASH_SIZE \in Nat /\ HASH_SHIFT \in Nat /\ 3 * HASH_SHIFT >= HASH_SIZE
ASSUME SentinelAssumption ==
  NO_POS \notin Nat /\ UNINIT \notin Nat /\ NO_POS # UNINIT

VARIABLES
  src, len,                        \* the arguments
  head, prev,                      \* newest position of a hash, next older one
  h, i, j,                         \* the locals of lz77_compress
  match_len, match_pos,
  prev_match_len, prev_match_pos,  \* the match held back, at i - 1
  pc,
  best, cand, steps, found,        \* find_match: prev_match_len, i, max_match_steps
  covered, token, result           \* what the callbacks have been told so far

args == <<src, len>>
table == <<head, prev>>
search == <<best, cand, steps, found>>
match == <<match_len, match_pos>>
pending == <<prev_match_len, prev_match_pos>>
told == <<covered, token, result>>
vars == <<args, table, h, i, j, match, pending, pc, search, told>>

(* The contract of lz77.h; src, len, covered, token and result are its own.*)
Stream == INSTANCE LzStream

Hash == SUBSET (0 .. HASH_SIZE - 1)
Pos == Nat \cup {NO_POS}
PC == {"loop", "walk", "insert", "emit", "skip", "tail", "done"}

min(a, b) == IF a < b THEN a ELSE b

update_hash_NoMask(hash, c) ==   \* mutant: old bits are never masked off
  LET shifted == {b + HASH_SHIFT : b \in hash}
  IN (shifted \ c) \cup (c \ shifted)
update_hash(hash, c) ==
  LET shifted == {b + HASH_SHIFT : b \in hash}
  IN ((shifted \ c) \cup (c \ shifted)) \cap (0 .. HASH_SIZE - 1)

insert_hash(hash, pos) ==
  /\ prev' = [prev EXCEPT ![pos % LZ_WND_SIZE] = head[hash]]
  /\ head' = [head EXCEPT ![hash] = pos]

(* cmp(src, a, b, lo, hi) returns l: 0 when one of the first lo + 1 bytes  *)
(* differs, otherwise the common prefix, cut at hi.                        *)
cmp(l, a, b, lo, hi) ==
  \/ l = 0 /\ \E k \in 0 .. lo : src[a + k] # src[b + k]
  \/ /\ l \in lo + 1 .. hi
     /\ \A k \in 0 .. l - 1 : src[a + k] = src[b + k]
     /\ l < hi => src[a + l] # src[b + l]

MaxMatch == min(LZ_MAX_LEN, len - i)
PrevEnd == (i - 1) + prev_match_len

Init ==
  /\ len \in 0 .. MaxSrcLen
  /\ src \in [0 .. len - 1 -> Byte]
  /\ head = [x \in Hash |-> NO_POS]
  /\ prev = [s \in 0 .. LZ_WND_SIZE - 1 |-> UNINIT]
  /\ h = IF len >= 2 THEN update_hash(update_hash({}, src[0]), src[1]) ELSE {}
  /\ i = 0 /\ j = 0
  /\ match_len = 0 /\ match_pos = UNINIT
  /\ prev_match_len = 0 /\ prev_match_pos = 0
  /\ pc = "loop"
  /\ best = 0 /\ cand = NO_POS /\ steps = 0 /\ found = FALSE
  /\ covered = 0 /\ token = Stream!NoToken /\ result = "none"

-----------------------------------------------------------------------------
(* What a callback that returns true, or false, leaves behind.             *)
Accept(t, n) == token' = t /\ covered' = covered + n /\ UNCHANGED result

CallPending ==
  \/ pc = "loop" /\ i + 2 >= len /\ prev_match_len # 0
  \/ pc = "emit" /\ (match_len = 0 \/ prev_match_len # 0)
  \/ pc = "tail" /\ i < len

CallbackRefuses ==
  /\ CallPending
  /\ result' = "false" /\ pc' = "done"
  /\ UNCHANGED <<args, table, h, i, j, match, pending, search, covered, token>>

-----------------------------------------------------------------------------
(* The head of the loop, with the start of find_match.                     *)
SearchStart ==
  /\ pc = "loop" /\ i + 2 < len
  /\ h' = update_hash(h, src[i + 2])
  /\ LET atLeast == IF prev_match_len = 0 THEN 2 ELSE prev_match_len
     IN IF atLeast >= MaxMatch
        THEN pc' = "insert" /\ match_len' = 0 /\ UNCHANGED search
        ELSE /\ pc' = "walk"
             /\ best' = atLeast
             /\ steps' = IF atLeast >= GOOD_MATCH_LEN THEN MAX_MATCH_STEPS \div 4
                                                      ELSE MAX_MATCH_STEPS
             /\ found' = FALSE
             /\ cand' = head[h']
             /\ UNCHANGED match_len
  /\ UNCHANGED <<args, table, i, j, match_pos, pending, told>>

InReach_Narrow == steps # 0 /\ cand # NO_POS /\ i - cand < LZ_WND_SIZE   \* mutant: off by one
InReach_OneLess == steps > 1 /\ cand # NO_POS /\ i - cand <= LZ_WND_SIZE   \* mutant: the last step is not taken
InReach == steps # 0 /\ cand # NO_POS /\ i - cand <= LZ_WND_SIZE

SearchEnd ==
  /\ pc = "walk" /\ ~InReach
  /\ match_len' = IF found THEN best ELSE 0
  /\ pc' = "insert"
  /\ UNCHANGED <<args, table, h, i, j, match_pos, pending, search, told>>

(* One candidate of the chain; a match of MaxMatch bytes ends the search.  *)
WalkStep ==
  /\ pc = "walk" /\ InReach
  /\ \E l \in 0 .. MaxMatch :
       /\ cmp(l, cand, i, best, MaxMatch)
       /\ IF l # 0
          THEN found' = TRUE /\ match_pos' = cand /\ best' = l
          ELSE UNCHANGED <<found, match_pos, best>>
       /\ IF l = MaxMatch
          THEN pc' = "insert" /\ match_len' = l /\ UNCHANGED <<cand, steps>>
          ELSE /\ cand' = prev[cand % LZ_WND_SIZE]
               /\ steps' = steps - 1
               /\ UNCHANGED <<pc, match_len>>
  /\ UNCHANGED <<args, table, h, i, j, pending, told>>

InsertCurrent ==
  /\ pc = "insert"
  /\ insert_hash(h, i)
  /\ pc' = "emit"
  /\ UNCHANGED <<args, h, i, j, match, pending, search, told>>

PrevIsBest_Eager == prev_match_len # 0   \* mutant: the match at i is not compared
PrevIsBest == prev_match_len # 0 /\ prev_match_len >= match_len

OutputPrevious_FromI ==   \* mutant: the distance counted from i, not i - 1
  /\ pc = "emit" /\ PrevIsBest
  /\ Accept(Stream!Backref(i - prev_match_pos, prev_match_len), prev_match_len)
  /\ j' = i + 1
  /\ pc' = "skip"
  /\ UNCHANGED <<args, table, h, i, match, pending, search>>
OutputPrevious ==
  /\ pc = "emit" /\ PrevIsBest
  /\ Accept(Stream!Backref((i - 1) - prev_match_pos, prev_match_len), prev_match_len)
  /\ j' = i + 1
  /\ pc' = "skip"
  /\ UNCHANGED <<args, table, h, i, match, pending, search>>

SkipInsert_StaleHash ==   \* mutant: the hash does not roll while skipping
  /\ pc = "skip" /\ j < min(PrevEnd, len - 2)
  /\ insert_hash(h, j)
  /\ j' = j + 1
  /\ UNCHANGED <<args, h, i, match, pending, pc, search, told>>
SkipInsert_Stuck ==       \* mutant: j is not advanced
  /\ pc = "skip" /\ j < min(PrevEnd, len - 2)
  /\ h' = update_hash(h, src[j + 2])
  /\ insert_hash(h', j)
  /\ UNCHANGED <<args, i, j, match, pending, pc, search, told>>
SkipInsert ==
  /\ pc = "skip" /\ j < min(PrevEnd, len - 2)
  /\ h' = update_hash(h, src[j + 2])
  /\ insert_hash(h', j)
  /\ j' = j + 1
  /\ UNCHANGED <<args, i, match, pending, pc, search, told>>

SkipEnd_Short ==          \* mutant: one position too few is skipped
  /\ pc = "skip" /\ j >= min(PrevEnd, len - 2)
  /\ i' = PrevEnd - 1
  /\ prev_match_len' = 0
  /\ pc' = "loop"
  /\ UNCHANGED <<args, table, h, j, match, prev_match_pos, search, told>>
SkipEnd ==
  /\ pc = "skip" /\ j >= min(PrevEnd, len - 2)
  /\ i' = PrevEnd
  /\ prev_match_len' = 0
  /\ pc' = "loop"
  /\ UNCHANGED <<args, table, h, j, match, prev_match_pos, search, told>>

OutputLiteral ==
  /\ pc = "emit" /\ ~PrevIsBest /\ match_len = 0
  /\ Accept(Stream!Literal(src[i]), 1)
  /\ i' = i + 1
  /\ pc' = "loop"
  /\ UNCHANGED <<args, table, h, j, match, pending, search>>

Defer ==
  /\ pc = "emit" /\ ~PrevIsBest /\ match_len # 0
  /\ IF prev_match_len # 0 THEN Accept(Stream!Literal(src[i - 1]), 1)
                           ELSE UNCHANGED told
  /\ prev_match_len' = match_len
  /\ prev_match_pos' = match_pos
  /\ i' = i + 1
  /\ pc' = "loop"
  /\ UNCHANGED <<args, table, h, j, match, search>>

OutputLast_Dropped ==     \* mutant: a match still held back is forgotten
  /\ pc = "loop" /\ i + 2 >= len
  /\ pc' = "tail"
  /\ UNCHANGED <<args, table, h, i, j, match, pending, search, told>>
OutputLast ==
  /\ pc = "loop" /\ i + 2 >= len
  /\ IF prev_match_len # 0
     THEN /\ Accept(Stream!Backref((i - 1) - prev_match_pos, prev_match_len), prev_match_len)
          /\ i' = PrevEnd
     ELSE UNCHANGED <<told, i>>
  /\ pc' = "tail"
  /\ UNCHANGED <<args, table, h, j, match, pending, search>>

TailLiteral ==
  /\ pc = "tail" /\ i < len
  /\ Accept(Stream!Literal(src[i]), 1)
  /\ i' = i + 1
  /\ UNCHANGED <<args, table, h, j, match, pending, pc, search>>

Return ==
  /\ pc = "tail" /\ i >= len
  /\ result' = "true" /\ pc' = "done"
  /\ UNCHANGED <<args, table, h, i, j, match, pending, search, covered, token>>

Next ==
  \/ CallbackRefuses
  \/ SearchStart \/ WalkStep \/ SearchEnd
  \/ InsertCurrent
  \/ OutputPrevious \/ SkipInsert \/ SkipEnd
  \/ OutputLiteral \/ Defer
  \/ OutputLast \/ TailLiteral \/ Return

Spec == Init /\ [][Next]_vars
(* Sequential code: a function that can take its next step takes it.       *)
FairSpec == Spec /\ WF_vars(Next)

-----------------------------------------------------------------------------
TypeOK ==
  /\ len \in Nat /\ src \in [0 .. len - 1 -> Byte]
  /\ head \in [Hash -> Pos]
  /\ prev \in [0 .. LZ_WND_SIZE - 1 -> Pos \cup {UNINIT}]
  /\ h \in Hash
  /\ i \in Nat /\ j \in Nat
  /\ match_len \in Nat /\ match_pos \in Nat \cup {UNINIT}
  /\ prev_match_len \in Nat /\ prev_match_pos \in Nat \cup {UNINIT}
  /\ pc \in PC
  /\ best \in Nat /\ cand \in Pos \cup {UNINIT} /\ steps \in Nat /\ found \in BOOLEAN
  /\ covered \in Nat
  /\ result \in {"none", "true", "false"}

(* The three bytes at p, hashed from nothing.                              *)
HashAt(p) == update_hash(update_hash(update_hash({}, src[p]), src[p + 1]), src[p + 2])
(* The newest position before p with the hash x.                           *)
NewestBefore(p, x) ==
  LET older == {q \in 0 .. p - 1 : HashAt(q) = x}
  IN IF older = {} THEN NO_POS ELSE CHOOSE q \in older : \A r \in older : r <= q

(* The positions below Frontier are the ones in the hash table.            *)
Frontier == CASE pc = "skip" -> j
              [] pc = "emit" -> i + 1
              [] OTHER -> i

(* The index never loses its place, whatever mix of searches, deferrals    *)
(* and skips led here: each chain of the ring holds, inside the window,    *)
(* exactly the positions with its hash, newest first, although a slot is   *)
(* reused every LZ_WND_SIZE positions and never initialised (lz77.c:147),  *)
(* and h has seen the bytes up to the one before the next to be hashed.    *)
IndexExact ==
  pc \in {"loop", "walk", "insert", "emit", "skip"} /\ Frontier + 2 < len =>
    /\ \A x \in Hash : head[x] = NewestBefore(Frontier, x)
    /\ \A p \in {q \in 0 .. Frontier - 1 : Frontier - q <= LZ_WND_SIZE} :
         prev[p % LZ_WND_SIZE] = NewestBefore(p, HashAt(p))
    /\ pc \in {"walk", "insert"} => h = HashAt(i)

(* find_match keeps to written slots: the chain walk never reaches a slot  *)
(* of prev nobody has stored to, and visits only earlier positions         *)
(* (the assert of lz77.c:87).                                              *)
WalkInsideChain == pc = "walk" => cand = NO_POS \/ (cand \in Nat /\ cand < i)

(* What find_match says of its result (lz77.c:50): unless its step budget  *)
(* ran out, the match is longer than the one asked to beat, no string of   *)
(* the window matches further, and none that matches as far is newer.      *)
FindsLongestMostRecent ==
  pc = "insert" /\ steps # 0 =>
    \A m \in 0 .. i - 1, n \in 3 .. LZ_MAX_LEN :
      Stream!Repeats(i, m, n) /\ n > prev_match_len =>
        /\ match_len >= n
        /\ match_len = n => match_pos >= m

(* When the budget runs out in the middle of a chain: find_match tries the *)
(* newest of the earlier positions in the window whose hash is the one at  *)
(* i, as many as it has steps for, a quarter if the match held back is     *)
(* good (lz77.c:76); none of these is longer than the match it returns, or *)
(* as long and newer, and that match is one of them.                       *)
Candidates(p) == {m \in 0 .. p - 1 : p - m <= LZ_WND_SIZE /\ HashAt(m) = HashAt(p)}
Newer(p, m) == {r \in Candidates(p) : r > m}
Asked == IF prev_match_len = 0 THEN 2 ELSE prev_match_len
Budget == IF Asked >= GOOD_MATCH_LEN THEN MAX_MATCH_STEPS \div 4 ELSE MAX_MATCH_STEPS
Tried == {m \in Candidates(i) : Cardinality(Newer(i, m)) < Budget}
FindsBestTried ==
  pc = "insert" =>
    /\ \A m \in Tried, n \in 3 .. LZ_MAX_LEN :
         Stream!Repeats(i, m, n) /\ n > prev_match_len =>
           /\ match_len >= n
           /\ match_len = n => match_pos >= m
    /\ match_len # 0 => match_pos \in Tried

(* The parse the deferral is for, when the step budget never binds: a byte *)
(* becomes a literal only if no match starts there, or a longer one starts *)
(* at the next byte; a reference is as long as any that starts there, and  *)
(* no match at the next byte is longer.                                    *)
Matches(p, n) == \E m \in 0 .. p - 1 : Stream!Repeats(p, m, n)
LazyChoice ==
  token' # token \/ covered' # covered =>
    LET c == covered
        n == covered' - covered
        lengths == 3 .. LZ_MAX_LEN
    IN IF token'.call = "lit"
       THEN \A k \in lengths : Matches(c, k) => \E l \in k + 1 .. LZ_MAX_LEN : Matches(c + 1, l)
       ELSE \A k \in n + 1 .. LZ_MAX_LEN : ~Matches(c, k) /\ ~Matches(c + 1, k)
LazyParse == [][LazyChoice]_vars

(* What the callbacks are told is a description of the source (lz77.h:15). *)
DescribesSource == Stream!Spec

(* The compressor always returns.                                          *)
Terminates == <>(pc = "done")
=============================================================================
