----------------------------- MODULE Lz77Proofs -----------------------------
(***************************************************************************)
(* Proofs about Lz77 for every source, window, hash and budget.  The       *)
(* inductive invariant IInv says where the index, the pending match and    *)
(* the search stand relative to the loop's position; from it follow the    *)
(* types, that the chain walk stays on written slots, and that the calls   *)
(* made describe the source (the contract LzStream).  ExactInv says that   *)
(* the ring indexes the window exactly, so that find_match finds the       *)
(* longest match; LazyInv what the deferral has seen of the matches at two *)
(* neighbouring positions, so that the parse is the lazy one; and CodecInv *)
(* that what is described decodes to its source.                           *)
(***************************************************************************)
EXTENDS Codec, FiniteSetTheorems, TLAPS

(* A chain link found at position p, or at the head for the frontier p.    *)
Before(x, p) == x = NO_POS \/ (x \in Nat /\ x < p)

(* Every head is older than f, and every slot that holds one of the last   *)
(* LZ_WND_SIZE positions links it to an older one.                         *)
Indexed(f) ==
  /\ \A x \in Hash : Before(head[x], f)
  /\ \A p \in 0 .. f - 1 : f - p <= LZ_WND_SIZE => Before(prev[p % LZ_WND_SIZE], p)

MatchAt(p, m, n) == n # 0 => p \in Nat /\ m \in Nat /\ Stream!Repeats(p, m, n)

InLoop == pc \in {"loop", "walk", "insert", "emit"}

PendingInv == InLoop =>
  /\ MatchAt(i - 1, prev_match_pos, prev_match_len)
  /\ covered = IF prev_match_len = 0 THEN i ELSE i - 1
  /\ i <= len
SearchInv ==
  /\ pc \in {"walk", "insert", "emit"} => i + 2 < len
  /\ pc = "walk" => /\ 2 <= best /\ best < MaxMatch
                    /\ found => MatchAt(i, match_pos, best)
                    /\ Before(cand, i)
  /\ pc \in {"insert", "emit"} => MatchAt(i, match_pos, match_len)
IndexInv ==
  /\ pc = "loop" /\ i + 2 < len => Indexed(i)
  /\ pc \in {"walk", "insert"} => Indexed(i)
  /\ pc = "emit" => Indexed(i + 1)
  /\ pc = "skip" => Indexed(j)
SkipInv == pc = "skip" =>
  /\ i + 2 < len /\ prev_match_len >= 3
  /\ covered = PrevEnd /\ PrevEnd <= len
  /\ 0 < j /\ j <= min(PrevEnd, len - 2)
EndInv ==
  /\ pc = "tail" => covered = i /\ i <= len
  /\ (pc = "done") = (result # "none")

IInv == TypeOK /\ PendingInv /\ SearchInv /\ IndexInv /\ SkipInv /\ EndInv

-----------------------------------------------------------------------------
USE SizeAssumption, HashAssumption, SentinelAssumption

(* Two positions less than a window apart have different slots.            *)
LEMMA SlotsDiffer ==
  ASSUME NEW p \in Nat, NEW q \in Nat, q < p, p - q < LZ_WND_SIZE
  PROVE  p % LZ_WND_SIZE # q % LZ_WND_SIZE
<1> DEFINE W == LZ_WND_SIZE
           a == p \div W
           b == q \div W
<1>1. W \in Nat \ {0}
  OBVIOUS
<1>2. a \in Int /\ b \in Int /\ p = W * a + (p % W) /\ q = W * b + (q % W)
  BY <1>1
<1>3. SUFFICES ASSUME p % W = q % W PROVE FALSE
  OBVIOUS
<1>4. p - q = W * (a - b)
  BY <1>1, <1>2, <1>3
<1>5. a - b >= 1
  BY <1>1, <1>2, <1>4
<1>6. W * (a - b) >= W
  BY <1>1, <1>2, <1>5
<1>7. QED
  BY <1>1, <1>4, <1>6

LEMMA HashType == \A x, c : update_hash(x, c) \in Hash
BY DEF update_hash, Hash

(* insert_hash moves the frontier past the position it inserts, whatever   *)
(* the slot it overwrites held.                                            *)
LEMMA InsertIndexed ==
  ASSUME TypeOK, NEW f \in Nat, NEW x \in Hash, Indexed(f), insert_hash(x, f)
  PROVE  /\ Indexed(f + 1)'
         /\ head' \in [Hash -> Pos]
         /\ prev' \in [0 .. LZ_WND_SIZE - 1 -> Pos \cup {UNINIT}]
<1>1. f % LZ_WND_SIZE \in 0 .. LZ_WND_SIZE - 1
  OBVIOUS
<1>2. head' = [head EXCEPT ![x] = f] /\ prev' = [prev EXCEPT ![f % LZ_WND_SIZE] = head[x]]
  BY DEF insert_hash
<1>3. head' \in [Hash -> Pos] /\ prev' \in [0 .. LZ_WND_SIZE - 1 -> Pos \cup {UNINIT}]
  BY <1>1, <1>2 DEF TypeOK, Pos
<1>4. \A y \in Hash : Before(head'[y], f + 1)
  BY <1>2 DEF TypeOK, Indexed, Before
<1>5. ASSUME NEW p \in 0 .. f, f + 1 - p <= LZ_WND_SIZE
      PROVE  Before(prev'[p % LZ_WND_SIZE], p)
  <2>1. CASE p = f
    BY <1>1, <1>2, <2>1 DEF TypeOK, Indexed
  <2>2. CASE p < f
    <3>1. p % LZ_WND_SIZE # f % LZ_WND_SIZE /\ p % LZ_WND_SIZE \in 0 .. LZ_WND_SIZE - 1
      BY <1>5, <2>2, SlotsDiffer
    <3>2. prev'[p % LZ_WND_SIZE] = prev[p % LZ_WND_SIZE]
      BY <1>2, <3>1 DEF TypeOK
    <3>3. QED
      BY <1>5, <2>2, <3>2 DEF Indexed
  <2>3. QED
    BY <2>1, <2>2
<1>6. QED
  BY <1>3, <1>4, <1>5 DEF Indexed, Before

-----------------------------------------------------------------------------
LEMMA InitIInv == Init => IInv
<1> SUFFICES ASSUME Init PROVE IInv
  OBVIOUS
<1>1. {} \in Hash
  BY DEF Hash
<1>2. h \in Hash
  BY <1>1, HashType DEF Init
<1>3. TypeOK
  <2>1. found \in BOOLEAN
    BY Zenon DEF Init
  <2>2. QED
    BY <1>2, <2>1 DEF Init, TypeOK, Pos, PC
<1>4. PendingInv /\ SearchInv /\ SkipInv /\ EndInv
  BY DEF Init, PendingInv, SearchInv, SkipInv, EndInv, MatchAt
<1>5. IndexInv
  BY DEF Init, IndexInv, Indexed, Before
<1>6. QED
  BY <1>3, <1>4, <1>5 DEF IInv

(* A part of the state that keeps its value keeps what is said of it.      *)
LEMMA SameIndex == ASSUME UNCHANGED table, NEW f \in Nat, Indexed(f) PROVE Indexed(f)'
BY DEF table, Indexed, Before

LEMMA SameMatch ==
  ASSUME UNCHANGED args, NEW p, NEW m, NEW n, MatchAt(p, m, n)
  PROVE  MatchAt(p, m, n)'
BY DEF args, MatchAt, Stream!Repeats, Stream!MIN_LEN

(* What a match says of the lengths.                                       *)
LEMMA MatchBounds ==
  ASSUME TypeOK, NEW p, NEW m, NEW n, MatchAt(p, m, n), n # 0
  PROVE  /\ p \in Nat /\ m \in Nat /\ n \in Nat
         /\ 3 <= n /\ n <= LZ_MAX_LEN /\ p + n <= len /\ m < p /\ p - m <= LZ_WND_SIZE
BY DEF TypeOK, MatchAt, Stream!Repeats, Stream!MIN_LEN

LEMMA NextIInv == IInv /\ [Next]_vars => IInv'
<1> SUFFICES ASSUME IInv, [Next]_vars PROVE IInv'
  OBVIOUS
<1> USE DEF IInv
<1>1. CASE CallbackRefuses
  <2>1. TypeOK'
    BY <1>1 DEF CallbackRefuses, TypeOK, PC, args, table, match, pending, search
  <2>2. PendingInv' /\ SearchInv' /\ IndexInv' /\ SkipInv' /\ EndInv'
    BY <1>1 DEF CallbackRefuses, PendingInv, SearchInv, IndexInv, SkipInv, EndInv, InLoop
  <2>3. QED
    BY <2>1, <2>2
<1>2. CASE SearchStart
  <2> DEFINE atLeast == IF prev_match_len = 0 THEN 2 ELSE prev_match_len
  <2>1. h' \in Hash
    BY <1>2, HashType DEF SearchStart
  <2>2. head[h'] \in Pos /\ Before(head[h'], i)
    BY <1>2, <2>1 DEF SearchStart, TypeOK, IndexInv, Indexed, Before
  <2>3. atLeast \in Nat /\ atLeast >= 2
    BY <1>2, MatchBounds DEF SearchStart, TypeOK, PendingInv, InLoop
  <2>4. MaxMatch' = MaxMatch /\ MaxMatch \in Nat
    BY <1>2 DEF SearchStart, MaxMatch, min, TypeOK, args
  <2>5. MAX_MATCH_STEPS \div 4 \in Nat
    OBVIOUS
  <2>6. TypeOK'
    <3>1. found' \in BOOLEAN
      BY <1>2, Zenon DEF SearchStart, TypeOK, search
    <3>2. QED
      BY <1>2, <2>1, <2>2, <2>3, <2>5, <3>1
      DEF SearchStart, TypeOK, PC, Pos, args, table, pending, search, told
  <2>7. PendingInv'
    BY <1>2, SameMatch DEF SearchStart, PendingInv, InLoop, args, pending, told
  <2>8. SearchInv'
    BY <1>2, <2>2, <2>3, <2>4 DEF SearchStart, SearchInv, MatchAt, Before, args
  <2>9. IndexInv'
    BY <1>2, SameIndex DEF SearchStart, IndexInv, TypeOK
  <2>10. SkipInv' /\ EndInv'
    BY <1>2 DEF SearchStart, SkipInv, EndInv, told
  <2>11. QED
    BY <2>6, <2>7, <2>8, <2>9, <2>10
<1>3. CASE WalkStep
  <2>1. PICK l \in 0 .. MaxMatch :
          /\ cmp(l, cand, i, best, MaxMatch)
          /\ IF l # 0
             THEN found' = TRUE /\ match_pos' = cand /\ best' = l
             ELSE UNCHANGED <<found, match_pos, best>>
          /\ IF l = MaxMatch
             THEN pc' = "insert" /\ match_len' = l /\ UNCHANGED <<cand, steps>>
             ELSE /\ cand' = prev[cand % LZ_WND_SIZE]
                  /\ steps' = steps - 1
                  /\ UNCHANGED <<pc, match_len>>
    BY <1>3 DEF WalkStep
  <2>2. /\ pc = "walk" /\ steps # 0 /\ i - cand <= LZ_WND_SIZE
        /\ UNCHANGED <<args, table, h, i, j, pending, told>>
        /\ cand \in Nat /\ cand < i
    BY <1>3 DEF WalkStep, InReach, SearchInv, Before
  <2>3. MaxMatch \in Nat /\ MaxMatch' = MaxMatch /\ MaxMatch <= LZ_MAX_LEN /\ i + MaxMatch <= len
        /\ MaxMatch >= 3 /\ i + 2 < len
    BY <2>2 DEF MaxMatch, min, TypeOK, args, SearchInv
  <2>4. 2 <= best /\ best < MaxMatch /\ best \in Nat
    BY <2>2 DEF SearchInv, TypeOK
  <2>5. l # 0 => l > best /\ MatchAt(i, cand, l)
    BY <2>1, <2>2, <2>3, <2>4
    DEF cmp, MatchAt, Stream!Repeats, Stream!MIN_LEN, TypeOK
  <2>6. Before(prev[cand % LZ_WND_SIZE], cand)
    BY <2>2 DEF IndexInv, Indexed, TypeOK
  <2>7. TypeOK'
    <3>1. found' \in BOOLEAN
      BY <2>1, Zenon DEF TypeOK
    <3>2. QED
      BY <2>1, <2>2, <2>3, <2>6, <3>1 DEF TypeOK, PC, Pos, Before, args, table, pending, told
  <2>8. PendingInv'
    BY <2>1, <2>2, SameMatch DEF PendingInv, InLoop, args, pending, told
  <2>9. SearchInv'
    <3>1. CASE l = MaxMatch
      <4>1. pc' = "insert" /\ match_len' = l /\ match_pos' = cand' /\ cand' = cand
        BY <2>1, <2>3, <3>1
      <4>2. MatchAt(i, cand, l)'
        BY <2>1, <2>2, <2>3, <2>5, <3>1, SameMatch
      <4>3. QED
        BY <2>2, <2>3, <4>1, <4>2 DEF SearchInv, args
    <3>2. CASE l # MaxMatch
      <4>1. pc' = "walk" /\ cand' = prev[cand % LZ_WND_SIZE]
        BY <2>1, <2>2, <3>2
      <4>2. Before(cand, i)'
        BY <2>2, <2>6, <4>1 DEF Before, TypeOK
      <4>3. 2 <= best' /\ best' < MaxMatch'
        BY <2>1, <2>3, <2>4, <2>5, <3>2
      <4>4. found' => MatchAt(i, match_pos, best)'
        BY <2>1, <2>2, <2>5, SameMatch DEF SearchInv, args, MatchAt, Stream!Repeats, Stream!MIN_LEN
      <4>5. QED
        BY <2>2, <2>3, <4>1, <4>2, <4>3, <4>4 DEF SearchInv, args
    <3>3. QED
      BY <3>1, <3>2
  <2>10. IndexInv'
    BY <2>1, <2>2, SameIndex DEF IndexInv, TypeOK
  <2>11. SkipInv' /\ EndInv'
    BY <2>1, <2>2 DEF SkipInv, EndInv, told
  <2>12. QED
    BY <2>7, <2>8, <2>9, <2>10, <2>11
<1>4. CASE SearchEnd
  <2>1. TypeOK'
    BY <1>4 DEF SearchEnd, TypeOK, PC, args, table, pending, search, told
  <2>2. PendingInv'
    BY <1>4, SameMatch DEF SearchEnd, PendingInv, InLoop, args, pending, told
  <2>3. SearchInv'
    BY <1>4, SameMatch DEF SearchEnd, SearchInv, args, search, MatchAt, Stream!Repeats, Stream!MIN_LEN
  <2>4. IndexInv' /\ SkipInv' /\ EndInv'
    BY <1>4, SameIndex DEF SearchEnd, IndexInv, SkipInv, EndInv, told, TypeOK
  <2>5. QED
    BY <2>1, <2>2, <2>3, <2>4
<1>5. CASE InsertCurrent
  <2>1. Indexed(i + 1)' /\ head' \in [Hash -> Pos]
        /\ prev' \in [0 .. LZ_WND_SIZE - 1 -> Pos \cup {UNINIT}]
    BY <1>5, InsertIndexed DEF InsertCurrent, IndexInv, TypeOK
  <2>2. TypeOK'
    BY <1>5, <2>1 DEF InsertCurrent, TypeOK, PC, args, match, pending, search, told
  <2>3. PendingInv'
    BY <1>5, SameMatch DEF InsertCurrent, PendingInv, InLoop, args, pending, told
  <2>4. SearchInv'
    BY <1>5, SameMatch DEF InsertCurrent, SearchInv, args, match
  <2>5. IndexInv' /\ SkipInv' /\ EndInv'
    BY <1>5, <2>1 DEF InsertCurrent, IndexInv, SkipInv, EndInv, told
  <2>6. QED
    BY <2>2, <2>3, <2>4, <2>5
<1>6. CASE OutputPrevious
  <2>1. MatchAt(i - 1, prev_match_pos, prev_match_len) /\ prev_match_len # 0 /\ i + 2 < len
    BY <1>6 DEF OutputPrevious, PrevIsBest, PendingInv, SearchInv, InLoop
  <2>a. /\ prev_match_len \in Nat /\ 3 <= prev_match_len /\ i - 1 \in Nat
        /\ (i - 1) + prev_match_len <= len
    BY <2>1, MatchBounds
  <2>b. i \in Nat /\ len \in Nat  BY DEF TypeOK
  <2>2. prev_match_len \in Nat /\ prev_match_len >= 3 /\ PrevEnd <= len /\ i >= 1 /\ i \in Nat /\ len \in Nat
    BY <2>a, <2>b DEF PrevEnd
  <2>3. covered' = PrevEnd /\ result' = result
    BY <1>6, <2>2 DEF OutputPrevious, PrevIsBest, Accept, PendingInv, InLoop, PrevEnd, TypeOK
  <2>4. TypeOK'
    BY <1>6, <2>2, <2>3 DEF OutputPrevious, TypeOK, PC, args, table, match, pending, search, PrevEnd
  <2>5. PendingInv' /\ SearchInv' /\ EndInv'
    BY <1>6, <2>3 DEF OutputPrevious, PendingInv, SearchInv, EndInv, InLoop
  <2>6. IndexInv'
    BY <1>6, SameIndex DEF OutputPrevious, IndexInv, TypeOK
  <2>7. SkipInv'
    BY <1>6, <2>1, <2>2, <2>3 DEF OutputPrevious, SkipInv, PrevEnd, min, args, pending
  <2>8. QED
    BY <2>4, <2>5, <2>6, <2>7
<1>7. CASE SkipInsert
  <2>1. h' \in Hash
    BY <1>7, HashType DEF SkipInsert
  <2>2. Indexed(j)' /\ head' \in [Hash -> Pos]
        /\ prev' \in [0 .. LZ_WND_SIZE - 1 -> Pos \cup {UNINIT}]
    BY <1>7, <2>1, InsertIndexed DEF SkipInsert, IndexInv, TypeOK
  <2>3. TypeOK'
    BY <1>7, <2>1, <2>2 DEF SkipInsert, TypeOK, PC, args, match, pending, search, told
  <2>4. PendingInv' /\ SearchInv' /\ EndInv'
    BY <1>7 DEF SkipInsert, PendingInv, SearchInv, EndInv, InLoop, told
  <2>5. IndexInv'
    BY <1>7, <2>2 DEF SkipInsert, IndexInv
  <2>6. SkipInv'
    BY <1>7 DEF SkipInsert, SkipInv, PrevEnd, min, args, pending, told, TypeOK
  <2>7. QED
    BY <2>3, <2>4, <2>5, <2>6
<1>8. CASE SkipEnd
  <2>1. /\ pc = "skip" /\ pc' = "loop" /\ j = min(PrevEnd, len - 2)
        /\ i' = PrevEnd /\ prev_match_len' = 0 /\ PrevEnd \in Nat /\ PrevEnd <= len
        /\ covered = PrevEnd
        /\ UNCHANGED <<args, table, h, j, match, prev_match_pos, search, told>>
    BY <1>8 DEF SkipEnd, SkipInv, PrevEnd, min, TypeOK
  <2>2. TypeOK'
    BY <2>1 DEF TypeOK, PC, args, table, match, search, told
  <2>3. PendingInv' /\ SearchInv' /\ SkipInv' /\ EndInv'
    BY <2>1 DEF PendingInv, SearchInv, SkipInv, EndInv, InLoop, MatchAt, args, told
  <2>4. IndexInv'
    BY <2>1, SameIndex DEF IndexInv, min, TypeOK, args
  <2>5. QED
    BY <2>2, <2>3, <2>4
<1>9. CASE OutputLiteral
  <2>1. prev_match_len = 0 /\ i + 2 < len /\ covered = i
    BY <1>9 DEF OutputLiteral, PrevIsBest, PendingInv, SearchInv, InLoop, TypeOK
  <2>2. TypeOK'
    BY <1>9 DEF OutputLiteral, Accept, TypeOK, PC, args, table, match, pending, search
  <2>3. PendingInv'
    BY <1>9, <2>1 DEF OutputLiteral, Accept, PendingInv, InLoop, MatchAt, args, pending, TypeOK
  <2>4. IndexInv'
    BY <1>9, SameIndex DEF OutputLiteral, IndexInv, TypeOK
  <2>5. SearchInv' /\ SkipInv' /\ EndInv'
    BY <1>9 DEF OutputLiteral, Accept, SearchInv, SkipInv, EndInv
  <2>6. QED
    BY <2>2, <2>3, <2>4, <2>5
<1>10. CASE Defer
  <2>1. MatchAt(i, match_pos, match_len) /\ match_len # 0 /\ i + 2 < len
    BY <1>10 DEF Defer, SearchInv
  <2>2. covered' = i /\ result' = result
    BY <1>10 DEF Defer, Accept, told, PendingInv, InLoop, TypeOK
  <2>3. TypeOK'
    BY <1>10, <2>2 DEF Defer, TypeOK, PC, args, table, match, search
  <2>4. MatchAt(i - 1, match_pos, match_len)'
    <3>1. i' - 1 = i /\ match_pos' = match_pos /\ match_len' = match_len
      BY <1>10 DEF Defer, match, TypeOK
    <3>2. QED
      BY <1>10, <2>1, <3>1, SameMatch DEF Defer
  <2>5. PendingInv'
    BY <1>10, <2>1, <2>2, <2>4 DEF Defer, PendingInv, args, match, TypeOK
  <2>6. IndexInv'
    BY <1>10, SameIndex DEF Defer, IndexInv, TypeOK
  <2>7. SearchInv' /\ SkipInv' /\ EndInv'
    BY <1>10, <2>2 DEF Defer, SearchInv, SkipInv, EndInv
  <2>8. QED
    BY <2>3, <2>5, <2>6, <2>7
<1>11. CASE OutputLast
  <2>1. covered' = i' /\ i' \in Nat /\ i' <= len /\ result' = result
    <3>1. CASE prev_match_len = 0
      BY <1>11, <3>1 DEF OutputLast, told, PendingInv, InLoop, TypeOK
    <3>2. CASE prev_match_len # 0
      <4>1. MatchAt(i - 1, prev_match_pos, prev_match_len) /\ covered = i - 1
        BY <1>11, <3>2 DEF OutputLast, PendingInv, InLoop
      <4>2. PrevEnd \in Nat /\ PrevEnd <= len
        BY <3>2, <4>1, MatchBounds DEF PrevEnd, TypeOK
      <4>3. QED
        BY <1>11, <3>2, <4>1, <4>2 DEF OutputLast, Accept, PrevEnd, TypeOK
    <3>3. QED
      BY <3>1, <3>2
  <2>2. TypeOK'
    BY <1>11, <2>1 DEF OutputLast, TypeOK, PC, args, table, match, pending, search
  <2>3. PendingInv' /\ SearchInv' /\ IndexInv' /\ SkipInv' /\ EndInv'
    BY <1>11, <2>1 DEF OutputLast, PendingInv, SearchInv, IndexInv, SkipInv, EndInv, InLoop, args
  <2>4. QED
    BY <2>2, <2>3
<1>12. CASE TailLiteral
  <2>1. TypeOK'
    BY <1>12 DEF TailLiteral, Accept, TypeOK, PC, args, table, match, pending, search
  <2>2. PendingInv' /\ SearchInv' /\ IndexInv' /\ SkipInv' /\ EndInv'
    BY <1>12 DEF TailLiteral, Accept, PendingInv, SearchInv, IndexInv, SkipInv, EndInv, InLoop,
                 args, TypeOK
  <2>3. QED
    BY <2>1, <2>2
<1>13. CASE Return
  <2>1. TypeOK'
    BY <1>13 DEF Return, TypeOK, PC, args, table, match, pending, search
  <2>2. PendingInv' /\ SearchInv' /\ IndexInv' /\ SkipInv' /\ EndInv'
    BY <1>13 DEF Return, PendingInv, SearchInv, IndexInv, SkipInv, EndInv, InLoop
  <2>3. QED
    BY <2>1, <2>2
<1>14. CASE UNCHANGED vars
  <2>1. TypeOK'
    BY <1>14 DEF vars, TypeOK, args, table, match, pending, search, told
  <2>2. SearchInv'
    BY <1>14, SameMatch
    DEF vars, SearchInv, MaxMatch, min, Before, args, match, search
  <2>3. PendingInv' /\ SkipInv' /\ EndInv'
    BY <1>14, SameMatch
    DEF vars, PendingInv, SkipInv, EndInv, InLoop, PrevEnd, min, args, pending, told
  <2>4. IndexInv'
    BY <1>14, SameIndex DEF vars, IndexInv, args, TypeOK
  <2>5. QED
    BY <2>1, <2>2, <2>3, <2>4
<1>15. QED
  BY <1>1, <1>2, <1>3, <1>4, <1>5, <1>6, <1>7, <1>8, <1>9, <1>10, <1>11, <1>12, <1>13, <1>14
  DEF Next

LEMMA Invariance == Spec => []IInv
BY InitIInv, NextIInv, PTL DEF Spec

-----------------------------------------------------------------------------
(* The variables keep their types.                                         *)
THEOREM TypeCorrect == Spec => []TypeOK
<1>1. IInv => TypeOK
  BY DEF IInv
<1>2. QED
  BY <1>1, Invariance, PTL

(* find_match never reads a slot of prev that nobody has written, and the  *)
(* assert of lz77.c:87 holds for every window, budget and source.          *)
THEOREM WalkIsSafe == Spec => []WalkInsideChain
<1>1. IInv => WalkInsideChain
  BY DEF IInv, SearchInv, WalkInsideChain, Before
<1>2. QED
  BY <1>1, Invariance, PTL

(* One step of lz77_compress makes at most one call, and that call is one  *)
(* the contract allows: the next literal, or a reference to a repetition   *)
(* in the window.                                                          *)
LEMMA StepRefines == IInv /\ [Next]_vars => [Stream!Next]_(Stream!vars)
<1> SUFFICES ASSUME IInv, [Next]_vars PROVE [Stream!Next]_(Stream!vars)
  OBVIOUS
<1> USE DEF IInv
<1>1. ASSUME pc # "done", covered < len, token' = Stream!Literal(src[covered]),
             covered' = covered + 1, UNCHANGED <<src, len, result>>
      PROVE  Stream!DescribeLiteral
  BY <1>1 DEF EndInv, Stream!DescribeLiteral
<1>2. ASSUME pc # "done", NEW m, NEW n, MatchAt(covered, m, n), n # 0,
             token' = Stream!Backref(covered - m, n),
             covered' = covered + n, UNCHANGED <<src, len, result>>
      PROVE  Stream!Next
  <2>1. m \in 0 .. covered - 1 /\ n \in Stream!MIN_LEN .. LZ_MAX_LEN
    BY <1>2 DEF MatchAt, Stream!Repeats, Stream!MIN_LEN
  <2>2. Stream!DescribeBackref(m, n)
    BY <1>2 DEF EndInv, MatchAt, Stream!DescribeBackref
  <2>3. QED
    BY <2>1, <2>2 DEF Stream!Next
<1>3. CASE CallbackRefuses
  <2>1. covered < len
    <3>1. CASE pc = "tail"
      BY <1>3, <3>1 DEF CallbackRefuses, CallPending, EndInv
    <3>2. CASE pc \in {"loop", "emit"} /\ prev_match_len # 0
      BY <3>2, MatchBounds DEF PendingInv, InLoop, TypeOK
    <3>3. CASE pc = "emit" /\ prev_match_len = 0
      BY <3>3 DEF PendingInv, SearchInv, InLoop, TypeOK
    <3>4. QED
      BY <1>3, <3>1, <3>2, <3>3 DEF CallbackRefuses, CallPending
  <2>2. result = "none"
    BY <1>3 DEF CallbackRefuses, CallPending, EndInv
  <2>3. QED
    BY <1>3, <2>1, <2>2 DEF CallbackRefuses, args, Stream!Next, Stream!CallRefused
<1>4. CASE OutputPrevious \/ (OutputLast /\ prev_match_len # 0)
  <2>1. /\ MatchAt(i - 1, prev_match_pos, prev_match_len) /\ prev_match_len # 0
        /\ covered = i - 1 /\ pc # "done"
    BY <1>4 DEF OutputPrevious, PrevIsBest, OutputLast, PendingInv, InLoop
  <2>2. /\ Accept(Stream!Backref((i - 1) - prev_match_pos, prev_match_len), prev_match_len)
        /\ UNCHANGED args
    BY <1>4 DEF OutputPrevious, OutputLast
  <2>3. QED
    BY <1>2, <2>1, <2>2 DEF Accept, args
<1>5. CASE OutputLiteral
  <2>1. covered = i /\ i < len /\ pc # "done"
    BY <1>5 DEF OutputLiteral, PrevIsBest, PendingInv, SearchInv, InLoop, TypeOK
  <2>2. QED
    BY <1>1, <1>5, <2>1 DEF OutputLiteral, Accept, args, Stream!Next
<1>6. CASE Defer /\ prev_match_len # 0
  <2>1. covered = i - 1 /\ covered < len /\ pc # "done"
    BY <1>6 DEF Defer, PendingInv, SearchInv, InLoop, TypeOK
  <2>2. QED
    BY <1>1, <1>6, <2>1 DEF Defer, Accept, args, Stream!Next
<1>7. CASE TailLiteral
  <2>1. covered = i /\ pc # "done"
    BY <1>7 DEF TailLiteral, EndInv
  <2>2. QED
    BY <1>1, <1>7, <2>1 DEF TailLiteral, Accept, args, Stream!Next
<1>8. CASE Return
  <2>1. covered = len /\ result = "none"
    BY <1>8 DEF Return, EndInv, TypeOK
  <2>2. QED
    BY <1>8, <2>1 DEF Return, args, Stream!Next, Stream!AllDescribed
<1>9. CASE SearchStart \/ WalkStep \/ SearchEnd \/ InsertCurrent \/ SkipInsert \/ SkipEnd
  BY <1>9 DEF SearchStart, WalkStep, SearchEnd, InsertCurrent, SkipInsert, SkipEnd,
              args, told, Stream!vars
<1>10. CASE (Defer \/ OutputLast) /\ prev_match_len = 0
  BY <1>10 DEF Defer, OutputLast, args, told, Stream!vars
<1>11. CASE UNCHANGED vars
  BY <1>11 DEF vars, args, told, Stream!vars
<1>12. QED
  BY <1>3, <1>4, <1>5, <1>6, <1>7, <1>8, <1>9, <1>10, <1>11 DEF Next

(* Whatever the window, the budget and the callbacks do, the calls made    *)
(* describe the source as lz77.h promises.                                 *)
THEOREM Refinement == Spec => DescribesSource
<1>1. Init => Stream!Init
  BY DEF Init, Stream!Init
<1>2. QED
  BY <1>1, StepRefines, Invariance, PTL DEF Spec, DescribesSource, Stream!Spec

-----------------------------------------------------------------------------
(* The ring indexes the window exactly, and find_match therefore finds the *)
(* longest match.                                                          *)
(* The rolling hash.  A bit of it comes from the one HASH_SHIFT below, or  *)
(* from the byte.                                                          *)
LEMMA UpdateBit ==
  ASSUME NEW x \in SUBSET Nat, NEW c \in Byte, NEW b
  PROVE  b \in update_hash(x, c) <=>
           b \in 0 .. HASH_SIZE - 1 /\ ((b - HASH_SHIFT \in x) # (b \in c))
<1> DEFINE shifted == {y + HASH_SHIFT : y \in x}
<1>1. ASSUME b \in 0 .. HASH_SIZE - 1
      PROVE  b \in shifted <=> b - HASH_SHIFT \in x
  <2>1. ASSUME b \in shifted PROVE b - HASH_SHIFT \in x
    <3>1. PICK y \in x : b = y + HASH_SHIFT
      BY <2>1
    <3>2. y \in Nat /\ b - HASH_SHIFT = y
      BY <3>1
    <3>3. QED
      BY <3>2
  <2>2. ASSUME b - HASH_SHIFT \in x PROVE b \in shifted
    <3>1. b = (b - HASH_SHIFT) + HASH_SHIFT
      BY <1>1
    <3>2. QED
      BY <2>2, <3>1
  <2>3. QED
    BY <2>1, <2>2
<1>2. b \in update_hash(x, c) <=> b \in 0 .. HASH_SIZE - 1 /\ ((b \in shifted) # (b \in c))
  <2> HIDE DEF shifted
  <2>1. update_hash(x, c) = ((shifted \ c) \cup (c \ shifted)) \cap (0 .. HASH_SIZE - 1)
    BY DEF update_hash, shifted
  <2>2. QED
    BY <2>1
<1>3. QED
  BY <1>1, <1>2

(* Three bytes push out everything before them.                            *)
LEMMA ThreeBytes ==
  ASSUME NEW x \in SUBSET Nat, NEW y \in SUBSET Nat, NEW a \in Byte, NEW b \in Byte, NEW c \in Byte
  PROVE  update_hash(update_hash(update_hash(x, a), b), c)
           = update_hash(update_hash(update_hash(y, a), b), c)
<1> DEFINE A(z) == update_hash(z, a)
           B(z) == update_hash(A(z), b)
           C(z) == update_hash(B(z), c)
<1>1. \A z : A(z) \in SUBSET Nat /\ B(z) \in SUBSET Nat /\ C(z) \in SUBSET Nat
  <2>1. Hash \subseteq SUBSET Nat
    BY DEF Hash
  <2>2. QED
    BY <2>1, HashType
<1>2. \A z \in SUBSET Nat : \A e :
        e \in A(z) <=> e \in 0 .. HASH_SIZE - 1 /\ ((e - HASH_SHIFT \in z) # (e \in a))
  BY UpdateBit
<1>3. \A z \in SUBSET Nat : \A e :
        e \in B(z) <=> e \in 0 .. HASH_SIZE - 1 /\ ((e - HASH_SHIFT \in A(z)) # (e \in b))
  BY <1>1, UpdateBit
<1>4. \A z \in SUBSET Nat : \A e :
        e \in C(z) <=> e \in 0 .. HASH_SIZE - 1 /\ ((e - HASH_SHIFT \in B(z)) # (e \in c))
  BY <1>1, UpdateBit
<1> HIDE DEF A, B, C
<1>5. ASSUME NEW e \in 0 .. HASH_SIZE - 1
      PROVE  e \in C(x) <=> e \in C(y)
  <2> DEFINE e1 == e - HASH_SHIFT
             e2 == e1 - HASH_SHIFT
             e3 == e2 - HASH_SHIFT
  <2>1. e3 \notin x /\ e3 \notin y
    <3>1. e3 < 0 /\ e3 \in Int
      OBVIOUS
    <3>2. QED
      BY <3>1
  <2> HIDE DEF e3
  <2>2. e2 \in A(x) <=> e2 \in A(y)
    BY <1>2, <2>1 DEF e3
  <2> HIDE DEF e2
  <2>3. e1 \in B(x) <=> e1 \in B(y)
    BY <1>3, <2>2 DEF e2
  <2> HIDE DEF e1
  <2>4. QED
    BY <1>4, <2>3 DEF e1
<1>6. \A e : e \in C(x) <=> e \in C(y)
  BY <1>4, <1>5
<1>7. C(x) = C(y)
  BY <1>6
<1>8. QED
  BY <1>7 DEF A, B, C

-----------------------------------------------------------------------------
(* The hash of each position, as one value of the state.                   *)
Hashes == [p \in Nat |-> HashAt(p)]

(* What NewestBefore(p, x) is, without its CHOOSE.                         *)
IsNewest(v, p, x) ==
  \/ v = NO_POS /\ \A q \in 0 .. p - 1 : Hashes[q] # x
  \/ v \in 0 .. p - 1 /\ Hashes[v] = x /\ \A q \in 0 .. p - 1 : Hashes[q] = x => q <= v

Exact(f) ==
  /\ \A x \in Hash : IsNewest(head[x], f, x)
  /\ \A p \in 0 .. f - 1 : f - p <= LZ_WND_SIZE => IsNewest(prev[p % LZ_WND_SIZE], p, Hashes[p])

(* The hash x, and a byte more, make a hash of three bytes at p.           *)
Knows(x, p) ==
  \A c \in Byte : update_hash(x, c) = update_hash(update_hash(update_hash({}, src[p]), src[p + 1]), c)

ExactInv ==
  /\ pc = "loop" /\ i + 2 < len => Exact(i) /\ Knows(h, i)
  /\ pc \in {"walk", "insert"} => Exact(i) /\ h = Hashes[i]
  /\ pc = "emit" => Exact(i + 1) /\ Knows(h, i + 1)
  /\ pc = "skip" => Exact(j) /\ Knows(h, j)

LEMMA NewestIs ==
  ASSUME NEW v, NEW p \in Nat, NEW x, IsNewest(v, p, x)
  PROVE  v = NewestBefore(p, x)
<1> DEFINE older == {q \in 0 .. p - 1 : HashAt(q) = x}
<1>1. \A q \in 0 .. p - 1 : Hashes[q] = HashAt(q)
  BY DEF Hashes
<1>2. CASE v = NO_POS /\ older = {}
  BY <1>2 DEF NewestBefore
<1>3. CASE v \in older /\ \A q \in older : q <= v
  <2>1. \A w \in older : (\A r \in older : r <= w) => w = v
    <3> HIDE DEF older
    <3>1. older \subseteq 0 .. p - 1
      BY DEF older
    <3>2. QED
      BY <1>3, <3>1
  <2>2. older # {}
    BY <1>3
  <2>3. (CHOOSE q \in older : \A r \in older : r <= q) = v
    <3> HIDE DEF older
    <3>1. QED
      BY <1>3, <2>1
  <2>4. QED
    BY <2>2, <2>3 DEF NewestBefore
<1>4. QED
  BY <1>1, <1>2, <1>3 DEF IsNewest

LEMMA HashesStay == UNCHANGED src => Hashes' = Hashes
BY DEF Hashes, HashAt

LEMMA SameExact ==
  ASSUME UNCHANGED <<src, head, prev>>, NEW f \in Nat, Exact(f)
  PROVE  Exact(f)'
BY HashesStay DEF Exact, IsNewest

LEMMA SameKnows ==
  ASSUME UNCHANGED <<src, h>>, NEW p, Knows(h, p)
  PROVE  Knows(h, p)'
BY DEF Knows

(* One byte more makes the hash at p, and with the next byte the one at    *)
(* p + 1: the bytes before have left it.                                   *)
LEMMA Roll ==
  ASSUME TypeOK, NEW x, NEW p \in Nat, p + 2 < len, Knows(x, p)
  PROVE  /\ update_hash(x, src[p + 2]) = Hashes[p]
         /\ Knows(Hashes[p], p + 1)
<1>1. src[p] \in Byte /\ src[p + 1] \in Byte /\ src[p + 2] \in Byte
  BY DEF TypeOK
<1>2. Hashes[p] = HashAt(p)
  BY DEF Hashes
<1>3. update_hash(x, src[p + 2]) = Hashes[p]
  BY <1>1, <1>2 DEF Knows, HashAt
<1>4. ASSUME NEW c \in Byte
      PROVE  update_hash(Hashes[p], c)
               = update_hash(update_hash(update_hash({}, src[p + 1]), src[(p + 1) + 1]), c)
  <2>1. update_hash({}, src[p]) \in SUBSET Nat
    <3>1. Hash \subseteq SUBSET Nat
      BY DEF Hash
    <3>2. QED
      BY <3>1, HashType
  <2>2. update_hash(update_hash(update_hash(update_hash({}, src[p]), src[p + 1]), src[p + 2]), c)
          = update_hash(update_hash(update_hash({}, src[p + 1]), src[p + 2]), c)
    BY <1>1, <2>1, ThreeBytes
  <2>3. (p + 1) + 1 = p + 2
    OBVIOUS
  <2>4. QED
    BY <1>2, <2>2, <2>3 DEF HashAt
<1>5. QED
  BY <1>3, <1>4 DEF Knows

(* insert_hash with the hash of the next position keeps the index exact.   *)
LEMMA InsertExact ==
  ASSUME TypeOK, NEW f \in Nat, Exact(f), UNCHANGED src,
         NEW x \in Hash, x = Hashes[f], insert_hash(x, f)
  PROVE  Exact(f + 1)'
<1>1. head' = [head EXCEPT ![x] = f] /\ prev' = [prev EXCEPT ![f % LZ_WND_SIZE] = head[x]]
  BY DEF insert_hash
<1>2. f % LZ_WND_SIZE \in 0 .. LZ_WND_SIZE - 1
  OBVIOUS
<1>3. Hashes' = Hashes
  BY HashesStay
<1>4. ASSUME NEW y \in Hash
      PROVE  IsNewest(head'[y], f + 1, y)
  <2>1. 0 .. (f + 1) - 1 = (0 .. f - 1) \cup {f}
    OBVIOUS
  <2>2. CASE y = x
    BY <1>1, <2>1, <2>2 DEF IsNewest, TypeOK
  <2>3. CASE y # x
    <3>1. head'[y] = head[y] /\ IsNewest(head[y], f, y)
      BY <1>1, <2>3 DEF Exact, TypeOK
    <3>2. QED
      BY <2>1, <2>3, <3>1 DEF IsNewest
  <2>4. QED
    BY <2>2, <2>3
<1>5. ASSUME NEW p \in 0 .. f, f + 1 - p <= LZ_WND_SIZE
      PROVE  IsNewest(prev'[p % LZ_WND_SIZE], p, Hashes[p])
  <2>1. CASE p = f
    BY <1>1, <1>2, <2>1 DEF Exact, TypeOK
  <2>2. CASE p < f
    <3>1. p % LZ_WND_SIZE # f % LZ_WND_SIZE /\ p % LZ_WND_SIZE \in 0 .. LZ_WND_SIZE - 1
      <4>1. p \in Nat /\ f - p < LZ_WND_SIZE
        BY <1>5, <2>2
      <4>2. p % LZ_WND_SIZE # f % LZ_WND_SIZE
        BY <2>2, <4>1, SlotsDiffer
      <4>3. QED
        BY <4>1, <4>2
    <3>2. prev'[p % LZ_WND_SIZE] = prev[p % LZ_WND_SIZE]
      BY <1>1, <3>1 DEF TypeOK
    <3>3. QED
      BY <1>5, <2>2, <3>2 DEF Exact
  <2>3. QED
    BY <2>1, <2>2
<1>6. (f + 1) - 1 = f
  OBVIOUS
<1>7. QED
  BY <1>3, <1>4, <1>5, <1>6 DEF Exact, IsNewest

-----------------------------------------------------------------------------
LEMMA InitExactInv == Init => ExactInv
<1> SUFFICES ASSUME Init PROVE ExactInv
  OBVIOUS
<1>1. head = [x \in Hash |-> NO_POS] /\ i = 0 /\ pc = "loop"
      /\ (len >= 2 => h = update_hash(update_hash({}, src[0]), src[1]))
  BY DEF Init
<1>2. Exact(0)
  BY <1>1 DEF Exact, IsNewest
<1>3. i + 2 < len => Knows(h, 0)
  BY <1>1 DEF Knows, Init
<1>4. QED
  BY <1>1, <1>2, <1>3 DEF ExactInv

LEMMA NextExactInv == IInv /\ ExactInv /\ [Next]_vars => ExactInv'
<1> SUFFICES ASSUME IInv, ExactInv, [Next]_vars PROVE ExactInv'
  OBVIOUS
<1>1. TypeOK /\ i \in Nat /\ j \in Nat /\ len \in Nat
  BY DEF IInv, TypeOK
(* Places as constants: priming Exact(p) does not move them.               *)
<1>2. PICK p \in Nat, q \in Nat : p = i /\ q = j
  BY <1>1
<1>3. CASE SearchStart
  <2>1. Exact(i) /\ Knows(h, i) /\ i + 2 < len /\ h' = update_hash(h, src[i + 2])
        /\ UNCHANGED <<src, head, prev, i>> /\ pc' \in {"walk", "insert"}
    BY <1>3 DEF SearchStart, ExactInv, args, table
  <2>2. h' = Hashes[i] /\ Hashes' = Hashes
    BY <1>1, <2>1, Roll, HashesStay
  <2>3. Exact(i)'
    BY <1>1, <2>1, SameExact
  <2>4. QED
    BY <2>1, <2>2, <2>3 DEF ExactInv
<1>4. CASE WalkStep \/ SearchEnd
  <2>1. Exact(i) /\ h = Hashes[i] /\ UNCHANGED <<src, head, prev, h, i>> /\ pc' \in {"walk", "insert"}
    BY <1>4 DEF WalkStep, SearchEnd, ExactInv, args, table
  <2>2. Exact(i)' /\ Hashes' = Hashes
    BY <1>1, <2>1, SameExact, HashesStay
  <2>3. QED
    BY <2>1, <2>2 DEF ExactInv
<1>5. CASE InsertCurrent
  <2>1. Exact(i) /\ h = Hashes[i] /\ insert_hash(h, i) /\ UNCHANGED <<src, h, i>> /\ pc' = "emit"
        /\ h \in Hash /\ i + 2 < len
    BY <1>5 DEF InsertCurrent, ExactInv, args, IInv, TypeOK, SearchInv
  <2>2. Exact(i + 1)'
    BY <1>1, <2>1, InsertExact
  <2>3. Knows(h, i + 1)
    <3>1. update_hash({}, src[i]) = update_hash({}, src[i]) /\ h = HashAt(i)
      BY <1>1, <2>1 DEF Hashes
    <3>2. PICK x : Knows(x, i)
      <4>1. Knows(update_hash(update_hash({}, src[i]), src[i + 1]), i)
        BY DEF Knows
      <4>2. QED
        BY <4>1
    <3>3. QED
      BY <1>1, <2>1, <3>2, Roll
  <2>4. Knows(h, i + 1)'
    BY <2>1, <2>3, SameKnows
  <2>5. QED
    BY <2>1, <2>2, <2>4 DEF ExactInv
<1>6. CASE OutputPrevious
  <2>1. Exact(p + 1) /\ Knows(h, p + 1) /\ UNCHANGED <<src, head, prev, h>>
        /\ pc' = "skip" /\ j' = p + 1
    BY <1>2, <1>6 DEF OutputPrevious, ExactInv, args, table
  <2>2. Exact(p + 1)' /\ Knows(h, p + 1)'
    BY <1>2, <2>1, SameExact, SameKnows
  <2>3. QED
    BY <2>1, <2>2 DEF ExactInv
<1>7. CASE SkipInsert
  <2>1. pc = "skip" /\ j < min(PrevEnd, len - 2)
        /\ h' = update_hash(h, src[j + 2]) /\ insert_hash(h', j) /\ j' = j + 1
        /\ UNCHANGED src /\ pc' = "skip"
    BY <1>7 DEF SkipInsert, args
  <2>2. Exact(q) /\ Knows(h, q) /\ q + 2 < len
    BY <1>1, <1>2, <2>1 DEF ExactInv, min, PrevEnd, IInv, TypeOK
  <2>3. PICK x : x = h'
    OBVIOUS
  <2>4. x = Hashes[q] /\ Knows(x, q + 1) /\ x \in Hash
    BY <1>1, <1>2, <2>1, <2>2, <2>3, Roll, HashType
  <2>5. Exact(q + 1)'
    BY <1>1, <1>2, <2>1, <2>2, <2>3, <2>4, InsertExact
  <2>6. Knows(h, q + 1)'
    BY <2>1, <2>3, <2>4 DEF Knows
  <2>7. j' = q + 1
    BY <1>2, <2>1
  <2>8. QED
    BY <2>1, <2>5, <2>6, <2>7 DEF ExactInv
<1>8. CASE SkipEnd
  <2>1. Exact(q) /\ Knows(h, q) /\ UNCHANGED <<src, len, head, prev, h>> /\ pc' = "loop"
    BY <1>2, <1>8 DEF SkipEnd, ExactInv, args, table
  <2>2. i' + 2 < len => i' = q
    BY <1>1, <1>2, <1>8 DEF SkipEnd, SkipInv, PrevEnd, min, IInv, TypeOK
  <2>3. Exact(q)' /\ Knows(h, q)'
    BY <1>2, <2>1, SameExact, SameKnows
  <2>4. QED
    BY <2>1, <2>2, <2>3 DEF ExactInv
<1>9. CASE OutputLiteral \/ Defer
  <2>1. Exact(p + 1) /\ Knows(h, p + 1) /\ UNCHANGED <<src, head, prev, h>>
        /\ pc' = "loop" /\ i' = p + 1
    BY <1>2, <1>9 DEF OutputLiteral, Defer, ExactInv, args, table
  <2>2. Exact(p + 1)' /\ Knows(h, p + 1)'
    BY <1>2, <2>1, SameExact, SameKnows
  <2>3. QED
    BY <2>1, <2>2 DEF ExactInv
<1>10. CASE CallbackRefuses \/ OutputLast \/ TailLiteral \/ Return
  <2>1. pc' \in {"tail", "done"}
    BY <1>10 DEF CallbackRefuses, OutputLast, TailLiteral, Return
  <2>2. QED
    BY <2>1 DEF ExactInv
<1>11. CASE UNCHANGED vars
  <2>1. UNCHANGED <<src, len, head, prev, h, i, j, pc>>
    BY <1>11 DEF vars, args, table
  <2>2. Hashes' = Hashes
    BY <2>1, HashesStay
  <2>3. QED
    BY <1>1, <2>1, <2>2, SameExact, SameKnows DEF ExactInv
<1>12. QED
  BY <1>3, <1>4, <1>5, <1>6, <1>7, <1>8, <1>9, <1>10, <1>11 DEF Next

LEMMA ExactInvariance == Spec => [](IInv /\ ExactInv)
<1>1. Init => IInv /\ ExactInv
  BY InitIInv, InitExactInv
<1>2. (IInv /\ ExactInv) /\ [Next]_vars => (IInv /\ ExactInv)'
  BY NextIInv, NextExactInv
<1>3. QED
  BY <1>1, <1>2, PTL DEF Spec

(* Every chain of the ring holds exactly the positions of the window with  *)
(* its hash, newest first, however slots are reused (lz77.c:56-147).       *)
THEOREM IndexIsExact == Spec => []IndexExact
<1>1. IInv /\ ExactInv => IndexExact
  <2> SUFFICES ASSUME IInv, ExactInv, pc \in {"loop", "walk", "insert", "emit", "skip"},
                      Frontier + 2 < len
               PROVE  /\ \A x \in Hash : head[x] = NewestBefore(Frontier, x)
                      /\ \A p \in {q \in 0 .. Frontier - 1 : Frontier - q <= LZ_WND_SIZE} :
                           prev[p % LZ_WND_SIZE] = NewestBefore(p, HashAt(p))
                      /\ pc \in {"walk", "insert"} => h = HashAt(i)
    BY DEF IndexExact
  <2>1. TypeOK
    BY DEF IInv
  <2>2. PICK f \in Nat : f = Frontier
    <3>1. Frontier \in {i, j, i + 1}
      BY DEF Frontier
    <3>2. QED
      BY <2>1, <3>1 DEF TypeOK
  <2>3. Exact(f)
    <3>1. CASE pc = "skip" \/ pc = "emit"
      BY <2>1, <2>2, <3>1 DEF Frontier, ExactInv, TypeOK
    <3>2. CASE pc \in {"loop", "walk", "insert"}
      <4>1. f = i
        BY <2>2, <3>2 DEF Frontier
      <4>2. QED
        BY <2>1, <2>2, <3>2, <4>1 DEF ExactInv, TypeOK
    <3>3. QED
      BY <3>1, <3>2
  <2>4. \A x \in Hash : head[x] = NewestBefore(f, x)
    BY <2>3, NewestIs DEF Exact
  <2>5. ASSUME NEW p \in 0 .. f - 1, f - p <= LZ_WND_SIZE
        PROVE  prev[p % LZ_WND_SIZE] = NewestBefore(p, HashAt(p))
    <3>1. p \in Nat /\ Hashes[p] = HashAt(p) /\ IsNewest(prev[p % LZ_WND_SIZE], p, Hashes[p])
      BY <2>3, <2>5 DEF Exact, Hashes
    <3>2. QED
      BY <3>1, NewestIs
  <2>6. pc \in {"walk", "insert"} => h = HashAt(i)
    BY <2>1 DEF ExactInv, Hashes, TypeOK
  <2>7. QED
    BY <2>2, <2>4, <2>5, <2>6
<1>2. QED
  BY <1>1, ExactInvariance, PTL

-----------------------------------------------------------------------------
(* The search so far: no string newer than the next candidate is longer    *)
(* than the best one, and none newer than that one is as long.             *)
WalkInv == pc = "walk" =>
  /\ ~found => best = Asked
  /\ cand # NO_POS => Hashes[cand] = h /\ (found => match_pos > cand)
  /\ \A m \in 0 .. i - 1, n \in 3 .. LZ_MAX_LEN :
       Stream!Repeats(i, m, n) /\ (cand = NO_POS \/ cand < m) =>
         n <= best /\ (found /\ n = best => match_pos >= m)
LongestInv == WalkInv /\ FindsLongestMostRecent

(* Strings that repeat have the same hash.                                 *)
LEMMA SameHash ==
  ASSUME NEW p \in Nat, NEW m \in Nat, NEW n, Stream!Repeats(p, m, n)
  PROVE  Hashes[m] = Hashes[p]
<1>1. n \in Nat /\ n >= 3 /\ \A k \in 0 .. n - 1 : src[m + k] = src[p + k]
  BY DEF Stream!Repeats, Stream!MIN_LEN
<1>2. src[m + 0] = src[p + 0] /\ src[m + 1] = src[p + 1] /\ src[m + 2] = src[p + 2]
  BY <1>1
<1>3. HashAt(m) = HashAt(p)
  BY <1>2 DEF HashAt
<1>4. QED
  BY <1>3 DEF Hashes

LEMMA SameRepeats ==
  ASSUME UNCHANGED <<src, len, i>>, NEW m, NEW n
  PROVE  Stream!Repeats(i, m, n)' <=> Stream!Repeats(i, m, n)
BY DEF Stream!Repeats, Stream!MIN_LEN

LEMMA RepeatsBounds ==
  ASSUME NEW m, NEW n, Stream!Repeats(i, m, n), TypeOK, i + 2 < len
  PROVE  n >= 3 /\ n <= MaxMatch /\ n \in Nat
BY DEF Stream!Repeats, Stream!MIN_LEN, MaxMatch, min, TypeOK

LEMMA NextLongestInv == IInv /\ ExactInv /\ LongestInv /\ [Next]_vars => LongestInv'
<1> SUFFICES ASSUME IInv, ExactInv, LongestInv, [Next]_vars PROVE LongestInv'
  OBVIOUS
<1>1. TypeOK /\ i \in Nat /\ j \in Nat /\ len \in Nat
  BY DEF IInv, TypeOK
<1>2. CASE SearchStart
  <2>1. /\ pc = "loop" /\ i + 2 < len /\ h' = update_hash(h, src[i + 2])
        /\ UNCHANGED <<src, len, i, prev_match_len, match_pos>>
    BY <1>2 DEF SearchStart, args, pending
  <2>2. Exact(i) /\ h' = Hashes[i] /\ Hashes' = Hashes /\ h' \in Hash
    BY <1>1, <2>1, Roll, HashesStay, HashType DEF ExactInv
  <2>3. MaxMatch \in Nat /\ MaxMatch >= 3 /\ Asked \in Nat /\ Asked' = Asked
    BY <1>1, <2>1 DEF MaxMatch, min, TypeOK, Asked
  <2>4. CASE Asked >= MaxMatch
    <3>1. pc' = "insert" /\ match_len' = 0
      BY <1>2, <2>4 DEF SearchStart, Asked
    <3>2. ASSUME NEW m \in 0 .. i - 1, NEW n \in 3 .. LZ_MAX_LEN, Stream!Repeats(i, m, n),
                 n > prev_match_len
          PROVE  FALSE
      BY <1>1, <2>1, <2>3, <2>4, <3>2, RepeatsBounds DEF Asked, TypeOK
    <3>3. QED
      BY <2>1, <3>1, <3>2, SameRepeats DEF LongestInv, WalkInv, FindsLongestMostRecent
  <2>5. CASE Asked < MaxMatch
    <3>1. pc' = "walk" /\ best' = Asked /\ found' = FALSE /\ cand' = head[h']
      BY <1>2, <2>3, <2>5 DEF SearchStart, Asked
    <3>2. IsNewest(cand', i, h')
      BY <2>2, <3>1 DEF Exact
    <3>3. cand' # NO_POS => Hashes[cand'] = h'
      BY <3>2 DEF IsNewest
    <3>4. ASSUME NEW m \in 0 .. i - 1, NEW n \in 3 .. LZ_MAX_LEN, Stream!Repeats(i, m, n),
                 cand' = NO_POS \/ cand' < m
          PROVE  FALSE
      <4>1. Hashes[m] = h'
        BY <1>1, <2>2, <3>4, SameHash
      <4>2. QED
        BY <1>1, <3>2, <3>4, <4>1 DEF IsNewest
    <3>5. QED
      BY <2>1, <2>2, <2>3, <3>1, <3>3, <3>4, SameRepeats DEF LongestInv, WalkInv, FindsLongestMostRecent
  <2>6. QED
    BY <2>3, <2>4, <2>5
<1>3. CASE WalkStep
  <2>1. PICK l \in 0 .. MaxMatch :
          /\ cmp(l, cand, i, best, MaxMatch)
          /\ IF l # 0
             THEN found' = TRUE /\ match_pos' = cand /\ best' = l
             ELSE UNCHANGED <<found, match_pos, best>>
          /\ IF l = MaxMatch
             THEN pc' = "insert" /\ match_len' = l /\ UNCHANGED <<cand, steps>>
             ELSE /\ cand' = prev[cand % LZ_WND_SIZE]
                  /\ steps' = steps - 1
                  /\ UNCHANGED <<pc, match_len>>
    BY <1>3 DEF WalkStep
  <2>2. /\ pc = "walk" /\ i - cand <= LZ_WND_SIZE /\ i + 2 < len
        /\ UNCHANGED <<src, len, h, i, prev_match_len>>
        /\ cand \in Nat /\ cand < i /\ cand # NO_POS
        /\ best \in Nat /\ 2 <= best /\ best < MaxMatch
    BY <1>3 DEF WalkStep, InReach, SearchInv, Before, IInv, TypeOK, args, pending
  <2>3. Exact(i) /\ h = Hashes[i] /\ Hashes[cand] = h /\ Hashes' = Hashes
    BY <2>2, HashesStay DEF ExactInv, LongestInv, WalkInv
  <2>4. MaxMatch \in Nat /\ i + MaxMatch <= len /\ l \in Nat
    BY <1>1, <2>2 DEF MaxMatch, min
  (* No string at the candidate is longer than the comparison says,        *)
  <2>5. ASSUME NEW n \in 3 .. LZ_MAX_LEN, Stream!Repeats(i, cand, n)
        PROVE  n <= (IF l # 0 THEN l ELSE best)
    <3>1. \A k \in 0 .. n - 1 : src[cand + k] = src[i + k]
      BY <2>5 DEF Stream!Repeats
    <3>2. n <= MaxMatch /\ n \in Nat
      BY <1>1, <2>2, <2>5, RepeatsBounds
    <3>3. CASE l = 0
      <4>1. PICK k \in 0 .. best : src[cand + k] # src[i + k]
        BY <2>1, <2>2, <3>3 DEF cmp
      <4>2. QED
        BY <2>2, <3>1, <3>2, <3>3, <4>1
    <3>4. CASE l # 0 /\ l < MaxMatch
      <4>1. src[cand + l] # src[i + l]
        BY <2>1, <2>2, <2>4, <3>4 DEF cmp
      <4>2. QED
        BY <2>4, <3>1, <3>2, <3>4, <4>1
    <3>5. CASE l = MaxMatch
      BY <2>2, <2>4, <3>2, <3>5
    <3>6. QED
      BY <2>4, <3>3, <3>4, <3>5
  <2>6. l # 0 => l > best
    BY <2>1, <2>2, <2>4 DEF cmp
  (* so up to the candidate the search now knows all there is.             *)
  <2>7. ASSUME NEW m \in 0 .. i - 1, NEW n \in 3 .. LZ_MAX_LEN, Stream!Repeats(i, m, n), cand <= m
        PROVE  n <= best' /\ (found' /\ n = best' => match_pos' >= m)
    <3>1. CASE m = cand
      <4>1. n <= best'
        BY <2>1, <2>5, <2>7, <3>1
      <4>2. CASE l # 0
        BY <2>1, <2>2, <3>1, <4>1, <4>2
      <4>3. CASE l = 0
        <5>1. found => match_pos > cand
          BY <2>2 DEF LongestInv, WalkInv
        <5>2. QED
          BY <1>1, <2>1, <2>2, <3>1, <4>1, <4>3, <5>1 DEF TypeOK
      <4>4. QED
        BY <4>2, <4>3
    <3>2. CASE cand < m
      <4>1. n <= best /\ (found /\ n = best => match_pos >= m)
        BY <2>2, <2>7, <3>2 DEF LongestInv, WalkInv
      <4>2. CASE l # 0
        BY <2>1, <2>2, <2>4, <2>6, <4>1, <4>2
      <4>3. CASE l = 0
        BY <2>1, <4>1, <4>3
      <4>4. QED
        BY <4>2, <4>3
    <3>3. QED
      BY <2>2, <2>7, <3>1, <3>2
  <2>8. CASE l = MaxMatch
    <3>1. pc' = "insert" /\ match_len' = l /\ best' = l /\ found' = TRUE /\ match_pos' = cand
      BY <2>1, <2>2, <2>4, <2>8
    <3>2. ASSUME NEW m \in 0 .. i - 1, NEW n \in 3 .. LZ_MAX_LEN, Stream!Repeats(i, m, n)
          PROVE  match_len' >= n /\ (match_len' = n => match_pos' >= m)
      <4>1. n <= l
        BY <1>1, <2>2, <2>8, <3>2, RepeatsBounds
      <4>2. CASE cand <= m
        BY <2>7, <3>1, <3>2, <4>1, <4>2, <2>4
      <4>3. CASE m < cand
        BY <2>2, <2>4, <3>1, <4>1, <4>3
      <4>4. QED
        BY <2>2, <4>2, <4>3
    <3>3. QED
      BY <2>2, <3>1, <3>2, SameRepeats DEF LongestInv, WalkInv, FindsLongestMostRecent
  <2>9. CASE l # MaxMatch
    <3>1. pc' = "walk" /\ cand' = prev[cand % LZ_WND_SIZE]
      BY <2>1, <2>2, <2>9
    <3>2. IsNewest(cand', cand, h)
      BY <1>1, <2>2, <2>3, <3>1 DEF Exact
    <3>3. cand' # NO_POS => Hashes'[cand'] = h' /\ cand' \in Nat /\ cand' < cand
      BY <2>2, <2>3, <3>2 DEF IsNewest
    <3>4. found' /\ cand' # NO_POS => match_pos' > cand'
      <4>1. CASE l # 0
        BY <2>1, <2>2, <3>3, <4>1
      <4>2. CASE l = 0
        <5>1. found => match_pos > cand /\ match_pos \in Nat
          BY <1>1, <2>2 DEF LongestInv, WalkInv, TypeOK, SearchInv, MatchAt, IInv
        <5>2. (found' => found) /\ match_pos' = match_pos
          BY <2>1, <4>2
        <5>3. cand' # NO_POS /\ found => match_pos > cand'
          BY <2>2, <3>3, <5>1
        <5>4. QED
          BY <5>2, <5>3
      <4>3. QED
        BY <4>1, <4>2
    <3>5. ASSUME NEW m \in 0 .. i - 1, NEW n \in 3 .. LZ_MAX_LEN, Stream!Repeats(i, m, n),
                 cand' = NO_POS \/ cand' < m
          PROVE  cand <= m
      <4>1. Hashes[m] = h
        BY <1>1, <2>3, <3>5, SameHash
      <4>2. QED
        BY <1>1, <2>2, <3>2, <3>5, <4>1 DEF IsNewest
    <3>6. ~found' => best' = Asked'
      BY <2>1, <2>2 DEF LongestInv, WalkInv, Asked
    <3>7. QED
      BY <2>2, <2>7, <3>1, <3>3, <3>4, <3>5, <3>6, SameRepeats
      DEF LongestInv, WalkInv, FindsLongestMostRecent
  <2>10. QED
    BY <2>8, <2>9
<1>4. CASE SearchEnd
  <2>1. /\ pc = "walk" /\ ~InReach /\ pc' = "insert" /\ i + 2 < len
        /\ match_len' = (IF found THEN best ELSE 0)
        /\ UNCHANGED <<src, len, i, prev_match_len, match_pos, steps>>
        /\ cand = NO_POS \/ (cand \in Nat /\ cand < i)
    BY <1>4 DEF SearchEnd, args, pending, search, SearchInv, IInv, Before
  <2>2. ASSUME steps # 0, NEW m \in 0 .. i - 1, NEW n \in 3 .. LZ_MAX_LEN,
               Stream!Repeats(i, m, n), n > prev_match_len
        PROVE  match_len' >= n /\ (match_len' = n => match_pos >= m)
    <3>1. cand = NO_POS \/ cand < m
      <4>1. i - m <= LZ_WND_SIZE
        BY <2>2 DEF Stream!Repeats
      <4>2. QED
        BY <1>1, <2>1, <2>2, <4>1 DEF InReach
    <3>2. n <= best /\ (found /\ n = best => match_pos >= m)
      BY <2>1, <2>2, <3>1 DEF LongestInv, WalkInv
    <3>3. found
      BY <1>1, <2>1, <2>2, <3>2 DEF LongestInv, WalkInv, Asked, TypeOK
    <3>4. QED
      BY <1>1, <2>1, <3>2, <3>3 DEF TypeOK
  <2>3. QED
    BY <2>1, <2>2, SameRepeats DEF LongestInv, WalkInv, FindsLongestMostRecent
<1>5. CASE /\ Next /\ ~SearchStart /\ ~WalkStep /\ ~SearchEnd
  <2>1. pc' \notin {"walk", "insert"}
    BY <1>5 DEF Next, CallbackRefuses, InsertCurrent, OutputPrevious, SkipInsert, SkipEnd,
                OutputLiteral, Defer, OutputLast, TailLiteral, Return
  <2>2. QED
    BY <2>1 DEF LongestInv, WalkInv, FindsLongestMostRecent
<1>6. CASE UNCHANGED vars
  <2>1. UNCHANGED <<src, len, i, h, pc, prev_match_len, match_len, match_pos, best, cand, steps, found>>
    BY <1>6 DEF vars, args, match, pending, search
  <2>2. Hashes' = Hashes /\ Asked' = Asked
    BY <2>1, HashesStay DEF Asked
  <2>3. QED
    BY <2>1, <2>2, SameRepeats DEF LongestInv, WalkInv, FindsLongestMostRecent
<1>7. QED
  BY <1>2, <1>3, <1>4, <1>5, <1>6

LEMMA LongestInvariance == Spec => [](IInv /\ ExactInv /\ LongestInv)
<1>1. Init => IInv /\ ExactInv /\ LongestInv
  <2>1. Init => LongestInv
    BY DEF Init, LongestInv, WalkInv, FindsLongestMostRecent
  <2>2. QED
    BY <2>1, InitIInv, InitExactInv
<1>2. (IInv /\ ExactInv /\ LongestInv) /\ [Next]_vars => (IInv /\ ExactInv /\ LongestInv)'
  BY NextIInv, NextExactInv, NextLongestInv
<1>3. QED
  BY <1>1, <1>2, PTL DEF Spec

(* Unless its budget ran out, find_match finds the longest match in the    *)
(* window that beats the pending one, and of those the newest (lz77.c:50). *)
THEOREM FindsTheBest == Spec => []FindsLongestMostRecent
<1>1. LongestInv => FindsLongestMostRecent
  BY DEF LongestInv
<1>2. QED
  BY <1>1, LongestInvariance, PTL

-----------------------------------------------------------------------------
(* The search and its budget: the steps taken are the candidates newer     *)
(* than the next one, or all of them when none is left.                    *)
InWindow(v) == v # NO_POS /\ i - v <= LZ_WND_SIZE
TriedInv == pc = "walk" =>
  /\ InWindow(cand) => Cardinality(Newer(i, cand)) + steps = Budget
  /\ ~ InWindow(cand) => Cardinality(Candidates(i)) + steps = Budget
  /\ found => match_pos \in Tried

LEMMA CandidatesFinite ==
  ASSUME NEW p \in Nat, NEW m
  PROVE  /\ IsFiniteSet(Candidates(p)) /\ Cardinality(Candidates(p)) \in Nat
         /\ IsFiniteSet(Newer(p, m)) /\ Cardinality(Newer(p, m)) \in Nat
<1>1. IsFiniteSet(0 .. p - 1)  BY FS_Interval
<1>2. Candidates(p) \subseteq 0 .. p - 1  BY DEF Candidates
<1>3. Newer(p, m) \subseteq Candidates(p)  BY DEF Newer
<1>4. IsFiniteSet(Candidates(p))  BY <1>1, <1>2, FS_Subset
<1>5. IsFiniteSet(Newer(p, m))  BY <1>3, <1>4, FS_Subset
<1>6. QED  BY <1>4, <1>5, FS_CardinalityType

LEMMA SameCandidates ==
  ASSUME UNCHANGED <<src, i>>
  PROVE  Candidates(i)' = Candidates(i) /\ \A m : Newer(i, m)' = Newer(i, m)
<1>1. Candidates(i)' = Candidates(i)  BY DEF Candidates, HashAt
<1>2. QED  BY <1>1 DEF Newer

LEMMA SameTried ==
  ASSUME UNCHANGED <<src, i, prev_match_len>>
  PROVE  Budget' = Budget /\ Tried' = Tried
<1>1. Budget' = Budget  BY DEF Budget, Asked
<1>2. QED  BY <1>1, SameCandidates DEF Tried

(* A candidate is a position of the window with the hash at i.             *)
LEMMA CandidateIs ==
  ASSUME i \in Nat, NEW x, x = Hashes[i], NEW m
  PROVE  m \in Candidates(i) <=> m \in 0 .. i - 1 /\ i - m <= LZ_WND_SIZE /\ Hashes[m] = x
<1>1. HashAt(i) = x  BY DEF Hashes
<1>2. m \in 0 .. i - 1 => HashAt(m) = Hashes[m]  BY DEF Hashes
<1>3. QED  BY <1>1, <1>2 DEF Candidates

(* The head of a chain is the newest candidate,                            *)
LEMMA FirstCandidate ==
  ASSUME i \in Nat, NEW x, x = Hashes[i], NEW v, IsNewest(v, i, x)
  PROVE  /\ InWindow(v) => Newer(i, v) = {}
         /\ ~ InWindow(v) => Candidates(i) = {}
<1>1. ASSUME InWindow(v), NEW r \in Newer(i, v)  PROVE FALSE
  <2>1. r \in 0 .. i - 1 /\ Hashes[r] = x /\ r > v
    BY <1>1, CandidateIs DEF Newer
  <2>2. v \in 0 .. i - 1 /\ r <= v  BY <1>1, <2>1 DEF IsNewest, InWindow
  <2>3. QED  BY <2>1, <2>2
<1>2. ASSUME ~ InWindow(v), NEW r \in Candidates(i)  PROVE FALSE
  <2>1. r \in 0 .. i - 1 /\ Hashes[r] = x /\ i - r <= LZ_WND_SIZE  BY CandidateIs
  <2>2. v \in 0 .. i - 1 /\ r <= v  BY <2>1 DEF IsNewest
  <2>3. v # NO_POS  BY <2>2, SentinelAssumption
  <2>4. QED  BY <1>2, <2>1, <2>2, <2>3 DEF InWindow
<1>3. QED  BY <1>1, <1>2

(* and its next entry is the next candidate.                               *)
LEMMA NextCandidate ==
  ASSUME i \in Nat, h = Hashes[i], NEW c \in Candidates(i), NEW v, IsNewest(v, c, h)
  PROVE  /\ InWindow(v) => Newer(i, v) = Newer(i, c) \cup {c}
         /\ ~ InWindow(v) => Candidates(i) = Newer(i, c) \cup {c}
<1>1. c \in 0 .. i - 1 /\ Hashes[c] = h  BY CandidateIs
<1>2. v # NO_POS => v \in 0 .. c - 1  BY DEF IsNewest
<1>3. ASSUME NEW r \in Candidates(i), r < c  PROVE InWindow(v) /\ r <= v
  <2>1. r \in 0 .. i - 1 /\ Hashes[r] = h /\ i - r <= LZ_WND_SIZE  BY CandidateIs
  <2>2. v \in 0 .. c - 1 /\ r <= v  BY <1>1, <1>3, <2>1 DEF IsNewest
  <2>3. v # NO_POS  BY <2>2, SentinelAssumption
  <2>4. QED  BY <1>1, <2>1, <2>2, <2>3 DEF InWindow
<1>4. Candidates(i) \subseteq Int  BY DEF Candidates
<1>5. ASSUME InWindow(v)  PROVE Newer(i, v) = Newer(i, c) \cup {c}
  <2>1. v \in 0 .. c - 1  BY <1>2, <1>5 DEF InWindow
  <2>2. \A r \in Candidates(i) : r > v <=> (r > c \/ r = c)
    BY <1>1, <1>3, <1>4, <2>1
  <2>3. QED  BY <2>2 DEF Newer
<1>6. ASSUME ~ InWindow(v)  PROVE Candidates(i) = Newer(i, c) \cup {c}
  <2>1. \A r \in Candidates(i) : r > c \/ r = c
    BY <1>1, <1>3, <1>4, <1>6
  <2>2. QED  BY <2>1 DEF Newer
<1>7. QED  BY <1>5, <1>6

(* What is tried has been visited when the search ends.                    *)
LEMMA TriedIsVisited ==
  ASSUME TypeOK, pc = "walk", cand = NO_POS \/ (cand \in Nat /\ cand < i),
         TriedInv, ~ InReach, NEW m \in Tried
  PROVE  cand = NO_POS \/ cand < m
<1> USE DEF TypeOK
<1>1. m \in Candidates(i) /\ m \in 0 .. i - 1 /\ i - m <= LZ_WND_SIZE
      /\ Cardinality(Newer(i, m)) < Budget
  BY DEF Tried, Candidates
<1>2. CASE ~ InWindow(cand)
  BY <1>1, <1>2 DEF InWindow
<1>3. CASE InWindow(cand)
  <2>1. steps = 0  BY <1>3 DEF InReach, InWindow
  <2>2. Cardinality(Newer(i, cand)) = Budget
    BY <1>3, <2>1, CandidatesFinite DEF TriedInv
  <2>3. SUFFICES ASSUME m <= cand, cand \in Nat  PROVE FALSE
    BY <1>1, <1>3 DEF InWindow
  <2>4. Newer(i, cand) \subseteq Newer(i, m)
    <3>1. \A r \in Candidates(i) : r > cand => r > m
      BY <1>1, <2>3 DEF Candidates
    <3>2. QED  BY <3>1 DEF Newer
  <2>5. Cardinality(Newer(i, cand)) <= Cardinality(Newer(i, m))
    BY <2>4, CandidatesFinite, FS_Subset
  <2>6. Budget \in Nat  BY SizeAssumption DEF Budget
  <2>7. Cardinality(Newer(i, m)) \in Nat  BY CandidatesFinite
  <2>8. QED  BY <1>1, <2>2, <2>5, <2>6, <2>7
<1>4. QED  BY <1>2, <1>3

LEMMA NextTriedInv ==
  ASSUME IInv, ExactInv, LongestInv, TriedInv, [Next]_vars
  PROVE  TriedInv'
<1>1. TypeOK /\ i \in Nat /\ len \in Nat /\ steps \in Nat /\ Budget \in Nat
  BY DEF IInv, TypeOK, Budget
<1>2. CASE SearchStart
  <2>1. SUFFICES ASSUME pc' = "walk"
                 PROVE  /\ InWindow(cand)' => Cardinality(Newer(i, cand)') + steps' = Budget'
                        /\ ~ InWindow(cand)' => Cardinality(Candidates(i)') + steps' = Budget'
                        /\ ~ found'
    BY DEF TriedInv
  <2>2. /\ pc = "loop" /\ i + 2 < len /\ h' = update_hash(h, src[i + 2])
        /\ UNCHANGED <<src, i, prev_match_len>> /\ cand' = head[h'] /\ found' = FALSE
        /\ steps' = Budget
    BY <1>2, <2>1 DEF SearchStart, args, pending, Budget, Asked
  <2>3. Exact(i) /\ h' = Hashes[i] /\ Hashes' = Hashes /\ h' \in Hash
    BY <1>1, <1>2, <2>2, Roll, HashesStay, HashType DEF ExactInv
  <2>4. /\ InWindow(cand') => Newer(i, cand') = {}
        /\ ~ InWindow(cand') => Candidates(i) = {}
    <3>1. IsNewest(cand', i, h')  BY <2>2, <2>3 DEF Exact
    <3>2. QED  BY <1>1, <2>3, <3>1, FirstCandidate
  <2>5. Candidates(i)' = Candidates(i) /\ Newer(i, cand)' = Newer(i, cand')
    <3>1. Candidates(i)' = Candidates(i)  BY <2>2, SameCandidates
    <3>2. QED  BY <3>1 DEF Newer
  <2>6. InWindow(cand)' <=> InWindow(cand')  BY <2>2 DEF InWindow
  <2>7. QED  BY <1>1, <2>2, <2>4, <2>5, <2>6, SameTried, FS_EmptySet
<1>3. CASE WalkStep
  <2>1. SUFFICES ASSUME pc' = "walk"
                 PROVE  /\ InWindow(cand)' => Cardinality(Newer(i, cand)') + steps' = Budget'
                        /\ ~ InWindow(cand)' => Cardinality(Candidates(i)') + steps' = Budget'
                        /\ found' => match_pos' \in Tried'
    BY DEF TriedInv
  <2>2. /\ pc = "walk" /\ i - cand <= LZ_WND_SIZE /\ cand # NO_POS /\ steps # 0
        /\ UNCHANGED <<src, h, i, prev_match_len>>
        /\ cand' = prev[cand % LZ_WND_SIZE] /\ steps' = steps - 1
        /\ (found' = TRUE /\ match_pos' = cand) \/ UNCHANGED <<found, match_pos>>
    BY <1>3, <2>1 DEF WalkStep, InReach, args, pending
  <2>3. cand \in Nat /\ cand < i  BY <2>2 DEF IInv, SearchInv, Before
  <2>4. Exact(i) /\ h = Hashes[i] /\ Hashes[cand] = h
    BY <2>2 DEF ExactInv, LongestInv, WalkInv
  <2>5. cand \in Candidates(i)  BY <1>1, <2>2, <2>3, <2>4, CandidateIs
  <2>6. Cardinality(Newer(i, cand)) + steps = Budget
    BY <2>2 DEF TriedInv, InWindow
  <2>7. cand \in Tried
    <3>1. Cardinality(Newer(i, cand)) \in Nat  BY <1>1, CandidatesFinite
    <3>2. Cardinality(Newer(i, cand)) < Budget  BY <1>1, <2>2, <2>6, <3>1
    <3>3. QED  BY <2>5, <3>2 DEF Tried
  <2>8. Cardinality(Newer(i, cand) \cup {cand}) + steps' = Budget
    <3>1. cand \notin Newer(i, cand)  BY <2>3 DEF Newer
    <3>2. IsFiniteSet(Newer(i, cand)) /\ Cardinality(Newer(i, cand)) \in Nat
      BY <1>1, CandidatesFinite
    <3>3. Cardinality(Newer(i, cand) \cup {cand}) = Cardinality(Newer(i, cand)) + 1
      BY <3>1, <3>2, FS_AddElement
    <3>4. QED  BY <1>1, <2>2, <2>6, <3>2, <3>3
  <2>9. /\ InWindow(cand') => Newer(i, cand') = Newer(i, cand) \cup {cand}
        /\ ~ InWindow(cand') => Candidates(i) = Newer(i, cand) \cup {cand}
    <3>1. IsNewest(cand', cand, h)
      BY <1>1, <2>2, <2>3, <2>4 DEF Exact
    <3>2. QED  BY <1>1, <2>4, <2>5, <3>1, NextCandidate
  <2>10. /\ InWindow(cand') <=> InWindow(cand)'
         /\ Newer(i, cand)' = Newer(i, cand') /\ Candidates(i)' = Candidates(i)
         /\ Budget' = Budget /\ Tried' = Tried
    <3>1. Candidates(i)' = Candidates(i) /\ Budget' = Budget /\ Tried' = Tried
      BY <2>2, SameCandidates, SameTried
    <3>2. Newer(i, cand)' = Newer(i, cand')  BY <3>1 DEF Newer
    <3>3. QED  BY <2>2, <3>1, <3>2 DEF InWindow
  <2>11. found' => match_pos' \in Tried
    BY <2>2, <2>7 DEF TriedInv
  <2>12. QED  BY <2>8, <2>9, <2>10, <2>11
<1>4. CASE \/ CallbackRefuses \/ SearchEnd \/ InsertCurrent \/ OutputPrevious \/ SkipInsert
           \/ SkipEnd \/ OutputLiteral \/ Defer \/ OutputLast \/ TailLiteral \/ Return
  <2>1. pc' # "walk"
    BY <1>4 DEF CallbackRefuses, SearchEnd, InsertCurrent, OutputPrevious, SkipInsert, SkipEnd,
                OutputLiteral, Defer, OutputLast, TailLiteral, Return
  <2>2. QED  BY <2>1 DEF TriedInv
<1>5. CASE UNCHANGED vars
  <2>1. UNCHANGED <<src, i, pc, prev_match_len, match_pos, cand, steps, found>>
    BY <1>5 DEF vars, args, match, pending, search
  <2>2. Newer(i, cand)' = Newer(i, cand) /\ Candidates(i)' = Candidates(i)
    <3>1. Candidates(i)' = Candidates(i)  BY <2>1, SameCandidates
    <3>2. QED  BY <2>1, <3>1 DEF Newer
  <2>3. Budget' = Budget /\ Tried' = Tried /\ (InWindow(cand)' <=> InWindow(cand))
    BY <2>1, SameTried DEF InWindow
  <2>4. QED  BY <2>1, <2>2, <2>3 DEF TriedInv
<1>6. QED
  BY <1>2, <1>3, <1>4, <1>5 DEF Next

LEMMA NextFindsBest ==
  ASSUME IInv, ExactInv, LongestInv, TriedInv, FindsBestTried, [Next]_vars
  PROVE  FindsBestTried'
<1>1. TypeOK /\ i \in Nat /\ len \in Nat /\ prev_match_len \in Nat
  BY DEF IInv, TypeOK
<1>2. ASSUME UNCHANGED <<src, len, i, prev_match_len>>,
             \A m \in Tried, n \in 3 .. LZ_MAX_LEN :
               Stream!Repeats(i, m, n) /\ n > prev_match_len =>
                 match_len' >= n /\ (match_len' = n => match_pos' >= m),
             match_len' # 0 => match_pos' \in Tried
      PROVE  FindsBestTried'
  <2>1. Tried' = Tried  BY <1>2, SameTried
  <2>2. \A m, n : Stream!Repeats(i, m, n)' <=> Stream!Repeats(i, m, n)  BY <1>2, SameRepeats
  <2>3. QED  BY <1>2, <2>1, <2>2 DEF FindsBestTried
<1>3. \A m \in Tried : m \in 0 .. i - 1
  BY DEF Tried, Candidates
<1>4. CASE SearchStart
  <2>1. CASE pc' # "insert"  BY <2>1 DEF FindsBestTried
  <2>2. CASE pc' = "insert"
    <3>1. /\ i + 2 < len /\ Asked >= MaxMatch /\ match_len' = 0
          /\ UNCHANGED <<src, len, i, prev_match_len>>
      BY <1>4, <2>2 DEF SearchStart, Asked, args, pending
    <3>2. ASSUME NEW m \in Tried, NEW n \in 3 .. LZ_MAX_LEN, Stream!Repeats(i, m, n),
                 n > prev_match_len
          PROVE  FALSE
      <4>1. n <= MaxMatch /\ MaxMatch \in Nat
        BY <1>1, <3>1, <3>2, RepeatsBounds DEF MaxMatch, min
      <4>2. QED  BY <1>1, <3>1, <3>2, <4>1 DEF Asked
    <3>3. QED  BY <1>2, <3>1, <3>2
  <2>3. QED  BY <2>1, <2>2
<1>5. CASE WalkStep
  <2>1. CASE pc' # "insert"  BY <2>1 DEF FindsBestTried
  <2>2. CASE pc' = "insert"
    <3>1. /\ pc = "walk" /\ i - cand <= LZ_WND_SIZE /\ i + 2 < len /\ steps # 0
          /\ UNCHANGED <<src, len, i, prev_match_len>>
          /\ cand \in Nat /\ cand < i /\ cand # NO_POS
          /\ best \in Nat /\ 2 <= best /\ best < MaxMatch /\ steps \in Nat
      BY <1>1, <1>5 DEF WalkStep, InReach, SearchInv, Before, IInv, TypeOK, args, pending
    <3>2. MaxMatch \in Nat /\ MaxMatch >= 3  BY <1>1, <3>1 DEF MaxMatch, min
    <3>3. match_len' = MaxMatch /\ match_pos' = cand
      BY <1>5, <2>2, <3>1, <3>2 DEF WalkStep
    <3>4. cand \in Tried
      <4>1. h = Hashes[i] /\ Hashes[cand] = h
        BY <3>1 DEF ExactInv, LongestInv, WalkInv
      <4>2. cand \in Candidates(i)  BY <1>1, <3>1, <4>1, CandidateIs
      <4>3. Cardinality(Newer(i, cand)) \in Nat  BY <1>1, CandidatesFinite
      <4>4. Cardinality(Newer(i, cand)) + steps = Budget  BY <3>1 DEF TriedInv, InWindow
      <4>5. Cardinality(Newer(i, cand)) < Budget  BY <3>1, <4>3, <4>4
      <4>6. QED  BY <4>2, <4>5 DEF Tried
    <3>5. ASSUME NEW m \in Tried, NEW n \in 3 .. LZ_MAX_LEN, Stream!Repeats(i, m, n)
          PROVE  match_len' >= n /\ (match_len' = n => match_pos' >= m)
      <4>1. n <= MaxMatch  BY <1>1, <3>1, <3>5, RepeatsBounds
      <4>2. m \in 0 .. i - 1  BY <1>3
      <4>3. cand < m => n <= best  BY <3>1, <3>5, <4>2 DEF LongestInv, WalkInv
      <4>4. QED  BY <3>1, <3>2, <3>3, <4>1, <4>2, <4>3
    <3>6. QED  BY <1>2, <3>1, <3>3, <3>4, <3>5
  <2>3. QED  BY <2>1, <2>2
<1>6. CASE SearchEnd
  <2>1. /\ pc = "walk" /\ ~ InReach /\ i + 2 < len
        /\ match_len' = (IF found THEN best ELSE 0)
        /\ UNCHANGED <<src, len, i, prev_match_len, match_pos>>
        /\ cand = NO_POS \/ (cand \in Nat /\ cand < i)
    BY <1>6 DEF SearchEnd, args, pending, search, SearchInv, IInv, Before
  <2>2. ASSUME NEW m \in Tried, NEW n \in 3 .. LZ_MAX_LEN, Stream!Repeats(i, m, n),
               n > prev_match_len
        PROVE  match_len' >= n /\ (match_len' = n => match_pos >= m)
    <3>1. m \in 0 .. i - 1 /\ (cand = NO_POS \/ cand < m)
      BY <1>1, <1>3, <2>1, TriedIsVisited
    <3>2. n <= best /\ (found /\ n = best => match_pos >= m)
      BY <2>1, <2>2, <3>1 DEF LongestInv, WalkInv
    <3>3. found
      BY <1>1, <2>1, <2>2, <3>2 DEF LongestInv, WalkInv, Asked, TypeOK
    <3>4. QED
      BY <1>1, <2>1, <3>2, <3>3 DEF TypeOK
  <2>3. match_len' # 0 => match_pos \in Tried
    BY <1>1, <2>1 DEF TriedInv, TypeOK
  <2>4. QED  BY <1>2, <2>1, <2>2, <2>3
<1>7. CASE \/ CallbackRefuses \/ InsertCurrent \/ OutputPrevious \/ SkipInsert
           \/ SkipEnd \/ OutputLiteral \/ Defer \/ OutputLast \/ TailLiteral \/ Return
  <2>1. pc' # "insert"
    BY <1>7 DEF CallbackRefuses, InsertCurrent, OutputPrevious, SkipInsert, SkipEnd,
                OutputLiteral, Defer, OutputLast, TailLiteral, Return
  <2>2. QED  BY <2>1 DEF FindsBestTried
<1>8. CASE UNCHANGED vars
  <2>1. UNCHANGED <<src, len, i, pc, prev_match_len, match_len, match_pos>>
    BY <1>8 DEF vars, args, match, pending
  <2>2. Tried' = Tried  BY <2>1, SameTried
  <2>3. \A m, n : Stream!Repeats(i, m, n)' <=> Stream!Repeats(i, m, n)  BY <2>1, SameRepeats
  <2>4. QED  BY <2>1, <2>2, <2>3 DEF FindsBestTried
<1>9. QED
  BY <1>4, <1>5, <1>6, <1>7, <1>8 DEF Next

LEMMA TriedInvariance == Spec => [](IInv /\ TriedInv /\ FindsBestTried)
<1>1. Init => TriedInv /\ FindsBestTried
  BY DEF Init, TriedInv, FindsBestTried
<1>2. IInv /\ ExactInv /\ LongestInv /\ TriedInv /\ FindsBestTried /\ [Next]_vars
        => TriedInv' /\ FindsBestTried'
  BY NextTriedInv, NextFindsBest
<1>3. QED
  BY <1>1, <1>2, LongestInvariance, PTL DEF Spec

(* Also where its budget ends a search in the middle of a chain, what      *)
(* find_match returns is the longest match, and of those the newest, at    *)
(* the candidates it had steps for, and one of these (lz77.c:76-118).      *)
THEOREM FindsTheBestTried == Spec => []FindsBestTried
BY TriedInvariance, PTL

-----------------------------------------------------------------------------
(* The lazy parse.  No search gave up on a candidate in the window.        *)
BudgetLasts == pc = "walk" /\ steps = 0 => cand = NO_POS \/ i - cand > LZ_WND_SIZE

(* No match at p is longer than n.                                         *)
NoneLonger(p, n) == \A k \in 3 .. LZ_MAX_LEN : k > n => ~ Matches(p, k)

LazyInv ==
  /\ pc \in {"insert", "emit"} =>
       \A k \in 3 .. LZ_MAX_LEN : k > prev_match_len /\ Matches(i, k) => match_len >= k
  /\ InLoop /\ prev_match_len # 0 => NoneLonger(i - 1, prev_match_len)
  /\ pc = "tail" => i + 2 >= len

LEMMA SameMatches ==
  ASSUME UNCHANGED <<src, len>>
  PROVE  /\ \A p, n : Matches(p, n)' <=> Matches(p, n)
         /\ \A p, n : NoneLonger(p, n)' <=> NoneLonger(p, n)
<1>1. \A p, m, n : Stream!Repeats(p, m, n)' <=> Stream!Repeats(p, m, n)
  BY DEF Stream!Repeats, Stream!MIN_LEN
<1>2. \A p, n : Matches(p, n)' <=> Matches(p, n)  BY <1>1 DEF Matches
<1>3. \A p, n : NoneLonger(p, n)' <=> NoneLonger(p, n)  BY <1>2 DEF NoneLonger
<1>4. QED  BY <1>2, <1>3

(* Near the end nothing matches any more.                                  *)
LEMMA NoMatchAtEnd ==
  ASSUME NEW p \in Nat, len \in Nat, p + 2 >= len, NEW k \in 3 .. LZ_MAX_LEN
  PROVE  ~ Matches(p, k)
BY DEF Matches, Stream!Repeats

LEMMA PendingLength ==
  ASSUME IInv, InLoop, prev_match_len # 0
  PROVE  prev_match_len \in 3 .. LZ_MAX_LEN /\ Matches(i - 1, prev_match_len) /\ i - 1 \in Nat
<1>1. /\ i - 1 \in Nat /\ prev_match_pos \in Nat
      /\ Stream!Repeats(i - 1, prev_match_pos, prev_match_len)
  BY DEF IInv, PendingInv, MatchAt
<1>2. prev_match_len \in 3 .. LZ_MAX_LEN /\ prev_match_pos \in 0 .. (i - 1) - 1
  BY <1>1 DEF Stream!Repeats, Stream!MIN_LEN
<1>3. QED  BY <1>1, <1>2 DEF Matches

(* A search that ends has seen every match that is longer than the pending *)
(* one.                                                                    *)
LEMMA SearchComplete ==
  ASSUME IInv, ExactInv, LongestInv, BudgetLasts, SearchStart \/ WalkStep \/ SearchEnd,
         pc' = "insert", NEW k \in 3 .. LZ_MAX_LEN, k > prev_match_len, Matches(i, k)
  PROVE  match_len' >= k
<1>1. TypeOK /\ i \in Nat /\ len \in Nat /\ prev_match_len \in Nat /\ i + 2 < len
  BY DEF IInv, TypeOK, SearchInv, SearchStart, WalkStep, SearchEnd
<1>2. PICK m \in 0 .. i - 1 : Stream!Repeats(i, m, k)  BY DEF Matches
<1>3. k <= MaxMatch /\ k \in Nat /\ MaxMatch \in Nat
  <2>1. k <= MaxMatch  BY <1>1, <1>2, RepeatsBounds
  <2>2. QED  BY <1>1, <2>1 DEF MaxMatch, min
<1>4. CASE SearchStart
  <2>1. Asked >= MaxMatch  BY <1>4 DEF SearchStart, Asked
  <2>2. QED  BY <1>1, <1>3, <2>1 DEF Asked
<1>5. CASE WalkStep
  <2>1. match_len' = MaxMatch  BY <1>5 DEF WalkStep
  <2>2. QED  BY <1>3, <2>1
<1>6. CASE SearchEnd
  <2>1. /\ pc = "walk" /\ ~ InReach /\ match_len' = (IF found THEN best ELSE 0)
        /\ cand = NO_POS \/ (cand \in Nat /\ cand < i)
    BY <1>6 DEF SearchEnd, SearchInv, IInv, Before
  <2>2. cand = NO_POS \/ cand < m
    <3>1. i - m <= LZ_WND_SIZE  BY <1>2 DEF Stream!Repeats
    <3>2. cand = NO_POS \/ i - cand > LZ_WND_SIZE  BY <1>1, <2>1 DEF InReach, BudgetLasts
    <3>3. QED  BY <1>1, <2>1, <3>1, <3>2
  <2>3. k <= best  BY <1>2, <2>1, <2>2 DEF LongestInv, WalkInv
  <2>4. found  BY <1>1, <2>1, <2>3 DEF LongestInv, WalkInv, Asked, TypeOK
  <2>5. QED  BY <1>1, <2>1, <2>3, <2>4 DEF TypeOK
<1>7. QED  BY <1>4, <1>5, <1>6

LEMMA NextLazyInv ==
  ASSUME IInv, ExactInv, LongestInv, LazyInv, BudgetLasts, [Next]_vars
  PROVE  LazyInv'
<1>1. TypeOK /\ i \in Nat /\ len \in Nat /\ prev_match_len \in Nat /\ match_len \in Nat
  BY DEF IInv, TypeOK
<1>2. UNCHANGED <<src, len>>
  BY DEF Next, vars, args, CallbackRefuses, SearchStart, WalkStep, SearchEnd, InsertCurrent,
         OutputPrevious, SkipInsert, SkipEnd, OutputLiteral, Defer, OutputLast, TailLiteral, Return
<1>3. /\ \A p, n : Matches(p, n)' <=> Matches(p, n)
      /\ \A p, n : NoneLonger(p, n)' <=> NoneLonger(p, n)
  BY <1>2, SameMatches
<1> DEFINE Longest == \A k \in 3 .. LZ_MAX_LEN : k > prev_match_len /\ Matches(i, k) => match_len >= k
(* Steps that leave position and pending match alone.                      *)
<1>4. ASSUME UNCHANGED <<i, prev_match_len>>, InLoop, pc' # "tail",
             pc' \in {"insert", "emit"} =>
               \A k \in 3 .. LZ_MAX_LEN : k > prev_match_len /\ Matches(i, k) => match_len' >= k
      PROVE  LazyInv'
  <2>1. \A k : Matches(i, k)' <=> Matches(i, k)  BY <1>2, <1>4 DEF Matches, Stream!Repeats, Stream!MIN_LEN
  <2>2. NoneLonger(i - 1, prev_match_len)' <=> NoneLonger(i - 1, prev_match_len)
    BY <1>2, <1>4 DEF NoneLonger, Matches, Stream!Repeats, Stream!MIN_LEN
  <2>3. QED  BY <1>4, <2>1, <2>2 DEF LazyInv, InLoop
(* Steps after which no match is pending, or the function returns.         *)
<1>5. ASSUME pc' \in {"loop", "skip", "done"}, pc' = "loop" => prev_match_len' = 0
      PROVE  LazyInv'
  BY <1>5 DEF LazyInv, InLoop
<1>6. CASE SearchStart \/ WalkStep \/ SearchEnd
  <2>1. UNCHANGED <<i, prev_match_len>> /\ InLoop /\ pc' \in {"walk", "insert"}
    BY <1>6 DEF SearchStart, WalkStep, SearchEnd, InLoop, pending
  <2>2. pc' = "insert" =>
          \A k \in 3 .. LZ_MAX_LEN : k > prev_match_len /\ Matches(i, k) => match_len' >= k
    BY <1>6, SearchComplete
  <2>3. QED  BY <1>4, <2>1, <2>2
<1>7. CASE InsertCurrent
  <2>1. UNCHANGED <<i, prev_match_len, match_len>> /\ InLoop /\ pc = "insert" /\ pc' = "emit"
    BY <1>7 DEF InsertCurrent, InLoop, pending, match
  <2>2. Longest  BY <2>1 DEF LazyInv
  <2>3. QED  BY <1>4, <2>1, <2>2
<1>8. CASE OutputPrevious \/ SkipInsert \/ SkipEnd \/ CallbackRefuses \/ Return
  BY <1>5, <1>8 DEF OutputPrevious, SkipInsert, SkipEnd, CallbackRefuses, Return
<1>9. CASE OutputLiteral
  <2>1. prev_match_len' = 0 /\ pc' = "loop"  BY <1>1, <1>9 DEF OutputLiteral, PrevIsBest, pending
  <2>2. QED  BY <1>5, <2>1
<1>10. CASE Defer
  <2>1. /\ pc = "emit" /\ pc' = "loop" /\ i' = i + 1 /\ prev_match_len' = match_len
        /\ prev_match_len = 0 \/ prev_match_len < match_len
    BY <1>1, <1>10 DEF Defer, PrevIsBest
  <2>2. NoneLonger(i, match_len)
    <3>1. Longest  BY <2>1 DEF LazyInv
    <3>2. ASSUME NEW k \in 3 .. LZ_MAX_LEN, k > match_len, Matches(i, k)  PROVE FALSE
      <4>1. k > prev_match_len  BY <1>1, <2>1, <3>2
      <4>2. match_len >= k  BY <3>1, <3>2, <4>1
      <4>3. QED  BY <1>1, <3>2, <4>2
    <3>3. QED  BY <3>2 DEF NoneLonger
  <2>3. i' - 1 = i  BY <1>1, <2>1
  <2>4. NoneLonger(i - 1, prev_match_len)'
    <3>1. \A k : Matches(i - 1, k)' <=> Matches(i, k)
      BY <1>2, <2>3 DEF Matches, Stream!Repeats, Stream!MIN_LEN
    <3>2. QED  BY <2>1, <2>2, <3>1 DEF NoneLonger
  <2>5. QED  BY <2>1, <2>4 DEF LazyInv
<1>11. CASE OutputLast
  <2>1. pc = "loop" /\ i + 2 >= len /\ pc' = "tail"  BY <1>11 DEF OutputLast
  <2>2. CASE prev_match_len = 0
    <3>1. i' = i  BY <1>11, <2>2 DEF OutputLast
    <3>2. QED  BY <1>2, <2>1, <3>1 DEF LazyInv, InLoop
  <2>3. CASE prev_match_len # 0
    <3>1. i' = (i - 1) + prev_match_len  BY <1>11, <2>3 DEF OutputLast, PrevEnd
    <3>2. prev_match_len >= 3  BY <2>1, <2>3, PendingLength DEF InLoop
    <3>3. i' + 2 >= len'  BY <1>1, <1>2, <2>1, <3>1, <3>2
    <3>4. QED  BY <2>1, <3>3 DEF LazyInv, InLoop
  <2>4. QED  BY <2>2, <2>3
<1>12. CASE TailLiteral
  <2>1. pc = "tail" /\ pc' = "tail" /\ i' = i + 1  BY <1>12 DEF TailLiteral
  <2>2. i' + 2 >= len'  BY <1>1, <1>2, <2>1 DEF LazyInv
  <2>3. QED  BY <2>1, <2>2 DEF LazyInv, InLoop
<1>13. CASE UNCHANGED vars
  <2>1. UNCHANGED <<i, pc, prev_match_len, match_len>>  BY <1>13 DEF vars, match, pending
  <2>2. \A k : Matches(i, k)' <=> Matches(i, k)  BY <1>2, <2>1 DEF Matches, Stream!Repeats, Stream!MIN_LEN
  <2>3. NoneLonger(i - 1, prev_match_len)' <=> NoneLonger(i - 1, prev_match_len)
    BY <1>2, <2>1 DEF NoneLonger, Matches, Stream!Repeats, Stream!MIN_LEN
  <2>4. QED  BY <1>2, <2>1, <2>2, <2>3 DEF LazyInv, InLoop
<1>14. QED
  BY <1>6, <1>7, <1>8, <1>9, <1>10, <1>11, <1>12, <1>13 DEF Next

(* What each call then is.                                                 *)
LEMMA StepIsLazy ==
  ASSUME IInv, LazyInv, [Next]_vars
  PROVE  [LazyChoice]_vars
<1> SUFFICES ASSUME Next, token' # token \/ covered' # covered  PROVE LazyChoice
  BY DEF LazyChoice
<1>1. /\ TypeOK /\ i \in Nat /\ len \in Nat /\ prev_match_len \in Nat /\ match_len \in Nat
      /\ covered \in Nat
  BY DEF IInv, TypeOK
<1>2. OutputPrevious \/ OutputLiteral \/ Defer \/ OutputLast \/ TailLiteral
  BY DEF Next, CallbackRefuses, SearchStart, WalkStep, SearchEnd, InsertCurrent, SkipInsert, SkipEnd,
         Return, told
(* A literal where nothing matches, or where the next byte does better;    *)
<1>3. ASSUME NEW p \in Nat, NEW b, covered = p, Accept(Stream!Literal(b), 1),
             \A k \in 3 .. LZ_MAX_LEN :
               Matches(p, k) => \E m \in k + 1 .. LZ_MAX_LEN : Matches(p + 1, m)
      PROVE  LazyChoice
  <2>1. token'.call = "lit"  BY <1>3 DEF Accept, Stream!Literal
  <2>2. QED  BY <1>3, <2>1 DEF LazyChoice
(* a reference that nothing at its place or the next is longer than.       *)
<1>4. ASSUME NEW p \in Nat, NEW d, NEW n \in 3 .. LZ_MAX_LEN, covered = p,
             Accept(Stream!Backref(d, n), n), NoneLonger(p, n), NoneLonger(p + 1, n)
      PROVE  LazyChoice
  <2>1. token'.call # "lit" /\ covered' - covered = n
    BY <1>1, <1>4 DEF Accept, Stream!Backref
  <2>2. \A k \in n + 1 .. LZ_MAX_LEN : ~ Matches(p, k) /\ ~ Matches(p + 1, k)
    BY <1>4 DEF NoneLonger
  <2>3. QED  BY <1>4, <2>1, <2>2 DEF LazyChoice
<1>5. CASE OutputPrevious
  <2>1. /\ pc = "emit" /\ prev_match_len # 0 /\ prev_match_len >= match_len
        /\ Accept(Stream!Backref((i - 1) - prev_match_pos, prev_match_len), prev_match_len)
    BY <1>5 DEF OutputPrevious, PrevIsBest
  <2>2. /\ prev_match_len \in 3 .. LZ_MAX_LEN /\ i - 1 \in Nat /\ covered = i - 1
        /\ NoneLonger(i - 1, prev_match_len) /\ (i - 1) + 1 = i
    BY <1>1, <2>1, PendingLength DEF InLoop, LazyInv, IInv, PendingInv
  <2>3. NoneLonger(i, prev_match_len)
    <3>1. \A k \in 3 .. LZ_MAX_LEN : k > prev_match_len /\ Matches(i, k) => match_len >= k
      BY <2>1 DEF LazyInv
    <3>2. QED  BY <1>1, <2>1, <3>1 DEF NoneLonger
  <2> DEFINE p == i - 1
             d == (i - 1) - prev_match_pos
  <2>4. p \in Nat /\ covered = p /\ NoneLonger(p, prev_match_len) /\ NoneLonger(p + 1, prev_match_len)
        /\ Accept(Stream!Backref(d, prev_match_len), prev_match_len)
    BY <2>1, <2>2, <2>3
  <2> HIDE DEF p, d
  <2>5. QED  BY <1>4, <2>2, <2>4
<1>6. CASE OutputLiteral
  <2>1. pc = "emit" /\ match_len = 0 /\ prev_match_len = 0 /\ Accept(Stream!Literal(src[i]), 1)
    BY <1>1, <1>6 DEF OutputLiteral, PrevIsBest
  <2>2. covered = i  BY <2>1 DEF IInv, PendingInv, InLoop
  <2>3. \A k \in 3 .. LZ_MAX_LEN : ~ Matches(i, k)
    <3>1. \A k \in 3 .. LZ_MAX_LEN : k > prev_match_len /\ Matches(i, k) => match_len >= k
      BY <2>1 DEF LazyInv
    <3>2. QED  BY <2>1, <3>1
  <2>4. QED  BY <1>1, <1>3, <2>1, <2>2, <2>3
<1>7. CASE Defer
  <2>1. /\ pc = "emit" /\ match_len # 0 /\ (prev_match_len = 0 \/ prev_match_len < match_len)
    BY <1>1, <1>7 DEF Defer, PrevIsBest
  <2>2. prev_match_len # 0 /\ Accept(Stream!Literal(src[i - 1]), 1)
    BY <1>7 DEF Defer, told
  <2>3. i - 1 \in Nat /\ covered = i - 1 /\ NoneLonger(i - 1, prev_match_len) /\ (i - 1) + 1 = i
    BY <1>1, <2>1, <2>2, PendingLength DEF InLoop, LazyInv, IInv, PendingInv
  <2>4. match_len \in 3 .. LZ_MAX_LEN /\ Matches(i, match_len)
    <3>1. match_pos \in Nat /\ Stream!Repeats(i, match_pos, match_len)
      BY <2>1 DEF IInv, SearchInv, MatchAt
    <3>2. match_len \in 3 .. LZ_MAX_LEN /\ match_pos \in 0 .. i - 1
      BY <1>1, <3>1 DEF Stream!Repeats, Stream!MIN_LEN
    <3>3. QED  BY <3>1, <3>2 DEF Matches
  <2>5. ASSUME NEW k \in 3 .. LZ_MAX_LEN, Matches(i - 1, k)
        PROVE  \E m \in k + 1 .. LZ_MAX_LEN : Matches(i, m)
    <3>1. ~ (k > prev_match_len)  BY <2>3, <2>5 DEF NoneLonger
    <3>2. match_len \in k + 1 .. LZ_MAX_LEN  BY <1>1, <2>1, <2>2, <2>4, <3>1
    <3>3. QED  BY <2>4, <3>2
  <2> DEFINE p == i - 1
  <2>6. /\ p \in Nat /\ covered = p /\ Accept(Stream!Literal(src[p]), 1)
        /\ \A k \in 3 .. LZ_MAX_LEN :
             Matches(p, k) => \E m \in k + 1 .. LZ_MAX_LEN : Matches(p + 1, m)
    BY <2>2, <2>3, <2>5
  <2> HIDE DEF p
  <2>7. QED  BY <1>3, <2>6
<1>8. CASE OutputLast
  <2>1. /\ pc = "loop" /\ i + 2 >= len /\ prev_match_len # 0
        /\ Accept(Stream!Backref((i - 1) - prev_match_pos, prev_match_len), prev_match_len)
    BY <1>8 DEF OutputLast, told
  <2>2. /\ prev_match_len \in 3 .. LZ_MAX_LEN /\ i - 1 \in Nat /\ covered = i - 1
        /\ NoneLonger(i - 1, prev_match_len) /\ (i - 1) + 1 = i
    BY <1>1, <2>1, PendingLength DEF InLoop, LazyInv, IInv, PendingInv
  <2>3. NoneLonger(i, prev_match_len)  BY <1>1, <2>1, NoMatchAtEnd DEF NoneLonger
  <2> DEFINE p == i - 1
             d == (i - 1) - prev_match_pos
  <2>4. p \in Nat /\ covered = p /\ NoneLonger(p, prev_match_len) /\ NoneLonger(p + 1, prev_match_len)
        /\ Accept(Stream!Backref(d, prev_match_len), prev_match_len)
    BY <2>1, <2>2, <2>3
  <2> HIDE DEF p, d
  <2>5. QED  BY <1>4, <2>2, <2>4
<1>9. CASE TailLiteral
  <2>1. pc = "tail" /\ Accept(Stream!Literal(src[i]), 1)  BY <1>9 DEF TailLiteral
  <2>2. covered = i /\ i + 2 >= len  BY <2>1 DEF IInv, EndInv, LazyInv
  <2>3. QED  BY <1>1, <1>3, <2>1, <2>2, NoMatchAtEnd
<1>10. QED  BY <1>2, <1>5, <1>6, <1>7, <1>8, <1>9

(* Unless a search gave up for want of steps, the parse is the lazy one: a *)
(* byte becomes a literal only if nothing matches there or the next byte   *)
(* has a longer match, and a reference is as long as any that starts at    *)
(* its first byte or the next (lz77.c:186-212).                            *)
THEOREM ParsesLazily == Spec /\ []BudgetLasts => LazyParse
<1>1. Init => LazyInv
  BY DEF Init, LazyInv, InLoop
<1>2. LazyInv /\ IInv /\ ExactInv /\ LongestInv /\ BudgetLasts /\ [Next]_vars => LazyInv'
  BY NextLazyInv
<1>3. LazyInv /\ IInv /\ [Next]_vars => [LazyChoice]_vars
  BY StepIsLazy
<1>4. Spec => [](IInv /\ ExactInv /\ LongestInv)
  BY LongestInvariance
<1>5. QED
  BY <1>1, <1>2, <1>3, <1>4, PTL DEF Spec, LazyParse

(* No position has more earlier ones with its hash in the window than a    *)
(* search with a quarter of the steps can visit: 1024 of 32768.            *)
FewCandidates ==
  \A p \in 0 .. len - 3 : Cardinality(Candidates(p)) <= MAX_MATCH_STEPS \div 4

LEMMA FewCandidatesLast ==
  ASSUME IInv, ExactInv, LongestInv, TriedInv, FewCandidates
  PROVE  BudgetLasts
<1>0. pc = "walk" => i \in Nat /\ (cand = NO_POS \/ cand \in Nat)
  BY DEF IInv, TypeOK, SearchInv, Before
<1> SUFFICES ASSUME pc = "walk", steps = 0, InWindow(cand)  PROVE FALSE
  BY <1>0, SizeAssumption DEF BudgetLasts, InWindow
<1>1. i \in Nat /\ len \in Nat /\ i + 2 < len /\ cand \in Nat /\ cand < i
  BY DEF IInv, TypeOK, SearchInv, Before, InWindow
<1>2. cand \in Candidates(i)
  BY <1>1, CandidateIs DEF ExactInv, LongestInv, WalkInv, InWindow
<1>3. Cardinality(Newer(i, cand)) = Budget
  BY <1>1, CandidatesFinite DEF TriedInv
<1>4. Newer(i, cand) \subseteq Candidates(i) /\ cand \notin Newer(i, cand)
  BY <1>1 DEF Newer
<1>5. Cardinality(Newer(i, cand)) < Cardinality(Candidates(i))
  <2>1. Newer(i, cand) # Candidates(i)  BY <1>2, <1>4
  <2>2. IsFiniteSet(Candidates(i))  BY <1>1, CandidatesFinite
  <2>3. Cardinality(Newer(i, cand)) # Cardinality(Candidates(i))
    BY <1>4, <2>1, <2>2, FS_Subset
  <2>4. Cardinality(Newer(i, cand)) <= Cardinality(Candidates(i))
    BY <1>4, <2>2, FS_Subset
  <2>5. QED  BY <1>1, <2>3, <2>4, CandidatesFinite
<1>6. Cardinality(Candidates(i)) <= MAX_MATCH_STEPS \div 4
  BY <1>1 DEF FewCandidates
<1>7. Budget \in Nat /\ MAX_MATCH_STEPS \div 4 <= Budget
  BY SizeAssumption DEF Budget
<1>8. Cardinality(Candidates(i)) \in Nat  BY <1>1, CandidatesFinite
<1>9. QED  BY <1>3, <1>5, <1>6, <1>7, <1>8

(* The source does not change, so if it is such a source it stays one.     *)
LEMMA FewCandidatesStay == FewCandidates /\ [Next]_vars => FewCandidates'
<1> SUFFICES ASSUME FewCandidates, [Next]_vars  PROVE FewCandidates'
  OBVIOUS
<1>1. UNCHANGED <<src, len>>
  BY DEF Next, vars, args, CallbackRefuses, SearchStart, WalkStep, SearchEnd, InsertCurrent,
         OutputPrevious, SkipInsert, SkipEnd, OutputLiteral, Defer, OutputLast, TailLiteral, Return
<1>2. \A p : Candidates(p)' = Candidates(p)  BY <1>1 DEF Candidates, HashAt
<1>3. QED  BY <1>1, <1>2 DEF FewCandidates

(* On such a source no search gives up, and every parse is the lazy one    *)
(* (lz77.c:76-111, 186-212).                                               *)
THEOREM FewCandidatesAreEnough == Spec /\ FewCandidates => []BudgetLasts /\ LazyParse
<1>1. Spec /\ FewCandidates => []FewCandidates
  BY FewCandidatesStay, PTL DEF Spec
<1>2. IInv /\ ExactInv /\ LongestInv /\ TriedInv /\ FewCandidates => BudgetLasts
  BY FewCandidatesLast
<1>3. Spec /\ FewCandidates => []BudgetLasts
  BY <1>1, <1>2, LongestInvariance, TriedInvariance, PTL
<1>4. QED
  BY <1>3, ParsesLazily, PTL

-----------------------------------------------------------------------------
(* What lz77_compress describes decodes to its source, wherever it is      *)
(* refused.  This rests on the refinement of LzStream: the bytes of the    *)
(* last call that are still to be output repeat ones of the source, one by *)
(* one.                                                                    *)
OutputInv ==
  /\ covered \in Nat /\ covered <= len
  /\ dst_pos \in Nat /\ dst_pos <= covered
  /\ dst \in [0 .. len - 1 -> Byte \cup {UNINIT}]
  /\ \A k \in 0 .. dst_pos - 1 : dst[k] = src[k]
TokenInv == dst_pos < covered =>
  \/ token = Stream!Literal(src[dst_pos]) /\ covered = dst_pos + 1
  \/ /\ token.call = "backref" /\ token.dist \in 1 .. dst_pos
     /\ \A k \in dst_pos .. covered - 1 : src[k] = src[k - token.dist]
ResultInv == result = "true" => covered = len /\ dst_pos = len

CodecInv == IInv /\ OutputInv /\ TokenInv /\ ResultInv

-----------------------------------------------------------------------------
LEMMA InitCodecInv == CodecInit => CodecInv
<1> SUFFICES ASSUME CodecInit PROVE CodecInv
  OBVIOUS
<1>1. IInv
  BY InitIInv DEF CodecInit
<1>2. covered = 0 /\ dst_pos = 0 /\ len \in Nat /\ result = "none"
      /\ dst = [k \in 0 .. len - 1 |-> UNINIT]
  BY DEF CodecInit, Init
<1>3. QED
  BY <1>1, <1>2 DEF CodecInv, OutputInv, TokenInv, ResultInv

LEMMA CompressStep ==
  ASSUME CodecInv, Compress
  PROVE  CodecInv'
<1>1. IInv' /\ [Stream!Next]_(Stream!vars)
  BY NextIInv, StepRefines DEF CodecInv, Compress
<1>2. dst_pos = covered /\ dst' = dst /\ dst_pos' = dst_pos
  BY DEF Compress, output
<1>3. /\ covered \in Nat /\ covered <= len /\ len \in Nat
      /\ src \in [0 .. len - 1 -> Byte] /\ OutputInv
  BY DEF CodecInv, OutputInv, IInv, TypeOK
<1>4. CASE UNCHANGED Stream!vars
  BY <1>1, <1>2, <1>3, <1>4 DEF Stream!vars, CodecInv, OutputInv, TokenInv, ResultInv
<1>5. CASE Stream!DescribeLiteral
  <2>1. /\ covered < len /\ token' = Stream!Literal(src[covered]) /\ covered' = covered + 1
        /\ UNCHANGED <<src, len>> /\ result' = "none"
    BY <1>5 DEF Stream!DescribeLiteral
  <2>2. QED
    BY <1>1, <1>2, <1>3, <2>1 DEF CodecInv, OutputInv, TokenInv, ResultInv
<1>6. ASSUME NEW m \in 0 .. covered - 1, NEW n \in Stream!MIN_LEN .. LZ_MAX_LEN,
             Stream!DescribeBackref(m, n)
      PROVE  CodecInv'
  <2>1. /\ token' = Stream!Backref(covered - m, n) /\ covered' = covered + n
        /\ UNCHANGED <<src, len>> /\ result' = "none"
    BY <1>6 DEF Stream!DescribeBackref
  <2>2. /\ n \in Nat /\ covered + n <= len
        /\ \A x \in 0 .. n - 1 : src[m + x] = src[covered + x]
    <3>1. n \in Nat  BY DEF Stream!MIN_LEN
    <3>2. covered + n <= len /\ \A x \in 0 .. n - 1 : src[m + x] = src[covered + x]
      BY <1>6 DEF Stream!DescribeBackref, Stream!Repeats
    <3>3. QED  BY <3>1, <3>2
  <2>3. token'.call = "backref" /\ token'.dist = covered - m /\ covered - m \in 1 .. covered
    BY <2>1, <1>3 DEF Stream!Backref
  <2>4. ASSUME NEW y \in covered .. covered + n - 1
        PROVE  src[y] = src[y - (covered - m)]
    <3>1. y - covered \in 0 .. n - 1 /\ m + (y - covered) = y - (covered - m)
          /\ covered + (y - covered) = y
      BY <1>3, <2>2
    <3>2. QED
      BY <2>2, <3>1
  <2>5. TokenInv'
    <3>1. dst_pos' = covered /\ covered' = covered + n /\ src' = src  BY <1>2, <2>1
    <3>2. token'.dist \in 1 .. dst_pos'  BY <2>3, <3>1
    <3>3. \A y \in dst_pos' .. covered' - 1 : src'[y] = src'[y - token'.dist]
      <4>1. PICK q : q = covered - m  OBVIOUS
      <4>2. \A y \in covered .. covered + n - 1 : src[y] = src[y - q]  BY <2>4, <4>1
      <4>3. token'.dist = q  BY <2>3, <4>1
      <4>4. dst_pos' .. covered' - 1 = covered .. covered + n - 1
        <5>1. covered \in Nat /\ n \in Nat  BY <1>3, <2>2
        <5>2. QED  BY <3>1, <5>1
      <4>5. QED  BY <3>1, <4>2, <4>3, <4>4, Zenon
    <3>4. QED  BY <2>3, <3>2, <3>3 DEF TokenInv
  <2>6. QED
    BY <1>1, <1>2, <1>3, <2>1, <2>2, <2>5 DEF CodecInv, OutputInv, ResultInv
<1>7. CASE Stream!CallRefused
  BY <1>1, <1>2, <1>3, <1>7 DEF Stream!CallRefused, CodecInv, OutputInv, TokenInv, ResultInv
<1>8. CASE Stream!AllDescribed
  BY <1>1, <1>2, <1>3, <1>8 DEF Stream!AllDescribed, CodecInv, OutputInv, TokenInv, ResultInv
<1>9. QED
  BY <1>1, <1>4, <1>5, <1>6, <1>7, <1>8 DEF Stream!Next

(* A byte that is output is the byte of the source at its place.           *)
LEMMA OutputStep ==
  ASSUME CodecInv, lz77_output_lit \/ OutputBackrefByte
  PROVE  CodecInv'
<1>1. dst_pos < covered /\ UNCHANGED vars /\ dst_pos' = dst_pos + 1
  BY DEF lz77_output_lit, OutputBackrefByte
<1>2. IInv'
  BY <1>1, NextIInv DEF CodecInv
<1>3. UNCHANGED <<src, len, covered, token, result>>
  BY <1>1 DEF vars, args, told
<1>4. /\ covered \in Nat /\ covered <= len /\ dst_pos \in Nat /\ len \in Nat
      /\ dst \in [0 .. len - 1 -> Byte \cup {UNINIT}] /\ src \in [0 .. len - 1 -> Byte]
      /\ \A k \in 0 .. dst_pos - 1 : dst[k] = src[k]
  BY DEF CodecInv, OutputInv, IInv, TypeOK
<1>5. dst_pos \in 0 .. len - 1 /\ src[dst_pos] \in Byte
  BY <1>1, <1>4
<1>6. dst' = [dst EXCEPT ![dst_pos] = src[dst_pos]]
  <2>1. CASE token = Stream!Literal(src[dst_pos])
    <3>1. token.call = "lit" /\ token.lit = src[dst_pos]
      BY <2>1 DEF Stream!Literal
    <3>2. QED
      BY <3>1 DEF lz77_output_lit, OutputBackrefByte
  <2>2. CASE /\ token.call = "backref" /\ token.dist \in 1 .. dst_pos
             /\ src[dst_pos] = src[dst_pos - token.dist]
    <3>1. dst[dst_pos - token.dist] = src[dst_pos - token.dist]
      BY <2>2, <1>4
    <3>2. QED
      BY <2>2, <3>1 DEF lz77_output_lit, OutputBackrefByte
  <2>3. QED
    BY <1>1, <1>4, <2>1, <2>2 DEF CodecInv, TokenInv
<1>7. OutputInv'
  BY <1>1, <1>3, <1>4, <1>5, <1>6 DEF OutputInv
<1>8. TokenInv'
  BY <1>1, <1>3, <1>4 DEF CodecInv, TokenInv
<1>9. ResultInv'
  BY <1>1, <1>3, <1>4 DEF CodecInv, ResultInv
<1>10. QED
  BY <1>2, <1>7, <1>8, <1>9 DEF CodecInv

LEMMA NextCodecInv == CodecInv /\ [CodecNext]_codecVars => CodecInv'
<1> SUFFICES ASSUME CodecInv, [CodecNext]_codecVars PROVE CodecInv'
  OBVIOUS
<1>1. CASE UNCHANGED codecVars
  <2>1. IInv'
    BY <1>1, NextIInv DEF CodecInv, codecVars
  <2>2. UNCHANGED <<src, len, covered, token, result, dst, dst_pos>>
    BY <1>1 DEF codecVars, vars, args, told, output
  <2>3. QED
    BY <2>1, <2>2 DEF CodecInv, OutputInv, TokenInv, ResultInv
<1>2. QED
  BY <1>1, CompressStep, OutputStep DEF CodecNext

(* Decompressing what lz77_compress says gives its source back (lz77.c,    *)
(* and the output functions of lz77.h).                                    *)
THEOREM Decodes == CodecSpec => []DecodedIsSource
<1>1. CodecInv => DecodedIsSource
  <2> SUFFICES ASSUME CodecInv PROVE DecodedIsSource
    OBVIOUS
  <2>1. dst_pos < covered /\ token.call = "backref" => token.dist \in 1 .. dst_pos
    BY DEF CodecInv, TokenInv, Stream!Literal
  <2>2. QED
    BY <2>1 DEF CodecInv, OutputInv, ResultInv, DecodedIsSource
<1>2. QED
  BY <1>1, InitCodecInv, NextCodecInv, PTL DEF CodecSpec
=============================================================================
