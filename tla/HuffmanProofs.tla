--------------------------- MODULE HuffmanProofs ---------------------------
(***************************************************************************)
(* Proofs about the canonical Huffman code, for every alphabet, every      *)
(* longest codeword and every width of the lookup table.                   *)
(*                                                                         *)
(* A codeword of length k stands for the Unit(k) words that start with it. *)
(* Laid out in order of length and symbol, codewords cover the words from  *)
(* 0 up without gaps: those of the lengths up to k cover the first         *)
(* Covered(k), so that the first codeword of length k is                   *)
(* Covered(k - 1) \div Unit(k), exactly.  Nothing wraps while Covered(k)   *)
(* fits in Size, and the decoder stops at the first length where it does   *)
(* not.  A word then starts with the codeword of x just when it falls into *)
(* the interval at Start(x), and the intervals are disjoint.               *)
(***************************************************************************)
EXTENDS Huffman, Sums, TLAPS


-----------------------------------------------------------------------------
(* How many words start with one codeword of length k.                     *)
Unit(k) == 2 ^ (MAX_HUFFMAN_BITS - k)
Size == 2 ^ MAX_HUFFMAN_BITS

LEMMA Sizes ==
  /\ MAX_HUFFMAN_BITS \in Nat /\ HUFFMAN_LOOKUP_TABLE_BITS \in 1 .. MAX_HUFFMAN_BITS
  /\ MAX_HUFFMAN_SYMBOLS \in Nat /\ MAX_HUFFMAN_SYMBOLS < WORD
  /\ WORD \in Nat /\ Size \in Nat \ {0} /\ WORD = 2 * Size
<1>1. MAX_HUFFMAN_BITS \in Nat  BY HuffmanAssumption DEF HuffmanAssumption
<1>2. Size \in Nat \ {0}  BY <1>1, PowerPositive DEF Size
<1>3. WORD = 2 * Size  BY <1>1, HuffmanAssumption, PowerStep DEF HuffmanAssumption, Size
<1>4. QED  BY <1>1, <1>2, <1>3, HuffmanAssumption DEF HuffmanAssumption

LEMMA Units ==
  ASSUME NEW k \in Lengths
  PROVE  /\ Unit(k) \in Nat \ {0} /\ 2 ^ k \in Nat \ {0} /\ k \in Nat
         /\ 2 ^ k * Unit(k) = Size
         /\ k # 0 => k - 1 \in Lengths /\ Unit(k - 1) = 2 * Unit(k)
         /\ k = MAX_HUFFMAN_BITS => Unit(k) = 1
<1>1. MAX_HUFFMAN_BITS \in Nat  BY Sizes
<1>2. k \in Nat /\ MAX_HUFFMAN_BITS - k \in Nat  BY <1>1 DEF Lengths
<1>3. Unit(k) \in Nat \ {0} /\ 2 ^ k \in Nat \ {0}
  BY <1>2, PowerPositive DEF Unit
<1>4. 2 ^ k * Unit(k) = Size
  <2>1. k + (MAX_HUFFMAN_BITS - k) = MAX_HUFFMAN_BITS  BY <1>1, <1>2
  <2>2. 2 ^ (k + (MAX_HUFFMAN_BITS - k)) = 2 ^ k * 2 ^ (MAX_HUFFMAN_BITS - k)
    BY <1>2, PowerOfSum
  <2>3. QED  BY <2>1, <2>2 DEF Unit, Size
<1>5. ASSUME k # 0  PROVE k - 1 \in Lengths /\ Unit(k - 1) = 2 * Unit(k)
  <2>1. MAX_HUFFMAN_BITS - (k - 1) = (MAX_HUFFMAN_BITS - k) + 1 /\ k - 1 \in Lengths
    BY <1>1, <1>2, <1>5 DEF Lengths
  <2>2. QED  BY <1>2, <2>1, PowerStep DEF Unit
<1>6. ASSUME k = MAX_HUFFMAN_BITS  PROVE Unit(k) = 1
  <2>1. MAX_HUFFMAN_BITS - k = 0  BY <1>1, <1>6
  <2>2. QED  BY <2>1, PowerZero DEF Unit
<1>7. QED  BY <1>2, <1>3, <1>4, <1>5, <1>6

(* Multiplying by a unit keeps the order.                                  *)
LEMMA Scaled ==
  ASSUME NEW a \in Nat, NEW b \in Nat, NEW u \in Nat \ {0}
  PROVE  /\ a * u = b * u => a = b
         /\ a <= b <=> a * u <= b * u
         /\ (a + b) * u = a * u + b * u
         /\ (a + 1) * u = a * u + u
         /\ a * u \in Nat
<1>1. ASSUME NEW x \in Nat, NEW y \in Nat, x < y  PROVE x * u < y * u
  <2>1. PICK d \in Nat \ {0} : y = x + d
    <3>1. y - x \in Nat \ {0} /\ y = x + (y - x)  BY <1>1
    <3>2. QED  BY <3>1
  <2>2. y * u = x * u + d * u  BY <2>1
  <2>3. d * u > 0  OBVIOUS
  <2>4. x * u \in Nat /\ d * u \in Nat  OBVIOUS
  <2>5. QED  BY <2>2, <2>3, <2>4
<1>2. a * u \in Nat /\ b * u \in Nat /\ (a + b) * u = a * u + b * u /\ (a + 1) * u = a * u + u
  OBVIOUS
<1>3. a < b => a * u < b * u  BY <1>1
<1>4. b < a => b * u < a * u  BY <1>1
<1>5. QED  BY <1>2, <1>3, <1>4

(* What a quotient says of a word.                                         *)
LEMMA FirstBits ==
  ASSUME NEW w \in Nat, NEW u \in Nat \ {0}, NEW c \in Nat
  PROVE  /\ w \div u \in Nat
         /\ w \div u = c <=> c * u <= w /\ w < c * u + u
<1>1. w \div u \in Nat /\ (w \div u) * u <= w /\ w < (w \div u) * u + u
  OBVIOUS
<1> DEFINE q == w \div u
<1>2. q \in Nat /\ q * u <= w /\ w < q * u + u  BY <1>1
<1> HIDE DEF q
<1>3. ASSUME c * u <= w, w < c * u + u  PROVE q = c
  <2>1. ASSUME q < c  PROVE FALSE
    <3>1. (q + 1) * u <= c * u /\ (q + 1) * u = q * u + u  BY <1>2, <2>1, Scaled
    <3>2. q * u \in Nat /\ c * u \in Nat  BY <1>2
    <3>3. QED  BY <1>2, <1>3, <3>1, <3>2
  <2>2. ASSUME c < q  PROVE FALSE
    <3>1. (c + 1) * u <= q * u /\ (c + 1) * u = c * u + u  BY <1>2, <2>2, Scaled
    <3>2. q * u \in Nat /\ c * u \in Nat  BY <1>2
    <3>3. QED  BY <1>2, <1>3, <3>1, <3>2
  <2>3. QED  BY <1>2, <2>1, <2>2
<1>4. QED  BY <1>2, <1>3 DEF q

-----------------------------------------------------------------------------
(* The symbols of one length, and of all lengths up to one.                *)
CodeInv == n \in 0 .. MAX_HUFFMAN_SYMBOLS /\ lengths \in [Symbols -> Lengths]
OfLength(k) == {x \in Symbols : lengths[x] = k}
UpTo(k) == {x \in Symbols : lengths[x] \in 1 .. k}
Share == [x \in Symbols |-> Unit(lengths[x])]

LEMMA SymbolSets ==
  ASSUME CodeInv
  PROVE  /\ IsFiniteSet(Symbols) /\ Cardinality(Symbols) = n
         /\ \A k : IsFiniteSet(OfLength(k)) /\ Cardinality(OfLength(k)) \in Nat
         /\ \A k : IsFiniteSet(UpTo(k)) /\ Cardinality(UpTo(k)) \in 0 .. n
         /\ n \in Nat
<1>1. n \in Nat  BY Sizes DEF CodeInv
<1>2. IsFiniteSet(Symbols) /\ Cardinality(Symbols) = n
  <2>1. IsFiniteSet(0 .. n - 1) /\ Cardinality(0 .. n - 1) = IF 0 > n - 1 THEN 0 ELSE n - 1 - 0 + 1
    BY <1>1, FS_Interval
  <2>2. QED  BY <1>1, <2>1 DEF Symbols
<1>3. \A S \in SUBSET Symbols : IsFiniteSet(S) /\ Cardinality(S) \in Nat /\ Cardinality(S) <= n
  BY <1>2, FS_Subset, FS_CardinalityType
<1>4. \A k : OfLength(k) \in SUBSET Symbols /\ UpTo(k) \in SUBSET Symbols  BY DEF OfLength, UpTo
<1>5. QED  BY <1>1, <1>2, <1>3, <1>4

LEMMA CountIs ==
  ASSUME CodeInv, NEW k \in Lengths
  PROVE  /\ count(k) \in Nat
         /\ k # 0 => count(k) = Cardinality(OfLength(k))
         /\ k = 0 => count(k) = 0
BY SymbolSets DEF count, OfLength

LEMMA Shares ==
  ASSUME CodeInv
  PROVE  /\ \A x \in Symbols : Share[x] = Unit(lengths[x]) /\ Share[x] \in Nat
         /\ \A k : Covered(k) = SumFunctionOnSet(Share, UpTo(k))
<1>1. \A x \in Symbols : Unit(lengths[x]) \in Nat  BY Units DEF CodeInv
<1>2. QED  BY <1>1 DEF Share, Covered, UpTo, Unit

LEMMA NothingCovered ==
  ASSUME CodeInv  PROVE Covered(0) = 0 /\ Covered(-1) = 0
<1>1. UpTo(0) = {} /\ UpTo(-1) = {}  BY DEF UpTo
<1>2. QED  BY <1>1, Shares, SumEmpty

(* The words that one more length covers.                                  *)
LEMMA CoveredNext ==
  ASSUME CodeInv, NEW k \in Lengths
  PROVE  /\ Covered(k) = Covered(k - 1) + count(k) * Unit(k)
         /\ Covered(k) \in Nat /\ Covered(k - 1) \in Nat
<1>1. \A j : Covered(j) \in Nat
  <2>1. \A j : UpTo(j) \subseteq Symbols  BY DEF UpTo
  <2>2. ASSUME NEW j  PROVE Covered(j) \in Nat
    <3>1. IsFiniteSet(UpTo(j)) /\ \A x \in UpTo(j) : Share[x] \in Nat  BY <2>1, SymbolSets, Shares
    <3>2. SumFunctionOnSet(Share, UpTo(j)) \in Nat  BY <3>1, SumNat
    <3>3. QED  BY <3>2, Shares
  <2>3. QED  BY <2>2
<1>2. CASE k = 0
  <2>1. count(k) = 0 /\ k - 1 = -1  BY <1>2, CountIs
  <2>2. Unit(k) \in Nat  BY Units
  <2>3. count(k) * Unit(k) = 0  BY <2>1, <2>2
  <2>4. QED  BY <1>1, <1>2, <2>1, <2>3, NothingCovered
<1>3. CASE k # 0
  <2>1. k \in Nat \ {0}  BY <1>3, Units
  <2>2. UpTo(k) = UpTo(k - 1) \cup OfLength(k) /\ UpTo(k - 1) \cap OfLength(k) = {}
    BY <2>1, Units DEF UpTo, OfLength, CodeInv, Lengths
  <2>3. /\ \A x \in UpTo(k - 1) \cup OfLength(k) : Share[x] \in Int
        /\ \A x \in OfLength(k) : Share[x] = Unit(k)
    BY Shares DEF UpTo, OfLength
  <2>4. IsFiniteSet(UpTo(k - 1)) /\ IsFiniteSet(OfLength(k))  BY SymbolSets
  <2> DEFINE A == UpTo(k - 1)
             B == OfLength(k)
  <2> HIDE DEF A, B
  <2>5. SumFunctionOnSet(Share, A \cup B) = SumFunctionOnSet(Share, A) + SumFunctionOnSet(Share, B)
    BY <2>2, <2>3, <2>4, SumOfParts DEF A, B
  <2>6. SumFunctionOnSet(Share, B) = Cardinality(B) * Unit(k)
    <3>1. Unit(k) \in Nat  BY Units
    <3>2. QED  BY <2>3, <2>4, <3>1, SumOfEqual DEF B
  <2>7. count(k) = Cardinality(B)  BY <1>3, CountIs DEF B
  <2>8. Covered(k) = SumFunctionOnSet(Share, A \cup B) /\ Covered(k - 1) = SumFunctionOnSet(Share, A)
    BY <2>2, Shares DEF A, B
  <2>9. QED  BY <1>1, <2>5, <2>6, <2>7, <2>8
<1>4. QED  BY <1>2, <1>3

LEMMA CoveredGrows ==
  ASSUME CodeInv, NEW k \in Lengths, NEW m \in Lengths, k <= m
  PROVE  Covered(k) <= Covered(m)
<1>1. UpTo(k) \subseteq UpTo(m) /\ UpTo(m) \subseteq Symbols
  BY DEF UpTo, Lengths
<1>2. IsFiniteSet(UpTo(m)) /\ \A x \in UpTo(m) : Share[x] \in Nat  BY <1>1, SymbolSets, Shares
<1>3. SumFunctionOnSet(Share, UpTo(k)) <= SumFunctionOnSet(Share, UpTo(m))  BY <1>1, <1>2, SumOfPart
<1>4. QED  BY <1>3, Shares

(* The first codeword of a length: it begins where the shorter ones end.   *)
FirstAt(k) == Covered(k - 1) \div Unit(k)

LEMMA FirstIs ==
  ASSUME CodeInv, NEW k \in Lengths
  PROVE  FirstAt(k) \in Nat /\ FirstAt(k) * Unit(k) = Covered(k - 1)
<1> DEFINE Good(j) == \E c \in Nat : c * Unit(j) = Covered(j - 1)
           Bad == {j \in Lengths : ~ Good(j)}
<1>1. ASSUME Bad # {}  PROVE FALSE
  <2>1. PICK j \in Bad : \A x \in Bad : j <= x
    <3>1. Bad \subseteq Nat  BY Sizes DEF Lengths
    <3> HIDE DEF Bad
    <3>2. QED  BY <1>1, <3>1, LeastNumber
  <2>2. j \in Lengths /\ ~ Good(j)  OBVIOUS
  <2>3. CASE j = 0
    <3>1. 0 * Unit(j) = 0  BY <2>2, Units
    <3>2. j - 1 = -1 /\ Covered(j - 1) = 0  BY <2>3, NothingCovered
    <3>3. QED  BY <2>2, <3>1, <3>2
  <2>4. CASE j # 0
    <3>1. j - 1 \in Lengths /\ Unit(j - 1) = 2 * Unit(j) /\ Unit(j) \in Nat \ {0} /\ j \in Nat
      BY <2>2, <2>4, Units
    <3>2. j - 1 \notin Bad
      <4> HIDE DEF Bad
      <4>1. ~ (j <= j - 1)  BY <3>1
      <4>2. QED  BY <2>1, <4>1
    <3>3. PICK c \in Nat : c * Unit(j - 1) = Covered((j - 1) - 1)  BY <3>1, <3>2
    <3>4. Covered(j - 1) = Covered((j - 1) - 1) + count(j - 1) * Unit(j - 1) /\ count(j - 1) \in Nat
      BY <3>1, CoveredNext, CountIs
    <3>5. PICK u \in Nat \ {0}, m \in Nat : u = Unit(j) /\ m = count(j - 1)  BY <3>1, <3>4
    <3>6. Covered(j - 1) = c * (2 * u) + m * (2 * u)  BY <3>1, <3>3, <3>4, <3>5
    <3>7. c * (2 * u) + m * (2 * u) = (2 * (c + m)) * u /\ 2 * (c + m) \in Nat  OBVIOUS
    <3>8. Good(j)  BY <3>5, <3>6, <3>7
    <3>9. QED  BY <2>2, <3>8
  <2>5. QED  BY <2>3, <2>4
<1>2. Good(k)  BY <1>1
<1>3. PICK c \in Nat, u \in Nat \ {0} : c * Unit(k) = Covered(k - 1) /\ u = Unit(k)
  BY <1>2, Units
<1>4. c * u \in Nat  BY Scaled
<1>5. c * u <= c * u /\ c * u < c * u + u  BY <1>4
<1>6. (c * u) \div u = c
  <2> DEFINE w == c * u
  <2>1. w \in Nat /\ c * u <= w /\ w < c * u + u  BY <1>4, <1>5
  <2> HIDE DEF w
  <2>2. w \div u = c  BY <2>1, FirstBits
  <2>3. QED  BY <2>2 DEF w
<1>7. QED  BY <1>3, <1>6 DEF FirstAt

LEMMA FirstNext ==
  ASSUME CodeInv, NEW k \in Lengths
  PROVE  /\ k = 0 => FirstAt(k) = 0
         /\ k # 0 => FirstAt(k) = (FirstAt(k - 1) + count(k - 1)) * 2
         /\ (FirstAt(k) + count(k)) * Unit(k) = Covered(k)
         /\ Covered(k) <= Size <=> FirstAt(k) + count(k) <= 2 ^ k
         /\ Covered(k - 1) <= Size <=> FirstAt(k) <= 2 ^ k
         /\ 2 ^ k <= Size /\ FirstAt(k) + count(k) \in Nat
<1>1. PICK u \in Nat \ {0}, f \in Nat, m \in Nat, t \in Nat \ {0} :
        u = Unit(k) /\ f = FirstAt(k) /\ m = count(k) /\ t = 2 ^ k
  BY Units, FirstIs, CountIs
<1>2. f * u = Covered(k - 1) /\ Covered(k) = Covered(k - 1) + m * u /\ t * u = Size
      /\ Covered(k - 1) \in Nat
  BY <1>1, FirstIs, CoveredNext, Units
<1>3. (f + m) * u = Covered(k)  BY <1>1, <1>2, Scaled
<1>4. Covered(k) <= Size <=> f + m <= t
  <2>1. f + m \in Nat  OBVIOUS
  <2>2. (f + m) * u <= t * u <=> f + m <= t  BY <2>1, Scaled
  <2>3. QED  BY <1>2, <1>3, <2>2
<1>5. Covered(k - 1) <= Size <=> f <= t
  <2>1. f * u <= t * u <=> f <= t  BY Scaled
  <2>2. QED  BY <1>2, <2>1
<1>6. t <= Size
  <2>1. 1 <= u /\ t * 1 = t  OBVIOUS
  <2>2. 1 * t <= u * t  BY <2>1, Scaled
  <2>3. 1 * t = t /\ u * t = t * u  OBVIOUS
  <2>4. QED  BY <1>2, <2>2, <2>3
<1>7. ASSUME k = 0  PROVE f = 0
  <2>1. Covered(k - 1) = 0
    <3>1. k - 1 = -1  BY <1>7
    <3>2. QED  BY <3>1, NothingCovered
  <2>2. f * u = 0 * u /\ 0 \in Nat  BY <1>2, <2>1
  <2>3. QED  BY <2>2, Scaled
<1>8. ASSUME k # 0  PROVE f = (FirstAt(k - 1) + count(k - 1)) * 2
  <2>1. k - 1 \in Lengths /\ Unit(k - 1) = 2 * u  BY <1>1, <1>8, Units
  <2>2. PICK g \in Nat, c \in Nat : g = FirstAt(k - 1) /\ c = count(k - 1)
    BY <2>1, FirstIs, CountIs
  <2>3. g * (2 * u) = Covered((k - 1) - 1)  BY <2>1, <2>2, FirstIs
  <2>4. Covered(k - 1) = Covered((k - 1) - 1) + c * (2 * u)  BY <2>1, <2>2, CoveredNext
  <2>5. g * (2 * u) + c * (2 * u) = ((g + c) * 2) * u /\ (g + c) * 2 \in Nat  OBVIOUS
  <2>6. f * u = ((g + c) * 2) * u  BY <1>2, <2>3, <2>4, <2>5
  <2> DEFINE d == (g + c) * 2
  <2>7. d \in Nat /\ f * u = d * u  BY <2>5, <2>6
  <2> HIDE DEF d
  <2>8. f = d  BY <2>7, Scaled
  <2>9. QED  BY <2>2, <2>8 DEF d
<1>9. QED  BY <1>1, <1>3, <1>4, <1>5, <1>6, <1>7, <1>8

-----------------------------------------------------------------------------
(* How many of the first j symbols have length k.                          *)
RankUpto(k, j) == Cardinality({y \in 0 .. j - 1 : lengths[y] = k})
Rank(x) == RankUpto(lengths[x], x)

LEMMA Ranks ==
  ASSUME CodeInv, NEW k, NEW j \in 0 .. n
  PROVE  /\ RankUpto(k, j) \in Nat /\ RankUpto(k, j) <= Cardinality(OfLength(k))
         /\ j = 0 => RankUpto(k, j) = 0
         /\ j = n => RankUpto(k, j) = Cardinality(OfLength(k))
         /\ j < n => RankUpto(k, j + 1) = RankUpto(k, j) + (IF lengths[j] = k THEN 1 ELSE 0)
<1> DEFINE S(m) == {y \in 0 .. m - 1 : lengths[y] = k}
<1>1. n \in Nat /\ IsFiniteSet(OfLength(k))  BY SymbolSets
<1>2. S(j) \subseteq OfLength(k) /\ (j = n => S(j) = OfLength(k)) /\ (j = 0 => S(j) = {})
  BY <1>1 DEF OfLength, Symbols
<1>3. IsFiniteSet(S(j)) /\ Cardinality(S(j)) \in Nat /\ Cardinality(S(j)) <= Cardinality(OfLength(k))
  BY <1>1, <1>2, FS_Subset, FS_CardinalityType
<1>4. ASSUME j < n  PROVE Cardinality(S(j + 1)) = Cardinality(S(j)) + (IF lengths[j] = k THEN 1 ELSE 0)
  <2>1. j \notin S(j) /\ S(j + 1) = IF lengths[j] = k THEN S(j) \cup {j} ELSE S(j)
    BY <1>1, <1>4
  <2>2. IsFiniteSet(S(j)) /\ Cardinality(S(j)) \in Nat  BY <1>3
  <2> DEFINE A == S(j)
             B == S(j + 1)
  <2>3. j \notin A /\ IsFiniteSet(A) /\ B = (IF lengths[j] = k THEN A \cup {j} ELSE A)
        /\ Cardinality(A) \in Nat
    BY <2>1, <2>2
  <2> HIDE DEF A, B
  <2>4. CASE lengths[j] = k
    <3>1. B = A \cup {j}  BY <2>3, <2>4
    <3>2. Cardinality(A \cup {j}) = Cardinality(A) + 1  BY <2>3, FS_AddElement
    <3>3. Cardinality(B) = Cardinality(A) + 1  BY <3>1, <3>2
    <3>4. QED  BY <2>4, <3>3 DEF A, B
  <2>5. CASE lengths[j] # k
    <3>1. Cardinality(B) = Cardinality(A) + 0  BY <2>3, <2>5
    <3>2. QED  BY <2>5, <3>1 DEF A, B
  <2>6. QED  BY <2>4, <2>5
<1>5. j = 0 => Cardinality(S(j)) = 0  BY <1>2, FS_EmptySet
<1>6. QED  BY <1>2, <1>3, <1>4, <1>5 DEF RankUpto

LEMMA RankBelow ==
  ASSUME CodeInv, NEW x \in Symbols, NEW j \in 0 .. n, x < j
  PROVE  Rank(x) < RankUpto(lengths[x], j) /\ Rank(x) \in Nat
<1> DEFINE k == lengths[x]
           A == {y \in 0 .. x - 1 : lengths[y] = k}
           B == {y \in 0 .. j - 1 : lengths[y] = k}
<1>1. n \in Nat /\ x \in 0 .. n /\ x < n /\ x \in Nat  BY SymbolSets DEF Symbols
<1>2. RankUpto(k, x) \in Nat /\ RankUpto(k, x + 1) = RankUpto(k, x) + 1  BY <1>1, Ranks
<1>3. {y \in 0 .. (x + 1) - 1 : lengths[y] = k} \subseteq B  BY <1>1
<1>4. B \subseteq OfLength(k) /\ IsFiniteSet(OfLength(k))
  <2>1. \A y \in 0 .. j - 1 : y \in Symbols  BY <1>1 DEF Symbols
  <2>2. B \subseteq OfLength(k)  BY <2>1 DEF OfLength
  <2>3. QED  BY <2>2, SymbolSets
<1>5. IsFiniteSet(B)  BY <1>4, FS_Subset
<1>6. RankUpto(k, x + 1) <= RankUpto(k, j)  BY <1>3, <1>5, FS_Subset DEF RankUpto
<1>7. RankUpto(k, j) \in Nat  BY Ranks
<1>8. QED  BY <1>2, <1>6, <1>7 DEF Rank

LEMMA RankInCount ==
  ASSUME CodeInv, NEW x \in Symbols, lengths[x] # 0
  PROVE  Rank(x) \in Nat /\ Rank(x) < count(lengths[x]) /\ lengths[x] \in Lengths
<1>1. n \in Nat /\ n \in 0 .. n /\ x < n  BY SymbolSets DEF Symbols
<1>2. Rank(x) < RankUpto(lengths[x], n) /\ Rank(x) \in Nat  BY <1>1, RankBelow
<1>3. lengths[x] \in Lengths  BY DEF CodeInv
<1>4. QED  BY <1>1, <1>2, <1>3, Ranks, CountIs

(* Symbols of a length have all ranks, each once.                          *)
LEMMA RankFound ==
  ASSUME CodeInv, NEW k \in Lengths, NEW r \in 0 .. count(k) - 1
  PROVE  \E x \in Symbols : lengths[x] = k /\ k # 0 /\ Rank(x) = r
<1> DEFINE S == OfLength(k)
           m == count(k)
           R == 0 .. m - 1
           f == [x \in S |-> Rank(x)]
<1>1. m \in Nat /\ k # 0 /\ m = Cardinality(S)  BY CountIs
<1>2. \A x \in S : x \in Symbols /\ lengths[x] = k /\ x \in Nat  BY SymbolSets DEF OfLength, Symbols
<1>3. \A x \in S : Rank(x) \in R  BY <1>1, <1>2, RankInCount
<1>4. ASSUME NEW x \in S, NEW y \in S, x < y  PROVE Rank(x) < Rank(y) /\ Rank(x) \in Nat /\ Rank(y) \in Nat
  <2>1. y \in 0 .. n  BY SymbolSets DEF OfLength, Symbols
  <2>2. Rank(x) < RankUpto(lengths[x], y)  BY <1>2, <1>4, <2>1, RankBelow
  <2>3. Rank(y) = RankUpto(lengths[x], y)  BY <1>2 DEF Rank
  <2>4. QED  BY <1>1, <1>3, <2>2, <2>3
<1>5. ASSUME NEW x \in S, NEW y \in S, x # y  PROVE Rank(x) # Rank(y)
  <2>1. x < y \/ y < x  BY <1>2, <1>5
  <2>2. QED  BY <1>4, <2>1
<1>6. f \in Injection(S, R)
  <2>1. f \in [S -> R]  BY <1>3
  <2>2. \A x, y \in S : x # y => f[x] # f[y]  BY <1>5
  <2> HIDE DEF f, R, S
  <2>3. QED  BY <2>1, <2>2 DEF Injection, IsInjective
<1>7. IsFiniteSet(R) /\ Cardinality(R) = m
  <2>1. 0 \in Int /\ m - 1 \in Int  BY <1>1
  <2>2. IsFiniteSet(0 .. m - 1) /\ Cardinality(0 .. m - 1) = IF 0 > m - 1 THEN 0 ELSE (m - 1) - 0 + 1
    BY <2>1, FS_Interval
  <2>3. QED  BY <1>1, <2>2
<1>8. r \in R  OBVIOUS
<1>9. f \in Surjection(S, R)
  <2> HIDE DEF f, R, S, m
  <2>1. QED  BY <1>1, <1>6, <1>7, FS_Injection
<1>10. \E x \in S : f[x] = r
  <2> HIDE DEF f, R, S
  <2>1. QED  BY <1>8, <1>9 DEF Surjection
<1>11. QED  BY <1>1, <1>2, <1>10

-----------------------------------------------------------------------------
(* The words that start with the codeword of a symbol.                     *)
Start(x) == (FirstAt(lengths[x]) + Rank(x)) * Unit(lengths[x])
Starts(w, x) == lengths[x] # 0 /\ Start(x) <= w /\ w < Start(x) + Unit(lengths[x])

LEMMA StartPlace ==
  ASSUME CodeInv, NEW x \in Symbols, lengths[x] # 0
  PROVE  /\ Start(x) \in Nat /\ Unit(lengths[x]) \in Nat \ {0}
         /\ Covered(lengths[x] - 1) <= Start(x)
         /\ Start(x) + Unit(lengths[x]) <= Covered(lengths[x])
         /\ Start(x) = Covered(lengths[x] - 1) + Rank(x) * Unit(lengths[x])
<1>1. lengths[x] \in Lengths /\ Rank(x) \in Nat /\ Rank(x) < count(lengths[x])  BY RankInCount
<1>2. PICK k \in Lengths : k = lengths[x]  BY <1>1
<1>3. PICK u \in Nat \ {0}, f \in Nat, m \in Nat, r \in Nat :
        u = Unit(k) /\ f = FirstAt(k) /\ m = count(k) /\ r = Rank(x)
  BY <1>1, Units, FirstIs, CountIs
<1>4. f * u = Covered(k - 1) /\ (f + m) * u = Covered(k)  BY <1>3, FirstIs, FirstNext
<1>5. (f + r) * u = f * u + r * u /\ (f + r) * u \in Nat  BY <1>3, Scaled
<1>6. f * u <= (f + r) * u /\ f * u \in Nat  BY <1>3, Scaled
<1>7. (f + r) * u + u <= (f + m) * u
  <2>1. f + r \in Nat /\ f + m \in Nat /\ f + r + 1 <= f + m  BY <1>1, <1>2, <1>3
  <2>2. ((f + r) + 1) * u = (f + r) * u + u  BY <2>1, Scaled
  <2>3. (f + r) + 1 \in Nat  BY <2>1
  <2>4. ((f + r) + 1) * u <= (f + m) * u  BY <2>1, <2>3, Scaled
  <2>5. QED  BY <2>2, <2>4
<1>8. Start(x) = (f + r) * u  BY <1>2, <1>3 DEF Start
<1>9. QED  BY <1>2, <1>3, <1>4, <1>5, <1>6, <1>7, <1>8

(* No word starts with two codewords.                                      *)
LEMMA OnlyOne ==
  ASSUME CodeInv, NEW w \in Nat, NEW x \in Symbols, NEW y \in Symbols, Starts(w, x), Starts(w, y)
  PROVE  x = y
<1>1. ASSUME NEW s \in Symbols, NEW t \in Symbols, Starts(w, s), Starts(w, t), lengths[s] < lengths[t]
      PROVE  FALSE
  <2>1. /\ lengths[s] # 0 /\ lengths[t] # 0 /\ w < Start(s) + Unit(lengths[s]) /\ Start(t) <= w
        /\ lengths[s] \in Lengths /\ lengths[t] \in Lengths
    BY <1>1 DEF Starts, CodeInv
  <2>2. Start(s) + Unit(lengths[s]) <= Covered(lengths[s]) /\ Covered(lengths[t] - 1) <= Start(t)
        /\ Start(s) \in Nat /\ Start(t) \in Nat /\ Unit(lengths[s]) \in Nat
    BY <2>1, StartPlace
  <2>3. lengths[t] - 1 \in Lengths /\ lengths[s] <= lengths[t] - 1
    BY <1>1, <2>1, Units
  <2>4. Covered(lengths[s]) <= Covered(lengths[t] - 1)  BY <2>1, <2>3, CoveredGrows
  <2>5. Covered(lengths[s]) \in Nat /\ Covered(lengths[t] - 1) \in Nat  BY <2>1, <2>3, CoveredNext
  <2>6. QED  BY <2>1, <2>2, <2>4, <2>5
<1>2. ASSUME NEW s \in Symbols, NEW t \in Symbols, Starts(w, s), Starts(w, t),
             lengths[s] = lengths[t], s < t
      PROVE  FALSE
  <2>1. /\ lengths[s] # 0 /\ w < Start(s) + Unit(lengths[s]) /\ Start(t) <= w
    BY <1>2 DEF Starts
  <2>2. PICK k : k = lengths[s] /\ k = lengths[t]  BY <1>2
  <2>3. PICK u \in Nat \ {0}, r \in Nat, q \in Nat :
          u = Unit(k) /\ r = Rank(s) /\ q = Rank(t)
    BY <1>2, <2>1, <2>2, StartPlace, RankInCount
  <2>4. r + 1 <= q
    <3>1. t \in 0 .. n  BY SymbolSets DEF Symbols
    <3>2. Rank(s) < RankUpto(lengths[s], t)  BY <1>2, <3>1, RankBelow
    <3>3. QED  BY <1>2, <2>3, <3>2 DEF Rank
  <2>5. /\ Start(s) = Covered(k - 1) + r * u /\ Start(t) = Covered(k - 1) + q * u
        /\ Start(s) \in Nat /\ Start(t) \in Nat
    BY <1>2, <2>1, <2>2, <2>3, StartPlace
  <2>6. (r + 1) * u <= q * u /\ (r + 1) * u = r * u + u /\ r * u \in Nat /\ q * u \in Nat
    BY <2>3, <2>4, Scaled
  <2>7. Covered(k - 1) \in Nat
    <3>1. k \in Lengths  BY <2>2 DEF CodeInv
    <3>2. QED  BY <3>1, CoveredNext
  <2>8. QED  BY <2>1, <2>2, <2>3, <2>5, <2>6, <2>7
<1>3. lengths[x] \in Nat /\ lengths[y] \in Nat /\ x \in Nat /\ y \in Nat
  BY SymbolSets, Sizes DEF CodeInv, Lengths, Symbols
<1>4. QED  BY <1>1, <1>2, <1>3

(* Every covered word starts with one.                                     *)
LEMMA SomeLength ==
  ASSUME CodeInv, NEW w \in Nat, NEW m \in Lengths, w < Covered(m)
  PROVE  \E k \in 1 .. m : Covered(k - 1) <= w /\ w < Covered(k)
<1> DEFINE Above == {k \in Lengths : w < Covered(k)}
<1>1. PICK k \in Above : \A x \in Above : k <= x
  <2>1. Above \subseteq Nat /\ m \in Above  BY Sizes DEF Lengths
  <2> HIDE DEF Above
  <2>2. QED  BY <2>1, LeastNumber
<1>2. k \in Lengths /\ w < Covered(k) /\ k <= m  BY <1>1
<1>3. k # 0 /\ k \in Nat
  <2>1. Covered(0) = 0 /\ k \in Nat  BY <1>2, NothingCovered, Units
  <2>2. ASSUME k = 0  PROVE FALSE  BY <1>2, <2>1, <2>2
  <2>3. QED  BY <2>1, <2>2
<1>4. k - 1 \in Lengths /\ Covered(k - 1) \in Nat  BY <1>2, <1>3, Units, CoveredNext
<1>5. ~ (w < Covered(k - 1))
  <2>1. ASSUME w < Covered(k - 1)  PROVE FALSE
    <3>1. k - 1 \in Above  BY <1>4, <2>1
    <3> HIDE DEF Above
    <3>2. k <= k - 1  BY <1>1, <3>1
    <3>3. QED  BY <1>3, <3>2
  <2>2. QED  BY <2>1
<1>6. k \in 1 .. m /\ m \in Nat  BY <1>2, <1>3, Units
<1>7. QED  BY <1>2, <1>4, <1>5, <1>6

LEMMA CoveredStarts ==
  ASSUME CodeInv, NEW w \in Nat, NEW k \in Lengths, Covered(k - 1) <= w, w < Covered(k)
  PROVE  \E x \in Symbols : /\ lengths[x] = k /\ Starts(w, x)
                            /\ w \div Unit(k) = FirstAt(k) + Rank(x)
<1>1. PICK u \in Nat \ {0}, f \in Nat, m \in Nat :
        u = Unit(k) /\ f = FirstAt(k) /\ m = count(k)
  BY Units, FirstIs, CountIs
<1>2. f * u = Covered(k - 1) /\ (f + m) * u = Covered(k)  BY <1>1, FirstIs, FirstNext
<1>3. PICK q \in Nat : q = w \div u /\ q * u <= w /\ w < q * u + u
  <2>1. w \div u \in Nat  BY FirstBits
  <2>2. QED  BY <2>1, FirstBits
<1>4. f <= q
  <2>1. ASSUME q < f  PROVE FALSE
    <3>1. (q + 1) * u <= f * u /\ (q + 1) * u = q * u + u /\ f * u \in Nat /\ q * u \in Nat
      BY <2>1, Scaled
    <3>2. QED  BY <1>2, <1>3, <3>1
  <2>2. QED  BY <2>1
<1>5. q < f + m
  <2>1. ASSUME f + m <= q  PROVE FALSE
    <3>1. f + m \in Nat  OBVIOUS
    <3>2. (f + m) * u <= q * u /\ (f + m) * u \in Nat /\ q * u \in Nat  BY <2>1, <3>1, Scaled
    <3>3. QED  BY <1>2, <1>3, <3>2
  <2>2. QED  BY <2>1
<1>6. q - f \in 0 .. count(k) - 1  BY <1>1, <1>4, <1>5
<1>7. PICK x \in Symbols : lengths[x] = k /\ k # 0 /\ Rank(x) = q - f  BY <1>6, RankFound
<1>8. f + (q - f) = q  OBVIOUS
<1>9. FirstAt(k) + Rank(x) = q  BY <1>1, <1>7, <1>8
<1>10. Start(x) = q * u  BY <1>1, <1>7, <1>9 DEF Start
<1>11. Starts(w, x)  BY <1>1, <1>3, <1>7, <1>10 DEF Starts
<1>12. QED  BY <1>1, <1>3, <1>7, <1>9, <1>11

-----------------------------------------------------------------------------
(* What a code with room for all its codewords is like: no wrapping.       *)
Fits == Covered(MAX_HUFFMAN_BITS) <= Size

LEMMA NoWrap ==
  ASSUME NEW v \in Nat, v < WORD  PROVE uint16(v) = v
BY Sizes DEF uint16

LEMMA CoveredFits ==
  ASSUME CodeInv, Fits, NEW k \in Lengths
  PROVE  Covered(k) <= Size /\ Covered(k - 1) <= Size
<1>1. MAX_HUFFMAN_BITS \in Lengths /\ k <= MAX_HUFFMAN_BITS  BY Sizes DEF Lengths
<1>2. Covered(k) <= Covered(MAX_HUFFMAN_BITS)  BY <1>1, CoveredGrows
<1>3. Covered(k) \in Nat /\ Covered(MAX_HUFFMAN_BITS) \in Nat /\ Covered(k - 1) \in Nat
      /\ Covered(k) = Covered(k - 1) + count(k) * Unit(k)
  BY <1>1, CoveredNext
<1>4. count(k) * Unit(k) \in Nat
  <2>1. count(k) \in Nat /\ Unit(k) \in Nat \ {0}  BY CountIs, Units
  <2>2. QED  BY <2>1, Scaled
<1>5. QED  BY <1>2, <1>3, <1>4, Sizes DEF Fits

(* The codewords of the encoder.                                           *)
LEMMA FirstCodeIs ==
  ASSUME CodeInv, Fits, NEW k \in Lengths
  PROVE  FirstCode[k] = FirstAt(k)
<1> DEFINE After(g, j) == IF j = 0 THEN 0 ELSE uint16((g[j - 1] + count(j - 1)) * 2)
           f == [j \in Lengths |-> FirstAt(j)]
<1>1. ASSUME NEW j \in Lengths  PROVE After(f, j) = FirstAt(j)
  <2>1. CASE j = 0  BY <2>1, FirstNext
  <2>2. CASE j # 0
    <3>1. j - 1 \in Lengths  BY <2>2, Units
    <3>2. FirstAt(j) = (FirstAt(j - 1) + count(j - 1)) * 2  BY <2>2, FirstNext
    <3>3. FirstAt(j) <= 2 ^ j /\ 2 ^ j <= Size /\ 2 ^ j \in Nat /\ FirstAt(j) \in Nat
      BY CoveredFits, FirstNext, FirstIs, Units
    <3>4. FirstAt(j) < WORD  BY <3>3, Sizes
    <3>5. uint16(FirstAt(j)) = FirstAt(j)  BY <3>3, <3>4, NoWrap
    <3>6. QED  BY <2>2, <3>1, <3>2, <3>5
  <2>3. QED  BY <2>1, <2>2
<1>2. f = [j \in Lengths |-> After(f, j)]  BY <1>1
<1>3. \E g : g = [j \in Lengths |-> After(g, j)]
  <2> HIDE DEF f
  <2>1. QED  BY <1>2
<1>4. FirstCode = [j \in Lengths |-> After(FirstCode, j)]
  BY <1>3 DEF FirstCode
<1> DEFINE Bad == {j \in Lengths : FirstCode[j] # FirstAt(j)}
<1>5. ASSUME Bad # {}  PROVE FALSE
  <2>1. PICK j \in Bad : \A x \in Bad : j <= x
    <3>1. Bad \subseteq Nat  BY Sizes DEF Lengths
    <3> HIDE DEF Bad
    <3>2. QED  BY <1>5, <3>1, LeastNumber
  <2>2. j \in Lengths /\ FirstCode[j] # FirstAt(j)  OBVIOUS
  <2>3. FirstCode[j] = After(FirstCode, j)  BY <1>4, <2>2
  <2>4. j # 0
    <3>1. ASSUME j = 0  PROVE FALSE
      <4>1. FirstCode[j] = 0 /\ FirstAt(j) = 0  BY <2>2, <2>3, <3>1, FirstNext
      <4>2. QED  BY <2>2, <4>1
    <3>2. QED  BY <3>1
  <2>5. j - 1 \in Lengths /\ j \in Nat  BY <2>2, <2>4, Units
  <2>6. j - 1 \notin Bad
    <3> HIDE DEF Bad
    <3>1. ~ (j <= j - 1)  BY <2>5
    <3>2. QED  BY <2>1, <3>1
  <2>7. FirstCode[j - 1] = f[j - 1]  BY <2>5, <2>6
  <2>8. After(FirstCode, j) = After(f, j)  BY <2>7
  <2>9. QED  BY <1>1, <2>2, <2>3, <2>8
<1>6. QED  BY <1>5

LEMMA CodewordIs ==
  ASSUME CodeInv, Fits, NEW x \in Symbols, lengths[x] # 0
  PROVE  codeword(x) = FirstAt(lengths[x]) + Rank(x) /\ FirstAt(lengths[x]) + Rank(x) \in Nat
<1>1. lengths[x] \in Lengths /\ Rank(x) \in Nat /\ Rank(x) < count(lengths[x])  BY RankInCount
<1>2. PICK k \in Lengths : k = lengths[x]  BY <1>1
<1>3. PICK f \in Nat, m \in Nat, t \in Nat : f = FirstAt(k) /\ m = count(k) /\ t = 2 ^ k
  BY FirstIs, CountIs, Units
<1>4. f + m <= t /\ t <= Size  BY <1>3, CoveredFits, FirstNext
<1>5. f + Rank(x) \in Nat /\ f + Rank(x) < WORD  BY <1>1, <1>2, <1>3, <1>4, Sizes
<1>6. codeword(x) = uint16(f + Rank(x))
  <2>1. FirstCode[lengths[x]] = f  BY <1>2, <1>3, FirstCodeIs
  <2>2. QED  BY <2>1 DEF codeword, Rank, RankUpto
<1>7. QED  BY <1>2, <1>3, <1>5, <1>6, NoWrap

LEMMA StartsIs ==
  ASSUME CodeInv, Fits, NEW w \in Nat, NEW x \in Symbols, lengths[x] # 0
  PROVE  Starts(w, x) <=> First(w, lengths[x], MAX_HUFFMAN_BITS) = codeword(x)
<1>1. lengths[x] \in Lengths  BY DEF CodeInv
<1>2. PICK u \in Nat \ {0}, c \in Nat :
        u = Unit(lengths[x]) /\ c = FirstAt(lengths[x]) + Rank(x) /\ c = codeword(x)
  BY <1>1, Units, CodewordIs
<1>3. First(w, lengths[x], MAX_HUFFMAN_BITS) = w \div u  BY <1>2 DEF First, Unit
<1>4. Start(x) = c * u  BY <1>2 DEF Start
<1>5. Starts(w, x) <=> c * u <= w /\ w < c * u + u  BY <1>2, <1>4 DEF Starts
<1>6. w \div u = c <=> c * u <= w /\ w < c * u + u  BY FirstBits
<1>7. QED  BY <1>2, <1>3, <1>5, <1>6

-----------------------------------------------------------------------------
(* The indices of the lookup table.                                        *)
Indices == 0 .. 2 ^ HUFFMAN_LOOKUP_TABLE_BITS - 1
InTable(y, x) ==
  /\ lengths[x] \in 1 .. HUFFMAN_LOOKUP_TABLE_BITS
  /\ First(y, lengths[x], HUFFMAN_LOOKUP_TABLE_BITS) = FirstAt(lengths[x]) + Rank(x)

LEMMA DivOrder ==
  ASSUME NEW w \in Nat, NEW u \in Nat \ {0}, NEW d \in Nat
  PROVE  d <= w \div u <=> d * u <= w
<1>1. PICK q \in Nat : q = w \div u /\ q * u <= w /\ w < q * u + u
  <2>1. w \div u \in Nat  BY FirstBits
  <2>2. QED  BY <2>1, FirstBits
<1>2. ASSUME d <= q  PROVE d * u <= w
  <2>1. d * u <= q * u /\ d * u \in Nat /\ q * u \in Nat  BY <1>2, Scaled
  <2>2. QED  BY <1>1, <2>1
<1>3. ASSUME q < d  PROVE w < d * u
  <2>1. q + 1 <= d /\ q + 1 \in Nat  BY <1>3
  <2>2. (q + 1) * u <= d * u /\ (q + 1) * u = q * u + u /\ d * u \in Nat /\ q * u \in Nat
    BY <2>1, Scaled
  <2>3. QED  BY <1>1, <2>2
<1>4. d * u \in Nat  BY Scaled
<1>5. QED  BY <1>1, <1>2, <1>3, <1>4

Index(w) == First(w, HUFFMAN_LOOKUP_TABLE_BITS, MAX_HUFFMAN_BITS)

LEMMA TableSize ==
  /\ HUFFMAN_LOOKUP_TABLE_BITS \in Lengths /\ HUFFMAN_LOOKUP_TABLE_BITS \in Nat
  /\ 2 ^ HUFFMAN_LOOKUP_TABLE_BITS \in Nat \ {0}
  /\ Unit(HUFFMAN_LOOKUP_TABLE_BITS) \in Nat \ {0}
  /\ 2 ^ HUFFMAN_LOOKUP_TABLE_BITS * Unit(HUFFMAN_LOOKUP_TABLE_BITS) = Size
<1>1. HUFFMAN_LOOKUP_TABLE_BITS \in Lengths  BY Sizes DEF Lengths
<1>2. QED  BY <1>1, Units

LEMMA IndexOfWord ==
  ASSUME NEW w \in Words
  PROVE  w \in Nat /\ w < Size /\ Index(w) \in Indices /\ Index(w) = w \div Unit(HUFFMAN_LOOKUP_TABLE_BITS)
<1>1. w \in Nat /\ w < Size  BY Sizes DEF Words, Size
<1>2. PICK u \in Nat \ {0}, t \in Nat \ {0} :
        u = Unit(HUFFMAN_LOOKUP_TABLE_BITS) /\ t = 2 ^ HUFFMAN_LOOKUP_TABLE_BITS /\ t * u = Size
  BY TableSize
<1>3. Index(w) = w \div u  BY <1>2 DEF Index, First, Unit
<1>4. w \div u \in Nat  BY <1>1, FirstBits
<1>5. ~ (t <= w \div u)  BY <1>1, <1>2, DivOrder
<1>6. QED  BY <1>1, <1>2, <1>3, <1>4, <1>5 DEF Indices

LEMMA InTableIs ==
  ASSUME CodeInv, NEW w \in Words, NEW x \in Symbols, lengths[x] \in 1 .. HUFFMAN_LOOKUP_TABLE_BITS
  PROVE  InTable(Index(w), x) <=> Starts(w, x)
<1> DEFINE T == HUFFMAN_LOOKUP_TABLE_BITS
<1>1. lengths[x] # 0 /\ lengths[x] \in Lengths /\ T \in Nat /\ T <= MAX_HUFFMAN_BITS /\ MAX_HUFFMAN_BITS \in Nat
  BY Sizes, TableSize DEF Lengths
<1>2. PICK k \in 1 .. T : k = lengths[x]  OBVIOUS
<1>3. PICK u \in Nat \ {0}, c \in Nat, p \in Nat \ {0} :
        u = Unit(T) /\ c = FirstAt(k) + Rank(x) /\ p = 2 ^ (T - k)
  <2>1. T - k \in Nat  BY <1>1
  <2>2. FirstAt(k) \in Nat /\ Rank(x) \in Nat  BY <1>1, <1>2, FirstIs, RankInCount
  <2>3. QED  BY <2>1, <2>2, TableSize, PowerPositive
<1>4. Unit(k) = p * u
  <2>1. T - k \in Nat /\ MAX_HUFFMAN_BITS - T \in Nat
        /\ MAX_HUFFMAN_BITS - k = (T - k) + (MAX_HUFFMAN_BITS - T)
    BY <1>1
  <2>2. 2 ^ ((T - k) + (MAX_HUFFMAN_BITS - T)) = 2 ^ (T - k) * 2 ^ (MAX_HUFFMAN_BITS - T)
    BY <2>1, PowerOfSum
  <2>3. QED  BY <1>3, <2>1, <2>2 DEF Unit
<1>5. PICK y \in Nat : y = Index(w) /\ y = w \div u /\ w \in Nat
  <2>1. w \in Nat /\ Index(w) = w \div u  BY <1>3, IndexOfWord
  <2>2. w \div u \in Nat  BY <2>1, FirstBits
  <2>3. QED  BY <2>1, <2>2
<1>6. First(y, k, T) = y \div p  BY <1>3 DEF First
<1>7. InTable(y, x) <=> y \div p = c  BY <1>2, <1>3, <1>6 DEF InTable
<1>8. y \div p = c <=> c * p <= y /\ y < c * p + p  BY FirstBits
<1>9. c * p \in Nat /\ c * p + p \in Nat  BY Scaled
<1>10. c * p <= y <=> (c * p) * u <= w
  <2> DEFINE d == c * p
  <2>1. d \in Nat  BY <1>9
  <2> HIDE DEF d
  <2>2. d <= y <=> d * u <= w  BY <1>5, <2>1, DivOrder
  <2>3. QED  BY <2>2 DEF d
<1>11. c * p + p <= y <=> (c * p + p) * u <= w
  <2> DEFINE d == c * p + p
  <2>1. d \in Nat  BY <1>9
  <2> HIDE DEF d
  <2>2. d <= y <=> d * u <= w  BY <1>5, <2>1, DivOrder
  <2>3. QED  BY <2>2 DEF d
<1>12. (c * p) * u = c * (p * u) /\ (c * p + p) * u = c * (p * u) + p * u
       /\ c * (p * u) \in Nat /\ p * u \in Nat
  OBVIOUS
<1>13. Start(x) = c * (p * u) /\ Unit(lengths[x]) = p * u
  BY <1>2, <1>3, <1>4 DEF Start
<1>14. Starts(w, x) <=> c * (p * u) <= w /\ w < c * (p * u) + p * u
  BY <1>1, <1>13 DEF Starts
<1>15. y < c * p + p <=> w < c * (p * u) + p * u
  <2>1. c * (p * u) + p * u \in Nat  BY <1>12
  <2>2. QED  BY <1>5, <1>9, <1>11, <1>12, <2>1
<1>16. InTable(y, x) <=> Starts(w, x)  BY <1>7, <1>8, <1>10, <1>12, <1>14, <1>15
<1>17. QED  BY <1>5, <1>16

-----------------------------------------------------------------------------
(* The places of the symbols in syms: the shorter ones before.             *)
Shorter(k) == Cardinality(UpTo(k - 1))
Place(x) == Shorter(lengths[x]) + Rank(x)

LEMMA ShorterNext ==
  ASSUME CodeInv, NEW k \in Lengths
  PROVE  /\ Shorter(k) \in Nat /\ Shorter(k) + count(k) <= n
         /\ Shorter(k + 1) = Shorter(k) + count(k)
         /\ k = 0 => Shorter(k) = 0
<1>1. n \in Nat /\ k \in Nat  BY SymbolSets, Units
<1>2. \A a \in Nat : (a + 1) - 1 = a  OBVIOUS
<1>3. (k + 1) - 1 = k  BY <1>1, <1>2
<1>4. Shorter(k + 1) = Cardinality(UpTo(k))  BY <1>3 DEF Shorter
<1>5. \A j : IsFiniteSet(UpTo(j)) /\ Cardinality(UpTo(j)) \in 0 .. n  BY SymbolSets
<1>6. CASE k = 0
  <2>1. UpTo(k - 1) = {} /\ UpTo(k) = {} /\ count(k) = 0  BY <1>6, CountIs DEF UpTo
  <2>2. Cardinality({}) = 0  BY FS_EmptySet
  <2>3. Shorter(k) = 0 /\ Shorter(k + 1) = 0  BY <1>4, <2>1, <2>2 DEF Shorter
  <2>4. QED  BY <1>1, <2>1, <2>3
<1>7. CASE k # 0
  <2>1. UpTo(k) = UpTo(k - 1) \cup OfLength(k) /\ UpTo(k - 1) \cap OfLength(k) = {}
    BY <1>1, <1>7 DEF UpTo, OfLength, CodeInv, Lengths
  <2>2. IsFiniteSet(OfLength(k)) /\ count(k) = Cardinality(OfLength(k)) /\ count(k) \in Nat
    BY <1>7, SymbolSets, CountIs
  <2>3. Cardinality({}) = 0  BY FS_EmptySet
  <2>4. Cardinality(UpTo(k)) = Cardinality(UpTo(k - 1)) + count(k) - 0
    BY <1>5, <2>1, <2>2, <2>3, FS_Union
  <2>5. Cardinality(UpTo(k)) \in 0 .. n /\ Cardinality(UpTo(k - 1)) \in 0 .. n  BY <1>5
  <2>6. QED  BY <1>1, <1>7, <1>4, <2>2, <2>4, <2>5 DEF Shorter
<1>8. QED  BY <1>6, <1>7

LEMMA PlaceOnce ==
  ASSUME CodeInv, NEW x \in Symbols, lengths[x] # 0
  PROVE  /\ Place(x) \in 0 .. n - 1
         /\ \A y \in Symbols : lengths[y] # 0 /\ Place(y) = Place(x) => y = x
<1>1. ASSUME NEW s \in Symbols, lengths[s] # 0
      PROVE  /\ lengths[s] \in Lengths /\ Shorter(lengths[s]) \in Nat /\ Rank(s) \in Nat
             /\ Rank(s) < count(lengths[s]) /\ count(lengths[s]) \in Nat
             /\ Shorter(lengths[s]) + count(lengths[s]) <= n
  BY <1>1, RankInCount, ShorterNext, CountIs
<1>2. n \in Nat  BY SymbolSets
<1>3. Place(x) \in 0 .. n - 1
  <2>1. PICK k : k = lengths[x]  OBVIOUS
  <2>2. QED  BY <1>1, <1>2, <2>1 DEF Place
<1>4. ASSUME NEW s \in Symbols, NEW t \in Symbols, lengths[s] # 0, lengths[t] # 0,
             lengths[s] < lengths[t]
      PROVE  Place(s) # Place(t)
  <2>1. PICK k \in Lengths, m \in Lengths : k = lengths[s] /\ m = lengths[t]  BY <1>1, <1>4
  <2>2. k \in Nat /\ m \in Nat /\ k < m  BY <1>4, <2>1, Units
  <2>3. Shorter(k + 1) <= Shorter(m)
    <3>1. UpTo((k + 1) - 1) \subseteq UpTo(m - 1)  BY <2>2 DEF UpTo
    <3>2. IsFiniteSet(UpTo(m - 1))  BY SymbolSets
    <3>3. QED  BY <3>1, <3>2, FS_Subset DEF Shorter
  <2>4. Shorter(k + 1) = Shorter(k) + count(k) /\ Shorter(k) \in Nat /\ count(k) \in Nat
    BY ShorterNext, CountIs
  <2>5. Rank(s) \in Nat /\ Rank(s) < count(k) /\ Rank(t) \in Nat /\ Shorter(m) \in Nat
    BY <1>1, <1>4, <2>1
  <2>6. Shorter(k) + Rank(s) < Shorter(m) + Rank(t)  BY <2>3, <2>4, <2>5
  <2>7. Shorter(k) + Rank(s) \in Nat  BY <2>4, <2>5
  <2>8. QED  BY <2>1, <2>6, <2>7 DEF Place
<1>5. ASSUME NEW s \in Symbols, NEW t \in Symbols, lengths[s] # 0, lengths[s] = lengths[t], s < t
      PROVE  Place(s) # Place(t)
  <2>1. t \in 0 .. n  BY <1>2 DEF Symbols
  <2>2. Rank(s) < RankUpto(lengths[s], t)  BY <1>5, <2>1, RankBelow
  <2>3. Rank(s) < Rank(t) /\ Rank(s) \in Nat /\ Rank(t) \in Nat
    BY <1>1, <1>5, <2>2 DEF Rank
  <2>4. PICK k : k = lengths[s] /\ k = lengths[t]  BY <1>5
  <2>5. Shorter(k) \in Nat  BY <1>1, <1>5, <2>4
  <2>6. QED  BY <2>3, <2>4, <2>5 DEF Place
<1>6. ASSUME NEW y \in Symbols, lengths[y] # 0, y # x  PROVE Place(y) # Place(x)
  <2>1. lengths[x] \in Nat /\ lengths[y] \in Nat /\ x \in Nat /\ y \in Nat
    BY <1>2, Sizes DEF CodeInv, Lengths, Symbols
  <2>2. CASE lengths[x] = lengths[y]
    <3>1. x < y \/ y < x  BY <1>6, <2>1
    <3>2. QED  BY <1>5, <1>6, <2>2, <3>1
  <2>3. CASE lengths[x] # lengths[y]
    <3>1. lengths[x] < lengths[y] \/ lengths[y] < lengths[x]  BY <2>1, <2>3
    <3>2. QED  BY <1>4, <1>6, <3>1
  <2>4. QED  BY <2>2, <2>3
<1>7. QED  BY <1>3, <1>6

-----------------------------------------------------------------------------
(* The inductive invariant.  The limits recorded so far are exact.         *)
LimitsInv ==
  \A k \in 1 .. l - 1 :
    /\ sentinel_bits[k] = Covered(k) /\ Covered(k) <= Size
    /\ offset_first_sym_idx[k] = uint16(Shorter(k) - FirstAt(k))

(* While the lengths are counted nothing has been given a place.           *)
LengthsInv ==
  pc = "lengths" =>
    /\ i = 0
    /\ \A k \in 0 .. l - 1 : code[k] = FirstAt(k) /\ sym_idx[k] = Shorter(k)
    /\ \A y \in Indices : table[y] = NoEntry

(* The next place and the next codeword of every length.                   *)
PlacesInv ==
  pc = "symbols" =>
    \A k \in Lengths \ {0} :
      /\ sym_idx[k] = Shorter(k) + RankUpto(k, i)
      /\ code[k] = FirstAt(k) + (IF k <= HUFFMAN_LOOKUP_TABLE_BITS THEN RankUpto(k, i) ELSE 0)

(* An index of the table means the symbol whose codeword it starts with,   *)
(* among those already placed, or none when there is none.                 *)
Meant(y) ==
  \/ table[y] = NoEntry /\ \A x \in 0 .. i - 1 : ~ InTable(y, x)
  \/ \E x \in 0 .. i - 1 : InTable(y, x) /\ table[y] = [sym |-> x, len |-> lengths[x]]

SymbolsInv ==
  pc \in {"symbols", "ready"} =>
    /\ l = MAX_HUFFMAN_BITS + 1
    /\ pc = "ready" => i = n
    /\ \A x \in 0 .. i - 1 : lengths[x] # 0 => syms[Place(x)] = x
    /\ \A y \in Indices : Meant(y)

ResultInv ==
  /\ result = "none" <=> pc \in {"lengths", "symbols"}
  /\ result = "true" => Fits
  /\ result = "false" => ~ Fits

(* An answer is the symbol whose codeword the word starts with.            *)
Found(w, s, k) == s \in Symbols /\ Starts(w, s) /\ k = lengths[s]
NotFound(w, s, k) == s = -1 /\ k = 0 /\ \A x \in Symbols : ~ Starts(w, x)

AnswerInv ==
  /\ pc # "done" => bits = UNINIT
  /\ bits # UNINIT =>
       /\ Fits /\ bits \in Words
       /\ Found(bits, decoded, num_used_bits) \/ NotFound(bits, decoded, num_used_bits)

HInv ==
  TypeOK /\ LimitsInv /\ LengthsInv /\ PlacesInv /\ SymbolsInv /\ ResultInv /\ AnswerInv

-----------------------------------------------------------------------------
(* The arguments stay, and with them the code that they determine.         *)
LEMMA SameCode ==
  ASSUME CodeInv, UNCHANGED args
  PROVE  /\ n' = n /\ lengths' = lengths /\ Symbols' = Symbols /\ Fits' = Fits
         /\ \A k : Covered(k)' = Covered(k) /\ FirstAt(k)' = FirstAt(k) /\ Shorter(k)' = Shorter(k)
         /\ \A k, j : RankUpto(k, j)' = RankUpto(k, j)
         /\ \A x : Rank(x)' = Rank(x) /\ Place(x)' = Place(x) /\ Start(x)' = Start(x)
         /\ \A w, x : Starts(w, x)' = Starts(w, x) /\ InTable(w, x)' = InTable(w, x)
<1>1. n' = n /\ lengths' = lengths  BY DEF args
<1>2. Symbols' = Symbols  BY <1>1 DEF Symbols
<1>3. \A k : UpTo(k)' = UpTo(k)  BY <1>1, <1>2 DEF UpTo
<1>4. \A k : Covered(k)' = Covered(k)
  <2>1. Share' = Share  BY <1>1, <1>2 DEF Share
  <2>2. \A k : Covered(k) = SumFunctionOnSet(Share, UpTo(k))  BY Shares
  <2>3. \A k : Covered(k)' = SumFunctionOnSet(Share', UpTo(k)')
    BY DEF Covered, Share, UpTo, Unit
  <2>4. QED  BY <1>3, <2>1, <2>2, <2>3
<1>5. \A k : FirstAt(k)' = FirstAt(k)  BY <1>4 DEF FirstAt
<1>6. \A k : Shorter(k)' = Shorter(k)  BY <1>3 DEF Shorter
<1>7. \A k, j : RankUpto(k, j)' = RankUpto(k, j)  BY <1>1 DEF RankUpto
<1>8. \A x : Rank(x)' = Rank(x)  BY <1>1, <1>7 DEF Rank
<1>9. \A x : Place(x)' = Place(x)  BY <1>1, <1>6, <1>8 DEF Place
<1>10. \A w, x : InTable(w, x)' = InTable(w, x)  BY <1>1, <1>5, <1>8 DEF InTable
<1>11. \A x : Start(x)' = Start(x)  BY <1>1, <1>5, <1>8 DEF Start
<1>12. \A w, x : Starts(w, x)' = Starts(w, x)  BY <1>1, <1>11 DEF Starts
<1>13. Fits' = Fits  BY <1>4 DEF Fits
<1>14. QED  BY <1>1, <1>2, <1>4, <1>5, <1>6, <1>7, <1>8, <1>9, <1>10, <1>11, <1>12, <1>13

LEMMA CodeTyped ==
  ASSUME TypeOK  PROVE CodeInv
BY DEF TypeOK, CodeInv

LEMMA Counters ==
  ASSUME TypeOK
  PROVE  /\ l \in 1 .. MAX_HUFFMAN_BITS + 1 /\ l \in Nat /\ n \in Nat /\ i \in 0 .. n /\ i \in Nat
         /\ MAX_HUFFMAN_BITS \in Nat
BY Sizes DEF TypeOK

(* What the loop of the lengths computes, in 16 bits.                      *)
LEMMA FirstCodewordIs ==
  ASSUME HInv, pc = "lengths", l <= MAX_HUFFMAN_BITS
  PROVE  /\ l \in Lengths \ {0} /\ l - 1 \in Lengths /\ l - 1 \in 0 .. l - 1
         /\ FirstCodeword = FirstAt(l) /\ FirstAt(l) \in Nat /\ FirstAt(l) < WORD
         /\ TooLong(FirstCodeword, l) <=> ~ (Covered(l) <= Size)
<1> USE DEF HInv
<1>1. CodeInv  BY CodeTyped
<1>2. l \in Lengths \ {0} /\ l - 1 \in Lengths /\ l - 1 \in 0 .. l - 1 /\ l \in Nat
  BY Counters DEF Lengths
<1>3. code[l - 1] = FirstAt(l - 1)  BY <1>2 DEF LengthsInv
<1>4. Covered(l - 1) <= Size
  <2>1. CASE l - 1 = 0
    <3>1. Covered(0) = 0  BY <1>1, NothingCovered
    <3>2. QED  BY <2>1, <3>1, Sizes
  <2>2. CASE l - 1 # 0
    <3>1. l - 1 \in 1 .. l - 1  BY <1>2, <2>2
    <3>2. QED  BY <3>1 DEF LimitsInv
  <2>3. QED  BY <2>1, <2>2
<1>5. PICK f \in Nat, m \in Nat, t \in Nat : f = FirstAt(l) /\ m = count(l) /\ t = 2 ^ l
  BY <1>1, <1>2, FirstIs, CountIs, Units
<1>6. f <= t /\ t <= Size /\ (Covered(l) <= Size <=> f + m <= t)
      /\ f = (FirstAt(l - 1) + count(l - 1)) * 2
  BY <1>1, <1>2, <1>4, <1>5, FirstNext
<1>7. f < WORD  BY <1>6, Sizes
<1>8. uint16(f) = f  BY <1>7, NoWrap
<1>9. FirstCodeword = f  BY <1>3, <1>6, <1>8 DEF FirstCodeword
<1>10. TooLong(f, l) <=> m # 0 /\ f + m - 1 > t - 1  BY <1>5 DEF TooLong
<1>11. (m # 0 /\ f + m - 1 > t - 1) <=> ~ (f + m <= t)  BY <1>6
<1>12. QED  BY <1>2, <1>5, <1>6, <1>7, <1>9, <1>10, <1>11

LEMMA FitsAtEnd ==
  ASSUME HInv, l = MAX_HUFFMAN_BITS + 1
  PROVE  Fits
<1>1. MAX_HUFFMAN_BITS \in 1 .. l - 1  BY Sizes
<1>2. QED  BY <1>1 DEF HInv, LimitsInv, Fits

-----------------------------------------------------------------------------
LEMMA HStart ==
  ASSUME Init  PROVE HInv
<1>1. TypeOK
  BY Sizes, TableSize, HuffmanAssumption DEF Init, TypeOK, NoEntry, Lengths, HuffmanAssumption
<1>2. CodeInv /\ l = 1 /\ i = 0 /\ pc = "lengths"  BY <1>1, CodeTyped DEF Init
<1>3. 0 .. l - 1 = {0} /\ 1 .. l - 1 = {}  BY <1>2
<1>4. LimitsInv  BY <1>3 DEF LimitsInv
<1>5. LengthsInv
  <2>1. 0 \in Lengths  BY Sizes DEF Lengths
  <2>2. code[0] = 0 /\ sym_idx[0] = 0  BY <2>1 DEF Init
  <2>3. FirstAt(0) = 0 /\ Shorter(0) = 0  BY <1>2, <2>1, FirstNext, ShorterNext
  <2>4. \A y \in Indices : table[y] = NoEntry  BY DEF Init, Indices
  <2>5. QED  BY <1>2, <1>3, <2>2, <2>3, <2>4 DEF LengthsInv
<1>6. PlacesInv /\ SymbolsInv  BY <1>2 DEF PlacesInv, SymbolsInv
<1>7. ResultInv /\ AnswerInv  BY DEF Init, ResultInv, AnswerInv
<1>8. QED  BY <1>1, <1>4, <1>5, <1>6, <1>7 DEF HInv

-----------------------------------------------------------------------------
(* One more length: its limits are exact because nothing has wrapped.      *)
LEMMA LengthKeeps ==
  ASSUME HInv, LengthStep
  PROVE  HInv'
<1>1. TypeOK /\ CodeInv /\ pc = "lengths" /\ l <= MAX_HUFFMAN_BITS
  BY CodeTyped DEF HInv, LengthStep
<1>2. UNCHANGED <<args, table, syms, i, pc, result, answer>> /\ l' = l + 1  BY DEF LengthStep
<1>3. /\ n' = n /\ lengths' = lengths /\ Symbols' = Symbols /\ Fits' = Fits
      /\ \A k : Covered(k)' = Covered(k) /\ FirstAt(k)' = FirstAt(k) /\ Shorter(k)' = Shorter(k)
  BY <1>1, <1>2, SameCode
<1>4. /\ l \in Lengths \ {0} /\ l - 1 \in Lengths /\ l - 1 \in 0 .. l - 1
      /\ FirstCodeword = FirstAt(l) /\ FirstAt(l) \in Nat /\ FirstAt(l) < WORD /\ Covered(l) <= Size
  BY <1>1, FirstCodewordIs DEF LengthStep
<1>5. n \in Nat /\ l \in Nat /\ i \in 0 .. n  BY <1>1, Counters
<1>6. Shorter(l) = sym_idx[l - 1] + count(l - 1) /\ Shorter(l) \in 0 .. n
  <2>1. sym_idx[l - 1] = Shorter(l - 1)  BY <1>1, <1>4 DEF HInv, LengthsInv
  <2>2. Shorter((l - 1) + 1) = Shorter(l - 1) + count(l - 1)  BY <1>1, <1>4, ShorterNext
  <2>3. (l - 1) + 1 = l  BY <1>5
  <2>4. Shorter(l) \in Nat /\ Shorter(l) + count(l) <= n /\ count(l) \in Nat
    BY <1>1, <1>4, ShorterNext, CountIs
  <2>5. QED  BY <1>5, <2>1, <2>2, <2>3, <2>4
<1>7. uint16((FirstCodeword + count(l)) * 2 ^ (MAX_HUFFMAN_BITS - l)) = Covered(l)
      /\ Covered(l) \in 0 .. WORD - 1
  <2>1. (FirstAt(l) + count(l)) * Unit(l) = Covered(l) /\ Covered(l) \in Nat
    BY <1>1, <1>4, FirstNext, CoveredNext
  <2>2. Covered(l) < WORD  BY <1>4, <2>1, Sizes
  <2>3. uint16(Covered(l)) = Covered(l)  BY <2>1, <2>2, NoWrap
  <2>4. Covered(l) \in 0 .. WORD - 1  BY <2>1, <2>2, Sizes
  <2>5. QED  BY <1>4, <2>1, <2>3, <2>4 DEF Unit
<1> DEFINE o == uint16(Shorter(l) - FirstAt(l))
<1>8. /\ code' = [code EXCEPT ![l] = FirstAt(l)]
      /\ sentinel_bits' = [sentinel_bits EXCEPT ![l] = Covered(l)]
      /\ sym_idx' = [sym_idx EXCEPT ![l] = Shorter(l)]
  BY <1>4, <1>6, <1>7 DEF LengthStep
<1>9. offset_first_sym_idx' = [offset_first_sym_idx EXCEPT ![l] = o]
  <2>1. sym_idx \in [Lengths -> 0 .. n \cup {UNINIT}] /\ code \in [Lengths -> 0 .. WORD - 1 \cup {UNINIT}]
    BY <1>1 DEF TypeOK
  <2>2. sym_idx'[l] = Shorter(l) /\ code'[l] = FirstAt(l)  BY <1>4, <1>8, <2>1
  <2>3. QED  BY <2>2 DEF LengthStep
<1>10. o \in 0 .. WORD - 1
  <2>1. Shorter(l) - FirstAt(l) \in Int  BY <1>4, <1>5, <1>6
  <2>2. WORD \in Nat \ {0}  BY Sizes
  <2>3. QED  BY <2>1, <2>2 DEF uint16
<1> HIDE DEF o
<1>11. TypeOK'
  <2>1. /\ n' \in 0 .. MAX_HUFFMAN_SYMBOLS /\ lengths' \in [Symbols' -> Lengths]
        /\ (table \in [0 .. 2 ^ HUFFMAN_LOOKUP_TABLE_BITS - 1 ->
                    [sym : Symbols \cup {UNINIT}, len : 0 .. HUFFMAN_LOOKUP_TABLE_BITS]])'
        /\ (syms \in [0 .. MAX_HUFFMAN_SYMBOLS - 1 -> Symbols \cup {UNINIT}])'
        /\ i' \in 0 .. n' /\ (pc \in {"lengths", "symbols", "ready", "done"})'
        /\ (result \in {"none", "true", "false"})'
    BY <1>1, <1>2, <1>3 DEF TypeOK
  <2>2. sentinel_bits' \in [Lengths -> 0 .. WORD - 1 \cup {UNINIT}]  BY <1>1, <1>4, <1>7, <1>8 DEF TypeOK
  <2>3. offset_first_sym_idx' \in [Lengths -> 0 .. WORD - 1 \cup {UNINIT}]
    BY <1>1, <1>4, <1>9, <1>10 DEF TypeOK
  <2>4. code' \in [Lengths -> 0 .. WORD - 1 \cup {UNINIT}]
    <3>1. FirstAt(l) \in 0 .. WORD - 1  BY <1>4, Sizes
    <3>2. QED  BY <1>1, <1>4, <1>8, <3>1 DEF TypeOK
  <2>5. sym_idx' \in [Lengths -> 0 .. n' \cup {UNINIT}]
    <3>1. sym_idx' \in [Lengths -> 0 .. n \cup {UNINIT}]  BY <1>1, <1>4, <1>6, <1>8 DEF TypeOK
    <3>2. QED  BY <1>3, <3>1
  <2>6. l' \in 1 .. MAX_HUFFMAN_BITS + 1  BY <1>1, <1>2, <1>5, Sizes
  <2>7. QED  BY <2>1, <2>2, <2>3, <2>4, <2>5, <2>6 DEF TypeOK
<1>12. LimitsInv'
  <2>1. ASSUME NEW k \in 1 .. l
        PROVE  /\ sentinel_bits'[k] = Covered(k) /\ Covered(k) <= Size
               /\ offset_first_sym_idx'[k] = uint16(Shorter(k) - FirstAt(k))
    <3>1. k \in Lengths  BY <1>4, <1>5, Sizes DEF Lengths
    <3>2. sentinel_bits'[k] = IF k = l THEN Covered(l) ELSE sentinel_bits[k]
      BY <1>1, <1>8, <3>1 DEF TypeOK
    <3>3. offset_first_sym_idx'[k] = IF k = l THEN o ELSE offset_first_sym_idx[k]
      BY <1>1, <1>9, <3>1 DEF TypeOK
    <3>4. CASE k = l  BY <1>4, <3>2, <3>3, <3>4 DEF o
    <3>5. CASE k # l
      <4>1. k \in 1 .. l - 1  BY <1>5, <3>5
      <4>2. QED  BY <3>2, <3>3, <3>5, <4>1 DEF HInv, LimitsInv
    <3>6. QED  BY <3>4, <3>5
  <2>2. 1 .. l' - 1 = 1 .. l  BY <1>2, <1>5
  <2>3. QED  BY <1>3, <2>1, <2>2 DEF LimitsInv, uint16
<1>13. LengthsInv'
  <2>1. ASSUME NEW k \in 0 .. l  PROVE code'[k] = FirstAt(k) /\ sym_idx'[k] = Shorter(k)
    <3>1. k \in Lengths  BY <1>4, <1>5, Sizes DEF Lengths
    <3>2. code'[k] = IF k = l THEN FirstAt(l) ELSE code[k]  BY <1>1, <1>8, <3>1 DEF TypeOK
    <3>3. sym_idx'[k] = IF k = l THEN Shorter(l) ELSE sym_idx[k]  BY <1>1, <1>8, <3>1 DEF TypeOK
    <3>4. CASE k = l  BY <3>2, <3>3, <3>4
    <3>5. CASE k # l
      <4>1. k \in 0 .. l - 1  BY <1>5, <3>5
      <4>2. QED  BY <1>1, <3>2, <3>3, <3>5, <4>1 DEF HInv, LengthsInv
    <3>6. QED  BY <3>4, <3>5
  <2>2. 0 .. l' - 1 = 0 .. l  BY <1>2, <1>5
  <2>3. i' = 0 /\ \A y \in Indices : table'[y] = NoEntry  BY <1>1, <1>2 DEF HInv, LengthsInv
  <2>4. QED  BY <1>3, <2>1, <2>2, <2>3 DEF LengthsInv, Indices
<1>14. PlacesInv' /\ SymbolsInv'  BY <1>1, <1>2 DEF PlacesInv, SymbolsInv
<1>15. ResultInv'  BY <1>2, <1>3 DEF HInv, ResultInv
<1>16. AnswerInv'
  <2>1. bits = UNINIT  BY <1>1 DEF HInv, AnswerInv
  <2>2. QED  BY <1>2, <2>1 DEF AnswerInv, answer
<1>17. QED  BY <1>11, <1>12, <1>13, <1>14, <1>15, <1>16 DEF HInv

-----------------------------------------------------------------------------
(* Steps that leave the decoder's tables as they are.                      *)
LEMMA TablesKept ==
  ASSUME HInv, UNCHANGED <<args, decoder>>, UNCHANGED <<l, i, sym_idx>>,
         code' \in [Lengths -> 0 .. WORD - 1 \cup {UNINIT}],
         pc' \in {"lengths", "symbols", "ready", "done"}, result' \in {"none", "true", "false"}
  PROVE  /\ TypeOK' /\ LimitsInv' /\ Fits' = Fits /\ n' = n
         /\ \A y \in Indices : Meant(y)' <=> Meant(y)
         /\ \A w, s, k : Found(w, s, k)' <=> Found(w, s, k)
         /\ \A w, s, k : NotFound(w, s, k)' <=> NotFound(w, s, k)
<1>1. TypeOK /\ CodeInv  BY CodeTyped DEF HInv
<1>2. /\ n' = n /\ lengths' = lengths /\ Symbols' = Symbols /\ Fits' = Fits
      /\ \A k : Covered(k)' = Covered(k) /\ FirstAt(k)' = FirstAt(k) /\ Shorter(k)' = Shorter(k)
      /\ \A w, x : Starts(w, x)' = Starts(w, x) /\ InTable(w, x)' = InTable(w, x)
  BY <1>1, SameCode
<1>3. /\ table' = table /\ sentinel_bits' = sentinel_bits /\ syms' = syms
      /\ offset_first_sym_idx' = offset_first_sym_idx
  BY DEF decoder
<1>4. TypeOK'  BY <1>1, <1>2, <1>3 DEF TypeOK
<1>5. LimitsInv'  BY <1>2, <1>3 DEF HInv, LimitsInv, uint16
<1>6. \A y \in Indices : Meant(y)' <=> Meant(y)  BY <1>2, <1>3 DEF Meant, NoEntry
<1>7. \A w, s, k : Found(w, s, k)' <=> Found(w, s, k)  BY <1>2 DEF Found
<1>8. \A w, s, k : NotFound(w, s, k)' <=> NotFound(w, s, k)  BY <1>2 DEF NotFound
<1>9. QED  BY <1>2, <1>4, <1>5, <1>6, <1>7, <1>8

(* The refusal: the codewords so far already take more than there is.      *)
LEMMA NotPrefixCodeKeeps ==
  ASSUME HInv, NotPrefixCode
  PROVE  HInv'
<1>1. TypeOK /\ CodeInv /\ pc = "lengths" /\ l <= MAX_HUFFMAN_BITS  BY CodeTyped DEF HInv, NotPrefixCode
<1>2. /\ l \in Lengths /\ FirstCodeword = FirstAt(l) /\ FirstAt(l) \in Nat /\ FirstAt(l) < WORD
      /\ ~ (Covered(l) <= Size)
  BY <1>1, FirstCodewordIs DEF NotPrefixCode
<1>3. code' \in [Lengths -> 0 .. WORD - 1 \cup {UNINIT}]
  <2>1. FirstAt(l) \in 0 .. WORD - 1  BY <1>2, Sizes
  <2>2. code' = [code EXCEPT ![l] = FirstAt(l)]  BY <1>2 DEF NotPrefixCode
  <2>3. QED  BY <1>1, <1>2, <2>1, <2>2 DEF TypeOK
<1>4. /\ pc' = "done" /\ result' = "false" /\ UNCHANGED <<args, decoder>> /\ UNCHANGED <<l, i, sym_idx>>
      /\ bits' = bits
  BY DEF NotPrefixCode, answer
<1>5. TypeOK' /\ LimitsInv' /\ Fits' = Fits  BY <1>3, <1>4, TablesKept
<1>6. ~ Fits
  <2>1. l <= MAX_HUFFMAN_BITS /\ MAX_HUFFMAN_BITS \in Lengths  BY <1>1, Sizes DEF Lengths
  <2>2. Covered(l) <= Covered(MAX_HUFFMAN_BITS)  BY <1>1, <1>2, <2>1, CoveredGrows
  <2>3. Covered(l) \in Nat /\ Covered(MAX_HUFFMAN_BITS) \in Nat  BY <1>1, <1>2, <2>1, CoveredNext
  <2>4. QED  BY <1>2, <2>2, <2>3, Sizes DEF Fits
<1>7. LengthsInv' /\ PlacesInv' /\ SymbolsInv'  BY <1>4 DEF LengthsInv, PlacesInv, SymbolsInv
<1>8. ResultInv'  BY <1>4, <1>5, <1>6 DEF ResultInv
<1>9. AnswerInv'
  <2>1. bits = UNINIT  BY <1>1 DEF HInv, AnswerInv
  <2>2. QED  BY <1>4, <2>1 DEF AnswerInv
<1>10. QED  BY <1>5, <1>7, <1>8, <1>9 DEF HInv

LEMMA LengthsEndKeeps ==
  ASSUME HInv, LengthsEnd
  PROVE  HInv'
<1>1. TypeOK /\ CodeInv /\ pc = "lengths" /\ l > MAX_HUFFMAN_BITS  BY CodeTyped DEF HInv, LengthsEnd
<1>2. /\ pc' = "symbols" /\ UNCHANGED <<args, decoder>> /\ UNCHANGED <<l, i, sym_idx>> /\ code' = code
      /\ bits' = bits /\ result' = result
  BY DEF LengthsEnd, locals, answer
<1>3. code' \in [Lengths -> 0 .. WORD - 1 \cup {UNINIT}]  BY <1>1, <1>2 DEF TypeOK
<1>4. result \in {"none", "true", "false"}  BY <1>1 DEF TypeOK
<1>5. TypeOK' /\ LimitsInv' /\ Fits' = Fits /\ \A y \in Indices : Meant(y)' <=> Meant(y)
  BY <1>2, <1>3, <1>4, TablesKept
<1>6. /\ \A k : FirstAt(k)' = FirstAt(k) /\ Shorter(k)' = Shorter(k)
      /\ \A k, j : RankUpto(k, j)' = RankUpto(k, j)
  BY <1>1, <1>2, SameCode
<1>7. l = MAX_HUFFMAN_BITS + 1 /\ i = 0 /\ n \in Nat  BY <1>1, Counters DEF HInv, LengthsInv
<1>8. LengthsInv'  BY <1>2 DEF LengthsInv
<1>9. PlacesInv'
  <2>1. ASSUME NEW k \in Lengths \ {0}
        PROVE  sym_idx[k] = Shorter(k) /\ code[k] = FirstAt(k) /\ RankUpto(k, i) = 0
               /\ Shorter(k) \in Nat /\ FirstAt(k) \in Nat
    <3>1. k \in 0 .. l - 1  BY <1>7, Sizes DEF Lengths
    <3>2. RankUpto(k, i) = 0  BY <1>1, <1>7, Ranks
    <3>3. QED  BY <1>1, <3>1, <3>2, ShorterNext, FirstIs DEF HInv, LengthsInv
  <2>2. ASSUME NEW k \in Lengths \ {0}
        PROVE  /\ sym_idx'[k] = Shorter(k)' + RankUpto(k, i)'
               /\ code'[k] = FirstAt(k)' + (IF k <= HUFFMAN_LOOKUP_TABLE_BITS THEN RankUpto(k, i)' ELSE 0)
    <3>1. RankUpto(k, i)' = RankUpto(k, i)
      <4>1. i' = i  BY <1>2
      <4>2. \A j : RankUpto(k, j)' = RankUpto(k, j)  BY <1>6
      <4>3. QED  BY <4>1, <4>2 DEF RankUpto
    <3>2. Shorter(k)' = Shorter(k) /\ FirstAt(k)' = FirstAt(k)  BY <1>6
    <3>3. sym_idx'[k] = sym_idx[k] /\ code'[k] = code[k]  BY <1>2
    <3>4. QED  BY <2>1, <3>1, <3>2, <3>3
  <2>3. QED  BY <2>2 DEF PlacesInv
<1>10. SymbolsInv'
  <2>1. 0 .. i - 1 = {}  BY <1>7
  <2>2. \A y \in Indices : Meant(y)  BY <1>1, <2>1 DEF HInv, LengthsInv, Meant
  <2>3. \A y \in Indices : Meant(y)'  BY <1>5, <2>2
  <2>4. 0 .. i' - 1 = {} /\ pc' # "ready" /\ l' = MAX_HUFFMAN_BITS + 1  BY <1>2, <1>7, <2>1
  <2>5. QED  BY <2>3, <2>4 DEF SymbolsInv, Indices
<1>11. ResultInv'  BY <1>1, <1>2, <1>5 DEF HInv, ResultInv
<1>12. AnswerInv'
  <2>1. bits = UNINIT  BY <1>1 DEF HInv, AnswerInv
  <2>2. QED  BY <1>2, <2>1 DEF AnswerInv
<1>13. QED  BY <1>5, <1>8, <1>9, <1>10, <1>11, <1>12 DEF HInv

LEMMA ReadyKeeps ==
  ASSUME HInv, Ready
  PROVE  HInv'
<1>1. TypeOK /\ CodeInv /\ pc = "symbols" /\ i >= n  BY CodeTyped DEF HInv, Ready
<1>2. /\ pc' = "ready" /\ UNCHANGED <<args, decoder>> /\ UNCHANGED <<l, i, sym_idx>> /\ code' = code
      /\ bits' = bits /\ result' = "true"
  BY DEF Ready, locals, answer
<1>3. code' \in [Lengths -> 0 .. WORD - 1 \cup {UNINIT}]  BY <1>1, <1>2 DEF TypeOK
<1>4. TypeOK' /\ LimitsInv' /\ Fits' = Fits /\ n' = n /\ \A y \in Indices : Meant(y)' <=> Meant(y)
  BY <1>2, <1>3, TablesKept
<1>5. lengths' = lengths /\ \A x : Place(x)' = Place(x)  BY <1>1, <1>2, SameCode
<1>6. /\ l = MAX_HUFFMAN_BITS + 1 /\ i = n
      /\ \A x \in 0 .. i - 1 : lengths[x] # 0 => syms[Place(x)] = x
      /\ \A y \in Indices : Meant(y)
  BY <1>1, Counters DEF HInv, SymbolsInv
<1>7. LengthsInv' /\ PlacesInv'  BY <1>2 DEF LengthsInv, PlacesInv
<1>8. SymbolsInv'
  <2>1. syms' = syms  BY <1>2 DEF decoder
  <2>2. \A y \in Indices : Meant(y)'  BY <1>4, <1>6
  <2>3. \A x \in 0 .. i' - 1 : lengths'[x] # 0 => syms'[Place(x)'] = x  BY <1>2, <1>5, <1>6, <2>1
  <2>4. l' = MAX_HUFFMAN_BITS + 1 /\ i' = n'  BY <1>2, <1>4, <1>6
  <2>5. QED  BY <2>2, <2>3, <2>4 DEF SymbolsInv, Indices
<1>9. ResultInv'
  <2>1. Fits  BY <1>6, FitsAtEnd
  <2>2. QED  BY <1>2, <1>4, <2>1 DEF ResultInv
<1>10. AnswerInv'
  <2>1. bits = UNINIT  BY <1>1 DEF HInv, AnswerInv
  <2>2. QED  BY <1>2, <2>1 DEF AnswerInv
<1>11. QED  BY <1>4, <1>7, <1>8, <1>9, <1>10 DEF HInv

-----------------------------------------------------------------------------
(* One more symbol: it takes the next place and the next codeword of its   *)
(* length, which are those its rank calls for.                             *)
LEMMA SymbolTakes ==
  ASSUME HInv, SymbolStep
  PROVE  /\ CodeInv /\ i \in Symbols /\ lengths[i] \in Lengths /\ i \in 0 .. n /\ i < n /\ i \in Nat /\ Fits
         /\ lengths[i] # 0 =>
              /\ sym_idx[lengths[i]] = Place(i) /\ Place(i) \in 0 .. n - 1 /\ Place(i) + 1 \in 0 .. n
              /\ FirstAt(lengths[i]) + Rank(i) \in Nat /\ FirstAt(lengths[i]) + Rank(i) + 1 < WORD
         /\ lengths[i] # 0 /\ lengths[i] <= HUFFMAN_LOOKUP_TABLE_BITS =>
              code[lengths[i]] = FirstAt(lengths[i]) + Rank(i)
<1>1. TypeOK /\ CodeInv /\ pc = "symbols" /\ i < n  BY CodeTyped DEF HInv, SymbolStep
<1>2. n \in Nat /\ i \in 0 .. n /\ i \in Nat  BY <1>1, Counters
<1>3. i \in Symbols /\ lengths[i] \in Lengths  BY <1>1, <1>2 DEF Symbols, CodeInv
<1>4. Fits  BY <1>1, FitsAtEnd DEF HInv, SymbolsInv
<1>5. ASSUME lengths[i] # 0
      PROVE  /\ sym_idx[lengths[i]] = Place(i) /\ Place(i) \in 0 .. n - 1 /\ Place(i) + 1 \in 0 .. n
             /\ FirstAt(lengths[i]) + Rank(i) \in Nat /\ FirstAt(lengths[i]) + Rank(i) + 1 < WORD
             /\ lengths[i] <= HUFFMAN_LOOKUP_TABLE_BITS =>
                  code[lengths[i]] = FirstAt(lengths[i]) + Rank(i)
  <2>1. PICK k \in Lengths \ {0} : k = lengths[i]  BY <1>3, <1>5
  <2>2. Rank(i) = RankUpto(k, i)  BY <2>1 DEF Rank
  <2>3. /\ sym_idx[k] = Shorter(k) + RankUpto(k, i)
        /\ k <= HUFFMAN_LOOKUP_TABLE_BITS => code[k] = FirstAt(k) + RankUpto(k, i)
    BY <1>1 DEF HInv, PlacesInv
  <2>4. Place(i) \in 0 .. n - 1  BY <1>1, <1>3, <1>5, PlaceOnce
  <2>5. Place(i) = Shorter(k) + Rank(i)  BY <2>1 DEF Place
  <2>6. PICK f \in Nat, m \in Nat, r \in Nat, t \in Nat :
          f = FirstAt(k) /\ m = count(k) /\ r = Rank(i) /\ t = 2 ^ k
    BY <1>1, <1>3, <1>5, FirstIs, CountIs, RankInCount, Units
  <2>7. r < m  BY <1>1, <1>3, <1>5, <2>1, <2>6, RankInCount
  <2>8. f + m <= t /\ t <= Size  BY <1>1, <1>4, <2>6, CoveredFits, FirstNext
  <2>9. f + r \in Nat /\ f + r + 1 < WORD  BY <2>6, <2>7, <2>8, Sizes
  <2>10. Place(i) + 1 \in 0 .. n  BY <1>2, <2>4
  <2>11. FirstAt(lengths[i]) + Rank(i) = f + r  BY <2>1, <2>6
  <2>12. QED  BY <2>1, <2>2, <2>3, <2>4, <2>5, <2>9, <2>10, <2>11
<1>6. QED  BY <1>1, <1>2, <1>3, <1>4, <1>5

LEMMA SymbolPlaces ==
  ASSUME HInv, SymbolStep
  PROVE  /\ sym_idx' \in [Lengths -> 0 .. n \cup {UNINIT}]
         /\ code' \in [Lengths -> 0 .. WORD - 1 \cup {UNINIT}]
         /\ \A k \in Lengths \ {0} :
              /\ sym_idx'[k] = Shorter(k) + RankUpto(k, i + 1)
              /\ code'[k] = FirstAt(k)
                            + (IF k <= HUFFMAN_LOOKUP_TABLE_BITS THEN RankUpto(k, i + 1) ELSE 0)
<1>1. TypeOK /\ pc = "symbols"  BY DEF HInv, SymbolStep
<1>2. /\ CodeInv /\ lengths[i] \in Lengths /\ i \in 0 .. n /\ i < n /\ i \in Nat
  BY SymbolTakes
<1>3. PICK d \in Lengths : d = lengths[i]  BY <1>2
<1>4. sym_idx \in [Lengths -> 0 .. n \cup {UNINIT}] /\ code \in [Lengths -> 0 .. WORD - 1 \cup {UNINIT}]
  BY <1>1 DEF TypeOK
<1>5. sym_idx' = IF d = 0 THEN sym_idx ELSE [sym_idx EXCEPT ![d] = sym_idx[d] + 1]
  BY <1>3 DEF SymbolStep
<1>6. code' = IF d = 0 \/ ~ (d <= HUFFMAN_LOOKUP_TABLE_BITS)
              THEN code ELSE [code EXCEPT ![d] = code[d] + 1]
  BY <1>3 DEF SymbolStep
<1>7. d # 0 => sym_idx[d] + 1 \in 0 .. n  BY <1>3, SymbolTakes
<1>8. d # 0 /\ d <= HUFFMAN_LOOKUP_TABLE_BITS => code[d] + 1 \in 0 .. WORD - 1
  <2>1. ASSUME d # 0, d <= HUFFMAN_LOOKUP_TABLE_BITS  PROVE code[d] + 1 \in 0 .. WORD - 1
    <3>1. code[d] \in Nat /\ code[d] + 1 < WORD  BY <1>3, <2>1, SymbolTakes
    <3>2. QED  BY <3>1, Sizes
  <2>2. QED  BY <2>1
<1>9. sym_idx' \in [Lengths -> 0 .. n \cup {UNINIT}]  BY <1>4, <1>5, <1>7
<1>10. code' \in [Lengths -> 0 .. WORD - 1 \cup {UNINIT}]  BY <1>4, <1>6, <1>8
<1>11. ASSUME NEW k \in Lengths \ {0}
       PROVE  /\ sym_idx'[k] = Shorter(k) + RankUpto(k, i + 1)
              /\ code'[k] = FirstAt(k)
                            + (IF k <= HUFFMAN_LOOKUP_TABLE_BITS THEN RankUpto(k, i + 1) ELSE 0)
  <2>1. RankUpto(k, i) \in Nat /\ RankUpto(k, i + 1) = RankUpto(k, i) + (IF d = k THEN 1 ELSE 0)
    BY <1>2, <1>3, Ranks
  <2>2. /\ sym_idx[k] = Shorter(k) + RankUpto(k, i)
        /\ code[k] = FirstAt(k) + (IF k <= HUFFMAN_LOOKUP_TABLE_BITS THEN RankUpto(k, i) ELSE 0)
    BY <1>1 DEF HInv, PlacesInv
  <2>3. Shorter(k) \in Nat /\ FirstAt(k) \in Nat  BY <1>2, ShorterNext, FirstIs
  <2>4. sym_idx'[k] = IF d = k THEN sym_idx[k] + 1 ELSE sym_idx[k]  BY <1>4, <1>5
  <2>5. code'[k] = IF d = k /\ d <= HUFFMAN_LOOKUP_TABLE_BITS THEN code[k] + 1 ELSE code[k]
    BY <1>4, <1>6
  <2>6. sym_idx'[k] = Shorter(k) + RankUpto(k, i + 1)  BY <2>1, <2>2, <2>3, <2>4
  <2>7. CASE k <= HUFFMAN_LOOKUP_TABLE_BITS  BY <2>1, <2>2, <2>3, <2>5, <2>6, <2>7
  <2>8. CASE ~ (k <= HUFFMAN_LOOKUP_TABLE_BITS)  BY <2>2, <2>5, <2>6, <2>8
  <2>9. QED  BY <2>7, <2>8
<1>12. QED  BY <1>9, <1>10, <1>11

LEMMA SymbolEntries ==
  ASSUME HInv, SymbolStep
  PROVE  /\ table' \in [0 .. 2 ^ HUFFMAN_LOOKUP_TABLE_BITS - 1 ->
                          [sym : Symbols \cup {UNINIT}, len : 0 .. HUFFMAN_LOOKUP_TABLE_BITS]]
         /\ syms' \in [0 .. MAX_HUFFMAN_SYMBOLS - 1 -> Symbols \cup {UNINIT}]
         /\ \A y \in Indices :
              table'[y] = IF InTable(y, i) THEN [sym |-> i, len |-> lengths[i]] ELSE table[y]
         /\ \A x \in 0 .. i : lengths[x] # 0 => syms'[Place(x)] = x
<1>1. TypeOK /\ pc = "symbols"  BY DEF HInv, SymbolStep
<1>2. CodeInv /\ i \in Symbols /\ lengths[i] \in Lengths /\ i \in 0 .. n /\ i < n /\ i \in Nat
  BY SymbolTakes
<1>3. PICK d \in Lengths : d = lengths[i]  BY <1>2
<1>4. d \in Nat /\ HUFFMAN_LOOKUP_TABLE_BITS \in Nat /\ n \in Nat  BY <1>1, Units, TableSize, Counters
<1>5. syms \in [0 .. MAX_HUFFMAN_SYMBOLS - 1 -> Symbols \cup {UNINIT}] /\ n <= MAX_HUFFMAN_SYMBOLS
      /\ table \in [Indices -> [sym : Symbols \cup {UNINIT}, len : 0 .. HUFFMAN_LOOKUP_TABLE_BITS]]
  BY <1>1, <1>4, Sizes DEF TypeOK, Indices
<1>6. syms' = IF d = 0 THEN syms ELSE [syms EXCEPT ![sym_idx[d]] = i]  BY <1>3 DEF SymbolStep
<1>7. syms' \in [0 .. MAX_HUFFMAN_SYMBOLS - 1 -> Symbols \cup {UNINIT}]  BY <1>2, <1>5, <1>6
<1>8. ASSUME NEW y \in Indices
      PROVE  table'[y] = IF InTable(y, i) THEN [sym |-> i, len |-> lengths[i]] ELSE table[y]
  <2>1. CASE d = 0 \/ ~ (d <= HUFFMAN_LOOKUP_TABLE_BITS)
    <3>1. table' = table  BY <1>3, <2>1 DEF SymbolStep
    <3>2. ~ (d \in 1 .. HUFFMAN_LOOKUP_TABLE_BITS)  BY <1>4, <2>1
    <3>3. ~ InTable(y, i)  BY <1>3, <3>2 DEF InTable
    <3>4. QED  BY <3>1, <3>3
  <2>2. CASE d # 0 /\ d <= HUFFMAN_LOOKUP_TABLE_BITS
    <3>1. table_insert(i, d, code[d])  BY <1>3, <2>2 DEF SymbolStep
    <3>2. code[d] = FirstAt(d) + Rank(i)  BY <1>3, <2>2, SymbolTakes
    <3>3. d \in 1 .. HUFFMAN_LOOKUP_TABLE_BITS  BY <1>4, <2>2
    <3>4. InTable(y, i) <=> First(y, d, HUFFMAN_LOOKUP_TABLE_BITS) = code[d]
      BY <1>3, <3>2, <3>3 DEF InTable
    <3>5. DOMAIN table = Indices  BY <1>5
    <3>6. table'[y] = IF First(y, d, HUFFMAN_LOOKUP_TABLE_BITS) = code[d]
                      THEN [sym |-> i, len |-> d] ELSE table[y]
      BY <3>1, <3>5 DEF table_insert
    <3>7. QED  BY <1>3, <3>4, <3>6
  <2>3. QED  BY <2>1, <2>2
<1>9. table' \in [Indices -> [sym : Symbols \cup {UNINIT}, len : 0 .. HUFFMAN_LOOKUP_TABLE_BITS]]
  <2>1. DOMAIN table = Indices  BY <1>5
  <2>2. table' = [y \in Indices |-> table'[y]]  BY <2>1, <1>5 DEF SymbolStep, table_insert
  <2>3. ASSUME NEW y \in Indices
        PROVE  table'[y] \in [sym : Symbols \cup {UNINIT}, len : 0 .. HUFFMAN_LOOKUP_TABLE_BITS]
    <3>1. CASE InTable(y, i)
      <4>1. lengths[i] \in 0 .. HUFFMAN_LOOKUP_TABLE_BITS  BY <1>4, <3>1 DEF InTable
      <4>2. QED  BY <1>2, <1>8, <3>1, <4>1
    <3>2. CASE ~ InTable(y, i)  BY <1>5, <1>8, <3>2
    <3>3. QED  BY <3>1, <3>2
  <2>4. QED  BY <2>2, <2>3
<1>10. ASSUME NEW x \in 0 .. i, lengths[x] # 0  PROVE syms'[Place(x)] = x
  <2>1. x \in Symbols  BY <1>2, <1>4 DEF Symbols
  <2>2. Place(x) \in 0 .. n - 1  BY <1>2, <1>10, <2>1, PlaceOnce
  <2>3. Place(x) \in 0 .. MAX_HUFFMAN_SYMBOLS - 1  BY <1>4, <1>5, <2>2, Sizes
  <2>4. CASE x = i
    <3>1. sym_idx[d] = Place(x) /\ d # 0  BY <1>3, <1>10, <2>4, SymbolTakes
    <3>2. QED  BY <1>5, <1>6, <2>3, <2>4, <3>1
  <2>5. CASE x # i
    <3>1. x \in 0 .. i - 1  BY <1>2, <2>5
    <3>2. syms[Place(x)] = x  BY <1>1, <1>10, <3>1 DEF HInv, SymbolsInv
    <3>3. CASE d = 0  BY <1>6, <3>2, <3>3
    <3>4. CASE d # 0
      <4>1. sym_idx[d] = Place(i) /\ lengths[i] # 0  BY <1>3, <3>4, SymbolTakes
      <4>2. Place(x) # Place(i)  BY <1>2, <1>10, <2>1, <2>5, <4>1, PlaceOnce
      <4>3. QED  BY <1>5, <1>6, <2>3, <3>2, <3>4, <4>1, <4>2
    <3>5. QED  BY <3>3, <3>4
  <2>6. QED  BY <2>4, <2>5
<1>11. QED  BY <1>7, <1>8, <1>9, <1>10 DEF Indices

LEMMA SymbolKeeps ==
  ASSUME HInv, SymbolStep
  PROVE  HInv'
<1>1. TypeOK /\ CodeInv /\ pc = "symbols" /\ i < n /\ i \in Nat /\ n \in Nat /\ i \in 0 .. n
  BY SymbolTakes, Counters DEF HInv, SymbolStep
<1>2. UNCHANGED <<args, sentinel_bits, offset_first_sym_idx, l, pc, result, answer>> /\ i' = i + 1
  BY DEF SymbolStep
<1>3. /\ n' = n /\ lengths' = lengths /\ Symbols' = Symbols /\ Fits' = Fits
      /\ \A k : Covered(k)' = Covered(k) /\ FirstAt(k)' = FirstAt(k) /\ Shorter(k)' = Shorter(k)
      /\ \A x : Rank(x)' = Rank(x) /\ Place(x)' = Place(x)
      /\ \A w, x : InTable(w, x)' = InTable(w, x)
  BY <1>1, <1>2, SameCode
<1>4. i' \in 0 .. n' /\ 0 .. i' - 1 = 0 .. i  BY <1>1, <1>2, <1>3
<1>5. TypeOK'
  <2>1. /\ sym_idx' \in [Lengths -> 0 .. n \cup {UNINIT}]
        /\ code' \in [Lengths -> 0 .. WORD - 1 \cup {UNINIT}]
    BY SymbolPlaces
  <2>2. /\ table' \in [0 .. 2 ^ HUFFMAN_LOOKUP_TABLE_BITS - 1 ->
                         [sym : Symbols \cup {UNINIT}, len : 0 .. HUFFMAN_LOOKUP_TABLE_BITS]]
        /\ syms' \in [0 .. MAX_HUFFMAN_SYMBOLS - 1 -> Symbols \cup {UNINIT}]
    BY SymbolEntries
  <2>3. QED  BY <1>1, <1>2, <1>3, <1>4, <2>1, <2>2 DEF TypeOK
<1>6. LimitsInv'  BY <1>2, <1>3 DEF HInv, LimitsInv, uint16
<1>7. LengthsInv'  BY <1>1, <1>2 DEF LengthsInv
<1>8. PlacesInv'
  <2>1. ASSUME NEW k \in Lengths \ {0}
        PROVE  /\ sym_idx'[k] = Shorter(k)' + RankUpto(k, i)'
               /\ code'[k] = FirstAt(k)' + (IF k <= HUFFMAN_LOOKUP_TABLE_BITS THEN RankUpto(k, i)' ELSE 0)
    <3>1. RankUpto(k, i)' = RankUpto(k, i + 1)  BY <1>2, <1>3 DEF RankUpto
    <3>2. Shorter(k)' = Shorter(k) /\ FirstAt(k)' = FirstAt(k)  BY <1>3
    <3>3. QED  BY <3>1, <3>2, SymbolPlaces
  <2>2. QED  BY <2>1 DEF PlacesInv
<1>9. SymbolsInv'
  <2>1. ASSUME NEW y \in Indices  PROVE Meant(y)'
    <3>1. table'[y] = IF InTable(y, i) THEN [sym |-> i, len |-> lengths[i]] ELSE table[y]
      BY SymbolEntries
    <3>2. /\ \A x : InTable(y, x)' = InTable(y, x)
          /\ Meant(y)
      BY <1>1, <1>3 DEF HInv, SymbolsInv
    <3>3. CASE InTable(y, i)
      <4>1. table'[y] = [sym |-> i, len |-> lengths'[i]] /\ i \in 0 .. i' - 1 /\ InTable(y, i)
        BY <1>1, <1>3, <1>4, <3>1, <3>3
      <4>2. \E x \in 0 .. i' - 1 : InTable(y, x) /\ table'[y] = [sym |-> x, len |-> lengths'[x]]
        BY <4>1
      <4>3. QED  BY <3>2, <4>2 DEF Meant
    <3>4. CASE ~ InTable(y, i)
      <4>1. table'[y] = table[y]  BY <3>1, <3>4
      <4>2. CASE table[y] = NoEntry /\ \A x \in 0 .. i - 1 : ~ InTable(y, x)
        <5>1. \A x \in 0 .. i : x \in 0 .. i - 1 \/ x = i  BY <1>1
        <5>2. \A x \in 0 .. i' - 1 : ~ InTable(y, x)  BY <1>4, <3>4, <4>2, <5>1
        <5>3. QED  BY <3>2, <4>1, <4>2, <5>2 DEF Meant, NoEntry
      <4>3. CASE \E x \in 0 .. i - 1 : InTable(y, x) /\ table[y] = [sym |-> x, len |-> lengths[x]]
        <5>1. \A x \in 0 .. i - 1 : x \in 0 .. i' - 1  BY <1>1, <1>2
        <5>2. \E x \in 0 .. i' - 1 : InTable(y, x) /\ table'[y] = [sym |-> x, len |-> lengths'[x]]
          BY <1>3, <4>1, <4>3, <5>1
        <5>3. QED  BY <3>2, <5>2 DEF Meant
      <4>4. QED  BY <3>2, <4>2, <4>3 DEF Meant
    <3>5. QED  BY <3>3, <3>4
  <2>2. \A x \in 0 .. i' - 1 : lengths'[x] # 0 => syms'[Place(x)'] = x
    BY <1>3, <1>4, SymbolEntries
  <2>3. l' = MAX_HUFFMAN_BITS + 1 /\ pc' # "ready"  BY <1>1, <1>2 DEF HInv, SymbolsInv
  <2>4. QED  BY <2>1, <2>2, <2>3 DEF SymbolsInv, Indices
<1>10. ResultInv'  BY <1>2, <1>3 DEF HInv, ResultInv
<1>11. AnswerInv'
  <2>1. bits = UNINIT  BY <1>1 DEF HInv, AnswerInv
  <2>2. QED  BY <1>2, <2>1 DEF AnswerInv, answer
<1>12. QED  BY <1>5, <1>6, <1>7, <1>8, <1>9, <1>10, <1>11 DEF HInv

-----------------------------------------------------------------------------
(* Looking a word up.  In a decoder that is ready every symbol has its     *)
(* place and every index of the table what it means.                       *)
LEMMA DecoderReady ==
  ASSUME HInv, pc = "ready"
  PROVE  /\ CodeInv /\ Fits /\ n \in Nat /\ i = n /\ l = MAX_HUFFMAN_BITS + 1
         /\ \A x \in Symbols : lengths[x] # 0 => syms[Place(x)] = x /\ Place(x) \in DOMAIN syms
         /\ \A y \in Indices : Meant(y)
         /\ \A k \in 1 .. MAX_HUFFMAN_BITS :
              /\ sentinel_bits[k] = Covered(k)
              /\ offset_first_sym_idx[k] = uint16(Shorter(k) - FirstAt(k))
<1>1. TypeOK /\ CodeInv  BY CodeTyped DEF HInv
<1>2. n \in Nat /\ MAX_HUFFMAN_BITS \in Nat /\ n <= MAX_HUFFMAN_SYMBOLS /\ MAX_HUFFMAN_SYMBOLS \in Nat
  BY <1>1, Counters, Sizes DEF TypeOK
<1>3. /\ l = MAX_HUFFMAN_BITS + 1 /\ i = n
      /\ \A x \in 0 .. i - 1 : lengths[x] # 0 => syms[Place(x)] = x
      /\ \A y \in Indices : Meant(y)
  BY DEF HInv, SymbolsInv
<1>4. Fits  BY <1>3, FitsAtEnd
<1>5. 1 .. l - 1 = 1 .. MAX_HUFFMAN_BITS /\ 0 .. i - 1 = Symbols  BY <1>2, <1>3 DEF Symbols
<1>6. ASSUME NEW x \in Symbols, lengths[x] # 0  PROVE Place(x) \in DOMAIN syms
  <2>1. Place(x) \in 0 .. n - 1  BY <1>1, <1>6, PlaceOnce
  <2>2. DOMAIN syms = 0 .. MAX_HUFFMAN_SYMBOLS - 1  BY <1>1 DEF TypeOK
  <2>3. QED  BY <1>2, <2>1, <2>2
<1>7. QED  BY <1>1, <1>2, <1>3, <1>4, <1>5, <1>6 DEF HInv, LimitsInv

LEMMA LookupFinds ==
  ASSUME HInv, pc = "ready", NEW w \in Words
  PROVE  /\ Lookup(w).len # 0 => Found(w, Lookup(w).sym, Lookup(w).len)
         /\ Lookup(w).len = 0 => ~ (w < Covered(HUFFMAN_LOOKUP_TABLE_BITS))
<1>1. CodeInv /\ n \in Nat /\ i = n /\ \A y \in Indices : Meant(y)  BY DecoderReady
<1>2. w \in Nat /\ Index(w) \in Indices /\ Lookup(w) = table[Index(w)]
  BY IndexOfWord DEF Lookup, Index
<1>3. 0 .. i - 1 = Symbols  BY <1>1 DEF Symbols
<1>4. \/ table[Index(w)] = NoEntry /\ \A x \in Symbols : ~ InTable(Index(w), x)
      \/ \E x \in Symbols : InTable(Index(w), x) /\ table[Index(w)] = [sym |-> x, len |-> lengths[x]]
  BY <1>1, <1>2, <1>3 DEF Meant
<1>5. CASE table[Index(w)] = NoEntry /\ \A x \in Symbols : ~ InTable(Index(w), x)
  <2>1. Lookup(w).len = 0  BY <1>2, <1>5 DEF NoEntry
  <2>2. ASSUME w < Covered(HUFFMAN_LOOKUP_TABLE_BITS)  PROVE FALSE
    <3>1. PICK k \in 1 .. HUFFMAN_LOOKUP_TABLE_BITS : Covered(k - 1) <= w /\ w < Covered(k)
      BY <1>1, <1>2, <2>2, TableSize, SomeLength
    <3>2. k \in Lengths  BY TableSize, Sizes DEF Lengths
    <3>3. PICK x \in Symbols : lengths[x] = k /\ Starts(w, x)
      BY <1>1, <1>2, <3>1, <3>2, CoveredStarts
    <3>4. InTable(Index(w), x)  BY <1>1, <3>3, InTableIs
    <3>5. QED  BY <1>5, <3>4
  <2>3. QED  BY <2>1, <2>2
<1>6. CASE \E x \in Symbols : InTable(Index(w), x) /\ table[Index(w)] = [sym |-> x, len |-> lengths[x]]
  <2>1. PICK x \in Symbols : InTable(Index(w), x) /\ table[Index(w)] = [sym |-> x, len |-> lengths[x]]
    BY <1>6
  <2>2. lengths[x] \in 1 .. HUFFMAN_LOOKUP_TABLE_BITS  BY <2>1 DEF InTable
  <2>3. Starts(w, x)  BY <1>1, <2>1, <2>2, InTableIs
  <2>4. Lookup(w).sym = x /\ Lookup(w).len = lengths[x]  BY <1>2, <2>1
  <2>5. lengths[x] # 0  BY <2>2
  <2>6. QED  BY <2>3, <2>4, <2>5 DEF Found
<1>7. QED  BY <1>4, <1>5, <1>6

(* A difference stored in 16 bits gives the sum back.                      *)
LEMMA OffsetAdds ==
  ASSUME NEW a \in Nat, NEW f \in Nat, NEW r \in Nat, a + r < WORD, f < WORD
  PROVE  uint16(uint16(a - f) + (f + r)) = a + r
<1>1. WORD \in Nat \ {0}  BY Sizes
<1>2. PICK m \in Nat \ {0} : m = WORD  BY <1>1
<1>3. \A v \in 0 .. m - 1 : v % m = v  OBVIOUS
<1>4. \A v \in 0 .. m - 1 : (v + m) % m = v  OBVIOUS
<1>5. \A v \in -m .. -1 : v % m = v + m
  <2>1. TAKE v \in -m .. -1
  <2>2. v + m \in 0 .. m - 1 /\ v \in Int  OBVIOUS
  <2>3. QED  BY <2>2
<1>6. a + r \in 0 .. m - 1 /\ (a + r) % m = a + r  BY <1>2, <1>3
<1>7. CASE f <= a
  <2>1. a - f \in 0 .. m - 1  BY <1>2, <1>7
  <2>2. (a - f) % m = a - f  BY <1>3, <2>1
  <2>3. (a - f) + (f + r) = a + r  OBVIOUS
  <2>4. QED  BY <1>2, <1>6, <2>2, <2>3 DEF uint16
<1>8. CASE a < f
  <2>1. a - f \in -m .. -1  BY <1>2, <1>8
  <2>2. (a - f) % m = (a - f) + m  BY <1>5, <2>1
  <2>3. ((a - f) + m) + (f + r) = (a + r) + m  OBVIOUS
  <2>4. ((a + r) + m) % m = a + r  BY <1>4, <1>6
  <2>5. QED  BY <1>2, <2>2, <2>3, <2>4 DEF uint16
<1>9. QED  BY <1>7, <1>8

(* A word past the codewords of the table: the first sentinel above it     *)
(* tells its length, and the length its place.                             *)
LEMMA CanonicalFinds ==
  ASSUME HInv, pc = "ready", NEW w \in Words, Lookup(w).len = 0, InCode(w) # {}
  PROVE  LET k == Min(InCode(w))
             idx == uint16(offset_first_sym_idx[k] + First(w, k, MAX_HUFFMAN_BITS))
         IN  idx \in DOMAIN syms /\ Found(w, syms[idx], k)
<1> DEFINE T == HUFFMAN_LOOKUP_TABLE_BITS
           k == Min(InCode(w))
           idx == uint16(offset_first_sym_idx[k] + First(w, k, MAX_HUFFMAN_BITS))
<1>1. /\ CodeInv /\ Fits /\ n \in Nat
      /\ \A x \in Symbols : lengths[x] # 0 => syms[Place(x)] = x /\ Place(x) \in DOMAIN syms
      /\ \A j \in 1 .. MAX_HUFFMAN_BITS :
           /\ sentinel_bits[j] = Covered(j)
           /\ offset_first_sym_idx[j] = uint16(Shorter(j) - FirstAt(j))
  BY DecoderReady
<1>2. T \in Nat /\ MAX_HUFFMAN_BITS \in Nat /\ T \in 1 .. MAX_HUFFMAN_BITS  BY TableSize, Sizes
<1>3. w \in Nat  BY IndexOfWord
<1>4. k \in InCode(w) /\ \A j \in InCode(w) : k <= j
  <2> DEFINE S == InCode(w)
  <2>1. S \subseteq Nat /\ S # {}  BY <1>2 DEF InCode
  <2> HIDE DEF S
  <2>2. \E j \in S : \A x \in S : j <= x  BY <2>1, LeastNumber
  <2>3. Min(S) \in S /\ \A x \in S : Min(S) <= x  BY <2>2 DEF Min
  <2>4. QED  BY <2>3 DEF S
<1> HIDE DEF k
<1>5. k \in T + 1 .. MAX_HUFFMAN_BITS /\ k \in Nat /\ k \in 1 .. MAX_HUFFMAN_BITS /\ k \in Lengths /\ k # 0
  BY <1>2, <1>4 DEF InCode, Lengths
<1>6. w < Covered(k)  BY <1>1, <1>4, <1>5 DEF InCode
<1>7. k - 1 \in Lengths /\ Covered(k - 1) \in Nat /\ k - 1 \in Nat /\ k - 1 >= T
  BY <1>1, <1>2, <1>5, Units, CoveredNext
<1>8. ~ (w < Covered(k - 1))
  <2>1. CASE k - 1 = T  BY <2>1, LookupFinds
  <2>2. CASE k - 1 # T
    <3>1. k - 1 \in T + 1 .. MAX_HUFFMAN_BITS /\ k - 1 \in 1 .. MAX_HUFFMAN_BITS
      BY <1>2, <1>5, <1>7, <2>2
    <3>2. k - 1 \notin InCode(w)
      <4>1. ~ (k <= k - 1)  BY <1>5
      <4>2. QED  BY <1>4, <4>1
    <3>3. ~ (w < sentinel_bits[k - 1])  BY <3>1, <3>2 DEF InCode
    <3>4. QED  BY <1>1, <3>1, <3>3
  <2>3. QED  BY <2>1, <2>2
<1>9. Covered(k - 1) <= w  BY <1>3, <1>7, <1>8
<1>10. PICK x \in Symbols : lengths[x] = k /\ Starts(w, x) /\ w \div Unit(k) = FirstAt(k) + Rank(x)
  BY <1>1, <1>3, <1>5, <1>6, <1>9, CoveredStarts
<1>11. PICK a \in Nat, f \in Nat, r \in Nat : a = Shorter(k) /\ f = FirstAt(k) /\ r = Rank(x)
  BY <1>1, <1>5, <1>10, ShorterNext, FirstIs, RankInCount
<1>12. Place(x) = a + r /\ Place(x) \in 0 .. n - 1
  BY <1>1, <1>5, <1>10, <1>11, PlaceOnce DEF Place
<1>13. a + r < WORD /\ f < WORD
  <2>1. n <= MAX_HUFFMAN_SYMBOLS  BY <1>1, Sizes DEF CodeInv
  <2>2. f <= 2 ^ k /\ 2 ^ k <= Size /\ 2 ^ k \in Nat
    BY <1>1, <1>5, <1>11, CoveredFits, FirstNext, Units
  <2>3. QED  BY <1>1, <1>12, <2>1, <2>2, Sizes
<1>14. First(w, k, MAX_HUFFMAN_BITS) = f + r  BY <1>10, <1>11 DEF First, Unit
<1>15. offset_first_sym_idx[k] = uint16(a - f)  BY <1>1, <1>5, <1>11
<1>16. idx = a + r
  <2>1. uint16(uint16(a - f) + (f + r)) = a + r  BY <1>13, OffsetAdds
  <2>2. idx = uint16(uint16(a - f) + (f + r))  BY <1>14, <1>15
  <2>3. QED  BY <2>1, <2>2
<1> HIDE DEF idx
<1>17. idx \in DOMAIN syms /\ syms[idx] = x  BY <1>1, <1>5, <1>10, <1>12, <1>16
<1>18. idx \in DOMAIN syms /\ Found(w, syms[idx], k)  BY <1>10, <1>17 DEF Found
<1>19. QED  BY <1>18 DEF idx, k

LEMMA NothingFound ==
  ASSUME HInv, pc = "ready", NEW w \in Words, Lookup(w).len = 0, InCode(w) = {}
  PROVE  \A x \in Symbols : ~ Starts(w, x)
<1> DEFINE T == HUFFMAN_LOOKUP_TABLE_BITS
<1>1. /\ CodeInv
      /\ \A j \in 1 .. MAX_HUFFMAN_BITS : sentinel_bits[j] = Covered(j)
  BY DecoderReady
<1>2. T \in Nat /\ MAX_HUFFMAN_BITS \in Nat /\ T \in 1 .. MAX_HUFFMAN_BITS /\ MAX_HUFFMAN_BITS \in Lengths
  BY TableSize, Sizes DEF Lengths
<1>3. w \in Nat  BY IndexOfWord
<1>4. ~ (w < Covered(MAX_HUFFMAN_BITS))
  <2>1. CASE MAX_HUFFMAN_BITS = T
    <3>1. ~ (w < Covered(T))  BY LookupFinds
    <3>2. QED  BY <2>1, <3>1
  <2>2. CASE MAX_HUFFMAN_BITS # T
    <3>1. MAX_HUFFMAN_BITS \in T + 1 .. MAX_HUFFMAN_BITS /\ MAX_HUFFMAN_BITS \in 1 .. MAX_HUFFMAN_BITS
      BY <1>2, <2>2
    <3>2. QED  BY <1>1, <3>1 DEF InCode
  <2>3. QED  BY <2>1, <2>2
<1>5. ASSUME NEW x \in Symbols, Starts(w, x)  PROVE FALSE
  <2>1. lengths[x] # 0 /\ w < Start(x) + Unit(lengths[x])  BY <1>5 DEF Starts
  <2>2. lengths[x] \in Lengths /\ lengths[x] <= MAX_HUFFMAN_BITS  BY <1>1, <1>2 DEF CodeInv, Lengths
  <2>3. /\ Start(x) + Unit(lengths[x]) <= Covered(lengths[x])
        /\ Start(x) \in Nat /\ Unit(lengths[x]) \in Nat
    BY <1>1, <2>1, StartPlace
  <2>4. Covered(lengths[x]) <= Covered(MAX_HUFFMAN_BITS)  BY <1>1, <1>2, <2>2, CoveredGrows
  <2>5. Covered(lengths[x]) \in Nat /\ Covered(MAX_HUFFMAN_BITS) \in Nat  BY <1>1, <1>2, <2>2, CoveredNext
  <2>6. QED  BY <1>3, <1>4, <2>1, <2>3, <2>4, <2>5
<1>6. QED  BY <1>5

LEMMA DecodeKeeps ==
  ASSUME HInv, huffman_decode
  PROVE  HInv'
<1>1. TypeOK /\ CodeInv /\ pc = "ready"  BY CodeTyped DEF HInv, huffman_decode
<1>2. /\ pc' = "done" /\ UNCHANGED <<args, decoder>> /\ UNCHANGED <<l, i, sym_idx>> /\ code' = code
      /\ result' = result
  BY DEF huffman_decode, locals
<1>3. PICK w \in Words : bits' = w /\ (DecodeLookup(w) \/ DecodeCanonical(w) \/ NoSymbol(w))
  BY DEF huffman_decode
<1>4. code' \in [Lengths -> 0 .. WORD - 1 \cup {UNINIT}] /\ result' \in {"none", "true", "false"}
  BY <1>1, <1>2 DEF TypeOK
<1>5. /\ TypeOK' /\ LimitsInv' /\ Fits' = Fits
      /\ \A v, s, k : Found(v, s, k)' <=> Found(v, s, k)
      /\ \A v, s, k : NotFound(v, s, k)' <=> NotFound(v, s, k)
  BY <1>2, <1>4, TablesKept
<1>6. Fits  BY <1>1, DecoderReady
<1>7. Found(w, decoded', num_used_bits') \/ NotFound(w, decoded', num_used_bits')
  <2>1. CASE DecodeLookup(w)
    <3>1. Found(w, Lookup(w).sym, Lookup(w).len)  BY <1>1, <2>1, LookupFinds DEF DecodeLookup
    <3>2. QED  BY <2>1, <3>1 DEF DecodeLookup
  <2>2. CASE DecodeCanonical(w)
    <3> DEFINE k == Min(InCode(w))
               idx == uint16(offset_first_sym_idx[k] + First(w, k, MAX_HUFFMAN_BITS))
    <3>1. idx \in DOMAIN syms /\ Found(w, syms[idx], k)
      BY <1>1, <2>2, CanonicalFinds DEF DecodeCanonical
    <3>2. decoded' = (IF idx \in DOMAIN syms THEN syms[idx] ELSE UNINIT) /\ num_used_bits' = k
      BY <2>2 DEF DecodeCanonical
    <3> HIDE DEF idx, k
    <3>3. QED  BY <3>1, <3>2
  <2>3. CASE NoSymbol(w)
    <3>1. \A x \in Symbols : ~ Starts(w, x)  BY <1>1, <2>3, NothingFound DEF NoSymbol
    <3>2. QED  BY <2>3, <3>1 DEF NoSymbol, NotFound
  <2>4. QED  BY <1>3, <2>1, <2>2, <2>3
<1>8. LengthsInv' /\ PlacesInv' /\ SymbolsInv'  BY <1>2 DEF LengthsInv, PlacesInv, SymbolsInv
<1>9. ResultInv'  BY <1>1, <1>2, <1>5, <1>6 DEF HInv, ResultInv
<1>10. AnswerInv'
  <2>1. /\ Symbols' = Symbols /\ lengths' = lengths /\ bits' = w
        /\ \A x : Start(x)' = Start(x)
    BY <1>1, <1>2, <1>3, SameCode
  <2>2. \A x : Starts(bits, x)' <=> Starts(w, x)  BY <2>1 DEF Starts
  <2>3. Found(bits, decoded, num_used_bits)' \/ NotFound(bits, decoded, num_used_bits)'
    <3>1. CASE Found(w, decoded', num_used_bits')
      <4>1. Starts(bits, decoded)' <=> Starts(w, decoded')  BY <2>1 DEF Starts, Start
      <4>2. QED  BY <2>1, <3>1, <4>1 DEF Found
    <3>2. CASE NotFound(w, decoded', num_used_bits')  BY <2>1, <2>2, <3>2 DEF NotFound
    <3>3. QED  BY <1>7, <3>1, <3>2
  <2>4. QED  BY <1>2, <1>3, <1>5, <1>6, <2>3 DEF AnswerInv, Words
<1>11. QED  BY <1>5, <1>8, <1>9, <1>10 DEF HInv

-----------------------------------------------------------------------------
LEMMA HStep ==
  ASSUME HInv, [Next]_vars
  PROVE  HInv'
<1>1. CASE Next
  BY <1>1, LengthKeeps, NotPrefixCodeKeeps, LengthsEndKeeps, SymbolKeeps, ReadyKeeps, DecodeKeeps DEF Next
<1>2. CASE UNCHANGED vars
  <2>1. /\ UNCHANGED <<args, decoder>> /\ UNCHANGED <<l, i, sym_idx>> /\ code' = code
        /\ pc' = pc /\ result' = result /\ bits' = bits /\ decoded' = decoded
        /\ num_used_bits' = num_used_bits
    BY <1>2 DEF vars, locals, answer
  <2>2. TypeOK /\ CodeInv  BY CodeTyped DEF HInv
  <2>3. code' \in [Lengths -> 0 .. WORD - 1 \cup {UNINIT}]
        /\ pc' \in {"lengths", "symbols", "ready", "done"} /\ result' \in {"none", "true", "false"}
    BY <2>1, <2>2 DEF TypeOK
  <2>4. /\ TypeOK' /\ LimitsInv' /\ Fits' = Fits /\ n' = n
        /\ \A y \in Indices : Meant(y)' <=> Meant(y)
    BY <2>1, <2>3, TablesKept
  <2>5. /\ n' = n /\ lengths' = lengths /\ Symbols' = Symbols
        /\ \A k : FirstAt(k)' = FirstAt(k) /\ Shorter(k)' = Shorter(k)
        /\ \A k, j : RankUpto(k, j)' = RankUpto(k, j)
        /\ \A x : Place(x)' = Place(x) /\ Start(x)' = Start(x)
    BY <2>1, <2>2, SameCode
  <2>6. table' = table /\ syms' = syms /\ i' = i /\ l' = l /\ sym_idx' = sym_idx  BY <2>1 DEF decoder
  <2>7. LengthsInv'  BY <2>1, <2>5, <2>6 DEF HInv, LengthsInv, NoEntry
  <2>8. PlacesInv'
    <3>1. \A k : RankUpto(k, i)' = RankUpto(k, i)  BY <2>5, <2>6 DEF RankUpto
    <3>2. QED  BY <2>1, <2>5, <2>6, <3>1 DEF HInv, PlacesInv
  <2>9. SymbolsInv'  BY <2>1, <2>4, <2>5, <2>6 DEF HInv, SymbolsInv, Indices
  <2>10. ResultInv'  BY <2>1, <2>4 DEF HInv, ResultInv
  <2>11. AnswerInv'
    <3>1. \A x : Starts(bits, x)' <=> Starts(bits, x)  BY <2>1, <2>5 DEF Starts
    <3>2. Starts(bits, decoded)' <=> Starts(bits, decoded)  BY <2>1, <2>5 DEF Starts, Start, Rank, RankUpto
    <3>3. Found(bits, decoded, num_used_bits)' <=> Found(bits, decoded, num_used_bits)
      BY <2>1, <2>5, <3>2 DEF Found
    <3>4. NotFound(bits, decoded, num_used_bits)' <=> NotFound(bits, decoded, num_used_bits)
      BY <2>1, <2>5, <3>1 DEF NotFound
    <3>5. QED  BY <2>1, <2>4, <3>3, <3>4 DEF HInv, AnswerInv, Words
  <2>12. QED  BY <2>4, <2>7, <2>8, <2>9, <2>10, <2>11 DEF HInv
<1>3. QED  BY <1>1, <1>2

THEOREM Invariant == Spec => []HInv
<1>1. Init => HInv  BY HStart
<1>2. HInv /\ [Next]_vars => HInv'  BY HStep
<1>3. QED  BY <1>1, <1>2, PTL DEF Spec

-----------------------------------------------------------------------------
(* Every table of the decoder keeps to its range: places stay below the    *)
(* number of symbols, codewords and limits below 2^16, and the lookup      *)
(* table holds only symbols and lengths it may hold.                       *)
THEOREM TypeCorrect == Spec => []TypeOK
<1>1. HInv => TypeOK  BY DEF HInv
<1>2. QED  BY Invariant, <1>1, PTL

(* huffman_decoder_init refuses the lengths exactly when no prefix code    *)
(* has them, for every alphabet and every width.                           *)
THEOREM RefusesExactly == Spec => []RefusesNonPrefixCodes
<1>1. HInv => RefusesNonPrefixCodes
  <2> SUFFICES ASSUME HInv, result # "none"
               PROVE  result = "true" <=> Fits
    BY DEF RefusesNonPrefixCodes, Fits, Size
  <2>1. result = "true" \/ result = "false"  BY DEF HInv, TypeOK
  <2>2. QED  BY <2>1 DEF HInv, ResultInv
<1>2. QED  BY Invariant, <1>1, PTL

(* The sentinels never wrap: each is the number of words that the          *)
(* codewords up to its length cover, the assert of huffman.c:69.           *)
THEOREM SentinelsNeverWrap == Spec => []SentinelsExact
<1>1. HInv => SentinelsExact  BY DEF HInv, LimitsInv, SentinelsExact
<1>2. QED  BY Invariant, <1>1, PTL

(* huffman_decode finds the one symbol whose codeword a word starts with,  *)
(* whichever of the two tables it goes through, and none when there is     *)
(* none: decoding undoes compute_canonical_code.                           *)
THEOREM DecodesEveryWord == Spec => []DecodesTheCode
<1>1. HInv => DecodesTheCode
  <2> SUFFICES ASSUME HInv, bits # UNINIT
               PROVE  LET starts == {x \in Symbols : lengths[x] # 0
                                       /\ First(bits, lengths[x], MAX_HUFFMAN_BITS) = codeword(x)}
                      IN IF starts = {} THEN decoded = -1 /\ num_used_bits = 0
                                        ELSE starts = {decoded} /\ num_used_bits = lengths[decoded]
    BY DEF DecodesTheCode
  <2> DEFINE starts == {x \in Symbols : lengths[x] # 0
                          /\ First(bits, lengths[x], MAX_HUFFMAN_BITS) = codeword(x)}
  <2>1. CodeInv  BY CodeTyped DEF HInv
  <2>2. /\ Fits /\ bits \in Nat
        /\ Found(bits, decoded, num_used_bits) \/ NotFound(bits, decoded, num_used_bits)
    BY Sizes DEF HInv, AnswerInv, Words
  <2>3. \A x \in Symbols : x \in starts <=> Starts(bits, x)
    <3>1. \A x \in Symbols : lengths[x] # 0 =>
            (Starts(bits, x) <=> First(bits, lengths[x], MAX_HUFFMAN_BITS) = codeword(x))
      BY <2>1, <2>2, StartsIs
    <3>2. \A x : Starts(bits, x) => lengths[x] # 0  BY DEF Starts
    <3>3. QED  BY <3>1, <3>2
  <2>4. starts \subseteq Symbols  OBVIOUS
  <2> HIDE DEF starts
  <2>5. CASE Found(bits, decoded, num_used_bits)
    <3>1. decoded \in Symbols /\ Starts(bits, decoded) /\ num_used_bits = lengths[decoded]
      BY <2>5 DEF Found
    <3>2. \A x \in starts : x = decoded  BY <2>1, <2>2, <2>3, <2>4, <3>1, OnlyOne
    <3>3. starts = {decoded}  BY <2>3, <3>1, <3>2
    <3>4. QED  BY <3>1, <3>3 DEF starts
  <2>6. CASE NotFound(bits, decoded, num_used_bits)
    <3>1. decoded = -1 /\ num_used_bits = 0 /\ \A x \in Symbols : ~ Starts(bits, x)
      BY <2>6 DEF NotFound
    <3>2. starts = {}  BY <2>3, <2>4, <3>1
    <3>3. QED  BY <3>1, <3>2 DEF starts
  <2>7. QED  BY <2>2, <2>5, <2>6
<1>2. QED  BY Invariant, <1>1, PTL
=============================================================================
