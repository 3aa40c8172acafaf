-------------------------- MODULE RoundTripProofs --------------------------
(***************************************************************************)
(* What is written comes back: the header of a dynamic block, for every    *)
(* pair of codes, every third code and every width of its fields, and the  *)
(* bit streams, for every width of a byte and of a word and every buffer.  *)
(*                                                                         *)
(* The header has two invariants.  ReaderInv is about any stream: the      *)
(* lengths below k are written and no others.  RoundInv is about the       *)
(* streams of this compressor: the symbols made so far stand for the       *)
(* lengths passed so far, first those the writer has made and then those   *)
(* the reader has taken.                                                   *)
(***************************************************************************)
EXTENDS Bitstream, CodeLengths, Sums, SequenceTheorems, TLAPS

-----------------------------------------------------------------------------
(* Numbers.                                                                *)
LEMMA MaxIs ==
  ASSUME NEW S, S \subseteq Nat, S # {}, NEW b \in Nat, \A x \in S : x <= b
  PROVE  Max(S) \in S /\ \A x \in S : x <= Max(S)
<1> DEFINE T == {b - x : x \in S}
<1>0. \A x \in S : b - x \in Nat  OBVIOUS
<1>1. T \subseteq Nat /\ T # {}  BY <1>0
<1> HIDE DEF T
<1>2. PICK t \in T : \A u \in T : t <= u  BY <1>1, LeastNumber
<1>3. PICK m \in S : t = b - m  BY DEF T
<1>4. ASSUME NEW x \in S  PROVE m >= x
  <2>1. b - x \in T  BY DEF T
  <2>2. b - m <= b - x  BY <1>2, <1>3, <2>1
  <2>3. QED  BY <2>2
<1>5. \E y \in S : \A x \in S : y >= x  BY <1>4
<1>6. Max(S) \in S /\ \A x \in S : Max(S) >= x  BY <1>5 DEF Max
<1>7. QED  BY <1>6

(* A digit of a number, and what is left above it.                         *)
LEMMA Digit ==
  ASSUME NEW p \in Nat \ {0}, NEW a \in 0 .. p - 1, NEW m \in Nat
  PROVE  (a + m * p) % p = a /\ (a + m * p) \div p = m
<1>1. m * p \in Nat /\ a + m * p \in Nat  OBVIOUS
<1> DEFINE x == a + m * p
           q == x \div p
           r == x % p
<1>2. x \in Nat /\ q \in Nat /\ r \in 0 .. p - 1 /\ x = p * q + r  BY <1>1
<1>3. x = p * m + a  OBVIOUS
<1> HIDE DEF x, q, r
<1>4. ASSUME q < m  PROVE FALSE
  <2>1. PICK d \in Nat : m = q + 1 + d
    <3>1. m - q - 1 \in Nat /\ m = q + 1 + (m - q - 1)  BY <1>2, <1>4
    <3>2. QED  BY <3>1
  <2>2. p * m = p * q + p + p * d /\ p * d \in Nat /\ p * q \in Nat  BY <1>2, <2>1
  <2>3. QED  BY <1>2, <1>3, <2>2
<1>5. ASSUME q > m  PROVE FALSE
  <2>1. PICK d \in Nat : q = m + 1 + d
    <3>1. q - m - 1 \in Nat /\ q = m + 1 + (q - m - 1)  BY <1>2, <1>5
    <3>2. QED  BY <3>1
  <2>2. p * q = p * m + p + p * d /\ p * d \in Nat /\ p * m \in Nat  BY <1>2, <2>1
  <2>3. QED  BY <1>2, <1>3, <2>2
<1>6. q = m  BY <1>2, <1>4, <1>5
<1>7. r = a
  <2>1. p * m \in Nat  OBVIOUS
  <2>2. QED  BY <1>2, <1>3, <1>6, <2>1
<1>8. QED  BY <1>6, <1>7 DEF x, q, r

(* Three digits of different bases.                                        *)
LEMMA Digits ==
  ASSUME NEW p \in Nat \ {0}, NEW q \in Nat \ {0}, NEW r \in Nat \ {0},
         NEW a \in 0 .. p - 1, NEW b \in 0 .. q - 1, NEW c \in 0 .. r - 1,
         NEW x, x = a + b * p + c * (p * q)
  PROVE  /\ x \in Nat /\ x % p = a
         /\ (x \div p) % q = b
         /\ (x \div (p * q)) % r = c
<1>1. b + c * q \in Nat /\ x = a + (b + c * q) * p
  <2>1. c * (p * q) = (c * q) * p /\ c * q \in Nat  OBVIOUS
  <2>2. PICK d \in Nat : d = c * q  BY <2>1
  <2>3. b * p + d * p = (b + d) * p  BY <2>2
  <2>4. b * p \in Nat /\ d * p \in Nat  BY <2>2
  <2>5. QED  BY <2>1, <2>2, <2>3, <2>4
<1>2. x % p = a /\ x \div p = b + c * q  BY <1>1, Digit
<1>3. (b + c * q) % q = b  BY Digit
<1>4. p * q \in Nat \ {0} /\ a + b * p \in 0 .. p * q - 1
  <2>1. PICK d \in Nat : q = b + 1 + d
    <3>1. q - b - 1 \in Nat /\ q = b + 1 + (q - b - 1)  OBVIOUS
    <3>2. QED  BY <3>1
  <2>2. p * q = p * b + p + p * d /\ p * d \in Nat /\ p * b \in Nat /\ p * b = b * p  BY <2>1
  <2>3. QED  BY <2>2
<1>5. x = (a + b * p) + c * (p * q)
  <2>1. b * p \in Nat /\ c * (p * q) \in Nat  BY <1>4
  <2>2. QED  BY <2>1
<1>6. x \div (p * q) = c
  <2> DEFINE P == p * q
             A == a + b * p
  <2>1. P \in Nat \ {0} /\ A \in 0 .. P - 1 /\ x = A + c * P  BY <1>4, <1>5
  <2> HIDE DEF P, A
  <2>2. x \div P = c  BY <2>1, Digit
  <2>3. QED  BY <2>2 DEF P
<1>7. c % r = c  OBVIOUS
<1>8. x \in Nat
  <2>1. c * (p * q) \in Nat  BY <1>4
  <2>2. QED  BY <1>4, <1>5, <2>1
<1>9. QED  BY <1>2, <1>3, <1>6, <1>7, <1>8

(* Counting how often each symbol comes gives the same sum as adding up    *)
(* one after the other.                                                    *)
LEMMA SumBySymbol ==
  ASSUME NEW Syms, IsFiniteSet(Syms), NEW m \in Nat, NEW sy \in [1 .. m -> Syms],
         NEW w \in [Syms -> Nat]
  PROVE  SumFunctionOnSet([s \in Syms |-> Cardinality({x \in 1 .. m : sy[x] = s}) * w[s]], Syms)
           = SumFunctionOnSet([x \in 1 .. m |-> w[sy[x]]], 1 .. m)
<1> DEFINE Of(c, s) == {x \in 1 .. c : sy[x] = s}
           F(c) == [s \in Syms |-> Cardinality(Of(c, s)) * w[s]]
           g == [x \in 1 .. m |-> w[sy[x]]]
           Bad == {c \in 0 .. m : SumFunctionOnSet(F(c), Syms) # SumFunctionOnSet(g, 1 .. c)}
<1>1. \A c \in 0 .. m, s \in Syms : IsFiniteSet(Of(c, s)) /\ Cardinality(Of(c, s)) \in Nat
  <2>1. ASSUME NEW c \in 0 .. m, NEW s \in Syms  PROVE IsFiniteSet(Of(c, s))
    <3>1. IsFiniteSet(1 .. c)  BY FS_Interval
    <3>2. Of(c, s) \subseteq 1 .. c  OBVIOUS
    <3>3. QED  BY <3>1, <3>2, FS_Subset
  <2> HIDE DEF Of
  <2>2. QED  BY <2>1, FS_CardinalityType
<1>2. \A c \in 0 .. m, s \in Syms : F(c)[s] \in Nat
  <2>1. ASSUME NEW c \in 0 .. m, NEW s \in Syms  PROVE F(c)[s] \in Nat
    <3>1. PICK d \in Nat, v \in Nat : d = Cardinality(Of(c, s)) /\ v = w[s]  BY <1>1
    <3>2. d * v \in Nat  OBVIOUS
    <3>3. QED  BY <3>1, <3>2
  <2>2. QED  BY <2>1
<1>3. \A x \in 1 .. m : g[x] \in Nat  OBVIOUS
<1>4. ASSUME Bad # {}  PROVE FALSE
  <2>1. PICK c \in Bad : \A y \in Bad : c <= y
    <3>1. Bad \subseteq Nat  OBVIOUS
    <3> HIDE DEF Bad
    <3>2. QED  BY <1>4, <3>1, LeastNumber
  <2>2. c \in 0 .. m /\ SumFunctionOnSet(F(c), Syms) # SumFunctionOnSet(g, 1 .. c)  OBVIOUS
  <2>3. c # 0
    <3>1. ASSUME c = 0  PROVE FALSE
      <4>1. \A s \in Syms : F(c)[s] = 0
        <5>1. ASSUME NEW s \in Syms  PROVE F(c)[s] = 0
          <6>1. Of(c, s) = {}  BY <3>1
          <6>2. Cardinality(Of(c, s)) = 0  BY <6>1, FS_EmptySet
          <6>3. PICK v \in Nat : v = w[s]  OBVIOUS
          <6>4. 0 * v = 0  OBVIOUS
          <6>5. QED  BY <6>2, <6>3, <6>4
        <5>2. QED  BY <5>1
      <4> HIDE DEF F, g, Bad
      <4>2. SumFunctionOnSet(F(c), Syms) = 0  BY <4>1, SumZero
      <4>3. 1 .. c = {}  BY <3>1
      <4>4. SumFunctionOnSet(g, 1 .. c) = 0  BY <4>3, SumEmpty
      <4>5. QED  BY <2>2, <4>2, <4>4
    <3>2. QED  BY <3>1
  <2>4. PICK d \in 0 .. m : c = d + 1
    <3>1. c - 1 \in 0 .. m /\ c = (c - 1) + 1  BY <2>2, <2>3
    <3>2. QED  BY <3>1
  <2>5. SumFunctionOnSet(F(d), Syms) = SumFunctionOnSet(g, 1 .. d)
    <3> HIDE DEF Bad
    <3>1. d \notin Bad  BY <2>1, <2>4
    <3>2. QED  BY <3>1 DEF Bad
  <2>6. c \in 1 .. m /\ c - 1 = d  BY <2>2, <2>4
  <2>7. PICK t \in Syms : t = sy[c]  BY <2>6
  <2>8. \A s \in Syms : s # t => Of(c, s) = Of(d, s)  BY <2>6, <2>7
  <2>9. Of(c, t) = Of(d, t) \cup {c} /\ c \notin Of(d, t)  BY <2>6, <2>7
  <2>10. Cardinality(Of(c, t)) = Cardinality(Of(d, t)) + 1
    <3> HIDE DEF Of
    <3>1. QED  BY <1>1, <2>9, FS_AddElement
  <2>11. PICK v \in Nat, u \in Nat : v = w[t] /\ u = Cardinality(Of(d, t))  BY <1>1
  <2>12. F(c)[t] = u * v + v /\ F(d)[t] = u * v
    <3>1. (u + 1) * v = u * v + v  BY <2>11
    <3>2. QED  BY <2>10, <2>11, <3>1
  <2>13. \A s \in Syms \ {t} : F(c)[s] = F(d)[s]  BY <2>8
  <2>14. g[c] = v  BY <2>6, <2>7, <2>11
  <2> HIDE DEF F, g, Bad, Of
  <2>15. /\ \A s \in Syms : F(d)[s] \in Int
         /\ F(c)[t] \in Int
    BY <1>2, <2>2
  <2>16. SumFunctionOnSet(F(c), Syms) = SumFunctionOnSet(F(d), Syms) - F(d)[t] + F(c)[t]
    BY <2>13, <2>15, SumChanged
  <2>17. SumFunctionOnSet(g, 1 .. c) = SumFunctionOnSet(g, 1 .. d) + v
    <3>1. \A x \in 1 .. c : g[x] \in Int  BY <1>3, <2>6
    <3>2. c \in Nat \ {0}  BY <2>6
    <3>3. SumFunctionOnSet(g, 1 .. c) = SumFunctionOnSet(g, 1 .. c - 1) + g[c]  BY <3>1, <3>2, SumPrefix
    <3>4. QED  BY <2>6, <2>14, <3>3
  <2>18. SumFunctionOnSet(F(d), Syms) \in Int  BY <2>15, SumInt
  <2>19. u * v \in Nat  BY <2>11
  <2>20. QED  BY <2>2, <2>5, <2>12, <2>16, <2>17, <2>18, <2>19, <2>11
<1>5. m \notin Bad  BY <1>4
<1>6. SumFunctionOnSet(F(m), Syms) = SumFunctionOnSet(g, 1 .. m)  BY <1>5
<1>7. QED  BY <1>6

-----------------------------------------------------------------------------
(* The header.  Start(enc, x) is where the lengths begin that the symbol   *)
(* after the first x of enc stands for.                                    *)
Encoded == [sym : CodelenSym, count : Nat]
Width(e) == IF e.count = 0 THEN 1 ELSE e.count
Start(enc, x) == SumFunctionOnSet([y \in 1 .. Len(enc) |-> Width(enc[y])], 1 .. x)

(* The symbol e, at position a, stands for the lengths f has there.        *)
Means(f, e, a) ==
  \/ e.sym <= CODELEN_MAX_LIT /\ e.count = 0 /\ f[a] = e.sym
  \/ /\ e.sym > CODELEN_MAX_LIT /\ e.count # 0
     /\ e.count - Shortest(e.sym) \in 0 .. 2 ^ ebits[e.sym] - 1
     /\ e.sym = CODELEN_COPY => a >= 1
     /\ \A y \in a .. a + e.count - 1 : f[y] = IF e.sym = CODELEN_COPY THEN f[a - 1] ELSE 0
Encodes(f, enc, m) ==
  /\ \A x \in 1 .. Len(enc) : Means(f, enc[x], Start(enc, x - 1))
  /\ Start(enc, Len(enc)) = m

(* The powers of two of the fields, and the sizes that come of them.       *)
LEMMA Powers ==
  /\ 2 ^ HLIT \in Nat \ {0} /\ 2 ^ HDIST \in Nat \ {0} /\ 2 ^ HCLEN \in Nat \ {0}
  /\ 2 ^ COPY_EBITS \in Nat \ {0} /\ 2 ^ ZEROS_EBITS \in Nat \ {0} /\ 2 ^ ZEROS2_EBITS \in Nat \ {0}
  /\ 2 ^ (HLIT + HDIST) = 2 ^ HLIT * 2 ^ HDIST
<1>1. /\ HLIT \in Nat /\ HDIST \in Nat /\ HCLEN \in Nat
      /\ COPY_EBITS \in Nat /\ ZEROS_EBITS \in Nat /\ ZEROS2_EBITS \in Nat
  BY CodeLengthsAssumption
<1>2. QED  BY <1>1, PowerPositive, PowerOfSum

LEMMA Sizes ==
  /\ CODELEN_MAX_LIT \in Nat /\ CODELEN_COPY = CODELEN_MAX_LIT + 1
  /\ CODELEN_ZEROS = CODELEN_MAX_LIT + 2 /\ CODELEN_ZEROS2 = CODELEN_MAX_LIT + 3
  /\ CodelenSym = 0 .. CODELEN_MAX_LIT + 3
  /\ MIN_LITLEN_LENS \in Nat /\ MIN_LITLEN_LENS = LITLEN_EOB + 1 /\ LITLEN_EOB \in Nat
  /\ LITLEN_MAX \in Nat /\ LITLEN_MAX >= LITLEN_EOB
  /\ LITLEN_MAX + 1 <= MAX_LITLEN_LENS /\ MAX_LITLEN_LENS \in Nat
  /\ MAX_LITLEN_LENS = MIN_LITLEN_LENS + 2 ^ HLIT - 1
  /\ MIN_DIST_LENS = 1 /\ DISTSYM_MAX \in Nat /\ DISTSYM_MAX + 1 <= MAX_DIST_LENS
  /\ MAX_DIST_LENS = 2 ^ HDIST /\ MAX_DIST_LENS \in Nat
  /\ MIN_CODELEN_LENS = 4 /\ MAX_CODELEN_LENS \in Nat /\ MAX_CODELEN_LENS = CODELEN_MAX_LIT + 4
  /\ MAX_CODELEN_LENS = MIN_CODELEN_LENS + 2 ^ HCLEN - 1
<1>1. PICK p \in Nat \ {0}, q \in Nat \ {0}, r \in Nat \ {0} : p = 2 ^ HLIT /\ q = 2 ^ HDIST /\ r = 2 ^ HCLEN
  BY Powers
<1>2. MAX_LITLEN_LENS = MIN_LITLEN_LENS + p - 1 /\ MAX_DIST_LENS = MIN_DIST_LENS + q - 1
  BY <1>1 DEF MAX_LITLEN_LENS, MAX_DIST_LENS
<1>3. /\ CODELEN_MAX_LIT \in Nat /\ LITLEN_EOB \in Nat /\ LITLEN_MAX \in LITLEN_EOB .. MAX_LITLEN_LENS - 1
      /\ DISTSYM_MAX \in 0 .. MAX_DIST_LENS - 1 /\ MAX_CODELEN_LENS = MIN_CODELEN_LENS + r - 1
  BY <1>1, CodeLengthsAssumption
<1>4. QED
  BY <1>1, <1>2, <1>3
  DEF CODELEN_COPY, CODELEN_ZEROS, CODELEN_ZEROS2, CodelenSym, MIN_LITLEN_LENS, MIN_DIST_LENS,
      MIN_CODELEN_LENS, MAX_CODELEN_LENS

(* The extra bits of a run hold every length from the shortest to the      *)
(* longest.                                                                *)
LEMMA Runs ==
  /\ COPY_MIN \in Nat \ {0} /\ ZEROS_MIN \in Nat \ {0} /\ ZEROS2_MIN \in Nat \ {0} /\ ZEROS_MAX \in Nat
  /\ COPY_MAX \in Nat /\ ZEROS2_MAX \in Nat /\ ZEROS2_MIN = ZEROS_MAX + 1 /\ ZEROS2_MAX >= 1
  /\ \A s \in 0 .. CODELEN_MAX_LIT : Shortest(s) = 0 /\ ebits[s] = 0
  /\ \A s \in CodelenSym : Shortest(s) \in Nat /\ ebits[s] \in Nat /\ 2 ^ ebits[s] \in Nat \ {0}
  /\ \A c \in COPY_MIN .. COPY_MAX :
       c - Shortest(CODELEN_COPY) \in 0 .. 2 ^ ebits[CODELEN_COPY] - 1
  /\ \A c \in ZEROS_MIN .. ZEROS_MAX :
       c - Shortest(CODELEN_ZEROS) \in 0 .. 2 ^ ebits[CODELEN_ZEROS] - 1
  /\ \A c \in ZEROS2_MIN .. ZEROS2_MAX :
       c - Shortest(CODELEN_ZEROS2) \in 0 .. 2 ^ ebits[CODELEN_ZEROS2] - 1
<1>1. PICK p \in Nat \ {0}, q \in Nat \ {0}, r \in Nat \ {0} :
        p = 2 ^ COPY_EBITS /\ q = 2 ^ ZEROS_EBITS /\ r = 2 ^ ZEROS2_EBITS
  BY Powers
<1>2. /\ COPY_MIN \in Nat \ {0} /\ ZEROS_MIN \in Nat \ {0}
      /\ COPY_EBITS \in Nat /\ ZEROS_EBITS \in Nat /\ ZEROS2_EBITS \in Nat
  BY CodeLengthsAssumption
<1>3. /\ COPY_MAX = COPY_MIN + p - 1 /\ ZEROS_MAX = ZEROS_MIN + q - 1
      /\ ZEROS2_MIN = ZEROS_MAX + 1 /\ ZEROS2_MAX = ZEROS2_MIN + r - 1
  BY <1>1 DEF COPY_MAX, ZEROS_MAX, ZEROS2_MIN, ZEROS2_MAX
<1>4. /\ CODELEN_COPY \in CodelenSym /\ CODELEN_ZEROS \in CodelenSym /\ CODELEN_ZEROS2 \in CodelenSym
      /\ CODELEN_COPY # CODELEN_ZEROS /\ CODELEN_COPY # CODELEN_ZEROS2 /\ CODELEN_ZEROS # CODELEN_ZEROS2
      /\ \A s \in 0 .. CODELEN_MAX_LIT : s \in CodelenSym /\ s \notin {CODELEN_COPY, CODELEN_ZEROS, CODELEN_ZEROS2}
  BY Sizes
<1>5. \A s \in 0 .. CODELEN_MAX_LIT : Shortest(s) = 0 /\ ebits[s] = 0
  BY <1>4 DEF Shortest, ebits
<1>6. /\ ebits[CODELEN_COPY] = COPY_EBITS /\ ebits[CODELEN_ZEROS] = ZEROS_EBITS
      /\ ebits[CODELEN_ZEROS2] = ZEROS2_EBITS
  BY <1>4 DEF ebits
<1>7. /\ Shortest(CODELEN_COPY) = COPY_MIN /\ Shortest(CODELEN_ZEROS) = ZEROS_MIN
      /\ Shortest(CODELEN_ZEROS2) = ZEROS2_MIN
  BY <1>4 DEF Shortest
<1>8. \A s \in CodelenSym : Shortest(s) \in Nat /\ ebits[s] \in Nat
  <2>1. \A s \in CodelenSym : s \in 0 .. CODELEN_MAX_LIT \/ s \in {CODELEN_COPY, CODELEN_ZEROS, CODELEN_ZEROS2}
    BY Sizes
  <2>2. ZEROS2_MIN \in Nat  BY <1>2, <1>3
  <2>3. QED  BY <1>2, <1>5, <1>6, <1>7, <2>1, <2>2
<1>9. \A s \in CodelenSym : 2 ^ ebits[s] \in Nat \ {0}  BY <1>8, PowerPositive
<1>10. \A c \in COPY_MIN .. COPY_MAX :
         c - Shortest(CODELEN_COPY) \in 0 .. 2 ^ ebits[CODELEN_COPY] - 1
  BY <1>1, <1>2, <1>3, <1>6, <1>7
<1>11. \A c \in ZEROS_MIN .. ZEROS_MAX :
         c - Shortest(CODELEN_ZEROS) \in 0 .. 2 ^ ebits[CODELEN_ZEROS] - 1
  BY <1>1, <1>2, <1>3, <1>6, <1>7
<1>12. \A c \in ZEROS2_MIN .. ZEROS2_MAX :
         c - Shortest(CODELEN_ZEROS2) \in 0 .. 2 ^ ebits[CODELEN_ZEROS2] - 1
  BY <1>1, <1>2, <1>3, <1>6, <1>7
<1>13. QED
  BY <1>2, <1>3, <1>5, <1>8, <1>9, <1>10, <1>11, <1>12

(* The symbols of a sequence take up its lengths one after the other.      *)
LEMMA StartStep ==
  ASSUME NEW enc \in Seq(Encoded), NEW x \in 0 .. Len(enc)
  PROVE  /\ Start(enc, x) \in Nat
         /\ x = 0 => Start(enc, x) = 0
         /\ x # 0 => Start(enc, x) = Start(enc, x - 1) + Width(enc[x]) /\ Width(enc[x]) \in Nat \ {0}
<1>0. \A y \in 1 .. Len(enc) : enc[y] \in Encoded  OBVIOUS
<1>1. \A y \in 1 .. Len(enc) : Width(enc[y]) \in Nat \ {0}
  BY <1>0 DEF Width, Encoded
<1> DEFINE f == [y \in 1 .. Len(enc) |-> Width(enc[y])]
           m == Len(enc)
<1>2. m \in Nat /\ \A y \in 1 .. m : f[y] \in Nat /\ f[y] = Width(enc[y])  BY <1>1
<1>3. x \in 0 .. m  OBVIOUS
<1> HIDE DEF f, m
<1>4. /\ SumFunctionOnSet(f, 1 .. x) \in Nat
      /\ x = 0 => SumFunctionOnSet(f, 1 .. x) = 0
      /\ x # 0 => SumFunctionOnSet(f, 1 .. x) = SumFunctionOnSet(f, 1 .. x - 1) + f[x]
  BY <1>2, <1>3, SumUpto
<1>5. \A y : Start(enc, y) = SumFunctionOnSet(f, 1 .. y)  BY DEF Start, f
<1>6. x # 0 => f[x] = Width(enc[x]) /\ Width(enc[x]) \in Nat \ {0}
  BY <1>1, <1>2, <1>3 DEF m
<1>7. QED  BY <1>4, <1>5, <1>6

(* and none begins behind the end.                                         *)
LEMMA StartGrows ==
  ASSUME NEW enc \in Seq(Encoded), NEW x \in 0 .. Len(enc)
  PROVE  Start(enc, x) <= Start(enc, Len(enc))
<1> DEFINE f == [y \in 1 .. Len(enc) |-> Width(enc[y])]
           S == 1 .. Len(enc)
           T == 1 .. x
<1>0. \A y \in S : enc[y] \in Encoded  OBVIOUS
<1>1. \A y \in S : f[y] \in Nat
  BY <1>0 DEF Width, Encoded
<1>2. IsFiniteSet(S)  BY FS_Interval
<1>3. T \subseteq S  OBVIOUS
<1> HIDE DEF f, S, T
<1>4. SumFunctionOnSet(f, T) <= SumFunctionOnSet(f, S)  BY <1>1, <1>2, <1>3, SumOfPart
<1>5. QED  BY <1>4 DEF Start, f, S, T

(* One more symbol.                                                        *)
LEMMA EncodeMore ==
  ASSUME NEW f, NEW enc \in Seq(Encoded), NEW m \in Nat, Encodes(f, enc, m),
         NEW e \in Encoded, Means(f, e, m)
  PROVE  Encodes(f, Append(enc, e), m + Width(e)) /\ Append(enc, e) \in Seq(Encoded)
<1> DEFINE new == Append(enc, e)
<1>1. /\ new \in Seq(Encoded) /\ Len(new) = Len(enc) + 1 /\ Len(enc) \in Nat
      /\ \A x \in 1 .. Len(enc) : new[x] = enc[x]
      /\ new[Len(enc) + 1] = e
  OBVIOUS
<1> HIDE DEF new
<1>2. \A x \in 0 .. Len(enc) : Start(new, x) = Start(enc, x)
  <2>1. SUFFICES ASSUME NEW x \in 0 .. Len(enc)  PROVE Start(new, x) = Start(enc, x)
    OBVIOUS
  <2> DEFINE g == [y \in 1 .. Len(new) |-> Width(new[y])]
             h == [y \in 1 .. Len(enc) |-> Width(enc[y])]
  <2>2. \A y \in 1 .. x : g[y] = h[y]  BY <1>1
  <2> HIDE DEF g, h
  <2>3. SumFunctionOnSet(g, 1 .. x) = SumFunctionOnSet(h, 1 .. x)  BY <2>2, SumSameUpto
  <2>4. QED  BY <2>3 DEF Start, g, h
<1>3. Start(new, Len(new)) = m + Width(e)
  <2>1. Len(new) \in 0 .. Len(new) /\ Len(new) # 0 /\ Len(new) - 1 = Len(enc)  BY <1>1
  <2>2. Start(new, Len(new)) = Start(new, Len(new) - 1) + Width(new[Len(new)])
    BY <1>1, <2>1, StartStep
  <2>3. Start(new, Len(enc)) = m  BY <1>1, <1>2 DEF Encodes
  <2>4. QED  BY <1>1, <2>1, <2>2, <2>3
<1>4. ASSUME NEW x \in 1 .. Len(new)  PROVE Means(f, new[x], Start(new, x - 1))
  <2>1. CASE x = Len(new)
    <3>1. x - 1 = Len(enc) /\ Start(new, x - 1) = m /\ new[x] = e
      BY <1>1, <1>2, <2>1 DEF Encodes
    <3>2. QED  BY <3>1
  <2>2. CASE x # Len(new)
    <3>1. x \in 1 .. Len(enc) /\ x - 1 \in 0 .. Len(enc)  BY <1>1, <2>2
    <3>2. QED  BY <1>1, <1>2, <3>1 DEF Encodes
  <2>3. QED  BY <2>1, <2>2
<1>5. QED  BY <1>1, <1>3, <1>4 DEF Encodes, new

(* What is written of a symbol, and the bits of the first m.               *)
SymbolOf(e) == [sym |-> e.sym, extra |-> e.count - Shortest(e.sym)]
CostTo(c, enc, m) ==
  SumFunctionOnSet([x \in 1 .. Len(enc) |-> c[enc[x].sym] + ebits[enc[x].sym]], 1 .. m)
Base == 3 + HLIT + HDIST + HCLEN
Numbers ==
  (num_litlen_lens - MIN_LITLEN_LENS) + (num_dist_lens - MIN_DIST_LENS) * 2 ^ HLIT
    + (num_codelen_lens - MIN_CODELEN_LENS) * 2 ^ (HLIT + HDIST)

(* The joined lengths are the two codes', without zeros at their ends,     *)
JoinedOK ==
  /\ num_litlen_lens \in MIN_LITLEN_LENS .. LITLEN_MAX + 1
  /\ num_dist_lens \in MIN_DIST_LENS .. DISTSYM_MAX + 1
  /\ lens \in [0 .. n - 1 -> 0 .. CODELEN_MAX_LIT]
  /\ \A x \in 0 .. LITLEN_MAX : litlen_lens[x] = IF x < num_litlen_lens THEN lens[x] ELSE 0
  /\ \A x \in 0 .. DISTSYM_MAX :
       dist_lens[x] = IF x < num_dist_lens THEN lens[num_litlen_lens + x] ELSE 0
  /\ lens[LITLEN_EOB] # 0
(* the symbols stand for those passed, and one of them is a length if one  *)
(* of those is,                                                            *)
EncodedOK ==
  /\ encoded \in Seq(Encoded) /\ i \in 0 .. n /\ Encodes(lens, encoded, i)
  /\ (\E y \in 0 .. i - 1 : lens[y] # 0) =>
       \E x \in 1 .. Len(encoded) : encoded[x].sym \in 1 .. CODELEN_MAX_LIT
(* and of the third code nothing behind num_codelen_lens is used.          *)
ThirdOK ==
  /\ i = n /\ codelen_lens \in [CodelenSym -> Nat]
  /\ num_codelen_lens \in MIN_CODELEN_LENS .. MAX_CODELEN_LENS
  /\ \A x \in num_codelen_lens + 1 .. MAX_CODELEN_LENS : codelen_lens[codelen_lengths_order[x]] = 0
  /\ dyn_len = Base + 3 * num_codelen_lens + CostTo(codelen_lens, encoded, Len(encoded))

Streams == [numbers : Int, codelens : Seq(Nat), symbols : Seq([sym : CodelenSym, extra : Int])]
CodelensTo(m) ==
  /\ Len(stream.codelens) = m
  /\ \A x \in 1 .. m : stream.codelens[x] = codelen_lens[codelen_lengths_order[x]]
SymbolsTo(m) ==
  /\ Len(stream.symbols) = m
  /\ \A x \in 1 .. m : stream.symbols[x] = SymbolOf(encoded[x])
WrittenOK ==
  /\ pc \in {"join", "encode", "write", "write_codelens"} => stream.symbols = <<>>
  /\ pc \in {"join", "encode", "write"} => stream.codelens = <<>>
  /\ pc \in {"write_codelens", "write_lens", "read"} => stream.numbers = Numbers
  /\ pc = "write_codelens" =>
       k \in 0 .. num_codelen_lens /\ CodelensTo(k) /\ written = Base + 3 * k
  /\ pc = "write_lens" =>
       /\ k \in 0 .. Len(encoded) /\ CodelensTo(num_codelen_lens) /\ SymbolsTo(k)
       /\ written = Base + 3 * num_codelen_lens + CostTo(codelen_lens, encoded, k)
  /\ pc = "read" =>
       CodelensTo(num_codelen_lens) /\ SymbolsTo(Len(encoded)) /\ written = dyn_len

(* The reader has the lengths of the symbols it took, and the others are   *)
(* still there.                                                            *)
LensTo(m) == \A x \in 0 .. m - 1 : code_lengths[x] = lens[x]
Left(y) ==
  /\ Len(stream.symbols) = Len(encoded) - y
  /\ \A x \in 1 .. Len(stream.symbols) : stream.symbols[x] = SymbolOf(encoded[y + x])
ReadOK ==
  /\ pc \in {"read_lens", "done"} => r_litlen = num_litlen_lens /\ r_dist = num_dist_lens
  /\ pc = "read_lens" =>
       /\ codelen_lengths = codelen_lens /\ LensTo(k)
       /\ \E y \in 0 .. Len(encoded) : k = Start(encoded, y) /\ Left(y)
  /\ pc = "done" => status = "OK" /\ stream.symbols = <<>> /\ LensTo(n)

RoundInv == ~any =>
  /\ litlen_lens \in LitlenLens /\ dist_lens \in DistLens /\ stream \in Streams
  /\ pc = "join" => i = 0 /\ encoded = <<>>
  /\ pc # "join" => JoinedOK /\ EncodedOK
  /\ pc \notin {"join", "encode"} => ThirdOK
  /\ WrittenOK /\ ReadOK

(* Of any stream: the lengths below k are written, and no others.          *)
MaxTotal == MAX_LITLEN_LENS + MAX_DIST_LENS
ReaderInv ==
  /\ any \in BOOLEAN
  /\ pc \in {"join", "encode", "write", "write_codelens", "write_lens", "read", "read_lens", "done"}
  /\ any => pc \in {"read", "read_lens", "done"}
  /\ pc = "read" => k = 0
  /\ DOMAIN code_lengths = 0 .. MaxTotal - 1
  /\ pc \notin {"read_lens", "done"} =>
       r_litlen = 0 /\ r_dist = 0 /\ \A x \in DOMAIN code_lengths : code_lengths[x] = UNINIT
  /\ pc # "done" => status = "none"
  /\ pc \in {"read_lens", "done"} =>
       /\ r_litlen \in Nat /\ r_dist \in Nat /\ total <= MaxTotal /\ k \in 0 .. total
       /\ \A x \in DOMAIN code_lengths :
            IF x < k THEN code_lengths[x] \in 0 .. CODELEN_MAX_LIT ELSE code_lengths[x] = UNINIT
  /\ status = "OK" => k = total

HeaderInv == ReaderInv /\ RoundInv

(* What the reader makes of any number.                                    *)
LEMMA LowBitsIs ==
  ASSUME NEW x \in Int, NEW w \in Nat
  PROVE  LowBits(x, w) \in 0 .. 2 ^ w - 1
<1>1. PICK p \in Nat \ {0} : p = 2 ^ w  BY PowerPositive
<1>2. x % p \in 0 .. p - 1  BY <1>1
<1>3. QED  BY <1>1, <1>2 DEF LowBits

LEMMA ReadNumbersIs ==
  ASSUME NEW numbers \in Int, ReadNumbers(numbers)
  PROVE  r_litlen' \in Nat /\ r_dist' \in Nat /\ r_litlen' + r_dist' <= MaxTotal
<1>1. PICK p \in Nat \ {0} : p = 2 ^ HLIT  BY Powers
<1>2. PICK q \in Nat \ {0} : q = 2 ^ HDIST  BY Powers
<1>3. HLIT \in Nat /\ HDIST \in Nat  BY CodeLengthsAssumption
<1>4. LowBits(numbers, HLIT) \in 0 .. p - 1  BY <1>1, <1>3, LowBitsIs
<1>5. numbers \div p \in Int  OBVIOUS
<1>6. LowBits(numbers \div p, HDIST) \in 0 .. q - 1  BY <1>2, <1>3, <1>5, LowBitsIs
<1>7. /\ r_litlen' = LowBits(numbers, HLIT) + MIN_LITLEN_LENS
      /\ r_dist' = LowBits(numbers \div p, HDIST) + MIN_DIST_LENS
  BY <1>1 DEF ReadNumbers
<1>8. /\ MAX_LITLEN_LENS = MIN_LITLEN_LENS + p - 1 /\ MIN_LITLEN_LENS \in Nat
      /\ MAX_DIST_LENS = MIN_DIST_LENS + q - 1 /\ MIN_DIST_LENS = 1
  BY <1>1, <1>2, Sizes DEF MAX_LITLEN_LENS, MAX_DIST_LENS
<1>9. QED  BY <1>4, <1>6, <1>7, <1>8 DEF MaxTotal

LEMMA InitReaderInv == HeaderInit => ReaderInv
BY Sizes DEF HeaderInit, ReaderInv, MaxTotal

(* The reader keeps to the lengths announced.                              *)
LEMMA NextReaderInv ==
  ASSUME ReaderInv, RoundInv, [HeaderNext]_headerVars
  PROVE  ReaderInv'
<1>1. CASE Join \/ EncodeZeros \/ EncodeLen \/ ThirdCode \/ WriteNumbers \/ WriteCodelen
           \/ CodelensEnd \/ WriteLen \/ HeaderWritten
  <2>1. /\ UNCHANGED <<any, r_litlen, r_dist, code_lengths, status>> /\ pc \notin {"read", "read_lens", "done"}
        /\ pc' \in {"encode", "write", "write_codelens", "write_lens", "read"}
        /\ pc' = "read" => k' = 0
    BY <1>1 DEF Join, EncodeZeros, EncodeLen, ThirdCode, WriteNumbers, WriteCodelen, CodelensEnd,
                WriteLen, HeaderWritten, reader
  <2>2. status' # "OK"  BY <2>1 DEF ReaderInv
  <2>3. QED  BY <2>1, <2>2 DEF ReaderInv
<1>2. CASE Fail
  <2>1. /\ UNCHANGED <<any, r_litlen, r_dist, code_lengths, k>> /\ pc' = "done" /\ status' = "ERR"
        /\ pc \in {"read", "read_lens"} /\ total' = total
    BY <1>2 DEF Fail, writer, reader, total
  <2>2. CASE pc = "read"
    <3>1. /\ r_litlen = 0 /\ r_dist = 0 /\ k = 0 /\ DOMAIN code_lengths = 0 .. MaxTotal - 1
          /\ \A x \in DOMAIN code_lengths : code_lengths[x] = UNINIT
      BY <2>2 DEF ReaderInv
    <3>2. MaxTotal \in Nat  BY Sizes DEF MaxTotal
    <3>3. total = 0  BY <3>1 DEF total
    <3>4. \A x \in DOMAIN code_lengths : ~ (x < k)
      <4> DEFINE last == MaxTotal - 1
      <4>1. last \in Int /\ k = 0 /\ DOMAIN code_lengths = 0 .. last  BY <3>1, <3>2
      <4> HIDE DEF last
      <4>2. QED  BY ONLY <4>1
    <3>5. QED  BY <2>1, <3>1, <3>2, <3>3, <3>4 DEF ReaderInv
  <2>3. CASE pc = "read_lens"
    BY <2>1, <2>3 DEF ReaderInv
  <2>4. QED  BY <2>1, <2>2, <2>3
<1>3. CASE ReadThirdCode
  <2>1. /\ pc = "read" /\ pc' = "read_lens" /\ k' = 0 /\ UNCHANGED <<any, code_lengths, status>>
        /\ \E numbers \in Int : ReadNumbers(numbers)
    <3>1. CASE any
      <4>1. PICK numbers \in 0 .. 2 ^ (HLIT + HDIST) - 1 : ReadNumbers(numbers)
        BY <1>3, <3>1 DEF ReadThirdCode
      <4>2. QED  BY <1>3, <4>1 DEF ReadThirdCode, writer
    <3>2. CASE ~any
      <4>1. stream.numbers \in Int  BY <3>2 DEF RoundInv, Streams
      <4>2. QED  BY <1>3, <3>2, <4>1 DEF ReadThirdCode, writer
    <3>3. QED  BY <3>1, <3>2
  <2>2. r_litlen' \in Nat /\ r_dist' \in Nat /\ r_litlen' + r_dist' <= MaxTotal
    BY <2>1, ReadNumbersIs
  <2>3. total' = r_litlen' + r_dist'  BY DEF total
  <2>4. k' \in 0 .. total' /\ total' <= MaxTotal
    <3>0. \A a, b \in Nat : a + b \in Nat  OBVIOUS
    <3>1. r_litlen' + r_dist' \in Nat  BY <2>2, <3>0
    <3>2. total' \in Nat /\ total' <= MaxTotal  BY <2>2, <2>3, <3>1
    <3>3. QED  BY <2>1, <3>2
  <2>5. /\ any \in BOOLEAN /\ DOMAIN code_lengths = 0 .. MaxTotal - 1 /\ status = "none"
        /\ \A x \in DOMAIN code_lengths : code_lengths[x] = UNINIT
    BY <2>1 DEF ReaderInv
  <2>6. \A x \in DOMAIN code_lengths' : ~ (x < k') /\ code_lengths'[x] = UNINIT
    BY <2>1, <2>5
  <2>7. QED  BY <2>1, <2>2, <2>4, <2>5, <2>6 DEF ReaderInv
<1>4. CASE ReadSymbol
  <2>1. /\ pc = "read_lens" /\ k < total /\ UNCHANGED <<any, r_litlen, r_dist>>
        /\ total' = total
    BY <1>4 DEF ReadSymbol, total
  <2>0. PICK s \in CodelenSym : \E extra \in 0 .. 2 ^ ebits[s] - 1 : ReadLit(s) \/ ReadRun(s, extra)
    BY <1>4 DEF ReadSymbol
  <2>2. PICK extra \in 0 .. 2 ^ ebits[s] - 1 : ReadLit(s) \/ ReadRun(s, extra)
    BY <2>0
  <2>3. /\ k \in 0 .. total /\ total \in Nat /\ total <= MaxTotal /\ MaxTotal \in Nat
        /\ DOMAIN code_lengths = 0 .. MaxTotal - 1 /\ status = "none"
        /\ \A x \in DOMAIN code_lengths :
             IF x < k THEN code_lengths[x] \in 0 .. CODELEN_MAX_LIT ELSE code_lengths[x] = UNINIT
    <3>1. MaxTotal \in Nat  BY Sizes DEF MaxTotal
    <3>2. r_litlen \in Nat /\ r_dist \in Nat  BY <2>1 DEF ReaderInv
    <3>3. total \in Nat  BY <3>2 DEF total
    <3>4. QED  BY <2>1, <3>1, <3>3 DEF ReaderInv
  <2>4. CASE ReadLit(s)
    <3>1. /\ s \in 0 .. CODELEN_MAX_LIT /\ code_lengths' = [code_lengths EXCEPT ![k] = s] /\ k' = k + 1
          /\ UNCHANGED <<pc, status>>
      BY <2>4, Sizes DEF ReadLit
    <3>2. k' \in 0 .. total /\ DOMAIN code_lengths' = 0 .. MaxTotal - 1  BY <2>1, <2>3, <3>1
    <3>3. \A x \in 0 .. MaxTotal - 1 :
            IF x < k' THEN code_lengths'[x] \in 0 .. CODELEN_MAX_LIT ELSE code_lengths'[x] = UNINIT
      BY <2>3, <3>1
    <3>4. QED  BY <2>1, <2>3, <3>1, <3>2, <3>3 DEF ReaderInv
  <2>5. CASE ReadRun(s, extra)
    <3> DEFINE count == extra + Shortest(s)
    <3>1. count \in Nat
      <4>1. Shortest(s) \in Nat /\ 2 ^ ebits[s] \in Nat  BY Runs
      <4>2. QED  BY <4>1
    <3>2. CASE RunFits(count) /\ (s = CODELEN_COPY => k >= 1)
      <4>1. /\ code_lengths' = [x \in DOMAIN code_lengths |->
                  IF x \in k .. k + count - 1
                  THEN (IF s = CODELEN_COPY THEN code_lengths[k - 1] ELSE 0)
                  ELSE code_lengths[x]]
            /\ k' = k + count /\ UNCHANGED <<pc, status>>
        BY <2>5, <3>2 DEF ReadRun
      <4>2. k + count <= total  BY <3>2 DEF RunFits
      <4> HIDE DEF count
      <4>3. k' \in 0 .. total /\ DOMAIN code_lengths' = 0 .. MaxTotal - 1  BY <2>3, <3>1, <4>1, <4>2
      <4>4. (IF s = CODELEN_COPY THEN code_lengths[k - 1] ELSE 0) \in 0 .. CODELEN_MAX_LIT
        <5>1. CASE s = CODELEN_COPY
          <6>1. k - 1 \in DOMAIN code_lengths /\ k - 1 < k  BY <2>3, <3>2, <5>1
          <6>2. QED  BY <2>3, <5>1, <6>1
        <5>2. CASE s # CODELEN_COPY
          BY <5>2, Sizes
        <5>3. QED  BY <5>1, <5>2
      <4>5. \A x \in 0 .. MaxTotal - 1 :
              IF x < k' THEN code_lengths'[x] \in 0 .. CODELEN_MAX_LIT ELSE code_lengths'[x] = UNINIT
        BY <2>3, <3>1, <4>1, <4>4
      <4>6. QED  BY <2>1, <2>3, <4>1, <4>3, <4>5 DEF ReaderInv
    <3>3. CASE ~ (RunFits(count) /\ (s = CODELEN_COPY => k >= 1))
      <4>1. status' = "ERR" /\ pc' = "done" /\ UNCHANGED <<code_lengths, k>>
        BY <2>5, <3>3 DEF ReadRun
      <4>2. QED  BY <2>1, <4>1 DEF ReaderInv
    <3>4. QED  BY <3>2, <3>3
  <2>6. QED  BY <2>2, <2>4, <2>5
<1>5. CASE LensRead
  <2>1. /\ pc = "read_lens" /\ k >= total /\ pc' = "done" /\ status' = "OK"
        /\ UNCHANGED <<any, r_litlen, r_dist, code_lengths, k>> /\ total' = total
    BY <1>5 DEF LensRead, writer, reader, total
  <2>2. k = total
    <3>1. k \in 0 .. total /\ total \in Nat  BY <2>1 DEF ReaderInv, total
    <3>2. QED  BY <2>1, <3>1
  <2>3. QED  BY <2>1, <2>2 DEF ReaderInv
<1>6. CASE UNCHANGED headerVars
  BY <1>6 DEF headerVars, reader, total, ReaderInv
<1>7. QED
  BY <1>1, <1>2, <1>3, <1>4, <1>5, <1>6 DEF HeaderNext

-----------------------------------------------------------------------------
(* The invariant's parts depend on the variables they name.              *)
LEMMA SameJoined == ASSUME UNCHANGED <<codes, joined>>, JoinedOK  PROVE JoinedOK'
BY DEF codes, joined, JoinedOK, n

LEMMA SameEncoded == ASSUME UNCHANGED <<joined, i, encoded>>, EncodedOK  PROVE EncodedOK'
BY DEF joined, EncodedOK, n

LEMMA SameThird == ASSUME UNCHANGED <<joined, i, encoded, third>>, ThirdOK  PROVE ThirdOK'
BY DEF joined, third, ThirdOK, n

(* The bounds of the joined lengths.                                       *)
LEMMA SumOfLens ==
  ASSUME JoinedOK
  PROVE  /\ n \in Nat /\ num_litlen_lens \in Nat /\ num_dist_lens \in Nat
         /\ n = num_litlen_lens + num_dist_lens /\ LITLEN_EOB < num_litlen_lens
         /\ n <= MaxTotal /\ num_litlen_lens <= LITLEN_MAX + 1 /\ num_dist_lens <= DISTSYM_MAX + 1
<1>1. /\ num_litlen_lens \in Nat /\ num_dist_lens \in Nat /\ LITLEN_EOB < num_litlen_lens
      /\ num_litlen_lens <= LITLEN_MAX + 1 /\ num_dist_lens <= DISTSYM_MAX + 1
  BY Sizes DEF JoinedOK
<1>2. n = num_litlen_lens + num_dist_lens  BY DEF n
<1>3. /\ LITLEN_MAX + 1 <= MAX_LITLEN_LENS /\ DISTSYM_MAX + 1 <= MAX_DIST_LENS
      /\ LITLEN_MAX \in Nat /\ DISTSYM_MAX \in Nat /\ MAX_LITLEN_LENS \in Nat /\ MAX_DIST_LENS \in Nat
  BY Sizes
<1>4. QED  BY <1>1, <1>2, <1>3 DEF MaxTotal

-----------------------------------------------------------------------------
(* encode_dist_litlen_lens                                                 *)
(* Behind Trimmed(f, low) every length is zero.                            *)
LEMMA TrimmedIs ==
  ASSUME NEW top \in Nat, NEW S, NEW f \in [0 .. top -> S], NEW low \in 0 .. top + 1
  PROVE  /\ Trimmed(f, low) \in low .. top + 1
         /\ \A x \in 0 .. top : f[x] # 0 => x < Trimmed(f, low)
<1> DEFINE T == {low} \cup {x + 1 : x \in {y \in DOMAIN f : f[y] # 0}}
<1>1. \A x \in T : x \in Nat /\ x <= top + 1  OBVIOUS
<1>2. T \subseteq Nat /\ T # {} /\ low \in T  BY <1>1
<1>3. \A x \in 0 .. top : f[x] # 0 => x + 1 \in T  OBVIOUS
<1> HIDE DEF T
<1>4. Max(T) \in T /\ \A x \in T : x <= Max(T)
  <2>1. top + 1 \in Nat  OBVIOUS
  <2>2. \A x \in T : x <= top + 1  BY <1>1
  <2>3. QED  BY <1>2, <2>1, <2>2, MaxIs
<1>5. Trimmed(f, low) = Max(T)  BY DEF Trimmed, T
<1>6. Trimmed(f, low) \in low .. top + 1
  <2>1. PICK t \in T : t = Max(T)  BY <1>4
  <2>2. t \in Nat /\ t <= top + 1 /\ low <= t  BY <1>1, <1>2, <1>4, <2>1
  <2>3. QED  BY <1>5, <2>1, <2>2
<1>7. ASSUME NEW x \in 0 .. top, f[x] # 0  PROVE x < Trimmed(f, low)
  <2>1. x + 1 <= Trimmed(f, low)  BY <1>3, <1>4, <1>5, <1>7
  <2>2. QED  BY <1>6, <2>1
<1>8. QED  BY <1>6, <1>7

(* and the joined lengths are those of the two codes.                      *)
LEMMA JoinStep ==
  ASSUME RoundInv, ~any, Join
  PROVE  JoinedOK' /\ EncodedOK'
<1>1. /\ pc = "join" /\ UNCHANGED <<litlen_lens, dist_lens, i, encoded>>
      /\ num_litlen_lens' = Trimmed(litlen_lens, 0)
      /\ num_dist_lens' = Trimmed(dist_lens, MIN_DIST_LENS)
      /\ lens' = [x \in 0 .. num_litlen_lens' + num_dist_lens' - 1 |->
                    IF x < num_litlen_lens' THEN litlen_lens[x] ELSE dist_lens[x - num_litlen_lens']]
  BY DEF Join, codes
<1>2. /\ litlen_lens \in [0 .. LITLEN_MAX -> 0 .. CODELEN_MAX_LIT] /\ litlen_lens[LITLEN_EOB] # 0
      /\ dist_lens \in [0 .. DISTSYM_MAX -> 0 .. CODELEN_MAX_LIT]
      /\ i = 0 /\ encoded = <<>>
  BY <1>1, CodeLengthsAssumption DEF RoundInv
<1>3. PICK a : a = num_litlen_lens'  OBVIOUS
<1>4. PICK b : b = num_dist_lens'  OBVIOUS
<1>5. /\ a \in 0 .. LITLEN_MAX + 1 /\ \A x \in 0 .. LITLEN_MAX : litlen_lens[x] # 0 => x < a
  <2>1. 0 \in 0 .. LITLEN_MAX + 1 /\ LITLEN_MAX \in Nat  BY Sizes
  <2>2. QED  BY <1>1, <1>2, <1>3, <2>1, TrimmedIs
<1>6. /\ b \in 1 .. DISTSYM_MAX + 1 /\ \A x \in 0 .. DISTSYM_MAX : dist_lens[x] # 0 => x < b
  <2>1. MIN_DIST_LENS = 1 /\ 1 \in 0 .. DISTSYM_MAX + 1 /\ DISTSYM_MAX \in Nat  BY Sizes
  <2>2. QED  BY <1>1, <1>2, <1>4, <2>1, TrimmedIs
<1>7. LITLEN_EOB < a /\ a \in MIN_LITLEN_LENS .. LITLEN_MAX + 1 /\ b \in MIN_DIST_LENS .. DISTSYM_MAX + 1
  BY <1>2, <1>5, <1>6, Sizes
<1>8. lens' = [x \in 0 .. a + b - 1 |-> IF x < a THEN litlen_lens[x] ELSE dist_lens[x - a]]
  BY <1>1, <1>3, <1>4
<1>9. n' = a + b  BY <1>3, <1>4 DEF n
<1>10. a \in Nat /\ b \in Nat /\ LITLEN_MAX \in Nat /\ DISTSYM_MAX \in Nat /\ LITLEN_EOB \in Nat
       /\ CODELEN_MAX_LIT \in Nat
  BY <1>5, <1>6, Sizes
<1>11. lens' \in [0 .. a + b - 1 -> 0 .. CODELEN_MAX_LIT]
  <2>1. ASSUME NEW x \in 0 .. a + b - 1
        PROVE  (IF x < a THEN litlen_lens[x] ELSE dist_lens[x - a]) \in 0 .. CODELEN_MAX_LIT
    <3>1. CASE x < a
      <4>1. x \in 0 .. LITLEN_MAX  BY <1>5, <1>10, <3>1
      <4>2. QED  BY <1>2, <3>1, <4>1
    <3>2. CASE ~ (x < a)
      <4>1. x - a \in 0 .. DISTSYM_MAX  BY <1>6, <1>10, <3>2
      <4>2. QED  BY <1>2, <3>2, <4>1
    <3>3. QED  BY <3>1, <3>2
  <2>2. QED  BY <1>8, <2>1
<1>12. \A x \in 0 .. LITLEN_MAX : litlen_lens[x] = IF x < a THEN lens'[x] ELSE 0
  <2>1. ASSUME NEW x \in 0 .. LITLEN_MAX, x < a  PROVE lens'[x] = litlen_lens[x]
    <3>1. x \in 0 .. a + b - 1  BY <1>6, <1>10, <2>1
    <3>2. QED  BY <1>8, <2>1, <3>1
  <2>2. QED  BY <1>5, <2>1
<1>13. \A x \in 0 .. DISTSYM_MAX : dist_lens[x] = IF x < b THEN lens'[a + x] ELSE 0
  <2>1. ASSUME NEW x \in 0 .. DISTSYM_MAX, x < b  PROVE lens'[a + x] = dist_lens[x]
    <3>1. a + x \in 0 .. a + b - 1 /\ ~ (a + x < a) /\ (a + x) - a = x  BY <1>10, <2>1
    <3>2. QED  BY <1>8, <3>1
  <2>2. QED  BY <1>6, <2>1
<1>14. lens'[LITLEN_EOB] # 0
  <2>1. LITLEN_EOB \in 0 .. LITLEN_MAX  BY Sizes
  <2>2. QED  BY <1>2, <1>7, <1>12, <2>1
<1>15. JoinedOK'
  <2>1. num_litlen_lens' \in MIN_LITLEN_LENS .. LITLEN_MAX + 1  BY <1>3, <1>7
  <2>2. num_dist_lens' \in MIN_DIST_LENS .. DISTSYM_MAX + 1  BY <1>4, <1>7
  <2>3. lens' \in [0 .. n' - 1 -> 0 .. CODELEN_MAX_LIT]
    <3>1. n' - 1 = a + b - 1  BY <1>9, <1>10
    <3>2. QED  BY <1>11, <3>1
  <2>4. \A x \in 0 .. LITLEN_MAX :
          litlen_lens'[x] = IF x < num_litlen_lens' THEN lens'[x] ELSE 0
    BY <1>1, <1>3, <1>12
  <2>5. \A x \in 0 .. DISTSYM_MAX :
          dist_lens'[x] = IF x < num_dist_lens' THEN lens'[num_litlen_lens' + x] ELSE 0
    BY <1>1, <1>3, <1>4, <1>13
  <2>6. QED  BY <2>1, <2>2, <2>3, <2>4, <2>5, <1>14 DEF JoinedOK
<1>16. EncodedOK'
  <2>1. encoded' = <<>> /\ i' = 0 /\ <<>> \in Seq(Encoded) /\ Len(<<>>) = 0  BY <1>1, <1>2
  <2>2. Start(<<>>, 0) = 0
    <3>1. 0 \in 0 .. Len(<<>>)  BY <2>1
    <3>2. QED  BY <2>1, <3>1, StartStep
  <2>3. Encodes(lens', <<>>, 0)  BY <2>1, <2>2 DEF Encodes
  <2>4. i' \in 0 .. n'  BY <1>9, <1>10, <2>1
  <2>5. ~ \E y \in 0 .. i' - 1 : lens'[y] # 0  BY <2>1
  <2>6. QED  BY <2>1, <2>3, <2>4, <2>5 DEF EncodedOK
<1>17. QED  BY <1>15, <1>16

-----------------------------------------------------------------------------
(* encode_lens: a run is as long as it is, up to the longest.              *)
LEMMA RunIs ==
  ASSUME JoinedOK, NEW v, NEW from \in 0 .. n, NEW max \in Nat
  PROVE  /\ Run(v, from, max) \in 0 .. max /\ from + Run(v, from, max) <= n
         /\ \A d \in 0 .. Run(v, from, max) - 1 : lens[from + d] = v
         /\ (max >= 1 /\ from < n /\ lens[from] = v) => Run(v, from, max) >= 1
<1>0. n \in Nat  BY SumOfLens
<1> DEFINE T == {c \in 0 .. max : from + c <= n /\ \A d \in 0 .. c - 1 : lens[from + d] = v}
<1>1. T \subseteq Nat /\ 0 \in T /\ \A c \in T : c <= max  BY <1>0
<1>2. ASSUME max >= 1, from < n, lens[from] = v  PROVE 1 \in T
  <2>1. \A d \in 0 .. 1 - 1 : from + d = from  OBVIOUS
  <2>2. from + 1 <= n /\ 1 \in 0 .. max  BY <1>0, <1>2
  <2>3. QED  BY <1>2, <2>1, <2>2
<1>3. \A c \in T : c \in 0 .. max /\ from + c <= n /\ \A d \in 0 .. c - 1 : lens[from + d] = v
  OBVIOUS
<1> HIDE DEF T
<1>4. Max(T) \in T /\ \A c \in T : c <= Max(T)  BY <1>1, MaxIs
<1>5. Run(v, from, max) = Max(T)  BY DEF Run, T
<1>6. QED  BY <1>2, <1>3, <1>4, <1>5

-----------------------------------------------------------------------------
(* A turn of its loop makes symbols that stand for the lengths it passes.  *)
LEMMA EncodeZerosStep ==
  ASSUME JoinedOK, EncodedOK, EncodeZeros
  PROVE  EncodedOK'
<1>1. /\ i < n /\ lens[i] = 0 /\ UNCHANGED joined /\ lens' = lens /\ n' = n
      /\ IF ZeroRun < ZEROS_MIN
         THEN encoded' = Append(encoded, Lit(0)) /\ i' = i + 1
         ELSE /\ encoded' = Append(encoded, [sym |-> IF ZeroRun <= ZEROS_MAX THEN CODELEN_ZEROS
                                                                            ELSE CODELEN_ZEROS2,
                                             count |-> ZeroRun])
              /\ i' = i + ZeroRun
  BY DEF EncodeZeros, joined, n
<1>2. PICK N \in Nat : N = n  BY SumOfLens
<1>3. i \in 0 .. N /\ i \in Nat /\ encoded \in Seq(Encoded) /\ Encodes(lens, encoded, i)
  BY <1>2 DEF EncodedOK
<1>4. PICK r \in Nat : /\ r = ZeroRun /\ r \in 0 .. ZEROS2_MAX /\ i + r <= N /\ r >= 1
                       /\ \A d \in 0 .. r - 1 : lens[i + d] = 0
  <2>1. ZEROS2_MAX \in Nat /\ ZEROS2_MAX >= 1  BY Runs
  <2>2. i \in 0 .. n  BY <1>2, <1>3
  <2>3. /\ Run(0, i, ZEROS2_MAX) \in 0 .. ZEROS2_MAX /\ i + Run(0, i, ZEROS2_MAX) <= n
        /\ \A d \in 0 .. Run(0, i, ZEROS2_MAX) - 1 : lens[i + d] = 0
        /\ Run(0, i, ZEROS2_MAX) >= 1
    BY <1>1, <2>1, <2>2, RunIs
  <2>4. QED  BY <1>2, <2>1, <2>3 DEF ZeroRun
<1>5. PICK e \in Encoded : /\ encoded' = Append(encoded, e) /\ i' = i + Width(e) /\ Width(e) \in Nat \ {0}
                           /\ i + Width(e) <= N
                           /\ \A y \in i .. i + Width(e) - 1 : lens[y] = 0
                           /\ Means(lens, e, i)
  <2>1. CASE r < ZEROS_MIN
    <3>1. encoded' = Append(encoded, Lit(0)) /\ i' = i + 1  BY <1>1, <1>4, <2>1
    <3>2. Lit(0) \in Encoded /\ Lit(0).sym = 0 /\ Lit(0).count = 0 /\ 0 <= CODELEN_MAX_LIT
      BY Sizes DEF Lit, Encoded
    <3>3. Width(Lit(0)) = 1  BY <3>2 DEF Width
    <3>4. Means(lens, Lit(0), i)  BY <1>1, <3>2 DEF Means
    <3>5. i + 1 <= N /\ \A y \in i .. i + 1 - 1 : y = i  BY <1>1, <1>2, <1>3
    <3>6. QED  BY <1>1, <3>1, <3>2, <3>3, <3>4, <3>5
  <2>2. CASE ~ (r < ZEROS_MIN)
    <3> DEFINE s == IF r <= ZEROS_MAX THEN CODELEN_ZEROS ELSE CODELEN_ZEROS2
               e == [sym |-> s, count |-> r]
    <3>1. encoded' = Append(encoded, e) /\ i' = i + r  BY <1>1, <1>4, <2>2
    <3>2. s \in CodelenSym /\ s > CODELEN_MAX_LIT /\ s # CODELEN_COPY  BY Sizes
    <3>3. r - Shortest(s) \in 0 .. 2 ^ ebits[s] - 1
      <4>0. ZEROS_MIN \in Nat /\ ZEROS_MAX \in Nat /\ ZEROS2_MIN = ZEROS_MAX + 1 /\ ZEROS2_MAX \in Nat
        BY Runs
      <4>1. CASE r <= ZEROS_MAX
        <5>1. r \in ZEROS_MIN .. ZEROS_MAX  BY <2>2, <4>0, <4>1
        <5>2. QED  BY <4>1, <5>1, Runs
      <4>2. CASE ~ (r <= ZEROS_MAX)
        <5>1. r \in ZEROS2_MIN .. ZEROS2_MAX  BY <1>4, <4>0, <4>2
        <5>2. QED  BY <4>2, <5>1, Runs
      <4>3. QED  BY <4>1, <4>2
    <3> HIDE DEF s
    <3>4. e \in Encoded /\ e.sym = s /\ e.count = r /\ r # 0  BY <1>4, <3>2 DEF Encoded
    <3>5. \A y \in i .. i + r - 1 : lens[y] = 0
      <4>1. ASSUME NEW y \in i .. i + r - 1  PROVE lens[y] = 0
        <5>1. y - i \in 0 .. r - 1 /\ i + (y - i) = y  BY <1>3, <1>4
        <5>2. QED  BY <1>4, <5>1
      <4>2. QED  BY <4>1
    <3> HIDE DEF e
    <3>6. Width(e) = r  BY <3>4 DEF Width
    <3>7. Means(lens, e, i)  BY <3>2, <3>3, <3>4, <3>5 DEF Means
    <3>8. QED  BY <1>4, <3>1, <3>4, <3>5, <3>6, <3>7
  <2>3. QED  BY <2>1, <2>2
<1>6. Encodes(lens, encoded', i') /\ encoded' \in Seq(Encoded)
  BY <1>3, <1>5, EncodeMore
<1>7. i' \in 0 .. n'
  <2>1. PICK w \in Nat : w = Width(e)  BY <1>5
  <2>2. QED  BY <1>1, <1>2, <1>3, <1>5, <2>1
<1>8. ASSUME NEW y \in 0 .. i' - 1, lens[y] # 0
      PROVE  \E x \in 1 .. Len(encoded') : encoded'[x].sym \in 1 .. CODELEN_MAX_LIT
  <2>0. PICK w \in Nat : w = Width(e)  BY <1>5
  <2>1. y \in 0 .. i - 1
    <3>1. y \notin i .. i + w - 1  BY <1>5, <1>8, <2>0
    <3>2. i' = i + w  BY <1>5, <2>0
    <3>3. QED  BY <1>3, <2>0, <3>1, <3>2
  <2>2. PICK x \in 1 .. Len(encoded) : encoded[x].sym \in 1 .. CODELEN_MAX_LIT
    BY <1>8, <2>1 DEF EncodedOK
  <2>3. x \in 1 .. Len(encoded') /\ encoded'[x] = encoded[x]  BY <1>3, <1>5
  <2>4. QED  BY <2>2, <2>3
<1>9. QED  BY <1>1, <1>6, <1>7, <1>8 DEF EncodedOK

LEMMA EncodeLenStep ==
  ASSUME JoinedOK, EncodedOK, EncodeLen
  PROVE  EncodedOK'
<1>1. /\ i < n /\ lens[i] # 0 /\ UNCHANGED joined /\ lens' = lens /\ n' = n
      /\ IF CopyRun >= COPY_MIN
         THEN /\ encoded' = encoded \o <<Lit(lens[i]), [sym |-> CODELEN_COPY, count |-> CopyRun]>>
              /\ i' = i + 1 + CopyRun
         ELSE encoded' = Append(encoded, Lit(lens[i])) /\ i' = i + 1
  BY DEF EncodeLen, joined, n
<1>2. PICK N \in Nat : N = n  BY SumOfLens
<1>3. i \in 0 .. N /\ i \in Nat /\ encoded \in Seq(Encoded) /\ Encodes(lens, encoded, i)
  BY <1>2 DEF EncodedOK
<1>4. PICK v \in 1 .. CODELEN_MAX_LIT : v = lens[i]
  <2>1. lens \in [0 .. N - 1 -> 0 .. CODELEN_MAX_LIT]  BY <1>2 DEF JoinedOK
  <2>2. i \in 0 .. N - 1  BY <1>1, <1>2, <1>3
  <2>3. lens[i] \in 0 .. CODELEN_MAX_LIT  BY <2>1, <2>2
  <2>4. QED  BY <1>1, <2>3, Sizes
<1>5. PICK r \in Nat : /\ r = CopyRun /\ r \in 0 .. COPY_MAX /\ i + 1 + r <= N
                       /\ \A d \in 0 .. r - 1 : lens[i + 1 + d] = v
  <2>1. COPY_MAX \in Nat  BY Runs
  <2>2. i + 1 \in 0 .. n  BY <1>1, <1>2, <1>3
  <2>3. /\ Run(v, i + 1, COPY_MAX) \in 0 .. COPY_MAX /\ i + 1 + Run(v, i + 1, COPY_MAX) <= n
        /\ \A d \in 0 .. Run(v, i + 1, COPY_MAX) - 1 : lens[i + 1 + d] = v
    BY <2>1, <2>2, RunIs
  <2>4. QED  BY <1>2, <1>4, <2>1, <2>3 DEF CopyRun
<1> DEFINE e == Lit(v)
           enc == Append(encoded, e)
<1>6. e \in Encoded /\ e.sym = v /\ e.count = 0 /\ v <= CODELEN_MAX_LIT
  BY Sizes DEF Lit, Encoded
<1>7. Means(lens, e, i) /\ Width(e) = 1
  BY <1>4, <1>6 DEF Means, Width
<1> HIDE DEF e
<1>8. Encodes(lens, enc, i + 1) /\ enc \in Seq(Encoded)
  BY <1>3, <1>6, <1>7, EncodeMore
<1>9. /\ Len(encoded) + 1 \in 1 .. Len(enc) /\ enc[Len(encoded) + 1] = e
  BY <1>3, <1>6
<1>10. CASE ~ (r >= COPY_MIN)
  <2>1. encoded' = enc /\ i' = i + 1  BY <1>1, <1>4, <1>5, <1>10 DEF e
  <2>2. i' \in 0 .. n'  BY <1>1, <1>2, <1>3, <2>1
  <2>3. \E x \in 1 .. Len(encoded') : encoded'[x].sym \in 1 .. CODELEN_MAX_LIT
    BY <1>6, <1>9, <2>1
  <2>4. QED  BY <1>1, <1>8, <2>1, <2>2, <2>3 DEF EncodedOK
<1>11. CASE r >= COPY_MIN
  <2> DEFINE g == [sym |-> CODELEN_COPY, count |-> r]
  <2>1. encoded' = encoded \o <<e, g>> /\ i' = i + 1 + r  BY <1>1, <1>4, <1>5, <1>11 DEF e
  <2>2. COPY_MIN \in Nat \ {0} /\ COPY_MAX \in Nat  BY Runs
  <2>3. /\ CODELEN_COPY \in CodelenSym /\ CODELEN_COPY > CODELEN_MAX_LIT
        /\ r - Shortest(CODELEN_COPY) \in 0 .. 2 ^ ebits[CODELEN_COPY] - 1
    <3>1. r \in COPY_MIN .. COPY_MAX  BY <1>5, <1>11, <2>2
    <3>2. QED  BY <3>1, Runs, Sizes
  <2>4. g \in Encoded /\ g.sym = CODELEN_COPY /\ g.count = r /\ r # 0
    BY <1>11, <2>2, <2>3 DEF Encoded
  <2> HIDE DEF g
  <2>5. \A y \in i + 1 .. i + 1 + r - 1 : lens[y] = lens[(i + 1) - 1]
    <3>1. ASSUME NEW y \in i + 1 .. i + 1 + r - 1  PROVE lens[y] = v
      <4>1. y - (i + 1) \in 0 .. r - 1 /\ i + 1 + (y - (i + 1)) = y  BY <1>3, <1>5
      <4>2. QED  BY <1>5, <4>1
    <3>2. (i + 1) - 1 = i  BY <1>3
    <3>3. QED  BY <1>4, <3>1, <3>2
  <2>6. Means(lens, g, i + 1)
    <3>1. i + 1 >= 1  BY <1>3
    <3>2. QED  BY <2>3, <2>4, <2>5, <3>1 DEF Means
  <2>7. Width(g) = r  BY <2>4 DEF Width
  <2>8. encoded' = Append(enc, g)
    <3>1. Append(Append(encoded, e), g) = encoded \o <<e, g>>  BY <1>3, <1>6, <2>4
    <3>2. QED  BY <2>1, <3>1
  <2>9. Encodes(lens, encoded', i + 1 + r) /\ encoded' \in Seq(Encoded)
    <3>1. i + 1 \in Nat  BY <1>3
    <3> HIDE DEF enc
    <3>2. QED  BY <1>8, <2>4, <2>6, <2>7, <2>8, <3>1, EncodeMore
  <2>10. i' \in 0 .. n'  BY <1>1, <1>2, <1>3, <1>5, <2>1
  <2>11. Len(encoded) + 1 \in 1 .. Len(encoded') /\ encoded'[Len(encoded) + 1] = e
    <3> HIDE DEF enc
    <3>1. Len(encoded) \in Nat  BY <1>3
    <3>2. QED  BY <1>8, <1>9, <2>4, <2>8, <3>1
  <2>12. \E x \in 1 .. Len(encoded') : encoded'[x].sym \in 1 .. CODELEN_MAX_LIT
    BY <1>6, <2>11
  <2>13. QED  BY <1>1, <2>1, <2>9, <2>10, <2>12 DEF EncodedOK
<1>12. QED  BY <1>10, <1>11

-----------------------------------------------------------------------------
(* Some symbol of a length has a codeword, and no such symbol is among the *)
(* first four of the order.                                                *)
LEMMA CountIs ==
  ASSUME NEW L \in [CodelenSym -> Nat], NEW s \in 1 .. CODELEN_MAX_LIT, L[s] # 0
  PROVE  /\ count_codelen_lens(L) \in MIN_CODELEN_LENS .. MAX_CODELEN_LENS
         /\ \A x \in count_codelen_lens(L) + 1 .. MAX_CODELEN_LENS : L[codelen_lengths_order[x]] = 0
<1> DEFINE T == {x \in 1 .. MAX_CODELEN_LENS : L[codelen_lengths_order[x]] # 0}
<1>1. MAX_CODELEN_LENS \in Nat /\ MIN_CODELEN_LENS = 4  BY Sizes
<1>2. PICK p \in 1 .. MAX_CODELEN_LENS : codelen_lengths_order[p] = s
  <2>1. /\ codelen_lengths_order \in [1 .. MAX_CODELEN_LENS -> CodelenSym]
        /\ Range(codelen_lengths_order) = CodelenSym
    BY CodeLengthsAssumption
  <2>2. s \in CodelenSym  BY Sizes
  <2>3. QED  BY <2>1, <2>2 DEF Range
<1>3. p \notin 1 .. MIN_CODELEN_LENS
  <2>1. s \notin {0, CODELEN_COPY, CODELEN_ZEROS, CODELEN_ZEROS2}  BY Sizes
  <2>2. QED  BY <1>2, <2>1, CodeLengthsAssumption
<1>4. p \in T /\ p \in Nat /\ p >= 5 /\ T \subseteq Nat /\ T # {} /\ \A x \in T : x <= MAX_CODELEN_LENS
  BY <1>1, <1>2, <1>3
<1>5. \A x \in 1 .. MAX_CODELEN_LENS : L[codelen_lengths_order[x]] # 0 => x \in T  OBVIOUS
<1> HIDE DEF T
<1>6. Max(T) \in T /\ \A x \in T : x <= Max(T)  BY <1>1, <1>4, MaxIs
<1>7. PICK t \in T : t = Max(T)  BY <1>6
<1>8. t \in Nat /\ t <= MAX_CODELEN_LENS /\ t >= 5  BY <1>4, <1>6, <1>7
<1>9. count_codelen_lens(L) = t  BY <1>7 DEF count_codelen_lens, T
<1>10. ASSUME NEW x \in t + 1 .. MAX_CODELEN_LENS  PROVE L[codelen_lengths_order[x]] = 0
  <2>1. x \in 1 .. MAX_CODELEN_LENS /\ ~ (x <= t)  BY <1>1, <1>8
  <2>2. x \notin T  BY <1>6, <1>7, <2>1
  <2>3. QED  BY <1>5, <2>1, <2>2
<1>11. QED  BY <1>1, <1>8, <1>9, <1>10

(* What dyn_block_len adds up by symbol is what the symbols take.          *)
LEMMA DynLenIs ==
  ASSUME encoded \in Seq(Encoded), NEW L \in [CodelenSym -> Nat]
  PROVE  dyn_block_len(L) = Base + 3 * count_codelen_lens(L) + CostTo(L, encoded, Len(encoded))
<1> DEFINE m == Len(encoded)
           sy == [x \in 1 .. m |-> encoded[x].sym]
           w == [s \in CodelenSym |-> L[s] + ebits[s]]
<1>1. m \in Nat /\ IsFiniteSet(CodelenSym)
  <2>1. IsFiniteSet(0 .. CODELEN_MAX_LIT + 3)  BY FS_Interval, Sizes
  <2>2. QED  BY <2>1, Sizes
<1>2. \A x \in 1 .. m : encoded[x] \in Encoded  OBVIOUS
<1>3. sy \in [1 .. m -> CodelenSym]  BY <1>2 DEF Encoded
<1>4. w \in [CodelenSym -> Nat]  BY Runs
<1>5. [s \in CodelenSym |-> codelen_freqs[s] * (L[s] + ebits[s])]
        = [s \in CodelenSym |-> Cardinality({x \in 1 .. m : sy[x] = s}) * w[s]]
  <2>1. ASSUME NEW s \in CodelenSym
        PROVE  codelen_freqs[s] = Cardinality({x \in 1 .. m : sy[x] = s})
    <3>1. {x \in 1 .. m : sy[x] = s} = {x \in 1 .. Len(encoded) : encoded[x].sym = s}  OBVIOUS
    <3> HIDE DEF sy, w
    <3>2. QED  BY <3>1 DEF codelen_freqs
  <2>2. \A s \in CodelenSym : w[s] = L[s] + ebits[s]  OBVIOUS
  <2> HIDE DEF sy, w
  <2>3. QED  BY <2>1, <2>2
<1>6. [x \in 1 .. m |-> L[encoded[x].sym] + ebits[encoded[x].sym]] = [x \in 1 .. m |-> w[sy[x]]]
  BY <1>2 DEF Encoded
<1> HIDE DEF sy, w, m
<1>7. SumFunctionOnSet([s \in CodelenSym |-> codelen_freqs[s] * (L[s] + ebits[s])], CodelenSym)
        = SumFunctionOnSet([x \in 1 .. m |-> L[encoded[x].sym] + ebits[encoded[x].sym]], 1 .. m)
  <2>1. SumFunctionOnSet([s \in CodelenSym |-> Cardinality({x \in 1 .. m : sy[x] = s}) * w[s]], CodelenSym)
          = SumFunctionOnSet([x \in 1 .. m |-> w[sy[x]]], 1 .. m)
    BY ONLY <1>1, <1>3, <1>4, SumBySymbol, ZenonT(60)
  <2>2. QED  BY ONLY <1>5, <1>6, <2>1, Zenon
<1>8. QED  BY <1>7 DEF dyn_block_len, Base, CostTo, m

(* write_block: the third code.                                            *)
LEMMA ThirdStep ==
  ASSUME JoinedOK, EncodedOK, ThirdCode
  PROVE  ThirdOK'
<1>1. /\ i = n /\ UNCHANGED <<i, encoded>> /\ n' = n
      /\ num_codelen_lens' = count_codelen_lens(codelen_lens')
      /\ dyn_len' = dyn_block_len(codelen_lens')
  BY DEF ThirdCode, joined, n
<1>2. PICK c \in CodelenLength :
        codelen_lens' = [s \in CodelenSym |-> IF codelen_freqs[s] = 0 THEN 0 ELSE c[s]]
  BY DEF ThirdCode
<1>3. PICK L : L = codelen_lens'  OBVIOUS
<1>4. c \in [CodelenSym -> 1 .. 7]  BY CodeLengthsAssumption
<1>5. L \in [CodelenSym -> Nat] /\ \A s \in CodelenSym : codelen_freqs[s] # 0 => L[s] # 0
  BY <1>2, <1>3, <1>4
<1>6. PICK x \in 1 .. Len(encoded) : encoded[x].sym \in 1 .. CODELEN_MAX_LIT
  <2>1. LITLEN_EOB \in 0 .. i - 1  BY <1>1, SumOfLens, Sizes
  <2>2. lens[LITLEN_EOB] # 0  BY DEF JoinedOK
  <2>3. QED  BY <2>1, <2>2 DEF EncodedOK
<1>7. PICK s \in 1 .. CODELEN_MAX_LIT : s = encoded[x].sym  BY <1>6
<1>8. s \in CodelenSym  BY Sizes
<1>9. codelen_freqs[s] # 0
  <2> DEFINE S == {y \in 1 .. Len(encoded) : encoded[y].sym = s}
  <2>1. x \in S /\ S \subseteq 1 .. Len(encoded)  BY <1>7
  <2>2. IsFiniteSet(1 .. Len(encoded))
    <3>1. Len(encoded) \in Int  BY DEF EncodedOK
    <3>2. QED  BY <3>1, FS_Interval
  <2> HIDE DEF S
  <2>3. IsFiniteSet(S)  BY <2>1, <2>2, FS_Subset
  <2>4. Cardinality(S) # 0  BY <2>1, <2>3, FS_EmptySet
  <2>5. QED  BY <1>8, <2>4 DEF codelen_freqs, S
<1>10. L[s] # 0  BY <1>5, <1>8, <1>9
<1>11. /\ count_codelen_lens(L) \in MIN_CODELEN_LENS .. MAX_CODELEN_LENS
       /\ \A y \in count_codelen_lens(L) + 1 .. MAX_CODELEN_LENS : L[codelen_lengths_order[y]] = 0
  BY <1>5, <1>10, CountIs
<1>12. dyn_block_len(L) = Base + 3 * count_codelen_lens(L) + CostTo(L, encoded, Len(encoded))
  BY <1>5, DynLenIs DEF EncodedOK
<1>13. /\ num_codelen_lens' = count_codelen_lens(L) /\ dyn_len' = dyn_block_len(L)
       /\ CostTo(codelen_lens', encoded', Len(encoded')) = CostTo(L, encoded, Len(encoded))
  BY <1>1, <1>3
<1>14. QED
  BY <1>1, <1>3, <1>5, <1>11, <1>12, <1>13 DEF ThirdOK

-----------------------------------------------------------------------------
(* write_dynamic_block: the bits of the symbols add up one by one.         *)
LEMMA CostStep ==
  ASSUME NEW c \in [CodelenSym -> Nat], NEW enc \in Seq(Encoded), NEW x \in 0 .. Len(enc)
  PROVE  /\ CostTo(c, enc, x) \in Nat
         /\ x = 0 => CostTo(c, enc, x) = 0
         /\ x # 0 => /\ CostTo(c, enc, x) = CostTo(c, enc, x - 1) + (c[enc[x].sym] + ebits[enc[x].sym])
                     /\ c[enc[x].sym] + ebits[enc[x].sym] \in Nat
<1>0. \A y \in 1 .. Len(enc) : enc[y] \in Encoded  OBVIOUS
<1>1. \A y \in 1 .. Len(enc) : enc[y].sym \in CodelenSym  BY <1>0 DEF Encoded
<1>2. \A y \in 1 .. Len(enc) : c[enc[y].sym] + ebits[enc[y].sym] \in Nat  BY <1>1, Runs
<1> DEFINE f == [y \in 1 .. Len(enc) |-> c[enc[y].sym] + ebits[enc[y].sym]]
           m == Len(enc)
<1>3. m \in Nat /\ \A y \in 1 .. m : f[y] \in Nat /\ f[y] = c[enc[y].sym] + ebits[enc[y].sym]
  BY <1>2
<1>4. x \in 0 .. m  OBVIOUS
<1> HIDE DEF f, m
<1>5. /\ SumFunctionOnSet(f, 1 .. x) \in Nat
      /\ x = 0 => SumFunctionOnSet(f, 1 .. x) = 0
      /\ x # 0 => SumFunctionOnSet(f, 1 .. x) = SumFunctionOnSet(f, 1 .. x - 1) + f[x]
  BY <1>3, <1>4, SumUpto
<1>6. \A y : CostTo(c, enc, y) = SumFunctionOnSet(f, 1 .. y)  BY DEF CostTo, f
<1>7. x # 0 => x \in 1 .. m  BY <1>3, <1>4
<1>8. QED  BY <1>3, <1>5, <1>6, <1>7

(* Up to the third code nothing is written.                                *)
LEMMA EncodingStep ==
  ASSUME RoundInv, ~any, Join \/ EncodeZeros \/ EncodeLen \/ ThirdCode
  PROVE  RoundInv'
<1>1. /\ UNCHANGED <<codes, output, any>> /\ pc \in {"join", "encode"} /\ pc' \in {"encode", "write"}
  BY DEF Join, EncodeZeros, EncodeLen, ThirdCode
<1>2. stream' = stream /\ stream.symbols = <<>> /\ stream.codelens = <<>>
  BY <1>1 DEF RoundInv, WrittenOK, output
<1>3. WrittenOK' /\ ReadOK'  BY <1>1, <1>2 DEF WrittenOK, ReadOK
<1>4. litlen_lens' \in LitlenLens /\ dist_lens' \in DistLens /\ stream' \in Streams
  BY <1>1, <1>2 DEF RoundInv, codes
<1>5. CASE Join
  <2>1. JoinedOK' /\ EncodedOK'  BY <1>5, JoinStep
  <2>2. pc' = "encode"  BY <1>5 DEF Join
  <2>3. QED  BY <1>3, <1>4, <2>1, <2>2 DEF RoundInv
<1>6. CASE EncodeZeros \/ EncodeLen
  <2>1. pc = "encode" /\ pc' = "encode" /\ UNCHANGED <<codes, joined>>
    BY <1>6 DEF EncodeZeros, EncodeLen
  <2>2. JoinedOK /\ EncodedOK  BY <2>1 DEF RoundInv
  <2>3. JoinedOK'  BY <2>1, <2>2, SameJoined
  <2>4. EncodedOK'  BY <1>6, <2>2, EncodeZerosStep, EncodeLenStep
  <2>5. QED  BY <1>3, <1>4, <2>1, <2>3, <2>4 DEF RoundInv
<1>7. CASE ThirdCode
  <2>1. pc = "encode" /\ pc' = "write" /\ UNCHANGED <<codes, joined, i, encoded>>
    BY <1>7 DEF ThirdCode
  <2>2. JoinedOK /\ EncodedOK  BY <2>1 DEF RoundInv
  <2>3. JoinedOK' /\ EncodedOK'  BY <2>1, <2>2, SameJoined, SameEncoded
  <2>4. ThirdOK'  BY <1>7, <2>2, ThirdStep
  <2>5. QED  BY <1>3, <1>4, <2>1, <2>3, <2>4 DEF RoundInv
<1>8. QED  BY <1>5, <1>6, <1>7

LEMMA NumbersAre ==
  ASSUME JoinedOK, ThirdOK
  PROVE  Numbers \in Int
<1>1. PICK p \in Nat, q \in Nat : p = 2 ^ HLIT /\ q = 2 ^ (HLIT + HDIST)
  <2>1. 2 ^ HLIT \in Nat  BY Powers
  <2>2. 2 ^ (HLIT + HDIST) \in Nat
    <3>1. HLIT + HDIST \in Nat  BY CodeLengthsAssumption
    <3>2. QED  BY <3>1, PowerPositive
  <2>3. QED  BY <2>1, <2>2
<1>2. PICK a \in Int, b \in Int, c \in Int :
        /\ a = num_litlen_lens - MIN_LITLEN_LENS /\ b = num_dist_lens - MIN_DIST_LENS
        /\ c = num_codelen_lens - MIN_CODELEN_LENS
  <2>1. num_litlen_lens \in Int /\ num_dist_lens \in Int /\ num_codelen_lens \in Int
    BY SumOfLens, Sizes DEF ThirdOK
  <2>2. QED  BY <2>1, Sizes
<1>3. b * p \in Int /\ c * q \in Int  OBVIOUS
<1>4. a + b * p + c * q \in Int  BY <1>3
<1>5. QED  BY <1>1, <1>2, <1>4 DEF Numbers

(* Every part of the header is written in its turn.                        *)
LEMMA WritingStep ==
  ASSUME RoundInv, ~any,
         WriteNumbers \/ WriteCodelen \/ CodelensEnd \/ WriteLen \/ HeaderWritten
  PROVE  RoundInv'
<1>1. /\ UNCHANGED <<codes, joined, i, encoded, third, any>>
      /\ pc \in {"write", "write_codelens", "write_lens"}
      /\ pc' \in {"write_codelens", "write_lens", "read"}
  BY DEF WriteNumbers, WriteCodelen, CodelensEnd, WriteLen, HeaderWritten
<1>2. JoinedOK /\ EncodedOK /\ ThirdOK /\ WrittenOK /\ stream \in Streams  BY <1>1 DEF RoundInv
<1>3. JoinedOK' /\ EncodedOK' /\ ThirdOK'  BY <1>1, <1>2, SameJoined, SameEncoded, SameThird
<1>4. litlen_lens' \in LitlenLens /\ dist_lens' \in DistLens  BY <1>1 DEF RoundInv, codes
<1>5. ReadOK'  BY <1>1 DEF ReadOK
<1>6. Numbers' = Numbers  BY <1>1 DEF Numbers, joined, third
<1>7. /\ num_codelen_lens \in Nat /\ codelen_lens \in [CodelenSym -> Nat]
      /\ encoded \in Seq(Encoded) /\ Len(encoded) \in Nat /\ num_codelen_lens <= MAX_CODELEN_LENS
  <2>1. encoded \in Seq(Encoded) /\ Len(encoded) \in Nat  BY <1>2 DEF EncodedOK
  <2>2. /\ num_codelen_lens \in MIN_CODELEN_LENS .. MAX_CODELEN_LENS
        /\ codelen_lens \in [CodelenSym -> Nat]
    BY <1>2 DEF ThirdOK
  <2>3. MIN_CODELEN_LENS = 4 /\ MAX_CODELEN_LENS \in Nat  BY Sizes
  <2>4. num_codelen_lens \in Nat /\ num_codelen_lens <= MAX_CODELEN_LENS  BY ONLY <2>2, <2>3
  <2>5. QED  BY ONLY <2>1, <2>2, <2>4
<1>8. /\ codelen_lens' = codelen_lens /\ num_codelen_lens' = num_codelen_lens /\ encoded' = encoded
      /\ dyn_len' = dyn_len
  BY <1>1 DEF third
<1>9. Base \in Nat  BY CodeLengthsAssumption DEF Base
<1>10. SUFFICES WrittenOK' /\ stream' \in Streams
  BY <1>1, <1>3, <1>4, <1>5 DEF RoundInv
<1>11. /\ stream.numbers \in Int /\ stream.codelens \in Seq(Nat)
       /\ stream.symbols \in Seq([sym : CodelenSym, extra : Int])
       /\ stream = [numbers |-> stream.numbers, codelens |-> stream.codelens, symbols |-> stream.symbols]
  BY <1>2 DEF Streams
<1>12. CASE WriteNumbers
  <2>1. /\ pc = "write" /\ pc' = "write_codelens" /\ k' = 0 /\ written' = Base
        /\ stream' = [stream EXCEPT !.numbers = Numbers]
    BY <1>12 DEF WriteNumbers, Numbers, Base
  <2>2. Numbers \in Int  BY <1>2, NumbersAre
  <2>3. stream.symbols = <<>> /\ stream.codelens = <<>>  BY <1>2, <2>1 DEF WrittenOK
  <2>4. /\ stream'.symbols = <<>> /\ stream'.codelens = <<>> /\ stream'.numbers = Numbers
        /\ stream' \in Streams
    BY <1>11, <2>1, <2>2, <2>3 DEF Streams
  <2>5. CodelensTo(k)'  BY <2>1, <2>4 DEF CodelensTo
  <2>6. k' \in 0 .. num_codelen_lens' /\ written' = Base + 3 * k'  BY <1>7, <1>8, <1>9, <2>1
  <2>7. QED  BY <1>6, <2>1, <2>4, <2>5, <2>6 DEF WrittenOK
<1>13. CASE WriteCodelen
  <2> DEFINE v == codelen_lens[codelen_lengths_order[k + 1]]
  <2>1. /\ pc = "write_codelens" /\ pc' = pc /\ k < num_codelen_lens /\ k' = k + 1
        /\ written' = written + 3 /\ stream' = [stream EXCEPT !.codelens = Append(@, v)]
    BY <1>13 DEF WriteCodelen
  <2>2. k \in 0 .. num_codelen_lens /\ CodelensTo(k) /\ written = Base + 3 * k
    BY <1>2, <2>1 DEF WrittenOK
  <2>a. k \in 0 .. num_codelen_lens /\ k < num_codelen_lens  BY <2>1, <2>2
  <2>b. /\ k \in Nat /\ k + 1 \in 0 .. num_codelen_lens /\ k + 1 \in Nat /\ k + 1 <= MAX_CODELEN_LENS
        /\ k + 1 >= 1
    BY ONLY <1>7, <2>a, Sizes
  <2>3. k + 1 \in 1 .. MAX_CODELEN_LENS  BY <2>b, Sizes
  <2>4. v \in Nat
    <3>1. codelen_lengths_order[k + 1] \in CodelenSym  BY <2>3, CodeLengthsAssumption
    <3>2. QED  BY <1>7, <3>1
  <2> HIDE DEF v
  <2>5. /\ stream'.symbols = stream.symbols /\ stream'.codelens = Append(stream.codelens, v)
        /\ stream'.numbers = stream.numbers /\ stream' \in Streams
    <3>1. /\ stream'.symbols = stream.symbols /\ stream'.codelens = Append(stream.codelens, v)
          /\ stream'.numbers = stream.numbers
          /\ stream' = [numbers |-> stream.numbers, codelens |-> Append(stream.codelens, v),
                         symbols |-> stream.symbols]
      BY <1>11, <2>1
    <3>2. Append(stream.codelens, v) \in Seq(Nat)  BY <1>11, <2>4
    <3>3. QED  BY <1>11, <3>1, <3>2 DEF Streams
  <2>6. CodelensTo(k)'
    <3>1. Len(stream.codelens) = k /\ k \in Nat
          /\ \A x \in 1 .. k : stream.codelens[x] = codelen_lens[codelen_lengths_order[x]]
      BY <1>7, <2>2 DEF CodelensTo
    <3>2. Len(stream'.codelens) = k + 1  BY <1>11, <2>4, <2>5, <3>1
    <3>3. \A x \in 1 .. k + 1 : stream'.codelens[x] = IF x = k + 1 THEN v ELSE stream.codelens[x]
      BY <1>11, <2>4, <2>5, <3>1
    <3>4. \A x \in 1 .. k + 1 : stream'.codelens[x] = codelen_lens[codelen_lengths_order[x]]
      BY <3>1, <3>3 DEF v
    <3>5. QED  BY <1>8, <2>1, <3>2, <3>4 DEF CodelensTo
  <2>7. k' \in 0 .. num_codelen_lens' /\ written' = Base + 3 * k'
    <3>1. k' = k + 1 /\ written' = written + 3 /\ written = Base + 3 * k  BY <2>1, <2>2
    <3>2. QED  BY ONLY <1>8, <1>9, <2>b, <3>1
  <2>8. stream'.symbols = <<>> /\ stream'.numbers = Numbers'  BY <1>2, <1>6, <2>1, <2>5 DEF WrittenOK
  <2>9. QED  BY <2>1, <2>5, <2>6, <2>7, <2>8 DEF WrittenOK
<1>14. CASE CodelensEnd
  <2>1. /\ pc = "write_codelens" /\ pc' = "write_lens" /\ k = num_codelen_lens /\ k' = 0
        /\ written' = written /\ stream' = stream
    BY <1>14 DEF CodelensEnd, output
  <2>2. /\ CodelensTo(num_codelen_lens) /\ written = Base + 3 * num_codelen_lens
        /\ stream.symbols = <<>> /\ stream.numbers = Numbers
    BY <1>2, <2>1 DEF WrittenOK
  <2>3. CodelensTo(num_codelen_lens)'  BY <1>8, <2>1, <2>2 DEF CodelensTo
  <2>4. SymbolsTo(k)'  BY <2>1, <2>2 DEF SymbolsTo
  <2>5. CostTo(codelen_lens, encoded, 0) = 0  BY <1>7, CostStep
  <2>6. written' = Base + 3 * num_codelen_lens' + CostTo(codelen_lens', encoded', k')
    BY <1>7, <1>8, <1>9, <2>1, <2>2, <2>5
  <2>7. k' \in 0 .. Len(encoded')  BY <1>7, <1>8, <2>1
  <2>8. QED  BY <1>2, <1>6, <2>1, <2>2, <2>3, <2>4, <2>6, <2>7 DEF WrittenOK
<1>15. CASE WriteLen
  <2> DEFINE e == encoded[k + 1]
  <2>1. /\ pc = "write_lens" /\ pc' = pc /\ k < Len(encoded) /\ k' = k + 1
        /\ stream' = [stream EXCEPT !.symbols = Append(@, SymbolOf(e))]
        /\ written' = written + codelen_lens[e.sym] + ebits[e.sym]
    BY <1>15 DEF WriteLen, SymbolOf
  <2>2. /\ k \in 0 .. Len(encoded) /\ CodelensTo(num_codelen_lens) /\ SymbolsTo(k)
        /\ written = Base + 3 * num_codelen_lens + CostTo(codelen_lens, encoded, k)
        /\ stream.numbers = Numbers
    BY <1>2, <2>1 DEF WrittenOK
  <2>3. k + 1 \in 1 .. Len(encoded) /\ k + 1 \in 0 .. Len(encoded) /\ k + 1 # 0 /\ (k + 1) - 1 = k
    <3>1. k \in 0 .. Len(encoded) /\ k < Len(encoded)  BY <2>1, <2>2
    <3>2. QED  BY ONLY <1>7, <3>1
  <2>4. e \in Encoded  BY <1>7, <2>3
  <2>5. SymbolOf(e) \in [sym : CodelenSym, extra : Int]
    <3>1. e.sym \in CodelenSym /\ e.count \in Nat  BY <2>4 DEF Encoded
    <3>2. Shortest(e.sym) \in Nat  BY <3>1, Runs
    <3>3. QED  BY <3>1, <3>2 DEF SymbolOf
  <2>6. PICK g \in [sym : CodelenSym, extra : Int] : g = SymbolOf(e)  BY <2>5
  <2>7. /\ stream'.symbols = Append(stream.symbols, g) /\ stream'.codelens = stream.codelens
        /\ stream'.numbers = stream.numbers /\ stream' \in Streams
    <3>1. /\ stream'.symbols = Append(stream.symbols, g) /\ stream'.codelens = stream.codelens
          /\ stream'.numbers = stream.numbers
          /\ stream' = [numbers |-> stream.numbers, codelens |-> stream.codelens,
                         symbols |-> Append(stream.symbols, g)]
      BY <1>11, <2>1, <2>6
    <3>2. Append(stream.symbols, g) \in Seq([sym : CodelenSym, extra : Int])  BY <1>11, <2>6
    <3>3. QED  BY <1>11, <3>1, <3>2 DEF Streams
  <2>8. SymbolsTo(k)'
    <3>1. Len(stream.symbols) = k /\ k \in Nat
          /\ \A x \in 1 .. k : stream.symbols[x] = SymbolOf(encoded[x])
      BY <1>7, <2>2 DEF SymbolsTo
    <3>2. Len(stream'.symbols) = k + 1  BY <1>11, <2>6, <2>7, <3>1
    <3>3. \A x \in 1 .. k + 1 : stream'.symbols[x] = IF x = k + 1 THEN g ELSE stream.symbols[x]
      BY <1>11, <2>6, <2>7, <3>1
    <3>4. \A x \in 1 .. k + 1 : stream'.symbols[x] = SymbolOf(encoded[x])
      BY <2>6, <3>1, <3>3
    <3>5. QED  BY <1>8, <2>1, <3>2, <3>4 DEF SymbolsTo
  <2>9. CodelensTo(num_codelen_lens)'  BY <1>8, <2>2, <2>7 DEF CodelensTo
  <2>10. written' = Base + 3 * num_codelen_lens' + CostTo(codelen_lens', encoded', k')
    <3>1. /\ CostTo(codelen_lens, encoded, k + 1)
               = CostTo(codelen_lens, encoded, (k + 1) - 1) + (codelen_lens[e.sym] + ebits[e.sym])
          /\ codelen_lens[e.sym] + ebits[e.sym] \in Nat
      BY <1>7, <2>3, CostStep
    <3>2. CostTo(codelen_lens, encoded, k) \in Nat  BY <1>7, <2>2, CostStep
    <3>3. codelen_lens[e.sym] \in Nat /\ ebits[e.sym] \in Nat
      <4>1. e.sym \in CodelenSym  BY <2>4 DEF Encoded
      <4>2. QED  BY <1>7, <4>1, Runs
    <3>4. PICK a \in Nat, b \in Nat, c \in Nat :
            a = CostTo(codelen_lens, encoded, k) /\ b = codelen_lens[e.sym] /\ c = ebits[e.sym]
      BY <3>2, <3>3
    <3>5. CostTo(codelen_lens', encoded', k') = a + (b + c)  BY <1>8, <2>1, <2>3, <3>1, <3>4
    <3>6. written' = Base + 3 * num_codelen_lens + a + b + c  BY <2>1, <2>2, <3>4
    <3>7. QED  BY <1>7, <1>8, <1>9, <3>5, <3>6
  <2>11. k' \in 0 .. Len(encoded')  BY <1>8, <2>1, <2>3
  <2>12. QED  BY <1>6, <2>1, <2>2, <2>7, <2>8, <2>9, <2>10, <2>11 DEF WrittenOK
<1>16. CASE HeaderWritten
  <2>1. /\ pc = "write_lens" /\ pc' = "read" /\ k = Len(encoded)
        /\ written' = written /\ stream' = stream
    BY <1>16 DEF HeaderWritten, output
  <2>2. /\ CodelensTo(num_codelen_lens) /\ SymbolsTo(Len(encoded)) /\ stream.numbers = Numbers
        /\ written = Base + 3 * num_codelen_lens + CostTo(codelen_lens, encoded, Len(encoded))
    BY <1>2, <2>1 DEF WrittenOK
  <2>3. CodelensTo(num_codelen_lens)'  BY <1>8, <2>1, <2>2 DEF CodelensTo
  <2>4. SymbolsTo(Len(encoded))'  BY <1>8, <2>1, <2>2 DEF SymbolsTo
  <2>5. written' = dyn_len'  BY <1>2, <1>8, <2>1, <2>2 DEF ThirdOK
  <2>6. QED  BY <1>2, <1>6, <2>1, <2>2, <2>3, <2>4, <2>5 DEF WrittenOK
<1>17. QED  BY <1>12, <1>13, <1>14, <1>15, <1>16

-----------------------------------------------------------------------------
(* The three numbers come back out of the word they were shifted into.     *)
LEMMA NumbersRead ==
  ASSUME JoinedOK, ThirdOK, stream.numbers = Numbers
  PROVE  /\ LowBits(Numbers, HLIT) + MIN_LITLEN_LENS = num_litlen_lens
         /\ LowBits(Numbers \div 2 ^ HLIT, HDIST) + MIN_DIST_LENS = num_dist_lens
         /\ Hclen = num_codelen_lens
<1>1. PICK p \in Nat \ {0} : p = 2 ^ HLIT  BY Powers
<1>2. PICK q \in Nat \ {0} : q = 2 ^ HDIST  BY Powers
<1>3. PICK r \in Nat \ {0} : r = 2 ^ HCLEN  BY Powers
<1>4. 2 ^ (HLIT + HDIST) = p * q  BY <1>1, <1>2, Powers
<1>5. PICK a \in 0 .. p - 1 : a = num_litlen_lens - MIN_LITLEN_LENS
  <2>1. /\ num_litlen_lens \in Nat /\ num_litlen_lens >= MIN_LITLEN_LENS
        /\ num_litlen_lens <= LITLEN_MAX + 1
    BY SumOfLens, Sizes DEF JoinedOK
  <2>2. /\ LITLEN_MAX + 1 <= MAX_LITLEN_LENS /\ MAX_LITLEN_LENS = MIN_LITLEN_LENS + p - 1
        /\ MIN_LITLEN_LENS \in Nat /\ LITLEN_MAX \in Nat
    BY <1>1, Sizes
  <2>3. QED  BY <2>1, <2>2
<1>6. PICK b \in 0 .. q - 1 : b = num_dist_lens - MIN_DIST_LENS
  <2>1. /\ num_dist_lens \in Nat /\ num_dist_lens >= 1 /\ num_dist_lens <= DISTSYM_MAX + 1
    BY SumOfLens, Sizes DEF JoinedOK
  <2>2. DISTSYM_MAX + 1 <= MAX_DIST_LENS /\ MAX_DIST_LENS = q /\ MIN_DIST_LENS = 1 /\ DISTSYM_MAX \in Nat
    BY <1>2, Sizes
  <2>3. QED  BY <2>1, <2>2
<1>7. PICK c \in 0 .. r - 1 : c = num_codelen_lens - MIN_CODELEN_LENS
  <2>1. num_codelen_lens \in MIN_CODELEN_LENS .. MAX_CODELEN_LENS  BY DEF ThirdOK
  <2>2. MAX_CODELEN_LENS = MIN_CODELEN_LENS + r - 1 /\ MIN_CODELEN_LENS = 4  BY <1>3, Sizes
  <2>3. QED  BY <2>1, <2>2
<1>8. Numbers = a + b * p + c * (p * q)  BY <1>1, <1>4, <1>5, <1>6, <1>7 DEF Numbers
<1>9. /\ Numbers % p = a /\ (Numbers \div p) % q = b /\ (Numbers \div (p * q)) % r = c
  BY <1>8, Digits
<1>10. /\ num_litlen_lens \in Nat /\ num_dist_lens \in Nat /\ num_codelen_lens \in Int
       /\ MIN_LITLEN_LENS \in Nat /\ MIN_DIST_LENS \in Nat /\ MIN_CODELEN_LENS \in Nat
  BY SumOfLens, Sizes DEF ThirdOK
<1>11. LowBits(Numbers, HLIT) = a /\ LowBits(Numbers \div 2 ^ HLIT, HDIST) = b
  BY <1>1, <1>2, <1>9 DEF LowBits
<1>12. LowBits(stream.numbers \div 2 ^ (HLIT + HDIST), HCLEN) = c
  BY <1>3, <1>4, <1>9 DEF LowBits
<1>13. Hclen = c + MIN_CODELEN_LENS  BY <1>12 DEF Hclen
<1>14. QED  BY <1>5, <1>6, <1>7, <1>10, <1>11, <1>13

(* The reader has the third code of the writer, whatever the order of its  *)
(* lengths and however many were dropped.                                  *)
LEMMA ReadThirdStep ==
  ASSUME RoundInv, ~any, ReadThirdCode
  PROVE  RoundInv'
<1>1. /\ pc = "read" /\ pc' = "read_lens" /\ k' = 0 /\ UNCHANGED writer
      /\ ReadNumbers(stream.numbers)
      /\ codelen_lengths' =
           [s \in CodelenSym |-> IF Place(s) <= Hclen THEN stream.codelens[Place(s)] ELSE 0]
  BY DEF ReadThirdCode
<1>2. /\ JoinedOK /\ EncodedOK /\ ThirdOK /\ stream \in Streams /\ stream.numbers = Numbers
      /\ CodelensTo(num_codelen_lens) /\ SymbolsTo(Len(encoded))
  BY <1>1 DEF RoundInv, WrittenOK
<1>3. /\ UNCHANGED <<codes, joined, i, encoded, third, any, stream>>
  BY <1>1 DEF writer, output
<1>4. JoinedOK' /\ EncodedOK' /\ ThirdOK'  BY <1>2, <1>3, SameJoined, SameEncoded, SameThird
<1>5. /\ r_litlen' = num_litlen_lens /\ r_dist' = num_dist_lens /\ Hclen = num_codelen_lens
  BY <1>1, <1>2, NumbersRead DEF ReadNumbers
<1>6. codelen_lengths' = codelen_lens
  <2>1. codelen_lens \in [CodelenSym -> Nat]  BY <1>2 DEF ThirdOK
  <2>2. ASSUME NEW s \in CodelenSym
        PROVE  (IF Place(s) <= Hclen THEN stream.codelens[Place(s)] ELSE 0) = codelen_lens[s]
    <3>1. \E x \in 1 .. MAX_CODELEN_LENS : codelen_lengths_order[x] = s
      <4>1. /\ codelen_lengths_order \in [1 .. MAX_CODELEN_LENS -> CodelenSym]
            /\ Range(codelen_lengths_order) = CodelenSym
        BY CodeLengthsAssumption
      <4>2. QED  BY <4>1 DEF Range
    <3>2. Place(s) \in 1 .. MAX_CODELEN_LENS /\ codelen_lengths_order[Place(s)] = s
      BY <3>1 DEF Place
    <3>3. PICK x \in 1 .. MAX_CODELEN_LENS : x = Place(s)  BY <3>2
    <3>4. num_codelen_lens \in Nat  BY <1>2, Sizes DEF ThirdOK
    <3>5. CASE x <= num_codelen_lens
      <4>1. x \in 1 .. num_codelen_lens  BY <3>4, <3>5
      <4>2. stream.codelens[x] = codelen_lens[s]  BY <1>2, <3>2, <3>3, <4>1 DEF CodelensTo
      <4>3. QED  BY <1>5, <3>3, <3>5, <4>2
    <3>6. CASE ~ (x <= num_codelen_lens)
      <4>1. x \in num_codelen_lens + 1 .. MAX_CODELEN_LENS  BY <3>4, <3>6, Sizes
      <4>2. codelen_lens[s] = 0  BY <1>2, <3>2, <3>3, <4>1 DEF ThirdOK
      <4>3. QED  BY <1>5, <3>3, <3>6, <4>2
    <3>7. QED  BY <3>5, <3>6
  <2>3. QED  BY <1>1, <2>1, <2>2
<1>7. codelen_lens' = codelen_lens /\ encoded' = encoded /\ stream' = stream
      /\ num_litlen_lens' = num_litlen_lens /\ num_dist_lens' = num_dist_lens
  BY <1>3 DEF third, joined
<1>8. LensTo(k)'  BY <1>1 DEF LensTo
<1>9. Len(encoded) \in Nat /\ encoded \in Seq(Encoded)  BY <1>2 DEF EncodedOK
<1>10. \E y \in 0 .. Len(encoded') : k' = Start(encoded', y) /\ Left(y)'
  <2>1. 0 \in 0 .. Len(encoded) /\ Start(encoded, 0) = 0
    <3>1. 0 \in 0 .. Len(encoded)  BY <1>9
    <3>2. QED  BY <1>9, <3>1, StartStep
  <2>2. Left(0)
    <3>1. /\ Len(stream.symbols) = Len(encoded)
          /\ \A x \in 1 .. Len(encoded) : stream.symbols[x] = SymbolOf(encoded[x])
      BY <1>2 DEF SymbolsTo
    <3>2. Len(encoded) - 0 = Len(encoded) /\ \A x \in 1 .. Len(encoded) : 0 + x = x  BY <1>9
    <3>3. QED  BY <3>1, <3>2 DEF Left
  <2>3. Left(0)'  BY <1>7, <2>2 DEF Left
  <2>4. QED  BY <1>1, <1>7, <2>1, <2>3
<1>11. ReadOK'  BY <1>1, <1>5, <1>6, <1>7, <1>8, <1>10 DEF ReadOK
<1>12. WrittenOK'  BY <1>1 DEF WrittenOK
<1>13. QED  BY <1>1, <1>2, <1>3, <1>4, <1>11, <1>12 DEF RoundInv, codes

(* Low bits hold an extra that fits.                                       *)
LEMMA LowBitsFit ==
  ASSUME NEW w \in Nat, NEW x \in 0 .. 2 ^ w - 1
  PROVE  LowBits(x, w) = x
<1>1. PICK p \in Nat \ {0} : p = 2 ^ w  BY PowerPositive
<1>2. x \in 0 .. p - 1  BY <1>1
<1>3. x % p = x  BY <1>2
<1>4. QED  BY <1>1, <1>3 DEF LowBits

(* The length of what is left: all symbols are taken when all lengths are. *)
LEMMA StartBelow ==
  ASSUME NEW enc \in Seq(Encoded), NEW y \in 0 .. Len(enc), y # Len(enc)
  PROVE  /\ y + 1 \in 1 .. Len(enc) /\ enc[y + 1] \in Encoded
         /\ Width(enc[y + 1]) \in Nat \ {0}
         /\ Start(enc, y) \in Nat /\ Start(enc, Len(enc)) \in Nat
         /\ Start(enc, y + 1) = Start(enc, y) + Width(enc[y + 1])
         /\ Start(enc, y) + Width(enc[y + 1]) <= Start(enc, Len(enc))
<1>1. y + 1 \in 1 .. Len(enc) /\ y + 1 \in 0 .. Len(enc) /\ y + 1 # 0 /\ (y + 1) - 1 = y
      /\ Len(enc) \in 0 .. Len(enc)
  OBVIOUS
<1>2. Start(enc, y) \in Nat /\ Start(enc, Len(enc)) \in Nat  BY <1>1, StartStep
<1>3. /\ Start(enc, y + 1) = Start(enc, (y + 1) - 1) + Width(enc[y + 1])
      /\ Width(enc[y + 1]) \in Nat \ {0}
  BY <1>1, StartStep
<1>4. Start(enc, y + 1) <= Start(enc, Len(enc))  BY <1>1, StartGrows
<1>5. enc[y + 1] \in Encoded  BY <1>1
<1>6. QED  BY <1>1, <1>2, <1>3, <1>4, <1>5

-----------------------------------------------------------------------------
LEMMA MaxTotalIs == MaxTotal \in Nat
<1>1. MAX_LITLEN_LENS \in Nat /\ MAX_DIST_LENS \in Nat  BY Sizes
<1>2. QED  BY <1>1 DEF MaxTotal

(* One symbol of the header is read: its lengths are the ones it was made  *)
(* of.                                                                     *)
LEMMA ReadSymbolStep ==
  ASSUME ReaderInv, RoundInv, ~any, ReadSymbol
  PROVE  RoundInv'
<1>1. /\ pc = "read_lens" /\ k < total /\ Consume
      /\ UNCHANGED <<codes, joined, i, encoded, third, any, r_litlen, r_dist, codelen_lengths>>
  BY DEF ReadSymbol
<1>2. /\ JoinedOK /\ EncodedOK /\ ThirdOK /\ stream \in Streams
      /\ r_litlen = num_litlen_lens /\ r_dist = num_dist_lens
      /\ codelen_lengths = codelen_lens /\ LensTo(k)
  BY <1>1 DEF RoundInv, ReadOK
<1>3. JoinedOK' /\ EncodedOK' /\ ThirdOK'  BY <1>1, <1>2, SameJoined, SameEncoded, SameThird
<1>4. PICK y \in 0 .. Len(encoded) : k = Start(encoded, y) /\ Left(y)
  BY <1>1 DEF RoundInv, ReadOK
<1>5. PICK N \in Nat : N = n  BY <1>2, SumOfLens
<1>6. /\ total = N /\ encoded \in Seq(Encoded) /\ Len(encoded) \in Nat
      /\ Start(encoded, Len(encoded)) = N
      /\ \A x \in 1 .. Len(encoded) : Means(lens, encoded[x], Start(encoded, x - 1))
  BY <1>2, <1>5 DEF total, n, EncodedOK, ThirdOK, Encodes
<1>7. y # Len(encoded)
  <2>1. Start(encoded, y) < N  BY <1>1, <1>4, <1>6
  <2>2. QED  BY <1>5, <1>6, <2>1
<1>8. PICK e \in Encoded : e = encoded[y + 1]  BY <1>6, <1>7, StartBelow
<1>9. PICK w \in Nat \ {0} : w = Width(e)  BY <1>6, <1>7, <1>8, StartBelow
<1>10. k \in Nat /\ k + w <= N /\ Start(encoded, y + 1) = k + w /\ y + 1 \in 0 .. Len(encoded)
  BY <1>4, <1>6, <1>7, <1>8, <1>9, StartBelow
<1>11. Means(lens, e, k)
  <2>1. y + 1 \in 1 .. Len(encoded) /\ (y + 1) - 1 = y  BY <1>6, <1>7
  <2>2. QED  BY <1>4, <1>6, <1>8, <2>1
<1>12. /\ stream.symbols \in Seq([sym : CodelenSym, extra : Int]) /\ stream.symbols # <<>>
       /\ Len(stream.symbols) = Len(encoded) - y
       /\ \A x \in 1 .. Len(stream.symbols) : stream.symbols[x] = SymbolOf(encoded[y + x])
  <2>1. stream.symbols \in Seq([sym : CodelenSym, extra : Int])  BY <1>2 DEF Streams
  <2>2. /\ Len(stream.symbols) = Len(encoded) - y
        /\ \A x \in 1 .. Len(stream.symbols) : stream.symbols[x] = SymbolOf(encoded[y + x])
    BY <1>4 DEF Left
  <2>3. Len(stream.symbols) # 0  BY <1>6, <1>7, <2>2
  <2>4. QED  BY <2>1, <2>2, <2>3
<1>13. Head(stream.symbols) = SymbolOf(e)
  <2>1. Len(stream.symbols) \in Nat /\ 1 \in 1 .. Len(stream.symbols)  BY <1>12
  <2>2. Head(stream.symbols) = stream.symbols[1]  BY <1>12
  <2>3. QED  BY <1>8, <1>12, <2>1, <2>2
<1>14. \E s \in CodelenSym : \E extra \in 0 .. 2 ^ ebits[s] - 1 :
         NextSymbol(s, extra) /\ (ReadLit(s) \/ ReadRun(s, extra))
  BY DEF ReadSymbol
<1>15. PICK s \in CodelenSym : \E extra \in 0 .. 2 ^ ebits[s] - 1 :
         NextSymbol(s, extra) /\ (ReadLit(s) \/ ReadRun(s, extra))
  BY <1>14
<1>16. PICK extra \in 0 .. 2 ^ ebits[s] - 1 :
         NextSymbol(s, extra) /\ (ReadLit(s) \/ ReadRun(s, extra))
  BY <1>15
<1>17. s = e.sym /\ extra = LowBits(e.count - Shortest(e.sym), ebits[s])
  BY <1>2, <1>12, <1>13, <1>16 DEF NextSymbol, SymbolOf
<1>18. /\ DOMAIN code_lengths = 0 .. MaxTotal - 1 /\ N <= MaxTotal /\ MaxTotal \in Nat
  BY <1>1, <1>6, MaxTotalIs DEF ReaderInv
<1>19. (\A x \in 0 .. k + w - 1 : code_lengths'[x] = lens'[x]) /\ k' = k + w /\ pc' = pc
  <2>0. \A x \in 0 .. k - 1 : code_lengths[x] = lens[x]  BY <1>2 DEF LensTo
  <2>1. CASE e.sym <= CODELEN_MAX_LIT /\ e.count = 0 /\ lens[k] = e.sym
    <3>1. w = 1  BY <1>9, <2>1 DEF Width
    <3>2. ReadLit(s)
      <4>1. s \in Int /\ CODELEN_MAX_LIT \in Int  BY Sizes
      <4>2. ~ (s > CODELEN_MAX_LIT)  BY <1>17, <2>1, <4>1
      <4>3. QED  BY <1>16, <4>2 DEF ReadRun
    <3>3. code_lengths' = [code_lengths EXCEPT ![k] = s] /\ k' = k + 1 /\ pc' = pc
      BY <3>2 DEF ReadLit
    <3>4. \A x \in 0 .. k + 1 - 1 : code_lengths'[x] = lens[x]
      BY <1>10, <1>17, <1>18, <2>0, <2>1, <3>1, <3>3
    <3>5. lens' = lens  BY <1>1 DEF joined
    <3>6. QED  BY <3>1, <3>3, <3>4, <3>5
  <2>2. CASE /\ e.sym > CODELEN_MAX_LIT /\ e.count # 0
             /\ e.count - Shortest(e.sym) \in 0 .. 2 ^ ebits[e.sym] - 1
             /\ e.sym = CODELEN_COPY => k >= 1
             /\ \A x \in k .. k + e.count - 1 : lens[x] = IF e.sym = CODELEN_COPY THEN lens[k - 1] ELSE 0
    <3>1. w = e.count  BY <1>9, <2>2 DEF Width
    <3>2. ReadRun(s, extra)  BY <1>16, <1>17, <2>2, Sizes DEF ReadLit
    <3>3. extra = e.count - Shortest(s)
      <4>1. ebits[s] \in Nat  BY Runs
      <4>2. LowBits(e.count - Shortest(s), ebits[s]) = e.count - Shortest(s)
        BY <1>17, <2>2, <4>1, LowBitsFit
      <4>3. QED  BY <1>17, <4>2
    <3>4. extra + Shortest(s) = w
      <4>1. Shortest(s) \in Nat  BY Runs
      <4>2. QED  BY <3>1, <3>3, <4>1
    <3>5. RunFits(w)  BY <1>6, <1>10 DEF RunFits
    <3>6. /\ code_lengths' = [x \in DOMAIN code_lengths |->
                IF x \in k .. k + w - 1
                THEN (IF s = CODELEN_COPY THEN code_lengths[k - 1] ELSE 0)
                ELSE code_lengths[x]]
          /\ k' = k + w /\ pc' = pc
      BY <1>17, <2>2, <3>2, <3>4, <3>5 DEF ReadRun
    <3>7. s = CODELEN_COPY => code_lengths[k - 1] = lens[k - 1]
      <4>1. s = CODELEN_COPY => k - 1 \in 0 .. k - 1  BY <1>10, <1>17, <2>2
      <4>2. QED  BY <2>0, <4>1
    <3>8. \A x \in 0 .. k + w - 1 : code_lengths'[x] = lens[x]
      <4>1. ASSUME NEW x \in 0 .. k + w - 1  PROVE code_lengths'[x] = lens[x]
        <5>1. x \in DOMAIN code_lengths  BY <1>10, <1>18
        <5>2. CASE x \in k .. k + w - 1
          <6>1. lens[x] = IF s = CODELEN_COPY THEN lens[k - 1] ELSE 0
            BY <1>17, <2>2, <3>1, <5>2
          <6>2. QED  BY <3>6, <3>7, <5>1, <5>2, <6>1
        <5>3. CASE x \notin k .. k + w - 1
          <6>1. x \in 0 .. k - 1  BY <1>10, <5>3
          <6>2. QED  BY <2>0, <3>6, <5>1, <5>3, <6>1
        <5>4. QED  BY <5>2, <5>3
      <4>2. QED  BY <4>1
    <3>9. lens' = lens  BY <1>1 DEF joined
    <3>10. QED  BY <3>6, <3>8, <3>9
  <2>3. QED  BY <1>11, <2>1, <2>2 DEF Means
<1>20. stream' = [stream EXCEPT !.symbols = Tail(stream.symbols)]
  BY <1>1, <1>12 DEF Consume
<1>21. /\ stream'.symbols = Tail(stream.symbols) /\ stream' \in Streams
  <2>1. Tail(stream.symbols) \in Seq([sym : CodelenSym, extra : Int])  BY <1>12
  <2>2. stream'.symbols = Tail(stream.symbols)
        /\ stream' = [numbers |-> stream.numbers, codelens |-> stream.codelens,
                      symbols |-> Tail(stream.symbols)]
        /\ stream.numbers \in Int /\ stream.codelens \in Seq(Nat)
    BY <1>2, <1>20 DEF Streams
  <2>3. QED  BY <2>1, <2>2 DEF Streams
<1>22. Left(y + 1)'
  <2>1. /\ Len(Tail(stream.symbols)) = Len(stream.symbols) - 1
        /\ \A x \in 1 .. Len(stream.symbols) - 1 : Tail(stream.symbols)[x] = stream.symbols[x + 1]
    BY <1>12
  <2>2. Len(Tail(stream.symbols)) = Len(encoded) - (y + 1)  BY <1>6, <1>12, <2>1
  <2>3. ASSUME NEW x \in 1 .. Len(stream.symbols) - 1
        PROVE  Tail(stream.symbols)[x] = SymbolOf(encoded[y + 1 + x])
    <3>1. x + 1 \in 1 .. Len(stream.symbols) /\ y + (x + 1) = y + 1 + x
      BY <1>6, <1>12
    <3>2. QED  BY <1>12, <2>1, <3>1
  <2>4. encoded' = encoded  BY <1>1
  <2>5. QED  BY <1>21, <2>1, <2>2, <2>3, <2>4 DEF Left
<1>23. ReadOK'
  <2>1. /\ r_litlen' = num_litlen_lens' /\ r_dist' = num_dist_lens'
        /\ codelen_lengths' = codelen_lens' /\ encoded' = encoded
    BY <1>1, <1>2 DEF joined, third
  <2>2. LensTo(k)'
    <3>1. k' - 1 = k + w - 1  BY <1>9, <1>10, <1>19
    <3>2. QED  BY <1>19, <3>1 DEF LensTo
  <2>3. y + 1 \in 0 .. Len(encoded') /\ k' = Start(encoded', y + 1)  BY <1>10, <1>19, <2>1
  <2>4. QED  BY <1>1, <1>19, <1>22, <2>1, <2>2, <2>3 DEF ReadOK
<1>24. WrittenOK'  BY <1>1, <1>19 DEF WrittenOK
<1>25. litlen_lens' \in LitlenLens /\ dist_lens' \in DistLens  BY <1>1 DEF RoundInv, codes
<1>26. QED  BY <1>1, <1>3, <1>19, <1>21, <1>23, <1>24, <1>25 DEF RoundInv

(* All lengths are read: so are all symbols.                               *)
LEMMA LensReadStep ==
  ASSUME ReaderInv, RoundInv, ~any, LensRead
  PROVE  RoundInv'
<1>1. /\ pc = "read_lens" /\ k >= total /\ status' = "OK" /\ pc' = "done"
      /\ UNCHANGED <<codes, joined, i, encoded, third, stream, any, r_litlen, r_dist, code_lengths>>
  BY DEF LensRead, writer, reader, output
<1>2. /\ JoinedOK /\ EncodedOK /\ ThirdOK /\ stream \in Streams
      /\ r_litlen = num_litlen_lens /\ r_dist = num_dist_lens /\ LensTo(k)
  BY <1>1 DEF RoundInv, ReadOK
<1>3. JoinedOK' /\ EncodedOK' /\ ThirdOK'  BY <1>1, <1>2, SameJoined, SameEncoded, SameThird
<1>4. PICK y \in 0 .. Len(encoded) : k = Start(encoded, y) /\ Left(y)
  BY <1>1 DEF RoundInv, ReadOK
<1>5. PICK N \in Nat : N = n  BY <1>2, SumOfLens
<1>6. /\ total = N /\ encoded \in Seq(Encoded) /\ Len(encoded) \in Nat
      /\ Start(encoded, Len(encoded)) = N
  BY <1>2, <1>5 DEF total, n, EncodedOK, ThirdOK, Encodes
<1>7. k = N
  <2>1. k \in 0 .. total  BY <1>1 DEF ReaderInv
  <2>2. QED  BY <1>1, <1>5, <1>6, <2>1
<1>8. y = Len(encoded)
  <2>1. ASSUME y # Len(encoded)  PROVE FALSE
    <3>1. /\ Width(encoded[y + 1]) \in Nat \ {0}
          /\ Start(encoded, y) + Width(encoded[y + 1]) <= N
      BY <1>6, <2>1, StartBelow
    <3>2. PICK w \in Nat \ {0} : w = Width(encoded[y + 1])  BY <3>1
    <3>3. N + w <= N  BY <1>4, <1>7, <3>1, <3>2
    <3>4. QED  BY <1>5, <3>2, <3>3
  <2>2. QED  BY <2>1
<1>9. stream.symbols = <<>>
  <2>1. stream.symbols \in Seq([sym : CodelenSym, extra : Int])  BY <1>2 DEF Streams
  <2>2. Len(stream.symbols) = 0  BY <1>4, <1>6, <1>8 DEF Left
  <2>3. QED  BY <2>1, <2>2, EmptySeq
<1>10. LensTo(n)  BY <1>2, <1>5, <1>7
<1>11. LensTo(n)'  BY <1>1, <1>10 DEF LensTo, n, joined
<1>12. ReadOK'  BY <1>1, <1>2, <1>9, <1>11 DEF ReadOK, joined
<1>13. WrittenOK'  BY <1>1 DEF WrittenOK
<1>14. QED  BY <1>1, <1>2, <1>3, <1>12, <1>13 DEF RoundInv, codes

LEMMA InitRoundInv == HeaderInit => RoundInv
<1> SUFFICES ASSUME HeaderInit, ~any  PROVE RoundInv
  BY DEF RoundInv
<1>1. /\ litlen_lens \in LitlenLens /\ dist_lens \in DistLens /\ i = 0 /\ encoded = <<>>
      /\ stream = [numbers |-> 0, codelens |-> <<>>, symbols |-> <<>>] /\ pc = "join"
  BY DEF HeaderInit
<1>2. stream \in Streams  BY <1>1 DEF Streams
<1>3. WrittenOK /\ ReadOK  BY <1>1 DEF WrittenOK, ReadOK
<1>4. QED  BY <1>1, <1>2, <1>3, ~any DEF RoundInv

LEMMA NextRoundInv ==
  ASSUME ReaderInv, RoundInv, [HeaderNext]_headerVars
  PROVE  RoundInv'
<1>1. any' = any
  BY DEF HeaderNext, headerVars, Join, EncodeZeros, EncodeLen, ThirdCode, WriteNumbers, WriteCodelen,
         CodelensEnd, WriteLen, HeaderWritten, Fail, ReadThirdCode, ReadSymbol, LensRead, writer
<1>2. CASE any
  BY <1>1, <1>2 DEF RoundInv
<1>3. CASE ~any
  <2>1. CASE Join \/ EncodeZeros \/ EncodeLen \/ ThirdCode  BY <1>3, <2>1, EncodingStep
  <2>2. CASE WriteNumbers \/ WriteCodelen \/ CodelensEnd \/ WriteLen \/ HeaderWritten
    BY <1>3, <2>2, WritingStep
  <2>3. CASE ReadThirdCode  BY <1>3, <2>3, ReadThirdStep
  <2>4. CASE ReadSymbol  BY <1>3, <2>4, ReadSymbolStep
  <2>5. CASE LensRead  BY <1>3, <2>5, LensReadStep
  <2>6. CASE Fail  BY <1>3, <2>6 DEF Fail
  <2>7. CASE UNCHANGED headerVars
    <3>1. /\ UNCHANGED <<codes, joined, i, encoded, third, output, any, reader, pc, k, status>>
      BY <2>7 DEF headerVars
    <3>2. JoinedOK => JoinedOK'  BY <3>1, SameJoined
    <3>3. EncodedOK => EncodedOK'  BY <3>1, SameEncoded
    <3>4. ThirdOK => ThirdOK'  BY <3>1, SameThird
    <3>5. WrittenOK => WrittenOK'
      BY <3>1 DEF WrittenOK, output, joined, third, Numbers, CodelensTo, SymbolsTo
    <3>6. ReadOK => ReadOK'
      BY <3>1 DEF ReadOK, output, joined, third, reader, n, LensTo, Left
    <3>7. QED  BY <1>3, <3>1, <3>2, <3>3, <3>4, <3>5, <3>6 DEF RoundInv, codes, output
  <2>8. QED  BY <2>1, <2>2, <2>3, <2>4, <2>5, <2>6, <2>7 DEF HeaderNext
<1>4. QED  BY <1>2, <1>3

LEMMA HeaderInvariant == HeaderSpec => []HeaderInv
<1>1. HeaderInit => HeaderInv  BY InitReaderInv, InitRoundInv DEF HeaderInv
<1>2. HeaderInv /\ [HeaderNext]_headerVars => HeaderInv'
  BY NextReaderInv, NextRoundInv DEF HeaderInv
<1>3. QED  BY <1>1, <1>2, PTL DEF HeaderSpec

(* From any stream: the reader writes no length past those announced, and  *)
(* returns OK only when it has written every one of them.                  *)
THEOREM LengthsAreAnnounced == HeaderSpec => []LengthsAnnounced
<1>1. ASSUME HeaderInv  PROVE LengthsAnnounced
  <2>1. ReaderInv  BY <1>1 DEF HeaderInv
  <2>2. CASE pc \in {"read_lens", "done"}
    <3>1. /\ total \in Nat /\ k \in 0 .. total /\ total <= MaxTotal /\ MaxTotal \in Nat
          /\ DOMAIN code_lengths = 0 .. MaxTotal - 1
          /\ \A x \in DOMAIN code_lengths :
               IF x < k THEN code_lengths[x] \in 0 .. CODELEN_MAX_LIT ELSE code_lengths[x] = UNINIT
          /\ status = "OK" => k = total
      <4>1. r_litlen \in Nat /\ r_dist \in Nat  BY <2>1, <2>2 DEF ReaderInv
      <4>2. total \in Nat  BY <4>1 DEF total
      <4>3. QED  BY <2>1, <2>2, <4>2, MaxTotalIs DEF ReaderInv
    <3>2. QED  BY <3>1 DEF LengthsAnnounced
  <2>3. CASE pc \notin {"read_lens", "done"}
    BY <2>1, <2>3 DEF ReaderInv, LengthsAnnounced
  <2>4. QED  BY <2>2, <2>3
<1>2. QED  BY <1>1, HeaderInvariant, PTL

(* The lengths the decompressor uses are the ones the compressor chose.    *)
THEOREM HeaderRoundTrips == HeaderSpec => []HeaderRoundTrip
<1>1. ASSUME HeaderInv, pc = "done", ~any
      PROVE  /\ status = "OK" /\ stream.symbols = <<>>
             /\ r_litlen = num_litlen_lens /\ r_dist = num_dist_lens
             /\ \A x \in 0 .. LITLEN_MAX :
                  litlen_lens[x] = IF x < r_litlen THEN code_lengths[x] ELSE 0
             /\ \A x \in 0 .. DISTSYM_MAX :
                  dist_lens[x] = IF x < r_dist THEN code_lengths[r_litlen + x] ELSE 0
  <2>1. /\ JoinedOK /\ status = "OK" /\ stream.symbols = <<>> /\ LensTo(n)
        /\ r_litlen = num_litlen_lens /\ r_dist = num_dist_lens
    BY <1>1 DEF HeaderInv, RoundInv, ReadOK
  <2>2. PICK a \in Nat, b \in Nat : a = num_litlen_lens /\ b = num_dist_lens /\ n = a + b
    BY <2>1, SumOfLens
  <2>3. \A x \in 0 .. a + b - 1 : code_lengths[x] = lens[x]  BY <2>1, <2>2 DEF LensTo
  <2>4. /\ \A x \in 0 .. LITLEN_MAX : litlen_lens[x] = IF x < a THEN lens[x] ELSE 0
        /\ \A x \in 0 .. DISTSYM_MAX : dist_lens[x] = IF x < b THEN lens[a + x] ELSE 0
    BY <2>1, <2>2 DEF JoinedOK
  <2>5. \A x \in 0 .. LITLEN_MAX : x < a => x \in 0 .. a + b - 1
    <3>1. b \in Nat \ {0}  BY <2>1, <2>2, Sizes DEF JoinedOK
    <3>2. QED  BY <3>1
  <2>6. \A x \in 0 .. DISTSYM_MAX : x < b => a + x \in 0 .. a + b - 1  OBVIOUS
  <2>7. QED  BY <2>1, <2>2, <2>3, <2>4, <2>5, <2>6
<1>2. HeaderInv => HeaderRoundTrip  BY <1>1 DEF HeaderRoundTrip
<1>3. QED  BY <1>2, HeaderInvariant, PTL

(* What dyn_block_len says of a header is what write_dynamic_block writes. *)
THEOREM HeaderIsMeasured == HeaderSpec => []HeaderMeasured
<1>1. HeaderInv => HeaderMeasured
  BY DEF HeaderInv, RoundInv, WrittenOK, HeaderMeasured
<1>2. QED  BY <1>1, HeaderInvariant, PTL

-----------------------------------------------------------------------------
(***************************************************************************)
(* The bit streams.  The invariant also follows the unused bits of the     *)
(* last byte, which are zero, as a reader and an alignment rely on.        *)
(***************************************************************************)
Past == CHAR_BIT * end          \* the first bit behind the buffer
PastRead == CHAR_BIT * length   \* the first bit behind the input stream

TypeInv ==
  /\ end \in Nat /\ dst \in [0 .. Past - 1 -> Bit]
  /\ bitpos \in Nat /\ length \in Nat \cup {NotYet} /\ given \in Seq(Bit)
WriteInv == Writing =>
  /\ Len(given) = bitpos /\ bitpos <= Past
  /\ \A b \in 0 .. bitpos - 1 : dst[b] = given[b + 1]
  /\ \A b \in bitpos .. round_up(bitpos, CHAR_BIT) - 1 : dst[b] = 0
ReadInv == ~Writing =>
  /\ PastRead \in Nat /\ PastRead <= Past /\ Len(given) <= PastRead /\ bitpos <= PastRead
  /\ \A b \in 0 .. PastRead - 1 : dst[b] = Stream(b)

IInv == TypeInv /\ WriteInv /\ ReadInv

-----------------------------------------------------------------------------
USE BitstreamAssumption

(* A position is a byte and a bit in it.                                   *)
LEMMA Split ==
  ASSUME NEW x \in Nat
  PROVE  /\ x \div CHAR_BIT \in Nat /\ x % CHAR_BIT \in 0 .. CHAR_BIT - 1
         /\ CHAR_BIT * (x \div CHAR_BIT) \in Nat
         /\ x = CHAR_BIT * (x \div CHAR_BIT) + (x % CHAR_BIT)
OBVIOUS

LEMMA Monotone ==
  ASSUME NEW m \in Nat, NEW q \in Nat, CHAR_BIT * q > CHAR_BIT * m
  PROVE  q >= m + 1 /\ CHAR_BIT * q >= CHAR_BIT * m + CHAR_BIT
<1>1. q > m
  <2>1. SUFFICES ASSUME q <= m PROVE CHAR_BIT * m >= CHAR_BIT * q
    <3>1. CHAR_BIT * m \in Nat /\ CHAR_BIT * q \in Nat
      OBVIOUS
    <3>2. QED
      BY <3>1
  <2>2. m = q + (m - q) /\ m - q \in Nat
    BY <2>1
  <2>3. CHAR_BIT * m = CHAR_BIT * q + CHAR_BIT * (m - q) /\ CHAR_BIT * (m - q) \in Nat
    BY <2>2
  <2>4. CHAR_BIT * q \in Nat
    OBVIOUS
  <2>5. QED
    BY <2>3, <2>4
<1>2. q = m + 1 + (q - m - 1) /\ q - m - 1 \in Nat
  BY <1>1
<1>3. CHAR_BIT * q = CHAR_BIT * m + CHAR_BIT + CHAR_BIT * (q - m - 1) /\ CHAR_BIT * (q - m - 1) \in Nat
  BY <1>2
<1>4. CHAR_BIT * m \in Nat
  OBVIOUS
<1>5. QED
  BY <1>1, <1>3, <1>4

(* round_up gives the next multiple: none lies between.                    *)
LEMMA RoundUp ==
  ASSUME NEW x \in Nat
  PROVE  /\ round_up(x, CHAR_BIT) \in Nat /\ x <= round_up(x, CHAR_BIT)
         /\ round_up(x, CHAR_BIT) \div CHAR_BIT \in Nat
         /\ CHAR_BIT * (round_up(x, CHAR_BIT) \div CHAR_BIT) = round_up(x, CHAR_BIT)
         /\ round_up(round_up(x, CHAR_BIT), CHAR_BIT) = round_up(x, CHAR_BIT)
         /\ \A m \in Nat : x <= CHAR_BIT * m => round_up(x, CHAR_BIT) <= CHAR_BIT * m
<1> DEFINE y == x + CHAR_BIT - 1
           q == y \div CHAR_BIT
<1>1. y \in Nat /\ q \in Nat /\ y = CHAR_BIT * q + (y % CHAR_BIT) /\ y % CHAR_BIT \in 0 .. CHAR_BIT - 1
  OBVIOUS
<1>2. round_up(x, CHAR_BIT) = CHAR_BIT * q
  BY <1>1 DEF round_up
<1>3. CHAR_BIT * q \in Nat /\ CHAR_BIT * q >= x /\ CHAR_BIT * q <= y
  BY <1>1
<1>4. (CHAR_BIT * q) \div CHAR_BIT = q
  BY <1>1
<1>5. (CHAR_BIT * q + CHAR_BIT - 1) \div CHAR_BIT = q
  BY <1>1
<1>6. round_up(CHAR_BIT * q, CHAR_BIT) = CHAR_BIT * q
  <2>1. round_up(CHAR_BIT * q, CHAR_BIT) = q * CHAR_BIT
    BY <1>5 DEF round_up
  <2>2. QED
    BY <2>1, <1>1
<1>7. ASSUME NEW m \in Nat, x <= CHAR_BIT * m PROVE CHAR_BIT * q <= CHAR_BIT * m
  <2>1. SUFFICES ASSUME CHAR_BIT * q > CHAR_BIT * m PROVE FALSE
    <3>1. CHAR_BIT * m \in Nat
      OBVIOUS
    <3>2. QED
      BY <3>1, <1>3
  <2>2. CHAR_BIT * q >= CHAR_BIT * m + CHAR_BIT
    BY <2>1, <1>1, Monotone
  <2>3. CHAR_BIT * m \in Nat
    OBVIOUS
  <2>4. QED
    BY <2>2, <2>3, <1>3, <1>7
<1>8. QED
  BY <1>2, <1>3, <1>4, <1>6, <1>7, <1>1

(* Sequences of bits.                                                      *)
LEMMA BitsAreSeq ==
  ASSUME NEW c \in Nat, NEW bits \in Bits(c)
  PROVE  bits \in Seq(Bit) /\ Len(bits) = c /\ DOMAIN bits = 1 .. c
BY DEF Bits

LEMMA ConcatBits ==
  ASSUME NEW s \in Seq(Bit), NEW t \in Seq(Bit)
  PROVE  /\ s \o t \in Seq(Bit) /\ Len(s \o t) = Len(s) + Len(t)
         /\ \A b \in 0 .. Len(s) - 1 : (s \o t)[b + 1] = s[b + 1]
         /\ \A b \in Len(s) .. Len(s) + Len(t) - 1 : (s \o t)[b + 1] = t[b - Len(s) + 1]
OBVIOUS

-----------------------------------------------------------------------------
LEMMA InitIInv == Init => IInv
<1> SUFFICES ASSUME Init PROVE IInv
  OBVIOUS
<1>1. Past \in Nat /\ end \in Nat
  BY DEF Init, Past
<1>2. round_up(0, CHAR_BIT) = 0
  <2>1. (0 + CHAR_BIT - 1) \div CHAR_BIT = 0
    OBVIOUS
  <2>2. QED
    BY <2>1 DEF round_up
<1>3. QED
  BY <1>1, <1>2 DEF Init, IInv, TypeInv, WriteInv, ReadInv, Writing, NotYet, Past

(* The buffer after a write, whichever path it took: what was there below  *)
(* the position, the bits, then zeros up to the end of the word.           *)
LEMMA WrittenBits ==
  ASSUME IInv, NEW c \in 0 .. ISTREAM_MIN_BITS, NEW bits \in Bits(c), ostream_write(bits)
  PROVE  /\ dst' \in [0 .. Past - 1 -> Bit]
         /\ \A b \in 0 .. bitpos - 1 : dst'[b] = dst[b]
         /\ \A b \in bitpos .. bitpos + c - 1 : dst'[b] = bits[b - bitpos + 1]
         /\ \A b \in bitpos + c .. round_up(bitpos + c, CHAR_BIT) - 1 : dst'[b] = 0
         /\ bitpos + c <= Past /\ Past \in Nat
<1> DEFINE p == bitpos \div CHAR_BIT
           shift == bitpos % CHAR_BIT
           P == CHAR_BIT * p
           W == CHAR_BIT * WORD
           x == IF end - p >= WORD THEN read64le(dst, p) ELSE BytesLe(dst, p, end)
           v == Or(lsb(x, shift), ShiftLeft(bits, shift))
<1>1. /\ bitpos \in Nat /\ end \in Nat /\ Past \in Nat /\ dst \in [0 .. Past - 1 -> Bit]
      /\ Past = CHAR_BIT * end
  BY DEF IInv, TypeInv, Past
<1>2. /\ p \in Nat /\ shift \in 0 .. CHAR_BIT - 1 /\ P \in Nat /\ bitpos = P + shift
  BY <1>1, Split
<1>3. W \in Nat /\ WordBits = 0 .. W - 1 /\ ISTREAM_MIN_BITS = W - (CHAR_BIT - 1)
  BY DEF WordBits, ISTREAM_MIN_BITS
<1>. HIDE DEF p, shift, P, W, x, v
<1>4. c \in Nat /\ shift + c <= W /\ Len(bits) = c /\ DOMAIN bits = 1 .. c /\ bits \in [1 .. c -> Bit]
  <2>1. c \in Nat /\ shift + c <= W
    BY <1>2, <1>3
  <2>2. QED
    BY <2>1, BitsAreSeq DEF Bits
<1>5. /\ Past - bitpos >= c
      /\ dst' = write64le(p, v)
  BY <1>4, <1>1 DEF ostream_write, Past, v, x, shift, p
<1>6. bitpos + c <= Past
  BY <1>1, <1>4, <1>5
<1>7. \A b \in 0 .. shift - 1 : b \in WordBits /\ v[b] = dst[P + b]
  <2> TAKE b \in 0 .. shift - 1
  <2>1. b \in WordBits /\ b < shift /\ b \in Nat
    BY <1>2, <1>3, <1>4
  <2>2. P + b \in 0 .. Past - 1 /\ P + b < Past
    BY <1>1, <1>2, <1>4, <1>6, <2>1
  <2>3. x[b] = dst[P + b]
    BY <2>1, <2>2, <1>1 DEF read64le, BytesLe, x, P, Past
  <2>4. lsb(x, shift)[b] = dst[P + b]
    BY <2>1, <2>3 DEF lsb
  <2>5. ShiftLeft(bits, shift)[b] = 0
    <3>1. b - shift + 1 \notin 1 .. c
      BY <2>1, <1>2, <1>4
    <3>2. QED
      BY <3>1, <2>1, <1>4 DEF ShiftLeft
  <2>6. dst[P + b] \in Bit
    BY <2>2, <1>1
  <2>7. QED
    BY <2>1, <2>4, <2>5, <2>6 DEF Or, Bit, v
<1>8. \A b \in shift .. shift + c - 1 : b \in WordBits /\ v[b] = bits[b - shift + 1]
  <2> TAKE b \in shift .. shift + c - 1
  <2>1. b \in WordBits /\ ~(b < shift) /\ b \in Nat
    BY <1>2, <1>3, <1>4
  <2>2. lsb(x, shift)[b] = 0
    BY <2>1 DEF lsb
  <2>3. b - shift + 1 \in 1 .. c
    BY <1>2, <1>4
  <2>4. ShiftLeft(bits, shift)[b] = bits[b - shift + 1] /\ bits[b - shift + 1] \in Bit
    BY <2>1, <2>3, <1>4 DEF ShiftLeft
  <2>5. QED
    BY <2>1, <2>2, <2>4 DEF Or, Bit, v
<1>9. \A b \in shift + c .. W - 1 : b \in WordBits /\ v[b] = 0
  <2> TAKE b \in shift + c .. W - 1
  <2>1. b \in WordBits /\ ~(b < shift) /\ b \in Nat
    BY <1>2, <1>3, <1>4
  <2>2. lsb(x, shift)[b] = 0
    BY <2>1 DEF lsb
  <2>3. b - shift + 1 \notin 1 .. c
    BY <1>2, <1>4
  <2>4. ShiftLeft(bits, shift)[b] = 0
    BY <2>1, <2>3, <1>4 DEF ShiftLeft
  <2>5. QED
    BY <2>1, <2>2, <2>4 DEF Or, v
<1>10. DOMAIN dst = 0 .. Past - 1
  BY <1>1
<1>11. dst' = [b \in 0 .. Past - 1 |-> IF b - P \in 0 .. W - 1 THEN v[b - P] ELSE dst[b]]
  BY <1>5, <1>10, <1>3 DEF write64le, P
<1>12. \A b \in 0 .. W - 1 : v[b] \in Bit
  BY <1>3 DEF Or, Bit, v
<1>13. dst' \in [0 .. Past - 1 -> Bit]
  BY <1>11, <1>12, <1>1, <1>2
<1>14. \A b \in 0 .. bitpos - 1 : dst'[b] = dst[b]
  <2> TAKE b \in 0 .. bitpos - 1
  <2>1. b \in 0 .. Past - 1
    BY <1>1, <1>4, <1>6
  <2>2. CASE b < P
    BY <2>1, <2>2, <1>11, <1>2, <1>3
  <2>3. CASE b >= P
    <3>1. b - P \in 0 .. shift - 1 /\ P + (b - P) = b
      BY <2>3, <1>2, <2>1
    <3>2. v[b - P] = dst[b] /\ b - P \in 0 .. W - 1
      BY <3>1, <1>7, <1>3
    <3>3. QED
      BY <3>2, <2>1, <1>11
  <2>4. QED
    BY <2>1, <2>2, <2>3, <1>2
<1>15. \A b \in bitpos .. bitpos + c - 1 : dst'[b] = bits[b - bitpos + 1]
  <2> TAKE b \in bitpos .. bitpos + c - 1
  <2>1. b \in 0 .. Past - 1 /\ b - P \in shift .. shift + c - 1 /\ b - P - shift + 1 = b - bitpos + 1
    BY <1>1, <1>2, <1>4, <1>6
  <2>2. v[b - P] = bits[b - bitpos + 1] /\ b - P \in 0 .. W - 1
    BY <2>1, <1>8, <1>3
  <2>3. QED
    BY <2>1, <2>2, <1>11
<1>16. round_up(bitpos + c, CHAR_BIT) <= P + W /\ round_up(bitpos + c, CHAR_BIT) <= Past
       /\ round_up(bitpos + c, CHAR_BIT) \in Nat
  <2>1. p + WORD \in Nat /\ CHAR_BIT * (p + WORD) = P + W
    BY <1>2 DEF P, W
  <2>2. bitpos + c \in Nat /\ bitpos + c <= CHAR_BIT * (p + WORD) /\ bitpos + c <= CHAR_BIT * end
    BY <1>1, <1>2, <1>3, <1>4, <1>6, <2>1
  <2>3. QED
    BY <2>1, <2>2, <1>1, RoundUp
<1>17. \A b \in bitpos + c .. round_up(bitpos + c, CHAR_BIT) - 1 : dst'[b] = 0
  <2> TAKE b \in bitpos + c .. round_up(bitpos + c, CHAR_BIT) - 1
  <2>1. b \in 0 .. Past - 1 /\ b - P \in shift + c .. W - 1
    BY <1>1, <1>2, <1>3, <1>4, <1>16
  <2>2. v[b - P] = 0 /\ b - P \in 0 .. W - 1
    BY <2>1, <1>9, <1>2, <1>3, <1>4
  <2>3. QED
    BY <2>1, <2>2, <1>11
<1>18. QED
  BY <1>1, <1>6, <1>13, <1>14, <1>15, <1>17

LEMMA WriteStep ==
  ASSUME IInv, NEW c \in 0 .. ISTREAM_MIN_BITS, NEW bits \in Bits(c), ostream_write(bits)
  PROVE  IInv'
<1>1. c \in Nat /\ bits \in Seq(Bit) /\ Len(bits) = c
  <2>1. c \in Nat
    BY DEF ISTREAM_MIN_BITS
  <2>2. QED
    BY <2>1, BitsAreSeq
<1>2. Writing /\ bitpos' = bitpos + c /\ given' = given \o bits /\ UNCHANGED <<end, length>>
  BY <1>1 DEF ostream_write
<1>3. /\ bitpos \in Nat /\ end \in Nat /\ given \in Seq(Bit) /\ Len(given) = bitpos
      /\ length = NotYet
      /\ \A b \in 0 .. bitpos - 1 : dst[b] = given[b + 1]
  BY <1>2 DEF IInv, TypeInv, WriteInv, Writing
<1>4. /\ given' \in Seq(Bit) /\ Len(given') = bitpos + c
      /\ \A b \in 0 .. bitpos - 1 : given'[b + 1] = given[b + 1]
      /\ \A b \in bitpos .. bitpos + c - 1 : given'[b + 1] = bits[b - bitpos + 1]
  BY <1>1, <1>2, <1>3, ConcatBits
<1>5. \A b \in 0 .. bitpos + c - 1 : dst'[b] = given'[b + 1]
  <2> TAKE b \in 0 .. bitpos + c - 1
  <2>1. CASE b \in 0 .. bitpos - 1
    BY <2>1, <1>3, <1>4, WrittenBits
  <2>2. CASE b \in bitpos .. bitpos + c - 1
    BY <2>2, <1>4, WrittenBits
  <2>3. QED
    BY <2>1, <2>2, <1>1, <1>3
<1>6. Past' = Past /\ Writing'
  BY <1>2 DEF Past, Writing
<1>7. TypeInv'
  BY <1>1, <1>2, <1>3, <1>4, <1>6, WrittenBits DEF TypeInv, NotYet
<1>8. WriteInv'
  <2>1. Len(given') = bitpos' /\ bitpos' <= Past'
    BY <1>2, <1>4, <1>6, WrittenBits
  <2>2. \A b \in 0 .. bitpos' - 1 : dst'[b] = given'[b + 1]
    <3>1. bitpos' = bitpos + c
      BY <1>2
    <3>2. ASSUME NEW b \in 0 .. bitpos' - 1 PROVE dst'[b] = given'[b + 1]
      <4>1. b \in 0 .. bitpos + c - 1
        BY <3>1, <1>1, <1>3
      <4>2. QED
        BY <4>1, <1>5, Zenon
    <3>3. QED
      BY <3>2, Zenon
  <2>3. \A b \in bitpos' .. round_up(bitpos', CHAR_BIT) - 1 : dst'[b] = 0
    BY <1>2, WrittenBits
  <2>4. QED
    BY <2>1, <2>2, <2>3, Zenon DEF WriteInv
<1>9. QED
  BY <1>6, <1>7, <1>8 DEF IInv, ReadInv

LEMMA AlignedStep ==
  ASSUME IInv, NEW c \in 0 .. end, NEW bits \in Bits(CHAR_BIT * c), ostream_write_bytes_aligned(bits)
  PROVE  IInv'
<1> DEFINE at == round_up(bitpos, CHAR_BIT)
           m == CHAR_BIT * c
           zeros == Zeros(at - bitpos)
<1>1. /\ Writing /\ bitpos \in Nat /\ end \in Nat /\ given \in Seq(Bit) /\ Len(given) = bitpos
      /\ length = NotYet /\ Past \in Nat /\ dst \in [0 .. Past - 1 -> Bit]
      /\ \A b \in 0 .. bitpos - 1 : dst[b] = given[b + 1]
      /\ \A b \in bitpos .. at - 1 : dst[b] = 0
  BY DEF IInv, TypeInv, WriteInv, Writing, ostream_write_bytes_aligned, Past
<1>2. /\ at \in Nat /\ bitpos <= at /\ round_up(at, CHAR_BIT) = at /\ c \in Nat /\ m \in Nat
      /\ at \div CHAR_BIT \in Nat /\ CHAR_BIT * (at \div CHAR_BIT) = at
  BY <1>1, RoundUp
<1>. HIDE DEF at, m
<1>3. bits \in Seq(Bit) /\ Len(bits) = m /\ DOMAIN bits = 1 .. m /\ bits \in [1 .. m -> Bit]
  BY <1>2, BitsAreSeq DEF Bits, m
<1>4. zeros \in Seq(Bit) /\ Len(zeros) = at - bitpos /\ \A b \in 1 .. at - bitpos : zeros[b] = 0
  BY <1>1, <1>2 DEF Zeros, Bit
<1>5. /\ at + m <= Past /\ bitpos' = at + m /\ UNCHANGED <<end, length>>
      /\ dst' = [b \in 0 .. Past - 1 |-> IF b - at + 1 \in 1 .. m THEN bits[b - at + 1] ELSE dst[b]]
      /\ given' = (given \o zeros) \o bits
  <2>1. /\ Past - at >= m /\ bitpos' = at + m /\ UNCHANGED <<end, length>>
        /\ dst' = [b \in DOMAIN dst |-> IF b - at + 1 \in DOMAIN bits THEN bits[b - at + 1] ELSE dst[b]]
    BY <1>3 DEF ostream_write_bytes_aligned, Past, at
  <2>2. given' = given \o zeros \o bits
    BY DEF ostream_write_bytes_aligned, at
  <2>3. DOMAIN dst = 0 .. Past - 1
    BY <1>1
  <2>4. at + m <= Past
    BY <2>1, <1>1, <1>2
  <2>5. dst' = [b \in 0 .. Past - 1 |-> IF b - at + 1 \in 1 .. m THEN bits[b - at + 1] ELSE dst[b]]
    BY <2>1, <2>3, <1>3
  <2>6. QED
    BY <2>1, <2>2, <2>4, <2>5, Zenon
<1>. HIDE DEF zeros
<1>6. /\ given \o zeros \in Seq(Bit) /\ Len(given \o zeros) = at
      /\ \A b \in 0 .. bitpos - 1 : (given \o zeros)[b + 1] = given[b + 1]
      /\ \A b \in bitpos .. at - 1 : (given \o zeros)[b + 1] = 0
  <2>1. /\ given \o zeros \in Seq(Bit) /\ Len(given \o zeros) = at
        /\ \A b \in 0 .. bitpos - 1 : (given \o zeros)[b + 1] = given[b + 1]
        /\ \A b \in bitpos .. at - 1 : (given \o zeros)[b + 1] = zeros[b - bitpos + 1]
    <3>1. bitpos + (at - bitpos) = at
      BY <1>1, <1>2
    <3>2. /\ given \o zeros \in Seq(Bit) /\ Len(given \o zeros) = Len(given) + Len(zeros)
          /\ \A b \in 0 .. Len(given) - 1 : (given \o zeros)[b + 1] = given[b + 1]
          /\ \A b \in Len(given) .. Len(given) + Len(zeros) - 1 :
               (given \o zeros)[b + 1] = zeros[b - Len(given) + 1]
      BY <1>1, <1>4, ConcatBits, Zenon
    <3>3. Len(given) = bitpos /\ Len(given) + Len(zeros) = at
      BY <3>1, <1>1, <1>4
    <3>4. ASSUME NEW b \in bitpos .. at - 1
          PROVE  (given \o zeros)[b + 1] = zeros[b - bitpos + 1]
      <4>1. b \in Len(given) .. Len(given) + Len(zeros) - 1
        BY <3>3
      <4>2. (given \o zeros)[b + 1] = zeros[b - Len(given) + 1]
        BY <3>2, <4>1, Zenon
      <4>3. QED
        BY <3>3, <4>2
    <3>5. \A b \in 0 .. bitpos - 1 : (given \o zeros)[b + 1] = given[b + 1]
      BY <3>2, <3>3
    <3>6. QED
      BY <3>2, <3>3, <3>4, <3>5
  <2>2. ASSUME NEW b \in bitpos .. at - 1 PROVE zeros[b - bitpos + 1] = 0
    <3>1. b - bitpos + 1 \in 1 .. at - bitpos
      BY <1>1, <1>2
    <3>2. QED
      BY <3>1, <1>4
  <2>3. ASSUME NEW b \in bitpos .. at - 1 PROVE (given \o zeros)[b + 1] = 0
    BY <2>1, <2>2
  <2>4. QED
    BY <2>1, <2>3
<1>7. /\ given' \in Seq(Bit) /\ Len(given') = at + m
      /\ \A b \in 0 .. at - 1 : given'[b + 1] = (given \o zeros)[b + 1]
      /\ \A b \in at .. at + m - 1 : given'[b + 1] = bits[b - at + 1]
  BY <1>2, <1>3, <1>5, <1>6, ConcatBits
<1>8. \A b \in 0 .. at + m - 1 : dst'[b] = given'[b + 1]
  <2> TAKE b \in 0 .. at + m - 1
  <2>1. CASE b \in 0 .. at - 1
    <3>1. dst'[b] = dst[b]
      BY <2>1, <1>2, <1>5, <1>1
    <3>2. dst[b] = (given \o zeros)[b + 1]
      BY <2>1, <1>1, <1>2, <1>6
    <3>3. QED
      BY <2>1, <3>1, <3>2, <1>7
  <2>2. CASE b \in at .. at + m - 1
    <3>1. b \in 0 .. Past - 1 /\ b - at + 1 \in 1 .. m
      BY <2>2, <1>1, <1>2, <1>5
    <3>2. QED
      BY <2>2, <3>1, <1>5, <1>7
  <2>3. QED
    BY <2>1, <2>2, <1>2
<1>9. dst' \in [0 .. Past - 1 -> Bit]
  BY <1>1, <1>2, <1>3, <1>5
<1>10. round_up(at + m, CHAR_BIT) = at + m
  <2>1. /\ (at \div CHAR_BIT) + c \in Nat
        /\ CHAR_BIT * ((at \div CHAR_BIT) + c) = at + m
    BY <1>2 DEF m
  <2>2. at + m \in Nat
    BY <1>2
  <2>3. round_up(at + m, CHAR_BIT) <= at + m
    <3>1. \A q \in Nat : at + m <= CHAR_BIT * q => round_up(at + m, CHAR_BIT) <= CHAR_BIT * q
      BY <2>2, RoundUp, Zenon
    <3>2. at + m <= CHAR_BIT * ((at \div CHAR_BIT) + c)
      BY <2>1, <2>2
    <3>3. QED
      BY <3>1, <3>2, <2>1, Zenon
  <2>4. at + m <= round_up(at + m, CHAR_BIT) /\ round_up(at + m, CHAR_BIT) \in Nat
    BY <2>2, RoundUp
  <2>5. QED
    BY <2>2, <2>3, <2>4
<1>11. Past' = Past /\ Writing'
  BY <1>1, <1>5 DEF Past, Writing
<1>12. TypeInv'
  <2>1. end' \in Nat /\ bitpos' \in Nat /\ length' \in Nat \cup {NotYet}
    BY <1>1, <1>2, <1>5
  <2>2. dst' \in [0 .. Past' - 1 -> Bit]
    BY <1>9, <1>11
  <2>3. QED
    BY <2>1, <2>2, <1>7, Zenon DEF TypeInv
<1>13. WriteInv'
  <2>1. Len(given') = bitpos' /\ bitpos' <= Past'
    BY <1>5, <1>7, <1>11
  <2>2. \A b \in 0 .. bitpos' - 1 : dst'[b] = given'[b + 1]
    <3>1. bitpos' = at + m
      BY <1>5
    <3>2. ASSUME NEW b \in 0 .. bitpos' - 1 PROVE dst'[b] = given'[b + 1]
      <4>1. b \in 0 .. at + m - 1
        BY <3>1, <1>2
      <4>2. QED
        BY <4>1, <1>8, Zenon
    <3>3. QED
      BY <3>2, Zenon
  <2>3. \A b \in bitpos' .. round_up(bitpos', CHAR_BIT) - 1 : dst'[b] = 0
    BY <1>2, <1>5, <1>10
  <2>4. QED
    BY <2>1, <2>2, <2>3, Zenon DEF WriteInv
<1>14. QED
  BY <1>11, <1>12, <1>13 DEF IInv, ReadInv

LEMMA InitReadStep ==
  ASSUME IInv, istream_init
  PROVE  IInv'
<1> DEFINE at == round_up(bitpos, CHAR_BIT)
<1>1. /\ Writing /\ bitpos \in Nat /\ end \in Nat /\ given \in Seq(Bit) /\ Len(given) = bitpos
      /\ Past \in Nat /\ dst \in [0 .. Past - 1 -> Bit] /\ bitpos <= Past
      /\ \A b \in 0 .. bitpos - 1 : dst[b] = given[b + 1]
      /\ \A b \in bitpos .. at - 1 : dst[b] = 0
  BY DEF IInv, TypeInv, WriteInv, istream_init, Past
<1>2. /\ at \in Nat /\ bitpos <= at /\ at <= Past
      /\ at \div CHAR_BIT \in Nat /\ CHAR_BIT * (at \div CHAR_BIT) = at
  BY <1>1, RoundUp DEF Past
<1>3. length' = at \div CHAR_BIT /\ bitpos' = 0 /\ UNCHANGED <<dst, end, given>>
  BY DEF istream_init, ostream_bytes_written
<1>. HIDE DEF at
<1>4. ~Writing' /\ Past' = Past /\ PastRead' = at
  BY <1>2, <1>3 DEF Writing, NotYet, Past, PastRead
<1>5. DOMAIN given = 1 .. bitpos
  BY <1>1
<1>6. \A b \in 0 .. at - 1 : dst[b] = Stream(b)
  BY <1>1, <1>2, <1>5 DEF Stream
<1>7. ReadInv'
  BY <1>1, <1>2, <1>3, <1>4, <1>6 DEF ReadInv, Stream
<1>8. TypeInv'
  BY <1>1, <1>2, <1>3, <1>4 DEF TypeInv
<1>9. QED
  BY <1>4, <1>7, <1>8 DEF IInv, WriteInv

(* Reading moves the position only.                                        *)
LEMMA ReadStep ==
  ASSUME IInv, (\E c \in 0 .. ISTREAM_MIN_BITS : istream_advance(c)) \/ istream_byte_align
  PROVE  IInv'
<1>1. /\ ~Writing /\ bitpos \in Nat /\ length \in Nat /\ PastRead \in Nat /\ bitpos <= PastRead
      /\ UNCHANGED <<dst, end, length, given>>
  BY DEF IInv, TypeInv, ReadInv, Writing, istream_advance, istream_byte_align
<1>2. bitpos' \in Nat /\ bitpos' <= PastRead
  <2>1. CASE istream_byte_align
    BY <2>1, <1>1, RoundUp DEF istream_byte_align, PastRead
  <2>2. CASE \E c \in 0 .. ISTREAM_MIN_BITS : istream_advance(c)
    <3>1. PICK c \in 0 .. ISTREAM_MIN_BITS : istream_advance(c)
      BY <2>2
    <3>2. c \in Nat
      BY DEF ISTREAM_MIN_BITS
    <3>3. QED
      BY <3>1, <3>2, <1>1 DEF istream_advance, PastRead
  <2>3. QED
    BY <2>1, <2>2
<1>3. ~Writing' /\ Past' = Past /\ PastRead' = PastRead
  BY <1>1 DEF Writing, Past, PastRead
<1>4. QED
  BY <1>1, <1>2, <1>3 DEF IInv, TypeInv, WriteInv, ReadInv, Stream

LEMMA NextIInv == IInv /\ [Next]_vars => IInv'
<1> SUFFICES ASSUME IInv, [Next]_vars PROVE IInv'
  OBVIOUS
<1>1. CASE \E c \in 0 .. ISTREAM_MIN_BITS : \E bits \in Bits(c) : ostream_write(bits)
  BY <1>1, WriteStep
<1>2. CASE \E c \in 0 .. end : \E bits \in Bits(CHAR_BIT * c) : ostream_write_bytes_aligned(bits)
  BY <1>2, AlignedStep
<1>3. CASE istream_init
  BY <1>3, InitReadStep
<1>4. CASE (\E c \in 0 .. ISTREAM_MIN_BITS : istream_advance(c)) \/ istream_byte_align
  BY <1>4, ReadStep
<1>5. CASE UNCHANGED vars
  BY <1>5 DEF vars, IInv, TypeInv, WriteInv, ReadInv, Writing, Past, PastRead, Stream
<1>6. QED
  BY <1>1, <1>2, <1>3, <1>4, <1>5 DEF Next

-----------------------------------------------------------------------------
LEMMA Exact == IInv => StreamIsExact
<1> SUFFICES ASSUME IInv PROVE StreamIsExact
  OBVIOUS
<1>1. CASE Writing
  <2>1. /\ Len(given) = bitpos /\ given \in Seq(Bit) /\ bitpos \in Nat
        /\ \A b \in 0 .. bitpos - 1 : dst[b] = given[b + 1]
    BY <1>1 DEF IInv, TypeInv, WriteInv
  <2>2. DOMAIN given = 1 .. bitpos
    BY <2>1
  <2>3. QED
    BY <1>1, <2>1, <2>2 DEF StreamIsExact, Stream
<1>2. CASE ~Writing
  <2> DEFINE next == bitpos \div CHAR_BIT
             shift == bitpos % CHAR_BIT
             P == CHAR_BIT * next
             W == CHAR_BIT * WORD
             word == IF length - next >= WORD THEN read64le(dst, next) ELSE BytesLe(dst, next, length)
  <2>1. /\ bitpos \in Nat /\ length \in Nat /\ PastRead \in Nat /\ Len(given) <= PastRead
        /\ given \in Seq(Bit) /\ PastRead = CHAR_BIT * length
        /\ \A b \in 0 .. PastRead - 1 : dst[b] = Stream(b)
    BY <1>2 DEF IInv, TypeInv, ReadInv, Writing, PastRead
  <2>2. next \in Nat /\ shift \in 0 .. CHAR_BIT - 1 /\ P \in Nat /\ bitpos = P + shift
    BY <2>1, Split
  <2>3. W \in Nat /\ WordBits = 0 .. W - 1 /\ ISTREAM_MIN_BITS = W - (CHAR_BIT - 1)
    BY DEF WordBits, ISTREAM_MIN_BITS
  <2>. HIDE DEF next, shift, P, W, word
  <2>4. length - next >= WORD => P + W <= PastRead
    <3>1. ASSUME length - next >= WORD PROVE P + W <= PastRead
      <4>1. length = next + WORD + (length - next - WORD) /\ length - next - WORD \in Nat
        BY <3>1, <2>1, <2>2
      <4>2. /\ CHAR_BIT * length = P + W + CHAR_BIT * (length - next - WORD)
            /\ CHAR_BIT * (length - next - WORD) \in Nat
        <5>1. CHAR_BIT * length = CHAR_BIT * next + CHAR_BIT * WORD + CHAR_BIT * (length - next - WORD)
          BY <4>1, <2>2
        <5>2. CHAR_BIT * (length - next - WORD) \in Nat
          BY <4>1
        <5>3. QED
          BY <5>1, <5>2 DEF P, W
      <4>3. P + W \in Nat
        BY <2>2, <2>3
      <4>4. QED
        BY <4>2, <4>3, <2>1
    <3>2. QED
      BY <3>1
  <2>5. istream_bits = ShiftRight(word, shift)
    BY DEF istream_bits, word, next, shift
  <2>6. ASSUME NEW b \in 0 .. ISTREAM_MIN_BITS - 1 PROVE istream_bits[b] = Stream(bitpos + b)
    <3>1. /\ b \in WordBits /\ b + shift \in WordBits /\ b + shift \in Nat
          /\ P + (b + shift) = bitpos + b /\ bitpos + b \in Nat /\ b + shift < W
      BY <2>1, <2>2, <2>3
    <3>2. istream_bits[b] = word[b + shift]
      BY <3>1, <2>5 DEF ShiftRight
    <3>3. CASE bitpos + b < PastRead
      <4>1. word[b + shift] = dst[bitpos + b]
        BY <3>1, <3>3, <2>1 DEF word, read64le, BytesLe, P
      <4>2. bitpos + b \in 0 .. PastRead - 1
        BY <3>1, <3>3, <2>1
      <4>3. QED
        BY <4>1, <4>2, <3>2, <2>1
    <3>4. CASE bitpos + b >= PastRead
      <4>1. ~(length - next >= WORD)
        BY <3>1, <3>4, <2>1, <2>2, <2>3, <2>4
      <4>2. word[b + shift] = 0
        BY <3>1, <3>4, <4>1, <2>1 DEF word, BytesLe, P
      <4>3. bitpos + b + 1 \notin DOMAIN given
        BY <3>1, <3>4, <2>1
      <4>4. QED
        BY <4>2, <4>3, <3>2 DEF Stream
    <3>5. QED
      BY <3>1, <3>3, <3>4, <2>1
  <2>7. QED
    BY <1>2, <2>6 DEF StreamIsExact
<1>3. QED
  BY <1>1, <1>2

(* Whatever the buffer held and whichever path an access took, what is     *)
(* read is what was given, with zeros for what was skipped and for what    *)
(* lies behind the end (bitstream.h:39, 122 and 165).                      *)
THEOREM StreamExact == Spec => []StreamIsExact
<1>1. Init => IInv
  BY InitIInv
<1>2. IInv /\ [Next]_vars => IInv'
  BY NextIInv
<1>3. IInv => StreamIsExact
  BY Exact
<1>4. QED
  BY <1>1, <1>2, <1>3, PTL DEF Spec
=============================================================================
