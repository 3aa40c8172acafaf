--------------------------- MODULE DeflateProofs ---------------------------
(***************************************************************************)
(* Proofs about the compressor.  First hwdeflate, for every set of symbols,*)
(* codes, capacities and limit of a block; then, from "Code lengths" on,   *)
(* compute_huffman_lengths, for every number of symbols, their frequencies,*)
(* limits of the lengths and widths of a word.                             *)
(***************************************************************************)
EXTENDS Deflate, HuffmanLengths, Sums, SequenceTheorems

(* The symbol of the litlen code a token uses, and what the token adds up  *)
(* to when the symbols of the two codes have the weights w and v.          *)
Uses(t) == IF IsRef(t) THEN len2litlen[t.len] ELSE t.lit
Weight(w, v, t) == IF IsRef(t) THEN w[Uses(t)] + v[distance2dist[t.distance]] ELSE w[Uses(t)]
Weights(w, v, tokens) == [x \in 1 .. Len(tokens) |-> Weight(w, v, tokens[x])]

Weighted(w, f) == [s \in DOMAIN f |-> w[s] * f[s]]
Total(f) == SumFunctionOnSet(f, DOMAIN f)

(* The frequencies are those of the tokens: whatever the weights are.      *)
Counted(w, v, F, D, tokens) ==
  Total(Weighted(w, F)) + Total(Weighted(v, D)) = Total(Weights(w, v, tokens))

(* What the callbacks have collected in a block.                           *)
Collected(tokens, bytes, F, D) ==
  /\ tokens \in Seq(Token) /\ bytes \in Nat
  /\ F \in [Litlen -> Nat] /\ D \in [DistSym -> Nat]
  /\ Total(F) = Len(tokens) /\ Total(D) <= Len(tokens)
  /\ Len(tokens) <= bytes /\ bytes <= MAX_BLOCK_LEN_BYTES
  /\ F[LITLEN_EOB] = 0
  /\ \A w \in [Litlen -> Nat], v \in [DistSym -> Nat] : Counted(w, v, F, D, tokens)

-----------------------------------------------------------------------------
LEMMA TokenForm ==
  ASSUME NEW t \in Token \cup {EOB}
  PROVE  /\ IsRef(t) => t \in Ref /\ distance2dist[t.distance] \in DistSym
         /\ Uses(t) \in Litlen /\ (t \in Token => Uses(t) # LITLEN_EOB)
         /\ ~ IsRef(t) => litlen_ebits[Uses(t)] = 0
         /\ Bytes(t) \in 1 .. MAX_BLOCK_LEN_BYTES
<1>1. CASE t \in Ref
  <2>1. t.distance \in Nat \ {0} /\ t.len \in 1 .. MAX_BLOCK_LEN_BYTES
    BY <1>1, DeflateAssumption
  <2>2. IsRef(t)  BY <2>1 DEF IsRef
  <2>3. len2litlen[t.len] \in LenSym /\ distance2dist[t.distance] \in DistSym
    BY <1>1, DeflateAssumption
  <2>4. QED  BY <1>1, <2>1, <2>2, <2>3, DeflateAssumption DEF Uses, Bytes, Litlen
<1>2. CASE t \in LitToken \cup {EOB}
  <2>1. ~ IsRef(t) /\ t.lit \in Lit \cup {LITLEN_EOB} /\ (t.lit = LITLEN_EOB => t \notin LitToken)
    BY <1>2, DeflateAssumption DEF IsRef, LitToken, EOB
  <2>2. t \notin Ref
    BY <2>1, DeflateAssumption DEF IsRef
  <2>3. QED  BY <1>2, <2>1, <2>2, DeflateAssumption DEF Uses, Bytes, Litlen, Token
<1>3. QED  BY <1>1, <1>2 DEF Token

LEMMA Finite ==
  /\ IsFiniteSet(Litlen) /\ IsFiniteSet(DistSym)
  /\ MAX_BLOCK_LEN_BYTES \in Nat \ {0} /\ WORD = MAX_BLOCK_LEN_BYTES + 2
BY DeflateAssumption

LEMMA TotalNat ==
  ASSUME NEW S, IsFiniteSet(S), NEW f \in [S -> Nat]
  PROVE  Total(f) \in Nat /\ \A x \in S : f[x] <= Total(f)
BY SumNat, SumAtLeast DEF Total

(* e is f with one more at x.                                              *)
OneUp(f, e, S, x) == e \in [S -> Nat] /\ e[x] = f[x] + 1 /\ \A y \in S \ {x} : e[y] = f[y]

LEMMA TotalPlus ==
  ASSUME NEW S, IsFiniteSet(S), NEW f \in [S -> Nat], NEW x \in S, NEW e, OneUp(f, e, S, x)
  PROVE  Total(e) = Total(f) + 1
<1>1. e \in [S -> Nat] /\ e[x] = f[x] + 1 /\ \A y \in S \ {x} : e[y] = f[y]  BY DEF OneUp
<1>2. DOMAIN e = S /\ DOMAIN f = S /\ e[x] \in Int /\ f[x] \in Int /\ \A y \in S : f[y] \in Int
  BY <1>1
<1>3. SumFunctionOnSet(e, S) = SumFunctionOnSet(f, S) - f[x] + e[x]  BY <1>1, <1>2, SumChanged
<1>4. SumFunctionOnSet(f, S) \in Int  BY <1>2, SumInt
<1>5. QED  BY <1>1, <1>2, <1>3, <1>4 DEF Total

LEMMA TotalWeightedPlus ==
  ASSUME NEW S, IsFiniteSet(S), NEW f \in [S -> Nat], NEW x \in S, NEW e, OneUp(f, e, S, x),
         NEW w \in [S -> Nat]
  PROVE  Total(Weighted(w, e)) = Total(Weighted(w, f)) + w[x]
<1>0. e \in [S -> Nat] /\ e[x] = f[x] + 1 /\ \A y \in S \ {x} : e[y] = f[y]  BY DEF OneUp
<1> DEFINE a == Weighted(w, f)
           b == Weighted(w, e)
<1>1. /\ a \in [S -> Nat] /\ b \in [S -> Nat] /\ \A y \in S \ {x} : b[y] = a[y]
      /\ a[x] = w[x] * f[x] /\ b[x] = w[x] * (f[x] + 1)
  BY <1>0 DEF Weighted
<1>2. b[x] = a[x] + w[x]
  <2>1. w[x] \in Nat /\ f[x] \in Nat  OBVIOUS
  <2>2. \A m, q \in Nat : m * (q + 1) = m * q + m  OBVIOUS
  <2>3. QED  BY <1>1, <2>1, <2>2
<1> HIDE DEF a, b
<1>3. DOMAIN a = S /\ DOMAIN b = S /\ b[x] \in Int /\ a[x] \in Int /\ \A y \in S : a[y] \in Int
  BY <1>1
<1>4. SumFunctionOnSet(b, S) = SumFunctionOnSet(a, S) - a[x] + b[x]  BY <1>1, <1>3, SumChanged
<1>5. SumFunctionOnSet(a, S) \in Int  BY <1>3, SumInt
<1>6. w[x] \in Nat  OBVIOUS
<1>7. Total(b) = Total(a) + w[x]  BY <1>2, <1>3, <1>4, <1>5, <1>6 DEF Total
<1>8. QED  BY <1>7 DEF a, b

LEMMA WeightsAppend ==
  ASSUME NEW tokens \in Seq(Token), NEW t \in Token \cup {EOB},
         NEW w \in [Litlen -> Nat], NEW v \in [DistSym -> Nat]
  PROVE  /\ Total(Weights(w, v, Append(tokens, t))) = Total(Weights(w, v, tokens)) + Weight(w, v, t)
         /\ Total(Weights(w, v, tokens)) \in Nat
<1> DEFINE m == Len(tokens)
           a == Weights(w, v, tokens)
           b == Weights(w, v, Append(tokens, t))
<1>1. m \in Nat  OBVIOUS
<1>2. \A u \in Token \cup {EOB} : Weight(w, v, u) \in Nat
  BY TokenForm DEF Weight
<1>3. /\ a \in [1 .. m -> Nat] /\ b \in [1 .. m + 1 -> Nat] /\ b[m + 1] = Weight(w, v, t)
      /\ \A x \in 1 .. m : b[x] = a[x]
  BY <1>2 DEF Weights
<1>4. IsFiniteSet(1 .. m)  BY <1>1, FS_Interval
<1> HIDE DEF a, b, m
<1>5. Total(b) = SumFunctionOnSet(b, 1 .. m) + b[m + 1]
  <2>1. m + 1 \in Nat \ {0} /\ (m + 1) - 1 = m /\ \A x \in 1 .. m + 1 : b[x] \in Int  BY <1>1, <1>3
  <2>2. SumFunctionOnSet(b, 1 .. m + 1) = SumFunctionOnSet(b, 1 .. (m + 1) - 1) + b[m + 1]
    BY <2>1, SumPrefix
  <2>3. QED  BY <1>3, <2>1, <2>2 DEF Total
<1>6. SumFunctionOnSet(b, 1 .. m) = Total(a)
  <2> DEFINE I == 1 .. m
  <2>1. IsFiniteSet(I) /\ (\A x \in I : b[x] = a[x]) /\ DOMAIN a = I  BY <1>3, <1>4
  <2> HIDE DEF I
  <2>2. SumFunctionOnSet(b, I) = SumFunctionOnSet(a, I)  BY <2>1, SumSame
  <2>3. QED  BY <2>1, <2>2 DEF Total, I
<1>7. Total(a) \in Nat  BY <1>3, <1>4, TotalNat
<1>8. QED  BY <1>3, <1>5, <1>6, <1>7 DEF a, b

-----------------------------------------------------------------------------
(* Another token joins: no frequency wraps, and they still are those of    *)
(* the tokens.                                                             *)
Plus(f, s) == [f EXCEPT ![s] = uint16(@ + 1)]

LEMMA PlusExact ==
  ASSUME NEW S, IsFiniteSet(S), NEW f \in [S -> Nat], Total(f) <= MAX_BLOCK_LEN_BYTES, NEW x \in S
  PROVE  OneUp(f, Plus(f, x), S, x)
<1>1. f[x] \in Nat /\ f[x] <= MAX_BLOCK_LEN_BYTES
  BY TotalNat, Finite
<1>2. f[x] + 1 \in 0 .. WORD - 1 /\ WORD \in Nat \ {0}
  BY <1>1, Finite
<1>3. \A a \in Nat, b \in Nat \ {0} : a < b => a % b = a  OBVIOUS
<1>4. uint16(f[x] + 1) = f[x] + 1  BY <1>2, <1>3 DEF uint16
<1>5. QED  BY <1>4 DEF Plus, OneUp

(* The frequencies of distances: changed by a reference only.              *)
DistUp(t, D, D2) ==
  IF IsRef(t) THEN OneUp(D, D2, DistSym, distance2dist[t.distance]) ELSE D2 = D

LEMMA DistWeighted ==
  ASSUME NEW D \in [DistSym -> Nat], NEW x \in DistSym, NEW D2, OneUp(D, D2, DistSym, x),
         NEW v \in [DistSym -> Nat]
  PROVE  Total(Weighted(v, D2)) = Total(Weighted(v, D)) + v[x]
BY TotalWeightedPlus, Finite

LEMMA CountedOneMore ==
  ASSUME NEW t \in Token \cup {EOB}, NEW tokens \in Seq(Token),
         NEW F \in [Litlen -> Nat], NEW D \in [DistSym -> Nat],
         NEW w \in [Litlen -> Nat], NEW v \in [DistSym -> Nat], Counted(w, v, F, D, tokens),
         NEW F2, OneUp(F, F2, Litlen, Uses(t)), NEW D2, DistUp(t, D, D2)
  PROVE  Counted(w, v, F2, D2, Append(tokens, t))
<1>1. Uses(t) \in Litlen /\ (IsRef(t) => distance2dist[t.distance] \in DistSym)
  BY TokenForm
<1>2. Total(Weighted(w, F2)) = Total(Weighted(w, F)) + w[Uses(t)]
  BY <1>1, TotalWeightedPlus, Finite
<1>5. /\ Total(Weighted(w, F)) \in Nat /\ Total(Weighted(v, D)) \in Nat
      /\ Total(Weights(w, v, tokens)) \in Nat
  <2>1. Weighted(v, D) \in [DistSym -> Nat] /\ Weighted(w, F) \in [Litlen -> Nat]  BY DEF Weighted
  <2>2. QED  BY <2>1, TotalNat, WeightsAppend, Finite
<1>3. Total(Weighted(v, D2)) = Total(Weighted(v, D))
                                 + IF IsRef(t) THEN v[distance2dist[t.distance]] ELSE 0
  <2>1. CASE IsRef(t)
    <3>1. OneUp(D, D2, DistSym, distance2dist[t.distance])  BY <2>1 DEF DistUp
    <3>2. distance2dist[t.distance] \in DistSym /\ IsFiniteSet(DistSym)  BY <2>1, <1>1, Finite
    <3>3. PICK x \in DistSym : x = distance2dist[t.distance] /\ OneUp(D, D2, DistSym, x)
      BY <3>1, <3>2
    <3>4. Total(Weighted(v, D2)) = Total(Weighted(v, D)) + v[x]
      BY <3>3, DistWeighted
    <3>5. QED  BY <2>1, <3>3, <3>4
  <2>2. CASE ~ IsRef(t)  BY <2>2, <1>5 DEF DistUp
  <2>3. QED  BY <2>1, <2>2
<1>4. Total(Weights(w, v, Append(tokens, t))) = Total(Weights(w, v, tokens)) + Weight(w, v, t)
  BY WeightsAppend
<1>6. w[Uses(t)] \in Nat /\ (IsRef(t) => v[distance2dist[t.distance]] \in Nat)  BY <1>1
<1>7. QED
  <2>1. CASE IsRef(t)  BY <2>1, <1>2, <1>3, <1>4, <1>5, <1>6 DEF Counted, Weight
  <2>2. CASE ~ IsRef(t)  BY <2>2, <1>2, <1>3, <1>4, <1>5, <1>6 DEF Counted, Weight
  <2>3. QED  BY <2>1, <2>2

LEMMA CollectsOneMore ==
  ASSUME NEW t \in Token, NEW tokens, NEW bytes, NEW F, NEW D, Collected(tokens, bytes, F, D),
         bytes + Bytes(t) <= MAX_BLOCK_LEN_BYTES,
         NEW D2, D2 = IF IsRef(t) THEN Plus(D, distance2dist[t.distance]) ELSE D
  PROVE  Collected(Append(tokens, t), bytes + Bytes(t), Plus(F, Uses(t)), D2)
<1> DEFINE F2 == Plus(F, Uses(t))
<1>1. /\ Uses(t) \in Litlen /\ Uses(t) # LITLEN_EOB /\ Bytes(t) \in 1 .. MAX_BLOCK_LEN_BYTES
      /\ IsRef(t) => distance2dist[t.distance] \in DistSym
  BY TokenForm
<1>2. /\ tokens \in Seq(Token) /\ bytes \in Nat /\ F \in [Litlen -> Nat] /\ D \in [DistSym -> Nat]
      /\ Total(F) = Len(tokens) /\ Total(D) <= Len(tokens) /\ Len(tokens) <= bytes
      /\ bytes <= MAX_BLOCK_LEN_BYTES /\ F[LITLEN_EOB] = 0
  BY DEF Collected
<1>3. Len(tokens) \in Nat /\ Total(D) \in Nat /\ MAX_BLOCK_LEN_BYTES \in Nat
      /\ IsFiniteSet(Litlen) /\ IsFiniteSet(DistSym)
  BY <1>2, TotalNat, Finite
<1>4. Total(F) <= MAX_BLOCK_LEN_BYTES /\ Total(D) <= MAX_BLOCK_LEN_BYTES
  BY <1>2, <1>3
<1>5. OneUp(F, F2, Litlen, Uses(t))
  BY <1>1, <1>2, <1>3, <1>4, PlusExact
<1>6. DistUp(t, D, D2)
  <2>1. CASE IsRef(t)
    <3>1. OneUp(D, Plus(D, distance2dist[t.distance]), DistSym, distance2dist[t.distance])
      BY <2>1, <1>1, <1>2, <1>3, <1>4, PlusExact
    <3>2. QED  BY <2>1, <3>1 DEF DistUp
  <2>2. CASE ~ IsRef(t)  BY <2>2 DEF DistUp
  <2>3. QED  BY <2>1, <2>2
<1> HIDE DEF F2
<1>7. F2 \in [Litlen -> Nat] /\ D2 \in [DistSym -> Nat]
  BY <1>2, <1>5, <1>6 DEF OneUp, DistUp
<1>8. F2[LITLEN_EOB] = 0
  BY <1>1, <1>2, <1>5 DEF OneUp, Litlen
<1>9. Total(F2) = Total(F) + 1  BY <1>1, <1>2, <1>3, <1>5, TotalPlus
<1>10. Total(D2) <= Total(D) + 1
  <2>1. CASE IsRef(t)
    <3>1. OneUp(D, D2, DistSym, distance2dist[t.distance])  BY <2>1, <1>6 DEF DistUp
    <3>2. Total(D2) = Total(D) + 1  BY <2>1, <3>1, <1>1, <1>2, <1>3, TotalPlus
    <3>3. QED  BY <3>2, <1>3
  <2>2. CASE ~ IsRef(t)  BY <2>2, <1>3, <1>6 DEF DistUp
  <2>3. QED  BY <2>1, <2>2
<1>11. \A w \in [Litlen -> Nat], v \in [DistSym -> Nat] : Counted(w, v, F2, D2, Append(tokens, t))
  <2>1. TAKE w \in [Litlen -> Nat], v \in [DistSym -> Nat]
  <2>2. Counted(w, v, F, D, tokens)  BY DEF Collected
  <2>3. QED  BY <2>2, <1>2, <1>5, <1>6, CountedOneMore
<1>12. Append(tokens, t) \in Seq(Token) /\ Len(Append(tokens, t)) = Len(tokens) + 1
  BY <1>2
<1>13. Total(D2) \in Nat  BY <1>3, <1>7, TotalNat
<1>14. /\ Total(F2) = Len(Append(tokens, t)) /\ Total(D2) <= Len(Append(tokens, t))
       /\ Len(Append(tokens, t)) <= bytes + Bytes(t) /\ bytes + Bytes(t) \in Nat
  BY <1>1, <1>2, <1>3, <1>9, <1>10, <1>12, <1>13
<1>15. QED
  BY <1>7, <1>8, <1>11, <1>12, <1>14 DEF Collected, F2

LEMMA CollectedNothing == Collected(<<>>, 0, NoFreqs, NoDists)
<1>1. /\ NoFreqs \in [Litlen -> Nat] /\ NoDists \in [DistSym -> Nat] /\ NoFreqs[LITLEN_EOB] = 0
  BY DEF NoFreqs, NoDists, Litlen
<1>2. Total(NoFreqs) = 0 /\ Total(NoDists) = 0
  BY SumZero, Finite DEF NoFreqs, NoDists, Total
<1>3. ASSUME NEW w \in [Litlen -> Nat], NEW v \in [DistSym -> Nat]
      PROVE  Counted(w, v, NoFreqs, NoDists, <<>>)
  <2>1. Total(Weighted(w, NoFreqs)) = 0
    <3> DEFINE a == Weighted(w, NoFreqs)
    <3>1. DOMAIN a = Litlen /\ \A s \in Litlen : a[s] = 0  BY DEF Weighted, NoFreqs
    <3> HIDE DEF a
    <3>2. Total(a) = 0  BY <3>1, SumZero, Finite DEF Total
    <3>3. QED  BY <3>2 DEF a
  <2>2. Total(Weighted(v, NoDists)) = 0
    <3> DEFINE a == Weighted(v, NoDists)
    <3>1. DOMAIN a = DistSym /\ \A s \in DistSym : a[s] = 0  BY DEF Weighted, NoDists
    <3> HIDE DEF a
    <3>2. Total(a) = 0  BY <3>1, SumZero, Finite DEF Total
    <3>3. QED  BY <3>2 DEF a
  <2>3. Total(Weights(w, v, <<>>)) = 0
    <3>1. DOMAIN Weights(w, v, <<>>) = {}  BY DEF Weights
    <3>2. QED  BY <3>1, SumEmpty DEF Total
  <2>4. QED  BY <2>1, <2>2, <2>3 DEF Counted
<1>4. <<>> \in Seq(Token) /\ Len(<<>>) = 0 /\ MAX_BLOCK_LEN_BYTES \in Nat
  BY Finite
<1> HIDE DEF NoFreqs, NoDists
<1>5. \A w \in [Litlen -> Nat], v \in [DistSym -> Nat] : Counted(w, v, NoFreqs, NoDists, <<>>)
  BY <1>3
<1>6. /\ Total(NoFreqs) = Len(<<>>) /\ Total(NoDists) <= Len(<<>>) /\ Len(<<>>) <= 0
      /\ 0 <= MAX_BLOCK_LEN_BYTES /\ 0 \in Nat
  BY <1>2, <1>4
<1>7. QED  BY <1>1, <1>4, <1>5, <1>6 DEF Collected

-----------------------------------------------------------------------------
(* What huffman_block_body_len measures is what its symbols are written    *)
(* with.                                                                   *)
BitsWith(lits, dists, t) ==
  IF IsRef(t)
  THEN lits[len2litlen[t.len]] + litlen_ebits[len2litlen[t.len]]
         + dists[distance2dist[t.distance]] + dist_ebits[distance2dist[t.distance]]
  ELSE lits[t.lit]
BlockBits(lits, dists, tokens) == [x \in 1 .. Len(tokens) |-> BitsWith(lits, dists, tokens[x])]

LEMMA BodyLen ==
  ASSUME NEW tokens, NEW bytes, NEW F, NEW D, Collected(tokens, bytes, F, D),
         NEW lits \in [Litlen -> Nat], NEW dists \in [DistSym -> Nat],
         NEW F2, OneUp(F, F2, Litlen, LITLEN_EOB)
  PROVE  /\ huffman_block_body_len(F2, lits, D, dists) = Total(BlockBits(lits, dists, Append(tokens, EOB)))
         /\ F2 \in [Litlen -> Nat] /\ Total(F2) = Len(tokens) + 1
<1> DEFINE w == [s \in Litlen |-> lits[s] + litlen_ebits[s]]
           v == [s \in DistSym |-> dists[s] + dist_ebits[s]]
           all == Append(tokens, EOB)
<1>1. /\ tokens \in Seq(Token) /\ F \in [Litlen -> Nat] /\ D \in [DistSym -> Nat]
      /\ Total(F) = Len(tokens) /\ F[LITLEN_EOB] = 0
  BY DEF Collected
<1>2. litlen_ebits \in [Litlen -> Nat] /\ dist_ebits \in [DistSym -> Nat]
  BY DeflateAssumption
<1>3. w \in [Litlen -> Nat] /\ v \in [DistSym -> Nat]
  BY <1>2
<1>4. Uses(EOB) = LITLEN_EOB /\ ~ IsRef(EOB) /\ LITLEN_EOB \in Litlen
  BY DEF Uses, IsRef, EOB, Litlen
<1>5. OneUp(F, F2, Litlen, Uses(EOB)) /\ DistUp(EOB, D, D)
  BY <1>4 DEF DistUp
<1>6. F2 \in [Litlen -> Nat] /\ Total(F2) = Len(tokens) + 1
  <2>1. F2 \in [Litlen -> Nat]  BY <1>5 DEF OneUp
  <2>2. Total(F2) = Total(F) + 1  BY <1>1, <1>4, TotalPlus, Finite
  <2>3. QED  BY <1>1, <2>1, <2>2
<1>7. Counted(w, v, F2, D, all)
  <2> HIDE DEF w, v
  <2>1. Counted(w, v, F, D, tokens)  BY <1>3 DEF Collected
  <2>2. QED  BY <2>1, <1>1, <1>3, <1>5, CountedOneMore
<1>8. Weights(w, v, all) = BlockBits(lits, dists, all)
  <2>1. ASSUME NEW t \in Token \cup {EOB}  PROVE Weight(w, v, t) = BitsWith(lits, dists, t)
    <3>1. Uses(t) \in Litlen /\ (IsRef(t) => distance2dist[t.distance] \in DistSym)
          /\ (~ IsRef(t) => litlen_ebits[Uses(t)] = 0)
      BY TokenForm
    <3>2. lits[Uses(t)] \in Nat /\ litlen_ebits[Uses(t)] \in Nat  BY <1>2, <3>1
    <3>3. IsRef(t) => dists[distance2dist[t.distance]] \in Nat /\ dist_ebits[distance2dist[t.distance]] \in Nat
      BY <1>2, <3>1
    <3>4. CASE IsRef(t)  BY <3>1, <3>2, <3>3, <3>4 DEF Weight, BitsWith, Uses
    <3>5. CASE ~ IsRef(t)  BY <3>1, <3>2, <3>5 DEF Weight, BitsWith, Uses
    <3>6. QED  BY <3>4, <3>5
  <2>2. \A x \in 1 .. Len(all) : all[x] \in Token \cup {EOB}  BY <1>1
  <2> HIDE DEF w, v, all
  <2>3. QED  BY <2>1, <2>2 DEF Weights, BlockBits
<1>9. huffman_block_body_len(F2, lits, D, dists) = Total(Weighted(w, F2)) + Total(Weighted(v, D))
  <2>1. Weighted(w, F2) = [s \in Litlen |-> (lits[s] + litlen_ebits[s]) * F2[s]]
    BY <1>6 DEF Weighted
  <2>2. Weighted(v, D) = [s \in DistSym |-> (dists[s] + dist_ebits[s]) * D[s]]
    BY <1>1 DEF Weighted
  <2> HIDE DEF w, v
  <2>3. QED  BY <2>1, <2>2 DEF huffman_block_body_len, SumFunction, Total
<1>10. QED  BY <1>6, <1>7, <1>8, <1>9 DEF Counted

LEMMA BlockBitsNat ==
  ASSUME NEW tokens \in Seq(Token \cup {EOB}),
         NEW lits \in [Litlen -> Nat], NEW dists \in [DistSym -> Nat]
  PROVE  BlockBits(lits, dists, tokens) \in [1 .. Len(tokens) -> Nat]
<1>1. ASSUME NEW t \in Token \cup {EOB}  PROVE BitsWith(lits, dists, t) \in Nat
  <2>1. Uses(t) \in Litlen /\ (IsRef(t) => distance2dist[t.distance] \in DistSym)
    BY TokenForm
  <2>2. lits[Uses(t)] \in Nat /\ litlen_ebits[Uses(t)] \in Nat
    BY <2>1, DeflateAssumption
  <2>3. IsRef(t) => /\ dists[distance2dist[t.distance]] \in Nat
                    /\ dist_ebits[distance2dist[t.distance]] \in Nat
    BY <2>1, DeflateAssumption
  <2>4. CASE IsRef(t)
    <3>1. PICK a \in Nat, b \in Nat : a = lits[len2litlen[t.len]] /\ b = litlen_ebits[len2litlen[t.len]]
      BY <2>2, <2>4 DEF Uses
    <3>2. PICK c \in Nat, d \in Nat :
            c = dists[distance2dist[t.distance]] /\ d = dist_ebits[distance2dist[t.distance]]
      BY <2>3, <2>4
    <3>3. BitsWith(lits, dists, t) = a + b + c + d  BY <2>4, <3>1, <3>2 DEF BitsWith
    <3>4. QED  BY <3>3
  <2>5. CASE ~ IsRef(t)  BY <2>2, <2>5 DEF BitsWith, Uses
  <2>6. QED  BY <2>4, <2>5
<1>2. QED  BY <1>1 DEF BlockBits

LEMMA RoundUp ==
  ASSUME NEW x \in Nat
  PROVE  /\ round_up(x, 8) \in Nat /\ x <= round_up(x, 8)
         /\ \A y \in Nat : x <= 8 * y => round_up(x, 8) <= 8 * y
         /\ \E y \in Nat : round_up(x, 8) = 8 * y
BY DEF round_up

LEMMA RoundUpTwice ==
  ASSUME NEW y \in Nat  PROVE round_up(8 * y, 8) = 8 * y /\ round_up(8 * y, 8) \div 8 = y
BY DEF round_up

(* The unsigned difference does not wrap at a position inside the          *)
(* destination, where every position rounded up to a byte still is.        *)
LEMMA LeftIs ==
  ASSUME dst_cap \in Nat, bitpos_end < SIZE_RANGE, NEW pos \in 0 .. bitpos_end
  PROVE  Left(pos) = bitpos_end - pos
<1>1. /\ bitpos_end \in Nat /\ pos \in Nat /\ pos <= bitpos_end
      /\ SIZE_RANGE \in Nat /\ bitpos_end < SIZE_RANGE
  BY DeflateAssumption DEF bitpos_end
<1> DEFINE d == bitpos_end - pos
<1>2. d \in Nat /\ d < SIZE_RANGE  BY <1>1
<1>3. d % SIZE_RANGE = d
  <2> HIDE DEF d
  <2>1. QED  BY <1>1, <1>2
<1>4. QED  BY <1>3 DEF Left

LEMMA LeftAligned ==
  ASSUME dst_cap \in Nat, bitpos_end < SIZE_RANGE, NEW pos \in 0 .. bitpos_end
  PROVE  Left(round_up(pos, 8)) = bitpos_end - round_up(pos, 8)
<1>1. pos \in Nat /\ pos <= 8 * dst_cap  BY DEF bitpos_end
<1>2. round_up(pos, 8) \in Nat /\ round_up(pos, 8) <= 8 * dst_cap
  BY <1>1, RoundUp
<1>3. round_up(pos, 8) \in 0 .. bitpos_end  BY <1>2 DEF bitpos_end
<1>4. QED  BY <1>3, LeftIs

-----------------------------------------------------------------------------
Collecting == pc \in {"lz77", "block"}

BlockInv ==
  IF Collecting
  THEN Collected(block, block_len_bytes, litlen_freqs, dist_freqs)
  ELSE /\ \E tokens \in Seq(Token) : block = Append(tokens, EOB)
       /\ Len(block) - 1 <= block_len_bytes /\ block_len_bytes <= MAX_BLOCK_LEN_BYTES
       /\ Total(litlen_freqs) = Len(block)

PendingInv == pc \notin {"lz77", "done"} /\ ~ final => call \in Token

Bits == BlockBits(litlen_lens, dist_lens, block)
StoredEnd == round_up(old_bit_pos + 3, 8) + 2 * 16 + 8 * block_len_bytes

MeasureInv ==
  /\ ~ Collecting =>
       /\ old_bit_pos + computed <= StoredEnd
       /\ kind = "stored" => header = 3 /\ old_bit_pos + computed = StoredEnd
       /\ kind # "stored" => computed = header + SumFunctionOnSet(Bits, 1 .. Len(block))
  /\ pc = "header" => k = 1 /\ bitpos = old_bit_pos
  /\ pc = "len_nlen" => kind = "stored" /\ bitpos = old_bit_pos + 3
  /\ pc = "bytes" => kind = "stored" /\ bitpos = round_up(old_bit_pos + 3, 8) + 2 * 16
  /\ pc = "symbols" =>
       /\ kind # "stored" /\ k \in 1 .. Len(block)
       /\ bitpos = old_bit_pos + header + SumFunctionOnSet(Bits, 1 .. k - 1)
  /\ pc = "written" => bitpos = old_bit_pos + computed
  /\ result = "false" => pc = "done" /\ old_bit_pos + computed > bitpos_end
  /\ result = "true" => pc = "done" /\ dst_used <= dst_cap

Inv == TypeOK /\ BlockInv /\ PendingInv /\ MeasureInv

LEMMA InitInv == Init => Inv
<1> SUFFICES ASSUME Init PROVE Inv  OBVIOUS
<1>1. TypeOK
  <2>1. /\ src_len \in Nat /\ dst_cap \in Nat
        /\ bitpos \in 0 .. bitpos_end /\ bitpos_end < SIZE_RANGE
    BY DeflateAssumption DEF Init, bitpos_end
  <2>2. NoFreqs \in [Litlen -> 0 .. WORD - 1] /\ NoDists \in [DistSym -> 0 .. WORD - 1]
    BY Finite DEF NoFreqs, NoDists
  <2>3. NoFreqs \in [Litlen -> Nat] /\ NoDists \in [DistSym -> Nat]
    BY DEF NoFreqs, NoDists
  <2>4. /\ litlen_freqs \in [Litlen -> 0 .. WORD - 1] /\ dist_freqs \in [DistSym -> 0 .. WORD - 1]
        /\ litlen_lens \in [Litlen -> Nat] /\ dist_lens \in [DistSym -> Nat]
    BY <2>2, <2>3 DEF Init
  <2>5. calls \in Seq(Token) /\ block \in Seq(Token \cup {EOB})  BY DEF Init
  <2>6. /\ covered \in Nat /\ block_src \in Nat /\ block_len_bytes \in Nat
        /\ call \in Token \cup {EOB} /\ final \in BOOLEAN /\ old_bit_pos \in Nat
        /\ header \in Nat /\ computed \in Nat /\ k \in Nat /\ dst_used \in Nat
    BY DEF Init
  <2>7. /\ pc \in {"lz77", "block", "header", "len_nlen", "bytes", "symbols", "written", "done"}
        /\ kind \in {"none", "stored", "static", "dynamic"} /\ result \in {"none", "true", "false"}
    BY DEF Init
  <2>8. QED  BY <2>1, <2>4, <2>5, <2>6, <2>7 DEF TypeOK
<1>2. BlockInv
  BY CollectedNothing DEF Init, BlockInv, Collecting
<1>3. PendingInv /\ MeasureInv  BY DEF Init, PendingInv, MeasureInv, Collecting
<1>4. QED  BY <1>1, <1>2, <1>3 DEF Inv

-----------------------------------------------------------------------------
(* A symbol is collected: by a callback, or by reset_block.                *)
LEMMA AddSymbolCollects ==
  ASSUME NEW t \in Token, NEW tokens, NEW bytes, NEW F, NEW D,
         Collected(tokens, bytes, F, D), bytes + Bytes(t) <= MAX_BLOCK_LEN_BYTES,
         AddSymbol(t, tokens, bytes, F, D)
  PROVE  /\ Collected(block', block_len_bytes', litlen_freqs', dist_freqs')
         /\ block' = Append(tokens, t) /\ block_len_bytes' = bytes + Bytes(t)
<1>1. /\ block' = Append(tokens, t) /\ block_len_bytes' = bytes + Bytes(t)
      /\ litlen_freqs' = Plus(F, Uses(t))
      /\ dist_freqs' = IF IsRef(t) THEN Plus(D, distance2dist[t.distance]) ELSE D
  BY DEF AddSymbol, Plus, Uses
<1>2. Collected(Append(tokens, t), bytes + Bytes(t), Plus(F, Uses(t)), dist_freqs')
  BY <1>1, CollectsOneMore
<1>3. QED  BY <1>1, <1>2

(* The types of what a block has collected: no frequency needs more than   *)
(* 16 bits.                                                                *)
LEMMA CollectedTypes ==
  ASSUME NEW tokens, NEW bytes, NEW F, NEW D, Collected(tokens, bytes, F, D)
  PROVE  /\ tokens \in Seq(Token) /\ tokens \in Seq(Token \cup {EOB}) /\ bytes \in Nat
         /\ F \in [Litlen -> 0 .. WORD - 1] /\ D \in [DistSym -> 0 .. WORD - 1]
         /\ Len(tokens) <= bytes /\ bytes <= MAX_BLOCK_LEN_BYTES
<1>1. /\ tokens \in Seq(Token) /\ bytes \in Nat /\ F \in [Litlen -> Nat] /\ D \in [DistSym -> Nat]
      /\ Total(F) = Len(tokens) /\ Total(D) <= Len(tokens)
      /\ Len(tokens) <= bytes /\ bytes <= MAX_BLOCK_LEN_BYTES
  BY DEF Collected
<1>2. /\ Total(F) \in Nat /\ \A s \in Litlen : F[s] <= Total(F)
      /\ Total(D) \in Nat /\ \A s \in DistSym : D[s] <= Total(D)
  BY <1>1, TotalNat, Finite
<1>3. Len(tokens) \in Nat  BY <1>1
<1>4. \A s \in Litlen : F[s] \in 0 .. WORD - 1  BY <1>1, <1>2, <1>3, Finite
<1>5. \A s \in DistSym : D[s] \in 0 .. WORD - 1  BY <1>1, <1>2, <1>3, Finite
<1>6. F \in [Litlen -> 0 .. WORD - 1] /\ D \in [DistSym -> 0 .. WORD - 1]  BY <1>1, <1>4, <1>5
<1>7. QED  BY <1>1, <1>6

LEMMA CallbackStep ==
  ASSUME Inv, NEW t \in Token, Callback(t)
  PROVE  Inv'
<1>1. /\ Collected(block, block_len_bytes, litlen_freqs, dist_freqs)
      /\ pc = "lz77" /\ covered' = covered + Bytes(t) /\ calls' = Append(calls, t)
      /\ Bytes(t) \in Nat
  BY TokenForm DEF Inv, BlockInv, Collecting, Callback
<1>2. CASE BlockFull(t)
  <2>1. pc' = "block" /\ call' = t /\ UNCHANGED state  BY <1>2 DEF Callback
  <2>2. TypeOK'
    <3>1. calls' \in Seq(Token) /\ covered' \in Nat  BY <1>1 DEF Inv, TypeOK
    <3>2. call' \in Token \cup {EOB} /\ final' \in BOOLEAN  BY <1>2, <2>1 DEF Callback
    <3>3. UNCHANGED <<args, stream, bitpos, choice, k, returned>>  BY DEF Callback
    <3>4. QED  BY <2>1, <3>1, <3>2, <3>3 DEF Inv, TypeOK, args, state, choice, returned, bitpos_end
  <2>3. BlockInv'
    BY <1>1, <2>1 DEF BlockInv, Collecting, state
  <2>4. PendingInv' /\ MeasureInv'
    BY <1>1, <2>1 DEF Inv, PendingInv, MeasureInv, Collecting, Callback, returned
  <2>5. QED  BY <2>2, <2>3, <2>4 DEF Inv
<1>3. CASE ~ BlockFull(t)
  <2>1. AddSymbol(t, block, block_len_bytes, litlen_freqs, dist_freqs) /\ pc' = pc
    BY <1>3 DEF Callback
  <2>2. block_len_bytes + Bytes(t) <= MAX_BLOCK_LEN_BYTES
    BY <1>1, <1>3, Finite DEF BlockFull, Collected
  <2>3. Collected(block', block_len_bytes', litlen_freqs', dist_freqs')
    BY <1>1, <2>1, <2>2, AddSymbolCollects
  <2>4. /\ block' \in Seq(Token \cup {EOB}) /\ block_len_bytes' \in Nat
        /\ litlen_freqs' \in [Litlen -> 0 .. WORD - 1] /\ dist_freqs' \in [DistSym -> 0 .. WORD - 1]
    BY <2>3, CollectedTypes
  <2>5. TypeOK'
    BY <1>1, <1>3, <2>1, <2>4 DEF Inv, TypeOK, Callback, args, choice, returned, bitpos_end
  <2>6. BlockInv'
    BY <1>1, <2>1, <2>3 DEF BlockInv, Collecting
  <2>7. PendingInv' /\ MeasureInv'
    BY <1>1, <1>3, <2>1 DEF Inv, PendingInv, MeasureInv, Collecting, Callback, returned
  <2>8. QED  BY <2>5, <2>6, <2>7 DEF Inv
<1>4. QED  BY <1>2, <1>3

LEMMA SourceEndsStep ==
  ASSUME Inv, SourceEnds  PROVE Inv'
<1>1. TypeOK'
  BY DEF Inv, TypeOK, SourceEnds, args, matcher, state, choice, returned, bitpos_end
<1>2. BlockInv'
  BY DEF Inv, BlockInv, Collecting, SourceEnds, state
<1>3. PendingInv' /\ MeasureInv'
  BY DEF Inv, PendingInv, MeasureInv, Collecting, SourceEnds, returned
<1>4. QED  BY <1>1, <1>2, <1>3 DEF Inv

LEMMA NextBlockStep ==
  ASSUME Inv, NextBlock  PROVE Inv'
<1>1. call \in Token /\ Bytes(call) \in 1 .. MAX_BLOCK_LEN_BYTES
  BY TokenForm DEF Inv, PendingInv, NextBlock
<1>2. AddSymbol(call, <<>>, 0, NoFreqs, NoDists)
  BY DEF NextBlock, reset_block
<1>3. Collected(block', block_len_bytes', litlen_freqs', dist_freqs')
  BY <1>1, <1>2, CollectedNothing, AddSymbolCollects, Finite
<1>4. /\ block' \in Seq(Token \cup {EOB}) /\ block_len_bytes' \in Nat
      /\ litlen_freqs' \in [Litlen -> 0 .. WORD - 1] /\ dist_freqs' \in [DistSym -> 0 .. WORD - 1]
  BY <1>3, CollectedTypes
<1>5. TypeOK'
  BY <1>4 DEF Inv, TypeOK, NextBlock, NextSrc, args, matcher, choice, returned, bitpos_end
<1>6. BlockInv'
  BY <1>3 DEF BlockInv, Collecting, NextBlock
<1>7. PendingInv' /\ MeasureInv'
  BY DEF Inv, PendingInv, MeasureInv, Collecting, NextBlock, returned
<1>8. QED  BY <1>5, <1>6, <1>7 DEF Inv

-----------------------------------------------------------------------------
(* write_block: the choice of the kind.                                    *)
LEMMA CodesNat ==
  ASSUME NEW S, NEW f, DOMAIN f = S, NEW L, L \subseteq [S -> Nat], NEW c \in Codes(L, f)
  PROVE  c \in [S -> Nat]
<1>1. PICK lens \in L : c = [s \in S |-> IF f[s] = 0 THEN 0 ELSE lens[s]]
  BY DEF Codes
<1>2. QED  BY <1>1

LEMMA WriteBlockStep ==
  ASSUME Inv, WriteBlock  PROVE Inv'
<1> DEFINE F2 == litlen_freqs'
<1>1. /\ Collected(block, block_len_bytes, litlen_freqs, dist_freqs)
      /\ pc = "block" /\ pc' = "header" /\ k' = 1 /\ block' = Append(block, EOB)
      /\ F2 = [litlen_freqs EXCEPT ![LITLEN_EOB] = 1] /\ old_bit_pos' = bitpos
      /\ UNCHANGED <<args, matcher, stream, block_src, block_len_bytes, dist_freqs, bitpos,
                     call, final, returned>>
  BY DEF Inv, BlockInv, Collecting, WriteBlock
<1>2. /\ block \in Seq(Token) /\ Len(block) <= block_len_bytes
      /\ block_len_bytes \in Nat /\ block_len_bytes <= MAX_BLOCK_LEN_BYTES
      /\ litlen_freqs \in [Litlen -> 0 .. WORD - 1]
  BY <1>1, CollectedTypes
<1>3. OneUp(litlen_freqs, F2, Litlen, LITLEN_EOB)
  <2>1. litlen_freqs \in [Litlen -> Nat] /\ litlen_freqs[LITLEN_EOB] = 0 /\ LITLEN_EOB \in Litlen
    BY <1>1 DEF Collected, Litlen
  <2>2. QED  BY <2>1, <1>1 DEF OneUp
<1>4. /\ F2 \in [Litlen -> 0 .. WORD - 1]
      /\ DOMAIN F2 = Litlen /\ DOMAIN dist_freqs = DistSym
  <2>1. 1 \in 0 .. WORD - 1  BY Finite
  <2>2. QED  BY <1>1, <1>2, <2>1 DEF Inv, TypeOK
<1>5. PICK hdr \in DynHeader,
           dyn_litlen \in Codes(DynLitlen, F2), dyn_dist \in Codes(DynDist, dist_freqs) :
         LET body_len(lits, dists) == huffman_block_body_len(F2, lits, dist_freqs, dists)
             uncomp_len == uncomp_block_len
             static_len == 3 + body_len(fixed_litlen_lengths, fixed_dist_lengths)
             dynamic_len == hdr + body_len(dyn_litlen, dyn_dist)
         IN /\ kind' = Kind(uncomp_len, static_len, dynamic_len)
            /\ computed' = CASE kind' = "stored" -> uncomp_len
                             [] kind' = "static" -> static_len
                             [] kind' = "dynamic" -> dynamic_len
            /\ header' = IF kind' = "dynamic" THEN hdr ELSE 3
            /\ litlen_lens' = IF kind' = "dynamic" THEN dyn_litlen ELSE fixed_litlen_lengths
            /\ dist_lens' = IF kind' = "dynamic" THEN dyn_dist ELSE fixed_dist_lengths
  BY DEF WriteBlock
<1>6. /\ dyn_litlen \in [Litlen -> Nat] /\ dyn_dist \in [DistSym -> Nat] /\ hdr \in Nat
      /\ fixed_litlen_lengths \in [Litlen -> Nat] /\ fixed_dist_lengths \in [DistSym -> Nat]
  <2>1. /\ DynLitlen \subseteq [Litlen -> Nat] /\ DynDist \subseteq [DistSym -> Nat] /\ hdr \in Nat
        /\ fixed_litlen_lengths \in [Litlen -> Nat] /\ fixed_dist_lengths \in [DistSym -> Nat]
    BY DeflateAssumption
  <2>2. dyn_litlen \in [Litlen -> Nat]  BY <2>1, <1>4, CodesNat
  <2>3. dyn_dist \in [DistSym -> Nat]  BY <2>1, <1>4, CodesNat
  <2>4. QED  BY <2>1, <2>2, <2>3
<1>7. ASSUME NEW lits \in [Litlen -> Nat], NEW dists \in [DistSym -> Nat]
      PROVE  /\ huffman_block_body_len(F2, lits, dist_freqs, dists)
                  = SumFunctionOnSet(BlockBits(lits, dists, block'), 1 .. Len(block'))
             /\ huffman_block_body_len(F2, lits, dist_freqs, dists) \in Nat
  <2>1. huffman_block_body_len(F2, lits, dist_freqs, dists) = Total(BlockBits(lits, dists, block'))
    <3>1. Collected(block, block_len_bytes, litlen_freqs, dist_freqs)  BY <1>1
    <3>2. huffman_block_body_len(F2, lits, dist_freqs, dists)
            = Total(BlockBits(lits, dists, Append(block, EOB)))
      <4> HIDE DEF F2
      <4>1. QED  BY ONLY <1>3, <3>1, BodyLen, SMTT(60)
    <3>3. block' = Append(block, EOB)  BY <1>1
    <3>4. QED  BY ONLY <3>2, <3>3, Zenon
  <2>2. BlockBits(lits, dists, block') \in [1 .. Len(block') -> Nat]
    <3>1. block' \in Seq(Token \cup {EOB})  BY <1>1, <1>2
    <3>2. QED  BY <3>1, BlockBitsNat
  <2>3. IsFiniteSet(1 .. Len(block'))  BY <1>1, <1>2, FS_Interval
  <2>4. Total(BlockBits(lits, dists, block')) \in Nat  BY <2>2, <2>3, TotalNat
  <2>5. QED  BY <2>1, <2>2, <2>4 DEF Total
<1>8. bitpos \in Nat /\ round_up(bitpos + 3, 8) \in Nat /\ bitpos + 3 <= round_up(bitpos + 3, 8)
  <2>1. bitpos \in Nat /\ bitpos + 3 \in Nat  BY DEF Inv, TypeOK, bitpos_end
  <2>2. QED  BY <2>1, RoundUp
<1> DEFINE static_len == 3 + huffman_block_body_len(F2, fixed_litlen_lengths, dist_freqs, fixed_dist_lengths)
           dynamic_len == hdr + huffman_block_body_len(F2, dyn_litlen, dist_freqs, dyn_dist)
<1>9. static_len \in Nat /\ dynamic_len \in Nat
  <2>1. huffman_block_body_len(F2, fixed_litlen_lengths, dist_freqs, fixed_dist_lengths) \in Nat
    BY <1>6, <1>7
  <2>2. huffman_block_body_len(F2, dyn_litlen, dist_freqs, dyn_dist) \in Nat
    BY <1>6, <1>7
  <2>3. QED  BY <2>1, <2>2, <1>6
<1>10. uncomp_block_len \in Nat /\ bitpos + uncomp_block_len = StoredEnd'
  <2>1. StoredEnd' = round_up(bitpos + 3, 8) + 2 * 16 + 8 * block_len_bytes
    BY <1>1 DEF StoredEnd
  <2>2. PICK r \in Nat : r = round_up(bitpos + 3, 8) /\ bitpos + 3 <= r  BY <1>8
  <2>3. uncomp_block_len = 3 + (r - (bitpos + 3)) + 2 * 16 + block_len_bytes * 8
    BY <2>2 DEF uncomp_block_len
  <2>4. StoredEnd' = r + 2 * 16 + 8 * block_len_bytes  BY <2>1, <2>2
  <2>5. bitpos \in Nat /\ block_len_bytes \in Nat  BY <1>2, <1>8
  <2>6. QED  BY <2>2, <2>3, <2>4, <2>5
<1>11. /\ kind' = Kind(uncomp_block_len, static_len, dynamic_len)
       /\ kind' = "stored" => computed' = uncomp_block_len
       /\ kind' = "static" => computed' = static_len
       /\ kind' = "dynamic" => computed' = dynamic_len
  BY <1>5
<1>12. /\ kind' \in {"stored", "static", "dynamic"} /\ computed' \in Nat
       /\ computed' <= uncomp_block_len
  <2> HIDE DEF static_len, dynamic_len
  <2>1. QED  BY <1>9, <1>10, <1>11 DEF Kind
<1>13. /\ kind' = "dynamic" => header' = hdr /\ litlen_lens' = dyn_litlen /\ dist_lens' = dyn_dist
       /\ kind' # "dynamic" => header' = 3 /\ litlen_lens' = fixed_litlen_lengths
                                           /\ dist_lens' = fixed_dist_lengths
  BY <1>5
<1>14. kind' # "stored" => computed' = header' + SumFunctionOnSet(Bits', 1 .. Len(block'))
  <2>1. CASE kind' = "static"
    <3>1. Bits' = BlockBits(fixed_litlen_lengths, fixed_dist_lengths, block')
      BY <1>13, <2>1 DEF Bits
    <3>2. QED  BY <3>1, <2>1, <1>6, <1>7, <1>11, <1>13
  <2>2. CASE kind' = "dynamic"
    <3>1. Bits' = BlockBits(dyn_litlen, dyn_dist, block')
      BY <1>13, <2>2 DEF Bits
    <3>2. QED  BY <3>1, <2>2, <1>6, <1>7, <1>11, <1>13
  <2>3. QED  BY <2>1, <2>2, <1>12
<1>15. TypeOK'
  <2>1. header' \in Nat /\ litlen_lens' \in [Litlen -> Nat] /\ dist_lens' \in [DistSym -> Nat]
    BY <1>6, <1>12, <1>13
  <2>2. block' \in Seq(Token \cup {EOB})  BY <1>1, <1>2
  <2>3. QED
    BY <1>1, <1>4, <1>8, <1>12, <2>1, <2>2 DEF Inv, TypeOK, args, matcher, returned, bitpos_end
<1>16. BlockInv'
  <2>1. Len(block') = Len(block) + 1  BY <1>1, <1>2
  <2>2. Total(F2) = Len(block')  BY <1>1, <1>3, <1>6, <2>1, BodyLen
  <2>3. QED  BY <1>1, <1>2, <2>1, <2>2 DEF BlockInv, Collecting
<1>17. PendingInv'
  BY <1>1 DEF Inv, PendingInv
<1>18. MeasureInv'
  <2>1. kind' = "stored" => header' = 3 /\ old_bit_pos' + computed' = StoredEnd'
    BY <1>1, <1>10, <1>11, <1>13
  <2>2. old_bit_pos' + computed' <= StoredEnd'
    BY <1>1, <1>8, <1>10, <1>12
  <2>3. result' # "false" /\ result' # "true"
    BY <1>1 DEF Inv, MeasureInv, returned
  <2>4. QED  BY <1>1, <1>14, <2>1, <2>2, <2>3 DEF MeasureInv, Collecting
<1>19. QED  BY <1>15, <1>16, <1>17, <1>18 DEF Inv

-----------------------------------------------------------------------------
(* The steps that write: what has been written so far, and what is left.   *)
LEMMA BitsFacts ==
  ASSUME Inv, ~ Collecting
  PROVE  /\ Len(block) \in Nat \ {0} /\ Bits \in [1 .. Len(block) -> Nat]
         /\ \A x \in 1 .. Len(block) : Bits[x] = SymbolBits(block[x])
         /\ \A x \in 1 .. Len(block) :
              /\ SumFunctionOnSet(Bits, 1 .. x) = SumFunctionOnSet(Bits, 1 .. x - 1) + SymbolBits(block[x])
              /\ SumFunctionOnSet(Bits, 1 .. x) <= SumFunctionOnSet(Bits, 1 .. Len(block))
              /\ SumFunctionOnSet(Bits, 1 .. x - 1) \in Nat /\ SymbolBits(block[x]) \in Nat
         /\ SumFunctionOnSet(Bits, 1 .. Len(block)) \in Nat
<1>1. Len(block) \in Nat \ {0} /\ block \in Seq(Token \cup {EOB})
  <2>1. PICK tokens \in Seq(Token) : block = Append(tokens, EOB)  BY DEF Inv, BlockInv
  <2>2. QED  BY <2>1
<1>2. Bits \in [1 .. Len(block) -> Nat]
  BY <1>1, BlockBitsNat DEF Bits, Inv, TypeOK
<1>3. \A x \in 1 .. Len(block) : Bits[x] = SymbolBits(block[x])
  BY DEF Bits, BlockBits, BitsWith, SymbolBits
<1> DEFINE B == Bits
           z == Len(block)
<1>4. z \in Nat \ {0} /\ B \in [1 .. z -> Nat]  BY <1>1, <1>2
<1> HIDE DEF B, z
<1>5. ASSUME NEW x \in 1 .. z
      PROVE  /\ SumFunctionOnSet(B, 1 .. x) = SumFunctionOnSet(B, 1 .. x - 1) + B[x]
             /\ SumFunctionOnSet(B, 1 .. x) <= SumFunctionOnSet(B, 1 .. z)
             /\ SumFunctionOnSet(B, 1 .. x - 1) \in Nat /\ B[x] \in Nat
  <2>1. x \in Nat \ {0} /\ \A y \in 1 .. x : B[y] \in Nat /\ B[y] \in Int  BY <1>4
  <2>2. SumFunctionOnSet(B, 1 .. x) = SumFunctionOnSet(B, 1 .. x - 1) + B[x]
    BY <2>1, SumPrefix
  <2>3. SumFunctionOnSet(B, 1 .. x) <= SumFunctionOnSet(B, 1 .. z)
    <3> DEFINE T == 1 .. x
               S == 1 .. z
    <3>0. IsFiniteSet(S)  BY <1>4, FS_Interval
    <3>1. T \subseteq S /\ \A y \in S : B[y] \in Nat  BY <1>4
    <3> HIDE DEF T, S
    <3>2. SumFunctionOnSet(B, T) <= SumFunctionOnSet(B, S)  BY <3>0, <3>1, SumOfPart
    <3>3. QED  BY <3>2 DEF T, S
  <2>4. SumFunctionOnSet(B, 1 .. x - 1) \in Nat
    <3> DEFINE T == 1 .. x - 1
    <3>1. IsFiniteSet(T) /\ \A y \in T : B[y] \in Nat  BY <2>1, FS_Interval
    <3> HIDE DEF T
    <3>2. SumFunctionOnSet(B, T) \in Nat  BY <3>1, SumNat
    <3>3. QED  BY <3>2 DEF T
  <2>5. QED  BY <2>1, <2>2, <2>3, <2>4
<1>6. SumFunctionOnSet(B, 1 .. z) \in Nat
  <2> DEFINE T == 1 .. z
  <2>0. IsFiniteSet(T)  BY <1>4, FS_Interval
  <2>1. \A y \in T : B[y] \in Nat  BY <1>4
  <2> HIDE DEF T
  <2>2. SumFunctionOnSet(B, T) \in Nat  BY <2>0, <2>1, SumNat
  <2>3. QED  BY <2>2 DEF T
<1>7. QED  BY <1>1, <1>2, <1>3, <1>5, <1>6 DEF B, z

(* What no writing step changes.                                           *)
Kept == UNCHANGED <<args, state, call, final, choice>>

LEMMA KeptInv ==
  ASSUME Inv, ~ Collecting, pc # "done", Kept, ~ Collecting',
         pc' \in {"header", "len_nlen", "bytes", "symbols", "written", "done"},
         bitpos' \in 0 .. bitpos_end, k' \in Nat, dst_used' \in Nat,
         result' \in {"none", "true", "false"}, UNCHANGED matcher
  PROVE  /\ TypeOK' /\ BlockInv' /\ PendingInv'
         /\ Bits' = Bits /\ StoredEnd' = StoredEnd /\ bitpos_end' = bitpos_end
<1>1. TypeOK'
  BY DEF Inv, TypeOK, Kept, args, matcher, state, choice, bitpos_end
<1>2. BlockInv'
  BY DEF Inv, BlockInv, Kept, state
<1>3. PendingInv'
  BY DEF Inv, PendingInv, Kept, Collecting
<1>4. Bits' = Bits /\ StoredEnd' = StoredEnd /\ bitpos_end' = bitpos_end
  BY DEF Bits, StoredEnd, bitpos_end, Kept, choice, state, args
<1>5. QED  BY <1>1, <1>2, <1>3, <1>4

(* The room a write finds.                                                 *)
LEMMA Room ==
  ASSUME Inv
  PROVE  /\ Left(bitpos) = bitpos_end - bitpos
         /\ Left(round_up(bitpos, 8)) = bitpos_end - round_up(bitpos, 8)
<1>1. dst_cap \in Nat /\ bitpos_end < SIZE_RANGE /\ bitpos \in 0 .. bitpos_end
  BY DEF Inv, TypeOK
<1>2. QED  BY <1>1, LeftIs, LeftAligned

LEMMA WriteHeaderStep ==
  ASSUME Inv, WriteHeader  PROVE Inv'
<1>1. /\ pc = "header" /\ ~ Collecting /\ bitpos_end - bitpos >= header /\ bitpos' = bitpos + header
      /\ pc' = IF kind = "stored" THEN "len_nlen" ELSE "symbols"
      /\ Kept /\ UNCHANGED <<matcher, k, returned>>
  BY Room DEF WriteHeader, ostream_write, Collecting, Kept
<1>2. /\ bitpos \in Nat /\ header \in Nat /\ dst_cap \in Nat /\ old_bit_pos \in Nat /\ k = 1
      /\ bitpos = old_bit_pos /\ k \in Nat /\ dst_used \in Nat /\ result \in {"none", "true", "false"}
  BY <1>1 DEF Inv, TypeOK, MeasureInv, bitpos_end
<1>3. bitpos' \in 0 .. bitpos_end
  BY <1>1, <1>2 DEF bitpos_end
<1>4. ~ Collecting'  BY <1>1 DEF Collecting
<1>5. TypeOK' /\ BlockInv' /\ PendingInv' /\ Bits' = Bits /\ StoredEnd' = StoredEnd /\ bitpos_end' = bitpos_end
  BY <1>1, <1>2, <1>3, <1>4, KeptInv DEF returned
<1>6. MeasureInv'
  <2>1. SumFunctionOnSet(Bits, 1 .. 1 - 1) = 0
    <3>1. 1 .. 1 - 1 = {}  OBVIOUS
    <3>2. QED  BY <3>1, SumEmpty
  <2>2. 1 \in 1 .. Len(block)  BY <1>1, BitsFacts
  <2>3. /\ old_bit_pos + computed <= StoredEnd
        /\ kind = "stored" => header = 3 /\ old_bit_pos + computed = StoredEnd
        /\ kind # "stored" => computed = header + SumFunctionOnSet(Bits, 1 .. Len(block))
        /\ result # "false" /\ result # "true"
    BY <1>1 DEF Inv, MeasureInv
  <2>4. QED
    BY <1>1, <1>2, <1>5, <2>1, <2>2, <2>3 DEF MeasureInv, Kept, choice, state, returned
<1>7. QED  BY <1>5, <1>6 DEF Inv

LEMMA Unreturned ==
  ASSUME Inv, pc # "done", ~ Collecting
  PROVE  /\ result # "false" /\ result # "true"
         /\ bitpos \in Nat /\ dst_cap \in Nat /\ old_bit_pos \in Nat /\ k \in Nat /\ dst_used \in Nat
         /\ header \in Nat /\ computed \in Nat /\ block_len_bytes \in Nat
         /\ result \in {"none", "true", "false"}
         /\ old_bit_pos + computed <= StoredEnd
         /\ kind = "stored" => header = 3 /\ old_bit_pos + computed = StoredEnd
         /\ kind # "stored" => computed = header + SumFunctionOnSet(Bits, 1 .. Len(block))
BY DEF Inv, MeasureInv, TypeOK, bitpos_end

LEMMA WriteLenNlenStep ==
  ASSUME Inv, WriteLenNlen  PROVE Inv'
<1>1. /\ pc = "len_nlen" /\ ~ Collecting /\ bitpos_end - round_up(bitpos, 8) >= 8 * 4
      /\ bitpos' = round_up(bitpos, 8) + 8 * 4 /\ pc' = "bytes"
      /\ Kept /\ UNCHANGED <<matcher, k, returned>>
  BY Room DEF WriteLenNlen, ostream_write_bytes_aligned, AlignedRoom, Collecting, Kept
<1>2. kind = "stored" /\ bitpos = old_bit_pos + 3
  BY <1>1 DEF Inv, MeasureInv
<1>3. round_up(bitpos, 8) \in Nat  BY <1>1, RoundUp, Unreturned
<1>4. bitpos' \in 0 .. bitpos_end
  BY <1>1, <1>3, Unreturned DEF bitpos_end
<1>5. ~ Collecting'  BY <1>1 DEF Collecting
<1>6. TypeOK' /\ BlockInv' /\ PendingInv' /\ Bits' = Bits /\ StoredEnd' = StoredEnd /\ bitpos_end' = bitpos_end
  BY <1>1, <1>4, <1>5, KeptInv, Unreturned DEF returned
<1>7. MeasureInv'
  BY <1>1, <1>2, <1>6, Unreturned DEF MeasureInv, Kept, choice, state, returned
<1>8. QED  BY <1>6, <1>7 DEF Inv

LEMMA WriteStoredBytesStep ==
  ASSUME Inv, WriteStoredBytes  PROVE Inv'
<1>1. /\ pc = "bytes" /\ ~ Collecting /\ bitpos_end - round_up(bitpos, 8) >= 8 * block_len_bytes
      /\ bitpos' = round_up(bitpos, 8) + 8 * block_len_bytes /\ pc' = "written"
      /\ Kept /\ UNCHANGED <<matcher, k, returned>>
  BY Room DEF WriteStoredBytes, ostream_write_bytes_aligned, AlignedRoom, Collecting, Kept, Emit
<1>2. kind = "stored" /\ bitpos = round_up(old_bit_pos + 3, 8) + 2 * 16
  BY <1>1 DEF Inv, MeasureInv
<1>3. PICK y \in Nat : round_up(old_bit_pos + 3, 8) = 8 * y
  <2>1. old_bit_pos + 3 \in Nat  BY <1>1, Unreturned
  <2>2. QED  BY <2>1, RoundUp
<1>4. round_up(bitpos, 8) = bitpos
  <2>1. bitpos = 8 * (y + 4) /\ y + 4 \in Nat  BY <1>2, <1>3
  <2>2. QED  BY <2>1, RoundUpTwice
<1>5. bitpos' \in 0 .. bitpos_end
  BY <1>1, <1>4, Unreturned DEF bitpos_end
<1>6. ~ Collecting'  BY <1>1 DEF Collecting
<1>7. TypeOK' /\ BlockInv' /\ PendingInv' /\ Bits' = Bits /\ StoredEnd' = StoredEnd /\ bitpos_end' = bitpos_end
  BY <1>1, <1>5, <1>6, KeptInv, Unreturned DEF returned
<1>8. bitpos' = old_bit_pos + computed
  BY <1>1, <1>2, <1>4, Unreturned DEF StoredEnd
<1>9. MeasureInv'
  BY <1>1, <1>2, <1>7, <1>8, Unreturned DEF MeasureInv, Kept, choice, state, returned
<1>10. QED  BY <1>7, <1>9 DEF Inv

LEMMA WriteSymbolStep ==
  ASSUME Inv, WriteSymbol  PROVE Inv'
<1>1. /\ pc = "symbols" /\ ~ Collecting /\ bitpos_end - bitpos >= SymbolBits(block[k])
      /\ bitpos' = bitpos + SymbolBits(block[k]) /\ k' = k + 1
      /\ IF k = Len(block) THEN pc' = "written" ELSE pc' = pc
      /\ Kept /\ UNCHANGED <<matcher, returned>>
  BY Room DEF WriteSymbol, ostream_write, Collecting, Kept, Emit
<1>2. /\ kind # "stored" /\ k \in 1 .. Len(block)
      /\ bitpos = old_bit_pos + header + SumFunctionOnSet(Bits, 1 .. k - 1)
  BY <1>1 DEF Inv, MeasureInv
<1>3. /\ SumFunctionOnSet(Bits, 1 .. k) = SumFunctionOnSet(Bits, 1 .. k - 1) + SymbolBits(block[k])
      /\ SumFunctionOnSet(Bits, 1 .. k - 1) \in Nat /\ SymbolBits(block[k]) \in Nat
      /\ Len(block) \in Nat
  BY <1>1, <1>2, BitsFacts
<1>z. /\ bitpos \in Nat /\ dst_cap \in Nat /\ old_bit_pos \in Nat /\ header \in Nat /\ k \in Nat
      /\ dst_used \in Nat /\ result \in {"none", "true", "false"}
      /\ computed = header + SumFunctionOnSet(Bits, 1 .. Len(block))
  BY <1>1, <1>2, Unreturned
<1> PICK b \in Nat : b = SymbolBits(block[k])  BY <1>3
<1> PICK before \in Nat : before = SumFunctionOnSet(Bits, 1 .. k - 1)  BY <1>3
<1>pos. bitpos' = bitpos + b /\ bitpos_end - bitpos >= b  BY <1>1
<1>q. SumFunctionOnSet(Bits, 1 .. k) = before + b /\ bitpos = old_bit_pos + header + before
  BY <1>2, <1>3
<1>4. bitpos' \in 0 .. bitpos_end
  BY <1>pos, <1>z DEF bitpos_end
<1>5. ~ Collecting'  BY <1>1 DEF Collecting
<1>k. k' \in Nat  BY <1>1, <1>z
<1>6. TypeOK' /\ BlockInv' /\ PendingInv' /\ Bits' = Bits /\ StoredEnd' = StoredEnd /\ bitpos_end' = bitpos_end
  BY <1>1, <1>4, <1>5, <1>k, <1>z, KeptInv DEF returned
<1>r. bitpos' = old_bit_pos + header + (before + b)
  BY <1>pos, <1>q, <1>z
<1>7. bitpos' = old_bit_pos + header + SumFunctionOnSet(Bits, 1 .. k)
  BY <1>q, <1>r
<1>8. MeasureInv'
  <2>1. CASE k = Len(block)
    <3>0. computed = header + (before + b)  BY <1>z, <1>q, <2>1
    <3>1. bitpos' = old_bit_pos + computed  BY <1>z, <1>r, <3>0
    <3>2. QED
      BY <1>1, <1>2, <1>6, <2>1, <3>1, Unreturned DEF MeasureInv, Kept, choice, state, returned
  <2>2. CASE k # Len(block)
    <3>1. k' \in 1 .. Len(block) /\ k' - 1 = k  BY <1>1, <1>2, <1>3, <2>2
    <3>2. QED
      BY <1>1, <1>2, <1>6, <1>7, <2>2, <3>1, Unreturned DEF MeasureInv, Kept, choice, state, returned
  <2>3. QED  BY <2>1, <2>2
<1>9. QED  BY <1>6, <1>8 DEF Inv

LEMMA NoneLeft ==
  \A pos, hdr, c, x, y, e \in Nat : c + y <= x /\ e - (pos + hdr + c) < y => pos + (hdr + x) > e
OBVIOUS

LEMMA NoRoomStep ==
  ASSUME Inv, NoRoom  PROVE Inv'
<1>1. /\ pc \in {"header", "symbols", "len_nlen", "bytes"} /\ ~ Collecting /\ pc # "done"
      /\ result' = "false" /\ pc' = "done" /\ Kept
      /\ UNCHANGED <<matcher, bitpos, k, dst_used>>
  BY DEF NoRoom, Collecting, Kept
<1>2. bitpos' \in 0 .. bitpos_end
  BY <1>1 DEF Inv, TypeOK
<1>3. ~ Collecting'  BY <1>1 DEF Collecting
<1>4. TypeOK' /\ BlockInv' /\ PendingInv' /\ Bits' = Bits /\ StoredEnd' = StoredEnd /\ bitpos_end' = bitpos_end
  BY <1>1, <1>2, <1>3, KeptInv, Unreturned
<1>5. old_bit_pos + computed > bitpos_end
  <2>0. PICK r \in Nat : r = round_up(old_bit_pos + 3, 8) /\ \E y \in Nat : r = 8 * y
    <3>1. old_bit_pos + 3 \in Nat  BY <1>1, Unreturned
    <3>2. QED  BY <3>1, RoundUp
  <2>1. CASE pc = "header" /\ Left(bitpos) < header
    <3>1. bitpos = old_bit_pos /\ bitpos_end - bitpos < header
      BY <2>1, Room DEF Inv, MeasureInv
    <3>2. header <= computed
      <4>1. CASE kind = "stored"
        <5>1. header = 3 /\ old_bit_pos + computed = r + 2 * 16 + 8 * block_len_bytes
          BY <1>1, <4>1, <2>0, Unreturned DEF StoredEnd
        <5>0. old_bit_pos + 3 \in Nat  BY <1>1, Unreturned
        <5>2. old_bit_pos + 3 \in Nat /\ old_bit_pos + 3 <= r
          BY <5>0, <2>0, RoundUp
        <5>3. QED  BY <5>1, <5>2, <1>1, Unreturned
      <4>2. CASE kind # "stored"  BY <1>1, <4>2, Unreturned, BitsFacts
      <4>3. QED  BY <4>1, <4>2
    <3>3. QED  BY <1>1, <2>1, <3>1, <3>2, Unreturned DEF bitpos_end
  <2>2. CASE pc = "symbols" /\ Left(bitpos) < SymbolBits(block[k])
    <3>1. /\ kind # "stored" /\ k \in 1 .. Len(block)
          /\ bitpos = old_bit_pos + header + SumFunctionOnSet(Bits, 1 .. k - 1)
      BY <2>2 DEF Inv, MeasureInv
    <3>2. /\ SumFunctionOnSet(Bits, 1 .. k) = SumFunctionOnSet(Bits, 1 .. k - 1) + SymbolBits(block[k])
          /\ SumFunctionOnSet(Bits, 1 .. k) <= SumFunctionOnSet(Bits, 1 .. Len(block))
          /\ SumFunctionOnSet(Bits, 1 .. k - 1) \in Nat /\ SymbolBits(block[k]) \in Nat
          /\ SumFunctionOnSet(Bits, 1 .. Len(block)) \in Nat
      BY <1>1, <3>1, BitsFacts
    <3>3. /\ dst_cap \in Nat /\ old_bit_pos \in Nat /\ header \in Nat
          /\ computed = header + SumFunctionOnSet(Bits, 1 .. Len(block))
      BY <1>1, <3>1, Unreturned
    <3> PICK b \in Nat : b = SymbolBits(block[k])  BY <3>2
    <3> PICK before \in Nat : before = SumFunctionOnSet(Bits, 1 .. k - 1)  BY <3>2
    <3> PICK all \in Nat : all = SumFunctionOnSet(Bits, 1 .. Len(block))  BY <3>2
    <3>4. /\ before + b <= all /\ bitpos = old_bit_pos + header + before
          /\ computed = header + all /\ bitpos_end - bitpos < b
      BY <2>2, <3>1, <3>2, <3>3, Room
    <3> PICK e \in Nat : e = bitpos_end  BY <3>3 DEF bitpos_end
    <3>5. e - (old_bit_pos + header + before) < b  BY <3>4
    <3>s. old_bit_pos \in Nat /\ header \in Nat  BY <3>3
    <3>t. before + b <= all  BY <3>4
    <3>6. old_bit_pos + (header + all) > e  BY <3>s, <3>t, <3>5, NoneLeft
    <3>7. QED  BY <3>4, <3>6
  <2>3. CASE pc = "len_nlen" /\ ~ AlignedRoom(4)
    <3>1. kind = "stored" /\ bitpos = old_bit_pos + 3  BY <2>3 DEF Inv, MeasureInv
    <3>2. ~ (bitpos_end - r >= 8 * 4)  BY <2>0, <2>3, <3>1, Room DEF AlignedRoom
    <3>3. old_bit_pos + computed = r + 2 * 16 + 8 * block_len_bytes
      BY <1>1, <3>1, <2>0, Unreturned DEF StoredEnd
    <3>4. QED  BY <1>1, <3>2, <3>3, Unreturned DEF bitpos_end
  <2>4. CASE pc = "bytes" /\ ~ AlignedRoom(block_len_bytes)
    <3>1. kind = "stored" /\ bitpos = r + 2 * 16  BY <2>0, <2>4 DEF Inv, MeasureInv
    <3>2. PICK y \in Nat : r = 8 * y  BY <2>0
    <3>3. round_up(bitpos, 8) = bitpos
      <4>1. bitpos = 8 * (y + 4) /\ y + 4 \in Nat  BY <3>1, <3>2
      <4>2. QED  BY <4>1, RoundUpTwice
    <3>4. ~ (bitpos_end - bitpos >= 8 * block_len_bytes)  BY <2>4, <3>3, Room DEF AlignedRoom
    <3>5. old_bit_pos + computed = r + 2 * 16 + 8 * block_len_bytes
      BY <1>1, <3>1, <2>0, Unreturned DEF StoredEnd
    <3>6. QED  BY <1>1, <3>1, <3>4, <3>5, Unreturned DEF bitpos_end
  <2>5. QED  BY <2>1, <2>2, <2>3, <2>4 DEF NoRoom
<1>6. MeasureInv'
  BY <1>1, <1>4, <1>5, Unreturned DEF MeasureInv, Kept, choice, state
<1>7. QED  BY <1>4, <1>6 DEF Inv

LEMMA ReturnStep ==
  ASSUME Inv, Return  PROVE Inv'
<1>1. /\ pc = "written" /\ ~ Collecting /\ result' = "true" /\ dst_used' = round_up(bitpos, 8) \div 8
      /\ pc' = "done" /\ Kept /\ UNCHANGED <<matcher, bitpos, k>>
  BY DEF Return, Collecting, Kept
<1>2. bitpos \in 0 .. bitpos_end /\ bitpos \in Nat /\ dst_cap \in Nat
  BY DEF Inv, TypeOK, bitpos_end
<1>3. dst_used' \in Nat /\ dst_used' <= dst_cap
  <2>1. PICK y \in Nat : round_up(bitpos, 8) = 8 * y  BY <1>2, RoundUp
  <2>2. round_up(bitpos, 8) <= 8 * dst_cap  BY <1>2, RoundUp DEF bitpos_end
  <2>3. (8 * y) \div 8 = y  OBVIOUS
  <2>4. QED  BY <1>1, <1>2, <2>1, <2>2, <2>3
<1>4. ~ Collecting'  BY <1>1 DEF Collecting
<1>5. TypeOK' /\ BlockInv' /\ PendingInv' /\ Bits' = Bits /\ StoredEnd' = StoredEnd /\ bitpos_end' = bitpos_end
  <2>1. bitpos' \in 0 .. bitpos_end /\ k' \in Nat /\ result' \in {"none", "true", "false"}
    BY <1>1, <1>2, Unreturned
  <2>2. QED  BY <1>1, <1>3, <1>4, <2>1, KeptInv
<1>6. MeasureInv'
  BY <1>1, <1>3, <1>5, Unreturned DEF MeasureInv, Kept, choice, state, args
<1>7. QED  BY <1>5, <1>6 DEF Inv
LEMMA StutterStep ==
  ASSUME Inv, UNCHANGED vars  PROVE Inv'
<1>1. UNCHANGED <<args, matcher, state, bitpos, pc, call, final, choice, k, returned>>
  BY DEF vars
<1>2. TypeOK'
  BY <1>1 DEF Inv, TypeOK, args, matcher, state, choice, returned, bitpos_end
<1>3. BlockInv' /\ PendingInv'
  BY <1>1 DEF Inv, BlockInv, PendingInv, Collecting, state
<1>4. MeasureInv'
  BY <1>1 DEF Inv, MeasureInv, Collecting, StoredEnd, Bits, bitpos_end, args, state, choice, returned
<1>5. QED  BY <1>2, <1>3, <1>4 DEF Inv

LEMMA NextInv == Inv /\ [Next]_vars => Inv'
BY CallbackStep, SourceEndsStep, WriteBlockStep, WriteHeaderStep, WriteLenNlenStep,
   WriteStoredBytesStep, WriteSymbolStep, NoRoomStep, NextBlockStep, ReturnStep, StutterStep
   DEF Next

LEMMA Invariant == Spec => []Inv
BY InitInv, NextInv, PTL DEF Spec

-----------------------------------------------------------------------------
(* Every variable keeps its type; above all no frequency wraps its 16      *)
(* bits, and no write leaves the destination (deflate.c:403, bitstream.h). *)
THEOREM TypeCorrect == Spec => []TypeOK
<1>1. Inv => TypeOK  BY DEF Inv
<1>2. QED  BY <1>1, Invariant, PTL

(* A block, with its end-of-block symbol, stays inside the array, the      *)
(* length of a stored block and the 16 bits of a frequency and of their    *)
(* sum (hwdeflate's callbacks, deflate.c:403).                             *)
THEOREM LimitsOfABlock == Spec => []BlockWithinLimits
<1>1. Inv => BlockWithinLimits
  <2> SUFFICES ASSUME Inv  PROVE BlockWithinLimits  OBVIOUS
  <2>1. /\ Total(litlen_freqs) = Len(block) /\ Len(block) \in Nat
        /\ Len(block) - 1 <= block_len_bytes
        /\ block_len_bytes <= MAX_BLOCK_LEN_BYTES /\ block_len_bytes \in Nat
    <3>1. block \in Seq(Token \cup {EOB}) /\ block_len_bytes \in Nat  BY DEF Inv, TypeOK
    <3>2. Len(block) \in Nat  BY <3>1
    <3>3. CASE Collecting
      <4>1. /\ Total(litlen_freqs) = Len(block) /\ Len(block) <= block_len_bytes
            /\ block_len_bytes <= MAX_BLOCK_LEN_BYTES
        BY <3>3 DEF Inv, BlockInv, Collected
      <4>2. QED  BY <3>1, <3>2, <4>1
    <3>4. CASE ~ Collecting
      BY <3>1, <3>2, <3>4 DEF Inv, BlockInv
    <3>5. QED  BY <3>3, <3>4
  <2>2. SumFunction(litlen_freqs) = Len(block)
    BY <2>1 DEF SumFunction, Total, SumFunctionOnSet
  <2>3. QED  BY <2>1, <2>2, Finite DEF BlockWithinLimits
<1>2. QED  BY <1>1, Invariant, PTL

(* The bits write_block measured are the bits it wrote, of every kind of   *)
(* block (the asserts at deflate.c:874, 879 and 888).                      *)
THEOREM Measured == Spec => []WrittenAsMeasured
<1>1. Inv => WrittenAsMeasured
  <2> SUFFICES ASSUME Inv, pc = "written"  PROVE bitpos - old_bit_pos = computed
    BY DEF WrittenAsMeasured
  <2>1. bitpos = old_bit_pos + computed /\ old_bit_pos \in Nat /\ computed \in Nat
    BY DEF Inv, MeasureInv, TypeOK
  <2>2. QED  BY <2>1
<1>2. QED  BY <1>1, Invariant, PTL

(* A failed write means the chosen block did not fit the destination, and  *)
(* a success reports no more bytes than the destination has (deflate.h:26). *)
THEOREM FailsWhenFull == Spec => []FailsOnlyWhenFull
<1>1. Inv => FailsOnlyWhenFull  BY DEF Inv, MeasureInv, FailsOnlyWhenFull
<1>2. QED  BY <1>1, Invariant, PTL

(* No block takes more bits than its bytes would take stored: write_block  *)
(* chooses the shortest of the three (deflate.c:850).                      *)
THEOREM NeverLonger == Spec => []NeverLongerThanStored
<1>1. Inv => NeverLongerThanStored
  <2> SUFFICES ASSUME Inv, pc = "written"
               PROVE  bitpos <= round_up(old_bit_pos + 3, 8) + 2 * 16 + 8 * block_len_bytes
    BY DEF NeverLongerThanStored
  <2>1. bitpos = old_bit_pos + computed /\ old_bit_pos + computed <= StoredEnd
    BY DEF Inv, MeasureInv, Collecting
  <2>2. QED  BY <2>1 DEF StoredEnd
<1>2. QED  BY <1>1, Invariant, PTL

-----------------------------------------------------------------------------
(* What the matcher's calls come to: the bytes of the first z of them.     *)
ByteCounts(c) == [x \in 1 .. Len(c) |-> Bytes(c[x])]
Upto(c, z) == SumFunctionOnSet(ByteCounts(c), 1 .. z)

(* Of the calls c the first b are in blocks already, and after them come   *)
(* these tokens, which stand for so many bytes from src on.                *)
Layout(c, b, tokens, src, bytes) ==
  /\ c \in Seq(Token) /\ tokens \in Seq(Token) /\ b \in Nat /\ b + Len(tokens) <= Len(c)
  /\ src \in Nat /\ bytes \in Nat
  /\ \A j \in 1 .. Len(tokens) : c[b + j] = tokens[j]
  /\ src = Upto(c, b) /\ src + bytes = Upto(c, b + Len(tokens))
  /\ bytes = Upto(tokens, Len(tokens))

Blocks == [final : BOOLEAN, tokens : Seq(Token), first : Nat, bytes : Nat]

Tokens == IF Collecting THEN block ELSE Front(block)
Base == IF pc = "written" THEN Stream!Written - Len(Tokens) ELSE Stream!Written
Pending == IF pc # "lz77" /\ ~ final THEN 1 ELSE 0

StreamInv ==
  /\ stream \in Seq(Blocks)
  /\ result = "none" <=> pc # "done"
  /\ pc = "lz77" => ~ final
  /\ covered = Upto(calls, Len(calls))
  /\ pc # "done" =>
       /\ Layout(calls, Base, Tokens, block_src, block_len_bytes)
       /\ Len(calls) = Base + Len(Tokens) + Pending
       /\ Pending = 1 => calls[Len(calls)] = call
       /\ final => covered = src_len
       /\ Stream!Ended <=> pc = "written" /\ final

-----------------------------------------------------------------------------
LEMMA UptoFacts ==
  ASSUME NEW c \in Seq(Token), NEW z \in 0 .. Len(c)
  PROVE  /\ Upto(c, z) \in Nat /\ Upto(c, 0) = 0
         /\ z # 0 => Upto(c, z) = Upto(c, z - 1) + Bytes(c[z])
<1> DEFINE m == Len(c)
           f == ByteCounts(c)
<1>1. m \in Nat /\ z \in 0 .. m /\ 0 \in 0 .. m  OBVIOUS
<1>2. \A x \in 1 .. m : f[x] \in Nat /\ f[x] = Bytes(c[x])
  <2>1. \A t \in Token : Bytes(t) \in Nat  BY TokenForm
  <2>2. \A x \in 1 .. m : c[x] \in Token  OBVIOUS
  <2>3. QED  BY <2>1, <2>2 DEF ByteCounts
<1> HIDE DEF m, f
<1>3. /\ SumFunctionOnSet(f, 1 .. z) \in Nat
      /\ z # 0 => SumFunctionOnSet(f, 1 .. z) = SumFunctionOnSet(f, 1 .. z - 1) + f[z]
  BY <1>1, <1>2, SumUpto
<1>4. SumFunctionOnSet(f, 1 .. 0) = 0  BY <1>1, <1>2, SumUpto
<1>5. z # 0 => z \in 1 .. m  BY <1>1
<1>6. QED  BY <1>2, <1>3, <1>4, <1>5 DEF Upto, f

LEMMA UptoAppend ==
  ASSUME NEW c \in Seq(Token), NEW t \in Token
  PROVE  /\ \A z \in 0 .. Len(c) : Upto(Append(c, t), z) = Upto(c, z)
         /\ Upto(Append(c, t), Len(c) + 1) = Upto(c, Len(c)) + Bytes(t)
<1> DEFINE d == Append(c, t)
<1>1. d \in Seq(Token) /\ Len(d) = Len(c) + 1 /\ Len(c) \in Nat /\ d[Len(c) + 1] = t
      /\ \A x \in 1 .. Len(c) : d[x] = c[x]
  OBVIOUS
<1> HIDE DEF d
<1>2. ASSUME NEW z \in 0 .. Len(c)  PROVE Upto(d, z) = Upto(c, z)
  <2>1. z \in Nat /\ \A x \in 1 .. z : ByteCounts(d)[x] = ByteCounts(c)[x]
    BY <1>1 DEF ByteCounts
  <2>2. QED  BY <2>1, SumSameUpto DEF Upto
<1>3. Len(c) + 1 \in 0 .. Len(d) /\ Len(c) + 1 # 0 /\ (Len(c) + 1) - 1 = Len(c)
      /\ Len(c) \in 0 .. Len(c)
  BY <1>1
<1>4. Upto(d, Len(c) + 1) = Upto(d, Len(c)) + Bytes(d[Len(c) + 1])
  BY <1>1, <1>3, UptoFacts
<1>5. QED  BY <1>1, <1>2, <1>3, <1>4 DEF d

LEMMA StreamSum ==
  ASSUME NEW f  PROVE Stream!SumFunction(f) = SumFunctionOnSet(f, DOMAIN f)
BY DEF Stream!SumFunction, Stream!SumFunctionOnSet, Stream!FoldFunctionOnSet, Stream!MapThenFoldSet,
       SumFunctionOnSet, FoldFunctionOnSet, MapThenFoldSet

LEMMA UptoSubSeq ==
  ASSUME NEW c \in Seq(Token), NEW z \in 0 .. Len(c)
  PROVE  /\ Stream!TotalBytes(SubSeq(c, 1, z)) = Upto(c, z)
         /\ Stream!TotalBytes(c) = Upto(c, Len(c))
<1>1. ASSUME NEW s \in Seq(Token), NEW m \in 0 .. Len(c), Len(s) = m, \A x \in 1 .. m : s[x] = c[x]
      PROVE  Stream!TotalBytes(s) = Upto(c, m)
  <2> DEFINE e == [x \in DOMAIN s |-> Bytes(s[x])]
             f == ByteCounts(c)
  <2>1. DOMAIN e = 1 .. m /\ m \in Nat /\ \A x \in 1 .. m : e[x] = f[x]
    BY <1>1 DEF ByteCounts
  <2>2. Stream!TotalBytes(s) = SumFunctionOnSet(e, DOMAIN e)
    BY StreamSum DEF Stream!TotalBytes
  <2> HIDE DEF e, f
  <2>3. SumFunctionOnSet(e, 1 .. m) = SumFunctionOnSet(f, 1 .. m)  BY <2>1, SumSameUpto
  <2>4. QED  BY <2>1, <2>2, <2>3 DEF Upto, f
<1>2. /\ SubSeq(c, 1, z) \in Seq(Token) /\ Len(SubSeq(c, 1, z)) = z
      /\ \A x \in 1 .. z : SubSeq(c, 1, z)[x] = c[x]
  OBVIOUS
<1>3. Stream!TotalBytes(SubSeq(c, 1, z)) = Upto(c, z)  BY <1>1, <1>2
<1>4. Stream!TotalBytes(c) = Upto(c, Len(c))
  <2>1. Len(c) \in 0 .. Len(c)  OBVIOUS
  <2>2. QED  BY <1>1, <2>1
<1>5. QED  BY <1>3, <1>4

-----------------------------------------------------------------------------
(* A block joins a stream of blocks.                                       *)
TokensIn(s) == SumFunctionOnSet([x \in 1 .. Len(s) |-> Len(s[x].tokens)], 1 .. Len(s))

LEMMA TokensInAppend ==
  ASSUME NEW s \in Seq(Blocks), NEW r \in Blocks
  PROVE  TokensIn(s) \in Nat /\ TokensIn(Append(s, r)) = TokensIn(s) + Len(r.tokens)
<1> DEFINE e == [x \in 1 .. Len(s) |-> Len(s[x].tokens)]
           q == Append(s, r)
           g == [x \in 1 .. Len(q) |-> Len(q[x].tokens)]
           m == Len(s)
<1>1. /\ m \in Nat /\ Len(q) = m + 1 /\ q[m + 1] = r /\ \A x \in 1 .. m : q[x] = s[x]
      /\ \A x \in 1 .. m : s[x] \in Blocks
  OBVIOUS
<1>2. \A b \in Blocks : Len(b.tokens) \in Nat
  <2>1. ASSUME NEW b \in Blocks  PROVE Len(b.tokens) \in Nat
    <3>1. b.tokens \in Seq(Token)  BY DEF Blocks
    <3>2. QED  BY <3>1
  <2>2. QED  BY <2>1
<1> HIDE DEF q
<1>3. /\ \A x \in 1 .. m : g[x] = e[x] /\ e[x] \in Nat
      /\ g[m + 1] = Len(r.tokens) /\ g[m + 1] \in Nat
  BY <1>1, <1>2
<1>4. Len(q) = m + 1 /\ TokensIn(s) = SumFunctionOnSet(e, 1 .. m)
      /\ TokensIn(q) = SumFunctionOnSet(g, 1 .. m + 1)
  BY <1>1 DEF TokensIn
<1> HIDE DEF e, g, m
<1>5. m + 1 \in Nat /\ m + 1 \in 0 .. m + 1 /\ (m + 1) - 1 = m /\ m + 1 # 0 /\ m \in 0 .. m
      /\ \A x \in 1 .. m + 1 : g[x] \in Nat
  BY <1>1, <1>3
<1>6. SumFunctionOnSet(g, 1 .. m + 1) = SumFunctionOnSet(g, 1 .. (m + 1) - 1) + g[m + 1]
  BY <1>5, SumUpto
<1>7. SumFunctionOnSet(g, 1 .. m) = SumFunctionOnSet(e, 1 .. m)  BY <1>1, <1>3, SumSameUpto
<1>8. SumFunctionOnSet(e, 1 .. m) \in Nat  BY <1>1, <1>3, <1>5, SumUpto
<1>9. QED  BY <1>3, <1>4, <1>5, <1>6, <1>7, <1>8 DEF q

LEMMA TokensInNat ==
  ASSUME stream \in Seq(Blocks)  PROVE TokensIn(stream) \in Nat
<1>1. [final |-> TRUE, tokens |-> <<>>, first |-> 0, bytes |-> 0] \in Blocks  BY DEF Blocks
<1>2. QED  BY <1>1, TokensInAppend

LEMMA WrittenIs ==
  ASSUME stream \in Seq(Blocks)  PROVE Stream!Written = TokensIn(stream)
<1>1. DOMAIN stream = 1 .. Len(stream)  OBVIOUS
<1>2. QED  BY <1>1, StreamSum DEF Stream!Written, TokensIn

-----------------------------------------------------------------------------
(* A call joins the tokens of the block, or waits for it to be written;    *)
(* the next block starts with the one that waited.                         *)
LEMMA LayoutCall ==
  ASSUME NEW c, NEW b, NEW tokens, NEW src, NEW bytes, Layout(c, b, tokens, src, bytes),
         NEW t \in Token
  PROVE  /\ Layout(Append(c, t), b, tokens, src, bytes)
         /\ Len(c) = b + Len(tokens) =>
              Layout(Append(c, t), b, Append(tokens, t), src, bytes + Bytes(t))
<1> DEFINE d == Append(c, t)
           m == Len(tokens)
<1>1. /\ c \in Seq(Token) /\ tokens \in Seq(Token) /\ b \in Nat /\ b + m <= Len(c)
      /\ src \in Nat /\ bytes \in Nat
      /\ src = Upto(c, b) /\ src + bytes = Upto(c, b + m)
      /\ bytes = Upto(tokens, m)
  BY DEF Layout
<1>2. \A j \in 1 .. m : c[b + j] = tokens[j]  BY DEF Layout
<1>3. /\ d \in Seq(Token) /\ Len(d) = Len(c) + 1 /\ Len(c) \in Nat /\ m \in Nat
      /\ \A x \in 1 .. Len(c) : d[x] = c[x]
      /\ d[Len(c) + 1] = t
  BY <1>1
<1>4. /\ \A z \in 0 .. Len(c) : Upto(d, z) = Upto(c, z)
      /\ Upto(d, Len(c) + 1) = Upto(c, Len(c)) + Bytes(t)
  BY <1>1, UptoAppend
<1>5. b \in 0 .. Len(c) /\ b + m \in 0 .. Len(c)  BY <1>1, <1>3
<1>b. Bytes(t) \in Nat  BY TokenForm
<1> HIDE DEF d
<1>6. Layout(d, b, tokens, src, bytes)
  <2>1. \A j \in 1 .. m : d[b + j] = tokens[j]
    <3>1. \A j \in 1 .. m : b + j \in 1 .. Len(c)  BY <1>1, <1>3
    <3>2. QED  BY <1>2, <1>3, <3>1
  <2>2. b + m <= Len(d)  BY <1>1, <1>3
  <2>3. src = Upto(d, b) /\ src + bytes = Upto(d, b + m)  BY <1>1, <1>4, <1>5
  <2>4. QED  BY <1>1, <1>3, <2>1, <2>2, <2>3 DEF Layout
<1>7. ASSUME Len(c) = b + m
      PROVE  Layout(d, b, Append(tokens, t), src, bytes + Bytes(t))
  <2> DEFINE u == Append(tokens, t)
  <2>1. /\ u \in Seq(Token) /\ Len(u) = m + 1 /\ u[m + 1] = t /\ \A x \in 1 .. m : u[x] = tokens[x]
    BY <1>1
  <2>2. Upto(u, m + 1) = bytes + Bytes(t)  BY <1>1, UptoAppend
  <2> HIDE DEF u
  <2>3. Upto(d, b + Len(u)) = src + (bytes + Bytes(t))
    <3>1. b + Len(u) = Len(c) + 1  BY <1>1, <1>3, <1>7, <2>1
    <3>2. Upto(d, Len(c) + 1) = (src + bytes) + Bytes(t)  BY <1>1, <1>4, <1>7
    <3>3. (src + bytes) + Bytes(t) = src + (bytes + Bytes(t))  BY <1>1, <1>b
    <3>4. QED  BY <3>1, <3>2, <3>3
  <2>4. \A j \in 1 .. Len(u) : d[b + j] = u[j]
    <3>1. ASSUME NEW j \in 1 .. m  PROVE d[b + j] = u[j]
      <4>1. b + j \in 1 .. Len(c)  BY <1>1, <1>3
      <4>2. QED  BY <4>1, <1>2, <1>3, <2>1
    <3>2. d[b + (m + 1)] = u[m + 1]
      <4>1. b + (m + 1) = Len(c) + 1  BY <1>1, <1>3, <1>7
      <4>2. QED  BY <4>1, <1>3, <2>1
    <3>3. \A j \in 1 .. Len(u) : j \in 1 .. m \/ j = m + 1  BY <2>1, <1>3
    <3>4. QED  BY <3>1, <3>2, <3>3
  <2>5. b + Len(u) <= Len(d)  BY <1>1, <1>3, <1>7, <2>1
  <2>6. bytes + Bytes(t) \in Nat  BY <1>1, <1>b
  <2>7. src = Upto(d, b)  BY <1>1, <1>4, <1>5
  <2>8. Layout(d, b, u, src, bytes + Bytes(t))
    BY <1>1, <1>3, <2>1, <2>2, <2>3, <2>4, <2>5, <2>6, <2>7 DEF Layout
  <2>9. QED  BY <2>8 DEF u
<1>8. QED  BY <1>6, <1>7 DEF d

LEMMA LayoutNext ==
  ASSUME NEW c, NEW b, NEW tokens, NEW src, NEW bytes, Layout(c, b, tokens, src, bytes),
         Len(c) = b + Len(tokens) + 1, NEW t \in Token, c[Len(c)] = t
  PROVE  Layout(c, b + Len(tokens), Append(<<>>, t), src + bytes, Bytes(t))
<1> DEFINE u == Append(<<>>, t)
           m == b + Len(tokens)
<1>1. /\ c \in Seq(Token) /\ tokens \in Seq(Token) /\ b \in Nat /\ src \in Nat /\ bytes \in Nat
      /\ src + bytes = Upto(c, m)
  BY DEF Layout
<1>2. m \in Nat /\ Len(c) = m + 1 /\ m + 1 \in 0 .. Len(c) /\ m + 1 # 0 /\ (m + 1) - 1 = m
  BY <1>1
<1>3. u \in Seq(Token) /\ Len(u) = 1 /\ u[1] = t /\ 1 \in 0 .. Len(u)  OBVIOUS
<1>b. Bytes(t) \in Nat  BY TokenForm
<1>4. Upto(u, Len(u)) = Bytes(t)
  <2>1. Upto(u, 1) = Upto(u, 1 - 1) + Bytes(u[1]) /\ Upto(u, 0) = 0
    <3> HIDE DEF u
    <3>1. QED  BY <1>3, UptoFacts
  <2>2. 1 - 1 = 0 /\ 0 + Bytes(t) = Bytes(t)  BY <1>b
  <2>3. QED  BY <2>1, <2>2, <1>3
<1> HIDE DEF u, m
<1>5. Upto(c, m + 1) = (src + bytes) + Bytes(t)
  <2>1. Upto(c, m + 1) = Upto(c, (m + 1) - 1) + Bytes(c[m + 1])  BY <1>1, <1>2, UptoFacts
  <2>2. QED  BY <2>1, <1>1, <1>2
<1>6. \A j \in 1 .. Len(u) : c[m + j] = u[j]  BY <1>2, <1>3
<1>7. src + bytes \in Nat /\ m + Len(u) = m + 1 /\ m + 1 <= Len(c)  BY <1>1, <1>2, <1>3
<1>8. QED
  BY <1>1, <1>2, <1>3, <1>b, <1>4, <1>5, <1>6, <1>7 DEF Layout, u, m

Rest(c, b) == SubSeq(c, b + 1, Len(c))
FirstOf(s, m) == SubSeq(s, 1, m)

LEMMA LayoutTaken ==
  ASSUME NEW c, NEW b, NEW tokens, NEW src, NEW bytes, Layout(c, b, tokens, src, bytes)
  PROVE  /\ FirstOf(Rest(c, b), Len(tokens)) = tokens
         /\ Len(Rest(c, b)) = Len(c) - b
         /\ Stream!TotalBytes(tokens) = bytes
         /\ Stream!TotalBytes(FirstOf(c, b)) = src
         /\ Stream!TotalBytes(c) = Upto(c, Len(c))
         /\ Len(c) \in Nat /\ Len(tokens) \in Nat /\ tokens \in Seq(Token) /\ src \in Nat /\ bytes \in Nat
<1> DEFINE m == Len(tokens)
           s == SubSeq(c, b + 1, Len(c))
           u == SubSeq(s, 1, m)
<1>1. /\ c \in Seq(Token) /\ tokens \in Seq(Token) /\ b \in Nat /\ b + m <= Len(c)
      /\ src \in Nat /\ bytes \in Nat /\ src = Upto(c, b) /\ bytes = Upto(tokens, m)
  BY DEF Layout
<1>2. \A j \in 1 .. m : c[b + j] = tokens[j]  BY DEF Layout
<1>3. Len(c) \in Nat /\ m \in Nat /\ b \in 0 .. Len(c) /\ m \in 0 .. m  BY <1>1
<1>4. s \in Seq(Token) /\ Len(s) = Len(c) - b /\ \A j \in 1 .. Len(c) - b : s[j] = c[b + j]
  <2>1. /\ s \in Seq(Token)
        /\ Len(s) = IF b + 1 <= Len(c) THEN Len(c) - (b + 1) + 1 ELSE 0
        /\ \A j \in 1 .. Len(c) - (b + 1) + 1 : s[j] = c[(b + 1) + j - 1]
    <3>1. b + 1 \in Int /\ Len(c) \in Int /\ \A x \in b + 1 .. Len(c) : c[x] \in Token
      BY <1>1, <1>3
    <3>2. QED  BY <3>1, SubSeqProperties
  <2>2. Len(s) = Len(c) - b  BY <2>1, <1>1, <1>3
  <2>3. \A j \in 1 .. Len(c) - b : (b + 1) + j - 1 = b + j /\ j \in 1 .. Len(c) - (b + 1) + 1
    BY <1>1, <1>3
  <2>4. QED  BY <2>1, <2>2, <2>3
<1> HIDE DEF s
<1>5. u \in Seq(Token) /\ Len(u) = m /\ \A j \in 1 .. m : u[j] = s[j]
  BY <1>1, <1>3, <1>4
<1>6. u = tokens
  <2> HIDE DEF u
  <2>1. \A j \in 1 .. m : u[j] = tokens[j]
    <3>1. \A j \in 1 .. m : j \in 1 .. Len(c) - b  BY <1>1, <1>3
    <3>2. QED  BY <3>1, <1>2, <1>4, <1>5
  <2>2. QED  BY <2>1, <1>1, <1>5
<1>7. Stream!TotalBytes(tokens) = bytes  BY <1>1, <1>3, UptoSubSeq
<1>8. Stream!TotalBytes(SubSeq(c, 1, b)) = src /\ Stream!TotalBytes(c) = Upto(c, Len(c))
  BY <1>1, <1>3, UptoSubSeq
<1>9. QED  BY <1>1, <1>3, <1>4, <1>6, <1>7, <1>8 DEF s, u, FirstOf, Rest

LEMMA FrontAppend ==
  ASSUME NEW S, NEW tokens \in Seq(S), NEW t  PROVE Front(Append(tokens, t)) = tokens
<1> DEFINE T == S \cup {t}
           s == Append(tokens, t)
           u == SubSeq(s, 1, Len(tokens))
<1>1. tokens \in Seq(T) /\ s \in Seq(T) /\ Len(s) = Len(tokens) + 1 /\ Len(tokens) \in Nat
      /\ \A j \in 1 .. Len(tokens) : s[j] = tokens[j]
  OBVIOUS
<1> HIDE DEF s, T
<1>2. u \in Seq(T) /\ Len(u) = Len(tokens) /\ \A j \in 1 .. Len(tokens) : u[j] = tokens[j]
  BY <1>1
<1>3. u = tokens
  <2> HIDE DEF u
  <2>1. QED  BY <1>1, <1>2
<1>4. Front(s) = u  BY <1>1 DEF Front
<1>5. QED  BY <1>3, <1>4 DEF s

-----------------------------------------------------------------------------
LEMMA StreamInit == Init => StreamInv /\ Stream!Init
<1> SUFFICES ASSUME Init  PROVE StreamInv /\ Stream!Init  OBVIOUS
<1>1. /\ stream = <<>> /\ calls = <<>> /\ block = <<>> /\ covered = 0 /\ block_src = 0
      /\ block_len_bytes = 0 /\ pc = "lz77" /\ final = FALSE /\ result = "none" /\ src_len \in Nat
  BY DeflateAssumption DEF Init
<1>2. <<>> \in Seq(Token) /\ <<>> \in Seq(Blocks) /\ Len(<<>>) = 0  OBVIOUS
<1>3. Upto(<<>>, 0) = 0
  <2> DEFINE c == <<>>
  <2>1. c \in Seq(Token) /\ 0 \in 0 .. Len(c)  OBVIOUS
  <2> HIDE DEF c
  <2>2. Upto(c, 0) = 0  BY <2>1, UptoFacts
  <2>3. QED  BY <2>2 DEF c
<1>4. TokensIn(<<>>) = 0
  <2>1. 1 .. Len(<<>>) = {}  OBVIOUS
  <2>2. QED  BY <2>1, SumEmpty DEF TokensIn
<1>5. Tokens = <<>> /\ Base = 0 /\ Pending = 0
  BY <1>1, <1>2, <1>4, WrittenIs DEF Tokens, Base, Pending, Collecting
<1>6. Layout(<<>>, 0, <<>>, 0, 0)
  BY <1>2, <1>3 DEF Layout
<1>7. ~ Stream!Ended  BY <1>1 DEF Stream!Ended
<1>8. StreamInv
  BY <1>1, <1>2, <1>3, <1>5, <1>6, <1>7 DEF StreamInv
<1>9. QED  BY <1>1, <1>8 DEF Stream!Init

LEMMA CallbackStream ==
  ASSUME Inv, StreamInv, NEW t \in Token, Callback(t)
  PROVE  StreamInv' /\ Stream!Call(t)
<1>1. /\ pc = "lz77" /\ covered + Bytes(t) <= src_len /\ covered' = covered + Bytes(t)
      /\ calls' = Append(calls, t) /\ UNCHANGED <<src_len, stream, result>>
      /\ Collecting /\ pc # "done" /\ pc # "written"
  BY DEF Callback, args, returned, Collecting
<1>2. /\ stream \in Seq(Blocks) /\ result = "none" /\ ~ final /\ covered = Upto(calls, Len(calls))
      /\ Layout(calls, Base, Tokens, block_src, block_len_bytes)
      /\ Len(calls) = Base + Len(Tokens) + Pending /\ ~ Stream!Ended
  BY <1>1 DEF StreamInv
<1>3. Tokens = block /\ Base = Stream!Written /\ Pending = 0
  BY <1>1 DEF Tokens, Base, Pending
<1>4. /\ Len(block) \in Nat /\ Stream!TotalBytes(calls) = covered /\ Len(calls) \in Nat
      /\ calls \in Seq(Token) /\ Stream!Written \in Nat
  <2>1. Layout(calls, Stream!Written, block, block_src, block_len_bytes)  BY <1>2, <1>3
  <2>2. /\ Stream!TotalBytes(calls) = Upto(calls, Len(calls)) /\ Len(calls) \in Nat
        /\ Len(block) \in Nat
    BY <2>1, LayoutTaken
  <2>3. calls \in Seq(Token) /\ Stream!Written \in Nat  BY <2>1 DEF Layout
  <2>4. QED  BY <2>2, <2>3, <1>2
<1>5. Len(calls) = Stream!Written + Len(block)  BY <1>2, <1>3, <1>4
<1>6. /\ Layout(calls', Stream!Written, block, block_src, block_len_bytes)
      /\ Layout(calls', Stream!Written, Append(block, t), block_src, block_len_bytes + Bytes(t))
  <2>1. Layout(calls, Stream!Written, block, block_src, block_len_bytes)  BY <1>2, <1>3
  <2>2. QED  BY <2>1, <1>1, <1>5, LayoutCall
<1>7. Stream!Call(t)
  BY <1>1, <1>2, <1>4 DEF Stream!Call
<1>8. Stream!Written' = Stream!Written /\ Stream!Ended' = Stream!Ended
  BY <1>1 DEF Stream!Written, Stream!Ended
<1>9. covered' = Upto(calls', Len(calls'))
  <2>1. Len(calls') = Len(calls) + 1  BY <1>1, <1>4
  <2>2. Upto(calls', Len(calls) + 1) = Upto(calls, Len(calls)) + Bytes(t)  BY <1>1, <1>4, UptoAppend
  <2>3. QED  BY <1>1, <1>2, <2>1, <2>2
<1>10. Len(calls') = Len(calls) + 1 /\ calls'[Len(calls')] = t
  BY <1>1, <1>4
<1>11. CASE BlockFull(t)
  <2>1. pc' = "block" /\ call' = t /\ final' = FALSE /\ UNCHANGED state  BY <1>11 DEF Callback
  <2>2. Tokens' = block /\ Base' = Stream!Written /\ Pending' = 1
    BY <2>1, <1>8 DEF Tokens, Base, Pending, Collecting, state
  <2>3. Len(calls') = Base' + Len(Tokens') + Pending'
    BY <2>2, <1>4, <1>5, <1>10
  <2>4. Layout(calls', Base', Tokens', block_src', block_len_bytes')
    BY <2>1, <2>2, <1>6 DEF state
  <2>5. StreamInv'
    BY <1>1, <1>2, <1>8, <1>9, <1>10, <2>1, <2>2, <2>3, <2>4 DEF StreamInv
  <2>6. QED  BY <1>7, <2>5
<1>12. CASE ~ BlockFull(t)
  <2>1. /\ block' = Append(block, t) /\ block_len_bytes' = block_len_bytes + Bytes(t)
        /\ UNCHANGED <<block_src, pc, call, final>>
    BY <1>12 DEF Callback, AddSymbol
  <2>2. Tokens' = Append(block, t) /\ Base' = Stream!Written /\ Pending' = 0
    BY <2>1, <1>1, <1>8 DEF Tokens, Base, Pending, Collecting
  <2>3. Len(calls') = Base' + Len(Tokens') + Pending'
    <3>1. Len(Append(block, t)) = Len(block) + 1  BY DEF Inv, TypeOK
    <3>2. QED  BY <3>1, <2>2, <1>4, <1>5, <1>10
  <2>4. Layout(calls', Base', Tokens', block_src', block_len_bytes')
    BY <2>1, <2>2, <1>6
  <2>5. StreamInv'
    BY <1>1, <1>2, <1>8, <1>9, <2>1, <2>2, <2>3, <2>4 DEF StreamInv
  <2>6. QED  BY <1>7, <2>5
<1>13. QED  BY <1>11, <1>12

(* A step that neither takes a call nor finishes a block.                  *)
LEMMA QuietStream ==
  ASSUME StreamInv, pc \notin {"done", "written"}, pc' \notin {"done", "written", "lz77"},
         UNCHANGED <<src_len, matcher, stream, block_src, block_len_bytes, call, result>>,
         Tokens' = Tokens, Pending' = Pending, final' => covered = src_len
  PROVE  StreamInv' /\ UNCHANGED Stream!vars
<1>1. Stream!Written' = Stream!Written /\ Stream!Ended' = Stream!Ended
  BY DEF Stream!Written, Stream!Ended
<1>2. Base' = Base /\ ~ Stream!Ended /\ calls' = calls /\ covered' = covered
  BY <1>1 DEF Base, StreamInv, matcher
<1>3. StreamInv'
  BY <1>1, <1>2 DEF StreamInv
<1>4. QED  BY <1>2, <1>3 DEF Stream!vars

(* A block is finished.                                                    *)
LEMMA EmitStream ==
  ASSUME Inv, StreamInv, Emit, pc \in {"bytes", "symbols"},
         UNCHANGED <<args, matcher, state, call, final, returned>>
  PROVE  StreamInv' /\ Stream!Next
<1>0. /\ pc # "done" /\ pc # "written" /\ pc # "lz77" /\ ~ Collecting /\ pc' = "written" /\ ~ Collecting'
  BY DEF Collecting, Emit
<1>1. /\ stream \in Seq(Blocks) /\ result = "none" /\ covered = Upto(calls, Len(calls))
      /\ Layout(calls, Base, Tokens, block_src, block_len_bytes)
      /\ Len(calls) = Base + Len(Tokens) + Pending /\ ~ Stream!Ended
      /\ Pending = 1 => calls[Len(calls)] = call
      /\ final => covered = src_len
  BY <1>0 DEF StreamInv
<1>2. Tokens = Front(block) /\ Base = Stream!Written /\ Pending = IF final THEN 0 ELSE 1
  BY <1>0 DEF Tokens, Base, Pending
<1> DEFINE W == Stream!Written
           r == [final |-> final, tokens |-> Tokens, first |-> block_src, bytes |-> block_len_bytes]
           m == Len(Tokens)
<1>3. Layout(calls, W, Tokens, block_src, block_len_bytes)  BY <1>1, <1>2
<1>4. /\ FirstOf(Rest(calls, W), m) = Tokens
      /\ Len(Rest(calls, W)) = Len(calls) - W
      /\ Stream!TotalBytes(Tokens) = block_len_bytes
      /\ Stream!TotalBytes(FirstOf(calls, W)) = block_src
      /\ Stream!TotalBytes(calls) = covered
      /\ m \in Nat /\ Tokens \in Seq(Token) /\ block_src \in Nat /\ block_len_bytes \in Nat
  <2> DEFINE b == Tokens
  <2>1. Layout(calls, W, b, block_src, block_len_bytes)  BY <1>3
  <2> HIDE DEF W, b
  <2>2. /\ FirstOf(Rest(calls, W), Len(b)) = b
        /\ Len(Rest(calls, W)) = Len(calls) - W
        /\ Stream!TotalBytes(b) = block_len_bytes
        /\ Stream!TotalBytes(FirstOf(calls, W)) = block_src
        /\ Stream!TotalBytes(calls) = Upto(calls, Len(calls))
        /\ Len(b) \in Nat /\ b \in Seq(Token) /\ block_src \in Nat /\ block_len_bytes \in Nat
    BY <2>1, LayoutTaken
  <2>3. QED  BY <2>2, <1>1 DEF b
<1>5. W \in Nat /\ Len(calls) \in Nat
  <2>1. W \in Nat /\ calls \in Seq(Token)  BY <1>3 DEF Layout
  <2>2. QED  BY <2>1
<1>t. (Len(calls) = W + m /\ final) \/ (Len(calls) = W + m + 1 /\ ~ final)
  <2>1. Len(calls) = W + m + Pending  BY <1>1, <1>2
  <2> HIDE DEF W, m
  <2>2. QED  BY <2>1, <1>2, <1>4, <1>5
<1>u. Len(Stream!Unwritten) = Len(calls) - W  BY <1>4 DEF Stream!Unwritten, Rest
<1>6. final \in BOOLEAN  BY DEF Inv, TypeOK
<1>7. block_len_bytes <= MAX_BLOCK_LEN_BYTES  BY <1>0 DEF Inv, BlockInv
<1>8. stream' = Append(stream, r)  BY <1>2 DEF Emit
<1>9. r \in Blocks  BY <1>4, <1>6 DEF Blocks
<1>10. Stream!Write(m, final)
  <2>1. final => m = Len(Stream!Unwritten)
    <3>0. m \in Nat  BY <1>4
    <3> HIDE DEF W, m
    <3>1. QED  BY <3>0, <1>t, <1>u, <1>5
  <2>2. UNCHANGED <<src_len, calls, result>>  BY DEF args, matcher, returned
  <2>3. final => Stream!TotalBytes(calls) = src_len  BY <1>1, <1>4
  <2> HIDE DEF W, m
  <2>4. SubSeq(Stream!Unwritten, 1, m) = Tokens
    BY <1>4 DEF Stream!Unwritten, W, FirstOf, Rest
  <2>5. Stream!TotalBytes(SubSeq(calls, 1, Stream!Written)) = block_src  BY <1>4 DEF W, FirstOf
  <2>6. QED  BY <1>1, <1>4, <1>7, <1>8, <2>1, <2>2, <2>3, <2>4, <2>5 DEF Stream!Write, r
<1>11. m \in 0 .. Len(Stream!Unwritten)
  <2>1. m \in Nat  BY <1>4
  <2> HIDE DEF W, m
  <2>2. QED  BY <2>1, <1>t, <1>u, <1>5
<1>12. Stream!Next  BY <1>6, <1>10, <1>11 DEF Stream!Next
<1>13. Stream!Written' = W + m /\ stream' \in Seq(Blocks)
  <2>1. stream' \in Seq(Blocks)  BY <1>1, <1>8, <1>9
  <2>2. Stream!Written' = TokensIn(stream')
    <3>1. (stream \in Seq(Blocks))' => (Stream!Written = TokensIn(stream))'
      <4>1. (DOMAIN stream = 1 .. Len(stream))'  BY <2>1
      <4>2. Stream!Written' = TokensIn(stream)'  BY <4>1, StreamSum DEF Stream!Written, TokensIn
      <4>3. QED  BY <4>2
    <3>2. QED  BY <2>1, <3>1 DEF TokensIn
  <2>3. TokensIn(stream') = TokensIn(stream) + Len(r.tokens)
    BY <1>1, <1>8, <1>9, TokensInAppend
  <2>4. QED  BY <1>1, <2>1, <2>2, <2>3, WrittenIs
<1>14. Tokens' = Tokens /\ Pending' = Pending
  BY <1>0, <1>2 DEF Tokens, Pending, state
<1>15. Base' = W
  <2>1. Base' = (W + m) - m  BY <1>0, <1>13, <1>14 DEF Base
  <2> HIDE DEF W, m
  <2>2. QED  BY <2>1, <1>4, <1>5
<1>16. Stream!Ended' <=> final
  <2>1. stream' # <<>> /\ stream'[Len(stream')] = r
    BY <1>1, <1>8, <1>9
  <2>2. QED  BY <2>1 DEF Stream!Ended, Stream!Last
<1>17. /\ calls' = calls /\ covered' = covered /\ block_src' = block_src
       /\ block_len_bytes' = block_len_bytes /\ call' = call /\ final' = final /\ result' = result
       /\ src_len' = src_len
  BY DEF args, matcher, state, returned
<1>18. StreamInv'
  BY <1>0, <1>1, <1>2, <1>3, <1>13, <1>14, <1>15, <1>16, <1>17 DEF StreamInv
<1>19. QED  BY <1>12, <1>18

LEMMA NextBlockStream ==
  ASSUME Inv, StreamInv, NextBlock
  PROVE  StreamInv' /\ UNCHANGED Stream!vars
<1>1. /\ pc = "written" /\ ~ final /\ pc' = "lz77" /\ final' = final /\ pc # "done" /\ ~ Collecting
      /\ block_src' = block_src + block_len_bytes
      /\ UNCHANGED <<src_len, calls, covered, stream, result>>
  BY DEF NextBlock, NextSrc, args, matcher, returned, Collecting
<1>2. call \in Token  BY <1>1 DEF Inv, PendingInv
<1>3. block' = Append(<<>>, call) /\ block_len_bytes' = Bytes(call)
  <2>1. block_len_bytes' = 0 + Bytes(call) /\ Bytes(call) \in Nat /\ block' = Append(<<>>, call)
    BY <1>2, TokenForm DEF NextBlock, reset_block, AddSymbol
  <2>2. QED  BY <2>1
<1>4. /\ Layout(calls, Base, Tokens, block_src, block_len_bytes)
      /\ Len(calls) = Base + Len(Tokens) + 1 /\ calls[Len(calls)] = call
      /\ stream \in Seq(Blocks) /\ result = "none" /\ covered = Upto(calls, Len(calls))
      /\ ~ Stream!Ended
  BY <1>1 DEF StreamInv, Pending
<1>5. Layout(calls, Base + Len(Tokens), Append(<<>>, call), block_src + block_len_bytes, Bytes(call))
  BY <1>2, <1>4, LayoutNext
<1>6. Base + Len(Tokens) = Stream!Written
  <2>1. Base = Stream!Written - Len(Tokens)  BY <1>1 DEF Base
  <2>2. Stream!Written \in Nat  BY <1>4, WrittenIs, TokensInNat
  <2>3. Len(Tokens) \in Nat  BY <1>4, LayoutTaken
  <2>4. QED  BY <2>1, <2>2, <2>3
<1>7. Stream!Written' = Stream!Written /\ Stream!Ended' = Stream!Ended
  BY <1>1 DEF Stream!Written, Stream!Ended
<1>8. Tokens' = Append(<<>>, call) /\ Base' = Stream!Written /\ Pending' = 0 /\ Len(Tokens') = 1
  BY <1>1, <1>3, <1>7 DEF Tokens, Base, Pending, Collecting
<1>9. Len(calls) = Base' + Len(Tokens') + Pending'
  <2>1. Stream!Written \in Nat  BY <1>4, WrittenIs, TokensInNat
  <2>2. QED  BY <2>1, <1>4, <1>6, <1>8
<1>10. StreamInv'
  BY <1>1, <1>3, <1>4, <1>5, <1>6, <1>7, <1>8, <1>9 DEF StreamInv
<1>11. QED  BY <1>1, <1>10 DEF Stream!vars

LEMMA ReturnStream ==
  ASSUME Inv, StreamInv, Return \/ NoRoom
  PROVE  StreamInv' /\ Stream!Next
<1>1. /\ pc' = "done" /\ pc # "done" /\ result' # "none" /\ pc # "lz77"
      /\ UNCHANGED <<src_len, calls, covered, stream, final>>
      /\ Return => pc = "written" /\ final /\ result' = "true"
      /\ NoRoom => pc # "written" /\ result' = "false"
  BY DEF Return, NoRoom, args, matcher
<1>2. stream \in Seq(Blocks) /\ result = "none" /\ covered = Upto(calls, Len(calls))
  BY <1>1 DEF StreamInv
<1>3. Stream!Ended <=> pc = "written" /\ final  BY <1>1 DEF StreamInv
<1>4. StreamInv'  BY <1>1, <1>2 DEF StreamInv
<1>5. Stream!Next
  BY <1>1, <1>2, <1>3 DEF Stream!Next, Stream!Return, Stream!NoRoom
<1>6. QED  BY <1>4, <1>5

(* The steps up to the last write of a block.                              *)
LEMMA WritingStream ==
  ASSUME Inv, StreamInv,
         SourceEnds \/ WriteBlock \/ WriteHeader \/ WriteLenNlen \/ WriteStoredBytes \/ WriteSymbol
  PROVE  StreamInv' /\ [Stream!Next]_(Stream!vars)
<1>1. CASE SourceEnds
  <2>1. /\ pc = "lz77" /\ pc' = "block" /\ covered = src_len
        /\ UNCHANGED <<src_len, matcher, stream, block_src, block_len_bytes, call, result, block>>
        /\ final'
    BY <1>1 DEF SourceEnds, args, matcher, state, returned
  <2>2. Tokens' = Tokens /\ Pending' = Pending
    BY <2>1 DEF Tokens, Pending, Collecting
  <2>3. QED  BY <2>1, <2>2, QuietStream
<1>2. CASE WriteBlock
  <2>1. /\ pc = "block" /\ pc' = "header" /\ block' = Append(block, EOB)
        /\ UNCHANGED <<src_len, matcher, stream, block_src, block_len_bytes, call, final, result>>
    BY <1>2 DEF WriteBlock, args, matcher, returned
  <2>2. block \in Seq(Token \cup {EOB})  BY DEF Inv, TypeOK
  <2>3. Front(block') = block  BY <2>1, <2>2, FrontAppend
  <2>4. Tokens' = Tokens /\ Pending' = Pending
    BY <2>1, <2>3 DEF Tokens, Pending, Collecting
  <2>5. final => covered = src_len  BY <2>1 DEF StreamInv
  <2>6. QED  BY <2>1, <2>4, <2>5, QuietStream
<1>3. CASE WriteHeader \/ WriteLenNlen \/ (WriteSymbol /\ k # Len(block))
  <2>1. /\ pc \in {"header", "len_nlen", "symbols"} /\ pc' \in {"len_nlen", "bytes", "symbols"}
        /\ UNCHANGED <<src_len, matcher, stream, block_src, block_len_bytes, call, final, result, block>>
    BY <1>3 DEF WriteHeader, WriteLenNlen, WriteSymbol, args, matcher, state, returned
  <2>2. Tokens' = Tokens /\ Pending' = Pending
    BY <2>1 DEF Tokens, Pending, Collecting
  <2>3. final => covered = src_len  BY <2>1 DEF StreamInv
  <2>4. QED  BY <2>1, <2>2, <2>3, QuietStream
<1>4. CASE WriteStoredBytes \/ (WriteSymbol /\ k = Len(block))
  <2>1. /\ Emit /\ pc \in {"bytes", "symbols"}
        /\ UNCHANGED <<args, matcher, state, call, final, returned>>
    BY <1>4 DEF WriteStoredBytes, WriteSymbol
  <2>2. QED  BY <2>1, EmitStream
<1>5. QED  BY <1>1, <1>2, <1>3, <1>4

LEMMA StutterStream ==
  ASSUME StreamInv, UNCHANGED vars
  PROVE  StreamInv' /\ UNCHANGED Stream!vars
<1>1. UNCHANGED <<src_len, covered, calls, stream, block, block_src, block_len_bytes, pc, call, final, result>>
  BY DEF vars, args, matcher, state, returned
<1>2. Stream!Written' = Stream!Written /\ Stream!Ended' = Stream!Ended
  BY <1>1 DEF Stream!Written, Stream!Ended
<1>3. Tokens' = Tokens /\ Base' = Base /\ Pending' = Pending
  BY <1>1, <1>2 DEF Tokens, Base, Pending, Collecting
<1>4. StreamInv'  BY <1>1, <1>2, <1>3 DEF StreamInv
<1>5. QED  BY <1>1, <1>4 DEF Stream!vars

LEMMA StreamNext == Inv /\ StreamInv /\ [Next]_vars => StreamInv' /\ [Stream!Next]_(Stream!vars)
<1> SUFFICES ASSUME Inv, StreamInv, [Next]_vars
             PROVE  StreamInv' /\ [Stream!Next]_(Stream!vars)
  OBVIOUS
<1>1. ASSUME NEW t \in Token, Callback(t)  PROVE StreamInv' /\ Stream!Next
  BY <1>1, CallbackStream DEF Stream!Next
<1>2. CASE NextBlock  BY <1>2, NextBlockStream
<1>3. CASE Return \/ NoRoom  BY <1>3, ReturnStream
<1>4. CASE SourceEnds \/ WriteBlock \/ WriteHeader \/ WriteLenNlen \/ WriteStoredBytes \/ WriteSymbol
  BY <1>4, WritingStream
<1>5. CASE UNCHANGED vars  BY <1>5, StutterStream
<1>6. QED  BY <1>1, <1>2, <1>3, <1>4, <1>5 DEF Next

(* hwdeflate implements the stream of blocks that deflate.h:26 promises:   *)
(* no call of the string matcher is lost, doubled or moved when a block    *)
(* fills up, a stored block copies the bytes its calls stand for, and only *)
(* the last block is final.                                                *)
THEOREM ImplementsStream == Spec => WritesStream
<1>1. Inv /\ StreamInv /\ [Next]_vars => StreamInv' /\ [Stream!Next]_(Stream!vars)
  BY StreamNext
<1>2. Spec => []Inv  BY Invariant
<1>3. Init => StreamInv /\ Stream!Init  BY StreamInit
<1>4. Spec => Stream!Init /\ [][Stream!Next]_(Stream!vars)
  BY <1>1, <1>2, <1>3, PTL DEF Spec
<1>5. QED  BY <1>4 DEF WritesStream, Stream!Spec
-----------------------------------------------------------------------------
(***************************************************************************)
(* Code lengths.  The trees that compute_huffman_lengths joins are seen as *)
(* two functions on their link elements, the root each leads to and how    *)
(* far that is (Links); the symbols below a root have its frequency and    *)
(* use up every bit pattern (Weighs); under the cap 1 the trees are so     *)
(* level that no codeword gets too long (Level); and no code of the        *)
(* symbols is cheaper than the trees under some code of their roots        *)
(* (Cheapest).  Each has a lemma for the symbols as trees of their own and *)
(* one for the two lowest trees being joined; then come the walk along the *)
(* links, the order of the heap, and the invariant that puts these         *)
(* together with the function's places.                                    *)
(***************************************************************************)
(* Numbers: an entry of the heap is a frequency above a link.              *)
LEMMA Parameters ==
  /\ n \in Nat \ {0} /\ UNIT \in Nat \ {0} /\ 2 * n < UNIT /\ UNINIT \notin Int
  /\ UNIT * UNIT \in Nat /\ \A m \in MaxLens : m \in Nat \ {0} /\ 2 ^ m >= n
BY LengthsAssumption DEF LengthsAssumption

LEMMA Division ==
  ASSUME NEW u \in Nat \ {0}, NEW f \in Nat, NEW t \in 0 .. u - 1
  PROVE  (f * u + t) \div u = f /\ (f * u + t) % u = t /\ f * u + t \in Nat
<1>1. f * u \in Nat /\ f * u + t \in Nat  OBVIOUS
<1> DEFINE x == f * u + t
           q == x \div u
           r == x % u
<1>2. x \in Nat /\ q \in Nat /\ r \in 0 .. u - 1 /\ x = u * q + r  BY <1>1
<1>3. x = u * f + t  OBVIOUS
<1> HIDE DEF x, q, r
<1>4. ASSUME q < f  PROVE FALSE
  <2>1. PICK c \in Nat : f = q + 1 + c
    <3>1. f - q - 1 \in Nat /\ f = q + 1 + (f - q - 1)  BY <1>2, <1>4
    <3>2. QED  BY <3>1
  <2>2. u * f = u * q + u + u * c /\ u * c \in Nat /\ u * q \in Nat  BY <1>2, <2>1
  <2>3. QED  BY <1>2, <1>3, <2>2
<1>5. ASSUME q > f  PROVE FALSE
  <2>1. PICK c \in Nat : q = f + 1 + c
    <3>1. q - f - 1 \in Nat /\ q = f + 1 + (q - f - 1)  BY <1>2, <1>5
    <3>2. QED  BY <3>1
  <2>2. u * q = u * f + u + u * c /\ u * c \in Nat /\ u * f \in Nat  BY <1>2, <2>1
  <2>3. QED  BY <1>2, <1>3, <2>2
<1>6. q = f  BY <1>2, <1>4, <1>5
<1>7. r = t
  <2>1. u * f \in Nat  OBVIOUS
  <2>2. QED  BY <1>2, <1>3, <1>6, <2>1
<1>8. QED  BY <1>1, <1>6, <1>7 DEF x, q, r

LEMMA EntryParts ==
  ASSUME NEW f \in 0 .. UNIT - 1, NEW t \in 0 .. UNIT - 1
  PROVE  /\ Freq(f * UNIT + t) = f /\ Link(f * UNIT + t) = t
         /\ f * UNIT + t \in 0 .. UNIT * UNIT - 1
<1>1. UNIT \in Nat \ {0}  BY Parameters
<1>2. f \in Nat /\ t \in 0 .. UNIT - 1  BY <1>1
<1>3. Freq(f * UNIT + t) = f /\ Link(f * UNIT + t) = t /\ f * UNIT + t \in Nat
  BY <1>1, <1>2, Division DEF Freq, Link
<1>4. f * UNIT + t < UNIT * UNIT
  <2>1. UNIT - 1 - f \in Nat  BY <1>1
  <2>2. (UNIT - 1 - f) * UNIT \in Nat  BY <1>1, <2>1
  <2>3. UNIT * UNIT = f * UNIT + (UNIT - 1 - f) * UNIT + UNIT  BY <1>1
  <2>4. f * UNIT \in Nat  BY <1>1, <1>2
  <2>5. QED  BY <1>1, <1>2, <2>2, <2>3, <2>4
<1>5. UNIT * UNIT \in Nat  BY <1>1
<1>6. QED  BY <1>3, <1>4, <1>5

LEMMA EntryForm ==
  ASSUME NEW e \in 0 .. UNIT * UNIT - 1
  PROVE  /\ Freq(e) \in 0 .. UNIT - 1 /\ Link(e) \in 0 .. UNIT - 1
         /\ e = Freq(e) * UNIT + Link(e)
<1>1. UNIT \in Nat \ {0} /\ UNIT * UNIT \in Nat  BY Parameters
<1>2. e \in Nat  BY <1>1
<1>3. Freq(e) \in Nat /\ Link(e) \in 0 .. UNIT - 1 /\ e = UNIT * Freq(e) + Link(e)
  BY <1>1, <1>2 DEF Freq, Link
<1>4. ASSUME Freq(e) >= UNIT  PROVE FALSE
  <2>1. PICK c \in Nat : Freq(e) = UNIT + c
    <3>1. Freq(e) - UNIT \in Nat /\ Freq(e) = UNIT + (Freq(e) - UNIT)  BY <1>1, <1>3, <1>4
    <3>2. QED  BY <3>1
  <2>2. UNIT * Freq(e) = UNIT * UNIT + UNIT * c /\ UNIT * c \in Nat  BY <1>1, <2>1
  <2>3. QED  BY <1>1, <1>3, <2>2
<1>5. QED  BY <1>1, <1>3, <1>4

LEMMA EntryOrder ==
  ASSUME NEW e \in 0 .. UNIT * UNIT - 1, NEW f \in 0 .. UNIT * UNIT - 1, e <= f
  PROVE  Freq(e) <= Freq(f)
<1>1. UNIT \in Nat \ {0} /\ UNIT * UNIT \in Nat  BY Parameters
<1> DEFINE a == Freq(e)
           b == Freq(f)
           s == Link(e)
           t == Link(f)
<1>2. /\ a \in Nat /\ b \in Nat /\ s \in 0 .. UNIT - 1 /\ t \in 0 .. UNIT - 1
      /\ e = a * UNIT + s /\ f = b * UNIT + t
  BY <1>1, EntryForm
<1> HIDE DEF a, b, s, t
<1>3. ASSUME a > b  PROVE FALSE
  <2>1. PICK c \in Nat : a = b + 1 + c
    <3>1. a - b - 1 \in Nat /\ a = b + 1 + (a - b - 1)  BY <1>2, <1>3
    <3>2. QED  BY <3>1
  <2>2. a * UNIT = b * UNIT + UNIT + c * UNIT /\ c * UNIT \in Nat /\ b * UNIT \in Nat
    BY <1>1, <1>2, <2>1
  <2>3. QED  BY <1>1, <1>2, <2>2
<1>4. QED  BY <1>2, <1>3 DEF a, b

(* Two frequencies added up above a link, when the sum fits.               *)
LEMMA JoinedEntry ==
  ASSUME NEW a \in Nat, NEW b \in Nat, a + b <= UNIT - 1
  PROVE  (a * UNIT + b * UNIT) % (UNIT * UNIT) = (a + b) * UNIT
<1>1. UNIT \in Nat \ {0} /\ UNIT * UNIT \in Nat /\ a + b \in 0 .. UNIT - 1 /\ 0 \in 0 .. UNIT - 1
  BY Parameters
<1>2. a * UNIT + b * UNIT = (a + b) * UNIT + 0 /\ (a + b) * UNIT + 0 = (a + b) * UNIT
  BY <1>1
<1>3. (a + b) * UNIT + 0 \in 0 .. UNIT * UNIT - 1  BY <1>1, EntryParts
<1>4. \A x, y \in Nat : x < y => x % y = x  OBVIOUS
<1>5. QED  BY <1>1, <1>2, <1>3, <1>4

-----------------------------------------------------------------------------
(* The used symbols have the ranks from 1 to their number.                 *)
M == Cardinality(Used)

LEMMA UsedSet ==
  /\ Used \subseteq 1 .. n /\ IsFiniteSet(Used) /\ M \in 0 .. n /\ n \in Nat
<1>1. IsFiniteSet(1 .. n) /\ Cardinality(1 .. n) = n
  <2>1. n \in Nat  BY Parameters
  <2>2. QED  BY <2>1, FS_Interval
<1>2. Used \subseteq 1 .. n  BY DEF Used, Symbols
<1>3. IsFiniteSet(Used) /\ Cardinality(Used) <= n /\ Cardinality(Used) \in Nat
  BY <1>1, <1>2, FS_Subset, FS_CardinalityType
<1>4. QED  BY <1>2, <1>3, Parameters DEF M

LEMMA Spaces ==
  /\ n \in Nat \ {0} /\ M \in Nat /\ M <= n /\ UNIT \in Nat /\ 2 * n < UNIT
  /\ UNIT - 1 \in Nat /\ UNIT * UNIT - 1 \in Nat
  /\ \A x \in 0 .. UNIT - 1 : x \in 0 .. UNIT * UNIT - 1
<1>1. n \in Nat \ {0} /\ M \in Nat /\ M <= n /\ UNIT \in Nat \ {0} /\ 2 * n < UNIT
  BY Parameters, UsedSet
<1>2. PICK c \in Nat : UNIT = c + 1
  <2>1. UNIT - 1 \in Nat /\ UNIT = (UNIT - 1) + 1  BY <1>1
  <2>2. QED  BY <2>1
<1>3. UNIT * UNIT = UNIT * c + UNIT /\ UNIT * c \in Nat  BY <1>1, <1>2
<1>4. UNIT * UNIT \in Nat /\ UNIT * UNIT >= UNIT  BY <1>1, <1>3
<1>5. UNIT - 1 \in Nat /\ UNIT * UNIT - 1 \in Nat  BY <1>1, <1>4
<1>6. \A x \in 0 .. UNIT - 1 : x \in 0 .. UNIT * UNIT - 1  BY <1>1, <1>4
<1>7. QED  BY <1>1, <1>5, <1>6

LEMMA RankGrows ==
  ASSUME NEW s \in Used
  PROVE  Rank(s) \in 1 .. M /\ \A t \in Used : s < t => Rank(s) < Rank(t)
<1> DEFINE A(x) == {y \in Used : y <= x}
<1>1. \A x : IsFiniteSet(A(x)) /\ Cardinality(A(x)) \in Nat /\ Cardinality(A(x)) <= M
  BY UsedSet, FS_Subset, FS_CardinalityType DEF M
<1>2. s \in A(s)  BY UsedSet
<1>3. Cardinality(A(s)) # 0  BY <1>1, <1>2, FS_EmptySet
<1>4. ASSUME NEW t \in Used, s < t  PROVE Cardinality(A(s)) < Cardinality(A(t))
  <2>0. s \in Nat /\ t \in Nat /\ \A y \in Used : y \in Nat  BY UsedSet
  <2>1. A(s) \subseteq A(t) /\ t \in A(t) /\ t \notin A(s)
    <3>1. \A y \in Used : y <= s => y <= t  BY <2>0, <1>4
    <3>2. t <= t /\ ~ (t <= s)  BY <2>0, <1>4
    <3>3. QED  BY <3>1, <3>2
  <2> DEFINE B == A(s)
             C == A(t)
  <2>2. B \subseteq C /\ B # C /\ IsFiniteSet(C) /\ Cardinality(B) \in Nat /\ Cardinality(C) \in Nat
    BY <1>1, <2>1
  <2> HIDE DEF B, C
  <2>3. Cardinality(B) <= Cardinality(C) /\ Cardinality(B) # Cardinality(C)
    BY <2>2, FS_Subset
  <2>4. Cardinality(B) < Cardinality(C)  BY <2>2, <2>3
  <2>5. QED  BY <2>4 DEF B, C
<1>5. M \in Nat  BY UsedSet
<1>6. QED  BY <1>1, <1>3, <1>4, <1>5 DEF Rank

LEMMA UsedAtRank ==
  /\ UsedAt = [x \in 1 .. M |-> UsedAt[x]]
  /\ \A x \in 1 .. M : UsedAt[x] \in Used /\ Rank(UsedAt[x]) = x
  /\ \A s \in Used : Rank(s) \in 1 .. M /\ UsedAt[Rank(s)] = s
<1> DEFINE Z == 1 .. M
           f == [s \in Used |-> Rank(s)]
<1>1. M \in Nat /\ \A s \in Used : s \in Nat  BY UsedSet
<1>2. \A s, t \in Used : s # t => Rank(s) # Rank(t)
  <2>1. ASSUME NEW s \in Used, NEW t \in Used, s < t  PROVE Rank(s) # Rank(t)
    <3>1. Rank(s) < Rank(t) /\ Rank(s) \in 1 .. M /\ Rank(t) \in 1 .. M  BY <2>1, RankGrows
    <3>2. QED  BY <3>1, <1>1
  <2>2. QED  BY <1>1, <2>1
<1>3. f \in Injection(Used, Z)
  <2>1. f \in [Used -> Z]  BY RankGrows
  <2>2. \A x, y \in Used : x # y => f[x] # f[y]  BY <1>2
  <2> HIDE DEF f, Z
  <2>3. QED  BY <2>1, <2>2 DEF Injection, IsInjective
<1>4. IsFiniteSet(Z) /\ Cardinality(Z) = M  BY <1>1, FS_Interval
<1>5. f \in Surjection(Used, Z)
  <2> HIDE DEF f, Z
  <2>1. QED  BY <1>3, <1>4, UsedSet, FS_Injection DEF M
<1>6. \A x \in Z : \E s \in Used : f[s] = x
  <2> HIDE DEF f, Z
  <2>1. QED  BY <1>5 DEF Surjection
<1>7. \A x \in 1 .. M : \E s \in Used : Rank(s) = x  BY <1>6
<1>8. UsedAt = [x \in 1 .. M |-> CHOOSE s \in Used : Rank(s) = x]  BY DEF UsedAt, M
<1> HIDE DEF Z, f
<1>9. \A x \in 1 .. M : UsedAt[x] \in Used /\ Rank(UsedAt[x]) = x  BY <1>7, <1>8
<1>10. \A s \in Used : Rank(s) \in 1 .. M  BY RankGrows
<1>11. QED  BY <1>2, <1>8, <1>9, <1>10

-----------------------------------------------------------------------------
(* The frequencies of the used symbols under the cap, in the symbols'      *)
(* order.  However many of them are added, the sum fits an entry.          *)
CapOf == [u \in 1 .. M |-> Capped(UsedAt[u])]
ArgumentsInv ==
  /\ freqs \in [Symbols -> 0 .. MaxFreq] /\ Sum(Symbols) <= UNIT - 1 /\ max_len \in MaxLens

LEMMA CapsFit ==
  ASSUME ArgumentsInv, freq_cap \in Nat
  PROVE  /\ CapOf \in [1 .. M -> 0 .. UNIT - 1]
         /\ \A B \in SUBSET (1 .. M) : SumFunctionOnSet(CapOf, B) \in 0 .. UNIT - 1
         /\ freq_cap = 1 => \A u \in 1 .. M : CapOf[u] = 1
<1> DEFINE Z == 1 .. M
           e == [u \in Z |-> freqs[UsedAt[u]]]
<1>1. MaxFreq \in Nat /\ UNIT \in Nat  BY LengthsAssumption DEF LengthsAssumption
<1>2. \A s \in Symbols : freqs[s] \in Nat  BY <1>1 DEF ArgumentsInv
<1>3. IsFiniteSet(Z)  BY UsedSet, FS_Interval
<1>4. \A u \in Z : UsedAt[u] \in Used /\ UsedAt[u] \in Symbols /\ freqs[UsedAt[u]] # 0
  BY UsedAtRank DEF Used
<1>5. \A u \in Z : CapOf[u] \in Nat /\ e[u] \in Nat /\ CapOf[u] <= e[u]
                   /\ (freq_cap = 1 => CapOf[u] = 1)
  <2>1. ASSUME NEW s \in Symbols, freqs[s] # 0
        PROVE  Capped(s) \in Nat /\ Capped(s) <= freqs[s] /\ (freq_cap = 1 => Capped(s) = 1)
    BY <1>2, <2>1 DEF Capped
  <2>2. QED  BY <1>2, <1>4, <2>1 DEF CapOf
<1>6. \A x, y \in Z : UsedAt[x] = UsedAt[y] => x = y  BY UsedAtRank
<1> DEFINE T == {UsedAt[u] : u \in Z}
<1>7. IsFiniteSet(Symbols)  BY Parameters, FS_Interval DEF Symbols
<1>8. T \subseteq Symbols /\ \A u \in Z : freqs[UsedAt[u]] \in Int /\ e[u] = freqs[UsedAt[u]]
  BY <1>2, <1>4
<1>9. SumFunctionOnSet(e, Z) = SumFunctionOnSet(freqs, T)
  <2> HIDE DEF e, Z
  <2>1. QED  BY <1>3, <1>6, <1>8, SumRenamed
<1>10. SumFunctionOnSet(freqs, T) <= SumFunctionOnSet(freqs, Symbols)
       /\ SumFunctionOnSet(freqs, Symbols) \in Nat /\ SumFunctionOnSet(freqs, T) \in Nat
  <2> HIDE DEF T
  <2>1. IsFiniteSet(T)  BY <1>7, <1>8, FS_Subset
  <2>2. SumFunctionOnSet(freqs, T) <= SumFunctionOnSet(freqs, Symbols)
    BY <1>2, <1>7, <1>8, SumOfPart
  <2>3. SumFunctionOnSet(freqs, T) \in Nat  BY <1>2, <1>8, <2>1, SumNat
  <2>4. SumFunctionOnSet(freqs, Symbols) \in Nat  BY <1>2, <1>7, SumNat
  <2>5. QED  BY <2>2, <2>3, <2>4
<1>11. SumFunctionOnSet(freqs, Symbols) <= UNIT - 1  BY DEF ArgumentsInv, Sum
<1> HIDE DEF e, Z, T
<1>12. SumFunctionOnSet(CapOf, Z) <= SumFunctionOnSet(e, Z)  BY <1>3, <1>5, SumMonotone
<1>13. SumFunctionOnSet(CapOf, Z) \in Nat  BY <1>3, <1>5, SumNat
<1>14. SumFunctionOnSet(CapOf, Z) <= UNIT - 1
  BY <1>1, <1>9, <1>10, <1>11, <1>12, <1>13
<1>15. ASSUME NEW B \in SUBSET Z  PROVE SumFunctionOnSet(CapOf, B) \in 0 .. UNIT - 1
  <2>1. IsFiniteSet(B)  BY <1>3, FS_Subset
  <2>2. SumFunctionOnSet(CapOf, B) \in Nat  BY <1>5, <2>1, SumNat
  <2>3. SumFunctionOnSet(CapOf, B) <= SumFunctionOnSet(CapOf, Z)  BY <1>3, <1>5, SumOfPart
  <2>4. QED  BY <1>1, <1>13, <1>14, <2>2, <2>3
<1>16. ASSUME NEW u \in Z  PROVE CapOf[u] \in 0 .. UNIT - 1
  <2>1. CapOf[u] <= SumFunctionOnSet(CapOf, Z)  BY <1>3, <1>5, SumAtLeast
  <2>2. QED  BY <1>1, <1>5, <1>13, <1>14, <2>1
<1>17. CapOf \in [Z -> 0 .. UNIT - 1]  BY <1>16 DEF CapOf, Z
<1>18. QED  BY <1>5, <1>15, <1>17 DEF Z

-----------------------------------------------------------------------------
(* The trees.  E are the entries of their roots, a the array, m the number *)
(* of used symbols; the link elements are those from top up and the        *)
(* symbols'.  r leads from each of them to the root of its tree and d is   *)
(* how far that is.                                                        *)
Live(top, m) == (top .. m) \cup (n + 1 .. n + m)

Links(a, E, top, m, r, d) ==
  /\ E \subseteq 0 .. UNIT * UNIT - 1
  /\ \A e \in E : Link(e) \in Live(top, m)
  /\ \A e, f \in E : Link(e) = Link(f) => e = f
  /\ \A t \in Live(top, m) :
       /\ \E e \in E : r[t] = Link(e)
       /\ d[t] \in Nat /\ d[t] + top <= m + 1
  /\ \A e \in E : r[Link(e)] = Link(e) /\ d[Link(e)] = 0
  /\ \A t \in Live(top, m) :
       (\A e \in E : Link(e) # t) =>
         a[t] \in top .. m /\ r[a[t]] = r[t] /\ d[t] = d[a[t]] + 1

(* The symbols of a tree: their frequencies make up the root's, and as     *)
(* codewords they would use up every bit pattern.                          *)
Below(m, r, e) == {u \in 1 .. m : r[n + u] = Link(e)}
Share(m, d) == [u \in 1 .. m |-> 2 ^ (n - d[n + u])]
Weighs(E, m, caps, r, d) ==
  \A e \in E :
    /\ Below(m, r, e) # {}
    /\ Freq(e) = SumFunctionOnSet(caps, Below(m, r, e))
    /\ SumFunctionOnSet(Share(m, d), Below(m, r, e)) = 2 ^ n

(* In the beginning every symbol is a tree.                                *)
LEMMA SymbolsAreTrees ==
  ASSUME NEW m \in 0 .. n, NEW caps \in [1 .. m -> 0 .. UNIT - 1], NEW a,
         \A x \in 1 .. m : a[x] = caps[x] * UNIT + (n + x)
  PROVE  LET E == {a[x] : x \in 1 .. m}
             r == [t \in Live(m + 1, m) |-> t]
             d == [t \in Live(m + 1, m) |-> 0]
         IN Links(a, E, m + 1, m, r, d) /\ Weighs(E, m, caps, r, d)
<1> DEFINE E == {a[x] : x \in 1 .. m}
           r == [t \in Live(m + 1, m) |-> t]
           d == [t \in Live(m + 1, m) |-> 0]
<1>1. n \in Nat \ {0} /\ 2 * n < UNIT /\ UNIT \in Nat /\ m \in Nat  BY Parameters
<1>2. Live(m + 1, m) = n + 1 .. n + m  BY <1>1 DEF Live
<1>3. ASSUME NEW x \in 1 .. m
      PROVE  a[x] \in 0 .. UNIT * UNIT - 1 /\ Freq(a[x]) = caps[x] /\ Link(a[x]) = n + x
             /\ n + x \in Live(m + 1, m)
  <2>1. n + x \in 0 .. UNIT - 1 /\ caps[x] \in 0 .. UNIT - 1 /\ n + x \in n + 1 .. n + m  BY <1>1
  <2>2. QED  BY <1>2, <2>1, EntryParts
<1>4. \A t \in Live(m + 1, m) : \E x \in 1 .. m : t = n + x
  <2>1. ASSUME NEW t \in n + 1 .. n + m  PROVE t - n \in 1 .. m /\ t = n + (t - n)  BY <1>1
  <2>2. QED  BY <1>2, <2>1
<1>5. \A x, y \in 1 .. m : n + x = n + y => x = y  BY <1>1
<1>6. \A t \in Live(m + 1, m) : r[t] = t /\ d[t] = 0 /\ 0 + (m + 1) <= m + 1  BY <1>1
<1> HIDE DEF r, d
<1>7. Links(a, E, m + 1, m, r, d)
  <2>1. \A e \in E : \E x \in 1 .. m : e = a[x]  OBVIOUS
  <2>2. \A x \in 1 .. m : a[x] \in E  OBVIOUS
  <2> HIDE DEF E
  <2>3. E \subseteq 0 .. UNIT * UNIT - 1 /\ \A e \in E : Link(e) \in Live(m + 1, m)
    BY <1>3, <2>1
  <2>4. \A e, f \in E : Link(e) = Link(f) => e = f  BY <1>3, <1>5, <2>1
  <2>5. \A t \in Live(m + 1, m) : \E e \in E : t = Link(e)  BY <1>3, <1>4, <2>2
  <2>6. QED  BY <1>6, <2>3, <2>4, <2>5 DEF Links
<1>8. Weighs(E, m, caps, r, d)
  <2>1. ASSUME NEW x \in 1 .. m  PROVE Below(m, r, a[x]) = {x}
    <3>1. \A u \in 1 .. m : n + u \in Live(m + 1, m) /\ r[n + u] = n + u
      BY <1>3, <1>6
    <3>2. \A u \in 1 .. m : r[n + u] = Link(a[x]) <=> u = x  BY <1>3, <1>5, <3>1
    <3>3. QED  BY <3>2 DEF Below
  <2>2. ASSUME NEW f, NEW x, f[x] \in Int  PROVE SumFunctionOnSet(f, {x}) = f[x]
    <3>1. SumFunctionOnSet(f, {} \cup {x}) = SumFunctionOnSet(f, {}) + f[x]
      BY FS_EmptySet, <2>2, SumOneMore
    <3>2. QED  BY <2>2, <3>1, SumEmpty
  <2>3. ASSUME NEW x \in 1 .. m  PROVE Share(m, d)[x] = 2 ^ n /\ 2 ^ n \in Int
    <3>1. d[n + x] = 0  BY <1>3, <1>6
    <3>2. n - d[n + x] = n  BY <1>1, <3>1
    <3>3. Share(m, d)[x] = 2 ^ n  BY <3>2 DEF Share
    <3>4. 2 ^ n \in Nat  BY <1>1, PowerPositive
    <3>5. QED  BY <3>3, <3>4
  <2>4. ASSUME NEW x \in 1 .. m
        PROVE  /\ Below(m, r, a[x]) # {}
               /\ Freq(a[x]) = SumFunctionOnSet(caps, Below(m, r, a[x]))
               /\ SumFunctionOnSet(Share(m, d), Below(m, r, a[x])) = 2 ^ n
    <3>1. caps[x] \in Int  BY <1>1
    <3>2. SumFunctionOnSet(caps, {x}) = caps[x]  BY <3>1, <2>2
    <3>3. SumFunctionOnSet(Share(m, d), {x}) = 2 ^ n  BY <2>2, <2>3
    <3>4. QED  BY <1>3, <2>1, <3>2, <3>3
  <2>5. QED  BY <2>4 DEF Weighs
<1>9. QED  BY <1>7, <1>8 DEF r, d

-----------------------------------------------------------------------------
(* Two trees are joined under a new root whose link element is c, just     *)
(* below the others: its symbols move one step away from it.               *)
JoinedRoot(r, x, y, c, m) ==
  [t \in Live(c, m) |-> IF t = c \/ r[t] \in {x, y} THEN c ELSE r[t]]
JoinedDepth(r, d, x, y, c, m) ==
  [t \in Live(c, m) |-> IF t = c THEN 0 ELSE IF r[t] \in {x, y} THEN d[t] + 1 ELSE d[t]]
JoinedHeap(E, f, g, e) == (E \ {f, g}) \cup {e}

LEMMA NewLink ==
  ASSUME NEW m \in 0 .. n, NEW c \in 1 .. m
  PROVE  /\ Live(c, m) = Live(c + 1, m) \cup {c} /\ c \notin Live(c + 1, m)
         /\ \A u \in 1 .. m : n + u \in Live(c, m) /\ n + u \in Live(c + 1, m) /\ n + u # c
         /\ c \in c .. m /\ c + 1 .. m \subseteq c .. m
         /\ \A t \in c .. m : t \in Live(c, m)
         /\ c \in 0 .. UNIT - 1
<1>1. n \in Nat \ {0} /\ m \in Nat /\ m <= n /\ c \in Nat /\ UNIT \in Nat /\ 2 * n < UNIT
  BY Parameters
<1>2. c .. m = (c + 1 .. m) \cup {c}  BY <1>1
<1>3. QED  BY <1>1, <1>2 DEF Live

LEMMA JoinLinks ==
  ASSUME NEW m \in 0 .. n, NEW c \in 1 .. m, NEW a, NEW b, NEW E, NEW r, NEW d,
         Links(a, E, c + 1, m, r, d),
         NEW f \in E, NEW g \in E, f # g,
         b[Link(f)] = c, b[Link(g)] = c,
         \A t \in Live(c + 1, m) : t # Link(f) /\ t # Link(g) => b[t] = a[t],
         NEW e \in 0 .. UNIT * UNIT - 1, Link(e) = c
  PROVE  Links(b, JoinedHeap(E, f, g, e), c, m,
               JoinedRoot(r, Link(f), Link(g), c, m),
               JoinedDepth(r, d, Link(f), Link(g), c, m))
<1> DEFINE x == Link(f)
           y == Link(g)
           H == JoinedHeap(E, f, g, e)
           s == JoinedRoot(r, x, y, c, m)
           q == JoinedDepth(r, d, x, y, c, m)
           L == Live(c + 1, m)
           K == Live(c, m)
<1>1. K = L \cup {c} /\ c \notin L /\ c \in c .. m /\ (c + 1 .. m) \subseteq c .. m /\ c \in Nat /\ m \in Nat
  BY NewLink, Parameters
<1>2. /\ E \subseteq 0 .. UNIT * UNIT - 1
      /\ \A z \in E : Link(z) \in L /\ r[Link(z)] = Link(z) /\ d[Link(z)] = 0
      /\ \A z, w \in E : Link(z) = Link(w) => z = w
      /\ \A t \in L : (\E z \in E : r[t] = Link(z)) /\ d[t] \in Nat /\ d[t] + (c + 1) <= m + 1
      /\ \A t \in L : (\A z \in E : Link(z) # t) =>
            a[t] \in c + 1 .. m /\ r[a[t]] = r[t] /\ d[t] = d[a[t]] + 1
  BY DEF Links
<1>3. x \in L /\ y \in L /\ x # y /\ x # c /\ y # c  BY <1>1, <1>2
<1>4. s[c] = c /\ q[c] = 0  BY <1>1 DEF JoinedRoot, JoinedDepth
<1>5. \A t \in L : t # c /\ s[t] = (IF r[t] \in {x, y} THEN c ELSE r[t])
                   /\ q[t] = (IF r[t] \in {x, y} THEN d[t] + 1 ELSE d[t])
  BY <1>1 DEF JoinedRoot, JoinedDepth
<1>6. \A z : z \in H <=> z = e \/ (z \in E /\ z # f /\ z # g)  BY DEF JoinedHeap
<1>8. c + 1 .. m \subseteq L  BY DEF Live
<1> HIDE DEF x, y, H, s, q, L, K
<1>7. ASSUME NEW z \in H
      PROVE  \/ z = e /\ Link(z) = c
             \/ z \in E /\ Link(z) # x /\ Link(z) # y /\ Link(z) \in L
  <2>1. CASE z = e  BY <2>1
  <2>2. CASE z \in E /\ z # f /\ z # g
    <3>1. Link(z) # Link(f) /\ Link(z) # Link(g) /\ Link(z) \in L  BY <1>2, <2>2
    <3>2. QED  BY <2>2, <3>1 DEF x, y
  <2>3. QED  BY <1>6, <2>1, <2>2
<1>9. H \subseteq 0 .. UNIT * UNIT - 1
  <2> DEFINE W == 0 .. UNIT * UNIT - 1
  <2>1. E \subseteq W /\ e \in W  BY <1>2
  <2> HIDE DEF W
  <2>2. H \subseteq W  BY <1>6, <2>1
  <2>3. QED  BY <2>2 DEF W
<1>10. \A z \in H : Link(z) \in K  BY <1>1, <1>7
<1>11. ASSUME NEW z \in H, NEW w \in H, Link(z) = Link(w)  PROVE z = w
  <2>1. CASE z \in E /\ w \in E  BY <1>2, <1>11, <2>1
  <2>2. CASE z = e \/ w = e  BY <1>1, <1>7, <1>11, <2>2
  <2>3. QED  BY <1>7, <2>1, <2>2
<1>12. \A z \in H : s[Link(z)] = Link(z) /\ q[Link(z)] = 0
  <2>1. ASSUME NEW z \in H  PROVE s[Link(z)] = Link(z) /\ q[Link(z)] = 0
    <3>1. CASE Link(z) = c  BY <1>4, <3>1
    <3>2. CASE z \in E /\ Link(z) # x /\ Link(z) # y /\ Link(z) \in L
      <4>1. r[Link(z)] = Link(z) /\ d[Link(z)] = 0  BY <1>2, <3>2
      <4>2. r[Link(z)] \notin {x, y}  BY <4>1, <3>2
      <4>3. QED  BY <1>5, <3>2, <4>1, <4>2
    <3>3. QED  BY <1>7, <3>1, <3>2
  <2>2. QED  BY <2>1
<1>13. ASSUME NEW t \in K
       PROVE  (\E z \in H : s[t] = Link(z)) /\ q[t] \in Nat /\ q[t] + c <= m + 1
  <2>1. CASE t = c  BY <1>1, <1>4, <1>6, <2>1
  <2>2. CASE t \in L /\ r[t] \in {x, y}
    <3>1. s[t] = c /\ q[t] = d[t] + 1 /\ d[t] \in Nat /\ d[t] + (c + 1) <= m + 1  BY <1>2, <1>5, <2>2
    <3>2. q[t] \in Nat /\ q[t] + c <= m + 1  BY <1>1, <3>1
    <3>3. QED  BY <1>6, <3>1, <3>2
  <2>3. CASE t \in L /\ r[t] \notin {x, y}
    <3>1. s[t] = r[t] /\ q[t] = d[t] /\ d[t] \in Nat /\ d[t] + (c + 1) <= m + 1  BY <1>2, <1>5, <2>3
    <3>2. q[t] \in Nat /\ q[t] + c <= m + 1  BY <1>1, <3>1
    <3>3. PICK z \in E : r[t] = Link(z)  BY <1>2, <2>3
    <3>4. z \in H  BY <1>6, <2>3, <3>3 DEF x, y
    <3>5. QED  BY <3>1, <3>2, <3>3, <3>4
  <2>4. QED  BY <1>1, <2>1, <2>2, <2>3
<1>14. ASSUME NEW t \in K, \A z \in H : Link(z) # t
       PROVE  b[t] \in c .. m /\ s[b[t]] = s[t] /\ q[t] = q[b[t]] + 1
  <2>1. t \in L  BY <1>1, <1>6, <1>14
  <2>2. CASE t = x \/ t = y
    <3>1. b[t] = c  BY <2>2 DEF x, y
    <3>2. r[t] = t /\ d[t] = 0  BY <1>2, <2>2 DEF x, y
    <3>3. r[t] \in {x, y}  BY <2>2, <3>2
    <3>4. s[t] = c /\ q[t] = 1  BY <1>5, <2>1, <3>2, <3>3
    <3>5. QED  BY <1>1, <1>4, <3>1, <3>4
  <2>3. CASE t # x /\ t # y
    <3>1. b[t] = a[t]  BY <2>1, <2>3 DEF x, y, L
    <3>2. \A z \in E : Link(z) # t
      <4>1. ASSUME NEW z \in E, Link(z) = t  PROVE FALSE
        <5>1. z # f /\ z # g  BY <2>3, <4>1 DEF x, y
        <5>2. z \in H  BY <1>6, <5>1
        <5>3. QED  BY <1>14, <4>1, <5>2
      <4>2. QED  BY <4>1
    <3>3. a[t] \in c + 1 .. m /\ r[a[t]] = r[t] /\ d[t] = d[a[t]] + 1  BY <1>2, <2>1, <3>2
    <3>4. a[t] \in L /\ a[t] \in c .. m /\ d[a[t]] \in Nat  BY <1>1, <1>2, <1>8, <3>3
    <3>5. s[a[t]] = s[t]  BY <1>5, <2>1, <3>3, <3>4
    <3>6. q[t] = q[a[t]] + 1  BY <1>5, <2>1, <3>3, <3>4
    <3>7. QED  BY <3>1, <3>4, <3>5, <3>6
  <2>4. QED  BY <2>2, <2>3
<1>15. Links(b, H, c, m, s, q)
  BY <1>9, <1>10, <1>11, <1>12, <1>13, <1>14 DEF Links, K
<1>16. QED  BY <1>15 DEF H, s, q, x, y

LEMMA JoinWeighs ==
  ASSUME NEW m \in 0 .. n, NEW c \in 1 .. m, NEW a, NEW E, NEW r, NEW d,
         Links(a, E, c + 1, m, r, d), NEW caps, Weighs(E, m, caps, r, d),
         \A u \in 1 .. m : caps[u] \in Nat,
         NEW f \in E, NEW g \in E, f # g,
         NEW e \in 0 .. UNIT * UNIT - 1, Link(e) = c, Freq(e) = Freq(f) + Freq(g)
  PROVE  LET s == JoinedRoot(r, Link(f), Link(g), c, m)
             q == JoinedDepth(r, d, Link(f), Link(g), c, m)
         IN /\ Weighs(JoinedHeap(E, f, g, e), m, caps, s, q)
            /\ Below(m, s, e) = Below(m, r, f) \cup Below(m, r, g)
            /\ Below(m, r, f) \cap Below(m, r, g) = {}
            /\ \A z \in E \ {f, g} : Below(m, s, z) = Below(m, r, z)
            /\ \A u \in 1 .. m : q[n + u] \in Nat /\ q[n + u] <= n
            /\ \A z \in E \ {f, g} : \A u \in Below(m, r, z) : q[n + u] = d[n + u]
            /\ \A u \in Below(m, r, f) \cup Below(m, r, g) : q[n + u] = d[n + u] + 1
<1> DEFINE x == Link(f)
           y == Link(g)
           s == JoinedRoot(r, x, y, c, m)
           q == JoinedDepth(r, d, x, y, c, m)
           L == Live(c + 1, m)
           A == Below(m, r, f)
           B == Below(m, r, g)
<1>1. /\ \A u \in 1 .. m : n + u \in Live(c, m) /\ n + u \in L /\ n + u # c
      /\ c \notin L /\ m \in Nat /\ n \in Nat /\ c \in Nat /\ c >= 1 /\ m <= n
  <2>1. m \in Nat /\ n \in Nat /\ c \in Nat /\ c >= 1 /\ m <= n  BY Parameters
  <2>2. /\ \A u \in 1 .. m : n + u \in Live(c, m) /\ n + u \in L /\ n + u # c
        /\ c \notin L
    BY NewLink
  <2>3. QED  BY <2>1, <2>2
<1>2. /\ \A z \in E : Link(z) \in L
      /\ \A z, w \in E : Link(z) = Link(w) => z = w
      /\ \A t \in L : d[t] \in Nat /\ d[t] + (c + 1) <= m + 1
  BY DEF Links
<1>3. x \in L /\ y \in L /\ x # y /\ x # c /\ y # c  BY <1>1, <1>2
<1>4. \A u \in 1 .. m : /\ s[n + u] = (IF r[n + u] \in {x, y} THEN c ELSE r[n + u])
                        /\ q[n + u] = (IF r[n + u] \in {x, y} THEN d[n + u] + 1 ELSE d[n + u])
  BY <1>1 DEF JoinedRoot, JoinedDepth
<1>5. \A u \in 1 .. m : d[n + u] \in Nat /\ d[n + u] + 1 <= n
  <2>1. ASSUME NEW u \in 1 .. m  PROVE d[n + u] \in Nat /\ d[n + u] + 1 <= n
    <3>1. d[n + u] \in Nat /\ d[n + u] + (c + 1) <= m + 1  BY <1>1, <1>2
    <3>2. QED  BY <1>1, <3>1
  <2>2. QED  BY <2>1
<1>6. \A u : /\ u \in A <=> u \in 1 .. m /\ r[n + u] = x
             /\ u \in B <=> u \in 1 .. m /\ r[n + u] = y
  BY DEF Below
<1> HIDE DEF x, y, s, q, L, A, B
<1>7. A \cap B = {} /\ A \subseteq 1 .. m /\ B \subseteq 1 .. m  BY <1>3, <1>6
<1>8. \A u \in A \cup B : q[n + u] = d[n + u] + 1  BY <1>4, <1>6
<1>9. Below(m, s, e) = A \cup B
  <2>1. \A u \in 1 .. m : s[n + u] = c <=> u \in A \cup B
    <3>1. ASSUME NEW u \in 1 .. m, r[n + u] = c  PROVE FALSE
      <4>1. \E z \in E : r[n + u] = Link(z)  BY <1>1 DEF Links, L
      <4>2. QED  BY <1>1, <1>2, <3>1, <4>1
    <3>2. QED  BY <1>4, <1>6, <3>1
  <2>2. QED  BY <1>7, <2>1 DEF Below
<1>10. ASSUME NEW z \in E, z # f, z # g
       PROVE  Below(m, s, z) = Below(m, r, z) /\ \A u \in Below(m, r, z) : q[n + u] = d[n + u]
  <2>1. Link(z) # x /\ Link(z) # y /\ Link(z) # c  BY <1>1, <1>2, <1>10 DEF x, y
  <2>2. \A u \in 1 .. m : s[n + u] = Link(z) <=> r[n + u] = Link(z)  BY <1>4, <2>1
  <2>3. \A u \in 1 .. m : r[n + u] = Link(z) => q[n + u] = d[n + u]  BY <1>4, <2>1
  <2>4. QED  BY <2>2, <2>3 DEF Below
<1>11. \A u \in 1 .. m : q[n + u] \in Nat /\ q[n + u] <= n
  <2>1. ASSUME NEW u \in 1 .. m  PROVE q[n + u] \in Nat /\ q[n + u] <= n
    <3>1. q[n + u] = d[n + u] \/ q[n + u] = d[n + u] + 1  BY <1>4
    <3>2. d[n + u] \in Nat /\ d[n + u] + 1 <= n  BY <1>5
    <3>3. QED  BY <1>1, <3>1, <3>2
  <2>2. QED  BY <2>1
<1>12. IsFiniteSet(A) /\ IsFiniteSet(B)
  <2>1. IsFiniteSet(1 .. m)  BY <1>1, FS_Interval
  <2>2. QED  BY <1>7, <2>1, FS_Subset
<1> DEFINE v == Share(m, q)
           w == Share(m, d)
<1>13. ASSUME NEW u \in 1 .. m  PROVE v[u] \in Nat /\ w[u] \in Nat
  <2>1. n - q[n + u] \in Nat /\ n - d[n + u] \in Nat  BY <1>1, <1>5, <1>11
  <2>2. QED  BY <2>1, PowerPositive DEF Share
<1>14. ASSUME NEW u \in A \cup B  PROVE w[u] = 2 * v[u]
  <2>1. u \in 1 .. m /\ q[n + u] = d[n + u] + 1 /\ d[n + u] \in Nat /\ d[n + u] + 1 <= n
    BY <1>5, <1>7, <1>8
  <2>2. n - q[n + u] \in Nat /\ n - d[n + u] = (n - q[n + u]) + 1  BY <1>1, <2>1
  <2>3. 2 ^ (n - d[n + u]) = 2 * 2 ^ (n - q[n + u])  BY <2>2, PowerStep
  <2>4. QED  BY <2>1, <2>3 DEF Share
<1> DEFINE C == A \cup B
<1>15. /\ SumFunctionOnSet(w, A) = 2 ^ n /\ SumFunctionOnSet(w, B) = 2 ^ n
       /\ Freq(f) = SumFunctionOnSet(caps, A) /\ Freq(g) = SumFunctionOnSet(caps, B)
       /\ A # {} /\ B # {}
  BY DEF Weighs, A, B
<1>16. \A u \in C : u \in 1 .. m /\ v[u] \in Int /\ w[u] \in Int /\ caps[u] \in Int /\ w[u] = 2 * v[u]
  <2>1. ASSUME NEW u \in C  PROVE u \in 1 .. m /\ v[u] \in Int /\ w[u] \in Int /\ caps[u] \in Int
    <3>1. u \in 1 .. m  BY <1>7
    <3>2. v[u] \in Nat /\ w[u] \in Nat  BY <3>1, <1>13
    <3>3. caps[u] \in Nat  BY <3>1
    <3> HIDE DEF v, w, C
    <3>4. QED  BY <3>1, <3>2, <3>3
  <2>2. QED  BY <2>1, <1>14
<1>17. A \subseteq C /\ B \subseteq C /\ C = A \cup B  OBVIOUS
<1> HIDE DEF v, w, C
<1>23. SumFunctionOnSet(v, C) = 2 ^ n
  <2>0. (\A u \in A : v[u] \in Int /\ w[u] = 2 * v[u]) /\ (\A u \in B : v[u] \in Int /\ w[u] = 2 * v[u])
    BY <1>16, <1>17
  <2>1. SumFunctionOnSet(w, A) = 2 * SumFunctionOnSet(v, A)  BY <1>12, <2>0, SumMultiple
  <2>2. SumFunctionOnSet(w, B) = 2 * SumFunctionOnSet(v, B)  BY <1>12, <2>0, SumMultiple
  <2>3. SumFunctionOnSet(v, A \cup B) = SumFunctionOnSet(v, A) + SumFunctionOnSet(v, B)
    <3>1. \A u \in A \cup B : v[u] \in Int  BY <2>0
    <3>2. QED  BY <1>7, <1>12, <3>1, SumOfParts
  <2>4. SumFunctionOnSet(v, A) \in Int /\ SumFunctionOnSet(v, B) \in Int
    BY <1>12, <2>0, SumInt
  <2>5. QED  BY <1>15, <1>17, <2>1, <2>2, <2>3, <2>4
<1>24. SumFunctionOnSet(caps, C) = Freq(e)
  <2>1. \A u \in A \cup B : caps[u] \in Int  BY <1>16, <1>17
  <2>2. SumFunctionOnSet(caps, A \cup B) = SumFunctionOnSet(caps, A) + SumFunctionOnSet(caps, B)
    BY <1>7, <1>12, <2>1, SumOfParts
  <2>3. QED  BY <1>15, <1>17, <2>2
<1>18. ASSUME NEW z \in E, z # f, z # g
       PROVE  SumFunctionOnSet(v, Below(m, r, z)) = 2 ^ n
  <2>1. SumFunctionOnSet(w, Below(m, r, z)) = 2 ^ n  BY DEF Weighs, w
  <2> DEFINE Z == Below(m, r, z)
  <2>2. Z \subseteq 1 .. m /\ IsFiniteSet(Z)
    <3>1. Z \subseteq 1 .. m  BY DEF Below
    <3>2. IsFiniteSet(1 .. m)  BY <1>1, FS_Interval
    <3>3. QED  BY <3>1, <3>2, FS_Subset
  <2>3. \A u \in Z : v[u] = w[u]
    <3>1. \A u \in Z : u \in 1 .. m /\ q[n + u] = d[n + u]  BY <1>10, <1>18, <2>2
    <3>2. QED  BY <3>1 DEF v, w, Share
  <2> HIDE DEF Z
  <2>4. SumFunctionOnSet(v, Z) = SumFunctionOnSet(w, Z)  BY <2>2, <2>3, SumSame
  <2>5. QED  BY <2>1, <2>4 DEF Z
<1>19. Weighs(JoinedHeap(E, f, g, e), m, caps, s, q)
  <2>1. ASSUME NEW z \in E, z # f, z # g
        PROVE  /\ Below(m, s, z) # {}
               /\ Freq(z) = SumFunctionOnSet(caps, Below(m, s, z))
               /\ SumFunctionOnSet(Share(m, q), Below(m, s, z)) = 2 ^ n
    BY <1>10, <1>18, <2>1 DEF Weighs, v
  <2>2. /\ Below(m, s, e) # {}
        /\ Freq(e) = SumFunctionOnSet(caps, Below(m, s, e))
        /\ SumFunctionOnSet(Share(m, q), Below(m, s, e)) = 2 ^ n
    BY <1>9, <1>15, <1>17, <1>23, <1>24 DEF v
  <2>3. QED  BY <2>1, <2>2 DEF Weighs, JoinedHeap
<1>20. QED  BY <1>7, <1>8, <1>9, <1>10, <1>11, <1>19 DEF A, B, s, q, x, y

-----------------------------------------------------------------------------
(* Under the lowest cap all symbols count the same.  Then the trees are of *)
(* one level: their weights are 2 ^ c and 2 ^ (c + 1), and no more than    *)
(* one lies between, and none is deeper than a full tree of its weight.    *)
Within(m, r, d, e, x) == \A u \in Below(m, r, e) : d[n + u] <= x
Between(e, c) == 2 ^ c < Freq(e) /\ Freq(e) < 2 ^ (c + 1)
Level(E, m, r, d, c) ==
  /\ \A e \in E : \/ Freq(e) = 2 ^ c /\ Within(m, r, d, e, c)
                  \/ 2 ^ c < Freq(e) /\ Freq(e) <= 2 ^ (c + 1) /\ Within(m, r, d, e, c + 1)
  /\ \A e, f \in E : Between(e, c) /\ Between(f, c) => e = f

LEMMA PowerGrows ==
  ASSUME NEW x \in Nat, NEW y \in Nat
  PROVE  x <= y <=> 2 ^ x <= 2 ^ y
<1>1. ASSUME NEW v \in Nat, NEW w \in Nat, v <= w  PROVE 2 ^ v <= 2 ^ w
  <2>1. w - v \in Nat /\ v + (w - v) = w  BY <1>1
  <2>2. 2 ^ w = 2 ^ v * 2 ^ (w - v)  BY <2>1, PowerOfSum
  <2> DEFINE a == 2 ^ v
             b == 2 ^ (w - v)
  <2>3. a \in Nat /\ b \in Nat \ {0} /\ 2 ^ w = a * b  BY <2>1, <2>2, PowerPositive
  <2> HIDE DEF a, b
  <2>4. PICK z \in Nat : b = z + 1
    <3>1. b - 1 \in Nat /\ b = (b - 1) + 1  BY <2>3
    <3>2. QED  BY <3>1
  <2>5. a * b = a * z + a /\ a * z \in Nat  BY <2>3, <2>4
  <2>6. a <= a * b  BY <2>3, <2>5
  <2>7. QED  BY <2>3, <2>6 DEF a
<1>2. ASSUME y < x  PROVE 2 ^ y < 2 ^ x
  <2>1. 2 ^ (y + 1) <= 2 ^ x  BY <1>1, <1>2
  <2>2. 2 ^ (y + 1) = 2 * 2 ^ y /\ 2 ^ y \in Nat \ {0} /\ 2 ^ x \in Nat  BY PowerStep, PowerPositive
  <2>3. QED  BY <2>1, <2>2
<1>3. 2 ^ x \in Nat /\ 2 ^ y \in Nat  BY PowerPositive
<1>4. QED  BY <1>1, <1>2, <1>3

(* The two lowest trees of a level, f and g, joined to e.                  *)
LowestJoin(m, E, r, d, c, f, g, e, s, q) ==
  /\ m \in 0 .. n /\ E \subseteq 0 .. UNIT * UNIT - 1 /\ c \in Nat /\ Level(E, m, r, d, c)
  /\ \A u \in 1 .. m : d[n + u] \in Nat
  /\ f \in E /\ g \in E /\ f # g /\ Freq(e) = Freq(f) + Freq(g)
  /\ \A z \in E : Freq(f) <= Freq(z)
  /\ \A z \in E : z # f => Freq(g) <= Freq(z)
  /\ Below(m, s, e) = Below(m, r, f) \cup Below(m, r, g)
  /\ \A z \in E \ {f, g} : Below(m, s, z) = Below(m, r, z)
  /\ \A z \in E \ {f, g} : \A u \in Below(m, r, z) : q[n + u] = d[n + u]
  /\ \A u \in Below(m, r, f) \cup Below(m, r, g) : q[n + u] = d[n + u] + 1

LEMMA JoinLevel ==
  ASSUME NEW m, NEW E, NEW r, NEW d, NEW c, NEW f, NEW g, NEW e, NEW s, NEW q,
         LowestJoin(m, E, r, d, c, f, g, e, s, q)
  PROVE  \E x \in Nat : Level(JoinedHeap(E, f, g, e), m, s, q, x)
<1>0. /\ m \in 0 .. n /\ E \subseteq 0 .. UNIT * UNIT - 1 /\ c \in Nat /\ Level(E, m, r, d, c)
      /\ \A u \in 1 .. m : d[n + u] \in Nat
      /\ f \in E /\ g \in E /\ f # g /\ Freq(e) = Freq(f) + Freq(g)
      /\ \A z \in E : Freq(f) <= Freq(z)
      /\ \A z \in E : z # f => Freq(g) <= Freq(z)
      /\ Below(m, s, e) = Below(m, r, f) \cup Below(m, r, g)
      /\ \A z \in E \ {f, g} : Below(m, s, z) = Below(m, r, z)
      /\ \A z \in E \ {f, g} : \A u \in Below(m, r, z) : q[n + u] = d[n + u]
      /\ \A u \in Below(m, r, f) \cup Below(m, r, g) : q[n + u] = d[n + u] + 1
  BY DEF LowestJoin
<1> USE <1>0
<1> DEFINE P == 2 ^ c
           H == JoinedHeap(E, f, g, e)
<1>1. P \in Nat \ {0} /\ 2 ^ (c + 1) = 2 * P /\ 2 ^ ((c + 1) + 1) = 2 * (2 * P) /\ c + 1 \in Nat
  BY PowerPositive, PowerStep
<1>2. \A z \in E : Freq(z) \in Nat
  <2>1. \A z \in E : Freq(z) \in 0 .. UNIT - 1  BY EntryForm
  <2>2. QED  BY <2>1, Parameters
<1>3. \A z \in H : z = e \/ z \in E \ {f, g}  BY DEF JoinedHeap
<1>4. /\ \A z \in E : \/ Freq(z) = P /\ Within(m, r, d, z, c)
                      \/ P < Freq(z) /\ Freq(z) <= 2 * P /\ Within(m, r, d, z, c + 1)
      /\ \A z, w \in E : P < Freq(z) /\ Freq(z) < 2 * P /\ P < Freq(w) /\ Freq(w) < 2 * P => z = w
  BY <1>1 DEF Level, Between
<1>5. ASSUME NEW z \in E \ {f, g}, NEW x, Within(m, r, d, z, x)  PROVE Within(m, s, q, z, x)
  BY <1>5 DEF Within
<1>6. ASSUME NEW x \in Nat, Within(m, r, d, f, x), Within(m, r, d, g, x)
      PROVE  Within(m, s, q, e, x + 1)
  <2>1. ASSUME NEW u \in Below(m, s, e)  PROVE q[n + u] <= x + 1
    <3>1. d[n + u] <= x /\ q[n + u] = d[n + u] + 1  BY <1>6 DEF Within
    <3>2. d[n + u] \in Nat  BY DEF Below
    <3>3. QED  BY <3>1, <3>2
  <2>2. QED  BY <2>1 DEF Within
<1>7. ASSUME NEW z \in E, Within(m, r, d, z, c)  PROVE Within(m, r, d, z, c + 1)
  <2>1. ASSUME NEW u \in Below(m, r, z)  PROVE d[n + u] <= c + 1
    <3>1. d[n + u] <= c  BY <1>7 DEF Within
    <3>2. d[n + u] \in Nat  BY DEF Below
    <3>3. QED  BY <3>1, <3>2
  <2>2. QED  BY <2>1 DEF Within
<1> HIDE DEF P, H
<1>8. CASE Freq(g) = P
  <2>1. Freq(f) = P  BY <1>1, <1>2, <1>4, <1>8
  <2>2. Within(m, r, d, f, c) /\ Within(m, r, d, g, c)  BY <1>1, <1>4, <1>8, <2>1
  <2>3. Within(m, s, q, e, c + 1)  BY <1>6, <2>2
  <2>4. Freq(e) = 2 * P  BY <1>1, <1>8, <2>1
  <2>5. \A z \in H : \/ Freq(z) = P /\ Within(m, s, q, z, c)
                     \/ P < Freq(z) /\ Freq(z) <= 2 * P /\ Within(m, s, q, z, c + 1)
    <3>1. P < 2 * P /\ 2 * P <= 2 * P  BY <1>1
    <3>2. QED  BY <1>3, <1>4, <1>5, <2>3, <2>4, <3>1
  <2>6. ~ (Freq(e) < 2 * P)  BY <1>1, <2>4
  <2>7. \A z, w \in H : P < Freq(z) /\ Freq(z) < 2 * P /\ P < Freq(w) /\ Freq(w) < 2 * P => z = w
    BY <1>3, <1>4, <2>6
  <2>8. Level(H, m, s, q, c)  BY <1>1, <2>5, <2>7 DEF Level, Between, P
  <2>9. QED  BY <2>8 DEF H
<1>9. CASE Freq(g) # P
  <2>1. P < Freq(g) /\ Freq(g) <= 2 * P  BY <1>4, <1>9
  <2>2. ASSUME NEW z \in E \ {f, g}  PROVE Freq(z) = 2 * P /\ Within(m, r, d, z, c + 1)
    <3>1. Freq(g) <= Freq(z) /\ Freq(z) \in Nat /\ Freq(g) \in Nat  BY <1>2
    <3>2. P < Freq(z) /\ Freq(z) <= 2 * P /\ Within(m, r, d, z, c + 1)
      <4>1. Freq(z) # P  BY <1>1, <2>1, <3>1
      <4>2. QED  BY <1>4, <4>1
    <3>3. ASSUME Freq(z) < 2 * P  PROVE FALSE
      <4>1. Freq(g) < 2 * P  BY <1>1, <3>1, <3>3
      <4>2. z = g  BY <1>4, <2>1, <3>2, <3>3, <4>1
      <4>3. QED  BY <4>2
    <3>4. QED  BY <1>1, <3>1, <3>2, <3>3
  <2>3. 2 * P < Freq(e) /\ Freq(e) <= 2 * (2 * P)
    <3>1. Freq(f) <= Freq(g) /\ Freq(f) \in Nat /\ Freq(g) \in Nat  BY <1>2
    <3>2. CASE Freq(f) = P  BY <1>1, <2>1, <3>1, <3>2
    <3>3. CASE P < Freq(f)
      <4>1. ASSUME Freq(g) < 2 * P  PROVE FALSE
        <5>1. Freq(f) < 2 * P  BY <1>1, <3>1, <4>1
        <5>2. f = g  BY <1>4, <2>1, <3>3, <4>1, <5>1
        <5>3. QED  BY <5>2
      <4>2. Freq(g) = 2 * P  BY <1>1, <2>1, <3>1, <4>1
      <4>3. QED  BY <1>1, <3>1, <3>3, <4>2
    <3>4. QED  BY <1>4, <3>2, <3>3
  <2>4. Within(m, r, d, f, c + 1) /\ Within(m, r, d, g, c + 1)  BY <1>4, <1>7
  <2>5. Within(m, s, q, e, (c + 1) + 1)  BY <1>1, <1>6, <2>4
  <2>6. \A z \in H :
          \/ Freq(z) = 2 * P /\ Within(m, s, q, z, c + 1)
          \/ 2 * P < Freq(z) /\ Freq(z) <= 2 * (2 * P) /\ Within(m, s, q, z, (c + 1) + 1)
    BY <1>3, <1>5, <2>2, <2>3, <2>5
  <2>7. \A z \in H : 2 * P < Freq(z) => z = e
    <3>1. ~ (2 * P < 2 * P)  BY <1>1
    <3>2. QED  BY <1>3, <2>2, <3>1
  <2>8. Level(H, m, s, q, c + 1)  BY <1>1, <2>6, <2>7 DEF Level, Between, P
  <2>9. QED  BY <1>1, <2>8 DEF H
<1>10. QED  BY <1>8, <1>9

LEMMA SymbolsAreLevel ==
  ASSUME NEW m \in 0 .. n, NEW E, NEW r, NEW d, \A e \in E : Freq(e) = 1,
         \A u \in 1 .. m : d[n + u] = 0
  PROVE  Level(E, m, r, d, 0)
<1>1. 2 ^ 0 = 1 /\ ~ (1 < 1)  BY PowerZero
<1>2. \A e \in E : Within(m, r, d, e, 0)  BY DEF Within, Below
<1>3. QED  BY <1>1, <1>2 DEF Level, Between

(* So no codeword is longer than m symbols take.                           *)
LEMMA LevelDepth ==
  ASSUME NEW m \in 0 .. n, NEW a, NEW E, NEW top, NEW r, NEW d, NEW caps,
         Links(a, E, top, m, r, d), Weighs(E, m, caps, r, d),
         \A u \in 1 .. m : caps[u] = 1 /\ n + u \in Live(top, m),
         NEW c \in Nat, Level(E, m, r, d, c), NEW x \in Nat, m <= 2 ^ x
  PROVE  \A u \in 1 .. m : d[n + u] <= x
<1> SUFFICES ASSUME NEW u \in 1 .. m  PROVE d[n + u] <= x
  OBVIOUS
<1>1. m \in Nat /\ 2 ^ x \in Nat  BY Parameters, PowerPositive
<1>2. PICK e \in E : r[n + u] = Link(e)  BY DEF Links
<1>3. u \in Below(m, r, e) /\ d[n + u] \in Nat  BY <1>2 DEF Below, Links
<1> DEFINE B == Below(m, r, e)
<1>4. Freq(e) = SumFunctionOnSet(caps, B)  BY DEF Weighs
<1>5. IsFiniteSet(B) /\ Cardinality(B) \in Nat /\ Cardinality(B) <= m /\ \A y \in B : caps[y] = 1
  <2>1. B \subseteq 1 .. m  BY DEF Below
  <2>2. IsFiniteSet(1 .. m) /\ Cardinality(1 .. m) = m  BY <1>1, FS_Interval
  <2>3. \A y \in B : caps[y] = 1  BY <2>1
  <2> HIDE DEF B
  <2>4. QED  BY <2>1, <2>2, <2>3, FS_Subset, FS_CardinalityType
<1>6. Freq(e) \in Nat /\ Freq(e) <= 2 ^ x
  <2> HIDE DEF B
  <2>1. SumFunctionOnSet(caps, B) = Cardinality(B) * 1  BY <1>5, SumOfEqual
  <2>2. QED  BY <1>1, <1>4, <1>5, <2>1
<1>7. 2 ^ c \in Nat  BY PowerPositive
<1>8. CASE Freq(e) = 2 ^ c /\ Within(m, r, d, e, c)
  <2>1. c <= x  BY <1>6, <1>8, PowerGrows
  <2>2. d[n + u] <= c  BY <1>3, <1>8 DEF Within
  <2>3. QED  BY <1>3, <2>1, <2>2
<1>9. CASE 2 ^ c < Freq(e) /\ Within(m, r, d, e, c + 1)
  <2>1. ~ (x <= c)
    <3>1. ~ (2 ^ x <= 2 ^ c)  BY <1>1, <1>6, <1>7, <1>9
    <3>2. QED  BY <3>1, PowerGrows
  <2>2. d[n + u] <= c + 1  BY <1>3, <1>9 DEF Within
  <2>3. QED  BY <1>3, <2>1, <2>2
<1>10. QED  BY <1>8, <1>9 DEF Level

-----------------------------------------------------------------------------
(* Following the links n times ends at the root.                           *)
Follow(t) == IF t \in Roots THEN t ELSE nodes[t]
Follows(w, u, x) == w = [c \in 0 .. x |-> IF c = 0 THEN n + u ELSE Follow(w[c - 1])]

LEMMA WalkExists ==
  ASSUME NEW u, NEW x \in Nat  PROVE \E w : Follows(w, u, x)
<1> DEFINE Bad == {y \in Nat : ~ \E w : Follows(w, u, y)}
<1>1. ASSUME Bad # {}  PROVE FALSE
  <2>1. PICK y \in Bad : \A z \in Bad : y <= z
    <3>1. Bad \subseteq Nat  OBVIOUS
    <3> HIDE DEF Bad
    <3>2. QED  BY <1>1, <3>1, LeastNumber
  <2>2. CASE y = 0
    <3> DEFINE w == [c \in 0 .. 0 |-> n + u]
    <3>1. w = [c \in 0 .. 0 |-> IF c = 0 THEN n + u ELSE Follow(w[c - 1])]  OBVIOUS
    <3> HIDE DEF w
    <3>2. Follows(w, u, 0)  BY <3>1 DEF Follows
    <3>3. QED  BY <2>2, <3>2
  <2>3. CASE y # 0
    <3>1. y - 1 \in Nat /\ ~ (y <= y - 1)  BY <2>3
    <3>2. y - 1 \notin Bad  BY <2>1, <3>1
    <3>3. PICK v : Follows(v, u, y - 1)  BY <3>1, <3>2
    <3> DEFINE w == [c \in 0 .. y |-> IF c = y THEN Follow(v[y - 1]) ELSE v[c]]
    <3>4. ASSUME NEW c \in 0 .. y  PROVE w[c] = IF c = 0 THEN n + u ELSE Follow(w[c - 1])
      <4>1. \A z \in 0 .. y - 1 : v[z] = IF z = 0 THEN n + u ELSE Follow(v[z - 1])
        BY <3>3 DEF Follows
      <4>2. CASE c = y
        <5>1. w[c] = Follow(v[y - 1]) /\ c # 0 /\ c - 1 \in 0 .. y /\ c - 1 # y /\ c - 1 = y - 1
          BY <2>3, <3>1, <4>2
        <5>2. w[c - 1] = v[y - 1]  BY <5>1
        <5>3. QED  BY <5>1, <5>2
      <4>3. CASE c # y
        <5>1. c \in 0 .. y - 1 /\ w[c] = v[c]  BY <4>3
        <5>2. CASE c = 0  BY <4>1, <5>1, <5>2
        <5>3. CASE c # 0
          <6>1. c - 1 \in 0 .. y /\ c - 1 # y  BY <5>1, <5>3
          <6>2. w[c - 1] = v[c - 1]  BY <6>1
          <6>3. QED  BY <4>1, <5>1, <5>3, <6>2
        <5>4. QED  BY <5>2, <5>3
      <4>4. QED  BY <4>2, <4>3
    <3>5. w = [c \in 0 .. y |-> w[c]]  OBVIOUS
    <3> HIDE DEF w
    <3>6. w = [c \in 0 .. y |-> IF c = 0 THEN n + u ELSE Follow(w[c - 1])]  BY <3>4, <3>5
    <3>7. Follows(w, u, y)  BY <3>6 DEF Follows
    <3>8. QED  BY <3>7
  <2>4. QED  BY <2>2, <2>3
<1>2. x \notin Bad  BY <1>1
<1>3. QED  BY <1>2

LEMMA RootIs ==
  ASSUME NEW m \in 0 .. n, NEW E, NEW top \in Nat \ {0}, NEW r, NEW d,
         Links(nodes, E, top, m, r, d), Roots = {Link(e) : e \in E}, NEW u \in 1 .. m
  PROVE  Root(u) = r[n + u]
<1> DEFINE w == CHOOSE walk : walk = [c \in 0 .. n |-> IF c = 0 THEN n + u
                            ELSE IF walk[c - 1] \in Roots THEN walk[c - 1] ELSE nodes[walk[c - 1]]]
           L == Live(top, m)
<1>1. n \in Nat \ {0} /\ m \in Nat /\ m <= n  BY Parameters
<1>2. w = [c \in 0 .. n |-> IF c = 0 THEN n + u
                            ELSE IF w[c - 1] \in Roots THEN w[c - 1] ELSE nodes[w[c - 1]]]
  <2>1. \E v : Follows(v, u, n)  BY <1>1, WalkExists
  <2>2. QED  BY <2>1 DEF Follows, Follow
<1>3. Root(u) = w[n]  BY DEF Root
<1> HIDE DEF w
<1>4. w[0] = n + u /\ \A c \in 0 .. n : c # 0 =>
        w[c] = IF w[c - 1] \in Roots THEN w[c - 1] ELSE nodes[w[c - 1]]
  BY <1>1, <1>2
<1>5. /\ \A t \in L : d[t] \in Nat /\ d[t] + top <= m + 1
      /\ \A t \in L : t \notin Roots =>
            nodes[t] \in L /\ r[nodes[t]] = r[t] /\ d[t] = d[nodes[t]] + 1
      /\ \A t \in Roots : r[t] = t
      /\ n + u \in L
  <2>1. \A t : t \notin Roots <=> \A e \in E : Link(e) # t  OBVIOUS
  <2>2. \A t \in top .. m : t \in L  BY DEF Live
  <2>3. n + u \in L  BY <1>1 DEF Live
  <2> HIDE DEF L
  <2>4. \A t \in L : d[t] \in Nat /\ d[t] + top <= m + 1  BY DEF Links, L
  <2>5. \A t \in L : t \notin Roots => nodes[t] \in L /\ r[nodes[t]] = r[t] /\ d[t] = d[nodes[t]] + 1
    BY <2>1, <2>2 DEF Links, L
  <2>6. \A t \in Roots : r[t] = t  BY DEF Links
  <2>7. QED  BY <2>3, <2>4, <2>5, <2>6
<1> HIDE DEF L
<1> DEFINE Good(c) == w[c] \in L /\ r[w[c]] = r[n + u] /\ (w[c] \in Roots \/ d[w[c]] + c = d[n + u])
           Bad == {c \in 0 .. n : ~ Good(c)}
<1>6. ASSUME Bad # {}  PROVE FALSE
  <2>1. PICK c \in Bad : \A z \in Bad : c <= z
    <3>1. Bad \subseteq Nat  BY <1>1
    <3> HIDE DEF Bad
    <3>2. QED  BY <1>6, <3>1, LeastNumber
  <2>2. c \in 0 .. n /\ ~ Good(c)  OBVIOUS
  <2>3. c # 0
    <3>1. ASSUME c = 0  PROVE Good(c)
      <4>1. w[c] = n + u  BY <1>4, <3>1
      <4>2. d[n + u] + 0 = d[n + u]  BY <1>5
      <4>3. QED  BY <1>5, <3>1, <4>1, <4>2
    <3>2. QED  BY <2>2, <3>1
  <2>4. c - 1 \in 0 .. n /\ ~ (c <= c - 1)  BY <1>1, <2>2, <2>3
  <2>5. Good(c - 1)
    <3>1. c - 1 \notin Bad
      <4> HIDE DEF Bad
      <4>1. QED  BY <2>1, <2>4
    <3>2. QED  BY <2>4, <3>1
  <2> DEFINE t == w[c - 1]
  <2>6. t \in L /\ r[t] = r[n + u] /\ (t \in Roots \/ d[t] + (c - 1) = d[n + u])  BY <2>5
  <2>7. w[c] = IF t \in Roots THEN t ELSE nodes[t]  BY <1>4, <2>2, <2>3
  <2> HIDE DEF t
  <2>8. CASE t \in Roots  BY <2>2, <2>6, <2>7, <2>8
  <2>9. CASE t \notin Roots
    <3>1. w[c] \in L /\ r[w[c]] = r[t] /\ d[t] = d[w[c]] + 1 /\ d[w[c]] \in Nat
      BY <1>5, <2>6, <2>7, <2>9
    <3>2. d[w[c]] + c = d[n + u]  BY <2>2, <2>6, <2>9, <3>1
    <3>3. QED  BY <2>2, <2>6, <3>1, <3>2
  <2>10. QED  BY <2>8, <2>9
<1>7. Good(n)
  <2>1. n \in 0 .. n  BY <1>1
  <2>2. QED  BY <1>6, <2>1
<1>8. w[n] \in Roots
  <2>1. ASSUME w[n] \notin Roots  PROVE FALSE
    <3>1. d[w[n]] + n = d[n + u] /\ nodes[w[n]] \in L /\ d[w[n]] = d[nodes[w[n]]] + 1
      BY <1>5, <1>7, <2>1
    <3>2. d[n + u] \in Nat /\ d[n + u] + top <= m + 1 /\ d[nodes[w[n]]] \in Nat  BY <1>5, <3>1
    <3>3. QED  BY <1>1, <3>1, <3>2
  <2>2. QED  BY <2>1
<1>9. QED  BY <1>3, <1>5, <1>7, <1>8

-----------------------------------------------------------------------------
(* One tree is left: the code.                                             *)
Tree(a, m, d) ==
  /\ \A t \in Live(2, m) : d[t] \in Nat /\ d[t] + 1 <= m
  /\ d[2] = 0
  /\ \A t \in Live(2, m) : t # 2 => a[t] \in 2 .. m /\ d[t] = d[a[t]] + 1
  /\ SumFunctionOnSet(Share(m, d), 1 .. m) = 2 ^ n

LEMMA OneTree ==
  ASSUME NEW m \in 0 .. n, NEW a, NEW e, NEW r, NEW d, NEW caps,
         Links(a, {e}, 2, m, r, d), Weighs({e}, m, caps, r, d), Link(e) = 2
  PROVE  Tree(a, m, d)
<1>1. n \in Nat /\ m \in Nat  BY Parameters
<1>2. \A t \in Live(2, m) : d[t] \in Nat /\ d[t] + 1 <= m
  <2>1. ASSUME NEW t \in Live(2, m)  PROVE d[t] \in Nat /\ d[t] + 1 <= m
    <3>1. d[t] \in Nat /\ d[t] + 2 <= m + 1  BY DEF Links
    <3>2. QED  BY <1>1, <3>1
  <2>2. QED  BY <2>1
<1>3. d[2] = 0 /\ \A t \in Live(2, m) : r[t] = 2  BY DEF Links
<1>4. \A t \in Live(2, m) : t # 2 => a[t] \in 2 .. m /\ d[t] = d[a[t]] + 1  BY DEF Links
<1>5. Below(m, r, e) = 1 .. m
  <2>1. \A u \in 1 .. m : n + u \in Live(2, m)  BY <1>1 DEF Live
  <2>2. QED  BY <1>3, <2>1 DEF Below
<1>6. SumFunctionOnSet(Share(m, d), 1 .. m) = 2 ^ n  BY <1>5 DEF Weighs
<1>7. QED  BY <1>2, <1>3, <1>4, <1>6 DEF Tree

-----------------------------------------------------------------------------
(* The heap.  From low up every element is at most its children, but for   *)
(* the hole, whose parent is at most its children in its stead.            *)
ChildOf(y, x) == y = 2 * x \/ y = 2 * x + 1
Ordered(a, size, low, hole) ==
  /\ \A x \in low .. size, y \in 1 .. size : ChildOf(y, x) /\ x # hole => a[x] <= a[y]
  /\ \A x \in low .. size, y \in 1 .. size, z \in 1 .. size :
       ChildOf(y, x) /\ ChildOf(z, y) /\ y = hole => a[x] <= a[z]

LEMMA DownKeepsOrder ==
  ASSUME NEW size \in Nat, NEW low \in Nat \ {0}, NEW j \in low .. size, NEW a,
         \A x \in 1 .. size : a[x] \in Int,
         Ordered(a, size, low, j),
         NEW c \in 1 .. size, ChildOf(c, j), a[c] < a[j],
         \A y \in 1 .. size : ChildOf(y, j) => a[c] <= a[y],
         NEW b, b[j] = a[c], b[c] = a[j], \A x \in 1 .. size : x # j /\ x # c => b[x] = a[x]
  PROVE  Ordered(b, size, low, c) /\ c \in low .. size
<1>1. j \in Nat /\ c \in Nat /\ c > j /\ c \in low .. size /\ j \in 1 .. size
  BY DEF ChildOf
<1>2. \A x \in low .. size : x \in 1 .. size  OBVIOUS
<1>3. \A x \in Nat : ChildOf(c, x) => x = j  BY DEF ChildOf
<1>4. \A x \in Nat \ {0}, y \in Nat : ChildOf(y, x) => y > x  BY DEF ChildOf
<1>5. ASSUME NEW x \in low .. size, NEW y \in 1 .. size, ChildOf(y, x), x # c
      PROVE  b[x] <= b[y]
  <2>1. x \in Nat \ {0} /\ y \in Nat /\ y > x /\ a[x] \in Int /\ a[y] \in Int
        /\ a[j] \in Int /\ a[c] \in Int
    BY <1>1, <1>4, <1>5
  <2>2. CASE x = j /\ y = c  BY <2>1, <2>2
  <2>3. CASE x = j /\ y # c
    <3>1. b[x] = a[c] /\ b[y] = a[y]  BY <2>1, <2>3
    <3>2. QED  BY <1>5, <2>3, <3>1
  <2>4. CASE x # j /\ y = j
    <3>1. b[x] = a[x] /\ b[y] = a[c]  BY <1>2, <1>5, <2>4
    <3>2. a[x] <= a[c]  BY <1>5, <2>4 DEF Ordered
    <3>3. QED  BY <3>1, <3>2
  <2>5. CASE x # j /\ y # j
    <3>1. y # c  BY <1>3, <1>5, <2>1, <2>5
    <3>2. b[x] = a[x] /\ b[y] = a[y]  BY <1>2, <1>5, <2>5, <3>1
    <3>3. a[x] <= a[y]  BY <1>5, <2>5 DEF Ordered
    <3>4. QED  BY <3>2, <3>3
  <2>6. QED  BY <2>2, <2>3, <2>4, <2>5
<1>6. ASSUME NEW x \in low .. size, NEW z \in 1 .. size, ChildOf(c, x), ChildOf(z, c)
      PROVE  b[x] <= b[z]
  <2>1. x = j /\ z > c /\ z \in Nat  BY <1>1, <1>3, <1>4, <1>6
  <2>2. z # j /\ z # c  BY <1>1, <2>1
  <2>3. b[x] = a[c] /\ b[z] = a[z]  BY <2>1, <2>2
  <2>4. a[c] <= a[z]  BY <1>1, <1>6 DEF Ordered
  <2>5. QED  BY <2>3, <2>4
<1>7. QED  BY <1>1, <1>5, <1>6 DEF Ordered

LEMMA SettledOrder ==
  ASSUME NEW size \in Nat, NEW low \in Nat \ {0}, NEW j, NEW a,
         Ordered(a, size, low, j),
         \A y \in 1 .. size : ChildOf(y, j) => a[j] <= a[y]
  PROVE  Ordered(a, size, low, 0)
<1>1. \A y \in 1 .. size : y # 0  OBVIOUS
<1>2. \A x \in low .. size, y \in 1 .. size : ChildOf(y, x) => a[x] <= a[y]  BY DEF Ordered
<1>3. QED  BY <1>1, <1>2 DEF Ordered

LEMMA NextOrder ==
  ASSUME NEW size \in Nat, NEW j \in 1 .. size, NEW a, Ordered(a, size, j + 1, 0)
  PROVE  Ordered(a, size, j, j)
<1>1. ASSUME NEW x \in j .. size, NEW y \in 1 .. size, ChildOf(y, x), x # j
      PROVE  a[x] <= a[y]
  <2>1. x \in j + 1 .. size /\ x # 0  BY <1>1
  <2>2. QED  BY <1>1, <2>1 DEF Ordered
<1>2. \A x \in j .. size : ~ ChildOf(j, x)  BY DEF ChildOf
<1>3. QED  BY <1>1, <1>2 DEF Ordered

LEMMA RootOrder ==
  ASSUME NEW size \in Nat, NEW less \in 0 .. size, NEW a, Ordered(a, size, 1, 0),
         NEW b, \A x \in 2 .. less : b[x] = a[x]
  PROVE  Ordered(b, less, 1, 1)
<1>1. ASSUME NEW x \in 1 .. less, NEW y \in 1 .. less, ChildOf(y, x), x # 1
      PROVE  b[x] <= b[y]
  <2>1. x \in 2 .. less /\ y \in 2 .. less  BY <1>1 DEF ChildOf
  <2>2. x \in 1 .. size /\ y \in 1 .. size /\ x # 0  BY <1>1
  <2>3. a[x] <= a[y]  BY <1>1, <2>2 DEF Ordered
  <2>4. QED  BY <2>1, <2>3
<1>2. \A x \in 1 .. less : ~ ChildOf(1, x)  BY DEF ChildOf
<1>3. QED  BY <1>1, <1>2 DEF Ordered

LEMMA FirstIsLowest ==
  ASSUME NEW size \in Nat, NEW a, \A x \in 1 .. size : a[x] \in Int,
         Ordered(a, size, 1, 0), NEW x \in 1 .. size
  PROVE  a[1] <= a[x]
<1> DEFINE Bad == {y \in 1 .. size : ~ (a[1] <= a[y])}
<1>1. ASSUME Bad # {}  PROVE FALSE
  <2>1. PICK y \in Bad : \A z \in Bad : y <= z
    <3>1. Bad \subseteq Nat  OBVIOUS
    <3> HIDE DEF Bad
    <3>2. QED  BY <1>1, <3>1, LeastNumber
  <2>2. y \in 1 .. size /\ ~ (a[1] <= a[y])  OBVIOUS
  <2>3. 1 \in 1 .. size /\ a[1] \in Int /\ a[y] \in Int  BY <2>2
  <2>4. y # 1  BY <2>2, <2>3
  <2>5. PICK z \in 1 .. size : ChildOf(y, z) /\ z < y
    <3>1. y \div 2 \in Nat /\ (y = 2 * (y \div 2) \/ y = 2 * (y \div 2) + 1)  BY <2>2
    <3>2. y \div 2 \in 1 .. size /\ y \div 2 < y  BY <2>2, <2>4, <3>1
    <3>3. QED  BY <3>1, <3>2 DEF ChildOf
  <2>6. z \notin Bad
    <3> HIDE DEF Bad
    <3>1. QED  BY <2>1, <2>2, <2>5
  <2>7. a[1] <= a[z] /\ a[z] \in Int  BY <2>6
  <2>8. z # 0  BY <2>5
  <2>9. a[z] <= a[y]  BY <2>2, <2>5, <2>8 DEF Ordered
  <2>10. QED  BY <2>2, <2>3, <2>7, <2>9
<1>2. QED  BY <1>1

LEMMA ChildIs ==
  ASSUME h \in Nat, NEW j \in 1 .. h, \A x \in 1 .. h : nodes[x] \in Int, j * 2 <= h
  PROVE  /\ Child(j) \in 1 .. h /\ ChildOf(Child(j), j) /\ Child(j) # j
         /\ \A y \in 1 .. h : ChildOf(y, j) => nodes[Child(j)] <= nodes[y]
<1>1. 2 * j \in 1 .. h /\ 2 * j + 1 \in Nat /\ nodes[2 * j] \in Int  OBVIOUS
<1>2. CASE 2 * j + 1 <= h /\ nodes[2 * j + 1] < nodes[2 * j]
  <2>1. Child(j) = 2 * j + 1  BY <1>2 DEF Child
  <2>2. 2 * j + 1 \in 1 .. h /\ nodes[2 * j + 1] \in Int  BY <1>1, <1>2
  <2>3. nodes[2 * j + 1] <= nodes[2 * j] /\ nodes[2 * j + 1] <= nodes[2 * j + 1]
    BY <1>1, <1>2, <2>2
  <2>4. QED  BY <2>1, <2>2, <2>3 DEF ChildOf
<1>3. CASE ~ (2 * j + 1 <= h /\ nodes[2 * j + 1] < nodes[2 * j])
  <2>1. Child(j) = 2 * j  BY <1>3 DEF Child
  <2>2. nodes[2 * j] <= nodes[2 * j]  BY <1>1
  <2>3. 2 * j + 1 \in 1 .. h => nodes[2 * j] <= nodes[2 * j + 1]
    BY <1>1, <1>3
  <2>4. 2 * j # j  OBVIOUS
  <2>5. QED  BY <1>1, <2>1, <2>2, <2>3, <2>4 DEF ChildOf
<1>4. QED  BY <1>2, <1>3

-----------------------------------------------------------------------------
(* No code is cheaper.  A code gives every element of a set a length, and  *)
(* costs what its lengths add up to under the elements' weights w.         *)
CodesOver(S) == [S -> 0 .. n]
Costs(S, w, x) == SumFunctionOnSet([t \in S |-> w[t] * x[t]], S)

LEMMA CodeTerms ==
  ASSUME NEW S, IsFiniteSet(S), NEW w, \A t \in S : w[t] \in Nat, NEW x \in CodesOver(S)
  PROVE  /\ \A t \in S : /\ [z \in S |-> 2 ^ (n - x[z])][t] = 2 ^ (n - x[t])
                         /\ 2 ^ (n - x[t]) \in Nat \ {0} /\ 2 ^ (n - x[t]) \in Int
                         /\ [z \in S |-> w[z] * x[z]][t] = w[t] * x[t]
                         /\ w[t] * x[t] \in Nat /\ w[t] * x[t] \in Int /\ x[t] \in Nat
         /\ Kraft(x, S) \in Nat /\ Costs(S, w, x) \in Nat /\ SumFunctionOnSet(x, S) \in Nat
<1>1. ASSUME NEW t \in S
      PROVE  /\ 2 ^ (n - x[t]) \in Nat \ {0} /\ 2 ^ (n - x[t]) \in Int
             /\ w[t] * x[t] \in Nat /\ w[t] * x[t] \in Int /\ x[t] \in Nat
  <2>1. n \in Nat /\ x[t] \in 0 .. n /\ w[t] \in Nat  BY Parameters DEF CodesOver
  <2>2. n - x[t] \in Nat /\ x[t] \in Nat  BY <2>1
  <2>3. w[t] * x[t] \in Nat  BY <2>1, <2>2
  <2>4. 2 ^ (n - x[t]) \in Nat \ {0}  BY <2>2, PowerPositive
  <2> DEFINE a == 2 ^ (n - x[t])
  <2>5. a \in Nat \ {0} => a \in Int  OBVIOUS
  <2>6. QED  BY <2>2, <2>3, <2>4, <2>5
<1> DEFINE f == [z \in S |-> 2 ^ (n - x[z])]
           e == [z \in S |-> w[z] * x[z]]
<1>2. \A t \in S : f[t] \in Nat /\ e[t] \in Nat /\ x[t] \in Nat
  <2>1. \A t \in S : f[t] = 2 ^ (n - x[t]) /\ e[t] = w[t] * x[t]  OBVIOUS
  <2> HIDE DEF f, e
  <2>2. QED  BY <1>1, <2>1
<1> HIDE DEF f, e
<1>3. SumFunctionOnSet(f, S) \in Nat /\ SumFunctionOnSet(e, S) \in Nat
      /\ SumFunctionOnSet(x, S) \in Nat
  BY <1>2, SumNat
<1>4. Kraft(x, S) \in Nat /\ Costs(S, w, x) \in Nat  BY <1>3 DEF Kraft, Costs, f, e
<1>5. QED  BY <1>1, <1>3, <1>4

(* Two elements with what the sums take from the others.                   *)
LEMMA CodeOfTwo ==
  ASSUME NEW S, IsFiniteSet(S), NEW w, \A t \in S : w[t] \in Nat, NEW x \in CodesOver(S),
         NEW a \in S, NEW b \in S, a # b
  PROVE  LET R == S \ {a, b}
         IN /\ Kraft(x, S) = 2 ^ (n - x[a]) + 2 ^ (n - x[b]) + Kraft(x, R)
            /\ Costs(S, w, x) = w[a] * x[a] + w[b] * x[b] + Costs(R, w, x)
            /\ Kraft(x, R) \in Int /\ Costs(R, w, x) \in Int
<1> DEFINE f == [z \in S |-> 2 ^ (n - x[z])]
           e == [z \in S |-> w[z] * x[z]]
           R == S \ {a, b}
           d == [z \in R |-> 2 ^ (n - x[z])]
           g == [z \in R |-> w[z] * x[z]]
<1>1. \A t \in S : f[t] \in Int /\ e[t] \in Int /\ f[t] = 2 ^ (n - x[t]) /\ e[t] = w[t] * x[t]
  <2>1. \A t \in S : f[t] = 2 ^ (n - x[t]) /\ e[t] = w[t] * x[t]  OBVIOUS
  <2> HIDE DEF f, e
  <2>2. QED  BY <2>1, CodeTerms
<1>2. \A t \in R : t \in S /\ d[t] = 2 ^ (n - x[t]) /\ g[t] = w[t] * x[t]  OBVIOUS
<1>3. R = S \ {a, b}  OBVIOUS
<1> HIDE DEF f, e, d, g, R
<1>4. /\ SumFunctionOnSet(f, S) = f[a] + f[b] + SumFunctionOnSet(f, R)
      /\ SumFunctionOnSet(f, R) \in Int /\ IsFiniteSet(R)
  <2>1. \A t \in S : f[t] \in Int  BY <1>1
  <2>2. /\ SumFunctionOnSet(f, S) = f[a] + f[b] + SumFunctionOnSet(f, S \ {a, b})
        /\ SumFunctionOnSet(f, S \ {a, b}) \in Int /\ IsFiniteSet(S \ {a, b})
    BY <2>1, SumTwoTaken
  <2>3. QED  BY <2>2 DEF R
<1>5. /\ SumFunctionOnSet(e, S) = e[a] + e[b] + SumFunctionOnSet(e, R)
      /\ SumFunctionOnSet(e, R) \in Int
  <2>1. \A t \in S : e[t] \in Int  BY <1>1
  <2>2. /\ SumFunctionOnSet(e, S) = e[a] + e[b] + SumFunctionOnSet(e, S \ {a, b})
        /\ SumFunctionOnSet(e, S \ {a, b}) \in Int /\ IsFiniteSet(S \ {a, b})
    BY <2>1, SumTwoTaken
  <2>3. QED  BY <2>2 DEF R
<1>6. SumFunctionOnSet(f, R) = SumFunctionOnSet(d, R) /\ SumFunctionOnSet(e, R) = SumFunctionOnSet(g, R)
  BY <1>1, <1>2, <1>4, SumSame
<1>7. /\ Kraft(x, S) = SumFunctionOnSet(f, S) /\ Kraft(x, R) = SumFunctionOnSet(d, R)
      /\ Costs(S, w, x) = SumFunctionOnSet(e, S) /\ Costs(R, w, x) = SumFunctionOnSet(g, R)
  BY DEF Kraft, Costs, f, e, d, g
<1>8. QED  BY <1>1, <1>4, <1>5, <1>6, <1>7 DEF R

(* On the same elements the same lengths are the same code.                *)
LEMMA SameCode ==
  ASSUME NEW R, NEW w, NEW x, NEW v, \A t \in R : v[t] = x[t]
  PROVE  Kraft(v, R) = Kraft(x, R) /\ Costs(R, w, v) = Costs(R, w, x)
BY DEF Kraft, Costs

(* The longer codeword goes to the smaller weight.                         *)
LEMMA Swapped ==
  ASSUME NEW S, IsFiniteSet(S), NEW w, \A t \in S : w[t] \in Nat, NEW x \in CodesOver(S),
         NEW a \in S, NEW b \in S, x[b] <= x[a], w[b] <= w[a]
  PROVE  \E v \in CodesOver(S) :
           /\ Kraft(v, S) = Kraft(x, S) /\ Costs(S, w, v) <= Costs(S, w, x)
           /\ v[b] = x[a] /\ v[a] = x[b] /\ \A t \in S \ {a, b} : v[t] = x[t]
<1>1. CASE a = b
  <2>1. Costs(S, w, x) \in Nat  BY CodeTerms
  <2>2. Costs(S, w, x) <= Costs(S, w, x)  BY <2>1
  <2>3. QED  BY <1>1, <2>2
<1>2. CASE a # b
  <2> DEFINE v == [t \in S |-> IF t = a THEN x[b] ELSE IF t = b THEN x[a] ELSE x[t]]
             R == S \ {a, b}
  <2>1. v \in CodesOver(S) /\ v[a] = x[b] /\ v[b] = x[a] /\ \A t \in R : v[t] = x[t]
    BY <1>2 DEF CodesOver
  <2> HIDE DEF v
  <2>2. Kraft(v, R) = Kraft(x, R) /\ Costs(R, w, v) = Costs(R, w, x)  BY <2>1, SameCode
  <2>3. /\ Kraft(x, S) = 2 ^ (n - x[a]) + 2 ^ (n - x[b]) + Kraft(x, R)
        /\ Costs(S, w, x) = w[a] * x[a] + w[b] * x[b] + Costs(R, w, x)
        /\ Kraft(x, R) \in Int /\ Costs(R, w, x) \in Int
    BY <1>2, CodeOfTwo
  <2>4. /\ Kraft(v, S) = 2 ^ (n - v[a]) + 2 ^ (n - v[b]) + Kraft(v, R)
        /\ Costs(S, w, v) = w[a] * v[a] + w[b] * v[b] + Costs(R, w, v)
    <3>1. v \in CodesOver(S)  BY <2>1
    <3>2. IsFiniteSet(S) /\ (\A t \in S : w[t] \in Nat) /\ a \in S /\ b \in S  OBVIOUS
    <3>3. /\ Kraft(v, S) = 2 ^ (n - v[a]) + 2 ^ (n - v[b]) + Kraft(v, S \ {a, b})
          /\ Costs(S, w, v) = w[a] * v[a] + w[b] * v[b] + Costs(S \ {a, b}, w, v)
      BY ONLY <1>2, <3>1, <3>2, CodeOfTwo
    <3>4. QED  BY <3>3
  <2>5. 2 ^ (n - x[a]) \in Int /\ 2 ^ (n - x[b]) \in Int  BY CodeTerms
  <2>6. Kraft(v, S) = Kraft(x, S)
    <3> DEFINE c == 2 ^ (n - x[a])
               d == 2 ^ (n - x[b])
    <3>1. c \in Int /\ d \in Int /\ Kraft(x, S) = c + d + Kraft(x, R)
          /\ Kraft(v, S) = d + c + Kraft(x, R)
      BY <2>1, <2>2, <2>3, <2>4, <2>5
    <3> HIDE DEF c, d
    <3>2. QED  BY <2>3, <3>1
  <2>7. w[a] * x[b] + w[b] * x[a] <= w[a] * x[a] + w[b] * x[b]
    <3>1. w[a] \in Nat /\ w[b] \in Nat /\ x[a] \in Nat /\ x[b] \in Nat  BY CodeTerms
    <3>2. PICK y \in Nat : w[a] = w[b] + y
      <4>1. w[a] - w[b] \in Nat /\ w[a] = w[b] + (w[a] - w[b])  BY <3>1
      <4>2. QED  BY <4>1
    <3>3. PICK z \in Nat : x[a] = x[b] + z
      <4>1. x[a] - x[b] \in Nat /\ x[a] = x[b] + (x[a] - x[b])  BY <3>1
      <4>2. QED  BY <4>1
    <3>4. \A c, d \in Nat : /\ (c + y) * d + c * (d + z) + y * z = (c + y) * (d + z) + c * d
                            /\ y * z \in Nat /\ (c + y) * d + c * (d + z) \in Nat
      OBVIOUS
    <3>5. QED  BY <3>1, <3>2, <3>3, <3>4
  <2>8. Costs(S, w, v) <= Costs(S, w, x)
    <3>1. /\ w[a] * x[b] \in Int /\ w[b] * x[a] \in Int /\ w[a] * x[a] \in Int
          /\ w[b] * x[b] \in Int
      <4>1. w[a] \in Nat /\ w[b] \in Nat /\ x[a] \in Nat /\ x[b] \in Nat  BY CodeTerms
      <4>2. QED  BY <4>1
    <3>2. Costs(S, w, v) = w[a] * x[b] + w[b] * x[a] + Costs(R, w, x)  BY <2>1, <2>2, <2>4
    <3>3. QED  BY <2>3, <2>7, <3>1, <3>2
  <2>9. QED  BY <2>1, <2>6, <2>8
<1>3. QED  BY <1>1, <1>2

(* One element with what the sums take from the others.                    *)
WeighedCode(S, w, x) ==
  IsFiniteSet(S) /\ (\A t \in S : w[t] \in Nat) /\ x \in CodesOver(S)

LEMMA CodeOfOne ==
  ASSUME NEW S, NEW w, NEW x, WeighedCode(S, w, x), NEW a \in S
  PROVE  /\ Kraft(x, S) = 2 ^ (n - x[a]) + Kraft(x, S \ {a}) /\ Kraft(x, S \ {a}) \in Nat
         /\ Costs(S, w, x) = w[a] * x[a] + Costs(S \ {a}, w, x) /\ Costs(S \ {a}, w, x) \in Nat
         /\ SumFunctionOnSet(x, S) = x[a] + SumFunctionOnSet(x, S \ {a})
         /\ SumFunctionOnSet(x, S \ {a}) \in Nat
<1>0. IsFiniteSet(S) /\ (\A t \in S : w[t] \in Nat) /\ x \in CodesOver(S)
  BY DEF WeighedCode
<1> DEFINE f == [z \in S |-> 2 ^ (n - x[z])]
           e == [z \in S |-> w[z] * x[z]]
           R == S \ {a}
           d == [z \in R |-> 2 ^ (n - x[z])]
           g == [z \in R |-> w[z] * x[z]]
<1>1. \A t \in S : f[t] \in Nat /\ e[t] \in Nat /\ f[t] = 2 ^ (n - x[t]) /\ e[t] = w[t] * x[t]
  <2>1. \A t \in S : f[t] = 2 ^ (n - x[t]) /\ e[t] = w[t] * x[t]  OBVIOUS
  <2> HIDE DEF f, e
  <2>2. QED  BY <1>0, <2>1, CodeTerms
<1>2. \A t \in R : t \in S /\ d[t] = 2 ^ (n - x[t]) /\ g[t] = w[t] * x[t]  OBVIOUS
<1>3. IsFiniteSet(R)  BY <1>0, FS_RemoveElement
<1>4. \A t \in S : x[t] \in Nat  BY <1>0, CodeTerms
<1> HIDE DEF f, e, d, g
<1>5. /\ SumFunctionOnSet(f, S) = f[a] + SumFunctionOnSet(f, R)
      /\ SumFunctionOnSet(e, S) = e[a] + SumFunctionOnSet(e, R)
      /\ SumFunctionOnSet(x, S) = x[a] + SumFunctionOnSet(x, R)
  <2>1. \A t \in S : f[t] \in Int /\ e[t] \in Int /\ x[t] \in Int  BY <1>1, <1>4
  <2>2. QED  BY <1>0, <2>1, SumTakeOut
<1>6. /\ SumFunctionOnSet(f, R) \in Nat /\ SumFunctionOnSet(e, R) \in Nat
      /\ SumFunctionOnSet(x, R) \in Nat
  <2>1. \A t \in R : f[t] \in Nat /\ e[t] \in Nat /\ x[t] \in Nat  BY <1>1, <1>4
  <2> HIDE DEF R
  <2>2. QED  BY <1>3, <2>1, SumNat
<1>7. SumFunctionOnSet(f, R) = SumFunctionOnSet(d, R) /\ SumFunctionOnSet(e, R) = SumFunctionOnSet(g, R)
  <2>1. \A t \in R : f[t] = d[t] /\ e[t] = g[t]  BY <1>1, <1>2
  <2> HIDE DEF R
  <2>2. QED  BY <1>3, <2>1, SumSame
<1>8. /\ Kraft(x, S) = SumFunctionOnSet(f, S) /\ Kraft(x, R) = SumFunctionOnSet(d, R)
      /\ Costs(S, w, x) = SumFunctionOnSet(e, S) /\ Costs(R, w, x) = SumFunctionOnSet(g, R)
  BY DEF Kraft, Costs, f, e, d, g
<1>9. f[a] = 2 ^ (n - x[a]) /\ e[a] = w[a] * x[a]  BY <1>1
<1> HIDE DEF R
<1>10. QED  BY <1>5, <1>6, <1>7, <1>8, <1>9 DEF R

(* The only longest codeword can lose its last bit.                        *)
LEMMA Shortened ==
  ASSUME NEW S, IsFiniteSet(S), NEW w, \A t \in S : w[t] \in Nat, NEW x \in CodesOver(S),
         Kraft(x, S) <= 2 ^ n, NEW a \in S, NEW b \in S, a # b,
         \A t \in S : t # a => x[t] < x[a]
  PROVE  \E v \in CodesOver(S) :
           /\ Kraft(v, S) <= 2 ^ n /\ Costs(S, w, v) <= Costs(S, w, x)
           /\ SumFunctionOnSet(v, S) < SumFunctionOnSet(x, S)
<1> DEFINE k0 == x[a]
           R == S \ {a}
           v == [t \in S |-> IF t = a THEN k0 - 1 ELSE x[t]]
<1>1. n \in Nat /\ k0 \in Nat /\ k0 <= n /\ k0 >= 1 /\ \A t \in S : x[t] \in 0 .. n
  <2>1. n \in Nat /\ \A t \in S : x[t] \in 0 .. n  BY Parameters DEF CodesOver
  <2>2. x[b] < x[a] /\ x[b] \in Nat /\ x[a] \in Nat  BY <2>1
  <2>3. QED  BY <2>1, <2>2
<1>2. v \in CodesOver(S) /\ v[a] = k0 - 1 /\ \A t \in R : v[t] = x[t]
  <2>1. k0 - 1 \in 0 .. n  BY <1>1
  <2>2. QED  BY <1>1, <2>1 DEF CodesOver
<1> HIDE DEF v
<1>3. /\ Kraft(x, S) = 2 ^ (n - k0) + Kraft(x, R) /\ Kraft(x, R) \in Nat
      /\ Costs(S, w, x) = w[a] * k0 + Costs(R, w, x) /\ Costs(R, w, x) \in Nat
      /\ SumFunctionOnSet(x, S) = k0 + SumFunctionOnSet(x, R) /\ SumFunctionOnSet(x, R) \in Nat
  <2>1. WeighedCode(S, w, x)  BY DEF WeighedCode
  <2>2. QED  BY <2>1, CodeOfOne
<1>4. /\ Kraft(v, S) = 2 ^ (n - (k0 - 1)) + Kraft(v, R)
      /\ Costs(S, w, v) = w[a] * (k0 - 1) + Costs(R, w, v)
      /\ SumFunctionOnSet(v, S) = (k0 - 1) + SumFunctionOnSet(v, R)
  <2>1. WeighedCode(S, w, v)  BY <1>2 DEF WeighedCode
  <2>2. QED  BY <1>2, <2>1, CodeOfOne
<1>5. IsFiniteSet(R)  BY FS_RemoveElement
<1>6. Kraft(v, R) = Kraft(x, R) /\ Costs(R, w, v) = Costs(R, w, x)
      /\ SumFunctionOnSet(v, R) = SumFunctionOnSet(x, R)
  <2> HIDE DEF R, k0
  <2>1. QED  BY <1>2, <1>5, SameCode, SumSame
<1> DEFINE D == 2 ^ (n - k0)
<1>7. /\ D \in Nat \ {0} /\ 2 ^ (n - (k0 - 1)) = 2 * D
      /\ 2 ^ n = (2 * D) * 2 ^ (k0 - 1) /\ 2 ^ (k0 - 1) \in Nat
  <2>1. n - k0 \in Nat /\ k0 - 1 \in Nat /\ n - (k0 - 1) = (n - k0) + 1
        /\ (n - (k0 - 1)) + (k0 - 1) = n /\ n - (k0 - 1) \in Nat
    BY <1>1
  <2>2. 2 ^ (n - (k0 - 1)) = 2 * 2 ^ (n - k0)  BY <2>1, PowerStep
  <2>3. 2 ^ ((n - (k0 - 1)) + (k0 - 1)) = 2 ^ (n - (k0 - 1)) * 2 ^ (k0 - 1)  BY <2>1, PowerOfSum
  <2>4. 2 ^ (n - k0) \in Nat \ {0} /\ 2 ^ (k0 - 1) \in Nat  BY <2>1, PowerPositive
  <2>5. QED  BY <2>1, <2>2, <2>3, <2>4
<1> DEFINE e == [t \in R |-> 2 ^ ((k0 - 1) - x[t])]
           f == [t \in R |-> 2 ^ (n - x[t])]
<1>8. ASSUME NEW t \in R  PROVE e[t] \in Nat /\ f[t] = (2 * D) * e[t]
  <2>1. x[t] \in Nat /\ x[t] < k0  BY <1>1
  <2>2. (k0 - 1) - x[t] \in Nat /\ n - (k0 - 1) \in Nat
        /\ (n - (k0 - 1)) + ((k0 - 1) - x[t]) = n - x[t]
    BY <1>1, <2>1
  <2>3. 2 ^ ((n - (k0 - 1)) + ((k0 - 1) - x[t])) = 2 ^ (n - (k0 - 1)) * 2 ^ ((k0 - 1) - x[t])
    BY <2>2, PowerOfSum
  <2>4. 2 ^ ((k0 - 1) - x[t]) \in Nat  BY <2>2, PowerPositive
  <2>5. f[t] = 2 ^ (n - x[t]) /\ e[t] = 2 ^ ((k0 - 1) - x[t])  OBVIOUS
  <2> HIDE DEF e, f, D
  <2>6. QED  BY <1>7, <2>2, <2>3, <2>4, <2>5
<1> DEFINE Y == SumFunctionOnSet(e, R)
           P == 2 ^ (k0 - 1)
<1>9. Kraft(x, R) = (2 * D) * Y /\ Y \in Nat
  <2>1. Kraft(x, R) = SumFunctionOnSet(f, R)  BY DEF Kraft
  <2>2. 2 * D \in Int  BY <1>7
  <2> HIDE DEF e, f, D, R
  <2>3. \A t \in R : e[t] \in Nat /\ e[t] \in Int  BY <1>8
  <2>4. SumFunctionOnSet(f, R) = (2 * D) * SumFunctionOnSet(e, R)
    BY <1>5, <1>8, <2>2, <2>3, SumMultiple
  <2>5. SumFunctionOnSet(e, R) \in Nat  BY <1>5, <2>3, SumNat
  <2>6. QED  BY <2>1, <2>4, <2>5
<1> HIDE DEF e, f, D, Y, P
<1>10. Y < P
  <2>1. D \in Nat \ {0} /\ P \in Nat /\ D + (2 * D) * Y <= (2 * D) * P
    <3>1. Kraft(x, S) = D + (2 * D) * Y  BY <1>3, <1>9 DEF D
    <3>2. 2 ^ n = (2 * D) * P  BY <1>7 DEF P
    <3>3. D \in Nat \ {0} /\ P \in Nat  BY <1>7 DEF P
    <3>4. QED  BY <3>1, <3>2, <3>3
  <2>2. ASSUME P <= Y  PROVE FALSE
    <3>1. PICK z \in Nat : Y = P + z
      <4>1. Y - P \in Nat /\ Y = P + (Y - P)  BY <1>9, <2>1, <2>2
      <4>2. QED  BY <4>1
    <3>2. (2 * D) * Y = (2 * D) * P + (2 * D) * z /\ (2 * D) * z \in Nat /\ (2 * D) * P \in Nat
      BY <2>1, <3>1
    <3>3. QED  BY <2>1, <3>2
  <2>3. QED  BY <1>9, <2>1, <2>2
<1>11. Kraft(v, S) <= 2 ^ n
  <2>1. D \in Nat \ {0} /\ P \in Nat /\ 2 ^ n = (2 * D) * P  BY <1>7 DEF P
  <2>2. PICK z \in Nat : P = Y + 1 + z
    <3>1. P - Y - 1 \in Nat /\ P = Y + 1 + (P - Y - 1)  BY <1>9, <1>10, <2>1
    <3>2. QED  BY <3>1
  <2>3. (2 * D) * P = (2 * D) * Y + 2 * D + (2 * D) * z /\ (2 * D) * z \in Nat
        /\ (2 * D) * Y \in Nat
    BY <1>9, <2>1, <2>2
  <2>4. Kraft(v, S) = 2 * D + (2 * D) * Y
    <3>1. 2 ^ (n - (k0 - 1)) = 2 * D  BY <1>7
    <3>2. QED  BY <1>4, <1>6, <1>9, <3>1
  <2>5. QED  BY <2>1, <2>3, <2>4
<1>12. Costs(S, w, v) <= Costs(S, w, x)
  <2>1. w[a] \in Nat /\ \A y \in Nat : y * (k0 - 1) <= y * k0 /\ y * (k0 - 1) \in Nat /\ y * k0 \in Nat
    <3>1. ASSUME NEW y \in Nat
          PROVE y * (k0 - 1) <= y * k0 /\ y * (k0 - 1) \in Nat /\ y * k0 \in Nat
      <4> HIDE DEF k0
      <4>1. k0 - 1 \in Nat /\ k0 \in Nat  BY <1>1
      <4>2. y * k0 = y * (k0 - 1) + y /\ y * (k0 - 1) \in Nat  BY <4>1
      <4>3. QED  BY <4>1, <4>2
    <3>2. QED  BY <3>1
  <2> HIDE DEF k0, R
  <2>2. QED  BY <1>3, <1>4, <1>6, <2>1
<1>13. SumFunctionOnSet(v, S) < SumFunctionOnSet(x, S)
  <2> HIDE DEF k0, R
  <2>1. QED  BY <1>1, <1>3, <1>4, <1>6
<1>14. QED  BY <1>2, <1>11, <1>12, <1>13

(* So among the codes that are not dearer one has two longest codewords.   *)
LEMMA LongestPair ==
  ASSUME NEW S, IsFiniteSet(S), NEW w, \A t \in S : w[t] \in Nat, NEW x \in CodesOver(S),
         Kraft(x, S) <= 2 ^ n, NEW f \in S, NEW g \in S, f # g
  PROVE  \E v \in CodesOver(S), a, b \in S :
           /\ Kraft(v, S) <= 2 ^ n /\ Costs(S, w, v) <= Costs(S, w, x)
           /\ a # b /\ v[a] = v[b] /\ v[a] >= 1 /\ \A t \in S : v[t] <= v[a]
<1> DEFINE Good == {v \in CodesOver(S) : Kraft(v, S) <= 2 ^ n /\ Costs(S, w, v) <= Costs(S, w, x)}
           Sizes == {SumFunctionOnSet(v, S) : v \in Good}
<1>0. \A v \in CodesOver(S) : /\ SumFunctionOnSet(v, S) \in Nat
                          /\ Costs(S, w, v) \in Nat
                          /\ \A t \in S : v[t] \in Nat
  BY CodeTerms
<1>1. PICK v \in Good : \A u \in Good : SumFunctionOnSet(v, S) <= SumFunctionOnSet(u, S)
  <2>1. x \in Good
    <3>1. Costs(S, w, x) <= Costs(S, w, x)  BY <1>0
    <3>2. QED  BY <3>1
  <2>2. Sizes \subseteq Nat /\ Sizes # {}
    <3>1. \A u \in Good : SumFunctionOnSet(u, S) \in Nat  BY <1>0
    <3> HIDE DEF Good
    <3>2. QED  BY <2>1, <3>1
  <2>3. PICK z \in Sizes : \A y \in Sizes : z <= y
    <3> HIDE DEF Sizes
    <3>1. QED  BY <2>2, LeastNumber
  <2> HIDE DEF Good
  <2>4. QED  BY <2>3
<1>2. v \in CodesOver(S) /\ Kraft(v, S) <= 2 ^ n /\ Costs(S, w, v) <= Costs(S, w, x)  OBVIOUS
<1>3. n \in Nat /\ \A t \in S : v[t] \in Nat /\ n - v[t] \in Nat
  <2>1. n \in Nat /\ \A t \in S : v[t] \in 0 .. n  BY <1>2, Parameters DEF CodesOver
  <2>2. QED  BY <2>1
<1>4. PICK a \in S : \A t \in S : v[t] <= v[a]
  <2> DEFINE Gaps == {n - v[t] : t \in S}
  <2>1. Gaps \subseteq Nat /\ Gaps # {}  BY <1>3
  <2>2. PICK z \in Gaps : \A y \in Gaps : z <= y
    <3> HIDE DEF Gaps
    <3>1. QED  BY <2>1, LeastNumber
  <2>3. PICK a \in S : z = n - v[a]  OBVIOUS
  <2>4. ASSUME NEW t \in S  PROVE v[t] <= v[a]
    <3>1. n - v[a] <= n - v[t]  BY <2>2, <2>3
    <3>2. v[t] \in Nat /\ v[a] \in Nat  BY <1>3
    <3>3. QED  BY <1>3, <3>1, <3>2
  <2>5. QED  BY <2>4
<1>5. PICK c \in S : c # a
  <2>1. f # a \/ g # a  OBVIOUS
  <2>2. QED  BY <2>1
<1>6. \E b \in S : b # a /\ v[b] = v[a]
  <2>1. ASSUME \A b \in S : b # a => v[b] # v[a]  PROVE FALSE
    <3>1. \A t \in S : t # a => v[t] < v[a]
      <4>1. ASSUME NEW t \in S, t # a  PROVE v[t] < v[a]
        <5>1. v[t] <= v[a] /\ v[t] # v[a] /\ v[t] \in Nat /\ v[a] \in Nat
          BY <1>3, <1>4, <2>1, <4>1
        <5>2. QED  BY <5>1
      <4>2. QED  BY <4>1
    <3>2. PICK u \in CodesOver(S) : /\ Kraft(u, S) <= 2 ^ n /\ Costs(S, w, u) <= Costs(S, w, v)
                                /\ SumFunctionOnSet(u, S) < SumFunctionOnSet(v, S)
      <4> HIDE DEF Good
      <4>1. QED  BY <1>2, <1>5, <3>1, Shortened
    <3>3. u \in Good
      <4>1. Costs(S, w, u) <= Costs(S, w, x)
        <5>1. Costs(S, w, u) \in Nat /\ Costs(S, w, v) \in Nat /\ Costs(S, w, x) \in Nat
          BY <1>0, <1>2
        <5>2. QED  BY <1>2, <3>2, <5>1
      <4>2. QED  BY <3>2, <4>1
    <3>4. SumFunctionOnSet(v, S) <= SumFunctionOnSet(u, S)  BY <1>1, <3>3
    <3>5. SumFunctionOnSet(v, S) \in Nat /\ SumFunctionOnSet(u, S) \in Nat  BY <1>0, <1>2
    <3>6. QED  BY <3>2, <3>4, <3>5
  <2>2. QED  BY <2>1
<1>7. PICK b \in S : b # a /\ v[b] = v[a]  BY <1>6
<1> HIDE DEF Good
<1>8. v[a] >= 1
  <2>1. ASSUME v[a] = 0  PROVE FALSE
    <3>1. n - v[a] = n /\ n - v[b] = n  BY <1>3, <1>7, <2>1
    <3>2. Kraft(v, S) = 2 ^ n + 2 ^ n + Kraft(v, S \ {a, b}) /\ 2 ^ n \in Nat \ {0}
      <4>1. Kraft(v, S) = 2 ^ (n - v[a]) + 2 ^ (n - v[b]) + Kraft(v, S \ {a, b})
        BY <1>2, <1>7, CodeOfTwo
      <4>2. 2 ^ n \in Nat \ {0}  BY <1>3, PowerPositive
      <4>3. QED  BY <3>1, <4>1, <4>2
    <3>3. Kraft(v, S \ {a, b}) \in Nat
      <4> DEFINE R == S \ {a, b}
                 d == [z \in R |-> 2 ^ (n - v[z])]
      <4>1. \A z \in R : d[z] \in Nat
        <5>1. \A z \in R : d[z] = 2 ^ (n - v[z]) /\ n - v[z] \in Nat  BY <1>3
        <5> HIDE DEF d
        <5>2. QED  BY <5>1, PowerPositive
      <4>2. IsFiniteSet(R)  BY FS_Subset
      <4> HIDE DEF R, d
      <4>3. SumFunctionOnSet(d, R) \in Nat  BY <4>1, <4>2, SumNat
      <4>4. QED  BY <4>3 DEF Kraft, d, R
    <3>4. QED  BY <1>2, <3>2, <3>3
  <2>2. v[a] \in Nat  BY <1>3
  <2>3. QED  BY <2>1, <2>2
<1>9. QED  BY <1>2, <1>4, <1>7, <1>8

(* And these may be those of the two smallest weights.                     *)
LEMMA LowestAreLongest ==
  ASSUME NEW S, IsFiniteSet(S), NEW w, \A t \in S : w[t] \in Nat, NEW x \in CodesOver(S),
         Kraft(x, S) <= 2 ^ n, NEW f \in S, NEW g \in S, f # g,
         \A t \in S : w[f] <= w[t], \A t \in S : t # f => w[g] <= w[t]
  PROVE  \E v \in CodesOver(S) : /\ Kraft(v, S) <= 2 ^ n /\ Costs(S, w, v) <= Costs(S, w, x)
                             /\ v[f] = v[g] /\ v[f] >= 1
<1>1. PICK v \in CodesOver(S), a \in S, b \in S :
        /\ Kraft(v, S) <= 2 ^ n /\ Costs(S, w, v) <= Costs(S, w, x)
        /\ a # b /\ v[a] = v[b] /\ v[a] >= 1 /\ \A t \in S : v[t] <= v[a]
  BY LongestPair
<1>2. PICK u \in CodesOver(S) :
        /\ Kraft(u, S) = Kraft(v, S) /\ Costs(S, w, u) <= Costs(S, w, v)
        /\ u[f] = v[a] /\ u[a] = v[f] /\ \A t \in S \ {a, f} : u[t] = v[t]
  <2>1. v[f] <= v[a] /\ w[f] <= w[a]  BY <1>1
  <2>2. QED  BY <2>1, Swapped
<1> DEFINE c == IF b = f THEN a ELSE b
<1>3. c \in S /\ c # f /\ u[c] = v[a]
  <2>1. CASE b = f  BY <1>1, <1>2, <2>1
  <2>2. CASE b # f
    <3>1. b \in S \ {a, f}  BY <1>1, <2>2
    <3>2. QED  BY <1>1, <1>2, <2>2, <3>1
  <2>3. QED  BY <2>1, <2>2
<1>4. u[g] <= v[a]
  <2>1. CASE g = a  BY <1>1, <1>2, <2>1
  <2>2. CASE g # a
    <3>1. g \in S \ {a, f}  BY <2>2
    <3>2. QED  BY <1>1, <1>2, <3>1
  <2>3. QED  BY <2>1, <2>2
<1> HIDE DEF c
<1>5. PICK z \in CodesOver(S) :
        /\ Kraft(z, S) = Kraft(u, S) /\ Costs(S, w, z) <= Costs(S, w, u)
        /\ z[g] = u[c] /\ z[c] = u[g] /\ \A t \in S \ {c, g} : z[t] = u[t]
  <2>1. u[g] <= u[c] /\ w[g] <= w[c]  BY <1>3, <1>4
  <2>2. QED  BY <1>3, <2>1, Swapped
<1>6. z[f] = v[a] /\ z[g] = v[a]
  <2>1. f \in S \ {c, g}  BY <1>3
  <2>2. QED  BY <1>2, <1>3, <1>5, <2>1
<1>7. Costs(S, w, z) <= Costs(S, w, x)
  <2>1. Costs(S, w, z) \in Nat /\ Costs(S, w, u) \in Nat /\ Costs(S, w, v) \in Nat
        /\ Costs(S, w, x) \in Nat
    BY CodeTerms
  <2>2. QED  BY <1>1, <1>2, <1>5, <2>1
<1>8. QED  BY <1>1, <1>2, <1>5, <1>6, <1>7

(* The roots' weights, and the lengths the symbols have so far.            *)
Freqs(E) == [e \in E |-> Freq(e)]
Depths(m, d) == [u \in 1 .. m |-> d[n + u]]

LEMMA JoinedCode ==
  ASSUME NEW E, IsFiniteSet(E), \A z \in E : Freq(z) \in Nat, NEW x \in CodesOver(E),
         NEW f \in E, NEW g \in E, f # g, x[f] = x[g], x[f] >= 1,
         NEW e, e \notin E \ {f, g}, Freq(e) = Freq(f) + Freq(g)
  PROVE  LET H == JoinedHeap(E, f, g, e)
         IN \E v \in CodesOver(H) :
              /\ Kraft(v, H) = Kraft(x, E)
              /\ Costs(H, Freqs(H), v) + Freq(e) = Costs(E, Freqs(E), x)
<1> DEFINE R == E \ {f, g}
           H == JoinedHeap(E, f, g, e)
           k0 == x[f]
           v == [t \in H |-> IF t = e THEN k0 - 1 ELSE x[t]]
<1>1. H = R \cup {e} /\ e \in H /\ H \ {e} = R /\ IsFiniteSet(H)
  <2>1. H = R \cup {e} /\ e \in H /\ H \ {e} = R  BY DEF JoinedHeap
  <2>2. IsFiniteSet(R)  BY FS_Subset
  <2> HIDE DEF R, H
  <2>3. QED  BY <2>1, <2>2, FS_AddElement
<1>2. n \in Nat /\ k0 \in Nat /\ k0 >= 1 /\ k0 <= n /\ \A t \in R : x[t] \in 0 .. n
  <2>1. n \in Nat /\ \A t \in E : x[t] \in 0 .. n  BY Parameters DEF CodesOver
  <2>2. QED  BY <2>1
<1>3. v \in CodesOver(H) /\ v[e] = k0 - 1 /\ \A t \in R : v[t] = x[t]
  <2>1. k0 - 1 \in 0 .. n  BY <1>2
  <2>2. \A t \in R : t # e /\ t \in H  BY <1>1
  <2>3. \A t \in H : t = e \/ t \in R  BY <1>1
  <2> HIDE DEF k0, H, R
  <2>4. v \in [H -> 0 .. n]  BY <1>2, <2>1, <2>3
  <2>5. QED  BY <1>1, <2>2, <2>4 DEF CodesOver
<1> HIDE DEF v, H
<1>4. /\ Kraft(x, E) = 2 ^ (n - k0) + 2 ^ (n - k0) + Kraft(x, R)
      /\ Costs(E, Freqs(E), x) = Freq(f) * k0 + Freq(g) * k0 + Costs(R, Freqs(E), x)
      /\ Kraft(x, R) \in Int /\ Costs(R, Freqs(E), x) \in Int
  <2>1. \A t \in E : Freqs(E)[t] \in Nat  BY DEF Freqs
  <2>2. Freqs(E)[f] = Freq(f) /\ Freqs(E)[g] = Freq(g)  BY DEF Freqs
  <2>3. /\ Kraft(x, E) = 2 ^ (n - x[f]) + 2 ^ (n - x[g]) + Kraft(x, E \ {f, g})
        /\ Costs(E, Freqs(E), x) =
             Freqs(E)[f] * x[f] + Freqs(E)[g] * x[g] + Costs(E \ {f, g}, Freqs(E), x)
        /\ Kraft(x, E \ {f, g}) \in Int /\ Costs(E \ {f, g}, Freqs(E), x) \in Int
    BY <2>1, CodeOfTwo
  <2>4. QED  BY <2>2, <2>3
<1>5. /\ Kraft(v, H) = 2 ^ (n - (k0 - 1)) + Kraft(v, R)
      /\ Costs(H, Freqs(H), v) = Freq(e) * (k0 - 1) + Costs(R, Freqs(H), v)
  <2>1. \A t \in H : Freqs(H)[t] \in Nat /\ Freqs(H)[t] = Freq(t)
    <3>1. Freq(f) \in Nat /\ Freq(g) \in Nat  OBVIOUS
    <3>2. \A t \in H : Freq(t) \in Nat  BY <1>1, <3>1
    <3>3. QED  BY <3>2 DEF Freqs
  <2>2. /\ Kraft(v, H) = 2 ^ (n - v[e]) + Kraft(v, H \ {e})
        /\ Costs(H, Freqs(H), v) = Freqs(H)[e] * v[e] + Costs(H \ {e}, Freqs(H), v)
    <3>1. WeighedCode(H, Freqs(H), v)  BY <1>1, <1>3, <2>1 DEF WeighedCode
    <3>2. e \in H  BY <1>1
    <3>3. QED  BY ONLY <3>1, <3>2, CodeOfOne
  <2>3. QED  BY <1>1, <1>3, <2>1, <2>2
<1>6. Kraft(v, R) = Kraft(x, R)  BY <1>3 DEF Kraft
<1>7. Costs(R, Freqs(H), v) = Costs(R, Freqs(E), x)
  <2>1. \A t \in R : t \in H /\ t \in E  BY <1>1
  <2>2. \A t \in R : Freqs(H)[t] = Freq(t) /\ Freqs(E)[t] = Freq(t)  BY <2>1 DEF Freqs
  <2>3. QED  BY <1>3, <2>2 DEF Costs
<1> HIDE DEF R, k0
<1>8. Kraft(v, H) = Kraft(x, E)
  <2>1. n - k0 \in Nat /\ n - (k0 - 1) = (n - k0) + 1  BY <1>2
  <2>2. 2 ^ (n - (k0 - 1)) = 2 * 2 ^ (n - k0) /\ 2 ^ (n - k0) \in Nat
    BY <2>1, PowerStep, PowerPositive
  <2> DEFINE D == 2 ^ (n - k0)
  <2>3. Kraft(v, H) = 2 * D + Kraft(x, R) /\ Kraft(x, E) = D + D + Kraft(x, R) /\ D \in Nat
    BY <1>4, <1>5, <1>6, <2>2
  <2> HIDE DEF D
  <2>4. QED  BY <1>4, <2>3
<1>9. Costs(H, Freqs(H), v) + Freq(e) = Costs(E, Freqs(E), x)
  <2>1. Freq(f) \in Nat /\ Freq(g) \in Nat  OBVIOUS
  <2>2. \A y, z \in Nat : (y + z) * (k0 - 1) + (y + z) = y * k0 + z * k0
                          /\ (y + z) * (k0 - 1) \in Int /\ y * k0 \in Int /\ z * k0 \in Int
    BY <1>2
  <2> DEFINE a == Freq(f)
             b == Freq(g)
             c == Costs(R, Freqs(E), x)
  <2>3. /\ Costs(E, Freqs(E), x) = a * k0 + b * k0 + c
        /\ Costs(H, Freqs(H), v) = (a + b) * (k0 - 1) + c /\ Freq(e) = a + b /\ c \in Int
    BY <1>4, <1>5, <1>7
  <2>4. a \in Nat /\ b \in Nat  BY <2>1
  <2> HIDE DEF a, b, c
  <2>5. QED  BY <2>2, <2>3, <2>4
<1>10. QED  BY <1>3, <1>8, <1>9 DEF H

(* A bit more for every symbol of a set.                                   *)
Longer(m, caps, d, q, B) ==
  /\ m \in 0 .. n /\ B \subseteq 1 .. m
  /\ \A u \in 1 .. m : caps[u] \in Nat /\ d[n + u] \in Nat
  /\ \A u \in 1 .. m : q[n + u] = IF u \in B THEN d[n + u] + 1 ELSE d[n + u]

LEMMA LongerCode ==
  ASSUME NEW m, NEW caps, NEW d, NEW q, NEW B, Longer(m, caps, d, q, B)
  PROVE  /\ Costs(1 .. m, caps, Depths(m, q)) =
              Costs(1 .. m, caps, Depths(m, d)) + SumFunctionOnSet(caps, B)
         /\ Costs(1 .. m, caps, Depths(m, d)) \in Nat /\ SumFunctionOnSet(caps, B) \in Nat
<1>0. /\ m \in 0 .. n /\ B \subseteq 1 .. m
      /\ \A u \in 1 .. m : caps[u] \in Nat /\ d[n + u] \in Nat
      /\ \A u \in 1 .. m : q[n + u] = IF u \in B THEN d[n + u] + 1 ELSE d[n + u]
  BY DEF Longer
<1> DEFINE S == 1 .. m
           f == [t \in S |-> caps[t] * Depths(m, q)[t]]
           e == [t \in S |-> caps[t] * Depths(m, d)[t]]
           g == [t \in S |-> IF t \in B THEN caps[t] ELSE 0]
<1>1. IsFiniteSet(S) /\ IsFiniteSet(B) /\ IsFiniteSet(S \ B)
  <2>1. m \in Nat  BY <1>0, Parameters
  <2>2. IsFiniteSet(1 .. m)  BY <2>1, FS_Interval
  <2>3. QED  BY <1>0, <2>2, FS_Subset
<1>2. ASSUME NEW t \in S
      PROVE  e[t] \in Nat /\ g[t] \in Nat /\ f[t] = e[t] + g[t]
  <2>1. e[t] = caps[t] * d[n + t] /\ f[t] = caps[t] * q[n + t]  BY DEF Depths
  <2>2. g[t] = IF t \in B THEN caps[t] ELSE 0  OBVIOUS
  <2>3. caps[t] \in Nat /\ d[n + t] \in Nat
        /\ q[n + t] = IF t \in B THEN d[n + t] + 1 ELSE d[n + t]
    BY <1>0
  <2> HIDE DEF e, f, g
  <2>4. \A y, z \in Nat : y * z \in Nat /\ y * (z + 1) = y * z + y /\ y * z = y * z + 0  OBVIOUS
  <2>5. QED  BY <2>1, <2>2, <2>3, <2>4
<1>3. B \cap (S \ B) = {} /\ B \cup (S \ B) = S  BY <1>0
<1>4. \A t \in B : t \in S /\ g[t] = caps[t] /\ caps[t] \in Nat  BY <1>0
<1>5. \A t \in S \ B : g[t] = 0  BY <1>0
<1>6. Costs(1 .. m, caps, Depths(m, q)) = SumFunctionOnSet(f, S)
      /\ Costs(1 .. m, caps, Depths(m, d)) = SumFunctionOnSet(e, S)
  BY DEF Costs
<1> HIDE DEF S, e, f, g
<1>7. SumFunctionOnSet(f, S) = SumFunctionOnSet(e, S) + SumFunctionOnSet(g, S)
  <2>1. \A t \in S : e[t] \in Int /\ g[t] \in Int /\ f[t] = e[t] + g[t]  BY <1>2
  <2>2. QED  BY <1>1, <2>1, SumAdded
<1>8. SumFunctionOnSet(g, S) = SumFunctionOnSet(caps, B) /\ SumFunctionOnSet(caps, B) \in Nat
  <2> DEFINE Z == S \ B
  <2>1. \A t \in B \cup Z : g[t] \in Int  BY <1>2, <1>3
  <2>2. IsFiniteSet(Z) /\ B \cap Z = {} /\ B \cup Z = S  BY <1>1, <1>3
  <2>3. \A t \in Z : g[t] = 0  BY <1>5
  <2> HIDE DEF Z
  <2>4. SumFunctionOnSet(g, B \cup Z) = SumFunctionOnSet(g, B) + SumFunctionOnSet(g, Z)
    BY <1>1, <2>1, <2>2, SumOfParts
  <2>5. SumFunctionOnSet(g, Z) = 0  BY <2>2, <2>3, SumZero
  <2>6. SumFunctionOnSet(g, B) = SumFunctionOnSet(caps, B)  BY <1>1, <1>4, SumSame
  <2>7. SumFunctionOnSet(caps, B) \in Nat  BY <1>1, <1>4, SumNat
  <2>8. B \cup Z = S  BY <2>2
  <2>9. SumFunctionOnSet(g, S) = SumFunctionOnSet(g, B) + SumFunctionOnSet(g, Z)
    BY ONLY <2>4, <2>8, Zenon
  <2>10. SumFunctionOnSet(g, S) = SumFunctionOnSet(caps, B)  BY ONLY <2>5, <2>6, <2>7, <2>9
  <2>11. QED  BY <2>7, <2>10
<1>9. SumFunctionOnSet(e, S) \in Nat  BY <1>1, <1>2, SumNat
<1>10. QED  BY <1>6, <1>7, <1>8, <1>9

(* No code of the symbols is cheaper than the trees under some code of     *)
(* their roots.                                                            *)
Cheapest(E, m, caps, d) ==
  \A y \in CodesOver(1 .. m) : Kraft(y, 1 .. m) <= 2 ^ n =>
    \E x \in CodesOver(E) : /\ Kraft(x, E) <= 2 ^ n
                        /\ Costs(E, Freqs(E), x) + Costs(1 .. m, caps, Depths(m, d))
                             <= Costs(1 .. m, caps, y)

(* What joining f and g to e has to do with the symbols' depths d and q.   *)
CheapJoin(m, E, caps, d, f, g, e, B, q) ==
  /\ m \in 0 .. n /\ E \subseteq 0 .. UNIT * UNIT - 1
  /\ \A u \in 1 .. m : caps[u] \in Nat /\ d[n + u] \in Nat
  /\ f \in E /\ g \in E /\ f # g /\ Freq(e) = Freq(f) + Freq(g) /\ e \notin E \ {f, g}
  /\ \A z \in E : Freq(f) <= Freq(z)
  /\ \A z \in E : z # f => Freq(g) <= Freq(z)
  /\ B \subseteq 1 .. m /\ SumFunctionOnSet(caps, B) = Freq(e)
  /\ \A u \in 1 .. m : q[n + u] = IF u \in B THEN d[n + u] + 1 ELSE d[n + u]

LEMMA EntriesFinite ==
  ASSUME NEW E, E \subseteq 0 .. UNIT * UNIT - 1  PROVE IsFiniteSet(E)
<1>1. UNIT * UNIT - 1 \in Nat  BY Spaces
<1>2. IsFiniteSet(0 .. UNIT * UNIT - 1)  BY <1>1, FS_Interval
<1>3. QED  BY <1>2, FS_Subset

LEMMA JoinCheapest ==
  ASSUME NEW m, NEW E, NEW caps, NEW d, NEW f, NEW g, NEW e, NEW B, NEW q,
         CheapJoin(m, E, caps, d, f, g, e, B, q), Cheapest(E, m, caps, d)
  PROVE  Cheapest(JoinedHeap(E, f, g, e), m, caps, q)
<1> DEFINE H == JoinedHeap(E, f, g, e)
           S == 1 .. m
<1> SUFFICES ASSUME NEW y \in CodesOver(S), Kraft(y, S) <= 2 ^ n
             PROVE  \E x \in CodesOver(H) :
                      /\ Kraft(x, H) <= 2 ^ n
                      /\ Costs(H, Freqs(H), x) + Costs(S, caps, Depths(m, q)) <= Costs(S, caps, y)
  BY DEF Cheapest
<1>1. /\ m \in 0 .. n /\ E \subseteq 0 .. UNIT * UNIT - 1
      /\ \A u \in 1 .. m : caps[u] \in Nat /\ d[n + u] \in Nat
      /\ f \in E /\ g \in E /\ f # g /\ Freq(e) = Freq(f) + Freq(g) /\ e \notin E \ {f, g}
      /\ \A z \in E : Freq(f) <= Freq(z)
      /\ \A z \in E : z # f => Freq(g) <= Freq(z)
      /\ B \subseteq 1 .. m /\ SumFunctionOnSet(caps, B) = Freq(e)
      /\ \A u \in 1 .. m : q[n + u] = IF u \in B THEN d[n + u] + 1 ELSE d[n + u]
  BY DEF CheapJoin
<1>2. IsFiniteSet(E) /\ (\A z \in E : Freq(z) \in Nat) /\ IsFiniteSet(S)
  <2>1. UNIT \in Nat /\ m \in Nat  BY <1>1, Parameters
  <2>2. IsFiniteSet(1 .. m)  BY <2>1, FS_Interval
  <2>3. IsFiniteSet(E)  BY <1>1, EntriesFinite
  <2>4. \A z \in E : Freq(z) \in 0 .. UNIT - 1  BY <1>1, EntryForm
  <2>5. QED  BY <2>1, <2>2, <2>3, <2>4
<1> HIDE DEF H, S
<1>3. PICK x \in CodesOver(E) :
        /\ Kraft(x, E) <= 2 ^ n
        /\ Costs(E, Freqs(E), x) + Costs(S, caps, Depths(m, d)) <= Costs(S, caps, y)
  BY DEF Cheapest, S
<1>4. \A t \in E : Freqs(E)[t] = Freq(t) /\ Freqs(E)[t] \in Nat  BY <1>2 DEF Freqs
<1>5. PICK v \in CodesOver(E) :
        /\ Kraft(v, E) <= 2 ^ n /\ Costs(E, Freqs(E), v) <= Costs(E, Freqs(E), x)
        /\ v[f] = v[g] /\ v[f] >= 1
  <2>1. (\A t \in E : Freqs(E)[f] <= Freqs(E)[t]) /\ (\A t \in E : t # f => Freqs(E)[g] <= Freqs(E)[t])
    BY <1>1, <1>4
  <2>2. \A t \in E : Freqs(E)[t] \in Nat  BY <1>4
  <2>3. IsFiniteSet(E) /\ f \in E /\ g \in E /\ f # g /\ x \in CodesOver(E) /\ Kraft(x, E) <= 2 ^ n
    BY <1>1, <1>2, <1>3
  <2>4. QED  BY ONLY <2>1, <2>2, <2>3, LowestAreLongest
<1>6. PICK z \in CodesOver(H) :
        /\ Kraft(z, H) = Kraft(v, E)
        /\ Costs(H, Freqs(H), z) + Freq(e) = Costs(E, Freqs(E), v)
  <2>1. /\ IsFiniteSet(E) /\ (\A t \in E : Freq(t) \in Nat) /\ v \in CodesOver(E)
        /\ f \in E /\ g \in E /\ f # g /\ v[f] = v[g] /\ v[f] >= 1
        /\ e \notin E \ {f, g} /\ Freq(e) = Freq(f) + Freq(g)
    BY <1>1, <1>2, <1>5
  <2>2. QED  BY ONLY <2>1, JoinedCode DEF H
<1>7. Costs(S, caps, Depths(m, q)) = Costs(S, caps, Depths(m, d)) + Freq(e)
      /\ Costs(S, caps, Depths(m, d)) \in Nat /\ Freq(e) \in Nat
  <2>1. /\ m \in 0 .. n /\ (\A u \in 1 .. m : caps[u] \in Nat) /\ B \subseteq 1 .. m
        /\ \A u \in 1 .. m : d[n + u] \in Nat
        /\ \A u \in 1 .. m : q[n + u] = IF u \in B THEN d[n + u] + 1 ELSE d[n + u]
    BY <1>1
  <2>2. Longer(m, caps, d, q, B)  BY <2>1 DEF Longer
  <2>3. /\ Costs(1 .. m, caps, Depths(m, q)) =
              Costs(1 .. m, caps, Depths(m, d)) + SumFunctionOnSet(caps, B)
        /\ Costs(1 .. m, caps, Depths(m, d)) \in Nat /\ SumFunctionOnSet(caps, B) \in Nat
    BY ONLY <2>2, LongerCode
  <2>4. QED  BY <1>1, <2>3 DEF S
<1>8. Costs(E, Freqs(E), v) \in Nat /\ Costs(E, Freqs(E), x) \in Nat  BY <1>2, <1>4, CodeTerms
<1>9. Costs(S, caps, y) \in Nat
  <2>1. \A u \in S : caps[u] \in Nat  BY <1>1 DEF S
  <2>2. QED  BY <1>2, <2>1, CodeTerms
<1>10. Costs(H, Freqs(H), z) \in Nat
  <2>1. IsFiniteSet(H) /\ \A t \in H : Freqs(H)[t] \in Nat
    <3>1. H = (E \ {f, g}) \cup {e}  BY DEF H, JoinedHeap
    <3>2. IsFiniteSet(E \ {f, g})  BY <1>2, FS_Subset
    <3>3. IsFiniteSet(H)  BY <3>1, <3>2, FS_AddElement
    <3>4. \A t \in H : Freq(t) \in Nat  BY <1>2, <1>7, <3>1
    <3>5. QED  BY <3>3, <3>4 DEF Freqs
  <2>2. QED  BY <2>1, CodeTerms
<1>11. Costs(H, Freqs(H), z) + Costs(S, caps, Depths(m, q)) <= Costs(S, caps, y)
  BY <1>3, <1>5, <1>6, <1>7, <1>8, <1>9, <1>10
<1>12. QED  BY <1>5, <1>6, <1>11

LEMMA SymbolsCheapest ==
  ASSUME NEW m \in 0 .. n, NEW caps \in [1 .. m -> 0 .. UNIT - 1], NEW a,
         \A x \in 1 .. m : a[x] = caps[x] * UNIT + (n + x),
         NEW d, \A u \in 1 .. m : d[n + u] = 0
  PROVE  Cheapest({a[x] : x \in 1 .. m}, m, caps, d)
<1> DEFINE E == {a[x] : x \in 1 .. m}
           S == 1 .. m
<1> SUFFICES ASSUME NEW y \in CodesOver(S), Kraft(y, S) <= 2 ^ n
             PROVE  \E x \in CodesOver(E) :
                      /\ Kraft(x, E) <= 2 ^ n
                      /\ Costs(E, Freqs(E), x) + Costs(S, caps, Depths(m, d)) <= Costs(S, caps, y)
  BY DEF Cheapest
<1>1. n \in Nat \ {0} /\ 2 * n < UNIT /\ UNIT \in Nat /\ m \in Nat  BY Parameters
<1>2. IsFiniteSet(S)  BY <1>1, FS_Interval
<1>3. ASSUME NEW u \in S
      PROVE  Freq(a[u]) = caps[u] /\ Link(a[u]) - n = u /\ caps[u] \in Nat /\ a[u] \in E
  <2>1. n + u \in 0 .. UNIT - 1 /\ caps[u] \in 0 .. UNIT - 1 /\ n + u - n = u  BY <1>1
  <2>2. a[u] = caps[u] * UNIT + (n + u) /\ a[u] \in E  OBVIOUS
  <2>3. Freq(a[u]) = caps[u] /\ Link(a[u]) = n + u  BY <2>1, <2>2, EntryParts
  <2>4. caps[u] \in Nat  BY <1>1, <2>1
  <2>5. Link(a[u]) - n = u  BY <1>1, <2>3
  <2>6. QED  BY <2>2, <2>3, <2>4, <2>5, Zenon
<1> DEFINE x == [e \in E |-> y[Link(e) - n]]
<1>4. \A u \in S : x[a[u]] = y[u]  BY <1>3
<1>5. x \in CodesOver(E)
  <2>1. \A u \in S : y[u] \in 0 .. n  BY DEF CodesOver
  <2>2. \A e \in E : \E u \in S : e = a[u]  OBVIOUS
  <2>3. \A e \in E : x[e] = y[Link(e) - n]  OBVIOUS
  <2>4. x = [e \in E |-> x[e]]  OBVIOUS
  <2> HIDE DEF x, E, S
  <2>5. \A e \in E : x[e] \in 0 .. n  BY <1>4, <2>1, <2>2
  <2>6. QED  BY <2>4, <2>5 DEF CodesOver
<1>6. \A u, v \in S : a[u] = a[v] => u = v  BY <1>3
<1> DEFINE f == [t \in S |-> 2 ^ (n - y[t])]
           fE == [e \in E |-> 2 ^ (n - x[e])]
           c == [t \in S |-> caps[t] * y[t]]
           cE == [e \in E |-> Freqs(E)[e] * x[e]]
<1>7. \A u \in S : /\ f[u] \in Int /\ c[u] \in Int
                   /\ f[u] = 2 ^ (n - y[u]) /\ c[u] = caps[u] * y[u]
  <2>1. \A u \in S : f[u] = 2 ^ (n - y[u]) /\ c[u] = caps[u] * y[u]  OBVIOUS
  <2>2. \A u \in S : caps[u] \in Nat  BY <1>3
  <2> HIDE DEF f, c, S, x, E
  <2>3. \A u \in S : 2 ^ (n - y[u]) \in Int /\ caps[u] * y[u] \in Int  BY <1>2, <2>2, CodeTerms
  <2>4. QED  BY <2>1, <2>3
<1>8. \A u \in S : fE[a[u]] = f[u] /\ cE[a[u]] = c[u]
  <2>1. \A u \in S : fE[a[u]] = 2 ^ (n - x[a[u]]) /\ cE[a[u]] = Freqs(E)[a[u]] * x[a[u]]
    BY <1>3
  <2>2. \A u \in S : Freqs(E)[a[u]] = caps[u]  BY <1>3 DEF Freqs
  <2> HIDE DEF x, f, fE, c, cE, E, S
  <2>3. QED  BY <1>4, <1>7, <2>1, <2>2
<1>9. Kraft(y, S) = SumFunctionOnSet(f, S) /\ Kraft(x, E) = SumFunctionOnSet(fE, E)
      /\ Costs(S, caps, y) = SumFunctionOnSet(c, S) /\ Costs(E, Freqs(E), x) = SumFunctionOnSet(cE, E)
  BY DEF Kraft, Costs
<1>10. E = {a[u] : u \in S}  OBVIOUS
<1> DEFINE z == [t \in S |-> caps[t] * Depths(m, d)[t]]
<1>11. Costs(S, caps, Depths(m, d)) = SumFunctionOnSet(z, S)  BY DEF Costs
<1>12. \A t \in S : z[t] = 0
  <2>1. \A t \in S : z[t] = caps[t] * 0  BY DEF Depths
  <2>2. \A t \in S : caps[t] * 0 = 0  BY <1>3
  <2> HIDE DEF z
  <2>3. QED  BY <2>1, <2>2
<1> HIDE DEF x, f, fE, c, cE, E, S, z
<1>13. SumFunctionOnSet(f, S) = SumFunctionOnSet(fE, E) /\ SumFunctionOnSet(c, S) = SumFunctionOnSet(cE, E)
  <2>1. \A u \in S : /\ fE[a[u]] \in Int /\ f[u] = fE[a[u]]
                     /\ cE[a[u]] \in Int /\ c[u] = cE[a[u]]
    BY <1>7, <1>8
  <2>2. SumFunctionOnSet(f, S) = SumFunctionOnSet(fE, {a[u] : u \in S})
    BY <1>2, <1>6, <2>1, SumRenamed
  <2>3. SumFunctionOnSet(c, S) = SumFunctionOnSet(cE, {a[u] : u \in S})
    BY <1>2, <1>6, <2>1, SumRenamed
  <2>4. QED  BY <1>10, <2>2, <2>3
<1>14. Costs(S, caps, Depths(m, d)) = 0  BY <1>2, <1>11, <1>12, SumZero
<1>15. SumFunctionOnSet(c, S) \in Int  BY <1>2, <1>7, SumInt
<1>16. Costs(E, Freqs(E), x) + Costs(S, caps, Depths(m, d)) <= Costs(S, caps, y)
  BY <1>9, <1>13, <1>14, <1>15
<1>17. QED  BY <1>5, <1>9, <1>13, <1>16

(* Whatever the roots' code costs, the depths cost no more than any code.  *)
Best(m, caps, d) ==
  \A y \in CodesOver(1 .. m) : Kraft(y, 1 .. m) <= 2 ^ n =>
    Costs(1 .. m, caps, Depths(m, d)) <= Costs(1 .. m, caps, y)

LEMMA CheapestIsBest ==
  ASSUME NEW m \in 0 .. n, NEW E, E \subseteq 0 .. UNIT * UNIT - 1, NEW caps, NEW d,
         \A u \in 1 .. m : caps[u] \in Nat /\ d[n + u] \in 0 .. n, Cheapest(E, m, caps, d)
  PROVE  Best(m, caps, d)
<1> DEFINE S == 1 .. m
<1> SUFFICES ASSUME NEW y \in CodesOver(S), Kraft(y, S) <= 2 ^ n
             PROVE  Costs(S, caps, Depths(m, d)) <= Costs(S, caps, y)
  BY DEF Best
<1>1. PICK x \in CodesOver(E) :
        Costs(E, Freqs(E), x) + Costs(S, caps, Depths(m, d)) <= Costs(S, caps, y)
  BY DEF Cheapest
<1>2. IsFiniteSet(S)
  <2>1. m \in Nat  BY Parameters
  <2>2. QED  BY <2>1, FS_Interval
<1>3. \A z \in E : Freqs(E)[z] \in Nat
  <2>1. \A z \in E : Freq(z) \in 0 .. UNIT - 1  BY EntryForm
  <2>2. \A z \in E : Freqs(E)[z] = Freq(z)  BY DEF Freqs
  <2>3. QED  BY <2>1, <2>2, Parameters
<1>4. IsFiniteSet(E)  BY EntriesFinite
<1>5. Costs(E, Freqs(E), x) \in Nat  BY <1>3, <1>4, CodeTerms
<1>6. \A t \in S : caps[t] \in Nat  OBVIOUS
<1>7. Depths(m, d) \in CodesOver(S)  BY DEF CodesOver, Depths
<1> HIDE DEF S
<1>8. Costs(S, caps, Depths(m, d)) \in Nat /\ Costs(S, caps, y) \in Nat
  BY <1>2, <1>6, <1>7, CodeTerms
<1>9. QED  BY <1>1, <1>5, <1>8

(* The lengths of the symbols are those of their ranks.                    *)
LEMMA RankedSums ==
  ASSUME ArgumentsInv, freq_cap = UNIT - 1, NEW q, NEW y,
         y \in CodesOver(1 .. M), \A s \in Used : q[s] = y[Rank(s)]
  PROVE  Kraft(q, Used) = Kraft(y, 1 .. M) /\ Cost(q) = Costs(1 .. M, CapOf, y)
<1> DEFINE S == 1 .. M
           g == [s \in Used |-> Rank(s)]
           f == [s \in Used |-> 2 ^ (n - q[s])]
           fS == [t \in S |-> 2 ^ (n - y[t])]
           c == [s \in Used |-> freqs[s] * q[s]]
           cS == [t \in S |-> CapOf[t] * y[t]]
<1>1. IsFiniteSet(Used) /\ IsFiniteSet(S)
  <2>1. M \in Nat /\ 1 \in Nat  BY Spaces
  <2>2. IsFiniteSet(1 .. M)  BY ONLY <2>1, FS_Interval
  <2>3. IsFiniteSet(Used)  BY UsedSet
  <2>4. QED  BY <2>2, <2>3
<1>2. S = {g[s] : s \in Used}
  <2>1. \A s \in Used : g[s] = Rank(s) /\ Rank(s) \in 1 .. M  BY UsedAtRank
  <2>2. \A t \in S : \E s \in Used : g[s] = t  BY <2>1, UsedAtRank
  <2> HIDE DEF g
  <2>3. QED  BY <2>1, <2>2
<1>3. \A s, t \in Used : g[s] = g[t] => s = t  BY UsedAtRank
<1>4. \A s \in Used : CapOf[Rank(s)] = freqs[s] /\ freqs[s] \in Nat
  <2>1. MaxFreq \in Nat /\ UNIT \in Nat  BY LengthsAssumption DEF LengthsAssumption
  <2>2. \A s \in Symbols : freqs[s] \in Nat  BY <2>1 DEF ArgumentsInv
  <2>3. IsFiniteSet(Symbols)  BY Parameters, FS_Interval DEF Symbols
  <2>4. SumFunctionOnSet(freqs, Symbols) <= UNIT - 1  BY DEF ArgumentsInv, Sum
  <2>5. SumFunctionOnSet(freqs, Symbols) \in Nat  BY <2>2, <2>3, SumNat
  <2>6. ASSUME NEW s \in Used  PROVE CapOf[Rank(s)] = freqs[s] /\ freqs[s] \in Nat
    <3>1. s \in Symbols  BY DEF Used
    <3>2. freqs[s] <= SumFunctionOnSet(freqs, Symbols)  BY <2>2, <2>3, <3>1, SumAtLeast
    <3>3. freqs[s] \in Nat /\ ~ (freqs[s] > UNIT - 1)  BY <2>1, <2>2, <2>4, <2>5, <3>1, <3>2
    <3>4. CapOf[Rank(s)] = Capped(s)  BY UsedAtRank DEF CapOf
    <3>5. QED  BY <3>3, <3>4 DEF Capped
  <2>7. QED  BY <2>6
<1>5. \A t \in S : CapOf[t] \in Nat
  <2>1. \A t \in S : UsedAt[t] \in Used /\ Rank(UsedAt[t]) = t  BY UsedAtRank
  <2>2. QED  BY <1>4, <2>1
<1>6. \A t \in S : /\ fS[t] = 2 ^ (n - y[t]) /\ 2 ^ (n - y[t]) \in Int
                   /\ cS[t] = CapOf[t] * y[t] /\ CapOf[t] * y[t] \in Int
  <2>1. \A t \in S : fS[t] = 2 ^ (n - y[t]) /\ cS[t] = CapOf[t] * y[t]  OBVIOUS
  <2>2. y \in CodesOver(S)  OBVIOUS
  <2> HIDE DEF S, fS, cS
  <2>3. \A t \in S : 2 ^ (n - y[t]) \in Int /\ CapOf[t] * y[t] \in Int
    BY <1>1, <1>5, <2>2, CodeTerms
  <2>4. QED  BY <2>1, <2>3
<1>7. \A s \in Used : g[s] \in S /\ f[s] = 2 ^ (n - y[g[s]]) /\ c[s] = CapOf[g[s]] * y[g[s]]
  <2>1. \A s \in Used : f[s] = 2 ^ (n - q[s]) /\ c[s] = freqs[s] * q[s] /\ g[s] = Rank(s)
    OBVIOUS
  <2>2. \A s \in Used : g[s] \in S  BY UsedAtRank
  <2> HIDE DEF S, f, c, g
  <2>3. QED  BY <1>4, <2>1, <2>2
<1>8. Kraft(q, Used) = SumFunctionOnSet(f, Used) /\ Kraft(y, 1 .. M) = SumFunctionOnSet(fS, S)
      /\ Cost(q) = SumFunctionOnSet(c, Used) /\ Costs(1 .. M, CapOf, y) = SumFunctionOnSet(cS, S)
  BY DEF Kraft, Cost, Costs
<1> HIDE DEF S, f, c, g, fS, cS
<1>9. \A s \in Used : fS[g[s]] \in Int /\ f[s] = fS[g[s]] /\ cS[g[s]] \in Int /\ c[s] = cS[g[s]]
  BY <1>6, <1>7
<1>10. SumFunctionOnSet(f, Used) = SumFunctionOnSet(fS, {g[s] : s \in Used})
  BY <1>1, <1>3, <1>9, SumRenamed
<1>11. SumFunctionOnSet(c, Used) = SumFunctionOnSet(cS, {g[s] : s \in Used})
  BY <1>1, <1>3, <1>9, SumRenamed
<1>12. QED  BY <1>2, <1>8, <1>10, <1>11

LEMMA BestIsOptimal ==
  ASSUME ArgumentsInv, freq_cap = UNIT - 1, NEW d, Best(M, CapOf, d),
         \A u \in 1 .. M : d[n + u] \in 0 .. n,
         NEW q, \A s \in Used : q[s] = d[n + Rank(s)],
         NEW lens \in [Used -> 1 .. n - 1], Kraft(lens, Used) <= 2 ^ n
  PROVE  Cost(q) <= Cost(lens)
<1> DEFINE y == [u \in 1 .. M |-> lens[UsedAt[u]]]
           x == Depths(M, d)
<1>1. y \in CodesOver(1 .. M) /\ \A s \in Used : lens[s] = y[Rank(s)]
  <2>1. n \in Nat  BY Parameters
  <2>2. \A u \in 1 .. M : lens[UsedAt[u]] \in 0 .. n
    <3>1. \A s \in Used : lens[s] \in 0 .. n  BY <2>1
    <3>2. QED  BY <3>1, UsedAtRank
  <2>3. \A s \in Used : Rank(s) \in 1 .. M /\ UsedAt[Rank(s)] = s  BY UsedAtRank
  <2>4. QED  BY <2>2, <2>3 DEF CodesOver
<1>2. x \in CodesOver(1 .. M) /\ \A s \in Used : q[s] = x[Rank(s)]
  <2>1. \A s \in Used : Rank(s) \in 1 .. M  BY UsedAtRank
  <2>2. QED  BY <2>1 DEF CodesOver, Depths
<1> HIDE DEF x, y
<1>3. Kraft(lens, Used) = Kraft(y, 1 .. M) /\ Cost(lens) = Costs(1 .. M, CapOf, y)
  BY <1>1, RankedSums
<1>4. Cost(q) = Costs(1 .. M, CapOf, x)  BY <1>2, RankedSums
<1>5. Costs(1 .. M, CapOf, x) <= Costs(1 .. M, CapOf, y)  BY <1>1, <1>3 DEF Best, x
<1>6. QED  BY <1>3, <1>4, <1>5

-----------------------------------------------------------------------------
(* The invariant.  While the tree is built, the trees are those of the     *)
(* entries of the heap and of the node that was taken out of it, and they  *)
(* are still part of a cheapest code;                                      *)
Building ==
  phase \in {"heapify", "heapify_down", "merge", "take_down", "join", "join_down"}
Taken == phase \in {"take_down", "join"}
Entries == {nodes[x] : x \in 1 .. h} \cup (IF Taken THEN {p} ELSE {})
Top == IF Taken THEN h + 2 ELSE h + 1

TreesInv == Building =>
  \E r, d : /\ Links(nodes, Entries, Top, M, r, d)
            /\ Weighs(Entries, M, CapOf, r, d)
            /\ freq_cap = 1 => \E c \in Nat : Level(Entries, M, r, d, c)
            /\ Cheapest(Entries, M, CapOf, d)

(* no entry is there twice, the node taken was the lowest, and the last    *)
(* link element that the heap gave up is a root's;                         *)
EntriesInv == Building =>
  /\ h <= M /\ (M >= 1 => h >= 1)
  /\ phase \in {"heapify", "heapify_down"} => h = M
  /\ phase \in {"take_down", "join", "join_down"} => h >= 1 /\ h + 1 <= M
  /\ \A x, y \in 1 .. h : nodes[x] = nodes[y] => x = y
  /\ Taken => \A x \in 1 .. h : p # nodes[x] /\ p <= nodes[x]
  /\ phase \in {"merge", "join_down"} /\ h < M => \E x \in 1 .. h : Link(nodes[x]) = h + 1

(* the heap is in order but for the element that moves down.               *)
HeapInv ==
  /\ phase = "heapify" => next \in 0 .. h \div 2 /\ Ordered(nodes, h, next + 1, 0)
  /\ phase = "heapify_down" =>
       next \in 1 .. h \div 2 /\ i \in next .. h /\ Ordered(nodes, h, next, i)
  /\ phase \in {"merge", "join"} => Ordered(nodes, h, 1, 0)
  /\ phase \in {"take_down", "join_down"} => i \in 1 .. h /\ Ordered(nodes, h, 1, i)

(* Then the depths of the tree are a cheapest code, and the lengths are    *)
(* these depths, as far as they are computed.                              *)
Passed(x) == Cardinality({s \in Used : s < x})
Coding == phase \in {"symbol", "links"}
CountInv == Coding =>
  /\ M >= 2 /\ next \in 1 .. n + 1
  /\ phase = "symbol" => h = Passed(next)
  /\ phase = "links" => next \in Used /\ h = Rank(next) /\ p \in 2 .. M /\ l \in Nat \ {0}
  /\ \A s \in 1 .. next - 1 : IF s \in Used THEN lengths[s] \in 1 .. max_len ELSE lengths[s] = 0

CodeInv == Coding =>
  \E d : /\ Tree(nodes, M, d) /\ Best(M, CapOf, d)
         /\ freq_cap = 1 => \A u \in 1 .. M : d[n + u] <= max_len
         /\ phase = "links" => l + d[p] = d[n + h]
         /\ \A s \in Used : s < next => lengths[s] = d[n + Rank(s)]

LengthsInv ==
  /\ ArgumentsInv /\ LengthsTypeOK
  /\ TreesInv /\ EntriesInv /\ HeapInv /\ CountInv /\ CodeInv /\ CompleteCode /\ Optimal

-----------------------------------------------------------------------------
(* Passed counts the used symbols before one.                              *)
LEMMA PassedRank ==
  /\ Passed(1) = 0
  /\ \A x \in Used : Passed(x) \in Nat /\ Rank(x) = Passed(x) + 1 /\ Passed(x + 1) = Rank(x)
  /\ \A x \in Nat : x \notin Used => Passed(x + 1) = Passed(x)
<1>1. \A s \in Used : s \in Nat /\ s >= 1  BY UsedSet
<1>2. {s \in Used : s < 1} = {}  BY <1>1
<1>3. Passed(1) = 0  BY <1>2, FS_EmptySet DEF Passed
<1>4. \A x \in Nat : {s \in Used : s < x + 1} = {s \in Used : s <= x}  BY <1>1
<1>5. ASSUME NEW x \in Used
      PROVE  Passed(x) \in Nat /\ Rank(x) = Passed(x) + 1 /\ Passed(x + 1) = Rank(x)
  <2> DEFINE A == {s \in Used : s < x}
  <2>1. {s \in Used : s <= x} = A \cup {x} /\ x \notin A  BY <1>1
  <2>2. A \subseteq Used  OBVIOUS
  <2>3. {s \in Used : s < x + 1} = A \cup {x}  BY <1>1, <1>4, <2>1
  <2>4. Passed(x) = Cardinality(A) /\ Rank(x) = Cardinality(A \cup {x})
        /\ Passed(x + 1) = Cardinality(A \cup {x})
    BY <2>1, <2>3 DEF Passed, Rank
  <2> HIDE DEF A
  <2>5. IsFiniteSet(A)  BY <2>2, UsedSet, FS_Subset
  <2>6. Cardinality(A) \in Nat /\ Cardinality(A \cup {x}) = Cardinality(A) + 1
    BY <2>1, <2>5, FS_CardinalityType, FS_AddElement
  <2>7. QED  BY <2>4, <2>6
<1>6. ASSUME NEW x \in Nat, x \notin Used  PROVE Passed(x + 1) = Passed(x)
  <2>1. {s \in Used : s < x + 1} = {s \in Used : s < x}  BY <1>1, <1>6
  <2>2. QED  BY <2>1 DEF Passed
<1>7. QED  BY <1>3, <1>5, <1>6

LEMMA InitLengths == LengthsInit => LengthsInv
<1> SUFFICES ASSUME LengthsInit  PROVE LengthsInv
  OBVIOUS
<1>1. phase = "fill"  BY DEF LengthsInit
<1>2. ArgumentsInv  BY DEF LengthsInit, ArgumentsInv
<1>3. LengthsTypeOK
  <2>1. UNIT - 1 \in 1 .. UNIT - 1 /\ 0 \in 0 .. n /\ 0 \in 0 .. n + 1 /\ 0 \in 0 .. UNIT * UNIT - 1
    BY Spaces
  <2>2. nodes \in [1 .. 2 * n -> 0 .. UNIT * UNIT - 1 \cup {UNINIT}]
        /\ lengths \in [Symbols -> 0 .. n \cup {UNINIT}]
    BY DEF LengthsInit
  <2>3. QED  BY <2>1, <2>2 DEF LengthsInit, LengthsTypeOK
<1>4. QED
  BY <1>1, <1>2, <1>3 DEF LengthsInv, TreesInv, EntriesInv, HeapInv, CountInv, CodeInv,
     CompleteCode, Optimal, Building, Coding

(* What depends on the arguments only, and on the cap.                     *)
LEMMA ArgumentsStay ==
  ASSUME UNCHANGED arguments
  PROVE  /\ ArgumentsInv => ArgumentsInv'
         /\ Used' = Used /\ M' = M /\ \A s : Rank(s)' = Rank(s)
         /\ UsedAt' = UsedAt /\ (UNCHANGED freq_cap => CapOf' = CapOf)
         /\ \A x : Passed(x)' = Passed(x)
<1>1. freqs' = freqs /\ max_len' = max_len  BY DEF arguments
<1>2. Used' = Used  BY <1>1 DEF Used
<1>3. M' = M /\ (\A s : Rank(s)' = Rank(s)) /\ \A x : Passed(x)' = Passed(x)
  BY <1>2 DEF M, Rank, Passed
<1>4. UsedAt' = UsedAt  BY <1>2, <1>3 DEF UsedAt
<1>5. UNCHANGED freq_cap => CapOf' = CapOf  BY <1>1, <1>3, <1>4 DEF CapOf, Capped
<1>6. ArgumentsInv => ArgumentsInv'  BY <1>1 DEF ArgumentsInv, Sum
<1>7. QED  BY <1>2, <1>3, <1>4, <1>5, <1>6

LEMMA TreesStay ==
  ASSUME TreesInv, Building, UNCHANGED <<arguments, freq_cap>>, Entries' = Entries, Top' = Top,
         \A t \in Live(Top, M) : nodes'[t] = nodes[t]
  PROVE  TreesInv'
<1>1. PICK r, d : /\ Links(nodes, Entries, Top, M, r, d)
                  /\ Weighs(Entries, M, CapOf, r, d)
                  /\ freq_cap = 1 => \E c \in Nat : Level(Entries, M, r, d, c)
                  /\ Cheapest(Entries, M, CapOf, d)
  BY DEF TreesInv
<1>2. Links(nodes', Entries, Top, M, r, d)  BY <1>1 DEF Links
<1>3. M' = M /\ CapOf' = CapOf /\ freq_cap' = freq_cap  BY ArgumentsStay
<1>4. /\ Links(nodes', Entries', Top', M', r, d)
      /\ Weighs(Entries', M', CapOf', r, d)
      /\ freq_cap' = 1 => \E c \in Nat : Level(Entries', M', r, d, c)
      /\ Cheapest(Entries', M', CapOf', d)
  BY <1>1, <1>2, <1>3
<1>5. QED  BY <1>4 DEF TreesInv

(* The entries of the heap are numbers.                                    *)
LEMMA EntriesAreWords ==
  ASSUME TreesInv, Building
  PROVE  /\ Entries \subseteq 0 .. UNIT * UNIT - 1
         /\ \A x \in 1 .. h : nodes[x] \in Entries /\ nodes[x] \in 0 .. UNIT * UNIT - 1
                              /\ nodes[x] \in Int
<1>1. Entries \subseteq 0 .. UNIT * UNIT - 1  BY DEF TreesInv, Links
<1>2. \A x \in 1 .. h : nodes[x] \in Entries  BY DEF Entries
<1>3. \A x \in 0 .. UNIT * UNIT - 1 : x \in Int  BY Spaces
<1>4. QED  BY <1>1, <1>2, <1>3

LEMMA FillStep == LengthsInv /\ Fill => LengthsInv'
<1> SUFFICES ASSUME LengthsInv, Fill  PROVE LengthsInv'
  OBVIOUS
<1> USE DEF LengthsInv
<1>1. /\ phase' = "heapify" /\ h' = M /\ next' = M \div 2
      /\ nodes' = [x \in 1 .. 2 * n |->
                    IF x <= M THEN Capped(UsedAt[x]) * UNIT + (n + x) ELSE nodes[x]]
      /\ UNCHANGED <<arguments, freq_cap, i, p, l, lengths>>
  BY DEF Fill, LengthsTypeOK, M
<1>2. M' = M /\ CapOf' = CapOf /\ ArgumentsInv' /\ freq_cap' = freq_cap  BY <1>1, ArgumentsStay
<1>3. freq_cap \in Nat /\ M \in 0 .. n  BY Spaces DEF LengthsTypeOK
<1>4. CapOf \in [1 .. M -> 0 .. UNIT - 1] /\ (freq_cap = 1 => \A u \in 1 .. M : CapOf[u] = 1)
  BY <1>3, CapsFit
<1>5. ASSUME NEW x \in 1 .. M
      PROVE  /\ nodes'[x] = CapOf[x] * UNIT + (n + x)
             /\ nodes'[x] \in 0 .. UNIT * UNIT - 1
             /\ Freq(nodes'[x]) = CapOf[x] /\ Link(nodes'[x]) = n + x
  <2>1. x \in 1 .. 2 * n /\ x <= M /\ n + x \in 0 .. UNIT - 1  BY Spaces
  <2>2. nodes'[x] = CapOf[x] * UNIT + (n + x)  BY <1>1, <2>1 DEF CapOf
  <2>3. CapOf[x] \in 0 .. UNIT - 1  BY <1>4
  <2>4. QED  BY <2>1, <2>2, <2>3, EntryParts
<1>6. Entries' = {nodes'[x] : x \in 1 .. M} /\ Top' = M + 1
  BY <1>1 DEF Entries, Top, Taken
<1>7. TreesInv'
  <2> DEFINE E == {nodes'[x] : x \in 1 .. M}
             r == [t \in Live(M + 1, M) |-> t]
             d == [t \in Live(M + 1, M) |-> 0]
  <2>0. /\ M \in 0 .. n /\ CapOf \in [1 .. M -> 0 .. UNIT - 1]
        /\ \A x \in 1 .. M : nodes'[x] = CapOf[x] * UNIT + (n + x)
    BY <1>3, <1>4, <1>5
  <2>1. Links(nodes', E, M + 1, M, r, d) /\ Weighs(E, M, CapOf, r, d)
    <3> USE <2>0
    <3> HIDE DEF LengthsInv
    <3>1. QED  BY ONLY <2>0, SymbolsAreTrees
  <2>2. \A u \in 1 .. M : d[n + u] = 0
    <3>1. \A u \in 1 .. M : n + u \in Live(M + 1, M)  BY Spaces DEF Live
    <3>2. QED  BY <3>1
  <2>3. \A e \in E : freq_cap = 1 => Freq(e) = 1  BY <1>4, <1>5
  <2> HIDE DEF r, d
  <2>4. Cheapest(E, M, CapOf, d)
    <3> HIDE DEF LengthsInv
    <3>1. QED  BY ONLY <2>0, <2>2, SymbolsCheapest
  <2> HIDE DEF E
  <2>5. ASSUME freq_cap = 1  PROVE Level(E, M, r, d, 0)
    BY <1>3, <2>2, <2>3, <2>5, SymbolsAreLevel
  <2>6. QED  BY <1>2, <1>6, <2>1, <2>4, <2>5 DEF TreesInv, E
<1>8. EntriesInv'
  <2>1. \A x, y \in 1 .. M : nodes'[x] = nodes'[y] => x = y
    <3>1. \A x, y \in 1 .. M : n + x = n + y => x = y  BY Spaces
    <3>2. QED  BY <1>5, <3>1
  <2>2. M <= M /\ ~ (M < M)  BY Spaces
  <2>3. QED  BY <1>1, <1>2, <2>1, <2>2 DEF EntriesInv, Taken
<1>9. HeapInv'
  <2>1. M \div 2 \in 0 .. M \div 2 /\ \A x \in (M \div 2) + 1 .. M : 2 * x > M
    BY Spaces
  <2>2. ASSUME NEW x \in (M \div 2) + 1 .. M, NEW y \in 1 .. M  PROVE ~ ChildOf(y, x)
    BY <2>1, Spaces DEF ChildOf
  <2>3. Ordered(nodes', M, (M \div 2) + 1, 0)  BY <2>2 DEF Ordered
  <2>4. QED  BY <1>1, <2>1, <2>3 DEF HeapInv
<1>10. LengthsTypeOK'
  <2>1. nodes' \in [1 .. 2 * n -> 0 .. UNIT * UNIT - 1 \cup {UNINIT}]
    <3>1. ASSUME NEW x \in 1 .. 2 * n  PROVE nodes'[x] \in 0 .. UNIT * UNIT - 1 \cup {UNINIT}
      <4>1. CASE x <= M
        <5>1. x \in 1 .. M  BY <4>1, Spaces
        <5>2. QED  BY <1>5, <5>1
      <4>2. CASE ~ (x <= M)
        <5>1. nodes'[x] = nodes[x]  BY <1>1, <4>2
        <5>2. QED  BY <5>1 DEF LengthsTypeOK
      <4>3. QED  BY <4>1, <4>2
    <3>2. QED  BY <1>1, <3>1
  <2>2. M \in 0 .. n /\ M \div 2 \in 0 .. n + 1  BY Spaces
  <2>3. QED  BY <1>1, <2>1, <2>2 DEF LengthsTypeOK
<1>11. CountInv' /\ CodeInv' /\ CompleteCode' /\ Optimal'
  BY <1>1 DEF CountInv, CodeInv, CompleteCode, Optimal, Coding
<1>12. QED  BY <1>2, <1>7, <1>8, <1>9, <1>10, <1>11

-----------------------------------------------------------------------------
LEMMA LinksAreAbove ==
  /\ \A t \in Live(Top, M) : h \in 0 .. n /\ EntriesInv /\ Building =>
       t \in 1 .. 2 * n /\ t > h /\ (h >= 1 => t # 1) /\ (Taken => t > h + 1)
<1> SUFFICES ASSUME NEW t \in Live(Top, M), h \in 0 .. n, EntriesInv, Building
             PROVE  t \in 1 .. 2 * n /\ t > h /\ (h >= 1 => t # 1) /\ (Taken => t > h + 1)
  OBVIOUS
<1>1. n \in Nat /\ M \in Nat /\ M <= n /\ h \in Nat  BY Spaces
<1>2. h <= M /\ (Taken => h + 1 <= M)  BY DEF EntriesInv, Taken
<1>3. t \in Top .. M \/ t \in n + 1 .. n + M  BY DEF Live
<1>4. Top \in Nat /\ Top > h /\ (Taken => Top = h + 2)  BY <1>1 DEF Top
<1>5. CASE t \in Top .. M  BY <1>1, <1>4, <1>5
<1>6. CASE t \in n + 1 .. n + M  BY <1>1, <1>2, <1>6
<1>7. QED  BY <1>3, <1>5, <1>6

LEMMA HeapifyStep == LengthsInv /\ Heapify => LengthsInv'
<1> SUFFICES ASSUME LengthsInv, Heapify  PROVE LengthsInv'
  OBVIOUS
<1> USE DEF LengthsInv
<1>1. phase = "heapify" /\ UNCHANGED <<arguments, nodes, h, freq_cap, next, p, l, lengths>>
      /\ phase' \in {"heapify_down", "merge"}
  BY DEF Heapify
<1>2. M' = M /\ ArgumentsInv'  BY <1>1, ArgumentsStay
<1>3. Entries' = Entries /\ Top' = Top /\ ~ Taken /\ ~ Taken'  BY <1>1 DEF Entries, Top, Taken
<1>4. TreesInv'  BY <1>1, <1>3, TreesStay DEF Building
<1>5. h \in Nat /\ h = M /\ ~ (h < M)  BY <1>1, Spaces DEF EntriesInv, Building
<1>6. EntriesInv'  BY <1>1, <1>2, <1>3, <1>5 DEF EntriesInv, Building
<1>7. CountInv' /\ CodeInv' /\ CompleteCode' /\ Optimal'
  BY <1>1 DEF CountInv, CodeInv, CompleteCode, Optimal, Coding
<1>8. next \in 0 .. h \div 2 /\ Ordered(nodes, h, next + 1, 0)  BY <1>1 DEF HeapInv
<1>9. CASE next >= 1
  <2>1. phase' = "heapify_down" /\ i' = next  BY <1>9 DEF Heapify
  <2>2. next \in 1 .. h \div 2 /\ next \in 1 .. h /\ next \in next .. h  BY <1>5, <1>8, <1>9
  <2>3. Ordered(nodes, h, next, next)  BY <1>5, <1>8, <2>2, NextOrder
  <2>4. HeapInv'  BY <1>1, <2>1, <2>2, <2>3 DEF HeapInv
  <2>5. next \in 0 .. n  BY <1>5, <2>2, Spaces
  <2>6. LengthsTypeOK'  BY <1>1, <2>1, <2>5 DEF LengthsTypeOK, arguments
  <2>7. QED  BY <1>2, <1>4, <1>6, <1>7, <2>4, <2>6
<1>10. CASE ~ (next >= 1)
  <2>1. phase' = "merge" /\ i' = i  BY <1>10 DEF Heapify
  <2>2. next + 1 = 1  BY <1>5, <1>8, <1>10
  <2>3. HeapInv'  BY <1>1, <1>8, <2>1, <2>2 DEF HeapInv
  <2>4. LengthsTypeOK'  BY <1>1, <2>1 DEF LengthsTypeOK, arguments
  <2>5. QED  BY <1>2, <1>4, <1>6, <1>7, <2>3, <2>4
<1>11. QED  BY <1>9, <1>10

LEMMA MoveDownStep == LengthsInv /\ MoveDown => LengthsInv'
<1> SUFFICES ASSUME LengthsInv, MoveDown  PROVE LengthsInv'
  OBVIOUS
<1> USE DEF LengthsInv
<1> DEFINE c == Child(i)
<1>1. /\ phase \in {"heapify_down", "take_down", "join_down"} /\ ~ Settled
      /\ nodes' = [nodes EXCEPT ![i] = nodes[c], ![c] = nodes[i]]
      /\ i' = c
      /\ UNCHANGED <<arguments, h, freq_cap, phase, next, p, l, lengths>>
  BY DEF MoveDown
<1>2. M' = M /\ ArgumentsInv' /\ Building /\ Building' /\ Taken' = Taken /\ h \in Nat /\ h \in 0 .. n
  BY <1>1, ArgumentsStay DEF Building, Taken, LengthsTypeOK
<1>3. \A x \in 1 .. h : nodes[x] \in Int /\ nodes[x] \in 0 .. UNIT * UNIT - 1
  BY <1>2, EntriesAreWords
<1> DEFINE low == IF phase = "heapify_down" THEN next ELSE 1
<1>4. low \in Nat \ {0} /\ i \in low .. h /\ i \in 1 .. h /\ Ordered(nodes, h, low, i)
  BY <1>1, <1>2 DEF HeapInv
<1>5. i * 2 <= h /\ ~ (nodes[c] >= nodes[i])  BY <1>1 DEF Settled
<1>6. /\ c \in 1 .. h /\ ChildOf(c, i) /\ c # i
      /\ \A y \in 1 .. h : ChildOf(y, i) => nodes[c] <= nodes[y]
  BY <1>2, <1>3, <1>4, <1>5, ChildIs
<1> HIDE DEF c
<1>7. nodes[c] < nodes[i]  BY <1>3, <1>4, <1>5, <1>6
<1>8. DOMAIN nodes = 1 .. 2 * n /\ \A x \in 1 .. h : x \in 1 .. 2 * n
  BY <1>2, Spaces DEF LengthsTypeOK
<1>9. /\ nodes'[i] = nodes[c] /\ nodes'[c] = nodes[i]
      /\ \A x \in 1 .. 2 * n : x # i /\ x # c => nodes'[x] = nodes[x]
  BY <1>1, <1>4, <1>6, <1>8
<1>10. Ordered(nodes', h, low, c) /\ c \in low .. h
  <2>1. \A x \in 1 .. h : x # i /\ x # c => nodes'[x] = nodes[x]  BY <1>8, <1>9
  <2>2. \A x \in 1 .. h : nodes[x] \in Int  BY <1>3
  <2> HIDE DEF low
  <2>3. QED  BY <1>2, <1>4, <1>6, <1>7, <1>9, <2>1, <2>2, DownKeepsOrder
<1>11. HeapInv'  BY <1>1, <1>6, <1>10 DEF HeapInv
<1>12. \A x \in 1 .. h : nodes'[x] = nodes[IF x = i THEN c ELSE IF x = c THEN i ELSE x]
  BY <1>6, <1>8, <1>9
<1>13. {nodes'[x] : x \in 1 .. h} = {nodes[x] : x \in 1 .. h}
  <2>1. ASSUME NEW x \in 1 .. h
        PROVE  (\E y \in 1 .. h : nodes'[x] = nodes[y]) /\ (\E y \in 1 .. h : nodes[x] = nodes'[y])
    BY <1>4, <1>6, <1>8, <1>9
  <2>2. QED  BY <2>1
<1>14. Entries' = Entries /\ Top' = Top  BY <1>1, <1>2, <1>13 DEF Entries, Top
<1>15. TreesInv'
  <2>1. \A t \in Live(Top, M) : t \in 1 .. 2 * n /\ t > h  BY <1>2, LinksAreAbove
  <2>2. \A t \in Live(Top, M) : nodes'[t] = nodes[t]
    <3>1. \A t \in 1 .. 2 * n : t > h => t # i /\ t # c  BY <1>2, <1>4, <1>6
    <3>2. QED  BY <1>9, <2>1, <3>1
  <2>3. QED  BY <1>1, <1>2, <1>14, <2>2, TreesStay
<1>16. EntriesInv'
  <2>1. ASSUME NEW x \in 1 .. h, NEW y \in 1 .. h, nodes'[x] = nodes'[y]  PROVE x = y
    <3>1. \A v, w \in 1 .. h : nodes[v] = nodes[w] => v = w  BY <1>2 DEF EntriesInv
    <3>2. QED  BY <1>4, <1>6, <1>12, <2>1, <3>1
  <2>2. Taken => \A x \in 1 .. h : p # nodes'[x] /\ p <= nodes'[x]
    BY <1>2, <1>4, <1>6, <1>12 DEF EntriesInv
  <2>3. phase \in {"merge", "join_down"} /\ h < M => \E x \in 1 .. h : Link(nodes'[x]) = h + 1
    <3>1. ASSUME phase \in {"merge", "join_down"} /\ h < M
          PROVE \E x \in 1 .. h : Link(nodes'[x]) = h + 1
      <4>1. PICK y \in 1 .. h : Link(nodes[y]) = h + 1  BY <1>2, <3>1 DEF EntriesInv
      <4>2. PICK x \in 1 .. h : nodes'[x] = nodes[y]  BY <1>13
      <4>3. QED  BY <4>1, <4>2
    <3>2. QED  BY <3>1
  <2>4. QED  BY <1>1, <1>2, <2>1, <2>2, <2>3 DEF EntriesInv
<1>17. LengthsTypeOK'
  <2>1. nodes' \in [1 .. 2 * n -> 0 .. UNIT * UNIT - 1 \cup {UNINIT}]
    BY <1>1, <1>3, <1>4, <1>6 DEF LengthsTypeOK
  <2>2. c \in 0 .. n  BY <1>2, <1>6, Spaces
  <2>3. QED  BY <1>1, <2>1, <2>2 DEF LengthsTypeOK
<1>18. CountInv' /\ CodeInv' /\ CompleteCode' /\ Optimal'
  BY <1>1 DEF CountInv, CodeInv, CompleteCode, Optimal, Coding
<1>19. QED  BY <1>2, <1>11, <1>15, <1>16, <1>17, <1>18

LEMMA DownEndsStep == LengthsInv /\ DownEnds => LengthsInv'
<1> SUFFICES ASSUME LengthsInv, DownEnds  PROVE LengthsInv'
  OBVIOUS
<1> USE DEF LengthsInv
<1>1. /\ phase \in {"heapify_down", "take_down", "join_down"} /\ Settled
      /\ UNCHANGED <<arguments, nodes, h, freq_cap, i, p, l, lengths>>
      /\ phase = "heapify_down" => phase' = "heapify" /\ next' = next - 1
      /\ phase = "take_down" => phase' = "join" /\ next' = next
      /\ phase = "join_down" => phase' = "merge" /\ next' = next
  BY DEF DownEnds
<1>2. M' = M /\ ArgumentsInv' /\ Building /\ Building' /\ Taken' = Taken /\ h \in Nat /\ h \in 0 .. n
  BY <1>1, ArgumentsStay DEF Building, Taken, LengthsTypeOK
<1>3. Entries' = Entries /\ Top' = Top  BY <1>1, <1>2 DEF Entries, Top
<1>4. TreesInv'  BY <1>1, <1>2, <1>3, TreesStay
<1>5. EntriesInv'  BY <1>1, <1>2 DEF EntriesInv
<1> DEFINE low == IF phase = "heapify_down" THEN next ELSE 1
<1>6. low \in Nat \ {0} /\ i \in 1 .. h /\ Ordered(nodes, h, low, i)
  BY <1>1, <1>2 DEF HeapInv
<1>7. \A x \in 1 .. h : nodes[x] \in Int  BY <1>2, EntriesAreWords
<1>8. \A y \in 1 .. h : ChildOf(y, i) => nodes[i] <= nodes[y]
  <2>1. CASE i * 2 <= h
    <3>1. /\ Child(i) \in 1 .. h
          /\ \A y \in 1 .. h : ChildOf(y, i) => nodes[Child(i)] <= nodes[y]
      BY <1>2, <1>6, <1>7, <2>1, ChildIs
    <3>2. nodes[Child(i)] >= nodes[i]  BY <1>1, <2>1 DEF Settled
    <3>3. QED  BY <1>6, <1>7, <3>1, <3>2
  <2>2. CASE ~ (i * 2 <= h)
    <3>1. \A y \in 1 .. h : ~ ChildOf(y, i)  BY <1>2, <1>6, <2>2 DEF ChildOf
    <3>2. QED  BY <3>1
  <2>3. QED  BY <2>1, <2>2
<1>9. Ordered(nodes, h, low, 0)
  <2> HIDE DEF low
  <2>1. QED  BY <1>2, <1>6, <1>8, SettledOrder
<1>10. HeapInv'
  <2>1. CASE phase = "heapify_down"
    <3>1. next \in 1 .. h \div 2 /\ Ordered(nodes, h, next, 0)  BY <1>9, <2>1 DEF HeapInv
    <3>2. next - 1 \in 0 .. h \div 2 /\ (next - 1) + 1 = next  BY <1>2, <3>1
    <3>3. QED  BY <1>1, <2>1, <3>1, <3>2 DEF HeapInv
  <2>2. CASE phase # "heapify_down"
    <3>1. Ordered(nodes, h, 1, 0)  BY <1>9, <2>2
    <3>2. QED  BY <1>1, <2>2, <3>1 DEF HeapInv
  <2>3. QED  BY <2>1, <2>2
<1>11. LengthsTypeOK'
  <2>1. next' \in 0 .. n + 1
    <3>1. CASE phase = "heapify_down"
      <4>1. next \in 1 .. h \div 2  BY <3>1 DEF HeapInv
      <4>2. QED  BY <1>1, <1>2, <3>1, <4>1, Spaces
    <3>2. CASE phase # "heapify_down"  BY <1>1, <3>2 DEF LengthsTypeOK
    <3>3. QED  BY <3>1, <3>2
  <2>2. phase' \in {"heapify", "join", "merge"}  BY <1>1
  <2>3. QED  BY <1>1, <2>1, <2>2 DEF LengthsTypeOK
<1>12. CountInv' /\ CodeInv' /\ CompleteCode' /\ Optimal'
  BY <1>1 DEF CountInv, CodeInv, CompleteCode, Optimal, Coding
<1>13. QED  BY <1>2, <1>4, <1>5, <1>10, <1>11, <1>12

LEMMA FewSymbolsStep == LengthsInv /\ FewSymbols => LengthsInv'
<1> SUFFICES ASSUME LengthsInv, FewSymbols  PROVE LengthsInv'
  OBVIOUS
<1> USE DEF LengthsInv
<1>1. /\ phase = "merge" /\ M < 2 /\ phase' = "done"
      /\ lengths' = [s \in Symbols |-> IF freqs[s] = 0 THEN 0 ELSE 1]
      /\ UNCHANGED <<arguments, nodes, h, freq_cap, i, next, p, l>>
  BY DEF FewSymbols, M
<1>2. M' = M /\ ArgumentsInv' /\ Used' = Used /\ freqs' = freqs /\ max_len' = max_len
  BY <1>1, ArgumentsStay DEF arguments
<1>3. 0 \in 0 .. n /\ 1 \in 0 .. n  BY Spaces
<1>4. LengthsTypeOK'  BY <1>1, <1>3 DEF LengthsTypeOK
<1>5. CompleteCode' /\ Optimal'
  <2>1. max_len \in MaxLens  BY DEF ArgumentsInv
  <2>2. 1 \in 1 .. max_len  BY <2>1, Parameters
  <2>3. \A s \in Symbols : IF s \in Used THEN lengths'[s] \in 1 .. max_len ELSE lengths'[s] = 0
    BY <1>1, <2>2 DEF Used
  <2>4. ~ (M >= 2)  BY <1>1, Spaces
  <2>5. QED  BY <1>1, <1>2, <2>3, <2>4 DEF CompleteCode, Optimal, M
<1>6. TreesInv' /\ EntriesInv' /\ HeapInv' /\ CountInv' /\ CodeInv'
  BY <1>1 DEF TreesInv, EntriesInv, HeapInv, CountInv, CodeInv, Building, Coding
<1>7. QED  BY <1>2, <1>4, <1>5, <1>6

-----------------------------------------------------------------------------
LEMMA TakeLowestStep == LengthsInv /\ TakeLowest => LengthsInv'
<1> SUFFICES ASSUME LengthsInv, TakeLowest  PROVE LengthsInv'
  OBVIOUS
<1> USE DEF LengthsInv
<1>1. /\ phase = "merge" /\ h > 1 /\ phase' = "take_down"
      /\ p' = nodes[1] /\ nodes' = [nodes EXCEPT ![1] = nodes[h]]
      /\ h' = h - 1 /\ i' = 1
      /\ UNCHANGED <<arguments, freq_cap, next, l, lengths>>
  BY DEF TakeLowest
<1>2. M' = M /\ ArgumentsInv' /\ Building /\ Building' /\ ~ Taken /\ Taken' /\ h \in Nat /\ h \in 0 .. n
      /\ h - 1 \in Nat /\ h - 1 >= 1 /\ 1 \in 1 .. h /\ h \in 1 .. h
  BY <1>1, ArgumentsStay DEF Building, Taken, LengthsTypeOK
<1>3. \A x \in 1 .. h : nodes[x] \in Int /\ nodes[x] \in 0 .. UNIT * UNIT - 1
  BY <1>2, EntriesAreWords
<1>4. h <= M /\ \A x, y \in 1 .. h : nodes[x] = nodes[y] => x = y  BY <1>2 DEF EntriesInv
<1>5. DOMAIN nodes = 1 .. 2 * n /\ \A x \in 1 .. h : x \in 1 .. 2 * n
  BY <1>2, Spaces DEF LengthsTypeOK
<1>6. nodes'[1] = nodes[h] /\ \A x \in 1 .. 2 * n : x # 1 => nodes'[x] = nodes[x]
  BY <1>1, <1>2, <1>5
<1>7. \A x \in 1 .. h - 1 : x \in 1 .. h /\ nodes'[x] = nodes[IF x = 1 THEN h ELSE x]
  BY <1>2, <1>5, <1>6
<1>8. Entries' = Entries
  <2>1. Entries = {nodes[x] : x \in 1 .. h}  BY <1>2 DEF Entries
  <2>2. Entries' = {nodes'[x] : x \in 1 .. h - 1} \cup {nodes[1]}  BY <1>1, <1>2 DEF Entries
  <2>3. \A x \in 1 .. h - 1 : \E y \in 1 .. h : nodes'[x] = nodes[y]  BY <1>2, <1>7
  <2>4. ASSUME NEW x \in 1 .. h, x # 1  PROVE \E y \in 1 .. h - 1 : nodes[x] = nodes'[y]
    <3>1. CASE x = h
      <4>1. 1 \in 1 .. h - 1  BY <1>2
      <4>2. QED  BY <1>6, <3>1, <4>1
    <3>2. CASE x # h
      <4>1. x \in 1 .. h - 1  BY <1>2, <3>2
      <4>2. nodes'[x] = nodes[x]  BY <1>7, <2>4, <4>1
      <4>3. QED  BY <4>1, <4>2
    <3>3. QED  BY <3>1, <3>2
  <2>5. QED  BY <1>2, <2>1, <2>2, <2>3, <2>4
<1>9. Top' = Top  BY <1>1, <1>2 DEF Top
<1>10. TreesInv'
  <2>1. \A t \in Live(Top, M) : t \in 1 .. 2 * n /\ t # 1  BY <1>2, LinksAreAbove
  <2>2. \A t \in Live(Top, M) : nodes'[t] = nodes[t]  BY <1>6, <2>1
  <2>3. QED  BY <1>1, <1>2, <1>8, <1>9, <2>2, TreesStay
<1>11. Ordered(nodes, h, 1, 0)  BY <1>1 DEF HeapInv
<1>12. EntriesInv'
  <2>1. ASSUME NEW x \in 1 .. h - 1, NEW y \in 1 .. h - 1, nodes'[x] = nodes'[y]  PROVE x = y
    <3> DEFINE v == IF x = 1 THEN h ELSE x
               w == IF y = 1 THEN h ELSE y
    <3>1. v \in 1 .. h /\ w \in 1 .. h /\ nodes[v] = nodes[w]  BY <1>2, <1>7, <2>1
    <3>2. v = w  BY <1>4, <3>1
    <3>3. QED  BY <1>2, <3>2
  <2>2. ASSUME NEW x \in 1 .. h - 1  PROVE nodes[1] # nodes'[x] /\ nodes[1] <= nodes'[x]
    <3> DEFINE v == IF x = 1 THEN h ELSE x
    <3>1. v \in 1 .. h /\ v # 1 /\ nodes'[x] = nodes[v]  BY <1>2, <1>7
    <3> HIDE DEF v
    <3>2. nodes[1] # nodes[v]  BY <1>2, <1>4, <3>1
    <3>3. nodes[1] <= nodes[v]  BY <1>2, <1>3, <1>11, <3>1, FirstIsLowest
    <3>4. QED  BY <3>1, <3>2, <3>3
  <2>3. h - 1 <= M /\ (h - 1) + 1 <= M  BY <1>2, <1>4, Spaces
  <2>4. QED  BY <1>1, <1>2, <2>1, <2>2, <2>3 DEF EntriesInv
<1>13. HeapInv'
  <2>1. \A x \in 2 .. h - 1 : nodes'[x] = nodes[x]  BY <1>2, <1>7
  <2>2. h - 1 \in 0 .. h /\ 1 \in 1 .. h - 1  BY <1>2
  <2>3. Ordered(nodes', h - 1, 1, 1)  BY <1>2, <1>11, <2>1, <2>2, RootOrder
  <2>4. QED  BY <1>1, <2>2, <2>3 DEF HeapInv
<1>14. LengthsTypeOK'
  <2>1. nodes' \in [1 .. 2 * n -> 0 .. UNIT * UNIT - 1 \cup {UNINIT}]
    BY <1>1, <1>2, <1>3 DEF LengthsTypeOK
  <2>2. h - 1 \in 0 .. n /\ 1 \in 0 .. n /\ nodes[1] \in 0 .. UNIT * UNIT - 1
    BY <1>2, <1>3, Spaces
  <2>3. QED  BY <1>1, <2>1, <2>2 DEF LengthsTypeOK
<1>15. CountInv' /\ CodeInv' /\ CompleteCode' /\ Optimal'
  BY <1>1 DEF CountInv, CodeInv, CompleteCode, Optimal, Coding
<1>16. QED  BY <1>2, <1>10, <1>12, <1>13, <1>14, <1>15

LEMMA JoinStep == LengthsInv /\ Join => LengthsInv'
<1> SUFFICES ASSUME LengthsInv, Join  PROVE LengthsInv'
  OBVIOUS
<1> USE DEF LengthsInv
<1> DEFINE q == nodes[1]
           e == Joined(q)
           c == h + 1
           E == Entries
<1>1. /\ phase = "join" /\ phase' = "join_down" /\ i' = 1
      /\ nodes' = [nodes EXCEPT ![1] = e, ![Link(p)] = c, ![Link(q)] = c]
      /\ UNCHANGED <<arguments, h, freq_cap, next, p, l, lengths>>
  BY DEF Join
<1>2. /\ M' = M /\ CapOf' = CapOf /\ ArgumentsInv' /\ Building /\ Building' /\ Taken /\ ~ Taken'
      /\ h \in Nat /\ h \in 0 .. n /\ h >= 1 /\ c <= M /\ 1 \in 1 .. h /\ c \in 1 .. M /\ M \in 0 .. n
  <2>1. Building /\ Building' /\ Taken /\ ~ Taken'  BY <1>1 DEF Building, Taken
  <2>2. h \in 0 .. n /\ h \in Nat  BY Spaces DEF LengthsTypeOK
  <2>3. h >= 1 /\ c <= M  BY <1>1, <2>1 DEF EntriesInv
  <2>4. 1 \in 1 .. h /\ c \in 1 .. M /\ M \in 0 .. n  BY <2>2, <2>3, Spaces
  <2>5. M' = M /\ CapOf' = CapOf /\ ArgumentsInv'  BY <1>1, ArgumentsStay
  <2>6. QED  BY <2>1, <2>2, <2>3, <2>4, <2>5
<1>3. /\ E \subseteq 0 .. UNIT * UNIT - 1
      /\ \A x \in 1 .. h : nodes[x] \in Int /\ nodes[x] \in 0 .. UNIT * UNIT - 1 /\ nodes[x] \in E
  BY <1>2, EntriesAreWords
<1>4. Top = c + 1 /\ Top' = c /\ E = {nodes[x] : x \in 1 .. h} \cup {p}
  BY <1>1, <1>2 DEF Top, Entries
<1>5. PICK r, d : /\ Links(nodes, E, c + 1, M, r, d)
                  /\ Weighs(E, M, CapOf, r, d)
                  /\ freq_cap = 1 => \E k0 \in Nat : Level(E, M, r, d, k0)
                  /\ Cheapest(E, M, CapOf, d)
  BY <1>2, <1>4 DEF TreesInv
<1>6. /\ p \in E /\ q \in E /\ p # q
      /\ \A x, y \in 1 .. h : nodes[x] = nodes[y] => x = y
      /\ \A x \in 1 .. h : p # nodes[x] /\ p <= nodes[x]
  BY <1>2, <1>3, <1>4 DEF EntriesInv
<1>7. Ordered(nodes, h, 1, 0)  BY <1>1 DEF HeapInv
<1>8. \A t \in Live(c + 1, M) : t \in 1 .. 2 * n /\ t > h /\ t # 1 /\ t > c
  BY <1>2, <1>4, LinksAreAbove
<1> HIDE DEF e, E
<1>9. Link(p) \in Live(c + 1, M) /\ Link(q) \in Live(c + 1, M) /\ Link(p) # Link(q)
  BY <1>5, <1>6 DEF Links
<1> HIDE DEF q, c
<1>10. DOMAIN nodes = 1 .. 2 * n /\ \A x \in 1 .. h : x \in 1 .. 2 * n
  BY <1>2, Spaces DEF LengthsTypeOK
<1>11. /\ nodes'[1] = e /\ nodes'[Link(p)] = c /\ nodes'[Link(q)] = c
       /\ \A x \in 1 .. 2 * n : x # 1 /\ x # Link(p) /\ x # Link(q) => nodes'[x] = nodes[x]
  BY <1>1, <1>2, <1>8, <1>9, <1>10
<1>12. \A x \in 1 .. h : x # 1 => nodes'[x] = nodes[x]
  <2>1. Link(p) > h /\ Link(q) > h  BY <1>8, <1>9
  <2>2. \A x \in 1 .. h : x # Link(p) /\ x # Link(q)
    <3>1. Link(p) \in Nat /\ Link(q) \in Nat  BY <1>8, <1>9
    <3>2. QED  BY <1>2, <2>1, <3>1
  <2>3. QED  BY <1>10, <1>11, <2>2
<1>13. \A t \in Live(c + 1, M) : t # Link(p) /\ t # Link(q) => nodes'[t] = nodes[t]
  BY <1>8, <1>11
<1>14. freq_cap \in Nat /\ \A u \in 1 .. M : CapOf[u] \in Nat
       /\ (freq_cap = 1 => CapOf[u] = 1)
  <2>1. freq_cap \in Nat  BY Spaces DEF LengthsTypeOK
  <2>2. QED  BY <2>1, CapsFit, Spaces
<1> DEFINE A == Below(M, r, p)
           B == Below(M, r, q)
<1>15. /\ Freq(p) \in Nat /\ Freq(q) \in Nat /\ Freq(p) + Freq(q) \in 0 .. UNIT - 1
       /\ SumFunctionOnSet(CapOf, A \cup B) = Freq(p) + Freq(q)
  <2>1. /\ Freq(p) = SumFunctionOnSet(CapOf, A) /\ Freq(q) = SumFunctionOnSet(CapOf, B)
    BY <1>5, <1>6 DEF Weighs
  <2>2. A \subseteq 1 .. M /\ B \subseteq 1 .. M /\ A \cap B = {}  BY <1>9 DEF Below
  <2>3. IsFiniteSet(1 .. M)  BY <1>2, FS_Interval
  <2> HIDE DEF A, B
  <2>4. IsFiniteSet(A) /\ IsFiniteSet(B)  BY <2>2, <2>3, FS_Subset
  <2>5. (\A u \in A \cup B : CapOf[u] \in Int) /\ A \cup B \in SUBSET (1 .. M)  BY <1>14, <2>2
  <2>6. SumFunctionOnSet(CapOf, A \cup B) = SumFunctionOnSet(CapOf, A) + SumFunctionOnSet(CapOf, B)
    BY <2>2, <2>4, <2>5, SumOfParts
  <2>7. SumFunctionOnSet(CapOf, A \cup B) \in 0 .. UNIT - 1  BY <1>14, <2>5, CapsFit
  <2>8. Freq(p) \in Nat /\ Freq(q) \in Nat  BY <1>3, <1>6, EntryForm, Spaces
  <2>9. QED  BY <2>1, <2>6, <2>7, <2>8
<1>16. /\ e \in 0 .. UNIT * UNIT - 1 /\ Link(e) = c /\ Freq(e) = Freq(p) + Freq(q)
       /\ e = (Freq(p) + Freq(q)) * UNIT + c
  <2>1. c \in 0 .. UNIT - 1  BY <1>2, Spaces
  <2>2. (Freq(p) * UNIT + Freq(q) * UNIT) % (UNIT * UNIT) = (Freq(p) + Freq(q)) * UNIT
    <3>1. Freq(p) + Freq(q) <= UNIT - 1  BY <1>15, Spaces
    <3>2. QED  BY <1>15, <3>1, JoinedEntry
  <2>3. e = (Freq(p) + Freq(q)) * UNIT + c  BY <2>2 DEF e, Joined, c
  <2>4. QED  BY <1>15, <2>1, <2>3, EntryParts
<1> DEFINE H == JoinedHeap(E, p, q, e)
           s == JoinedRoot(r, Link(p), Link(q), c, M)
           b == JoinedDepth(r, d, Link(p), Link(q), c, M)
<1>17. Entries' = H
  <2>1. Entries' = {nodes'[x] : x \in 1 .. h}  BY <1>1, <1>2 DEF Entries
  <2>2. ASSUME NEW z  PROVE z \in Entries' <=> z \in H
    <3>1. ASSUME z \in Entries'  PROVE z \in H
      <4>1. PICK x \in 1 .. h : z = nodes'[x]  BY <2>1, <3>1
      <4>2. CASE x = 1  BY <1>11, <4>1, <4>2 DEF JoinedHeap
      <4>3. CASE x # 1
        <5>1. z = nodes[x] /\ z # q /\ z # p /\ z \in E
          BY <1>2, <1>3, <1>6, <1>12, <4>1, <4>3 DEF q
        <5>2. QED  BY <5>1 DEF JoinedHeap
      <4>4. QED  BY <4>2, <4>3
    <3>2. ASSUME z \in H  PROVE z \in Entries'
      <4>1. CASE z = e  BY <1>2, <1>11, <2>1, <4>1
      <4>2. CASE z \in E /\ z # p /\ z # q
        <5>1. PICK x \in 1 .. h : z = nodes[x]  BY <1>4, <4>2
        <5>2. x # 1  BY <4>2, <5>1 DEF q
        <5>3. QED  BY <1>12, <2>1, <5>1, <5>2
      <4>3. QED  BY <3>2, <4>1, <4>2 DEF JoinedHeap
    <3>3. QED  BY <3>1, <3>2
  <2>3. QED  BY <2>2
<1>18. Links(nodes', H, c, M, s, b)
  <2> HIDE DEF H, s, b
  <2>1. QED  BY <1>2, <1>5, <1>6, <1>11, <1>13, <1>16, JoinLinks DEF H, s, b
<1>19. /\ Weighs(H, M, CapOf, s, b)
       /\ Below(M, s, e) = Below(M, r, p) \cup Below(M, r, q)
       /\ \A z \in E \ {p, q} : Below(M, s, z) = Below(M, r, z)
       /\ \A z \in E \ {p, q} : \A u \in Below(M, r, z) : b[n + u] = d[n + u]
       /\ \A u \in Below(M, r, p) \cup Below(M, r, q) : b[n + u] = d[n + u] + 1
  BY <1>2, <1>5, <1>6, <1>14, <1>16, JoinWeighs
<1>20. (\A z \in E : Freq(p) <= Freq(z)) /\ \A z \in E : z # p => Freq(q) <= Freq(z)
  <2>1. \A z \in E : p <= z
    <3>1. p \in Int  BY <1>3, <1>6, Spaces
    <3>2. p <= p  BY <3>1
    <3>3. QED  BY <1>4, <1>6, <3>2
  <2>2. ASSUME NEW z \in E, z # p  PROVE q <= z
    <3>1. PICK x \in 1 .. h : z = nodes[x]  BY <1>4, <2>2
    <3>2. nodes[1] <= nodes[x]  BY <1>2, <1>3, <1>7, FirstIsLowest
    <3>3. QED  BY <3>1, <3>2 DEF q
  <2>3. QED  BY <1>3, <1>6, <2>1, <2>2, EntryOrder
<1>21. \A u \in 1 .. M : d[n + u] \in Nat  BY <1>2, <1>5, NewLink DEF Links
<1>22. ASSUME freq_cap = 1  PROVE \E x \in Nat : Level(H, M, s, b, x)
  <2>1. PICK k0 \in Nat : Level(E, M, r, d, k0)  BY <1>5, <1>22
  <2> HIDE DEF H, s, b
  <2>2. /\ Below(M, s, e) = Below(M, r, p) \cup Below(M, r, q)
        /\ \A z \in E \ {p, q} : Below(M, s, z) = Below(M, r, z)
        /\ \A z \in E \ {p, q} : \A u \in Below(M, r, z) : b[n + u] = d[n + u]
        /\ \A u \in Below(M, r, p) \cup Below(M, r, q) : b[n + u] = d[n + u] + 1
        /\ Freq(e) = Freq(p) + Freq(q) /\ M \in 0 .. n /\ E \subseteq 0 .. UNIT * UNIT - 1
        /\ p \in E /\ q \in E /\ p # q
    BY <1>2, <1>3, <1>6, <1>16, <1>19
  <2>3. k0 \in Nat /\ Level(E, M, r, d, k0)  BY <2>1
  <2>4. LowestJoin(M, E, r, d, k0, p, q, e, s, b)
    BY ONLY <1>20, <1>21, <2>2, <2>3 DEF LowestJoin
  <2>5. \E x \in Nat : Level(JoinedHeap(E, p, q, e), M, s, b, x)  BY ONLY <2>4, JoinLevel
  <2>6. QED  BY <2>5 DEF H
<1>23. Cheapest(H, M, CapOf, b)
  <2> DEFINE D == A \cup B
  <2>1. D \subseteq 1 .. M  BY DEF Below
  <2>2. \A u \in 1 .. M : b[n + u] = IF u \in D THEN d[n + u] + 1 ELSE d[n + u]
    <3>1. \A u \in 1 .. M : u \in D <=> r[n + u] \in {Link(p), Link(q)}  BY DEF Below
    <3>2. \A u \in 1 .. M : n + u \in Live(c, M) /\ n + u # c  BY <1>2, NewLink
    <3> HIDE DEF D
    <3>3. QED  BY <3>1, <3>2 DEF JoinedDepth
  <2>3. SumFunctionOnSet(CapOf, D) = Freq(e)  BY <1>15, <1>16
  <2>4. e \notin E \ {p, q}
    <3>1. c \notin Live(c + 1, M)  BY <1>2, NewLink
    <3>2. \A z \in E : Link(z) \in Live(c + 1, M)  BY <1>5 DEF Links
    <3>3. QED  BY <1>16, <3>1, <3>2
  <2> HIDE DEF D, H, s, b
  <2>5. /\ M \in 0 .. n /\ E \subseteq 0 .. UNIT * UNIT - 1 /\ p \in E /\ q \in E /\ p # q
        /\ Freq(e) = Freq(p) + Freq(q) /\ \A u \in 1 .. M : CapOf[u] \in Nat
    BY <1>2, <1>3, <1>6, <1>14, <1>16
  <2>6. CheapJoin(M, E, CapOf, d, p, q, e, D, b)
    BY ONLY <1>20, <1>21, <2>1, <2>2, <2>3, <2>4, <2>5 DEF CheapJoin
  <2>7. Cheapest(E, M, CapOf, d)  BY <1>5
  <2>8. Cheapest(JoinedHeap(E, p, q, e), M, CapOf, b)  BY ONLY <2>6, <2>7, JoinCheapest
  <2>9. QED  BY <2>8 DEF H
<1>24. TreesInv'
  <2> HIDE DEF H, s, b
  <2>1. freq_cap' = freq_cap  BY <1>1
  <2>2. /\ Links(nodes', Entries', Top', M', s, b)
        /\ Weighs(Entries', M', CapOf', s, b)
        /\ freq_cap' = 1 => \E x \in Nat : Level(Entries', M', s, b, x)
        /\ Cheapest(Entries', M', CapOf', b)
    BY <1>2, <1>4, <1>17, <1>18, <1>19, <1>22, <1>23, <2>1
  <2>3. QED  BY <2>2 DEF TreesInv
<1>25. EntriesInv'
  <2>1. ASSUME NEW x \in 1 .. h, x # 1  PROVE nodes'[x] # e
    <3>1. nodes'[x] = nodes[x] /\ nodes[x] \in E  BY <1>3, <1>12, <2>1
    <3>2. Link(nodes[x]) \in Live(c + 1, M)  BY <1>5, <3>1 DEF Links
    <3>3. Link(nodes[x]) # c  BY <1>2, <3>2, NewLink
    <3>4. QED  BY <1>16, <3>1, <3>3
  <2>2. \A x, y \in 1 .. h : nodes'[x] = nodes'[y] => x = y
    BY <1>6, <1>11, <1>12, <2>1
  <2>3. Link(nodes'[1]) = h + 1  BY <1>11, <1>16 DEF c
  <2>4. h <= M /\ h + 1 <= M  BY <1>2, Spaces DEF c
  <2>5. QED  BY <1>1, <1>2, <2>2, <2>3, <2>4 DEF EntriesInv
<1>26. HeapInv'
  <2>1. h \in 0 .. h /\ \A x \in 2 .. h : nodes'[x] = nodes[x]
    <3>1. \A x \in 2 .. h : x \in 1 .. h /\ x # 1  OBVIOUS
    <3>2. QED  BY <1>2, <1>12, <3>1
  <2>2. Ordered(nodes', h, 1, 1)  BY <1>2, <1>7, <2>1, RootOrder
  <2>3. QED  BY <1>1, <1>2, <2>2 DEF HeapInv
<1>27. LengthsTypeOK'
  <2>1. c \in 0 .. UNIT * UNIT - 1  BY <1>2, Spaces
  <2>2. nodes' \in [1 .. 2 * n -> 0 .. UNIT * UNIT - 1 \cup {UNINIT}]
    BY <1>1, <1>16, <2>1 DEF LengthsTypeOK
  <2>3. 1 \in 0 .. n  BY Spaces
  <2>4. QED  BY <1>1, <2>2, <2>3 DEF LengthsTypeOK
<1>28. CountInv' /\ CodeInv' /\ CompleteCode' /\ Optimal'
  BY <1>1 DEF CountInv, CodeInv, CompleteCode, Optimal, Coding
<1>29. QED  BY <1>2, <1>24, <1>25, <1>26, <1>27, <1>28

-----------------------------------------------------------------------------
LEMMA TreeBuiltStep == LengthsInv /\ TreeBuilt => LengthsInv'
<1> SUFFICES ASSUME LengthsInv, TreeBuilt  PROVE LengthsInv'
  OBVIOUS
<1> USE DEF LengthsInv
<1>1. /\ phase = "merge" /\ h <= 1 /\ M >= 2 /\ next' = 1 /\ phase' = "symbol" /\ h' = 0
      /\ UNCHANGED <<arguments, nodes, freq_cap, i, p, l, lengths>>
  BY DEF TreeBuilt, M
<1>2. M' = M /\ ArgumentsInv' /\ Used' = Used /\ max_len' = max_len /\ max_len \in MaxLens
      /\ Building /\ ~ Taken /\ M \in 0 .. n /\ n \in Nat
  <2>1. M' = M /\ ArgumentsInv' /\ Used' = Used /\ max_len' = max_len
    BY <1>1, ArgumentsStay DEF arguments
  <2>2. max_len \in MaxLens  BY DEF ArgumentsInv
  <2>3. QED  BY <1>1, <2>1, <2>2, Spaces DEF Building, Taken
<1>3. h = 1 /\ Link(nodes[1]) = 2
  <2>1. h \in Nat  BY Spaces DEF LengthsTypeOK
  <2>2. h = 1 /\ h < M  BY <1>1, <1>2, <2>1 DEF EntriesInv
  <2>3. \E x \in 1 .. h : Link(nodes[x]) = h + 1  BY <1>1, <1>2, <2>2 DEF EntriesInv
  <2>4. QED  BY <2>2, <2>3
<1>4. Entries = {nodes[1]} /\ Top = 2  BY <1>2, <1>3 DEF Entries, Top
<1>5. PICK r, d : /\ Links(nodes, Entries, Top, M, r, d)
                  /\ Weighs(Entries, M, CapOf, r, d)
                  /\ freq_cap = 1 => \E c \in Nat : Level(Entries, M, r, d, c)
                  /\ Cheapest(Entries, M, CapOf, d)
  BY <1>2 DEF TreesInv
<1>6. Tree(nodes, M, d)
  <2>1. Links(nodes, {nodes[1]}, 2, M, r, d) /\ Weighs({nodes[1]}, M, CapOf, r, d)
    BY <1>4, <1>5
  <2>2. QED  BY <1>2, <1>3, <2>1, OneTree
<1>7. freq_cap = 1 => \A u \in 1 .. M : d[n + u] <= max_len
  <2>1. ASSUME freq_cap = 1  PROVE \A u \in 1 .. M : d[n + u] <= max_len
    <3>1. PICK c \in Nat : Level(Entries, M, r, d, c)  BY <1>5, <2>1
    <3>2. \A u \in 1 .. M : CapOf[u] = 1 /\ n + u \in Live(Top, M)
      <4>1. freq_cap \in Nat  BY <2>1
      <4>2. \A u \in 1 .. M : CapOf[u] = 1  BY <2>1, <4>1, CapsFit
      <4>3. \A u \in 1 .. M : n + u \in Live(Top, M)  BY <1>2 DEF Live
      <4>4. QED  BY <4>2, <4>3
    <3>3. max_len \in Nat /\ M <= 2 ^ max_len
      <4>1. max_len \in Nat /\ 2 ^ max_len >= n /\ 2 ^ max_len \in Nat
        BY <1>2, Parameters, PowerPositive
      <4>2. QED  BY <1>2, <4>1
    <3>4. QED  BY <1>2, <1>5, <3>1, <3>2, <3>3, LevelDepth
  <2>2. QED  BY <2>1
<1>8. CodeInv'
  <2>1. \A s \in Used : ~ (s < 1)  BY UsedSet
  <2>2. Best(M, CapOf, d) /\ CapOf' = CapOf
    <3>1. freq_cap \in Nat  BY Spaces DEF LengthsTypeOK
    <3>2. \A u \in 1 .. M : CapOf[u] \in Nat  BY <3>1, CapsFit, Spaces
    <3>3. \A u \in 1 .. M : d[n + u] \in 0 .. n
      <4>1. \A u \in 1 .. M : n + u \in Live(2, M)  BY <1>2 DEF Live
      <4>2. \A u \in 1 .. M : d[n + u] \in Nat /\ d[n + u] + 1 <= M  BY <1>6, <4>1 DEF Tree
      <4>3. QED  BY <1>2, <4>2, Spaces
    <3>4. Entries \subseteq 0 .. UNIT * UNIT - 1  BY <1>5 DEF Links
    <3>5. Best(M, CapOf, d)
      <4>1. M \in 0 .. n /\ Cheapest(Entries, M, CapOf, d)  BY <1>2, <1>5
      <4>2. QED  BY ONLY <3>2, <3>3, <3>4, <4>1, CheapestIsBest
    <3>6. QED  BY <1>1, <3>5, ArgumentsStay
  <2>3. /\ Tree(nodes', M', d) /\ Best(M', CapOf', d)
        /\ freq_cap' = 1 => \A u \in 1 .. M' : d[n + u] <= max_len'
        /\ phase' = "links" => l' + d[p'] = d[n + h']
        /\ \A s \in Used' : s < next' => lengths'[s] = d[n + Rank(s)']
    BY <1>1, <1>2, <1>6, <1>7, <2>1, <2>2
  <2>4. QED  BY <2>3 DEF CodeInv
<1>9. CountInv'
  <2>1. Passed(1)' = Passed(1) /\ Passed(1) = 0  BY <1>1, ArgumentsStay, PassedRank
  <2>2. Passed(next)' = 0  BY <1>1, <2>1 DEF Passed
  <2>3. 1 \in 1 .. n + 1 /\ \A s \in 1 .. 1 - 1 : FALSE  BY <1>2
  <2>4. QED  BY <1>1, <1>2, <2>2, <2>3 DEF CountInv
<1>10. LengthsTypeOK'
  <2>1. 0 \in 0 .. n /\ 1 \in 0 .. n + 1  BY <1>2
  <2>2. QED  BY <1>1, <2>1 DEF LengthsTypeOK
<1>11. TreesInv' /\ EntriesInv' /\ HeapInv' /\ CompleteCode' /\ Optimal'
  BY <1>1 DEF TreesInv, EntriesInv, HeapInv, CompleteCode, Optimal, Building
<1>12. QED  BY <1>2, <1>8, <1>9, <1>10, <1>11

(* What the steps that read the code off the tree leave alone.             *)
LEMMA CodeStays ==
  ASSUME LengthsInv, UNCHANGED <<arguments, nodes, freq_cap>>,
         phase' \in {"symbol", "links", "fill", "done"}
  PROVE  /\ M' = M /\ Used' = Used /\ max_len' = max_len /\ ArgumentsInv'
         /\ (\A x : Passed(x)' = Passed(x)) /\ (\A s : Rank(s)' = Rank(s)) /\ CapOf' = CapOf
         /\ TreesInv' /\ EntriesInv' /\ HeapInv' /\ M \in 0 .. n /\ n \in Nat
         /\ \A d : Tree(nodes, M, d)' <=> Tree(nodes, M, d)
<1>1. M' = M /\ Used' = Used /\ max_len' = max_len /\ ArgumentsInv'
      /\ (\A x : Passed(x)' = Passed(x)) /\ (\A s : Rank(s)' = Rank(s)) /\ CapOf' = CapOf
  BY ArgumentsStay DEF arguments, LengthsInv
<1>2. TreesInv' /\ EntriesInv' /\ HeapInv'
  BY DEF TreesInv, EntriesInv, HeapInv, Building
<1>3. QED  BY <1>1, <1>2, Spaces

LEMMA SkipUnusedStep == LengthsInv /\ SkipUnused => LengthsInv'
<1> SUFFICES ASSUME LengthsInv, SkipUnused  PROVE LengthsInv'
  OBVIOUS
<1>1. /\ phase = "symbol" /\ next <= n /\ freqs[next] = 0
      /\ lengths' = [lengths EXCEPT ![next] = 0] /\ next' = next + 1
      /\ UNCHANGED <<arguments, nodes, h, freq_cap, phase, i, p, l>>
  BY DEF SkipUnused
<1>2. /\ M' = M /\ Used' = Used /\ max_len' = max_len /\ ArgumentsInv'
      /\ (\A x : Passed(x)' = Passed(x)) /\ (\A s : Rank(s)' = Rank(s)) /\ CapOf' = CapOf
      /\ TreesInv' /\ EntriesInv' /\ HeapInv' /\ M \in 0 .. n /\ n \in Nat
  BY <1>1, CodeStays
<1> USE DEF LengthsInv
<1>3. /\ Coding /\ Coding' /\ next \in 1 .. n /\ next \in Nat /\ next \notin Used
      /\ next \in DOMAIN lengths
  <2>1. Coding /\ Coding' /\ next \in 1 .. n + 1  BY <1>1 DEF Coding, CountInv
  <2>2. next \in 1 .. n  BY <1>1, <1>2, <2>1
  <2>3. QED  BY <1>1, <2>1, <2>2 DEF Used, Symbols, LengthsTypeOK
<1>4. lengths'[next] = 0 /\ \A s \in Symbols : s # next => lengths'[s] = lengths[s]
  BY <1>1, <1>3 DEF LengthsTypeOK
<1>5. \A s \in 1 .. next : s \in Symbols /\ (s # next => s \in 1 .. next - 1)
  BY <1>2, <1>3 DEF Symbols
<1>6. CountInv'
  <2>1. \A s \in 1 .. next : IF s \in Used THEN lengths'[s] \in 1 .. max_len ELSE lengths'[s] = 0
    BY <1>3, <1>4, <1>5 DEF CountInv
  <2>2. next + 1 \in 1 .. n + 1 /\ (next + 1) - 1 = next  BY <1>2, <1>3
  <2>3. Passed(next)' = Passed(next + 1)
    <3>1. Passed(next)' = Passed(next')  BY <1>2 DEF Passed
    <3>2. QED  BY <1>1, <3>1
  <2>4. Passed(next + 1) = Passed(next)  BY <1>3, PassedRank
  <2>5. QED  BY <1>1, <1>2, <1>3, <2>1, <2>2, <2>3, <2>4 DEF CountInv
<1>7. CodeInv'
  <2>1. PICK d : /\ Tree(nodes, M, d) /\ Best(M, CapOf, d)
                 /\ freq_cap = 1 => \A u \in 1 .. M : d[n + u] <= max_len
                 /\ \A s \in Used : s < next => lengths[s] = d[n + Rank(s)]
    BY <1>3 DEF CodeInv
  <2>2. ASSUME NEW s \in Used, s < next + 1  PROVE lengths'[s] = d[n + Rank(s)]
    <3>1. s \in Symbols /\ s \in Nat /\ s # next  BY <1>3, UsedSet DEF Symbols
    <3>2. s < next  BY <1>3, <2>2, <3>1
    <3>3. QED  BY <1>4, <2>1, <3>1, <3>2
  <2>3. /\ Tree(nodes', M', d) /\ Best(M', CapOf', d)
        /\ freq_cap' = 1 => \A u \in 1 .. M' : d[n + u] <= max_len'
        /\ phase' = "links" => l' + d[p'] = d[n + h']
        /\ \A s \in Used' : s < next' => lengths'[s] = d[n + Rank(s)']
    BY <1>1, <1>2, <2>1, <2>2
  <2>4. QED  BY <2>3 DEF CodeInv
<1>8. LengthsTypeOK'
  <2>1. 0 \in 0 .. n /\ next + 1 \in 0 .. n + 1  BY <1>2, <1>3
  <2>2. lengths' \in [Symbols -> 0 .. n \cup {UNINIT}]  BY <1>1, <2>1 DEF LengthsTypeOK
  <2>3. QED  BY <1>1, <2>1, <2>2 DEF LengthsTypeOK
<1>9. CompleteCode' /\ Optimal'  BY <1>1 DEF CompleteCode, Optimal
<1>10. QED  BY <1>2, <1>6, <1>7, <1>8, <1>9

LEMMA FirstLinkStep == LengthsInv /\ FirstLink => LengthsInv'
<1> SUFFICES ASSUME LengthsInv, FirstLink  PROVE LengthsInv'
  OBVIOUS
<1>1. /\ phase = "symbol" /\ next <= n /\ freqs[next] # 0 /\ phase' = "links"
      /\ h' = h + 1 /\ p' = nodes[n + (h + 1)] /\ l' = 1
      /\ UNCHANGED <<arguments, nodes, freq_cap, i, next, lengths>>
  BY DEF FirstLink
<1>2. /\ M' = M /\ Used' = Used /\ max_len' = max_len /\ ArgumentsInv'
      /\ (\A x : Passed(x)' = Passed(x)) /\ (\A s : Rank(s)' = Rank(s)) /\ CapOf' = CapOf
      /\ TreesInv' /\ EntriesInv' /\ HeapInv' /\ M \in 0 .. n /\ n \in Nat
  BY <1>1, CodeStays
<1> USE DEF LengthsInv
<1>3. Coding /\ Coding' /\ M >= 2 /\ next \in Used /\ h = Passed(next)
  <2>1. Coding /\ Coding' /\ M >= 2 /\ next \in 1 .. n + 1 /\ h = Passed(next)
    BY <1>1 DEF Coding, CountInv
  <2>2. next \in 1 .. n  BY <1>1, <1>2, <2>1
  <2>3. QED  BY <1>1, <2>1, <2>2 DEF Used, Symbols
<1>4. h + 1 = Rank(next) /\ h + 1 \in 1 .. M  BY <1>3, PassedRank, RankGrows
<1>5. PICK d : /\ Tree(nodes, M, d) /\ Best(M, CapOf, d)
               /\ freq_cap = 1 => \A u \in 1 .. M : d[n + u] <= max_len
               /\ \A s \in Used : s < next => lengths[s] = d[n + Rank(s)]
  BY <1>3 DEF CodeInv
<1>6. /\ nodes[n + (h + 1)] \in 2 .. M /\ d[nodes[n + (h + 1)]] \in Nat
      /\ d[n + (h + 1)] = d[nodes[n + (h + 1)]] + 1
  <2>1. n + (h + 1) \in Live(2, M) /\ n + (h + 1) # 2  BY <1>2, <1>3, <1>4 DEF Live
  <2>2. \A t \in 2 .. M : t \in Live(2, M)  BY DEF Live
  <2>3. QED  BY <1>5, <2>1, <2>2 DEF Tree
<1>7. CountInv'
  <2>1. Rank(next)' = Rank(next)
    <3>1. Rank(next)' = Rank(next')  BY <1>2 DEF Rank
    <3>2. QED  BY <1>1, <3>1
  <2>2. 1 \in Nat \ {0}  OBVIOUS
  <2>3. QED  BY <1>1, <1>2, <1>3, <1>4, <1>6, <2>1, <2>2 DEF CountInv
<1>8. CodeInv'
  <2>1. 1 + d[p'] = d[n + h']  BY <1>1, <1>6
  <2>2. /\ Tree(nodes', M', d) /\ Best(M', CapOf', d)
        /\ freq_cap' = 1 => \A u \in 1 .. M' : d[n + u] <= max_len'
        /\ phase' = "links" => l' + d[p'] = d[n + h']
        /\ \A s \in Used' : s < next' => lengths'[s] = d[n + Rank(s)']
    BY <1>1, <1>2, <1>5, <2>1
  <2>3. QED  BY <2>2 DEF CodeInv
<1>9. LengthsTypeOK'
  <2>1. h + 1 \in 0 .. n /\ 1 \in 0 .. n  BY <1>2, <1>4
  <2>2. nodes[n + (h + 1)] \in 0 .. UNIT * UNIT - 1
    <3>1. nodes[n + (h + 1)] \in 0 .. UNIT - 1  BY <1>2, <1>6, Spaces
    <3>2. QED  BY <3>1, Spaces
  <2>3. QED  BY <1>1, <2>1, <2>2 DEF LengthsTypeOK
<1>10. CompleteCode' /\ Optimal'  BY <1>1 DEF CompleteCode, Optimal
<1>11. QED  BY <1>2, <1>7, <1>8, <1>9, <1>10

LEMMA FollowLinkStep == LengthsInv /\ FollowLink => LengthsInv'
<1> SUFFICES ASSUME LengthsInv, FollowLink  PROVE LengthsInv'
  OBVIOUS
<1>1. /\ phase = "links" /\ p # 2 /\ l' = l + 1 /\ p' = nodes[p]
      /\ UNCHANGED <<arguments, nodes, h, freq_cap, phase, i, next, lengths>>
  BY DEF FollowLink
<1>2. /\ M' = M /\ Used' = Used /\ max_len' = max_len /\ ArgumentsInv'
      /\ (\A x : Passed(x)' = Passed(x)) /\ (\A s : Rank(s)' = Rank(s)) /\ CapOf' = CapOf
      /\ TreesInv' /\ EntriesInv' /\ HeapInv' /\ M \in 0 .. n /\ n \in Nat
  BY <1>1, CodeStays
<1> USE DEF LengthsInv
<1>3. Coding /\ Coding' /\ next \in Used /\ h = Rank(next) /\ p \in 2 .. M /\ l \in Nat \ {0}
  BY <1>1 DEF Coding, CountInv
<1>4. h \in 1 .. M  BY <1>3, RankGrows
<1>5. PICK d : /\ Tree(nodes, M, d) /\ Best(M, CapOf, d)
               /\ freq_cap = 1 => \A u \in 1 .. M : d[n + u] <= max_len
               /\ l + d[p] = d[n + h]
               /\ \A s \in Used : s < next => lengths[s] = d[n + Rank(s)]
  BY <1>1, <1>3 DEF CodeInv
<1>6. /\ nodes[p] \in 2 .. M /\ d[nodes[p]] \in Nat /\ d[p] = d[nodes[p]] + 1
      /\ d[n + h] \in Nat /\ d[n + h] + 1 <= M
  <2>1. p \in Live(2, M) /\ n + h \in Live(2, M)  BY <1>2, <1>3, <1>4 DEF Live
  <2>2. \A t \in 2 .. M : t \in Live(2, M)  BY DEF Live
  <2>3. QED  BY <1>1, <1>5, <2>1, <2>2 DEF Tree
<1>7. l + 1 \in Nat \ {0} /\ (l + 1) + d[nodes[p]] = d[n + h] /\ l + 1 \in 0 .. n
  BY <1>2, <1>3, <1>5, <1>6
<1>8. CountInv'
  <2>1. Rank(next)' = Rank(next)
    <3>1. Rank(next)' = Rank(next')  BY <1>2 DEF Rank
    <3>2. QED  BY <1>1, <3>1
  <2>2. QED  BY <1>1, <1>2, <1>3, <1>6, <1>7, <2>1 DEF CountInv
<1>9. CodeInv'
  <2>1. /\ Tree(nodes', M', d) /\ Best(M', CapOf', d)
        /\ freq_cap' = 1 => \A u \in 1 .. M' : d[n + u] <= max_len'
        /\ phase' = "links" => l' + d[p'] = d[n + h']
        /\ \A s \in Used' : s < next' => lengths'[s] = d[n + Rank(s)']
    BY <1>1, <1>2, <1>5, <1>7
  <2>2. QED  BY <2>1 DEF CodeInv
<1>10. LengthsTypeOK'
  <2>1. nodes[p] \in 0 .. UNIT - 1  BY <1>2, <1>6, Spaces
  <2>2. nodes[p] \in 0 .. UNIT * UNIT - 1  BY <2>1, Spaces
  <2>3. QED  BY <1>1, <1>7, <2>2 DEF LengthsTypeOK
<1>11. CompleteCode' /\ Optimal'  BY <1>1 DEF CompleteCode, Optimal
<1>12. QED  BY <1>2, <1>8, <1>9, <1>10, <1>11

LEMMA SymbolLengthStep == LengthsInv /\ SymbolLength => LengthsInv'
<1> SUFFICES ASSUME LengthsInv, SymbolLength  PROVE LengthsInv'
  OBVIOUS
<1>1. /\ phase = "links" /\ p = 2 /\ ~ (l > max_len) /\ phase' = "symbol"
      /\ lengths' = [lengths EXCEPT ![next] = l] /\ next' = next + 1
      /\ UNCHANGED <<arguments, nodes, h, freq_cap, i, p, l>>
  BY DEF SymbolLength, TooLong
<1>2. /\ M' = M /\ Used' = Used /\ max_len' = max_len /\ ArgumentsInv'
      /\ (\A x : Passed(x)' = Passed(x)) /\ (\A s : Rank(s)' = Rank(s)) /\ CapOf' = CapOf
      /\ TreesInv' /\ EntriesInv' /\ HeapInv' /\ M \in 0 .. n /\ n \in Nat
  BY <1>1, CodeStays
<1> USE DEF LengthsInv
<1>3. Coding /\ Coding' /\ M >= 2 /\ next \in Used /\ h = Rank(next) /\ l \in Nat \ {0}
  BY <1>1 DEF Coding, CountInv
<1>4. next \in 1 .. n /\ next \in Nat /\ next \in DOMAIN lengths
  BY <1>2, <1>3, UsedSet DEF LengthsTypeOK, Symbols
<1>5. lengths'[next] = l /\ \A s \in Symbols : s # next => lengths'[s] = lengths[s]
  BY <1>1, <1>4 DEF LengthsTypeOK
<1>6. \A s \in 1 .. next : s \in Symbols /\ (s # next => s \in 1 .. next - 1)
  BY <1>2, <1>4 DEF Symbols
<1>7. l \in 1 .. max_len
  <2>1. max_len \in Nat  BY Parameters DEF ArgumentsInv
  <2>2. QED  BY <1>1, <1>3, <2>1
<1>8. CountInv'
  <2>1. \A s \in 1 .. next : IF s \in Used THEN lengths'[s] \in 1 .. max_len ELSE lengths'[s] = 0
    BY <1>3, <1>5, <1>6, <1>7 DEF CountInv
  <2>2. next + 1 \in 1 .. n + 1 /\ (next + 1) - 1 = next  BY <1>2, <1>4
  <2>3. Passed(next)' = Passed(next + 1)
    <3>1. Passed(next)' = Passed(next')  BY <1>2 DEF Passed
    <3>2. QED  BY <1>1, <3>1
  <2>4. Passed(next + 1) = h  BY <1>3, PassedRank
  <2>5. QED  BY <1>1, <1>2, <1>3, <2>1, <2>2, <2>3, <2>4 DEF CountInv
<1>9. CodeInv'
  <2>1. PICK d : /\ Tree(nodes, M, d) /\ Best(M, CapOf, d)
                 /\ freq_cap = 1 => \A u \in 1 .. M : d[n + u] <= max_len
                 /\ l + d[p] = d[n + h]
                 /\ \A s \in Used : s < next => lengths[s] = d[n + Rank(s)]
    BY <1>1, <1>3 DEF CodeInv
  <2>2. l = d[n + h]
    <3>1. d[p] = 0  BY <1>1, <2>1 DEF Tree
    <3>2. QED  BY <1>3, <2>1, <3>1
  <2>3. ASSUME NEW s \in Used, s < next + 1  PROVE lengths'[s] = d[n + Rank(s)]
    <3>1. CASE s = next  BY <1>3, <1>5, <2>2, <3>1
    <3>2. CASE s # next
      <4>1. s \in Symbols /\ s \in Nat  BY UsedSet DEF Symbols
      <4>2. s < next  BY <1>4, <2>3, <3>2, <4>1
      <4>3. QED  BY <1>5, <2>1, <3>2, <4>1, <4>2
    <3>3. QED  BY <3>1, <3>2
  <2>4. /\ Tree(nodes', M', d) /\ Best(M', CapOf', d)
        /\ freq_cap' = 1 => \A u \in 1 .. M' : d[n + u] <= max_len'
        /\ phase' = "links" => l' + d[p'] = d[n + h']
        /\ \A s \in Used' : s < next' => lengths'[s] = d[n + Rank(s)']
    BY <1>1, <1>2, <2>1, <2>3
  <2>5. QED  BY <2>4 DEF CodeInv
<1>10. LengthsTypeOK'
  <2>1. next + 1 \in 0 .. n + 1 /\ l \in 0 .. n  BY <1>2, <1>4 DEF LengthsTypeOK
  <2>2. lengths' \in [Symbols -> 0 .. n \cup {UNINIT}]  BY <1>1, <2>1 DEF LengthsTypeOK
  <2>3. QED  BY <1>1, <2>1, <2>2 DEF LengthsTypeOK
<1>11. CompleteCode' /\ Optimal'  BY <1>1 DEF CompleteCode, Optimal
<1>12. QED  BY <1>2, <1>8, <1>9, <1>10, <1>11

(* The cap can be lowered: under the lowest one no length is over max_len. *)
LEMMA TryAgainStep == LengthsInv /\ TryAgain => LengthsInv'
<1> SUFFICES ASSUME LengthsInv, TryAgain  PROVE LengthsInv'
  OBVIOUS
<1>1. /\ phase = "links" /\ p = 2 /\ l > max_len /\ phase' = "fill"
      /\ freq_cap' = freq_cap \div 2
      /\ UNCHANGED <<arguments, nodes, h, i, next, p, l, lengths>>
  BY DEF TryAgain, TooLong, LowerCap
<1>2. ArgumentsInv'  BY <1>1, ArgumentsStay DEF LengthsInv
<1> USE DEF LengthsInv
<1>3. Coding /\ next \in Used /\ h = Rank(next) /\ l \in Nat \ {0} /\ max_len \in Nat
  <2>1. max_len \in Nat  BY Parameters DEF ArgumentsInv
  <2>2. QED  BY <1>1, <2>1 DEF Coding, CountInv
<1>4. freq_cap # 1
  <2>1. ASSUME freq_cap = 1  PROVE FALSE
    <3>1. PICK d : /\ Tree(nodes, M, d) /\ Best(M, CapOf, d)
                   /\ \A u \in 1 .. M : d[n + u] <= max_len
                   /\ l + d[p] = d[n + h]
      BY <1>1, <1>3, <2>1 DEF CodeInv
    <3>2. d[p] = 0  BY <1>1, <3>1 DEF Tree
    <3>3. d[n + h] <= max_len  BY <1>3, <3>1, RankGrows
    <3>4. QED  BY <1>1, <1>3, <3>1, <3>2, <3>3
  <2>2. QED  BY <2>1
<1>5. freq_cap \div 2 \in 1 .. UNIT - 1
  <2>1. freq_cap \in 1 .. UNIT - 1 /\ UNIT \in Nat  BY Spaces DEF LengthsTypeOK
  <2>2. QED  BY <1>4, <2>1
<1>6. LengthsTypeOK'  BY <1>1, <1>5 DEF LengthsTypeOK
<1>7. /\ TreesInv' /\ EntriesInv' /\ HeapInv' /\ CountInv' /\ CodeInv'
      /\ CompleteCode' /\ Optimal'
  BY <1>1 DEF TreesInv, EntriesInv, HeapInv, CountInv, CodeInv, CompleteCode, Optimal, Building,
     Coding
<1>8. QED  BY <1>2, <1>6, <1>7

LEMMA ReturnLengthsStep == LengthsInv /\ ReturnLengths => LengthsInv'
<1> SUFFICES ASSUME LengthsInv, ReturnLengths  PROVE LengthsInv'
  OBVIOUS
<1>1. /\ phase = "symbol" /\ next > n /\ phase' = "done"
      /\ UNCHANGED <<arguments, nodes, h, freq_cap, i, next, p, l, lengths>>
  BY DEF ReturnLengths
<1>2. /\ M' = M /\ Used' = Used /\ max_len' = max_len /\ ArgumentsInv'
      /\ TreesInv' /\ EntriesInv' /\ HeapInv' /\ M \in 0 .. n /\ n \in Nat
  BY <1>1, CodeStays
<1> USE DEF LengthsInv
<1>3. Coding /\ next = n + 1
  <2>1. Coding /\ next \in 1 .. n + 1  BY <1>1 DEF Coding, CountInv
  <2>2. QED  BY <1>1, <1>2, <2>1
<1>4. \A s \in Symbols : IF s \in Used THEN lengths[s] \in 1 .. max_len ELSE lengths[s] = 0
  <2>1. \A s \in Symbols : s \in 1 .. next - 1  BY <1>2, <1>3 DEF Symbols
  <2>2. QED  BY <1>3, <2>1 DEF CountInv
<1>5. PICK d : /\ Tree(nodes, M, d) /\ Best(M, CapOf, d)
               /\ \A s \in Used : s < next => lengths[s] = d[n + Rank(s)]
  BY <1>3 DEF CodeInv
<1>6. \A s \in Used : lengths[s] = d[n + Rank(s)]
  <2>1. \A s \in Used : s < next  BY <1>2, <1>3, UsedSet
  <2>2. QED  BY <1>5, <2>1
<1> DEFINE f == [s \in Used |-> 2 ^ (n - lengths[s])]
           e == Share(M, d)
           g == [s \in Used |-> Rank(s)]
<1>7. ASSUME NEW s \in Used  PROVE e[g[s]] \in Int /\ f[s] = e[g[s]]
  <2>1. g[s] = Rank(s) /\ Rank(s) \in 1 .. M  BY RankGrows
  <2>2. e[Rank(s)] = 2 ^ (n - d[n + Rank(s)]) /\ f[s] = 2 ^ (n - lengths[s])
    BY <2>1 DEF Share
  <2>3. n + Rank(s) \in Live(2, M)  BY <1>2, <2>1 DEF Live
  <2>4. d[n + Rank(s)] \in Nat /\ d[n + Rank(s)] + 1 <= M  BY <1>5, <2>3 DEF Tree
  <2>5. n - d[n + Rank(s)] \in Nat  BY <1>2, <2>4
  <2>6. 2 ^ (n - d[n + Rank(s)]) \in Nat  BY <2>5, PowerPositive
  <2> HIDE DEF e, f, g
  <2>7. QED  BY <1>6, <2>1, <2>2, <2>6
<1>8. \A x, y \in Used : g[x] = g[y] => x = y  BY UsedAtRank
<1>9. {g[s] : s \in Used} = 1 .. M
  <2>1. \A s \in Used : g[s] = Rank(s) /\ Rank(s) \in 1 .. M  BY RankGrows
  <2>2. \A x \in 1 .. M : \E s \in Used : g[s] = x
    <3>1. \A x \in 1 .. M : UsedAt[x] \in Used /\ Rank(UsedAt[x]) = x  BY UsedAtRank
    <3>2. QED  BY <2>1, <3>1
  <2> HIDE DEF g
  <2>3. QED  BY <2>1, <2>2
<1>10. SumFunctionOnSet(f, Used) = 2 ^ n
  <2> HIDE DEF e, f, g
  <2>1. SumFunctionOnSet(f, Used) = SumFunctionOnSet(e, {g[s] : s \in Used})
    <3>1. IsFiniteSet(Used)  BY UsedSet
    <3>2. \A s \in Used : e[g[s]] \in Int /\ f[s] = e[g[s]]  BY <1>7
    <3>3. QED  BY ONLY <1>8, <3>1, <3>2, SumRenamed
  <2>2. SumFunctionOnSet(e, 1 .. M) = 2 ^ n  BY <1>5 DEF Tree, e
  <2>3. QED  BY <1>9, <2>1, <2>2
<1>11. Kraft(lengths, Used) = 2 ^ n  BY <1>10 DEF Kraft
<1>12. CompleteCode'
  <2>1. Kraft(lengths', Used') = 2 ^ n  BY <1>1, <1>2, <1>11
  <2>2. \A s \in Symbols : IF s \in Used' THEN lengths'[s] \in 1 .. max_len' ELSE lengths'[s] = 0
    BY <1>1, <1>2, <1>4
  <2>3. QED  BY <2>1, <2>2 DEF CompleteCode
<1>13. Optimal'
  <2>1. ASSUME freq_cap = UNIT - 1, NEW lens \in [Used -> 1 .. n - 1], Kraft(lens, Used) <= 2 ^ n
        PROVE  Cost(lengths) <= Cost(lens)
    <3>1. ASSUME NEW u \in 1 .. M  PROVE d[n + u] \in 0 .. n
      <4>1. n + u \in Live(2, M)  BY <1>2 DEF Live
      <4>2. d[n + u] \in Nat /\ d[n + u] + 1 <= M  BY <1>5, <4>1 DEF Tree
      <4>3. QED  BY <1>2, <4>2, Spaces
    <3>2. ArgumentsInv /\ Best(M, CapOf, d)  BY <1>5
    <3>3. QED  BY ONLY <1>6, <2>1, <3>1, <3>2, BestIsOptimal
  <2>2. freqs' = freqs  BY <1>1 DEF arguments
  <2>3. lengths' = lengths /\ freq_cap' = freq_cap /\ Used' = Used  BY <1>1, <1>2
  <2> HIDE DEF LengthsInv
  <2>4. QED  BY <2>1, <2>2, <2>3 DEF Optimal, Kraft, Cost
<1>14. LengthsTypeOK' /\ CountInv' /\ CodeInv'
  BY <1>1 DEF LengthsTypeOK, CountInv, CodeInv, Coding
<1>15. QED  BY <1>2, <1>12, <1>13, <1>14

-----------------------------------------------------------------------------
LEMMA LengthsStep == LengthsInv /\ [LengthsNext]_lengthsVars => LengthsInv'
<1> SUFFICES ASSUME LengthsInv, [LengthsNext]_lengthsVars  PROVE LengthsInv'
  OBVIOUS
<1>1. CASE Fill  BY <1>1, FillStep
<1>2. CASE Heapify  BY <1>2, HeapifyStep
<1>3. CASE MoveDown  BY <1>3, MoveDownStep
<1>4. CASE DownEnds  BY <1>4, DownEndsStep
<1>5. CASE FewSymbols  BY <1>5, FewSymbolsStep
<1>6. CASE TakeLowest  BY <1>6, TakeLowestStep
<1>7. CASE Join  BY <1>7, JoinStep
<1>8. CASE TreeBuilt  BY <1>8, TreeBuiltStep
<1>9. CASE SkipUnused  BY <1>9, SkipUnusedStep
<1>10. CASE FirstLink  BY <1>10, FirstLinkStep
<1>11. CASE FollowLink  BY <1>11, FollowLinkStep
<1>12. CASE SymbolLength  BY <1>12, SymbolLengthStep
<1>13. CASE TryAgain  BY <1>13, TryAgainStep
<1>14. CASE ReturnLengths  BY <1>14, ReturnLengthsStep
<1>15. CASE UNCHANGED lengthsVars
  <2>1. UNCHANGED <<arguments, nodes, h, freq_cap, phase, i, next, p, l, lengths>>
    BY <1>15 DEF lengthsVars
  <2>2. /\ M' = M /\ Used' = Used /\ CapOf' = CapOf /\ max_len' = max_len /\ ArgumentsInv'
        /\ (\A x : Passed(x)' = Passed(x)) /\ (\A s : Rank(s)' = Rank(s))
    BY <2>1, ArgumentsStay DEF LengthsInv, arguments
  <2>3. LengthsTypeOK'  BY <2>1 DEF LengthsInv, LengthsTypeOK
  <2>4. Building' = Building /\ Taken' = Taken /\ Coding' = Coding /\ Entries' = Entries /\ Top' = Top
    BY <2>1 DEF Building, Taken, Coding, Entries, Top
  <2>5. TreesInv'  BY <2>1, <2>2, <2>4 DEF LengthsInv, TreesInv
  <2>6. EntriesInv' /\ HeapInv'  BY <2>1, <2>2, <2>4 DEF LengthsInv, EntriesInv, HeapInv
  <2>7. CountInv' /\ CodeInv'
    <3>1. Passed(next)' = Passed(next) /\ Rank(next)' = Rank(next)
      BY <2>1, <2>2 DEF Passed, Rank
    <3>2. QED  BY <2>1, <2>2, <2>4, <3>1 DEF LengthsInv, CountInv, CodeInv
  <2>8. CompleteCode' /\ Optimal'
    BY <2>1, <2>2 DEF LengthsInv, CompleteCode, Optimal, Kraft, Cost, M, arguments
  <2>9. QED  BY <2>2, <2>3, <2>5, <2>6, <2>7, <2>8 DEF LengthsInv
<1>16. QED
  BY <1>1, <1>2, <1>3, <1>4, <1>5, <1>6, <1>7, <1>8, <1>9, <1>10, <1>11, <1>12, <1>13, <1>14,
     <1>15 DEF LengthsNext

(* The invariant holds of every call of compute_huffman_lengths.           *)
LEMMA LengthsInvariant == LengthsSpec => []LengthsInv
<1>1. QED  BY InitLengths, LengthsStep, PTL DEF LengthsSpec

(* compute_huffman_lengths stays within its array and its words, reads no  *)
(* element that is not written, and the cap can be lowered as often as it  *)
(* has to be: "Cannot lower freq_cap!" (huffman.c:240) is never reached.   *)
THEOREM LengthsTypeCorrect == LengthsSpec => []LengthsTypeOK
<1>1. LengthsInv => LengthsTypeOK  BY DEF LengthsInv
<1>2. QED  BY <1>1, LengthsInvariant, PTL

(* Whatever the cap, the lengths that are returned are a complete code for *)
(* the used symbols, and no codeword is over the limit.                    *)
THEOREM LengthsAreCode == LengthsSpec => []CompleteCode
<1>1. LengthsInv => CompleteCode  BY DEF LengthsInv
<1>2. QED  BY <1>1, LengthsInvariant, PTL

(* Under the first cap the code is Huffman's: no prefix code of the used   *)
(* symbols makes the text shorter.                                         *)
THEOREM LengthsAreOptimal == LengthsSpec => []Optimal
<1>1. LengthsInv => Optimal  BY DEF LengthsInv
<1>2. QED  BY <1>1, LengthsInvariant, PTL

(* Between two joins the links lead every symbol to one entry of the heap, *)
(* whose frequency is the sum of its symbols', and the first is the lowest.*)
THEOREM ForestStaysIntact == LengthsSpec => []ForestIntact
<1>1. LengthsInv => ForestIntact
  <2> SUFFICES ASSUME LengthsInv, phase = "merge", NEW x \in 1 .. h
               PROVE  LET below == {u \in 1 .. Cardinality(Used) : Root(u) = Link(nodes[x])}
                      IN /\ below # {}
                         /\ Freq(nodes[x]) =
                              SumFunctionOnSet([u \in below |-> Capped(UsedAt[u])], below)
                         /\ nodes[1] <= nodes[x]
    BY DEF ForestIntact
  <2>1. Building /\ ~ Taken /\ M \in 0 .. n /\ n \in Nat /\ h \in Nat
    BY Spaces DEF Building, Taken, LengthsInv, LengthsTypeOK
  <2>2. PICK r, d : Links(nodes, Entries, Top, M, r, d) /\ Weighs(Entries, M, CapOf, r, d)
    BY <2>1 DEF LengthsInv, TreesInv
  <2>3. Entries = {nodes[y] : y \in 1 .. h} /\ Top \in Nat \ {0} /\ nodes[x] \in Entries
    BY <2>1 DEF Entries, Top
  <2>4. Roots = {Link(e) : e \in Entries}  BY <2>3 DEF Roots
  <2>5. \A u \in 1 .. M : Root(u) = r[n + u]  BY <2>1, <2>2, <2>3, <2>4, RootIs
  <2> DEFINE below == {u \in 1 .. Cardinality(Used) : Root(u) = Link(nodes[x])}
             f == [u \in below |-> Capped(UsedAt[u])]
  <2>6. below = Below(M, r, nodes[x])  BY <2>5 DEF Below, M
  <2>7. below # {} /\ Freq(nodes[x]) = SumFunctionOnSet(CapOf, below)
    BY <2>2, <2>3, <2>6 DEF Weighs
  <2>8. below \subseteq 1 .. M /\ IsFiniteSet(below)
    <3>1. below \subseteq 1 .. M  BY DEF M
    <3>2. IsFiniteSet(1 .. M)  BY <2>1, FS_Interval
    <3> HIDE DEF below
    <3>3. QED  BY <3>1, <3>2, FS_Subset
  <2>9. \A u \in below : f[u] = CapOf[u]  BY <2>8 DEF CapOf
  <2>10. SumFunctionOnSet(f, below) = SumFunctionOnSet(CapOf, below)
    <3> HIDE DEF f, below
    <3>1. QED  BY <2>8, <2>9, SumSame
  <2>11. nodes[1] <= nodes[x]
    <3>1. Ordered(nodes, h, 1, 0)  BY DEF LengthsInv, HeapInv
    <3>2. \A y \in 1 .. h : nodes[y] \in Int  BY <2>1, EntriesAreWords DEF LengthsInv
    <3>3. QED  BY <2>1, <3>1, <3>2, FirstIsLowest
  <2>12. QED  BY <2>7, <2>10, <2>11
<1>2. QED  BY <1>1, LengthsInvariant, PTL

=============================================================================
