-------------------------------- MODULE Sums --------------------------------
(***************************************************************************)
(* Facts about SumFunctionOnSet (the sum of f[x] for the x of a finite     *)
(* set), which the models use for frequencies, bits and bytes.             *)
(*                                                                         *)
(* Induction is by least counterexample: among the subsets of a finite set *)
(* that are counterexamples one has no other below it (WFMin).             *)
(*                                                                         *)
(* At the end, what is needed of powers of two.                            *)
(***************************************************************************)
EXTENDS Integers, Functions, FiniteSetTheorems, TLAPS

LEMMA LeastSubset ==
  ASSUME NEW S, IsFiniteSet(S), NEW Bad, Bad \subseteq SUBSET S, Bad # {}
  PROVE  \E U \in Bad : \A V \in Bad : V \subseteq U => V = U
<1>1. IsWellFoundedOn(StrictSubsetOrdering(S), SUBSET S)
  BY FS_StrictSubsetOrderingWellFounded, FS_FiniteSubsetsOfFinite
<1>2. \E U \in Bad : \A V \in Bad : ~ (<<V, U>> \in StrictSubsetOrdering(S))
  BY <1>1, WFMin
<1>3. QED  BY <1>2 DEF StrictSubsetOrdering

(* The natural numbers below a number as sets: 0 .. m.                     *)
LEMMA LeastNumber ==
  ASSUME NEW Bad, Bad \subseteq Nat, Bad # {}
  PROVE  \E m \in Bad : \A x \in Bad : m <= x
<1> PICK b \in Bad : TRUE  OBVIOUS
<1> DEFINE Below == {0 .. m : m \in {x \in Bad : x <= b}}
<1>1. \E U \in Below : \A V \in Below : V \subseteq U => V = U
  <2> DEFINE I == 0 .. b
  <2>1. IsFiniteSet(I)  BY FS_Interval
  <2>2. Below \subseteq SUBSET I
    <3>1. ASSUME NEW m \in Bad, m <= b  PROVE 0 .. m \subseteq 0 .. b  BY <3>1
    <3>2. QED  BY <3>1
  <2>4. I \in Below  OBVIOUS
  <2> HIDE DEF Below, I
  <2>3. QED  BY <2>1, <2>2, <2>4, LeastSubset
<1>2. PICK U \in Below : \A V \in Below : V \subseteq U => V = U
  BY <1>1
<1>3. PICK m \in Bad : m <= b /\ U = 0 .. m
  OBVIOUS
<1>4. ASSUME NEW x \in Bad, x < m  PROVE FALSE
  <2>1. 0 .. x \in Below /\ 0 .. x \subseteq 0 .. m  BY <1>3, <1>4
  <2>2. 0 .. x = 0 .. m  BY <2>1, <1>2, <1>3
  <2>3. m \in 0 .. m /\ m \notin 0 .. x  BY <1>4
  <2>4. QED  BY <2>2, <2>3
<1>5. QED  BY <1>4

-----------------------------------------------------------------------------
(* The definition of SumFunctionOnSet chooses a function on all subsets;   *)
(* there is one, and on a set all of them agree.                           *)
Chosen(s) == CHOOSE x \in s : TRUE
OneMore(g, f, s) == IF s = {} THEN 0 ELSE f[Chosen(s)] + g[s \ {Chosen(s)}]
AddsUp(g, f, D) == g = [s \in D |-> OneMore(g, f, s)]

LEMMA ChosenIn == \A s : s # {} => Chosen(s) \in s
BY DEF Chosen

LEMMA AddsUpExists ==
  ASSUME NEW S, IsFiniteSet(S), NEW f
  PROVE  \E g : AddsUp(g, f, SUBSET S)
<1> DEFINE Small(m) == {s \in SUBSET S : Cardinality(s) <= m}
           Bad == {m \in Nat : ~ \E g : AddsUp(g, f, Small(m))}
<1>1. \A s \in SUBSET S : IsFiniteSet(s) /\ Cardinality(s) \in Nat /\ Cardinality(s) <= Cardinality(S)
  BY FS_Subset, FS_CardinalityType
<1>2. \A s \in SUBSET S : s # {} => Cardinality(s \ {Chosen(s)}) = Cardinality(s) - 1
  BY <1>1, ChosenIn, FS_RemoveElement
<1>3. \A s \in SUBSET S : Cardinality(s) = 0 => s = {}
  BY <1>1, FS_EmptySet
<1>4. Cardinality({}) = 0  BY FS_EmptySet
<1>5. ASSUME Bad # {}  PROVE FALSE
  <2>1. PICK m \in Bad : \A x \in Bad : m <= x
    <3>1. Bad \subseteq Nat  OBVIOUS
    <3> HIDE DEF Bad
    <3>2. QED  BY <3>1, <1>5, LeastNumber
  <2>2. m # 0
    <3>1. AddsUp([s \in Small(0) |-> 0], f, Small(0))
      <4>1. \A s \in Small(0) : s = {}  BY <1>1, <1>3
      <4>2. QED  BY <4>1 DEF AddsUp, OneMore
    <3>2. QED  BY <3>1
  <2>3. PICK h : AddsUp(h, f, Small(m - 1))
    <3>1. m \in Nat  OBVIOUS
    <3> HIDE DEF Bad
    <3>2. m - 1 \in Nat /\ m - 1 \notin Bad  BY <2>1, <2>2, <3>1
    <3>3. QED  BY <3>2 DEF Bad
  <2> DEFINE g == [s \in Small(m) |-> OneMore(h, f, s)]
  <2>4. ASSUME NEW s \in Small(m - 1)  PROVE h[s] = g[s]
    <3>1. s \in Small(m)  BY <1>1
    <3>2. QED  BY <3>1, <2>3 DEF AddsUp
  <2>5. ASSUME NEW s \in Small(m)  PROVE OneMore(h, f, s) = OneMore(g, f, s)
    <3>1. CASE s = {}  BY <3>1 DEF OneMore
    <3>2. CASE s # {}
      <4>1. s \ {Chosen(s)} \in Small(m - 1)  BY <1>1, <1>2, <3>2
      <4>2. h[s \ {Chosen(s)}] = g[s \ {Chosen(s)}]  BY <4>1, <2>4
      <4> HIDE DEF g
      <4>3. QED  BY <4>2, <3>2 DEF OneMore
    <3>3. QED  BY <3>1, <3>2
  <2>6. g = [s \in Small(m) |-> OneMore(g, f, s)]
    <3> HIDE DEF Small
    <3> DEFINE G == g
    <3>1. \A s \in Small(m) : OneMore(h, f, s) = OneMore(G, f, s)  BY <2>5
    <3>2. G = [s \in Small(m) |-> OneMore(h, f, s)]  OBVIOUS
    <3> HIDE DEF G
    <3>3. G = [s \in Small(m) |-> OneMore(G, f, s)]  BY <3>1, <3>2
    <3>4. QED  BY <3>3 DEF G
  <2>7. QED  BY <2>6, <2>1 DEF AddsUp
<1>6. Cardinality(S) \in Nat /\ Small(Cardinality(S)) = SUBSET S
  BY <1>1, FS_CardinalityType
<1>7. QED  BY <1>5, <1>6

LEMMA AddsUpUnique ==
  ASSUME NEW S, NEW T, NEW f, NEW e, NEW g, NEW h, NEW U, IsFiniteSet(U),
         U \subseteq S, U \subseteq T, \A x \in U : f[x] = e[x],
         AddsUp(g, f, SUBSET S), AddsUp(h, e, SUBSET T)
  PROVE  g[U] = h[U]
<1> DEFINE Bad == {V \in SUBSET U : g[V] # h[V]}
<1>1. ASSUME Bad # {}  PROVE FALSE
  <2>1. PICK V \in Bad : \A W \in Bad : W \subseteq V => W = V
    <3>1. Bad \subseteq SUBSET U  OBVIOUS
    <3> HIDE DEF Bad
    <3>2. QED  BY <3>1, <1>1, LeastSubset
  <2>2. g[V] = OneMore(g, f, V) /\ h[V] = OneMore(h, e, V)  BY DEF AddsUp
  <2>3. V # {}  BY <2>2 DEF OneMore
  <2>4. V \ {Chosen(V)} \notin Bad  BY <2>1, <2>3, ChosenIn
  <2>5. g[V \ {Chosen(V)}] = h[V \ {Chosen(V)}] /\ f[Chosen(V)] = e[Chosen(V)]
    BY <2>4, <2>3, ChosenIn
  <2>6. QED  BY <2>2, <2>5 DEF OneMore
<1>2. QED  BY <1>1

LEMMA SumAddsUp ==
  ASSUME NEW S, IsFiniteSet(S), NEW f
  PROVE  \E g : AddsUp(g, f, SUBSET S) /\ SumFunctionOnSet(f, S) = g[S]
<1>1. \E g : AddsUp(g, f, SUBSET S)  BY AddsUpExists
<1>2. QED
  BY <1>1 DEF AddsUp, OneMore, Chosen, SumFunctionOnSet, FoldFunctionOnSet, MapThenFoldSet

-----------------------------------------------------------------------------
(* What the proofs of the models use.                                      *)
LEMMA SumEmpty ==
  ASSUME NEW f  PROVE SumFunctionOnSet(f, {}) = 0
<1>1. PICK g : AddsUp(g, f, SUBSET {}) /\ SumFunctionOnSet(f, {}) = g[{}]
  BY SumAddsUp, FS_EmptySet
<1>2. QED  BY <1>1 DEF AddsUp, OneMore

(* A sum depends on nothing but the values it adds.                        *)
LEMMA SumSame ==
  ASSUME NEW S, IsFiniteSet(S), NEW f, NEW e, \A x \in S : f[x] = e[x]
  PROVE  SumFunctionOnSet(f, S) = SumFunctionOnSet(e, S)
<1>1. PICK g : AddsUp(g, f, SUBSET S) /\ SumFunctionOnSet(f, S) = g[S]  BY SumAddsUp
<1>2. PICK h : AddsUp(h, e, SUBSET S) /\ SumFunctionOnSet(e, S) = h[S]  BY SumAddsUp
<1>3. g[S] = h[S]  BY <1>1, <1>2, AddsUpUnique
<1>4. QED  BY <1>1, <1>2, <1>3

LEMMA SumUnfold ==
  ASSUME NEW S, IsFiniteSet(S), NEW f, S # {}
  PROVE  SumFunctionOnSet(f, S) = f[Chosen(S)] + SumFunctionOnSet(f, S \ {Chosen(S)})
<1> DEFINE T == S \ {Chosen(S)}
<1>1. IsFiniteSet(T) /\ T \subseteq S  BY FS_RemoveElement
<1>2. PICK g : AddsUp(g, f, SUBSET S) /\ SumFunctionOnSet(f, S) = g[S]  BY SumAddsUp
<1>3. PICK h : AddsUp(h, f, SUBSET T) /\ SumFunctionOnSet(f, T) = h[T]  BY <1>1, SumAddsUp
<1>4. g[T] = h[T]
  <2> HIDE DEF T
  <2>1. QED  BY <1>1, <1>2, <1>3, AddsUpUnique
<1>5. g[S] = f[Chosen(S)] + g[T]  BY <1>2 DEF AddsUp, OneMore
<1>6. QED  BY <1>2, <1>3, <1>4, <1>5

(* Any element may be taken out first.                                     *)
LEMMA SumTakeOut ==
  ASSUME NEW S, IsFiniteSet(S), NEW f, \A y \in S : f[y] \in Int, NEW x \in S
  PROVE  /\ SumFunctionOnSet(f, S) = f[x] + SumFunctionOnSet(f, S \ {x})
         /\ SumFunctionOnSet(f, S) \in Int
<1> DEFINE Ok(V) == /\ SumFunctionOnSet(f, V) \in Int
                    /\ \A y \in V : SumFunctionOnSet(f, V) = f[y] + SumFunctionOnSet(f, V \ {y})
           Bad == {V \in SUBSET S : ~ Ok(V)}
<1>1. ASSUME Bad # {}  PROVE FALSE
  <2>1. PICK V \in Bad : \A W \in Bad : W \subseteq V => W = V
    <3>1. Bad \subseteq SUBSET S  OBVIOUS
    <3> HIDE DEF Bad
    <3>2. QED  BY <3>1, <1>1, LeastSubset
  <2>2. V # {}  BY SumEmpty
  <2>3. \A W \in SUBSET V : W # V => Ok(W)
    <3>1. \A W \in SUBSET V : W \in SUBSET S  OBVIOUS
    <3> HIDE DEF Ok
    <3>2. QED  BY <2>1, <3>1
  <2> DEFINE p == Chosen(V)
  <2>4. p \in V  BY <2>2, ChosenIn
  <2>5. IsFiniteSet(V)  BY FS_Subset
  <2>6. SumFunctionOnSet(f, V) = f[p] + SumFunctionOnSet(f, V \ {p})
    BY <2>2, <2>5, SumUnfold
  <2> HIDE DEF p
  <2>7. \A y \in V : SumFunctionOnSet(f, V \ {y}) \in Int
    BY <2>3
  <2>8. SumFunctionOnSet(f, V) \in Int  BY <2>4, <2>6, <2>7
  <2>9. ASSUME NEW y \in V  PROVE SumFunctionOnSet(f, V) = f[y] + SumFunctionOnSet(f, V \ {y})
    <3>1. CASE y = p  BY <3>1, <2>6
    <3>2. CASE y # p
      <4> DEFINE W == (V \ {p}) \ {y}
      <4>1. W = (V \ {y}) \ {p}  OBVIOUS
      <4>2. SumFunctionOnSet(f, V \ {p}) = f[y] + SumFunctionOnSet(f, W)
        <5>1. V \ {p} # V /\ y \in V \ {p}  BY <2>4, <3>2
        <5>2. QED  BY <5>1, <2>3
      <4>3. SumFunctionOnSet(f, V \ {y}) = f[p] + SumFunctionOnSet(f, W)
        <5>1. V \ {y} # V /\ p \in V \ {y}  BY <2>4, <3>2
        <5>2. QED  BY <5>1, <2>3, <4>1
      <4>4. SumFunctionOnSet(f, W) \in Int
        <5>1. W # V /\ W \subseteq V  OBVIOUS
        <5> HIDE DEF W
        <5>2. QED  BY <5>1, <2>3
      <4> HIDE DEF W
      <4>5. f[y] \in Int /\ f[p] \in Int  BY <2>4
      <4>6. QED  BY <2>6, <4>2, <4>3, <4>4, <4>5
    <3>3. QED  BY <3>1, <3>2
  <2>10. QED  BY <2>1, <2>8, <2>9
<1>2. Ok(S)  BY <1>1
<1>3. QED  BY <1>2

LEMMA SumInt ==
  ASSUME NEW S, IsFiniteSet(S), NEW f, \A y \in S : f[y] \in Int
  PROVE  SumFunctionOnSet(f, S) \in Int
<1>1. CASE S = {}  BY <1>1, SumEmpty
<1>2. ASSUME NEW x \in S  PROVE SumFunctionOnSet(f, S) \in Int  BY SumTakeOut
<1>3. QED  BY <1>1, <1>2

(* One element more.                                                       *)
LEMMA SumOneMore ==
  ASSUME NEW S, IsFiniteSet(S), NEW f, NEW x, x \notin S, f[x] \in Int,
         \A y \in S : f[y] \in Int
  PROVE  SumFunctionOnSet(f, S \cup {x}) = SumFunctionOnSet(f, S) + f[x]
<1>1. IsFiniteSet(S \cup {x})  BY FS_AddElement
<1>2. (S \cup {x}) \ {x} = S  OBVIOUS
<1>3. SumFunctionOnSet(f, S \cup {x}) = f[x] + SumFunctionOnSet(f, S)
  BY <1>1, <1>2, SumTakeOut
<1>4. SumFunctionOnSet(f, S) \in Int
  BY SumInt
<1>5. QED  BY <1>3, <1>4

(* A sum of natural numbers is one, and not less than that of a part.      *)
LEMMA SumNat ==
  ASSUME NEW S, IsFiniteSet(S), NEW f, \A y \in S : f[y] \in Nat
  PROVE  SumFunctionOnSet(f, S) \in Nat
<1> DEFINE Bad == {V \in SUBSET S : SumFunctionOnSet(f, V) \notin Nat}
<1>1. ASSUME Bad # {}  PROVE FALSE
  <2>1. PICK V \in Bad : \A W \in Bad : W \subseteq V => W = V
    <3>1. Bad \subseteq SUBSET S  OBVIOUS
    <3> HIDE DEF Bad
    <3>2. QED  BY <3>1, <1>1, LeastSubset
  <2>2. V # {}  BY SumEmpty
  <2>3. PICK x \in V : TRUE  BY <2>2
  <2>4. SumFunctionOnSet(f, V) = f[x] + SumFunctionOnSet(f, V \ {x})
    <3>1. IsFiniteSet(V)  BY FS_Subset
    <3>2. QED  BY <3>1, SumTakeOut
  <2>5. SumFunctionOnSet(f, V \ {x}) \in Nat  BY <2>1
  <2>6. QED  BY <2>4, <2>5
<1>2. QED  BY <1>1

LEMMA SumOfPart ==
  ASSUME NEW S, IsFiniteSet(S), NEW f, \A y \in S : f[y] \in Nat, NEW T, T \subseteq S
  PROVE  SumFunctionOnSet(f, T) <= SumFunctionOnSet(f, S)
<1> DEFINE Bad == {V \in SUBSET S : T \subseteq V /\ ~ (SumFunctionOnSet(f, T) <= SumFunctionOnSet(f, V))}
<1>0. \A V \in SUBSET S : IsFiniteSet(V) /\ SumFunctionOnSet(f, V) \in Nat
  BY FS_Subset, SumNat
<1>1. ASSUME Bad # {}  PROVE FALSE
  <2>1. PICK V \in Bad : \A W \in Bad : W \subseteq V => W = V
    <3>1. Bad \subseteq SUBSET S  OBVIOUS
    <3> HIDE DEF Bad
    <3>2. QED  BY <3>1, <1>1, LeastSubset
  <2>2. V # T  BY <1>0
  <2>3. PICK x \in V : x \notin T  BY <2>2
  <2>4. SumFunctionOnSet(f, V) = f[x] + SumFunctionOnSet(f, V \ {x})
    BY <1>0, SumTakeOut
  <2>5. SumFunctionOnSet(f, T) <= SumFunctionOnSet(f, V \ {x})  BY <2>1, <2>3
  <2>6. SumFunctionOnSet(f, T) \in Nat /\ SumFunctionOnSet(f, V \ {x}) \in Nat  BY <1>0
  <2>7. QED  BY <2>4, <2>5, <2>6
<1>2. QED  BY <1>1

LEMMA SumAtLeast ==
  ASSUME NEW S, IsFiniteSet(S), NEW f, \A y \in S : f[y] \in Nat, NEW x \in S
  PROVE  f[x] <= SumFunctionOnSet(f, S)
<1>1. SumFunctionOnSet(f, S) = f[x] + SumFunctionOnSet(f, S \ {x})  BY SumTakeOut
<1>2. SumFunctionOnSet(f, S \ {x}) \in Nat  BY FS_RemoveElement, SumNat
<1>3. QED  BY <1>1, <1>2

LEMMA SumZero ==
  ASSUME NEW S, IsFiniteSet(S), NEW f, \A y \in S : f[y] = 0
  PROVE  SumFunctionOnSet(f, S) = 0
<1> DEFINE Bad == {V \in SUBSET S : SumFunctionOnSet(f, V) # 0}
<1>1. ASSUME Bad # {}  PROVE FALSE
  <2>1. PICK V \in Bad : \A W \in Bad : W \subseteq V => W = V
    <3>1. Bad \subseteq SUBSET S  OBVIOUS
    <3> HIDE DEF Bad
    <3>2. QED  BY <3>1, <1>1, LeastSubset
  <2>2. V # {}  BY SumEmpty
  <2>3. PICK x \in V : TRUE  BY <2>2
  <2>4. SumFunctionOnSet(f, V) = f[x] + SumFunctionOnSet(f, V \ {x})
    <3>1. IsFiniteSet(V)  BY FS_Subset
    <3>2. QED  BY <3>1, SumTakeOut
  <2>5. SumFunctionOnSet(f, V \ {x}) = 0  BY <2>1
  <2>6. QED  BY <2>4, <2>5
<1>2. QED  BY <1>1

(* One value changed.                                                      *)
LEMMA SumChanged ==
  ASSUME NEW S, IsFiniteSet(S), NEW f, \A y \in S : f[y] \in Int,
         NEW e, NEW x \in S, e[x] \in Int, \A y \in S \ {x} : e[y] = f[y]
  PROVE  SumFunctionOnSet(e, S) = SumFunctionOnSet(f, S) - f[x] + e[x]
<1>1. SumFunctionOnSet(f, S) = f[x] + SumFunctionOnSet(f, S \ {x})  BY SumTakeOut
<1>2. SumFunctionOnSet(e, S) = e[x] + SumFunctionOnSet(e, S \ {x})  BY SumTakeOut
<1>3. SumFunctionOnSet(f, S \ {x}) = SumFunctionOnSet(e, S \ {x})
  BY FS_RemoveElement, SumSame
<1>4. SumFunctionOnSet(f, S \ {x}) \in Int
  BY FS_RemoveElement, SumInt
<1>5. QED  BY <1>1, <1>2, <1>3, <1>4

(* The same, one prefix of a sequence after another.                       *)
LEMMA SumPrefix ==
  ASSUME NEW k \in Nat \ {0}, NEW f, \A x \in 1 .. k : f[x] \in Int
  PROVE  SumFunctionOnSet(f, 1 .. k) = SumFunctionOnSet(f, 1 .. k - 1) + f[k]
<1>1. 1 .. k = (1 .. k - 1) \cup {k} /\ k \notin 1 .. k - 1  OBVIOUS
<1>2. IsFiniteSet(1 .. k - 1)  BY FS_Interval
<1> DEFINE I == 1 .. k - 1
<1>3. /\ IsFiniteSet(I) /\ k \notin I /\ 1 .. k = I \cup {k}
      /\ \A x \in I : f[x] \in Int  /\ f[k] \in Int
  BY <1>1, <1>2
<1> HIDE DEF I
<1>4. SumFunctionOnSet(f, I \cup {k}) = SumFunctionOnSet(f, I) + f[k]  BY <1>3, SumOneMore
<1>5. QED  BY <1>3, <1>4 DEF I

LEMMA SumUpto ==
  ASSUME NEW n \in Nat, NEW f, \A x \in 1 .. n : f[x] \in Nat, NEW k \in 0 .. n
  PROVE  /\ SumFunctionOnSet(f, 1 .. k) \in Nat
         /\ k = 0 => SumFunctionOnSet(f, 1 .. k) = 0
         /\ k # 0 => SumFunctionOnSet(f, 1 .. k) = SumFunctionOnSet(f, 1 .. k - 1) + f[k]
<1>1. SumFunctionOnSet(f, 1 .. k) \in Nat
  <2> DEFINE I == 1 .. k
  <2>1. IsFiniteSet(I)  BY FS_Interval
  <2>2. \A x \in I : f[x] \in Nat  OBVIOUS
  <2> HIDE DEF I
  <2>3. SumFunctionOnSet(f, I) \in Nat  BY <2>1, <2>2, SumNat
  <2>4. QED  BY <2>3 DEF I
<1>2. CASE k = 0
  <2>1. 1 .. k = {}  BY <1>2
  <2>2. QED  BY <1>1, <1>2, <2>1, SumEmpty
<1>3. CASE k # 0
  <2>1. k \in Nat \ {0} /\ \A x \in 1 .. k : f[x] \in Int  BY <1>3
  <2>2. SumFunctionOnSet(f, 1 .. k) = SumFunctionOnSet(f, 1 .. k - 1) + f[k]  BY <2>1, SumPrefix
  <2>3. QED  BY <1>1, <1>3, <2>2
<1>4. QED  BY <1>2, <1>3

LEMMA SumSameUpto ==
  ASSUME NEW n \in Nat, NEW f, NEW e, \A x \in 1 .. n : f[x] = e[x]
  PROVE  SumFunctionOnSet(f, 1 .. n) = SumFunctionOnSet(e, 1 .. n)
<1> DEFINE I == 1 .. n
<1>1. IsFiniteSet(I)  BY FS_Interval
<1>2. \A x \in I : f[x] = e[x]  OBVIOUS
<1> HIDE DEF I
<1>3. SumFunctionOnSet(f, I) = SumFunctionOnSet(e, I)  BY <1>1, <1>2, SumSame
<1>4. QED  BY <1>3 DEF I

(* The sum over two parts, and a sum of equal values.                      *)
LEMMA SumOfParts ==
  ASSUME NEW S, IsFiniteSet(S), NEW T, IsFiniteSet(T), S \cap T = {},
         NEW f, \A y \in S \cup T : f[y] \in Int
  PROVE  SumFunctionOnSet(f, S \cup T) = SumFunctionOnSet(f, S) + SumFunctionOnSet(f, T)
<1> DEFINE Bad == {V \in SUBSET T :
             SumFunctionOnSet(f, S \cup V) # SumFunctionOnSet(f, S) + SumFunctionOnSet(f, V)}
<1>1. ASSUME Bad # {}  PROVE FALSE
  <2>1. PICK V \in Bad : \A W \in Bad : W \subseteq V => W = V
    <3>1. Bad \subseteq SUBSET T  OBVIOUS
    <3> HIDE DEF Bad
    <3>2. QED  BY <3>1, <1>1, LeastSubset
  <2>2. SumFunctionOnSet(f, S) \in Int  BY SumInt
  <2>3. V # {}
    <3>1. ASSUME V = {}  PROVE FALSE
      <4>1. S \cup V = S /\ SumFunctionOnSet(f, V) = 0  BY <3>1, SumEmpty
      <4>2. QED  BY <2>2, <4>1
    <3>2. QED  BY <3>1
  <2>4. PICK x \in V : TRUE  BY <2>3
  <2> DEFINE W == V \ {x}
             U == S \cup W
  <2>5. IsFiniteSet(V) /\ IsFiniteSet(W)  BY FS_Subset, FS_RemoveElement
  <2>6. IsFiniteSet(U)  BY <2>5, FS_Union
  <2>7. x \notin U /\ x \notin W /\ U \cup {x} = S \cup V /\ W \cup {x} = V /\ f[x] \in Int
        /\ (\A y \in U : f[y] \in Int) /\ (\A y \in W : f[y] \in Int)
    OBVIOUS
  <2>8. SumFunctionOnSet(f, U) = SumFunctionOnSet(f, S) + SumFunctionOnSet(f, W)  BY <2>1, <2>4
  <2> HIDE DEF U, W
  <2>9. SumFunctionOnSet(f, S \cup V) = SumFunctionOnSet(f, U) + f[x]
    BY <2>6, <2>7, SumOneMore
  <2>10. SumFunctionOnSet(f, V) = SumFunctionOnSet(f, W) + f[x]
    BY <2>5, <2>7, SumOneMore
  <2>11. SumFunctionOnSet(f, W) \in Int  BY <2>5, <2>7, SumInt
  <2>12. QED  BY <2>2, <2>7, <2>8, <2>9, <2>10, <2>11
<1>2. QED  BY <1>1

LEMMA SumOfEqual ==
  ASSUME NEW S, IsFiniteSet(S), NEW c \in Nat, NEW f, \A y \in S : f[y] = c
  PROVE  SumFunctionOnSet(f, S) = Cardinality(S) * c
<1> DEFINE Bad == {V \in SUBSET S : SumFunctionOnSet(f, V) # Cardinality(V) * c}
<1>1. ASSUME Bad # {}  PROVE FALSE
  <2>1. PICK V \in Bad : \A W \in Bad : W \subseteq V => W = V
    <3>1. Bad \subseteq SUBSET S  OBVIOUS
    <3> HIDE DEF Bad
    <3>2. QED  BY <3>1, <1>1, LeastSubset
  <2>2. V # {}
    <3>1. ASSUME V = {}  PROVE FALSE
      <4>1. Cardinality(V) = 0 /\ SumFunctionOnSet(f, V) = 0  BY <3>1, SumEmpty, FS_EmptySet
      <4>2. QED  BY <4>1
    <3>2. QED  BY <3>1
  <2>3. PICK x \in V : TRUE  BY <2>2
  <2>4. IsFiniteSet(V)  BY FS_Subset
  <2>5. SumFunctionOnSet(f, V) = f[x] + SumFunctionOnSet(f, V \ {x})
    BY <2>4, SumTakeOut
  <2>6. SumFunctionOnSet(f, V \ {x}) = Cardinality(V \ {x}) * c
    <3>1. V \ {x} \in SUBSET S /\ V \ {x} # V  OBVIOUS
    <3>2. QED  BY <2>1, <3>1
  <2>7. Cardinality(V \ {x}) = Cardinality(V) - 1 /\ Cardinality(V) \in Nat
    BY <2>4, FS_RemoveElement, FS_CardinalityType
  <2>8. \A k \in Nat : c + (k - 1) * c = k * c  OBVIOUS
  <2>9. SumFunctionOnSet(f, V) = c + (Cardinality(V) - 1) * c  BY <2>5, <2>6, <2>7
  <2>10. QED  BY <2>7, <2>8, <2>9
<1>2. QED  BY <1>1

(* Two sums over the same elements.                                        *)
LEMMA SumMonotone ==
  ASSUME NEW S, IsFiniteSet(S), NEW f, NEW e, \A y \in S : f[y] \in Int /\ e[y] \in Int,
         \A y \in S : f[y] <= e[y]
  PROVE  SumFunctionOnSet(f, S) <= SumFunctionOnSet(e, S)
<1> DEFINE Bad == {V \in SUBSET S : ~ (SumFunctionOnSet(f, V) <= SumFunctionOnSet(e, V))}
<1>1. ASSUME Bad # {}  PROVE FALSE
  <2>1. PICK V \in Bad : \A W \in Bad : W \subseteq V => W = V
    <3>1. Bad \subseteq SUBSET S  OBVIOUS
    <3> HIDE DEF Bad
    <3>2. QED  BY <3>1, <1>1, LeastSubset
  <2>2. V # {}
    <3>1. ASSUME V = {}  PROVE FALSE
      <4>1. SumFunctionOnSet(f, V) = 0 /\ SumFunctionOnSet(e, V) = 0  BY <3>1, SumEmpty
      <4>2. QED  BY <4>1
    <3>2. QED  BY <3>1
  <2>3. PICK x \in V : TRUE  BY <2>2
  <2>4. IsFiniteSet(V) /\ IsFiniteSet(V \ {x})  BY FS_Subset, FS_RemoveElement
  <2>5. SumFunctionOnSet(f, V) = f[x] + SumFunctionOnSet(f, V \ {x})  BY <2>4, SumTakeOut
  <2>6. SumFunctionOnSet(e, V) = e[x] + SumFunctionOnSet(e, V \ {x})  BY <2>4, SumTakeOut
  <2>7. SumFunctionOnSet(f, V \ {x}) <= SumFunctionOnSet(e, V \ {x})
    <3>1. V \ {x} \in SUBSET S /\ V \ {x} # V  OBVIOUS
    <3>2. QED  BY <2>1, <3>1
  <2>8. SumFunctionOnSet(f, V \ {x}) \in Int /\ SumFunctionOnSet(e, V \ {x}) \in Int
    BY <2>4, SumInt
  <2>9. f[x] \in Int /\ e[x] \in Int /\ f[x] <= e[x]  OBVIOUS
  <2>10. QED  BY <2>5, <2>6, <2>7, <2>8, <2>9
<1>2. QED  BY <1>1

LEMMA SumMultiple ==
  ASSUME NEW S, IsFiniteSet(S), NEW c \in Int, NEW f, NEW e, \A y \in S : e[y] \in Int,
         \A y \in S : f[y] = c * e[y]
  PROVE  SumFunctionOnSet(f, S) = c * SumFunctionOnSet(e, S)
<1> DEFINE Bad == {V \in SUBSET S : SumFunctionOnSet(f, V) # c * SumFunctionOnSet(e, V)}
<1>1. ASSUME Bad # {}  PROVE FALSE
  <2>1. PICK V \in Bad : \A W \in Bad : W \subseteq V => W = V
    <3>1. Bad \subseteq SUBSET S  OBVIOUS
    <3> HIDE DEF Bad
    <3>2. QED  BY <3>1, <1>1, LeastSubset
  <2>2. V # {}
    <3>1. ASSUME V = {}  PROVE FALSE
      <4>1. SumFunctionOnSet(f, V) = 0 /\ SumFunctionOnSet(e, V) = 0  BY <3>1, SumEmpty
      <4>2. QED  BY <4>1
    <3>2. QED  BY <3>1
  <2>3. PICK x \in V : TRUE  BY <2>2
  <2>4. IsFiniteSet(V) /\ IsFiniteSet(V \ {x})  BY FS_Subset, FS_RemoveElement
  <2>5. \A y \in S : f[y] \in Int  OBVIOUS
  <2>6. SumFunctionOnSet(f, V) = f[x] + SumFunctionOnSet(f, V \ {x})  BY <2>4, <2>5, SumTakeOut
  <2>7. SumFunctionOnSet(e, V) = e[x] + SumFunctionOnSet(e, V \ {x})  BY <2>4, SumTakeOut
  <2>8. SumFunctionOnSet(f, V \ {x}) = c * SumFunctionOnSet(e, V \ {x})
    <3>1. V \ {x} \in SUBSET S /\ V \ {x} # V  OBVIOUS
    <3>2. QED  BY <2>1, <3>1
  <2>9. SumFunctionOnSet(e, V \ {x}) \in Int  BY <2>4, SumInt
  <2>10. e[x] \in Int /\ f[x] = c * e[x]  OBVIOUS
  <2>11. \A y, z \in Int : c * y + c * z = c * (y + z)  OBVIOUS
  <2>12. QED  BY <2>6, <2>7, <2>8, <2>9, <2>10, <2>11
<1>2. QED  BY <1>1

LEMMA SumAdded ==
  ASSUME NEW S, IsFiniteSet(S), NEW f, NEW e, NEW g,
         \A y \in S : e[y] \in Int /\ g[y] \in Int /\ f[y] = e[y] + g[y]
  PROVE  SumFunctionOnSet(f, S) = SumFunctionOnSet(e, S) + SumFunctionOnSet(g, S)
<1> DEFINE Bad == {V \in SUBSET S : SumFunctionOnSet(f, V) #
                                     SumFunctionOnSet(e, V) + SumFunctionOnSet(g, V)}
<1>1. ASSUME Bad # {}  PROVE FALSE
  <2>1. PICK V \in Bad : \A W \in Bad : W \subseteq V => W = V
    <3>1. Bad \subseteq SUBSET S  OBVIOUS
    <3> HIDE DEF Bad
    <3>2. QED  BY <3>1, <1>1, LeastSubset
  <2>2. V # {}
    <3>1. ASSUME V = {}  PROVE FALSE
      <4>1. SumFunctionOnSet(f, V) = 0 /\ SumFunctionOnSet(e, V) = 0 /\ SumFunctionOnSet(g, V) = 0
        BY <3>1, SumEmpty
      <4>2. QED  BY <4>1
    <3>2. QED  BY <3>1
  <2>3. PICK x \in V : TRUE  BY <2>2
  <2>4. IsFiniteSet(V) /\ IsFiniteSet(V \ {x})  BY FS_Subset, FS_RemoveElement
  <2>5. \A y \in S : f[y] \in Int  OBVIOUS
  <2>6. SumFunctionOnSet(f, V) = f[x] + SumFunctionOnSet(f, V \ {x})  BY <2>4, <2>5, SumTakeOut
  <2>7. SumFunctionOnSet(e, V) = e[x] + SumFunctionOnSet(e, V \ {x})  BY <2>4, SumTakeOut
  <2>8. SumFunctionOnSet(g, V) = g[x] + SumFunctionOnSet(g, V \ {x})  BY <2>4, SumTakeOut
  <2>9. SumFunctionOnSet(f, V \ {x}) =
          SumFunctionOnSet(e, V \ {x}) + SumFunctionOnSet(g, V \ {x})
    <3>1. V \ {x} \in SUBSET S /\ V \ {x} # V  OBVIOUS
    <3>2. QED  BY <2>1, <3>1
  <2>10. SumFunctionOnSet(e, V \ {x}) \in Int /\ SumFunctionOnSet(g, V \ {x}) \in Int
    BY <2>4, SumInt
  <2>11. e[x] \in Int /\ g[x] \in Int /\ f[x] = e[x] + g[x]  OBVIOUS
  <2>12. QED  BY <2>6, <2>7, <2>8, <2>9, <2>10, <2>11
<1>2. QED  BY <1>1

(* Two elements taken out.                                                 *)
LEMMA SumTwoTaken ==
  ASSUME NEW S, IsFiniteSet(S), NEW f, \A y \in S : f[y] \in Int,
         NEW a \in S, NEW b \in S, a # b
  PROVE  /\ SumFunctionOnSet(f, S) = f[a] + f[b] + SumFunctionOnSet(f, S \ {a, b})
         /\ SumFunctionOnSet(f, S \ {a, b}) \in Int /\ IsFiniteSet(S \ {a, b})
<1>1. IsFiniteSet(S \ {a}) /\ IsFiniteSet(S \ {a, b}) /\ (S \ {a}) \ {b} = S \ {a, b}
      /\ b \in S \ {a}
  BY FS_Subset
<1>2. SumFunctionOnSet(f, S) = f[a] + SumFunctionOnSet(f, S \ {a})  BY SumTakeOut
<1>3. SumFunctionOnSet(f, S \ {a}) = f[b] + SumFunctionOnSet(f, S \ {a, b})
  BY <1>1, SumTakeOut
<1>4. SumFunctionOnSet(f, S \ {a, b}) \in Int  BY <1>1, SumInt
<1>5. QED  BY <1>1, <1>2, <1>3, <1>4

(* Values added up under other names.                                      *)
LEMMA SumRenamed ==
  ASSUME NEW S, IsFiniteSet(S), NEW f, NEW e, NEW g,
         \A x, y \in S : g[x] = g[y] => x = y, \A x \in S : e[g[x]] \in Int /\ f[x] = e[g[x]]
  PROVE  SumFunctionOnSet(f, S) = SumFunctionOnSet(e, {g[x] : x \in S})
<1> DEFINE Ok(V, A) == IsFiniteSet(A) /\ SumFunctionOnSet(f, V) = SumFunctionOnSet(e, A)
           Bad == {V \in SUBSET S : ~ Ok(V, {g[x] : x \in V})}
<1>1. ASSUME Bad # {}  PROVE FALSE
  <2>1. PICK V \in Bad : \A W \in Bad : W \subseteq V => W = V
    <3>1. Bad \subseteq SUBSET S  OBVIOUS
    <3> HIDE DEF Bad
    <3>2. QED  BY <3>1, <1>1, LeastSubset
  <2>2. V # {}
    <3>1. ASSUME V = {}  PROVE FALSE
      <4>1. {g[x] : x \in V} = {}  BY <3>1
      <4>2. SumFunctionOnSet(f, {}) = SumFunctionOnSet(e, {}) /\ IsFiniteSet({})
        BY SumEmpty, FS_EmptySet
      <4>3. QED  BY <3>1, <4>1, <4>2
    <3>2. QED  BY <3>1
  <2>3. PICK x \in V : TRUE  BY <2>2
  <2> DEFINE W == V \ {x}
             A == {g[y] : y \in V}
             B == {g[y] : y \in W}
             z == g[x]
  <2>4. IsFiniteSet(V) /\ IsFiniteSet(W)  BY FS_Subset, FS_RemoveElement
  <2>5. \A y \in S : f[y] \in Int  OBVIOUS
  <2>6. SumFunctionOnSet(f, V) = f[x] + SumFunctionOnSet(f, W)  BY <2>4, <2>5, SumTakeOut
  <2>7. A = B \cup {z} /\ z \notin B
        /\ (\A y \in B : e[y] \in Int) /\ e[z] \in Int /\ f[x] = e[z]
    OBVIOUS
  <2>8. IsFiniteSet(B) /\ SumFunctionOnSet(f, W) = SumFunctionOnSet(e, B)
    <3>1. W \in SUBSET S /\ W # V /\ W \subseteq V  OBVIOUS
    <3>2. QED  BY <2>1, <3>1
  <2>9. ~ Ok(V, A)  OBVIOUS
  <2> HIDE DEF A, B, W, z, Bad
  <2>10. SumFunctionOnSet(e, B \cup {z}) = SumFunctionOnSet(e, B) + e[z]
    BY <2>7, <2>8, SumOneMore
  <2>11. SumFunctionOnSet(e, B) \in Int  BY <2>7, <2>8, SumInt
  <2>12. IsFiniteSet(A)  BY <2>7, <2>8, FS_AddElement
  <2>13. QED  BY <2>6, <2>7, <2>8, <2>9, <2>10, <2>11, <2>12
<1>2. QED  BY <1>1

-----------------------------------------------------------------------------
(* Powers of two, of which the provers know nothing: 2 ^ k is the number   *)
(* of subsets of 1 .. k.                                                   *)
LEMMA PowerIsNat ==
  ASSUME NEW k \in Nat  PROVE 2 ^ k \in Nat /\ Cardinality(SUBSET (1 .. k)) = 2 ^ k /\ IsFiniteSet(SUBSET (1 .. k))
<1> DEFINE S == 1 .. k
<1>1. IsFiniteSet(S) /\ Cardinality(S) = k
  <2>1. IsFiniteSet(1 .. k) /\ Cardinality(1 .. k) = IF 1 > k THEN 0 ELSE k - 1 + 1  BY FS_Interval
  <2>2. QED  BY <2>1
<1> HIDE DEF S
<1>2. IsFiniteSet(SUBSET S) /\ Cardinality(SUBSET S) = 2 ^ k  BY <1>1, FS_SUBSET
<1>3. Cardinality(SUBSET S) \in Nat  BY <1>2, FS_CardinalityType
<1>4. QED  BY <1>2, <1>3 DEF S

LEMMA PowerZero == 2 ^ 0 = 1
<1>1. IsFiniteSet({}) /\ Cardinality({}) = 0  BY FS_EmptySet
<1>2. Cardinality(SUBSET {}) = 2 ^ 0  BY <1>1, FS_SUBSET
<1>3. SUBSET {} = {{}}  OBVIOUS
<1>4. Cardinality({{}}) = 1  BY FS_Singleton
<1>5. QED  BY <1>2, <1>3, <1>4

LEMMA PowerStep ==
  ASSUME NEW k \in Nat  PROVE 2 ^ (k + 1) = 2 * 2 ^ k
<1> DEFINE S == 1 .. k
           R == 1 .. k + 1
           With == {s \cup {k + 1} : s \in SUBSET S}
           f == [s \in SUBSET S |-> s \cup {k + 1}]
<1>1. R = S \cup {k + 1} /\ k + 1 \notin S  OBVIOUS
<1>2. /\ IsFiniteSet(SUBSET S) /\ Cardinality(SUBSET S) = 2 ^ k
      /\ Cardinality(SUBSET R) = 2 ^ (k + 1) /\ 2 ^ k \in Nat
  BY PowerIsNat
<1> HIDE DEF S, R
<1>3. SUBSET R = (SUBSET S) \cup With
  <2>1. ASSUME NEW s \in SUBSET R  PROVE s \in (SUBSET S) \cup With
    <3>1. CASE k + 1 \in s
      <4>1. s = (s \ {k + 1}) \cup {k + 1} /\ s \ {k + 1} \in SUBSET S  BY <1>1, <3>1
      <4>2. QED  BY <4>1
    <3>2. CASE k + 1 \notin s  BY <1>1, <3>2
    <3>3. QED  BY <3>1, <3>2
  <2>2. With \subseteq SUBSET R /\ SUBSET S \subseteq SUBSET R  BY <1>1
  <2>3. QED  BY <2>1, <2>2
<1>4. (SUBSET S) \cap With = {}  BY <1>1
<1>5. f \in Bijection(SUBSET S, With)
  <2>1. f \in [SUBSET S -> With]  OBVIOUS
  <2>2. ASSUME NEW s \in SUBSET S, NEW t \in SUBSET S, s # t  PROVE s \cup {k + 1} # t \cup {k + 1}
    BY <1>1, <2>2
  <2>3. \A s, t \in SUBSET S : s # t => f[s] # f[t]  BY <2>2
  <2>4. \A y \in With : \E s \in SUBSET S : f[s] = y  OBVIOUS
  <2> HIDE DEF f, With
  <2>5. QED  BY <2>1, <2>3, <2>4 DEF Bijection, Injection, Surjection, IsInjective
<1> HIDE DEF f, With
<1>6. IsFiniteSet(With) /\ Cardinality(With) = 2 ^ k
  BY <1>2, <1>5, FS_Bijection DEF ExistsBijection
<1>7. Cardinality((SUBSET S) \cup With) = 2 ^ k + 2 ^ k - Cardinality({})
  BY <1>2, <1>4, <1>6, FS_Union
<1>8. Cardinality({}) = 0  BY FS_EmptySet
<1>9. PICK p \in Nat : p = 2 ^ k  BY <1>2
<1>10. p + p - 0 = 2 * p  BY <1>9
<1>11. 2 ^ (k + 1) = p + p - 0  BY <1>2, <1>3, <1>7, <1>8, <1>9
<1>12. QED  BY <1>9, <1>10, <1>11

LEMMA PowerOfSum ==
  ASSUME NEW a \in Nat, NEW b \in Nat  PROVE 2 ^ (a + b) = 2 ^ a * 2 ^ b
<1> DEFINE Bad == {c \in Nat : 2 ^ (a + c) # 2 ^ a * 2 ^ c}
<1>1. ASSUME Bad # {}  PROVE FALSE
  <2>1. PICK c \in Bad : \A x \in Bad : c <= x
    <3>1. Bad \subseteq Nat  OBVIOUS
    <3> HIDE DEF Bad
    <3>2. QED  BY <1>1, <3>1, LeastNumber
  <2>2. c \in Nat /\ 2 ^ (a + c) # 2 ^ a * 2 ^ c  OBVIOUS
  <2>3. c # 0
    <3>1. 2 ^ a \in Nat  BY PowerIsNat
    <3>2. ASSUME c = 0  PROVE FALSE
      <4>1. a + c = a  BY <3>2
      <4>4. 2 ^ (a + c) = 2 ^ a /\ 2 ^ c = 1  BY <3>2, <4>1, PowerZero
      <4>2. \A p \in Nat : p = p * 1  OBVIOUS
      <4>3. QED  BY <2>2, <3>1, <4>4, <4>2
    <3>3. QED  BY <3>2
  <2>4. PICK d \in Nat : c = d + 1
    <3>1. c - 1 \in Nat /\ c = (c - 1) + 1  BY <2>2, <2>3
    <3>2. QED  BY <3>1
  <2>5. 2 ^ (a + d) = 2 ^ a * 2 ^ d
    <3> HIDE DEF Bad
    <3>1. d \notin Bad  BY <2>1, <2>4
    <3>2. QED  BY <3>1 DEF Bad
  <2>6. a + c = (a + d) + 1 /\ a + d \in Nat  BY <2>4
  <2>7. 2 ^ (a + c) = 2 * 2 ^ (a + d) /\ 2 ^ c = 2 * 2 ^ d  BY <2>4, <2>6, PowerStep
  <2>8. PICK p \in Nat, q \in Nat : p = 2 ^ a /\ q = 2 ^ d  BY <2>4, PowerIsNat
  <2>9. \A x, y \in Nat : 2 * (x * y) = x * (2 * y)  OBVIOUS
  <2>10. 2 ^ (a + c) = 2 * (p * q) /\ 2 ^ a * 2 ^ c = p * (2 * q)  BY <2>5, <2>7, <2>8
  <2>11. QED  BY <2>2, <2>8, <2>9, <2>10
<1>2. QED  BY <1>1

LEMMA PowerPositive ==
  ASSUME NEW k \in Nat  PROVE 2 ^ k \in Nat \ {0} /\ k <= 2 ^ k
<1> DEFINE Bad == {c \in Nat : ~ (2 ^ c \in Nat \ {0} /\ c + 1 <= 2 ^ c)}
<1>1. ASSUME Bad # {}  PROVE FALSE
  <2>1. PICK c \in Bad : \A x \in Bad : c <= x
    <3>1. Bad \subseteq Nat  OBVIOUS
    <3> HIDE DEF Bad
    <3>2. QED  BY <1>1, <3>1, LeastNumber
  <2>2. c \in Nat /\ ~ (2 ^ c \in Nat \ {0} /\ c + 1 <= 2 ^ c)  OBVIOUS
  <2>3. c # 0
    <3>1. ASSUME c = 0  PROVE FALSE
      <4>1. 2 ^ c = 1  BY <3>1, PowerZero
      <4>2. QED  BY <2>2, <3>1, <4>1
    <3>2. QED  BY <3>1
  <2>4. PICK d \in Nat : c = d + 1
    <3>1. c - 1 \in Nat /\ c = (c - 1) + 1  BY <2>2, <2>3
    <3>2. QED  BY <3>1
  <2>5. 2 ^ d \in Nat \ {0} /\ d + 1 <= 2 ^ d
    <3> HIDE DEF Bad
    <3>1. d \notin Bad  BY <2>1, <2>4
    <3>2. QED  BY <3>1 DEF Bad
  <2>6. 2 ^ c = 2 * 2 ^ d  BY <2>4, PowerStep
  <2>7. QED  BY <2>2, <2>4, <2>5, <2>6
<1>2. k \notin Bad  BY <1>1
<1>3. 2 ^ k \in Nat \ {0} /\ k + 1 <= 2 ^ k  BY <1>2
<1>4. QED  BY <1>3
=============================================================================
