------------------------------ MODULE FiniteSums ------------------------------
(***************************************************************************)
(* SumFunctionOnSet, from which the models' totals are made, is a recursive *)
(* function on the subsets of a set that takes its elements in an unknown   *)
(* order.  On finite sets it is what its name says: the lemmas here, proved *)
(* by a smallest counterexample, are those that the proofs about totals     *)
(* cite.                                                                    *)
(***************************************************************************)
EXTENDS Integers, FiniteSets, Functions, FiniteSetTheorems, TLAPS

(* A property of all subsets of a finite set, as the set of those that have *)
(* it: when each has it whose own proper subsets have it, all have it.      *)
LEMMA SubsetsInduction ==
  ASSUME NEW S, IsFiniteSet(S), NEW Good,
         \A T \in SUBSET S : (\A U \in SUBSET T : U # T => U \in Good) => T \in Good
  PROVE  \A T \in SUBSET S : T \in Good
<1> DEFINE Bad == {T \in SUBSET S : T \notin Good}
<1> SUFFICES ASSUME Bad # {} PROVE FALSE
  OBVIOUS
<1>1. Bad \subseteq FiniteSubsetsOf(S)
  BY FS_Subset DEF FiniteSubsetsOf
<1>2. PICK T \in Bad : \A U \in Bad : ~(<<U, T>> \in StrictSubsetOrdering(S))
  <2> HIDE DEF Bad
  <2> QED
    BY <1>1, FS_StrictSubsetOrderingWellFounded, WFMin
<1>3. \A U \in SUBSET T : U # T => <<U, T>> \in StrictSubsetOrdering(S)
  BY DEF StrictSubsetOrdering
<1>4. \A U \in SUBSET T : U # T => U \notin Bad
  <2> HIDE DEF Bad
  <2> QED
    BY <1>2, <1>3
<1>5. T \in Good
  BY <1>4
<1> QED
  BY <1>5

------------------------------------------------------------------------------
(* The equation that the sum's recursive function is to satisfy. *)
Some(s) == CHOOSE x \in s : TRUE
Sums(f, S, g) ==
    g = [s \in SUBSET S |-> IF s = {} THEN 0 ELSE f[Some(s)] + g[s \ {Some(s)}]]

LEMMA SomeIn == \A s : s # {} => Some(s) \in s
BY DEF Some

(* Solutions on two sets agree where both are defined. *)
LEMMA SumsAgree ==
  ASSUME NEW f, NEW S, NEW T, IsFiniteSet(S), NEW g, NEW h,
         Sums(f, S, g), Sums(f, T, h)
  PROVE  \A s \in SUBSET S : s \in SUBSET T => g[s] = h[s]
<1> DEFINE Good == {s \in SUBSET S : s \in SUBSET T => g[s] = h[s]}
<1>1. ASSUME NEW s \in SUBSET S, \A u \in SUBSET s : u # s => u \in Good
      PROVE  s \in Good
  <2>1. CASE s = {}
    BY <2>1 DEF Sums
  <2>2. CASE s # {}
    <3> DEFINE u == s \ {Some(s)}
    <3>1. u \in SUBSET s /\ u # s
      BY <2>2, SomeIn
    <3>2. s \in SUBSET T => g[u] = h[u]
      BY <1>1, <3>1
    <3>3. g[s] = f[Some(s)] + g[u]
      BY <2>2 DEF Sums
    <3>4. s \in SUBSET T => h[s] = f[Some(s)] + h[u]
      BY <2>2 DEF Sums
    <3> QED
      BY <3>2, <3>3, <3>4
  <2> QED
    BY <2>1, <2>2
<1>2. \A s \in SUBSET S : s \in Good
  <2> HIDE DEF Good
  <2> QED
    BY <1>1, SubsetsInduction
<1> QED
  BY <1>2

(* The equation has a solution on each finite set. *)
LEMMA SumsExist ==
  ASSUME NEW f, NEW S, IsFiniteSet(S)
  PROVE  \E g : Sums(f, S, g)
<1> DEFINE Good == {T \in SUBSET S : \E g : Sums(f, T, g)}
<1>1. ASSUME NEW T \in SUBSET S, \A U \in SUBSET T : U # T => U \in Good
      PROVE  T \in Good
  <2> DEFINE On(U) == CHOOSE g : Sums(f, U, g)
             Rest == T \ {Some(T)}
             g == [s \in SUBSET T |-> IF s = {} THEN 0
                                      ELSE IF s = T THEN f[Some(T)] + On(Rest)[Rest]
                                      ELSE On(s)[s]]
  <2>1. \A U \in SUBSET T : U # T => Sums(f, U, On(U))
    BY <1>1
  <2> HIDE DEF On
  <2>2. ASSUME NEW s \in SUBSET T, s # {}
        PROVE  g[s] = f[Some(s)] + g[s \ {Some(s)}]
    <3> DEFINE u == s \ {Some(s)}
    <3>1. u \in SUBSET s /\ u # s /\ u # T /\ u \in SUBSET T
      BY <2>2, SomeIn
    <3>2. Sums(f, u, On(u)) /\ g[u] = On(u)[u]
      <4>1. Sums(f, u, On(u))
        BY <2>1, <3>1
      <4>2. CASE u = {}
        BY <4>1, <4>2, <3>1 DEF Sums
      <4>3. CASE u # {}
        BY <4>1, <4>3, <3>1
      <4> QED
        BY <4>1, <4>2, <4>3
    <3>3. CASE s = T
      BY <2>2, <3>2, <3>3
    <3>4. CASE s # T
      <4>1. Sums(f, s, On(s)) /\ g[s] = On(s)[s]
        BY <2>1, <2>2, <3>4
      <4>2. IsFiniteSet(s) /\ IsFiniteSet(u)
        BY FS_Subset, <3>1
      <4>3. On(s)[u] = On(u)[u]
        <5>1. u \in SUBSET s /\ u \in SUBSET u
          BY <3>1
        <5> HIDE DEF u
        <5>2. PICK h1, h2 : h1 = On(s) /\ h2 = On(u)
          OBVIOUS
        <5>3. Sums(f, s, h1) /\ Sums(f, u, h2) /\ IsFiniteSet(s)
          BY <4>1, <4>2, <3>2, <5>2
        <5>4. \A v \in SUBSET s : v \in SUBSET u => h1[v] = h2[v]
          BY <5>3, SumsAgree
        <5> QED
          BY <5>1, <5>2, <5>4
      <4>4. On(s)[s] = f[Some(s)] + On(s)[u]
        BY <4>1, <2>2 DEF Sums
      <4> QED
        BY <4>1, <4>3, <4>4, <3>2
    <3> QED
      BY <3>3, <3>4
  <2>3. g[{}] = 0
    OBVIOUS
  <2>4. Sums(f, T, g)
    <3>1. \A s \in SUBSET T :
             g[s] = IF s = {} THEN 0 ELSE f[Some(s)] + g[s \ {Some(s)}]
      BY <2>2, <2>3
    <3>2. g = [s \in SUBSET T |-> g[s]]
      OBVIOUS
    <3> HIDE DEF g
    <3> QED
      BY <3>1, <3>2 DEF Sums
  <2> QED
    BY <2>4
<1>2. \A T \in SUBSET S : T \in Good
  <2> HIDE DEF Good
  <2> QED
    BY <1>1, SubsetsInduction
<1> QED
  BY <1>2

LEMMA SumIsSolution ==
  ASSUME NEW f, NEW S, IsFiniteSet(S)
  PROVE  \E g : Sums(f, S, g) /\ SumFunctionOnSet(f, S) = g[S]
<1> DEFINE g == CHOOSE g : Sums(f, S, g)
<1>1. Sums(f, S, g)
  BY SumsExist
<1>2. SumFunctionOnSet(f, S) = g[S]
  BY DEF SumFunctionOnSet, FoldFunctionOnSet, MapThenFoldSet, Sums, Some
<1> QED
  BY <1>1, <1>2

------------------------------------------------------------------------------
(* What sums are. *)

LEMMA SumEmpty == \A f : SumFunctionOnSet(f, {}) = 0
<1> TAKE f
<1>1. IsFiniteSet({})
  BY FS_EmptySet
<1>2. PICK g : Sums(f, {}, g) /\ SumFunctionOnSet(f, {}) = g[{}]
  BY <1>1, SumIsSolution
<1>3. g[{}] = 0
  BY <1>2 DEF Sums
<1> QED
  BY <1>2, <1>3

LEMMA SumSome ==
  ASSUME NEW f, NEW S, IsFiniteSet(S), S # {}
  PROVE  SumFunctionOnSet(f, S) = f[Some(S)] + SumFunctionOnSet(f, S \ {Some(S)})
<1> DEFINE T == S \ {Some(S)}
<1>1. IsFiniteSet(T)
  BY FS_Subset
<1>2. PICK g : Sums(f, S, g) /\ SumFunctionOnSet(f, S) = g[S]
  BY SumIsSolution
<1>3. PICK h : Sums(f, T, h) /\ SumFunctionOnSet(f, T) = h[T]
  BY <1>1, SumIsSolution
<1>4. g[T] = h[T]
  BY <1>2, <1>3, SumsAgree
<1>5. g[S] = f[Some(S)] + g[T]
  BY <1>2 DEF Sums
<1> QED
  BY <1>2, <1>3, <1>4, <1>5

LEMMA SumType ==
  ASSUME NEW f, NEW S, IsFiniteSet(S), \A x \in S : f[x] \in Int
  PROVE  SumFunctionOnSet(f, S) \in Int
<1> DEFINE Good == {T \in SUBSET S : SumFunctionOnSet(f, T) \in Int}
<1>1. ASSUME NEW T \in SUBSET S, \A U \in SUBSET T : U # T => U \in Good
      PROVE  T \in Good
  <2>1. CASE T = {}
    BY <2>1, SumEmpty
  <2>2. CASE T # {}
    <3>1. IsFiniteSet(T) /\ Some(T) \in T
      BY <2>2, FS_Subset, SomeIn
    <3>2. SumFunctionOnSet(f, T \ {Some(T)}) \in Int
      BY <1>1, <3>1
    <3> QED
      BY <2>2, <3>1, <3>2, SumSome
  <2> QED
    BY <2>1, <2>2
<1>2. \A T \in SUBSET S : T \in Good
  <2> HIDE DEF Good
  <2> QED
    BY <1>1, SubsetsInduction
<1> QED
  BY <1>2

(* The element to begin with does not matter. *)
LEMMA SumRemove ==
  ASSUME NEW f, NEW S, IsFiniteSet(S), \A x \in S : f[x] \in Int, NEW a \in S
  PROVE  SumFunctionOnSet(f, S) = f[a] + SumFunctionOnSet(f, S \ {a})
<1> DEFINE Sum(T) == SumFunctionOnSet(f, T)
           Good == {T \in SUBSET S : \A x \in T : Sum(T) = f[x] + Sum(T \ {x})}
<1>1. ASSUME NEW T \in SUBSET S, \A U \in SUBSET T : U # T => U \in Good
      PROVE  T \in Good
  <2> SUFFICES ASSUME NEW x \in T PROVE Sum(T) = f[x] + Sum(T \ {x})
    OBVIOUS
  <2> DEFINE y == Some(T)
             R == (T \ {x}) \ {y}
  <2>1. y \in T /\ IsFiniteSet(T)
    BY SomeIn, FS_Subset
  <2>2. Sum(T) = f[y] + Sum(T \ {y})
    BY <2>1, SumSome
  <2>3. CASE x = y
    BY <2>2, <2>3
  <2>4. CASE x # y
    <3> HIDE DEF y
    <3>1. T \ {y} \in Good /\ T \ {x} \in Good
      <4>1. T \ {y} \in SUBSET T /\ T \ {y} # T /\ T \ {x} \in SUBSET T /\ T \ {x} # T
        BY <2>1
      <4> HIDE DEF Good
      <4> QED
        BY <4>1, <1>1
    <3>2. Sum(T \ {y}) = f[x] + Sum((T \ {y}) \ {x}) /\ Sum(T \ {x}) = f[y] + Sum(R)
      BY <3>1, <2>4, <2>1
    <3>3. (T \ {y}) \ {x} = R
      OBVIOUS
    <3>4. f[x] \in Int /\ f[y] \in Int /\ Sum(R) \in Int
      BY <2>1, FS_Subset, SumType
    <3>5. Sum(T \ {y}) = f[x] + Sum(R)
      BY <3>2, <3>3
    <3> HIDE DEF Sum, R
    <3> QED
      BY <2>2, <3>2, <3>4, <3>5
  <2> QED
    BY <2>3, <2>4
<1>2. \A T \in SUBSET S : T \in Good
  <2> HIDE DEF Good
  <2> QED
    BY <1>1, SubsetsInduction
<1> QED
  BY <1>2

LEMMA SumAdd ==
  ASSUME NEW f, NEW S, IsFiniteSet(S), NEW a, a \notin S,
         \A x \in S \cup {a} : f[x] \in Int
  PROVE  SumFunctionOnSet(f, S \cup {a}) = f[a] + SumFunctionOnSet(f, S)
<1>1. IsFiniteSet(S \cup {a})
  BY FS_AddElement
<1>2. (S \cup {a}) \ {a} = S
  OBVIOUS
<1> QED
  BY <1>1, <1>2, SumRemove

(* Only the values on the set count. *)
LEMMA SumSame ==
  ASSUME NEW f, NEW g, NEW S, IsFiniteSet(S), \A x \in S : f[x] = g[x]
  PROVE  SumFunctionOnSet(f, S) = SumFunctionOnSet(g, S)
<1> DEFINE Good == {T \in SUBSET S : SumFunctionOnSet(f, T) = SumFunctionOnSet(g, T)}
<1>1. ASSUME NEW T \in SUBSET S, \A U \in SUBSET T : U # T => U \in Good
      PROVE  T \in Good
  <2>1. CASE T = {}
    BY <2>1, SumEmpty
  <2>2. CASE T # {}
    <3>1. IsFiniteSet(T) /\ Some(T) \in T
      BY <2>2, FS_Subset, SomeIn
    <3>2. SumFunctionOnSet(f, T \ {Some(T)}) = SumFunctionOnSet(g, T \ {Some(T)})
      BY <1>1, <3>1
    <3> QED
      BY <2>2, <3>1, <3>2, SumSome
  <2> QED
    BY <2>1, <2>2
<1>2. \A T \in SUBSET S : T \in Good
  <2> HIDE DEF Good
  <2> QED
    BY <1>1, SubsetsInduction
<1> QED
  BY <1>2

(* Changing one value changes the sum by as much. *)
LEMMA SumChange ==
  ASSUME NEW f, NEW g, NEW S, IsFiniteSet(S), NEW a \in S,
         \A x \in S : f[x] \in Int /\ g[x] \in Int,
         \A x \in S : x # a => f[x] = g[x]
  PROVE  SumFunctionOnSet(g, S) = SumFunctionOnSet(f, S) - f[a] + g[a]
<1>1. IsFiniteSet(S \ {a})
  BY FS_Subset
<1>2. SumFunctionOnSet(f, S \ {a}) = SumFunctionOnSet(g, S \ {a})
  BY <1>1, SumSame
<1>3. SumFunctionOnSet(f, S \ {a}) \in Int
  BY <1>1, SumType
<1>4. SumFunctionOnSet(f, S) = f[a] + SumFunctionOnSet(f, S \ {a})
  BY SumRemove
<1>5. SumFunctionOnSet(g, S) = g[a] + SumFunctionOnSet(g, S \ {a})
  BY SumRemove
<1> QED
  BY <1>2, <1>3, <1>4, <1>5

(* A sum of naturals is one, and grows with its values and with its set. *)
LEMMA SumMonotone ==
  ASSUME NEW f, NEW g, NEW S, IsFiniteSet(S),
         \A x \in S : f[x] \in Int /\ g[x] \in Int /\ f[x] <= g[x]
  PROVE  SumFunctionOnSet(f, S) <= SumFunctionOnSet(g, S)
<1> DEFINE Good == {T \in SUBSET S : SumFunctionOnSet(f, T) <= SumFunctionOnSet(g, T)}
<1>1. ASSUME NEW T \in SUBSET S, \A U \in SUBSET T : U # T => U \in Good
      PROVE  T \in Good
  <2>1. CASE T = {}
    BY <2>1, SumEmpty
  <2>2. CASE T # {}
    <3> DEFINE x == Some(T)
               R == T \ {x}
    <3>1. IsFiniteSet(T) /\ IsFiniteSet(R) /\ x \in T
      BY <2>2, FS_Subset, SomeIn
    <3>2. SumFunctionOnSet(f, R) <= SumFunctionOnSet(g, R)
      BY <1>1, <3>1
    <3>3. SumFunctionOnSet(f, R) \in Int /\ SumFunctionOnSet(g, R) \in Int
      BY <3>1, SumType
    <3>4. /\ SumFunctionOnSet(f, T) = f[x] + SumFunctionOnSet(f, R)
          /\ SumFunctionOnSet(g, T) = g[x] + SumFunctionOnSet(g, R)
      BY <2>2, <3>1, SumSome
    <3>5. f[x] \in Int /\ g[x] \in Int /\ f[x] <= g[x]
      BY <3>1
    <3>6. SumFunctionOnSet(f, T) <= SumFunctionOnSet(g, T)
      <4> HIDE DEF x, R
      <4> QED
        BY <3>2, <3>3, <3>4, <3>5
    <3> QED
      BY <3>6
  <2> QED
    BY <2>1, <2>2
<1>2. \A T \in SUBSET S : T \in Good
  <2> HIDE DEF Good
  <2> QED
    BY <1>1, SubsetsInduction
<1> QED
  BY <1>2

(* Values of f between k times those of g and k more: so are their sums,    *)
(* and k more for each value.                                               *)
LEMMA SumScaled ==
  ASSUME NEW f, NEW g, NEW S, IsFiniteSet(S), NEW k \in Nat,
         \A x \in S : /\ f[x] \in Int /\ g[x] \in Int
                     /\ k * g[x] <= f[x] /\ f[x] <= k * g[x] + k
  PROVE  /\ SumFunctionOnSet(f, S) \in Int /\ SumFunctionOnSet(g, S) \in Int
         /\ Cardinality(S) \in Nat
         /\ k * SumFunctionOnSet(g, S) <= SumFunctionOnSet(f, S)
         /\ SumFunctionOnSet(f, S) <= k * SumFunctionOnSet(g, S) + k * Cardinality(S)
<1> DEFINE F(T) == SumFunctionOnSet(f, T)
           G(T) == SumFunctionOnSet(g, T)
           Between(T) == k * G(T) <= F(T) /\ F(T) <= k * G(T) + k * Cardinality(T)
           Good == {T \in SUBSET S : Between(T)}
<1>0. ASSUME NEW T \in SUBSET S
      PROVE  F(T) \in Int /\ G(T) \in Int /\ Cardinality(T) \in Nat /\ IsFiniteSet(T)
  BY FS_Subset, FS_CardinalityType, SumType
<1>1. ASSUME NEW T \in SUBSET S, \A U \in SUBSET T : U # T => U \in Good
      PROVE  T \in Good
  <2>1. CASE T = {}
    <3>1. F(T) = 0 /\ G(T) = 0 /\ Cardinality(T) = 0
      BY <2>1, SumEmpty, FS_EmptySet
    <3> HIDE DEF F, G
    <3> QED
      BY <3>1
  <2>2. CASE T # {}
    <3> DEFINE x == Some(T)
               R == T \ {x}
    <3>1. IsFiniteSet(T) /\ x \in T /\ x \in S /\ R \in SUBSET S
      BY <1>0, <2>2, SomeIn
    <3>2. Between(R) /\ F(R) \in Int /\ G(R) \in Int /\ Cardinality(R) \in Nat
      BY <1>0, <1>1, <3>1
    <3>3. F(T) = f[x] + F(R) /\ G(T) = g[x] + G(R)
      BY <2>2, <3>1, SumSome
    <3>4. Cardinality(T) = Cardinality(R) + 1
      <4>1. Cardinality(R) = Cardinality(T) - 1 /\ Cardinality(T) \in Nat
        BY <1>0, <3>1, FS_RemoveElement
      <4> QED
        BY <4>1
    <3>5. f[x] \in Int /\ g[x] \in Int /\ k * g[x] <= f[x] /\ f[x] <= k * g[x] + k
      BY <3>1
    <3>6. Between(T)
      <4> HIDE DEF x, R, F, G
      <4>1. /\ k * (g[x] + G(R)) = k * g[x] + k * G(R)
            /\ k * (Cardinality(R) + 1) = k * Cardinality(R) + k
        BY <3>2, <3>5
      <4>2. k * G(R) \in Int /\ k * g[x] \in Int /\ k * Cardinality(R) \in Int
        BY <3>2, <3>5
      <4> QED
        BY <3>2, <3>3, <3>4, <3>5, <4>1, <4>2
    <3> QED
      BY <3>6
  <2> QED
    BY <2>1, <2>2
<1>2. \A T \in SUBSET S : T \in Good
  <2> HIDE DEF Good
  <2> QED
    BY <1>1, SubsetsInduction
<1> QED
  BY <1>0, <1>2

LEMMA SumNat ==
  ASSUME NEW f, NEW S, IsFiniteSet(S), \A x \in S : f[x] \in Nat
  PROVE  SumFunctionOnSet(f, S) \in Nat
<1> DEFINE Good == {T \in SUBSET S : SumFunctionOnSet(f, T) \in Nat}
<1>1. ASSUME NEW T \in SUBSET S, \A U \in SUBSET T : U # T => U \in Good
      PROVE  T \in Good
  <2>1. CASE T = {}
    BY <2>1, SumEmpty
  <2>2. CASE T # {}
    <3>1. IsFiniteSet(T) /\ Some(T) \in T
      BY <2>2, FS_Subset, SomeIn
    <3>2. SumFunctionOnSet(f, T \ {Some(T)}) \in Nat
      BY <1>1, <3>1
    <3> QED
      BY <2>2, <3>1, <3>2, SumSome
  <2> QED
    BY <2>1, <2>2
<1>2. \A T \in SUBSET S : T \in Good
  <2> HIDE DEF Good
  <2> QED
    BY <1>1, SubsetsInduction
<1> QED
  BY <1>2

(* The sum over a set is that over its two parts. *)
LEMMA SumDisjoint ==
  ASSUME NEW f, NEW S, IsFiniteSet(S), NEW A \in SUBSET S,
         \A x \in S : f[x] \in Int
  PROVE  SumFunctionOnSet(f, S) = SumFunctionOnSet(f, A) + SumFunctionOnSet(f, S \ A)
<1> DEFINE Sum(T) == SumFunctionOnSet(f, T)
           Good == {T \in SUBSET A : Sum(S) = Sum(T) + Sum(S \ T)}
<1>0. IsFiniteSet(A)
  BY FS_Subset
<1>1. ASSUME NEW T \in SUBSET A, \A U \in SUBSET T : U # T => U \in Good
      PROVE  T \in Good
  <2>1. CASE T = {}
    <3>1. S \ T = S /\ Sum(T) = 0 /\ Sum(S) \in Int
      BY <2>1, SumEmpty, SumType
    <3>2. Sum(S \ T) = Sum(S)
      BY <3>1
    <3>3. Sum(S) = Sum(T) + Sum(S \ T)
      <4> HIDE DEF Sum
      <4> QED
        BY <3>1, <3>2
    <3> QED
      BY <3>3
  <2>2. CASE T # {}
    <3> DEFINE x == Some(T)
               R == T \ {x}
    <3>1. x \in T /\ x \in S /\ IsFiniteSet(T) /\ IsFiniteSet(R) /\ IsFiniteSet(S \ T)
      BY <2>2, FS_Subset, SomeIn
    <3>2. Sum(S) = Sum(R) + Sum(S \ R)
      BY <1>1, <3>1
    <3>3. S \ R = (S \ T) \cup {x} /\ x \notin S \ T
      BY <3>1
    <3>4. Sum(S \ R) = f[x] + Sum(S \ T)
      <4> HIDE DEF x, R
      <4> QED
        BY <3>1, <3>3, SumAdd
    <3>5. Sum(T) = f[x] + Sum(R)
      BY <2>2, <3>1, SumSome
    <3>6. f[x] \in Int /\ Sum(R) \in Int /\ Sum(S \ T) \in Int
      BY <3>1, SumType
    <3>7. Sum(S) = Sum(T) + Sum(S \ T)
      <4> HIDE DEF x, R, Sum
      <4> QED
        BY <3>2, <3>4, <3>5, <3>6
    <3> QED
      BY <3>7
  <2> QED
    BY <2>1, <2>2
<1>2. \A T \in SUBSET A : T \in Good
  <2> HIDE DEF Good
  <2> QED
    BY <1>0, <1>1, SubsetsInduction
<1> QED
  BY <1>2

(* Renaming the elements changes neither their number nor their sum. *)
Renames(h, f, S, g, T) ==
  /\ \A x, y \in S : h[x] = h[y] => x = y
  /\ \A x \in S : f[x] \in Int /\ g[h[x]] = f[x]
  /\ \A x \in S : h[x] \in T
  /\ \A y \in T : \E x \in S : h[x] = y

LEMMA SumImage ==
  ASSUME NEW h, NEW f, NEW S, NEW g, NEW T, IsFiniteSet(S), Renames(h, f, S, g, T)
  PROVE  /\ IsFiniteSet(T)
         /\ Cardinality(T) = Cardinality(S)
         /\ SumFunctionOnSet(g, T) = SumFunctionOnSet(f, S)
<1> DEFINE Image(A) == {h[x] : x \in A}
           Alike(A) == /\ IsFiniteSet(Image(A))
                       /\ Cardinality(Image(A)) = Cardinality(A)
                       /\ SumFunctionOnSet(g, Image(A)) = SumFunctionOnSet(f, A)
           Good == {A \in SUBSET S : Alike(A)}
<1>0. /\ \A x, y \in S : h[x] = h[y] => x = y
      /\ \A x \in S : f[x] \in Int /\ g[h[x]] = f[x]
      /\ \A x \in S : h[x] \in T
      /\ \A y \in T : \E x \in S : h[x] = y
  BY DEF Renames
<1>1. ASSUME NEW A \in SUBSET S, \A U \in SUBSET A : U # A => U \in Good
      PROVE  A \in Good
  <2>1. CASE A = {}
    <3>1. Image(A) = {}
      BY <2>1
    <3> HIDE DEF Image
    <3>2. Alike(A)
      BY <2>1, <3>1, SumEmpty, FS_EmptySet
    <3> QED
      BY <3>2
  <2>2. CASE A # {}
    <3> DEFINE x == Some(A)
               R == A \ {x}
    <3>1. x \in A /\ x \in S /\ IsFiniteSet(A) /\ IsFiniteSet(R)
      BY <2>2, FS_Subset, SomeIn
    <3>2. Alike(R)
      BY <1>1, <3>1
    <3>3. Image(A) = Image(R) \cup {h[x]} /\ h[x] \notin Image(R)
      BY <1>0, <3>1
    <3>4. \A y \in Image(R) \cup {h[x]} : g[y] \in Int
      BY <1>0, <3>1
    <3>5. SumFunctionOnSet(f, A) = f[x] + SumFunctionOnSet(f, R)
      BY <2>2, <3>1, SumSome
    <3>6. g[h[x]] = f[x] /\ f[x] \in Int
      BY <1>0, <3>1
    <3>7. A = R \cup {x} /\ x \notin R
      BY <3>1
    <3> HIDE DEF x, R, Image
    <3>8. SumFunctionOnSet(g, Image(R) \cup {h[x]}) = g[h[x]] + SumFunctionOnSet(g, Image(R))
      BY <3>2, <3>3, <3>4, SumAdd
    <3>9. IsFiniteSet(Image(A)) /\ Cardinality(Image(A)) = Cardinality(Image(R)) + 1
      <4> DEFINE I == Image(R)
                 y == h[x]
      <4>1. IsFiniteSet(I) /\ y \notin I
        BY <3>2, <3>3
      <4>2. IsFiniteSet(I \cup {y}) /\ Cardinality(I \cup {y}) = Cardinality(I) + 1
        <5> HIDE DEF I, y
        <5> QED
          BY <4>1, FS_AddElement
      <4> QED
        BY <3>3, <4>2
    <3>10. Cardinality(A) = Cardinality(R) + 1
      BY <3>1, <3>7, FS_AddElement
    <3>11. Alike(A)
      BY <3>2, <3>3, <3>5, <3>6, <3>8, <3>9, <3>10
    <3> QED
      BY <3>11
  <2> QED
    BY <2>1, <2>2
<1>2. \A A \in SUBSET S : A \in Good
  <2> HIDE DEF Good
  <2> QED
    BY <1>1, SubsetsInduction
<1>3. Image(S) = T
  BY <1>0
<1>4. Alike(S)
  <2>1. S \in Good
    BY <1>2
  <2> QED
    BY <2>1
<1> HIDE DEF Image
<1> QED
  BY <1>3, <1>4

------------------------------------------------------------------------------
(* Comparing a truncated mean with a limit compares the sum with a multiple *)
(* of the number of values.                                                 *)
LEMMA MeanAbove ==
  ASSUME NEW sum \in Int, NEW n \in Nat \ {0}, NEW limit \in Int
  PROVE  sum \div n > limit <=> sum >= (limit + 1) * n
<1> DEFINE q == sum \div n
<1>1. q \in Int /\ n * q <= sum /\ sum < n * q + n
  OBVIOUS
<1> HIDE DEF q
<1>2. ASSUME q > limit PROVE sum >= (limit + 1) * n
  <2>1. n * (q - (limit + 1)) >= 0
    BY <1>1, <1>2
  <2>2. n * (q - (limit + 1)) = n * q - (limit + 1) * n
    BY <1>1
  <2> QED
    BY <1>1, <2>1, <2>2
<1>3. ASSUME ~(q > limit) PROVE ~(sum >= (limit + 1) * n)
  <2>1. n * (limit - q) >= 0
    BY <1>1, <1>3
  <2>2. n * (limit - q) = (limit + 1) * n - n - n * q
    BY <1>1
  <2> QED
    BY <1>1, <2>1, <2>2
<1> QED
  BY <1>2, <1>3 DEF q

(* Of a sum of values and that of their k-th parts, cut to whole ones, the  *)
(* second reaches (l + 1) * n only if the first has (l + 1) * k * n, and    *)
(* always when it has (l + 2) * k * n.                                      *)
LEMMA ScaledMean ==
  ASSUME NEW sum \in Int, NEW whole \in Int, NEW n \in Nat, NEW k \in Nat \ {0},
         NEW l \in Nat, k * whole <= sum, sum <= k * whole + k * n
  PROVE  /\ whole >= (l + 1) * n => sum >= (l + 1) * k * n
         /\ sum >= (l + 2) * k * n => whole >= (l + 1) * n
<1> DEFINE a == (l + 1) * n
<1>1. /\ a \in Int /\ (l + 1) * k * n = k * a
      /\ (l + 2) * k * n = k * a + k * n
  <2>1. (l + 2) * k * n = k * (a + n)
    OBVIOUS
  <2>2. k * (a + n) = k * a + k * n /\ (l + 1) * k * n = k * a
    OBVIOUS
  <2> QED
    BY <2>1, <2>2
<1> HIDE DEF a
<1>2. ASSUME whole >= a PROVE sum >= k * a
  <2>1. k * (whole - a) >= 0
    BY <1>1, <1>2
  <2>2. k * (whole - a) = k * whole - k * a
    BY <1>1
  <2> QED
    BY <1>1, <2>1, <2>2
<1>3. ASSUME sum >= k * a + k * n PROVE whole >= a
  <2> SUFFICES ASSUME whole + 1 <= a PROVE FALSE
    BY <1>1
  <2>1. k * (a - (whole + 1)) >= 0
    BY <1>1
  <2>2. k * (a - (whole + 1)) = k * a - k * whole - k
    BY <1>1
  <2> QED
    BY <1>1, <1>3, <2>1, <2>2
<1> QED
  BY <1>1, <1>2, <1>3 DEF a
==============================================================================
