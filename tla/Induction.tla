------------------------------ MODULE Induction ------------------------------
(***************************************************************************)
(* Induction over the natural numbers, stated of a set instead of a        *)
(* predicate, so that it can be used of any set a proof defines, and what  *)
(* it says of sums over finite sets.                                       *)
(***************************************************************************)
EXTENDS Integers, FiniteSets, FiniteSetTheorems, WellFoundedInduction, TLAPS

(* A set of naturals has a least member.                                   *)
LEMMA Least ==
  ASSUME NEW T \in SUBSET Nat, T # {}
  PROVE  \E n \in T : \A m \in T : n <= m
  <1> DEFINE R == OpToRel(<, Nat)
  <1>1. IsWellFoundedOn(R, Nat)
    BY NatLessThanWellFounded
  <1>2. \A m, n \in Nat : <<m, n>> \in R <=> m < n
    BY DEF OpToRel
  <1> HIDE DEF R
  <1>3. PICK n \in T : \A m \in T : ~ (<<m, n>> \in R)
    BY <1>1, WFMin
  <1>4. \A m \in T : ~ (m < n)
    BY <1>2, <1>3
  <1>5. \A m \in T : m \in Nat
    OBVIOUS
  <1> QED
    BY <1>4, <1>5

(* A set that zero is in, and with each natural the next, has them all.    *)
LEMMA SetInduction ==
  ASSUME NEW S, 0 \in S, \A n \in Nat : n \in S => n + 1 \in S
  PROVE  \A n \in Nat : n \in S
  <1> SUFFICES ASSUME Nat \ S # {} PROVE FALSE
    OBVIOUS
  <1>1. PICK n \in Nat \ S : \A m \in Nat \ S : n <= m
    BY Least
  <1>2. n # 0 /\ n - 1 \in Nat
    BY <1>1
  <1>3. n - 1 \in S
    BY <1>1, <1>2
  <1> QED
    BY <1>1, <1>2, <1>3

(* A finite set has a member whose natural number is the greatest.         *)
LEMMA Greatest ==
  ASSUME NEW S, IsFiniteSet(S), S # {}, NEW f, \A x \in S : f[x] \in Nat
  PROVE  \E x \in S : \A y \in S : f[y] <= f[x]
  <1> DEFINE HasGreatest(T) == T # {} => \E x \in T : \A y \in T : f[y] <= f[x]
             N == {n \in Nat : \A T \in SUBSET S : Cardinality(T) = n => HasGreatest(T)}
  <1>1. \A T \in SUBSET S : IsFiniteSet(T) /\ Cardinality(T) \in Nat
    BY FS_Subset, FS_CardinalityType
  <1>2. 0 \in N
    BY <1>1, FS_EmptySet
  <1>3. ASSUME NEW n \in Nat, n \in N PROVE n + 1 \in N
    <2> SUFFICES ASSUME NEW T \in SUBSET S, Cardinality(T) = n + 1
                 PROVE  \E x \in T : \A y \in T : f[y] <= f[x]
      OBVIOUS
    <2>1. PICK z : z \in T
      BY <1>1, FS_EmptySet
    <2>2. Cardinality(T \ {z}) = n
      <3>1. IsFiniteSet(T)
        BY <1>1
      <3>2. Cardinality(T \ {z}) = Cardinality(T) - 1
        BY <2>1, <3>1, FS_RemoveElement
      <3> QED
        BY <3>2
    <2>3. HasGreatest(T \ {z})
      BY <1>3, <2>2
    <2>4. CASE T \ {z} = {}
      BY <2>1, <2>4
    <2>5. CASE T \ {z} # {}
      <3>1. PICK x \in T \ {z} : \A y \in T \ {z} : f[y] <= f[x]
        BY <2>3, <2>5
      <3>2. \A y \in T : f[y] \in Nat
        OBVIOUS
      <3>3. CASE f[z] <= f[x]
        BY <3>1, <3>3
      <3>4. CASE ~ (f[z] <= f[x])
        <4>1. \A y \in T : f[y] <= f[z]
          BY <2>1, <3>1, <3>2, <3>4
        <4> QED
          BY <2>1, <4>1
      <3> QED
        BY <3>3, <3>4
    <2> QED
      BY <2>4, <2>5
  <1> HIDE DEF N
  <1>4. \A n \in Nat : n \in N
    BY <1>2, <1>3, SetInduction
  <1>5. Cardinality(S) \in N
    BY <1>1, <1>4
  <1> QED
    BY <1>5 DEF N

-----------------------------------------------------------------------------
(* Sums over finite sets: the recursive function of MapThenSumSet.         *)

Chosen(s) == CHOOSE x \in s : TRUE

SumStep(g, f, s) == IF s = {} THEN 0 ELSE f[Chosen(s)] + g[s \ {Chosen(s)}]

IsSum(g, f, S) == g = [s \in SUBSET S |-> SumStep(g, f, s)]

SumOf(f, S) == (CHOOSE g : IsSum(g, f, S))[S]

LEMMA ChosenIsMember ==
  ASSUME NEW s, s # {} PROVE Chosen(s) \in s
  BY DEF Chosen

LEMMA SumExists ==
  ASSUME NEW S, IsFiniteSet(S), NEW f
  PROVE  \E g : IsSum(g, f, S)
  <1> DEFINE Small(n) == {s \in SUBSET S : Cardinality(s) <= n}
             N == {n \in Nat : \E g : g = [s \in Small(n) |-> SumStep(g, f, s)]}
  <1>1. \A s \in SUBSET S : IsFiniteSet(s) /\ Cardinality(s) \in Nat /\ Cardinality(s) <= Cardinality(S)
    BY FS_Subset, FS_CardinalityType
  <1>2. 0 \in N
    <2> DEFINE g == [s \in Small(0) |-> 0]
    <2>1. \A s \in Small(0) : s = {}
      BY <1>1, FS_EmptySet
    <2>2. \A s \in Small(0) : SumStep(g, f, s) = 0
      BY <2>1 DEF SumStep
    <2>3. g = [s \in Small(0) |-> SumStep(g, f, s)]
      BY <2>2
    <2> QED
      BY <2>3
  <1>3. ASSUME NEW n \in Nat, n \in N PROVE n + 1 \in N
    <2>1. PICK g : g = [s \in Small(n) |-> SumStep(g, f, s)]
      BY <1>3
    <2> DEFINE h == [s \in Small(n + 1) |-> SumStep(g, f, s)]
    <2>2. ASSUME NEW s \in Small(n + 1), s # {}
          PROVE  s \ {Chosen(s)} \in Small(n) /\ s \ {Chosen(s)} \in Small(n + 1)
      <3>1. Chosen(s) \in s /\ IsFiniteSet(s) /\ Cardinality(s) \in Nat
        BY <1>1, <2>2, ChosenIsMember
      <3>2. Cardinality(s \ {Chosen(s)}) = Cardinality(s) - 1
        BY <3>1, FS_RemoveElement
      <3> QED
        BY <3>1, <3>2
    <2>3. \A s \in Small(n) : h[s] = g[s]
      <3>1. \A s \in Small(n) : s \in Small(n + 1)
        BY <1>1
      <3> QED
        BY <2>1, <3>1
    <2>4. \A s \in Small(n + 1) : SumStep(h, f, s) = SumStep(g, f, s)
      BY <2>2, <2>3 DEF SumStep
    <2>5. h = [s \in Small(n + 1) |-> SumStep(h, f, s)]
      BY <2>4
    <2> HIDE DEF h, Small
    <2> QED
      BY <2>5
  <1> HIDE DEF N
  <1>4. Cardinality(S) \in N
    BY <1>2, <1>3, SetInduction, FS_CardinalityType
  <1>5. Small(Cardinality(S)) = SUBSET S
    BY <1>1
  <1> QED
    BY <1>4, <1>5 DEF N, IsSum

(* Whatever element is taken out first, the sum is the same.               *)
LEMMA SumSplits ==
  ASSUME NEW S, IsFiniteSet(S), NEW f, \A x \in S : f[x] \in Int, NEW g, IsSum(g, f, S)
  PROVE  \A s \in SUBSET S : g[s] \in Int /\ \A x \in s : g[s] = f[x] + g[s \ {x}]
  <1> DEFINE Splits(s) == g[s] \in Int /\ \A x \in s : g[s] = f[x] + g[s \ {x}]
             Splitting(n) == \A s \in SUBSET S : Cardinality(s) <= n => Splits(s)
             N == {n \in Nat : Splitting(n)}
  <1>1. \A s \in SUBSET S : IsFiniteSet(s) /\ Cardinality(s) \in Nat
    BY FS_Subset, FS_CardinalityType
  <1>2. \A s \in SUBSET S : g[s] = SumStep(g, f, s)
    BY DEF IsSum
  <1>3. Splitting(0)
    <2> SUFFICES ASSUME NEW s \in SUBSET S, Cardinality(s) <= 0 PROVE Splits(s)
      OBVIOUS
    <2>1. IsFiniteSet(s) /\ Cardinality(s) = 0
      BY <1>1
    <2>2. s = {}
      BY <2>1, FS_EmptySet
    <2>3. g[s] = 0
      BY <1>2, <2>2 DEF SumStep
    <2> QED
      BY <2>2, <2>3
  <1>4. ASSUME NEW n \in Nat, Splitting(n) PROVE Splitting(n + 1)
    <2> HIDE DEF Splits
    <2> SUFFICES ASSUME NEW s \in SUBSET S, Cardinality(s) = n + 1 PROVE Splits(s)
      <3>1. \A t \in SUBSET S : Cardinality(t) <= n + 1 => Cardinality(t) <= n \/ Cardinality(t) = n + 1
        BY <1>1
      <3> QED
        BY <1>4, <3>1
    <2>1. ASSUME NEW t \in SUBSET S, NEW x \in t, Cardinality(t) <= n + 1
          PROVE  /\ t \ {x} \in SUBSET S /\ Cardinality(t \ {x}) \in Nat
                 /\ Cardinality(t \ {x}) = Cardinality(t) - 1 /\ Splits(t \ {x})
      <3>1. Cardinality(t \ {x}) = Cardinality(t) - 1 /\ t \ {x} \in SUBSET S
        <4>1. IsFiniteSet(t)
          BY <1>1
        <4> QED
          BY <4>1, FS_RemoveElement
      <3>2. Cardinality(t) \in Nat /\ Cardinality(t \ {x}) \in Nat
        BY <1>1, <3>1
      <3>3. Cardinality(t \ {x}) <= n
        BY <2>1, <3>1, <3>2
      <3> QED
        BY <1>4, <3>1, <3>2, <3>3
    <2>2. s # {} /\ Cardinality(s) <= n + 1
      BY FS_EmptySet
    <2> DEFINE y == Chosen(s)
    <2>3. y \in s
      BY <2>2, ChosenIsMember
    <2>4. g[s] = f[y] + g[s \ {y}]
      BY <1>2, <2>2 DEF SumStep
    <2> HIDE DEF y
    <2>5. f[y] \in Int /\ g[s \ {y}] \in Int
      BY <2>1, <2>2, <2>3 DEF Splits
    <2>6. ASSUME NEW x \in s PROVE g[s] = f[x] + g[s \ {x}]
      <3>1. CASE x = y
        BY <2>4, <3>1
      <3>2. CASE x # y
        <4> DEFINE rest == s \ {x, y}
        <4>1. /\ x \in s \ {y} /\ y \in s \ {x}
              /\ (s \ {y}) \ {x} = rest /\ (s \ {x}) \ {y} = rest
          BY <2>3, <3>2
        <4> HIDE DEF rest
        <4>2. /\ Splits(s \ {y}) /\ Splits(s \ {x})
              /\ s \ {y} \in SUBSET S /\ Cardinality(s \ {y}) <= n + 1
          BY <2>1, <2>2, <2>3
        <4>3. g[s \ {y}] = f[x] + g[rest] /\ g[s \ {x}] = f[y] + g[rest]
          BY <4>1, <4>2 DEF Splits
        <4>4. Splits(rest)
          BY <2>1, <4>1, <4>2
        <4>5. f[x] \in Int /\ g[rest] \in Int
          BY <4>4 DEF Splits
        <4> QED
          BY <2>4, <2>5, <4>3, <4>5
      <3> QED
        BY <3>1, <3>2
    <2>7. g[s] \in Int
      BY <2>4, <2>5
    <2> QED
      BY <2>6, <2>7 DEF Splits
  <1> HIDE DEF Splitting
  <1>5. \A n \in Nat : n \in N
    <2>1. 0 \in N
      BY <1>3
    <2>2. \A n \in Nat : n \in N => n + 1 \in N
      BY <1>4
    <2> HIDE DEF N
    <2> QED
      BY <2>1, <2>2, SetInduction
  <1>6. \A n \in Nat : Splitting(n)
    BY <1>5
  <1> QED
    BY <1>1, <1>6 DEF Splitting

LEMMA SumIs ==
  ASSUME NEW S, IsFiniteSet(S), NEW f
  PROVE  \E g : IsSum(g, f, S) /\ SumOf(f, S) = g[S]
  <1> DEFINE g == CHOOSE g : IsSum(g, f, S)
  <1>1. IsSum(g, f, S)
    BY SumExists
  <1> QED
    BY <1>1 DEF SumOf

(* A sum depends on its terms alone.                                       *)
LEMMA SumAgrees ==
  ASSUME NEW S, IsFiniteSet(S), NEW f, NEW g, IsSum(g, f, S),
         NEW T, NEW e, NEW h, IsSum(h, e, T), NEW A \in SUBSET (S \cap T),
         \A x \in A : f[x] = e[x]
  PROVE  g[A] = h[A]
  <1> DEFINE N == {n \in Nat : \A s \in SUBSET A : Cardinality(s) = n => g[s] = h[s]}
  <1>1. \A s \in SUBSET A : IsFiniteSet(s) /\ Cardinality(s) \in Nat /\ s \in SUBSET S
    BY FS_Subset, FS_CardinalityType
  <1>2. \A s \in SUBSET A : g[s] = SumStep(g, f, s) /\ h[s] = SumStep(h, e, s)
    BY DEF IsSum
  <1>3. 0 \in N
    BY <1>1, <1>2, FS_EmptySet DEF SumStep
  <1>4. ASSUME NEW n \in Nat, n \in N PROVE n + 1 \in N
    <2> SUFFICES ASSUME NEW s \in SUBSET A, Cardinality(s) = n + 1 PROVE g[s] = h[s]
      OBVIOUS
    <2>1. s # {} /\ IsFiniteSet(s)
      BY <1>1, FS_EmptySet
    <2>2. Chosen(s) \in s
      BY <2>1, ChosenIsMember
    <2>3. s \ {Chosen(s)} \in SUBSET A /\ Cardinality(s \ {Chosen(s)}) = n
      <3>1. Cardinality(s \ {Chosen(s)}) = (n + 1) - 1
        BY <2>1, <2>2, FS_RemoveElement
      <3> QED
        BY <3>1
    <2>4. g[s \ {Chosen(s)}] = h[s \ {Chosen(s)}] /\ f[Chosen(s)] = e[Chosen(s)]
      BY <1>4, <2>2, <2>3
    <2> QED
      BY <1>2, <2>1, <2>4 DEF SumStep
  <1> HIDE DEF N
  <1>5. \A n \in Nat : n \in N
    BY <1>3, <1>4, SetInduction
  <1> QED
    BY <1>1, <1>5 DEF N

LEMMA SumSame ==
  ASSUME NEW S, IsFiniteSet(S), NEW f, NEW e, \A x \in S : f[x] = e[x]
  PROVE  SumOf(f, S) = SumOf(e, S)
  <1>1. PICK g : IsSum(g, f, S) /\ SumOf(f, S) = g[S]
    BY SumIs
  <1>2. PICK h : IsSum(h, e, S) /\ SumOf(e, S) = h[S]
    BY SumIs
  <1>3. S \in SUBSET (S \cap S)
    OBVIOUS
  <1> QED
    BY <1>1, <1>2, <1>3, SumAgrees

LEMMA SumTyped ==
  ASSUME NEW S, IsFiniteSet(S), NEW f, \A x \in S : f[x] \in Int
  PROVE  SumOf(f, S) \in Int
  BY SumIs, SumSplits

(* One more term.                                                          *)
LEMMA SumAdd ==
  ASSUME NEW S, IsFiniteSet(S), NEW x, x \notin S, NEW f, \A y \in S \cup {x} : f[y] \in Int
  PROVE  SumOf(f, S \cup {x}) = SumOf(f, S) + f[x]
  <1> DEFINE T == S \cup {x}
  <1>1. IsFiniteSet(T)
    BY FS_AddElement
  <1>2. PICK h : IsSum(h, f, T) /\ SumOf(f, T) = h[T]
    BY <1>1, SumIs
  <1>3. PICK g : IsSum(g, f, S) /\ SumOf(f, S) = g[S]
    BY SumIs
  <1>4. T \ {x} = S /\ T \in SUBSET T /\ S \in SUBSET T /\ x \in T
    OBVIOUS
  <1>5. \A y \in T : f[y] \in Int
    OBVIOUS
  <1> HIDE DEF T
  <1>6. h[T] = f[x] + h[S] /\ h[S] \in Int
    BY <1>1, <1>2, <1>4, <1>5, SumSplits
  <1>7. g[S] = h[S]
    <2>1. S \in SUBSET (S \cap T)
      BY <1>4
    <2> QED
      BY <1>2, <1>3, <2>1, SumAgrees
  <1> QED
    BY <1>2, <1>3, <1>4, <1>5, <1>6, <1>7 DEF T

(* Where one term moves, the sum moves by it.                              *)
LEMMA SumMoves ==
  ASSUME NEW D, IsFiniteSet(D), NEW E, IsFiniteSet(E), NEW p, D \ {p} = E \ {p},
         NEW f, \A x \in D : f[x] \in Int, NEW e, \A x \in E : e[x] \in Int,
         \A x \in D \ {p} : f[x] = e[x]
  PROVE  /\ SumOf(f, D) \in Int
         /\ SumOf(e, E) = SumOf(f, D) - (IF p \in D THEN f[p] ELSE 0) + (IF p \in E THEN e[p] ELSE 0)
  <1> DEFINE C == D \ {p}
  <1>1. IsFiniteSet(C) /\ p \notin C /\ \A x \in C : f[x] \in Int /\ e[x] \in Int
    BY FS_RemoveElement
  <1>2. SumOf(f, C) \in Int /\ SumOf(e, C) = SumOf(f, C)
    <2>1. \A x \in C : f[x] = e[x]
      OBVIOUS
    <2> HIDE DEF C
    <2> QED
      BY <1>1, <2>1, SumTyped, SumSame
  <1>3. SumOf(f, D) = SumOf(f, C) + (IF p \in D THEN f[p] ELSE 0)
    <2>1. CASE p \in D
      <3>1. D = C \cup {p} /\ \A y \in C \cup {p} : f[y] \in Int
        BY <2>1
      <3> HIDE DEF C
      <3>2. SumOf(f, C \cup {p}) = SumOf(f, C) + f[p]
        BY <1>1, <3>1, SumAdd
      <3> QED
        BY <2>1, <3>1, <3>2
    <2>2. CASE p \notin D
      <3>1. D = C
        BY <2>2
      <3> HIDE DEF C
      <3> QED
        BY <1>2, <2>2, <3>1
    <2> QED
      BY <2>1, <2>2
  <1>4. SumOf(e, E) = SumOf(e, C) + (IF p \in E THEN e[p] ELSE 0)
    <2>1. CASE p \in E
      <3>1. E = C \cup {p} /\ \A y \in C \cup {p} : e[y] \in Int
        BY <2>1
      <3> HIDE DEF C
      <3>2. SumOf(e, C \cup {p}) = SumOf(e, C) + e[p]
        BY <1>1, <3>1, SumAdd
      <3> QED
        BY <2>1, <3>1, <3>2
    <2>2. CASE p \notin E
      <3>1. E = C
        BY <2>2
      <3> HIDE DEF C
      <3> QED
        BY <1>2, <2>2, <3>1
    <2> QED
      BY <2>1, <2>2
  <1>5. (p \in D => f[p] \in Int) /\ (p \in E => e[p] \in Int)
    OBVIOUS
  <1> HIDE DEF C
  <1> QED
    BY <1>2, <1>3, <1>4, <1>5

(* Nothing is added where nothing is.                                      *)
LEMMA SumOfNone ==
  ASSUME NEW f PROVE SumOf(f, {}) = 0
  <1>1. IsFiniteSet({})
    BY FS_EmptySet
  <1>2. PICK g : IsSum(g, f, {}) /\ SumOf(f, {}) = g[{}]
    BY <1>1, SumIs
  <1> QED
    BY <1>2 DEF IsSum, SumStep

(* Two sets that have nothing in common.                                   *)
LEMMA SumOfBoth ==
  ASSUME NEW S, IsFiniteSet(S), NEW T, IsFiniteSet(T), S \cap T = {},
         NEW f, \A x \in S \cup T : f[x] \in Int
  PROVE  SumOf(f, S \cup T) = SumOf(f, S) + SumOf(f, T)
  <1> DEFINE Holds(U) == SumOf(f, S \cup U) = SumOf(f, S) + SumOf(f, U)
             N == {n \in Nat : \A U \in SUBSET T : Cardinality(U) = n => Holds(U)}
  <1>1. \A U \in SUBSET T : IsFiniteSet(U) /\ Cardinality(U) \in Nat /\ IsFiniteSet(S \cup U)
    BY FS_Subset, FS_CardinalityType, FS_Union
  <1>2. SumOf(f, S) \in Int
    BY SumTyped
  <1>3. 0 \in N
    <2> SUFFICES ASSUME NEW U \in SUBSET T, Cardinality(U) = 0 PROVE Holds(U)
      OBVIOUS
    <2>1. U = {} /\ S \cup U = S
      BY <1>1, FS_EmptySet
    <2> QED
      BY <1>2, <2>1, SumOfNone
  <1>4. ASSUME NEW n \in Nat, n \in N PROVE n + 1 \in N
    <2> SUFFICES ASSUME NEW U \in SUBSET T, Cardinality(U) = n + 1 PROVE Holds(U)
      OBVIOUS
    <2>1. PICK z : z \in U
      BY <1>1, FS_EmptySet
    <2>2. PICK V : V = U \ {z}
      OBVIOUS
    <2>3. V \in SUBSET T /\ IsFiniteSet(V) /\ IsFiniteSet(S \cup V) /\ Cardinality(V) = n
      <3>1. Cardinality(U \ {z}) = Cardinality(U) - 1
        BY <1>1, <2>1, FS_RemoveElement
      <3> QED
        BY <1>1, <2>2, <3>1
    <2>4. Holds(V)
      BY <1>4, <2>3
    <2>5. /\ U = V \cup {z} /\ S \cup U = (S \cup V) \cup {z} /\ z \notin V /\ z \notin S \cup V
          /\ \A y \in V \cup {z} : f[y] \in Int
          /\ \A y \in (S \cup V) \cup {z} : f[y] \in Int
      BY <2>1, <2>2
    <2>6. SumOf(f, U) = SumOf(f, V) + f[z]
      BY <2>3, <2>5, SumAdd
    <2>7. SumOf(f, S \cup U) = SumOf(f, S \cup V) + f[z]
      <3>1. PICK W : W = S \cup V
        OBVIOUS
      <3>2. IsFiniteSet(W) /\ z \notin W /\ \A y \in W \cup {z} : f[y] \in Int
        BY <2>3, <2>5, <3>1
      <3>3. SumOf(f, W \cup {z}) = SumOf(f, W) + f[z]
        BY <3>2, SumAdd
      <3> QED
        BY <2>5, <3>1, <3>3
    <2>8. SumOf(f, V) \in Int /\ f[z] \in Int
      BY <2>3, <2>5, SumTyped
    <2> QED
      BY <1>2, <2>4, <2>6, <2>7, <2>8
  <1> HIDE DEF N
  <1>5. \A n \in Nat : n \in N
    BY <1>3, <1>4, SetInduction
  <1>6. Cardinality(T) \in N
    BY <1>1, <1>5
  <1> QED
    BY <1>6 DEF N

(* Terms that are zero add nothing.                                        *)
LEMMA SumOfZeros ==
  ASSUME NEW S, IsFiniteSet(S), NEW f, \A x \in S : f[x] = 0
  PROVE  SumOf(f, S) = 0
  <1> DEFINE N == {n \in Nat : \A U \in SUBSET S : Cardinality(U) = n => SumOf(f, U) = 0}
  <1>1. \A U \in SUBSET S : IsFiniteSet(U) /\ Cardinality(U) \in Nat
    BY FS_Subset, FS_CardinalityType
  <1>2. 0 \in N
    BY <1>1, FS_EmptySet, SumOfNone
  <1>3. ASSUME NEW n \in Nat, n \in N PROVE n + 1 \in N
    <2> SUFFICES ASSUME NEW U \in SUBSET S, Cardinality(U) = n + 1 PROVE SumOf(f, U) = 0
      OBVIOUS
    <2>1. PICK z : z \in U
      BY <1>1, FS_EmptySet
    <2>2. PICK V : V = U \ {z}
      OBVIOUS
    <2>3. V \in SUBSET S /\ IsFiniteSet(V) /\ Cardinality(V) = n
      <3>1. Cardinality(U \ {z}) = Cardinality(U) - 1
        BY <1>1, <2>1, FS_RemoveElement
      <3> QED
        BY <1>1, <2>2, <3>1
    <2>4. U = V \cup {z} /\ z \notin V /\ (\A y \in V \cup {z} : f[y] \in Int) /\ f[z] = 0
      BY <2>1, <2>2
    <2>5. SumOf(f, V \cup {z}) = SumOf(f, V) + f[z]
      BY <2>3, <2>4, SumAdd
    <2> QED
      BY <1>3, <2>3, <2>4, <2>5
  <1> HIDE DEF N
  <1>4. \A n \in Nat : n \in N
    BY <1>2, <1>3, SetInduction
  <1>5. Cardinality(S) \in N
    BY <1>1, <1>4
  <1> QED
    BY <1>5 DEF N

LEMMA SumWithoutZeros ==
  ASSUME NEW S, IsFiniteSet(S), NEW A \in SUBSET S, NEW f, \A x \in S : f[x] \in Int,
         \A x \in S \ A : f[x] = 0
  PROVE  SumOf(f, S) = SumOf(f, A)
  <1>1. PICK B : B = S \ A
    OBVIOUS
  <1>2. /\ IsFiniteSet(A) /\ IsFiniteSet(B) /\ A \cap B = {} /\ S = A \cup B
        /\ \A x \in A \cup B : f[x] \in Int
    BY <1>1, FS_Subset
  <1>3. SumOf(f, A \cup B) = SumOf(f, A) + SumOf(f, B)
    BY <1>2, SumOfBoth
  <1>4. SumOf(f, B) = 0 /\ SumOf(f, A) \in Int
    BY <1>1, <1>2, SumOfZeros, SumTyped
  <1> QED
    BY <1>2, <1>3, <1>4

(* Terms added one by one.                                                 *)
LEMMA SumOfSums ==
  ASSUME NEW S, IsFiniteSet(S), NEW f, \A x \in S : f[x] \in Int,
         NEW e, \A x \in S : e[x] \in Int, NEW g, \A x \in S : g[x] = f[x] + e[x]
  PROVE  SumOf(g, S) = SumOf(f, S) + SumOf(e, S)
  <1> DEFINE N == {n \in Nat : \A U \in SUBSET S : Cardinality(U) = n =>
                      SumOf(g, U) = SumOf(f, U) + SumOf(e, U)}
  <1>1. \A U \in SUBSET S : IsFiniteSet(U) /\ Cardinality(U) \in Nat
    BY FS_Subset, FS_CardinalityType
  <1>2. 0 \in N
    <2>1. ASSUME NEW U \in SUBSET S, Cardinality(U) = 0
          PROVE  SumOf(g, U) = SumOf(f, U) + SumOf(e, U)
      <3>1. U = {}
        BY <1>1, <2>1, FS_EmptySet
      <3>2. SumOf(g, {}) = 0 /\ SumOf(f, {}) = 0 /\ SumOf(e, {}) = 0
        BY SumOfNone
      <3> QED
        BY <3>1, <3>2
    <2> QED
      BY <2>1
  <1>3. ASSUME NEW n \in Nat, n \in N PROVE n + 1 \in N
    <2> SUFFICES ASSUME NEW U \in SUBSET S, Cardinality(U) = n + 1
                 PROVE  SumOf(g, U) = SumOf(f, U) + SumOf(e, U)
      OBVIOUS
    <2>1. PICK z : z \in U
      BY <1>1, FS_EmptySet
    <2>2. PICK V : V = U \ {z}
      OBVIOUS
    <2>3. V \in SUBSET S /\ IsFiniteSet(V) /\ Cardinality(V) = n
      <3>1. Cardinality(U \ {z}) = Cardinality(U) - 1
        BY <1>1, <2>1, FS_RemoveElement
      <3> QED
        BY <1>1, <2>2, <3>1
    <2>4. /\ U = V \cup {z} /\ z \notin V /\ z \in S
          /\ \A y \in V \cup {z} : f[y] \in Int /\ e[y] \in Int /\ g[y] \in Int
      BY <2>1, <2>2
    <2>5. SumOf(g, V) = SumOf(f, V) + SumOf(e, V)
      BY <1>3, <2>3
    <2>6. SumOf(f, V) \in Int /\ SumOf(e, V) \in Int
      BY <2>3, <2>4, SumTyped
    <2>7. /\ SumOf(f, V \cup {z}) = SumOf(f, V) + f[z]
          /\ SumOf(e, V \cup {z}) = SumOf(e, V) + e[z]
          /\ SumOf(g, V \cup {z}) = SumOf(g, V) + g[z]
      BY <2>3, <2>4, SumAdd
    <2>8. g[z] = f[z] + e[z] /\ f[z] \in Int /\ e[z] \in Int
      BY <2>4
    <2> QED
      BY ONLY <2>4, <2>5, <2>6, <2>7, <2>8
  <1> HIDE DEF N
  <1>4. \A n \in Nat : n \in N
    BY <1>2, <1>3, SetInduction
  <1>5. Cardinality(S) \in N
    BY <1>1, <1>4
  <1> QED
    BY <1>5 DEF N

ImageOf(b, S) == {b[x] : x \in S}

(* The terms of one set as those of another, one to one.                   *)
LEMMA SumRenamed ==
  ASSUME NEW S, IsFiniteSet(S), NEW b, \A x, y \in S : b[x] = b[y] => x = y,
         NEW f, \A x \in S : f[x] \in Int, NEW e, \A x \in S : e[b[x]] = f[x]
  PROVE  IsFiniteSet(ImageOf(b, S)) /\ SumOf(e, ImageOf(b, S)) = SumOf(f, S)
  <1> DEFINE N == {n \in Nat : \A U \in SUBSET S : Cardinality(U) = n =>
                      IsFiniteSet(ImageOf(b, U)) /\ SumOf(e, ImageOf(b, U)) = SumOf(f, U)}
  <1>1. \A U \in SUBSET S : IsFiniteSet(U) /\ Cardinality(U) \in Nat
    BY FS_Subset, FS_CardinalityType
  <1>2. 0 \in N
    <2> SUFFICES ASSUME NEW U \in SUBSET S, Cardinality(U) = 0
                 PROVE  IsFiniteSet(ImageOf(b, U)) /\ SumOf(e, ImageOf(b, U)) = SumOf(f, U)
      OBVIOUS
    <2>1. U = {} /\ ImageOf(b, U) = {}
      BY <1>1, FS_EmptySet DEF ImageOf
    <2> QED
      BY <2>1, SumOfNone, FS_EmptySet
  <1>3. ASSUME NEW n \in Nat, n \in N PROVE n + 1 \in N
    <2> SUFFICES ASSUME NEW U \in SUBSET S, Cardinality(U) = n + 1
                 PROVE  IsFiniteSet(ImageOf(b, U)) /\ SumOf(e, ImageOf(b, U)) = SumOf(f, U)
      OBVIOUS
    <2>1. PICK z : z \in U
      BY <1>1, FS_EmptySet
    <2>2. PICK V : V = U \ {z}
      OBVIOUS
    <2>3. V \in SUBSET S /\ IsFiniteSet(V) /\ Cardinality(V) = n
      <3>1. Cardinality(U \ {z}) = Cardinality(U) - 1
        BY <1>1, <2>1, FS_RemoveElement
      <3> QED
        BY <1>1, <2>2, <3>1
    <2>4. IsFiniteSet(ImageOf(b, V)) /\ SumOf(e, ImageOf(b, V)) = SumOf(f, V)
      BY <1>3, <2>3
    <2>5. U = V \cup {z} /\ z \notin V /\ \A y \in V \cup {z} : f[y] \in Int
      BY <2>1, <2>2
    <2>6. /\ ImageOf(b, U) = ImageOf(b, V) \cup {b[z]} /\ b[z] \notin ImageOf(b, V)
          /\ \A y \in ImageOf(b, V) \cup {b[z]} : e[y] \in Int
          /\ e[b[z]] = f[z]
      BY <2>1, <2>2, <2>3 DEF ImageOf
    <2>7. SumOf(f, U) = SumOf(f, V) + f[z]
      <3>1. SumOf(f, V \cup {z}) = SumOf(f, V) + f[z]
        BY ONLY <2>3, <2>5, SumAdd
      <3> QED
        BY <2>5, <3>1
    <2>8. SumOf(e, ImageOf(b, V) \cup {b[z]}) = SumOf(e, ImageOf(b, V)) + e[b[z]]
      <3>1. PICK W, c : W = ImageOf(b, V) /\ c = b[z]
        OBVIOUS
      <3>2. IsFiniteSet(W) /\ c \notin W /\ \A y \in W \cup {c} : e[y] \in Int
        BY <2>4, <2>6, <3>1
      <3>3. SumOf(e, W \cup {c}) = SumOf(e, W) + e[c]
        BY ONLY <3>2, SumAdd
      <3> QED
        BY <3>1, <3>3
    <2>9. IsFiniteSet(ImageOf(b, V) \cup {b[z]})
      BY <2>4, FS_AddElement
    <2> QED
      BY <2>4, <2>6, <2>7, <2>8, <2>9
  <1> HIDE DEF N
  <1>4. \A n \in Nat : n \in N
    BY <1>2, <1>3, SetInduction
  <1>5. Cardinality(S) \in N
    BY <1>1, <1>4
  <1> QED
    BY <1>5 DEF N

PartOf(S, p, m) == {x \in S : p[x] = m}

(* A sum by parts: every term is in the part that p names.                 *)
LEMMA SumByParts ==
  ASSUME NEW S, IsFiniteSet(S), NEW P, IsFiniteSet(P), NEW p, \A x \in S : p[x] \in P,
         NEW f, \A x \in S : f[x] \in Int,
         NEW e, \A m \in P : e[m] = SumOf(f, PartOf(S, p, m))
  PROVE  SumOf(e, P) = SumOf(f, S)
  <1> DEFINE Part(Q) == {x \in S : p[x] \in Q}
             N == {n \in Nat : \A Q \in SUBSET P : Cardinality(Q) = n =>
                      SumOf(e, Q) = SumOf(f, Part(Q))}
  <1>1. \A Q \in SUBSET P : IsFiniteSet(Q) /\ Cardinality(Q) \in Nat /\ IsFiniteSet(Part(Q))
    BY FS_Subset, FS_CardinalityType
  <1>2. 0 \in N
    <2> SUFFICES ASSUME NEW Q \in SUBSET P, Cardinality(Q) = 0
                 PROVE  SumOf(e, Q) = SumOf(f, Part(Q))
      OBVIOUS
    <2>1. Q = {} /\ Part(Q) = {}
      BY <1>1, FS_EmptySet
    <2> HIDE DEF Part
    <2> QED
      BY <2>1, SumOfNone
  <1>3. ASSUME NEW n \in Nat, n \in N PROVE n + 1 \in N
    <2> SUFFICES ASSUME NEW Q \in SUBSET P, Cardinality(Q) = n + 1
                 PROVE  SumOf(e, Q) = SumOf(f, Part(Q))
      OBVIOUS
    <2>1. PICK m : m \in Q
      BY <1>1, FS_EmptySet
    <2>2. PICK R : R = Q \ {m}
      OBVIOUS
    <2>3. R \in SUBSET P /\ IsFiniteSet(R) /\ Cardinality(R) = n /\ IsFiniteSet(Part(R))
      <3>1. Cardinality(Q \ {m}) = Cardinality(Q) - 1
        BY <1>1, <2>1, FS_RemoveElement
      <3> QED
        <4>1. R \in SUBSET P
          BY <2>2
        <4> HIDE DEF Part
        <4> QED
          BY <1>1, <2>2, <3>1, <4>1
    <2>4. SumOf(e, R) = SumOf(f, Part(R))
      BY <1>3, <2>3
    <2>5. Q = R \cup {m} /\ m \notin R /\ m \in P
      BY <2>1, <2>2
    <2>6. PICK M : M = PartOf(S, p, m)
      OBVIOUS
    <2>7. /\ Part(Q) = Part(R) \cup M /\ Part(R) \cap M = {} /\ IsFiniteSet(M)
          /\ \A x \in Part(R) \cup M : f[x] \in Int
      <3>1. M \subseteq S /\ IsFiniteSet(M)
        BY <2>6, FS_Subset DEF PartOf
      <3>2. Part(Q) = Part(R) \cup M /\ Part(R) \cap M = {}
        BY <2>5, <2>6 DEF PartOf
      <3> QED
        BY <3>1, <3>2
    <2>8. \A k \in R \cup {m} : e[k] \in Int
      <3>1. ASSUME NEW k \in P PROVE e[k] \in Int
        <4>1. PICK K : K = PartOf(S, p, k)
          OBVIOUS
        <4>2. IsFiniteSet(K) /\ \A x \in K : f[x] \in Int
          BY <4>1, FS_Subset DEF PartOf
        <4> QED
          BY <4>1, <4>2, SumTyped
      <3> QED
        BY ONLY <2>3, <2>5, <3>1
    <2> HIDE DEF Part
    <2>9. SumOf(e, R \cup {m}) = SumOf(e, R) + e[m]
      BY ONLY <2>3, <2>5, <2>8, SumAdd
    <2>10. SumOf(f, Part(R) \cup M) = SumOf(f, Part(R)) + SumOf(f, M)
      BY <2>3, <2>7, SumOfBoth
    <2>11. e[m] = SumOf(f, M)
      BY <2>5, <2>6
    <2> QED
      BY ONLY <2>4, <2>5, <2>7, <2>9, <2>10, <2>11
  <1> HIDE DEF N
  <1>4. \A n \in Nat : n \in N
    BY <1>2, <1>3, SetInduction
  <1>5. Cardinality(P) \in N
    BY <1>1, <1>4
  <1>6. SumOf(e, P) = SumOf(f, Part(P))
    BY <1>5 DEF N
  <1>7. Part(P) = S
    OBVIOUS
  <1> QED
    BY <1>6, <1>7
=============================================================================
