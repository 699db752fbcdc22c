------------------------------ MODULE Collections ------------------------------
(***************************************************************************)
(* Lemmas about what the modules compute with: finite sums, the largest    *)
(* and the smallest of a set of numbers, sorted and filtered sequences.    *)
(***************************************************************************)
EXTENDS Lists, FiniteSetsExt, SequencesExt, FiniteSetTheorems, FunctionTheorems, SequenceTheorems, TLAPS

-----------------------------------------------------------------------------
(* Sums over finite sets.  What the library leaves to an operator          *)
(* parameter is proved here from a least set, out of those where a claim   *)
(* would fail.                                                             *)

Total(f, S) == MapThenSumSet(LAMBDA x : f[x], S)

LEMMA Least ==
  ASSUME NEW S, IsFiniteSet(S), NEW W, W \subseteq SUBSET S, W # {}
  PROVE  \E T \in W : T \subseteq S /\ IsFiniteSet(T)
                      /\ \A U \in W : U \subseteq T => U = T
<1>1. W \subseteq FiniteSubsetsOf(S)
  BY FS_FiniteSubsetsOfFinite
<1>2. PICK T \in W : \A U \in W : <<U, T>> \notin StrictSubsetOrdering(S)
  BY ONLY <1>1, W # {}, FS_StrictSubsetOrderingWellFounded, WFMin
<1>3. IsFiniteSet(T)
  BY <1>2, FS_Subset
<1>. QED  BY <1>2, <1>3 DEF StrictSubsetOrdering

(* The recursive function that a fold is defined by. *)
One(s) == CHOOSE x \in s : TRUE

Partial(f, S, g) ==
    g = [s \in SUBSET S |-> IF s = {} THEN 0 ELSE f[One(s)] + g[s \ {One(s)}]]

Sums(f, S) == CHOOSE g : Partial(f, S, g)

LEMMA TotalUnfolds ==
  ASSUME NEW f, NEW S
  PROVE  Total(f, S) = Sums(f, S)[S]
  BY DEF Total, MapThenSumSet, MapThenFoldSet, Sums, Partial, One

LEMMA PartialAt ==
  ASSUME NEW f, NEW S, NEW g, Partial(f, S, g), NEW s \in SUBSET S
  PROVE  g[s] = IF s = {} THEN 0 ELSE f[One(s)] + g[s \ {One(s)}]
  BY DEF Partial

LEMMA OneIn ==
  ASSUME NEW s, s # {}
  PROVE  One(s) \in s
  BY DEF One

LEMMA PartialUnique ==
  ASSUME NEW f, NEW S, NEW T, NEW g, NEW h, Partial(f, S, g), Partial(f, T, h),
         NEW s, IsFiniteSet(s), s \subseteq S, s \subseteq T
  PROVE  g[s] = h[s]
<1>. DEFINE W == {r \in SUBSET s : g[r] # h[r]}
<1>1. SUFFICES ASSUME W # {} PROVE FALSE
  OBVIOUS
<1>0. W \subseteq SUBSET s
  OBVIOUS
<1>. HIDE DEF W
<1>2. PICK r \in W : r \subseteq s /\ IsFiniteSet(r) /\ \A U \in W : U \subseteq r => U = r
  BY <1>0, <1>1, Least
<1>. USE DEF W
<1>3. /\ g[r] = IF r = {} THEN 0 ELSE f[One(r)] + g[r \ {One(r)}]
      /\ h[r] = IF r = {} THEN 0 ELSE f[One(r)] + h[r \ {One(r)}]
  BY <1>2, PartialAt
<1>4. r # {}
  BY <1>2, <1>3
<1>5. One(r) \in r
  BY <1>4, OneIn
<1>6. r \ {One(r)} \notin W
  BY <1>2, <1>5
<1>7. g[r \ {One(r)}] = h[r \ {One(r)}]
  BY <1>2, <1>6
<1>. QED  BY <1>2, <1>3, <1>7

LEMMA PartialExists ==
  ASSUME NEW f, NEW S, IsFiniteSet(S)
  PROVE  Partial(f, S, Sums(f, S))
<1>. DEFINE W == {T \in SUBSET S : \A g : ~ Partial(f, T, g)}
<1>1. SUFFICES ASSUME W # {} PROVE FALSE
  BY DEF Sums
<1>0. W \subseteq SUBSET S
  OBVIOUS
<1>. HIDE DEF W
<1>2. PICK T \in W : T \subseteq S /\ IsFiniteSet(T) /\ \A U \in W : U \subseteq T => U = T
  BY <1>0, <1>1, Least
<1>. USE DEF W
<1>3. \A s \in SUBSET T : s # T => Partial(f, s, Sums(f, s))
  BY <1>2 DEF Sums
<1>. DEFINE G == [s \in SUBSET T |-> IF s = {} THEN 0
                    ELSE f[One(s)] + Sums(f, s \ {One(s)})[s \ {One(s)}]]
<1>4. ASSUME NEW s \in SUBSET T, s # {}
      PROVE  G[s \ {One(s)}] = Sums(f, s \ {One(s)})[s \ {One(s)}]
  <2>. DEFINE r == s \ {One(s)}
  <2>1. One(s) \in s /\ r \in SUBSET T /\ r # T /\ IsFiniteSet(r)
    BY <1>2, <1>4, OneIn, FS_Subset
  <2>2. Partial(f, r, Sums(f, r))
    BY <2>1, <1>3
  <2>3. Sums(f, r)[r] = IF r = {} THEN 0 ELSE f[One(r)] + Sums(f, r)[r \ {One(r)}]
    <3>. HIDE DEF r
    <3>. QED  BY <2>2, PartialAt
  <2>4. CASE r = {}
    BY <2>1, <2>3, <2>4
  <2>5. CASE r # {}
    <3>. DEFINE p == r \ {One(r)}
    <3>1. One(r) \in r /\ p \in SUBSET T /\ p # T /\ IsFiniteSet(p) /\ p \subseteq r
      BY <2>1, <2>5, OneIn, FS_Subset
    <3>2. Partial(f, p, Sums(f, p))
      BY <3>1, <1>3
    <3>3. Sums(f, r)[p] = Sums(f, p)[p]
      <4>. HIDE DEF p, r
      <4>. QED  BY <3>1, <3>2, <2>2, PartialUnique
    <3>4. G[r] = f[One(r)] + Sums(f, p)[p]
      BY <2>1, <2>5
    <3>. QED  BY <3>3, <3>4, <2>3, <2>5
  <2>. QED  BY <2>4, <2>5
<1>5. Partial(f, T, G)
  <2>. HIDE DEF One
  <2>1. \A s \in SUBSET T : G[s] = IF s = {} THEN 0 ELSE f[One(s)] + G[s \ {One(s)}]
    BY <1>4
  <2>2. G = [s \in SUBSET T |-> G[s]]
    OBVIOUS
  <2>. HIDE DEF G
  <2>. QED  BY <2>1, <2>2 DEF Partial
<1>. QED  BY <1>2, <1>5

LEMMA TotalStep ==
  ASSUME NEW f, NEW S, IsFiniteSet(S)
  PROVE  Total(f, S) = IF S = {} THEN 0 ELSE f[One(S)] + Total(f, S \ {One(S)})
<1>1. Partial(f, S, Sums(f, S))
  BY PartialExists
<1>2. Sums(f, S)[S] = IF S = {} THEN 0 ELSE f[One(S)] + Sums(f, S)[S \ {One(S)}]
  BY <1>1, PartialAt
<1>3. CASE S # {}
  <2>. DEFINE r == S \ {One(S)}
  <2>1. r \subseteq S /\ IsFiniteSet(r)
    BY FS_Subset
  <2>2. Partial(f, r, Sums(f, r))
    BY <2>1, PartialExists
  <2>3. Sums(f, S)[r] = Sums(f, r)[r]
    BY <1>1, <2>1, <2>2, PartialUnique
  <2>. QED  BY <1>2, <1>3, <2>3, TotalUnfolds
<1>. QED  BY <1>2, <1>3, TotalUnfolds

(* A sum of integers, and the order in which they are added. *)
LEMMA TotalInt ==
  ASSUME NEW S, IsFiniteSet(S), NEW f, \A x \in S : f[x] \in Int
  PROVE  Total(f, S) \in Int
<1>. DEFINE W == {T \in SUBSET S : Total(f, T) \notin Int}
<1>1. SUFFICES ASSUME W # {} PROVE FALSE
  OBVIOUS
<1>0. W \subseteq SUBSET S
  OBVIOUS
<1>. HIDE DEF W
<1>2. PICK T \in W : T \subseteq S /\ IsFiniteSet(T) /\ \A U \in W : U \subseteq T => U = T
  BY <1>0, <1>1, Least
<1>. USE DEF W
<1>3. Total(f, T) = IF T = {} THEN 0 ELSE f[One(T)] + Total(f, T \ {One(T)})
  BY <1>2, TotalStep
<1>4. T # {}
  BY <1>2, <1>3
<1>5. One(T) \in T
  BY <1>4, OneIn
<1>6. Total(f, T \ {One(T)}) \in Int
  BY <1>2, <1>5
<1>. QED  BY <1>2, <1>3, <1>5, <1>6

LEMMA TotalPick ==
  ASSUME NEW S, IsFiniteSet(S), NEW f, \A x \in S : f[x] \in Int, NEW x \in S
  PROVE  Total(f, S) = f[x] + Total(f, S \ {x})
<1>. DEFINE W == {T \in SUBSET S : \E y \in T : Total(f, T) # f[y] + Total(f, T \ {y})}
<1>1. SUFFICES ASSUME W # {} PROVE FALSE
  OBVIOUS
<1>0. W \subseteq SUBSET S
  OBVIOUS
<1>. HIDE DEF W
<1>2. PICK T \in W : T \subseteq S /\ IsFiniteSet(T) /\ \A U \in W : U \subseteq T => U = T
  BY <1>0, <1>1, Least
<1>. USE DEF W
<1>3. PICK y \in T : Total(f, T) # f[y] + Total(f, T \ {y})
  BY <1>2
<1>. DEFINE c == One(T)
<1>4. c \in T /\ Total(f, T) = f[c] + Total(f, T \ {c})
  BY <1>2, <1>3, OneIn, TotalStep
<1>5. y # c
  BY <1>3, <1>4
<1>6. T \ {c} \notin W /\ T \ {y} \notin W
  BY <1>2, <1>3, <1>4
<1>7. /\ Total(f, T \ {c}) = f[y] + Total(f, (T \ {c}) \ {y})
      /\ Total(f, T \ {y}) = f[c] + Total(f, (T \ {y}) \ {c})
  BY <1>2, <1>3, <1>4, <1>5, <1>6
<1>8. (T \ {c}) \ {y} = (T \ {y}) \ {c}
  OBVIOUS
<1>9. /\ f[c] \in Int /\ f[y] \in Int
      /\ IsFiniteSet((T \ {c}) \ {y})
  BY <1>2, <1>3, <1>4, FS_Subset
<1>10. Total(f, (T \ {c}) \ {y}) \in Int
  BY <1>2, <1>9, TotalInt
<1>. HIDE DEF c
<1>. QED  BY <1>3, <1>4, <1>7, <1>8, <1>9, <1>10

LEMMA TotalEmpty == \A f : Total(f, {}) = 0
  BY TotalStep, FS_EmptySet

LEMMA TotalLeq ==
  ASSUME NEW S, IsFiniteSet(S), NEW f, NEW h,
         \A x \in S : f[x] \in Int /\ h[x] \in Int /\ f[x] <= h[x]
  PROVE  Total(f, S) <= Total(h, S)
<1>. DEFINE W == {T \in SUBSET S : ~ (Total(f, T) <= Total(h, T))}
<1>1. SUFFICES ASSUME W # {} PROVE FALSE
  OBVIOUS
<1>0. W \subseteq SUBSET S
  OBVIOUS
<1>. HIDE DEF W
<1>2. PICK T \in W : T \subseteq S /\ IsFiniteSet(T) /\ \A U \in W : U \subseteq T => U = T
  BY <1>0, <1>1, Least
<1>. USE DEF W
<1>3. T # {}
  <2>1. Total(f, {}) = 0 /\ Total(h, {}) = 0
    BY TotalEmpty
  <2>2. ~ (Total(f, T) <= Total(h, T))
    BY <1>2
  <2>. QED  BY <2>1, <2>2
<1>4. PICK x \in T : TRUE
  BY <1>3
<1>5. /\ Total(f, T) = f[x] + Total(f, T \ {x})
      /\ Total(h, T) = h[x] + Total(h, T \ {x})
  BY <1>2, TotalPick
<1>6. /\ Total(f, T \ {x}) \in Int /\ Total(h, T \ {x}) \in Int
  BY <1>2, TotalInt, FS_Subset
<1>7. Total(f, T \ {x}) <= Total(h, T \ {x})
  BY <1>2, <1>4
<1>. QED  BY <1>2, <1>5, <1>6, <1>7

LEMMA TotalExtends ==
  ASSUME NEW S, IsFiniteSet(S), NEW f, \A x \in S : f[x] \in Int,
         NEW T \in SUBSET S, \A x \in S \ T : f[x] = 0
  PROVE  Total(f, S) = Total(f, T)
<1>. DEFINE W == {U \in SUBSET S : T \subseteq U /\ Total(f, U) # Total(f, T)}
<1>1. SUFFICES ASSUME W # {} PROVE FALSE
  OBVIOUS
<1>0. W \subseteq SUBSET S
  OBVIOUS
<1>. HIDE DEF W
<1>2. PICK U \in W : U \subseteq S /\ IsFiniteSet(U) /\ \A V \in W : V \subseteq U => V = U
  BY <1>0, <1>1, Least
<1>. USE DEF W
<1>3. PICK x \in U \ T : TRUE
  <2>1. U # T /\ T \subseteq U
    BY <1>2
  <2>. QED  BY <2>1
<1>4. Total(f, U) = f[x] + Total(f, U \ {x})
  BY <1>2, <1>3, TotalPick
<1>5. Total(f, U \ {x}) = Total(f, T)
  BY <1>2, <1>3
<1>6. Total(f, T) \in Int
  BY TotalInt, FS_Subset
<1>. QED  BY <1>2, <1>3, <1>4, <1>5, <1>6

LEMMA TotalSame ==
  ASSUME NEW S, IsFiniteSet(S), NEW f, NEW h,
         \A x \in S : f[x] \in Int /\ h[x] = f[x]
  PROVE  Total(f, S) = Total(h, S)
<1>1. Total(f, S) <= Total(h, S) /\ Total(h, S) <= Total(f, S)
  BY TotalLeq
<1>. QED  BY <1>1, TotalInt

LEMMA TotalAt ==
  ASSUME NEW S, IsFiniteSet(S), NEW f, NEW h, NEW x \in S,
         \A y \in S : f[y] \in Int /\ h[y] \in Int /\ (y # x => h[y] = f[y])
  PROVE  Total(h, S) = Total(f, S) - f[x] + h[x]
<1>1. /\ Total(f, S) = f[x] + Total(f, S \ {x})
      /\ Total(h, S) = h[x] + Total(h, S \ {x})
  BY TotalPick
<1>2. IsFiniteSet(S \ {x})
  BY FS_Subset
<1>3. Total(f, S \ {x}) = Total(h, S \ {x}) /\ Total(f, S \ {x}) \in Int
  BY <1>2, TotalSame, TotalInt
<1>. QED  BY <1>1, <1>3

LEMMA TotalZero ==
  ASSUME NEW S, IsFiniteSet(S), NEW f, \A x \in S : f[x] = 0
  PROVE  Total(f, S) = 0
  BY TotalExtends, TotalEmpty

LEMMA TotalOnly ==
  ASSUME NEW S, IsFiniteSet(S), NEW f, NEW x \in S, f[x] \in Int,
         \A y \in S : y # x => f[y] = 0
  PROVE  Total(f, S) = f[x]
<1>1. Total(f, S) = f[x] + Total(f, S \ {x})
  BY TotalPick
<1>2. Total(f, S \ {x}) = 0
  BY TotalZero, FS_Subset
<1>. QED  BY <1>1, <1>2

LEMMA TotalConst ==
  ASSUME NEW S, IsFiniteSet(S), NEW f, NEW k \in Int, \A x \in S : f[x] = k
  PROVE  Total(f, S) = k * Cardinality(S)
<1>. DEFINE W == {T \in SUBSET S : Total(f, T) # k * Cardinality(T)}
<1>1. SUFFICES ASSUME W # {} PROVE FALSE
  OBVIOUS
<1>0. W \subseteq SUBSET S
  OBVIOUS
<1>. HIDE DEF W
<1>2. PICK T \in W : T \subseteq S /\ IsFiniteSet(T) /\ \A U \in W : U \subseteq T => U = T
  BY <1>0, <1>1, Least
<1>. USE DEF W
<1>3. T # {}
  <2>1. Total(f, {}) = 0 /\ Cardinality({}) = 0 /\ k * 0 = 0
    BY TotalEmpty, FS_EmptySet
  <2>2. Total(f, T) # k * Cardinality(T)
    BY <1>2
  <2>. QED  BY <2>1, <2>2
<1>4. PICK x \in T : TRUE
  BY <1>3
<1>5. Total(f, T) = f[x] + Total(f, T \ {x})
  BY <1>2, TotalPick
<1>6. Total(f, T \ {x}) = k * Cardinality(T \ {x})
  BY <1>2, <1>4
<1>7. Cardinality(T \ {x}) = Cardinality(T) - 1 /\ Cardinality(T) \in Int
  BY <1>2, <1>4, FS_RemoveElement, FS_CardinalityType
<1>8. k * Cardinality(T) = k + k * (Cardinality(T) - 1)
  BY <1>7
<1>. QED  BY <1>2, <1>4, <1>5, <1>6, <1>7, <1>8

(* A finite set of numbers has a largest. *)
LEMMA LargestExists ==
  ASSUME NEW S, IsFiniteSet(S), S \subseteq Int, S # {}
  PROVE  Max(S) \in S /\ \A n \in S : n <= Max(S)
<1>. DEFINE W == {T \in SUBSET S : T # {} /\ \A m \in T : \E n \in T : ~ (n <= m)}
<1>1. SUFFICES ASSUME W # {} PROVE FALSE
  BY DEF Max
<1>0. W \subseteq SUBSET S
  OBVIOUS
<1>. HIDE DEF W
<1>2. PICK T \in W : T \subseteq S /\ IsFiniteSet(T) /\ \A U \in W : U \subseteq T => U = T
  BY ONLY <1>0, <1>1, IsFiniteSet(S), Least
<1>. USE DEF W
<1>3. PICK x \in T : TRUE
  BY <1>2
<1>4. CASE T = {x}
  BY <1>2, <1>4
<1>5. CASE T # {x}
  <2>1. T \ {x} # {} /\ T \ {x} \notin W
    BY <1>2, <1>3, <1>5
  <2>2. PICK m \in T \ {x} : \A n \in T \ {x} : n <= m
    BY <1>2, <2>1
  <2>. QED  BY <1>2, <1>3, <2>2
<1>. QED  BY <1>4, <1>5

LEMMA SmallestExists ==
  ASSUME NEW S, IsFiniteSet(S), S \subseteq Int, S # {}
  PROVE  Min(S) \in S /\ \A n \in S : Min(S) <= n
<1>. DEFINE W == {T \in SUBSET S : T # {} /\ \A m \in T : \E n \in T : ~ (m <= n)}
<1>1. SUFFICES ASSUME W # {} PROVE FALSE
  BY DEF Min
<1>0. W \subseteq SUBSET S
  OBVIOUS
<1>. HIDE DEF W
<1>2. PICK T \in W : T \subseteq S /\ IsFiniteSet(T) /\ \A U \in W : U \subseteq T => U = T
  BY ONLY <1>0, <1>1, IsFiniteSet(S), Least
<1>. USE DEF W
<1>3. PICK x \in T : TRUE
  BY <1>2
<1>4. CASE T = {x}
  BY <1>2, <1>4
<1>5. CASE T # {x}
  <2>1. T \ {x} # {} /\ T \ {x} \notin W
    BY <1>2, <1>3, <1>5
  <2>2. PICK m \in T \ {x} : \A n \in T \ {x} : m <= n
    BY <1>2, <2>1
  <2>. QED  BY <1>2, <1>3, <2>2
<1>. QED  BY <1>4, <1>5

-----------------------------------------------------------------------------
LEMMA CountTo ==
  ASSUME NEW n \in Nat
  PROVE  IsFiniteSet(1..n) /\ Cardinality(1..n) = n
  BY FS_Interval

(* Ranks: in a strict total order R on a finite set, the elements have     *)
(* 0, 1, 2, ... others ahead of them.                                      *)

Orders(R, S) ==
    /\ \A a \in S : <<a, a>> \notin R
    /\ \A a, b \in S : a # b => <<a, b>> \in R \/ <<b, a>> \in R
    /\ \A a, b, c \in S : <<a, b>> \in R /\ <<b, c>> \in R => <<a, c>> \in R

Ahead(R, S, c) == {d \in S : <<d, c>> \in R}

LEMMA RankFacts ==
  ASSUME NEW S, IsFiniteSet(S), NEW R, Orders(R, S)
  PROVE  /\ Cardinality(S) \in Nat
         /\ \A c \in S : /\ IsFiniteSet(Ahead(R, S, c))
                         /\ Cardinality(Ahead(R, S, c)) \in 0..(Cardinality(S) - 1)
         /\ \A a, b \in S : <<a, b>> \in R =>
              Cardinality(Ahead(R, S, a)) < Cardinality(Ahead(R, S, b))
<1>0. Cardinality(S) \in Nat
  BY FS_CardinalityType
<1>1. ASSUME NEW c \in S
      PROVE  /\ IsFiniteSet(Ahead(R, S, c))
             /\ Cardinality(Ahead(R, S, c)) \in 0..(Cardinality(S) - 1)
  <2>1. Ahead(R, S, c) \subseteq S \ {c}
    BY DEF Ahead, Orders
  <2>2. IsFiniteSet(S \ {c}) /\ Cardinality(S \ {c}) = Cardinality(S) - 1
    BY FS_RemoveElement
  <2>3. IsFiniteSet(Ahead(R, S, c)) /\ Cardinality(Ahead(R, S, c)) <= Cardinality(S \ {c})
    BY <2>1, <2>2, FS_Subset
  <2>4. Cardinality(Ahead(R, S, c)) \in Nat
    BY <2>3, FS_CardinalityType
  <2>. QED  BY <1>0, <2>2, <2>3, <2>4
<1>2. ASSUME NEW a \in S, NEW b \in S, <<a, b>> \in R
      PROVE  Cardinality(Ahead(R, S, a)) < Cardinality(Ahead(R, S, b))
  <2>1. Ahead(R, S, a) \cup {a} \subseteq Ahead(R, S, b) /\ a \notin Ahead(R, S, a)
    BY <1>2 DEF Ahead, Orders
  <2>2. /\ IsFiniteSet(Ahead(R, S, a)) /\ IsFiniteSet(Ahead(R, S, b))
        /\ Cardinality(Ahead(R, S, a)) \in Nat /\ Cardinality(Ahead(R, S, b)) \in Nat
    BY <1>1
  <2>3. /\ IsFiniteSet(Ahead(R, S, a) \cup {a})
        /\ Cardinality(Ahead(R, S, a) \cup {a}) = Cardinality(Ahead(R, S, a)) + 1
    BY <2>1, <2>2, FS_AddElement
  <2>4. Cardinality(Ahead(R, S, a) \cup {a}) <= Cardinality(Ahead(R, S, b))
    BY <2>1, <2>2, FS_Subset
  <2>. QED  BY <2>2, <2>3, <2>4
<1>. QED  BY <1>0, <1>1, <1>2

LEMMA RankTaken ==
  ASSUME NEW S, IsFiniteSet(S), NEW R, Orders(R, S), NEW k \in 1..Cardinality(S)
  PROVE  \E c \in S : Cardinality(Ahead(R, S, c)) = k - 1
<1>. DEFINE n == Cardinality(S)
            f == [c \in S |-> Cardinality(Ahead(R, S, c)) + 1]
<1>1. n \in Nat /\ IsFiniteSet(1..n) /\ Cardinality(1..n) = n
  BY FS_CardinalityType, FS_Interval
<1>2. f \in [S -> 1..n]
  BY RankFacts
<1>3. \A a, b \in S : f[a] = f[b] => a = b
  <2>. SUFFICES ASSUME NEW a \in S, NEW b \in S, f[a] = f[b] PROVE a = b
    OBVIOUS
  <2>1. /\ Cardinality(Ahead(R, S, a)) \in Int /\ Cardinality(Ahead(R, S, b)) \in Int
        /\ Cardinality(S) \in Nat
    BY RankFacts
  <2>2. <<a, b>> \notin R /\ <<b, a>> \notin R
    BY <2>1, RankFacts
  <2>. QED  BY <2>2 DEF Orders
<1>4. f \in Injection(S, 1..n)
  BY <1>2, <1>3 DEF Injection, IsInjective
<1>5. f \in Surjection(S, 1..n)
  BY <1>1, <1>4, FS_Injection
<1>6. PICK c \in S : f[c] = k
  BY <1>5 DEF Surjection
<1>7. Cardinality(Ahead(R, S, c)) \in Nat
  BY RankFacts
<1>. QED  BY <1>6, <1>7

(* A list in the order R: the elements of S, each once. *)
Lists(R, S, list) ==
    /\ list \in [1..Cardinality(S) -> S]
    /\ \A i, j \in 1..Cardinality(S) : i < j => <<list[i], list[j]>> \in R
    /\ \A c \in S : \E i \in 1..Cardinality(S) : list[i] = c

LEMMA RankedLists ==
  ASSUME NEW S, IsFiniteSet(S), NEW R, Orders(R, S),
         NEW list \in [1..Cardinality(S) -> S],
         \A k \in 1..Cardinality(S) : Cardinality(Ahead(R, S, list[k])) = k - 1
  PROVE  Lists(R, S, list)
<1>. DEFINE n == Cardinality(S)
<1>2. n \in Nat
  BY RankFacts
<1>3. \A k \in 1..n : list[k] \in S /\ Cardinality(Ahead(R, S, list[k])) = k - 1
  OBVIOUS
<1>5. ASSUME NEW i \in 1..n, NEW j \in 1..n, i < j
      PROVE  <<list[i], list[j]>> \in R
  <2>1. /\ Cardinality(Ahead(R, S, list[i])) < Cardinality(Ahead(R, S, list[j]))
        /\ list[i] \in S /\ list[j] \in S
    BY <1>2, <1>3, <1>5
  <2>2. list[i] # list[j] /\ <<list[j], list[i]>> \notin R
    BY <1>2, <1>3, <1>5, <2>1, RankFacts
  <2>. QED  BY <2>1, <2>2 DEF Orders
<1>6. ASSUME NEW c \in S
      PROVE  \E i \in 1..n : list[i] = c
  <2>1. Cardinality(Ahead(R, S, c)) \in 0..(n - 1)
    BY RankFacts
  <2>. DEFINE i == Cardinality(Ahead(R, S, c)) + 1
  <2>2. i \in 1..n
    BY <2>1, <1>2
  <2>3. list[i] \in S /\ Cardinality(Ahead(R, S, list[i])) = Cardinality(Ahead(R, S, c))
    BY <1>3, <2>1, <2>2
  <2>4. <<list[i], c>> \notin R /\ <<c, list[i]>> \notin R
    BY <2>3, <2>1, RankFacts
  <2>. QED  BY <2>2, <2>3, <2>4 DEF Orders
<1>. QED  BY <1>5, <1>6 DEF Lists

(* There is only one. *)
LEMMA ListsOne ==
  ASSUME NEW S, IsFiniteSet(S), NEW R, Orders(R, S), NEW list, NEW other,
         Lists(R, S, list), Lists(R, S, other)
  PROVE  list = other
<1>. DEFINE n == Cardinality(S)
<1>0. n \in Nat
  BY RankFacts
<1>1. ASSUME NEW l, Lists(R, S, l), NEW k \in 1..n
      PROVE  Cardinality(Ahead(R, S, l[k])) = k - 1
  <2>1. /\ l \in [1..n -> S]
        /\ \A i, j \in 1..n : i < j => <<l[i], l[j]>> \in R
        /\ \A c \in S : \E i \in 1..n : l[i] = c
    BY <1>1 DEF Lists
  <2>. DEFINE f == [i \in 1..(k - 1) |-> l[i]]
  <2>2. ASSUME NEW i \in 1..n, NEW j \in 1..n, l[i] = l[j]
        PROVE  i = j
    <3>1. ~ (i < j) /\ ~ (j < i)
      BY <2>1, <2>2 DEF Orders
    <3>. QED  BY <1>0, <3>1
  <2>3. \A i \in 1..(k - 1) : i \in 1..n /\ i < k
    BY <1>0
  <2>4. f \in [1..(k - 1) -> Ahead(R, S, l[k])]
    BY <2>1, <2>3 DEF Ahead
  <2>5. \A c \in Ahead(R, S, l[k]) : \E i \in 1..(k - 1) : f[i] = c
    <3>. SUFFICES ASSUME NEW c \in S, <<c, l[k]>> \in R
                  PROVE  \E i \in 1..(k - 1) : f[i] = c
      BY DEF Ahead
    <3>1. PICK i \in 1..n : l[i] = c
      BY <2>1
    <3>2. i < k
      <4>1. CASE i = k
        BY <2>1, <3>1, <4>1 DEF Orders
      <4>2. CASE k < i
        <5>1. <<l[k], c>> \in R /\ c \in S /\ l[k] \in S
          BY <2>1, <3>1, <4>2
        <5>. QED  BY <5>1 DEF Orders
      <4>. QED  BY <1>0, <4>1, <4>2
    <3>. QED  BY <1>0, <3>1, <3>2
  <2>6. f \in Bijection(1..(k - 1), Ahead(R, S, l[k]))
    BY <2>2, <2>3, <2>4, <2>5 DEF Bijection, Injection, IsInjective, Surjection
  <2>7. k - 1 \in Nat
    BY <1>0
  <2>. QED  BY <2>6, <2>7, FS_CountingElements DEF ExistsBijection
<1>2. ASSUME NEW k \in 1..n
      PROVE  list[k] = other[k]
  <2>1. list[k] \in S /\ other[k] \in S
    BY DEF Lists
  <2>2. Cardinality(Ahead(R, S, list[k])) = k - 1 /\ Cardinality(Ahead(R, S, other[k])) = k - 1
    BY <1>1
  <2>3. <<list[k], other[k]>> \notin R /\ <<other[k], list[k]>> \notin R
    BY <2>1, <2>2, <1>0, RankFacts
  <2>. QED  BY <2>1, <2>3 DEF Orders
<1>3. list \in [1..n -> S] /\ other \in [1..n -> S]
  BY DEF Lists
<1>4. \A k \in 1..n : list[k] = other[k]
  BY <1>2
<1>. HIDE DEF n
<1>5. DOMAIN list = 1..n /\ DOMAIN other = 1..n
  BY <1>3
<1>6. list = [k \in 1..n |-> list[k]] /\ other = [k \in 1..n |-> other[k]]
  BY <1>3
<1>. QED  BY <1>4, <1>6, Zenon

-----------------------------------------------------------------------------
(* What is picked from a sequence.                                         *)

Less(P) == {pair \in P \X P : pair[1] < pair[2]}

Places(P) ==
    [k \in 1..Cardinality(P) |-> CHOOSE c \in P : Cardinality({d \in P : d < c}) = k - 1]

LEMMA LessOrders ==
  ASSUME NEW P, P \subseteq Int
  PROVE  Orders(Less(P), P) /\ \A a, b \in P : <<a, b>> \in Less(P) <=> a < b
<1>1. \A a, b \in P : <<a, b>> \in Less(P) <=> a < b
  BY DEF Less
<1>. QED  BY <1>1 DEF Orders

LEMMA PlacesListed ==
  ASSUME NEW P, P \subseteq Int, IsFiniteSet(P)
  PROVE  Lists(Less(P), P, Places(P))
<1>1. Orders(Less(P), P) /\ \A c \in P : Ahead(Less(P), P, c) = {d \in P : d < c}
  BY LessOrders DEF Ahead
<1>2. ASSUME NEW k \in 1..Cardinality(P)
      PROVE  Places(P)[k] \in P /\ Cardinality(Ahead(Less(P), P, Places(P)[k])) = k - 1
  <2>0. PICK b \in P : Cardinality(Ahead(Less(P), P, b)) = k - 1
    <3>1. Orders(Less(P), P)
      BY <1>1
    <3>. QED  BY <3>1, RankTaken
  <2>1. \E a \in P : Cardinality({d \in P : d < a}) = k - 1
    BY <1>1, <2>0
  <2>2. Places(P)[k] = CHOOSE c \in P : Cardinality({d \in P : d < c}) = k - 1
    BY DEF Places
  <2>3. Places(P)[k] \in P /\ Cardinality({d \in P : d < Places(P)[k]}) = k - 1
    BY <2>1, <2>2
  <2>. QED  BY <1>1, <2>3
<1>3. Places(P) \in [1..Cardinality(P) -> P]
  BY <1>2 DEF Places
<1>. QED  BY <1>1, <1>2, <1>3, RankedLists

LEMMA PickedIs ==
  ASSUME NEW P, NEW seq
  PROVE  Picked(P, seq) = [k \in 1..Cardinality(P) |-> seq[Places(P)[k]]]
  BY DEF Picked, Sorted, Places

(* The places P of a sequence in order, 1 to m. *)
Through(e, m, P) ==
    /\ m \in Nat /\ e \in [1..m -> P]
    /\ \A k, l \in 1..m : k < l => e[k] < e[l]
    /\ \A i \in P : \E k \in 1..m : e[k] = i

LEMMA ThroughPlaces ==
  ASSUME NEW P, P \subseteq Int, IsFiniteSet(P)
  PROVE  Through(Places(P), Cardinality(P), P)
<1>1. Cardinality(P) \in Nat
  BY FS_CardinalityType
<1>2. Lists(Less(P), P, Places(P))
  BY PlacesListed
<1>. QED  BY <1>1, <1>2 DEF Through, Lists, Less

LEMMA ThroughOne ==
  ASSUME NEW P, P \subseteq Int, NEW e, NEW m, Through(e, m, P)
  PROVE  IsFiniteSet(P) /\ Cardinality(P) = m /\ e = Places(P)
<1>1. m \in Nat /\ e \in [1..m -> P] /\ IsFiniteSet(1..m) /\ Cardinality(1..m) = m
  BY CountTo DEF Through
<1>2. ASSUME NEW k \in 1..m, NEW l \in 1..m, e[k] = e[l]
      PROVE  k = l
  <2>1. (k < l => e[k] < e[l]) /\ (l < k => e[l] < e[k])
    BY DEF Through
  <2>2. e[k] \in Int /\ e[l] \in Int
    BY <1>1
  <2>. QED  BY <1>1, <1>2, <2>1, <2>2
<1>3. e \in Bijection(1..m, P)
  BY <1>1, <1>2 DEF Through, Bijection, Injection, IsInjective, Surjection
<1>4. IsFiniteSet(P) /\ Cardinality(P) = m
  BY <1>1, <1>3, FS_Bijection DEF ExistsBijection
<1>5. Lists(Less(P), P, e)
  BY <1>1, <1>4, LessOrders DEF Through, Lists
<1>. QED  BY <1>4, <1>5, PlacesListed, LessOrders, ListsOne

(* Any way through the places gives what is picked. *)
LEMMA PickedThrough ==
  ASSUME NEW P, P \subseteq Int, NEW seq, NEW e, NEW m, Through(e, m, P)
  PROVE  Picked(P, seq) = [k \in 1..m |-> seq[e[k]]]
<1>1. Cardinality(P) = m /\ e = Places(P)
  BY ThroughOne
<1>. QED  BY <1>1, PickedIs, Zenon

(* What is picked from a sequence is in it, and in the same order. *)
LEMMA PickedFacts ==
  ASSUME NEW T, NEW seq \in Seq(T), NEW P, P \subseteq DOMAIN seq
  PROVE  /\ IsFiniteSet(P)
         /\ Through(Places(P), Cardinality(P), P)
         /\ Picked(P, seq) \in Seq(T)
         /\ Len(Picked(P, seq)) = Cardinality(P)
         /\ Cardinality(P) \in 0..Len(seq)
         /\ \A k \in 1..Cardinality(P) : /\ Places(P)[k] \in P
                                         /\ Picked(P, seq)[k] = seq[Places(P)[k]]
         /\ \A k, l \in 1..Cardinality(P) : k < l => Places(P)[k] < Places(P)[l]
         /\ \A i \in P : \E k \in 1..Cardinality(P) :
              Places(P)[k] = i /\ Picked(P, seq)[k] = seq[i]
<1>. DEFINE n == Cardinality(P)
            e == Places(P)
<1>0. Len(seq) \in Nat /\ DOMAIN seq = 1..Len(seq)
  OBVIOUS
<1>1. /\ Len(seq) \in Nat /\ DOMAIN seq = 1..Len(seq)
      /\ IsFiniteSet(1..Len(seq)) /\ Cardinality(1..Len(seq)) = Len(seq)
  BY <1>0, CountTo
<1>2. P \subseteq Int /\ IsFiniteSet(P) /\ n <= Len(seq)
  BY <1>1, FS_Subset
<1>3. n \in Nat /\ Through(e, n, P)
  BY <1>2, FS_CardinalityType, ThroughPlaces
<1>4. /\ e \in [1..n -> P]
      /\ \A k, l \in 1..n : k < l => e[k] < e[l]
      /\ \A i \in P : \E k \in 1..n : e[k] = i
  BY <1>3 DEF Through
<1>5. Picked(P, seq) = [k \in 1..n |-> seq[e[k]]]
  BY PickedIs
<1>. HIDE DEF n, e
<1>6. \A k \in 1..n : e[k] \in P /\ e[k] \in DOMAIN seq /\ seq[e[k]] \in T
  BY <1>1, <1>4
<1>7. Picked(P, seq) \in [1..n -> T]
  BY <1>5, <1>6
<1>8. Picked(P, seq) \in Seq(T) /\ Len(Picked(P, seq)) = n
  BY <1>3, <1>7
<1>9. \A i \in P : \E k \in 1..n : e[k] = i /\ Picked(P, seq)[k] = seq[i]
  BY <1>4, <1>5
<1>10. \A k \in 1..n : e[k] \in P /\ Picked(P, seq)[k] = seq[e[k]]
  BY <1>5, <1>6
<1>11. n \in 0..Len(seq)
  BY <1>1, <1>2, <1>3
<1>. QED  BY <1>2, <1>3, <1>4, <1>8, <1>9, <1>10, <1>11 DEF n, e

LEMMA PickedAll ==
  ASSUME NEW T, NEW seq \in Seq(T)
  PROVE  Picked(DOMAIN seq, seq) = seq
<1>. DEFINE m == Len(seq)
            e == [k \in 1..m |-> k]
            P == DOMAIN seq
<1>1. m \in Nat /\ P = 1..m /\ P \subseteq Int
  OBVIOUS
<1>2. Through(e, m, P)
  BY <1>1 DEF Through
<1>3. \A i \in 1..m : e[i] = i
  BY <1>1
<1>. HIDE DEF e, m, P
<1>4. Picked(P, seq) = [k \in 1..m |-> seq[e[k]]]
  <2>1. Cardinality(P) = m /\ e = Places(P)
    BY <1>1, <1>2, ThroughOne
  <2>. QED  BY <2>1, PickedIs, Zenon
<1>. USE DEF m, P
<1>5. [k \in 1..m |-> seq[e[k]]] = seq
  BY <1>1, <1>3
<1>. QED  BY <1>4, <1>5

LEMMA OnlyFacts ==
  ASSUME NEW T, NEW seq \in Seq(T), NEW S
  PROVE  /\ Only(S, seq) \in Seq(T)
         /\ Len(Only(S, seq)) \in 0..Len(seq)
         /\ ToSet(Only(S, seq)) = ToSet(seq) \cap S
         /\ ToSet(seq) \subseteq S => Only(S, seq) = seq
<1>. DEFINE P == {i \in DOMAIN seq : seq[i] \in S}
<1>1. Only(S, seq) = Picked(P, seq)
  BY DEF Only
<1>. HIDE DEF P
<1>2. P \subseteq DOMAIN seq
  BY DEF P
<1>3. Only(S, seq) \in Seq(T) /\ Len(Only(S, seq)) \in 0..Len(seq)
  BY <1>1, <1>2, PickedFacts
<1>4. ToSet(Only(S, seq)) = ToSet(seq) \cap S
  <2>1. DOMAIN Only(S, seq) = 1..Cardinality(P)
    BY <1>1, <1>2, PickedFacts
  <2>2. ASSUME NEW k \in DOMAIN Only(S, seq)
        PROVE  \E i \in P : Only(S, seq)[k] = seq[i]
    BY <1>1, <1>2, <2>1, PickedFacts
  <2>3. ASSUME NEW i \in P
        PROVE  \E k \in DOMAIN Only(S, seq) : Only(S, seq)[k] = seq[i]
    <3>1. PICK k \in 1..Cardinality(P) : Places(P)[k] = i /\ Picked(P, seq)[k] = seq[i]
      BY <1>2, PickedFacts
    <3>. QED  BY <1>1, <2>1, <3>1
  <2>. QED  BY <2>2, <2>3 DEF ToSet, P
<1>5. ASSUME ToSet(seq) \subseteq S
      PROVE  Only(S, seq) = seq
  <2>1. P = DOMAIN seq
    BY <1>5 DEF P, ToSet
  <2>. QED  BY <1>1, <2>1, PickedAll
<1>. QED  BY <1>3, <1>4, <1>5

LEMMA TopFacts ==
  ASSUME NEW T, NEW seq \in Seq(T), NEW n \in Nat
  PROVE  /\ Top(n, seq) \in Seq(T)
         /\ Len(Top(n, seq)) = IF n < Len(seq) THEN n ELSE Len(seq)
         /\ Len(Top(n, seq)) \in 0..Len(seq)
         /\ \A i \in 1..Len(Top(n, seq)) : i \in DOMAIN seq /\ Top(n, seq)[i] = seq[i]
         /\ ToSet(Top(n, seq)) \subseteq ToSet(seq)
         /\ Len(seq) <= n => Top(n, seq) = seq
<1>. DEFINE m == IF n < Len(seq) THEN n ELSE Len(seq)
<1>1. m \in 0..Len(seq) /\ Len(seq) \in Nat
  OBVIOUS
<1>2. Top(n, seq) = SubSeq(seq, 1, m)
  BY DEF Top
<1>. HIDE DEF m
<1>3. /\ Top(n, seq) \in Seq(T) /\ Len(Top(n, seq)) = m
      /\ \A i \in 1..m : i \in DOMAIN seq /\ Top(n, seq)[i] = seq[i]
  BY <1>1, <1>2
<1>4. ToSet(Top(n, seq)) \subseteq ToSet(seq)
  BY <1>3 DEF ToSet
<1>5. Len(seq) <= n => m = Len(seq)
  BY <1>1 DEF m
<1>6. SubSeq(seq, 1, Len(seq)) = seq
  OBVIOUS
<1>. QED  BY <1>1, <1>2, <1>3, <1>4, <1>5, <1>6 DEF m

LEMMA ConcatFacts ==
  ASSUME NEW T, NEW s \in Seq(T), NEW t \in Seq(T)
  PROVE  /\ s \o t \in Seq(T)
         /\ Len(s) \in Nat /\ Len(t) \in Nat /\ Len(s \o t) = Len(s) + Len(t)
         /\ DOMAIN s = 1..Len(s) /\ DOMAIN t = 1..Len(t)
         /\ DOMAIN (s \o t) = 1..(Len(s) + Len(t))
         /\ \A i \in 1..Len(s) : (s \o t)[i] = s[i]
         /\ \A k \in 1..Len(t) : (s \o t)[Len(s) + k] = t[k]
         /\ ToSet(s \o t) = ToSet(s) \cup ToSet(t)
<1>1. /\ s \o t \in Seq(T)
      /\ Len(s) \in Nat /\ Len(t) \in Nat /\ Len(s \o t) = Len(s) + Len(t)
      /\ DOMAIN s = 1..Len(s) /\ DOMAIN t = 1..Len(t)
      /\ DOMAIN (s \o t) = 1..(Len(s) + Len(t))
  OBVIOUS
<1>2. \A i \in 1..Len(s) : (s \o t)[i] = s[i]
  OBVIOUS
<1>3. \A k \in 1..Len(t) : (s \o t)[Len(s) + k] = t[k]
  <2>. SUFFICES ASSUME NEW k \in 1..Len(t) PROVE (s \o t)[Len(s) + k] = t[k]
    OBVIOUS
  <2>1. Len(s) + k \in 1..(Len(s) + Len(t)) /\ ~(Len(s) + k <= Len(s)) /\ Len(s) + k - Len(s) = k
    BY <1>1
  <2>. QED  BY <2>1, ConcatProperties
<1>4. ASSUME NEW i \in DOMAIN (s \o t)
      PROVE  (s \o t)[i] \in ToSet(s) \cup ToSet(t)
  <2>1. i \in 1..Len(s) \/ i - Len(s) \in 1..Len(t)
    BY <1>1
  <2>2. CASE i \in 1..Len(s)
    BY <1>1, <1>2, <2>2 DEF ToSet
  <2>3. CASE i - Len(s) \in 1..Len(t)
    <3>1. (s \o t)[Len(s) + (i - Len(s))] = t[i - Len(s)] /\ Len(s) + (i - Len(s)) = i
      BY <1>1, <1>3, <2>3
    <3>. QED  BY <1>1, <2>3, <3>1 DEF ToSet
  <2>. QED  BY <2>1, <2>2, <2>3
<1>5. ASSUME NEW i \in DOMAIN s
      PROVE  s[i] \in ToSet(s \o t)
  BY <1>1, <1>2 DEF ToSet
<1>6. ASSUME NEW k \in DOMAIN t
      PROVE  t[k] \in ToSet(s \o t)
  <2>1. Len(s) + k \in DOMAIN (s \o t) /\ (s \o t)[Len(s) + k] = t[k]
    BY <1>1, <1>3
  <2>. QED  BY <2>1 DEF ToSet
<1>7. ToSet(s \o t) = ToSet(s) \cup ToSet(t)
  BY <1>4, <1>5, <1>6 DEF ToSet
<1>. QED  BY <1>1, <1>2, <1>3, <1>7

-----------------------------------------------------------------------------
(* The best of a set, and lists that keep their order.                     *)

Ordered(R, seq) == \A i, j \in DOMAIN seq : i < j => <<seq[i], seq[j]>> \in R
OneEach(seq) == \A i, j \in DOMAIN seq : seq[i] = seq[j] => i = j

(* The first n of S in the order R. *)
BestOf(seq, n, R, S) ==
    /\ seq \in Seq(S) /\ Len(seq) <= n
    /\ Ordered(R, seq) /\ OneEach(seq)
    /\ \A c \in S \ ToSet(seq) : Len(seq) = n /\ \A d \in ToSet(seq) : <<d, c>> \in R
    /\ Cardinality(S) <= n => ToSet(seq) = S

LEMMA BestOfTop ==
  ASSUME NEW S, IsFiniteSet(S), NEW R, Orders(R, S), NEW list, Lists(R, S, list),
         NEW n \in Nat
  PROVE  BestOf(Top(n, list), n, R, S)
<1>. DEFINE m == Cardinality(S)
            best == Top(n, list)
<1>1. /\ m \in Nat /\ list \in [1..m -> S]
      /\ \A i, j \in 1..m : i < j => <<list[i], list[j]>> \in R
      /\ \A c \in S : \E i \in 1..m : list[i] = c
  BY RankFacts DEF Lists
<1>. HIDE DEF m
<1>2. list \in Seq(S) /\ Len(list) = m /\ DOMAIN list = 1..m
  BY <1>1
<1>3. /\ best \in Seq(S)
      /\ Len(best) = IF n < m THEN n ELSE m
      /\ \A i \in 1..Len(best) : i \in 1..m /\ best[i] = list[i]
      /\ m <= n => best = list
  BY <1>2, TopFacts
<1>. HIDE DEF best
<1>4. Len(best) <= n /\ DOMAIN best = 1..Len(best)
  BY <1>1, <1>3
<1>5. Ordered(R, best)
  BY <1>1, <1>3, <1>4 DEF Ordered
<1>6. OneEach(best)
  <2>. SUFFICES ASSUME NEW i \in 1..Len(best), NEW j \in 1..Len(best), best[i] = best[j]
                PROVE  i = j
    BY <1>4 DEF OneEach
  <2>1. best[i] \in S /\ <<best[i], best[j]>> \notin R /\ <<best[j], best[i]>> \notin R
    BY <1>3 DEF Orders
  <2>2. ~(i < j) /\ ~(j < i)
    BY <1>4, <1>5, <2>1 DEF Ordered
  <2>. QED  BY <2>2
<1>7. ASSUME NEW c \in S \ ToSet(best)
      PROVE  Len(best) = n /\ \A d \in ToSet(best) : <<d, c>> \in R
  <2>1. PICK k \in 1..m : list[k] = c
    BY <1>1
  <2>2. ~(k <= Len(best))
    <3>1. SUFFICES ASSUME k \in 1..Len(best) PROVE FALSE
      BY <1>1, <1>3
    <3>. QED  BY <1>3, <1>4, <1>7, <2>1, <3>1 DEF ToSet
  <2>3. Len(best) = n
    BY <1>1, <1>3, <2>2
  <2>4. ASSUME NEW i \in 1..Len(best)
        PROVE  <<best[i], c>> \in R
    <3>1. i \in 1..m /\ i < k /\ best[i] = list[i]
      BY <1>3, <2>2
    <3>. QED  BY <1>1, <2>1, <3>1
  <2>. QED  BY <1>4, <2>3, <2>4 DEF ToSet
<1>8. m <= n => ToSet(best) = S
  BY <1>1, <1>2, <1>3 DEF ToSet
<1>. QED  BY <1>3, <1>4, <1>5, <1>6, <1>7, <1>8 DEF BestOf, m, best

LEMMA ToSetCount ==
  ASSUME NEW T, NEW seq \in Seq(T)
  PROVE  /\ IsFiniteSet(ToSet(seq)) /\ Cardinality(ToSet(seq)) \in 0..Len(seq)
         /\ OneEach(seq) <=> Cardinality(ToSet(seq)) = Len(seq)
<1>1. /\ Len(seq) \in Nat /\ DOMAIN seq = 1..Len(seq)
      /\ seq \in [1..Len(seq) -> ToSet(seq)]
      /\ \A c \in ToSet(seq) : \E i \in 1..Len(seq) : seq[i] = c
  BY DEF ToSet
<1>2. seq \in Surjection(1..Len(seq), ToSet(seq))
  BY <1>1 DEF Surjection
<1>3. IsFiniteSet(1..Len(seq)) /\ Cardinality(1..Len(seq)) = Len(seq)
  BY <1>1, CountTo
<1>4. /\ IsFiniteSet(ToSet(seq))
      /\ Cardinality(ToSet(seq)) <= Len(seq)
      /\ Cardinality(ToSet(seq)) = Len(seq) <=> seq \in Injection(1..Len(seq), ToSet(seq))
  BY <1>2, <1>3, FS_Surjection
<1>5. OneEach(seq) <=> seq \in Injection(1..Len(seq), ToSet(seq))
  BY <1>1 DEF OneEach, Injection, IsInjective
<1>. QED  BY <1>1, <1>4, <1>5, FS_CardinalityType

LEMMA PickedOneEach ==
  ASSUME NEW T, NEW seq \in Seq(T), OneEach(seq), NEW P, P \subseteq DOMAIN seq
  PROVE  OneEach(Picked(P, seq))
<1>. DEFINE m == Cardinality(P)
            e == Places(P)
            picked == Picked(P, seq)
<1>1. /\ m \in Nat /\ DOMAIN picked = 1..m
      /\ \A k \in 1..m : e[k] \in P /\ picked[k] = seq[e[k]]
      /\ \A k, l \in 1..m : k < l => e[k] < e[l]
  BY PickedFacts
<1>2. P \subseteq Int
  OBVIOUS
<1>. HIDE DEF m, e, picked
<1>. SUFFICES ASSUME NEW k \in 1..m, NEW l \in 1..m, picked[k] = picked[l]
              PROVE  k = l
  BY <1>1 DEF OneEach, picked
<1>3. e[k] = e[l]
  BY <1>1 DEF OneEach
<1>4. e[k] \in Int
  BY <1>1, <1>2
<1>. QED  BY <1>1, <1>3, <1>4
================================================================================
