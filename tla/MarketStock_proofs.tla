------------------------ MODULE MarketStock_proofs ------------------------
(***************************************************************************)
(* Theorems of MarketStock, for any lots, sales, clerks and businesses.    *)
(* Sums over lots, sales and origins are folds; their laws come first, by  *)
(* induction on finite sets, then what keeps each property.                *)
(***************************************************************************)
EXTENDS MarketStock, FiniteSetTheorems, WellFoundedInduction, TLAPS

-----------------------------------------------------------------------------
(* Adding up *)

\* Natural numbers that hold zero and every successor are all of them.
LEMMA Naturals ==
    ASSUME NEW P \in SUBSET Nat, 0 \in P, \A n \in P : n + 1 \in P
    PROVE  P = Nat
  <1>1. SUFFICES ASSUME Nat \ P # {} PROVE FALSE
    OBVIOUS
  <1>2. PICK n \in Nat \ P : \A m \in Nat \ P : ~(<<m, n>> \in OpToRel(<, Nat))
    <2>1. Nat \ P \subseteq Nat /\ Nat \ P # {}
      BY <1>1
    <2> QED  BY <2>1, NatLessThanWellFounded, WFMin, Zenon
  <1>3. n # 0 /\ n - 1 \in Nat /\ n - 1 \notin P
    <2>1. n \in Nat /\ n \notin P /\ n # 0
      OBVIOUS
    <2>2. n - 1 \in Nat /\ (n - 1) + 1 = n
      BY <2>1
    <2> QED  BY <2>1, <2>2
  <1>4. <<n - 1, n>> \in OpToRel(<, Nat)
    BY <1>3 DEF OpToRel
  <1> QED  BY <1>2, <1>3, <1>4

\* What holds of the empty set, and of a set when it holds of what is left
\* without one of its elements, holds of all subsets of a finite set.
LEMMA Subsets ==
    ASSUME NEW S, IsFiniteSet(S), NEW G \in SUBSET (SUBSET S), {} \in G,
           \A s \in SUBSET S : s # {} => \E x \in s : s \ {x} \in G => s \in G
    PROVE  G = SUBSET S
  <1>1. \A t \in SUBSET S : /\ IsFiniteSet(t) /\ Cardinality(t) \in Nat
                            /\ Cardinality(t) = 0 <=> t = {}
                            /\ \A x \in t : Cardinality(t \ {x}) = Cardinality(t) - 1
    BY FS_Subset, FS_CardinalityType, FS_EmptySet, FS_RemoveElement
  <1> DEFINE P == {n \in Nat : \A t \in SUBSET S : Cardinality(t) = n => t \in G}
  <1>2. 0 \in P
    BY <1>1
  <1>3. ASSUME NEW n \in P PROVE n + 1 \in P
    <2> SUFFICES ASSUME NEW t \in SUBSET S, Cardinality(t) = n + 1
                 PROVE  t \in G
      OBVIOUS
    <2>1. t # {}
      BY <1>1
    <2>2. PICK x \in t : t \ {x} \in G => t \in G
      BY <2>1
    <2>3. t \ {x} \in SUBSET S /\ Cardinality(t \ {x}) = n
      BY <1>1
    <2> QED  BY <2>2, <2>3
  <1> HIDE DEF P
  <1>4. P = Nat
    BY <1>2, <1>3, Naturals DEF P
  <1> QED  BY <1>1, <1>4 DEF P

\* The element a sum begins with.
Any(s) == CHOOSE x \in s : TRUE

LEMMA AnyIn == ASSUME NEW s, s # {} PROVE Any(s) \in s
  BY DEF Any

\* g is the table of the sums of f over the subsets of S.
Tables(g, f, S) ==
    g = [s \in SUBSET S |-> IF s = {} THEN 0 ELSE f[Any(s)] + g[s \ {Any(s)}]]

\* The same for subsets of at most n elements.
TablesUpTo(g, f, S, n) ==
    g = [s \in {t \in SUBSET S : Cardinality(t) <= n} |->
            IF s = {} THEN 0 ELSE f[Any(s)] + g[s \ {Any(s)}]]

LEMMA TableExists ==
    ASSUME NEW f, NEW S, IsFiniteSet(S)
    PROVE  \E g : Tables(g, f, S)
  <1> DEFINE P == {n \in Nat : \E g : TablesUpTo(g, f, S, n)}
  <1>1. \A t \in SUBSET S : /\ IsFiniteSet(t) /\ Cardinality(t) \in Nat
                            /\ Cardinality(t) <= Cardinality(S)
                            /\ Cardinality(t) = 0 <=> t = {}
                            /\ \A x \in t : Cardinality(t \ {x}) = Cardinality(t) - 1
    BY FS_Subset, FS_CardinalityType, FS_EmptySet, FS_RemoveElement
  <1>2. 0 \in P
    <2> DEFINE g == [s \in {t \in SUBSET S : Cardinality(t) <= 0} |-> 0]
    <2>1. \A s \in {t \in SUBSET S : Cardinality(t) <= 0} : s = {}
      BY <1>1
    <2>2. g = [s \in {t \in SUBSET S : Cardinality(t) <= 0} |->
              IF s = {} THEN 0 ELSE f[Any(s)] + g[s \ {Any(s)}]]
      BY <2>1
    <2> HIDE DEF g
    <2> QED  BY <2>2 DEF TablesUpTo
  <1>3. ASSUME NEW n \in P PROVE n + 1 \in P
    <2>1. PICK g : TablesUpTo(g, f, S, n)
      OBVIOUS
    <2> DEFINE D == {t \in SUBSET S : Cardinality(t) <= n}
               E == {t \in SUBSET S : Cardinality(t) <= n + 1}
               h == [s \in E |-> IF s = {} THEN 0 ELSE f[Any(s)] + g[s \ {Any(s)}]]
    <2>2. \A s \in D : g[s] = IF s = {} THEN 0 ELSE f[Any(s)] + g[s \ {Any(s)}]
      BY <2>1 DEF TablesUpTo
    <2>3. \A s \in E : s # {} => s \ {Any(s)} \in D
      BY <1>1, AnyIn
    <2>4. \A s \in D : s \in E /\ h[s] = g[s]
      BY <1>1, <2>2
    <2>5. h = [s \in E |-> IF s = {} THEN 0 ELSE f[Any(s)] + h[s \ {Any(s)}]]
      BY <2>3, <2>4
    <2> HIDE DEF h
    <2>6. TablesUpTo(h, f, S, n + 1)
      BY <2>5, Zenon DEF TablesUpTo
    <2>7. n + 1 \in Nat
      OBVIOUS
    <2> QED  BY <2>6, <2>7
  <1> HIDE DEF P
  <1>4. P = Nat
    BY <1>2, <1>3, Naturals DEF P
  <1>5. PICK g : TablesUpTo(g, f, S, Cardinality(S))
    BY <1>1, <1>4 DEF P
  <1>6. {t \in SUBSET S : Cardinality(t) <= Cardinality(S)} = SUBSET S
    BY <1>1
  <1> QED  BY <1>5, <1>6 DEF TablesUpTo, Tables

Table(f, S) == CHOOSE g : Tables(g, f, S)

LEMMA TotalIsTabled == ASSUME NEW f PROVE Total(f) = Table(f, DOMAIN f)[DOMAIN f]
  BY DEF Total, MapThenSumSet, MapThenFoldSet, Table, Tables, Any

Unfolds(g, f, S) ==
    \A s \in SUBSET S : g[s] = IF s = {} THEN 0 ELSE f[Any(s)] + g[s \ {Any(s)}]

LEMMA TableUnfolds ==
    ASSUME NEW f, NEW S, IsFiniteSet(S)
    PROVE  Unfolds(Table(f, S), f, S)
  <1>1. Tables(Table(f, S), f, S)
    BY TableExists DEF Table
  <1> QED  BY <1>1 DEF Tables, Unfolds

\* A table depends on the values of f only.
LEMMA TablesAgree ==
    ASSUME NEW S, IsFiniteSet(S), NEW T, IsFiniteSet(T), T \subseteq S,
           NEW f \in [S -> Int], NEW h \in [T -> Int], \A x \in T : h[x] = f[x]
    PROVE  \A s \in SUBSET T : Table(h, T)[s] = Table(f, S)[s]
  <1> DEFINE u == Table(h, T)
             v == Table(f, S)
             G == {s \in SUBSET T : u[s] = v[s]}
  <1>5. Unfolds(u, h, T) /\ Unfolds(v, f, S)
    BY TableUnfolds, Zenon
  <1> HIDE DEF u, v
  <1>1. {} \in G
    <2>1. {} \in SUBSET T /\ {} \in SUBSET S
      OBVIOUS
    <2>2. u[{}] = 0 /\ v[{}] = 0
      BY <2>1, <1>5 DEF Unfolds
    <2> QED  BY <2>1, <2>2
  <1>2. ASSUME NEW s \in SUBSET T, s # {}
        PROVE  \E x \in s : s \ {x} \in G => s \in G
    <2>1. Any(s) \in s
      BY <1>2, AnyIn
    <2> DEFINE a == Any(s)
    <2>2. u[s] = h[a] + u[s \ {a}] /\ v[s] = f[a] + v[s \ {a}] /\ h[a] = f[a]
      BY <1>2, <1>5, <2>1 DEF Unfolds
    <2> HIDE DEF a
    <2> QED  BY <2>1, <2>2 DEF a
  <1> HIDE DEF G
  <1>3. G \in SUBSET (SUBSET T)
    BY DEF G
  <1>4. G = SUBSET T
    BY <1>1, <1>2, <1>3, Subsets
  <1> QED  BY <1>4 DEF G, u, v

LEMMA TableIsInt ==
    ASSUME NEW S, IsFiniteSet(S), NEW f \in [S -> Int]
    PROVE  \A s \in SUBSET S : Table(f, S)[s] \in Int
  <1> DEFINE g == Table(f, S)
             G == {s \in SUBSET S : g[s] \in Int}
  <1>5. \A s \in SUBSET S : g[s] = IF s = {} THEN 0 ELSE f[Any(s)] + g[s \ {Any(s)}]
    BY TableUnfolds DEF Unfolds
  <1> HIDE DEF g
  <1>1. {} \in G
    <2>1. {} \in SUBSET S /\ g[{}] = 0
      BY <1>5
    <2> QED  BY <2>1
  <1>2. ASSUME NEW s \in SUBSET S, s # {}
        PROVE  \E x \in s : s \ {x} \in G => s \in G
    <2>1. Any(s) \in s
      BY <1>2, AnyIn
    <2> DEFINE a == Any(s)
    <2>2. g[s] = f[a] + g[s \ {a}] /\ f[a] \in Int
      BY <1>2, <1>5, <2>1
    <2> HIDE DEF a
    <2>3. g[s \ {a}] \in Int => g[s] \in Int
      BY <2>2
    <2> QED  BY <2>1, <2>3 DEF a
  <1> HIDE DEF G
  <1>3. G \in SUBSET (SUBSET S)
    BY DEF G
  <1>4. G = SUBSET S
    BY <1>1, <1>2, <1>3, Subsets
  <1> QED  BY <1>4 DEF G, g

\* The order does not matter: any element may come first.
LEMMA TableOfAny ==
    ASSUME NEW S, IsFiniteSet(S), NEW f \in [S -> Int]
    PROVE  \A s \in SUBSET S : \A x \in s : Table(f, S)[s] = f[x] + Table(f, S)[s \ {x}]
  <1> DEFINE g == Table(f, S)
  <1>1. \A s \in SUBSET S : g[s] = IF s = {} THEN 0 ELSE f[Any(s)] + g[s \ {Any(s)}]
    BY TableUnfolds DEF Unfolds
  <1>2. \A s \in SUBSET S : g[s] \in Int
    BY TableIsInt
  <1> HIDE DEF g
  <1> DEFINE C == {n \in Nat : \A s \in SUBSET S : Cardinality(s) = n =>
                                    \A x \in s : g[s] = f[x] + g[s \ {x}]}
  <1>4. \A t \in SUBSET S : /\ IsFiniteSet(t) /\ Cardinality(t) \in Nat
                            /\ Cardinality(t) = 0 <=> t = {}
                            /\ \A x \in t : Cardinality(t \ {x}) = Cardinality(t) - 1
    BY FS_Subset, FS_CardinalityType, FS_EmptySet, FS_RemoveElement
  <1>5. 0 \in C
    BY <1>4
  <1>6. ASSUME NEW n \in C PROVE n + 1 \in C
    <2> SUFFICES ASSUME NEW s \in SUBSET S, Cardinality(s) = n + 1, NEW x \in s
                 PROVE  g[s] = f[x] + g[s \ {x}]
      OBVIOUS
    <2> DEFINE a == Any(s)
    <2>1. a \in s /\ g[s] = f[a] + g[s \ {a}]
      BY <1>1, AnyIn
    <2> HIDE DEF a
    <2>2. CASE x = a
      <3>1. s \ {x} = s \ {a} /\ f[x] = f[a]
        BY <2>2
      <3> QED  BY <2>1, <3>1
    <2>3. CASE x # a
      <3>1. /\ Cardinality(s \ {a}) = n /\ Cardinality(s \ {x}) = n
            /\ x \in s \ {a} /\ a \in s \ {x}
        BY <1>4, <2>1, <2>3
      <3>2. g[s \ {a}] = f[x] + g[(s \ {a}) \ {x}]
        BY <3>1
      <3>3. g[s \ {x}] = f[a] + g[(s \ {x}) \ {a}]
        BY <3>1
      <3>4. (s \ {a}) \ {x} = (s \ {x}) \ {a}
        OBVIOUS
      <3> DEFINE r == g[(s \ {a}) \ {x}]
      <3>5. r \in Int /\ f[a] \in Int /\ f[x] \in Int
        BY <1>2, <2>1
      <3>6. g[s \ {a}] = f[x] + r /\ g[s \ {x}] = f[a] + r
        BY <3>2, <3>3, <3>4
      <3> HIDE DEF r
      <3>7. g[s] = f[a] + (f[x] + r)
        BY <2>1, <3>6
      <3> QED  BY <3>5, <3>6, <3>7
    <2> QED  BY <2>2, <2>3, Zenon
  <1> HIDE DEF C
  <1>7. C = Nat
    BY <1>5, <1>6, Naturals DEF C
  <1> QED  BY <1>4, <1>7 DEF C, g

\* Entries of zero do not count.
LEMMA TableOfSome ==
    ASSUME NEW S, IsFiniteSet(S), NEW f \in [S -> Int], NEW T \in SUBSET S,
           \A x \in S \ T : f[x] = 0
    PROVE  Table(f, S)[S] = Table(f, S)[T]
  <1> DEFINE g == Table(f, S)
             G == {s \in SUBSET S : g[s] = g[s \cap T]}
  <1>1. \A s \in SUBSET S : \A x \in s : g[s] = f[x] + g[s \ {x}]
    BY TableOfAny
  <1>2. \A s \in SUBSET S : g[s] \in Int
    BY TableIsInt
  <1> HIDE DEF g
  <1>3. {} \in G
    OBVIOUS
  <1>4. ASSUME NEW s \in SUBSET S, s # {}
        PROVE  \E x \in s : s \ {x} \in G => s \in G
    <2>1. CASE s \subseteq T
      <3>1. s \cap T = s
        BY <2>1
      <3> QED  BY <1>4, <3>1
    <2>2. CASE ~(s \subseteq T)
      <3>1. PICK x \in s : x \notin T
        BY <2>2
      <3>2. (s \ {x}) \cap T = s \cap T
        BY <3>1
      <3>3. g[s] = f[x] + g[s \ {x}] /\ f[x] = 0
        BY <1>1, <3>1
      <3>4. g[s \ {x}] \in Int
        BY <1>2
      <3>5. g[s] = g[s \ {x}]
        BY <3>3, <3>4
      <3>6. s \ {x} \in G => g[s] = g[s \cap T]
        BY <3>2, <3>5
      <3> QED  BY <3>6
    <2> QED  BY <2>1, <2>2
  <1> HIDE DEF G
  <1>5. G \in SUBSET (SUBSET S)
    BY DEF G
  <1>6. G = SUBSET S
    BY <1>3, <1>4, <1>5, Subsets
  <1>7. g[S] = g[S \cap T] /\ S \cap T = T
    BY <1>6 DEF G
  <1> QED  BY <1>7 DEF g

LEMMA TotalIsInt ==
    ASSUME NEW S, IsFiniteSet(S), NEW f \in [S -> Int]
    PROVE  Total(f) \in Int
  <1>1. DOMAIN f = S
    OBVIOUS
  <1> QED  BY <1>1, TotalIsTabled, TableIsInt

LEMMA TotalOfSome ==
    ASSUME NEW S, IsFiniteSet(S), NEW f \in [S -> Int],
           NEW T \in SUBSET S, NEW h \in [T -> Int],
           \A x \in T : h[x] = f[x], \A x \in S \ T : f[x] = 0
    PROVE  Total(f) = Total(h)
  <1>1. IsFiniteSet(T)
    BY FS_Subset
  <1>2. Total(f) = Table(f, S)[S] /\ Total(h) = Table(h, T)[T]
    BY TotalIsTabled
  <1>3. Table(f, S)[S] = Table(f, S)[T]
    BY TableOfSome
  <1>4. Table(h, T)[T] = Table(f, S)[T]
    BY <1>1, TablesAgree
  <1> QED  BY <1>2, <1>3, <1>4

LEMMA TotalOfNothing ==
    ASSUME NEW S, IsFiniteSet(S), NEW f \in [S -> Int], \A x \in S : f[x] = 0
    PROVE  Total(f) = 0
  <1>1. Total(f) = Table(f, S)[S]
    BY TotalIsTabled
  <1>2. Table(f, S)[S] = Table(f, S)[{}]
    BY TableOfSome
  <1>3. Table(f, S)[{}] = 0
    BY TableUnfolds DEF Unfolds
  <1> QED  BY <1>1, <1>2, <1>3

\* The sum of a function that is zero but at one point.
LEMMA TotalOfOne ==
    ASSUME NEW S, IsFiniteSet(S), NEW f \in [S -> Int], NEW a \in S,
           \A x \in S \ {a} : f[x] = 0
    PROVE  Total(f) = f[a]
  <1>1. Total(f) = Table(f, S)[S]
    BY TotalIsTabled
  <1>2. Table(f, S)[S] = Table(f, S)[{a}]
    BY TableOfSome
  <1> DEFINE g == Table(f, S)
  <1>3. \A s \in SUBSET S : \A x \in s : g[s] = f[x] + g[s \ {x}]
    BY TableOfAny
  <1>4. Unfolds(g, f, S)
    BY TableUnfolds
  <1> HIDE DEF g
  <1>5. {a} \ {a} = {} /\ g[{}] = 0
    BY <1>4 DEF Unfolds
  <1>6. g[{a}] = f[a] + g[{}]
    BY <1>3, <1>5
  <1> QED  BY <1>1, <1>2, <1>5, <1>6 DEF g

LEMMA TotalAdds ==
    ASSUME NEW S, IsFiniteSet(S), NEW f \in [S -> Int], NEW g \in [S -> Int],
           NEW h \in [S -> Int], \A x \in S : h[x] = f[x] + g[x]
    PROVE  Total(h) = Total(f) + Total(g)
  <1> DEFINE u == Table(f, S)
             v == Table(g, S)
             w == Table(h, S)
             G == {s \in SUBSET S : w[s] = u[s] + v[s]}
  <1>1. Unfolds(u, f, S) /\ Unfolds(v, g, S) /\ Unfolds(w, h, S)
    BY TableUnfolds, Zenon
  <1>2. \A s \in SUBSET S : u[s] \in Int /\ v[s] \in Int
    BY TableIsInt
  <1>3. Total(f) = u[S] /\ Total(g) = v[S] /\ Total(h) = w[S]
    BY TotalIsTabled
  <1> HIDE DEF u, v, w
  <1>4. {} \in G
    <2>1. {} \in SUBSET S
      OBVIOUS
    <2>2. u[{}] = 0 /\ v[{}] = 0 /\ w[{}] = 0
      BY <2>1, <1>1 DEF Unfolds
    <2> QED  BY <2>1, <2>2
  <1>5. ASSUME NEW s \in SUBSET S, s # {}
        PROVE  \E x \in s : s \ {x} \in G => s \in G
    <2>1. Any(s) \in s
      BY <1>5, AnyIn
    <2> DEFINE a == Any(s)
    <2>2. u[s] = f[a] + u[s \ {a}] /\ v[s] = g[a] + v[s \ {a}] /\ w[s] = h[a] + w[s \ {a}]
      BY <1>5, <1>1, <2>1 DEF Unfolds
    <2>3. a \in S
      BY <2>1
    <2> HIDE DEF a
    <2>4. f[a] \in Int /\ g[a] \in Int /\ h[a] = f[a] + g[a]
      BY <2>3
    <2>5. u[s \ {a}] \in Int /\ v[s \ {a}] \in Int
      BY <1>2
    <2>6. w[s \ {a}] = u[s \ {a}] + v[s \ {a}] => w[s] = u[s] + v[s]
      BY <2>2, <2>4, <2>5
    <2> QED  BY <2>1, <2>6 DEF a
  <1> HIDE DEF G
  <1>6. G \in SUBSET (SUBSET S)
    BY DEF G
  <1>7. G = SUBSET S
    BY <1>4, <1>5, <1>6, Subsets
  <1> QED  BY <1>3, <1>7 DEF G

\* One entry changes.
LEMMA TotalChanges ==
    ASSUME NEW S, IsFiniteSet(S), NEW f \in [S -> Int], NEW h \in [S -> Int], NEW a \in S,
           \A x \in S \ {a} : h[x] = f[x]
    PROVE  Total(h) = Total(f) + (h[a] - f[a])
  <1> DEFINE d == [x \in S |-> IF x = a THEN h[a] - f[a] ELSE 0]
  <1>1. d[a] = h[a] - f[a]
    OBVIOUS
  <1>6. d \in [S -> Int]
    OBVIOUS
  <1>2. \A x \in S \ {a} : d[x] = 0
    OBVIOUS
  <1>3. \A x \in S : h[x] = f[x] + d[x]
    OBVIOUS
  <1> HIDE DEF d
  <1>4. Total(d) = d[a]
    BY <1>6, <1>2, TotalOfOne
  <1>5. Total(h) = Total(f) + Total(d)
    BY <1>6, <1>3, TotalAdds, Zenon
  <1> QED  BY <1>1, <1>4, <1>5

LEMMA TotalBounds ==
    ASSUME NEW S, IsFiniteSet(S), NEW f \in [S -> Nat]
    PROVE  Total(f) \in Nat /\ \A x \in S : f[x] <= Total(f)
  <1>1. f \in [S -> Int]
    OBVIOUS
  <1> DEFINE g == Table(f, S)
             G == {s \in SUBSET S : g[s] \in Nat}
  <1>2. \A s \in SUBSET S : \A x \in s : g[s] = f[x] + g[s \ {x}]
    BY <1>1, TableOfAny
  <1>3. Unfolds(g, f, S)
    BY TableUnfolds
  <1>4. Total(f) = g[S]
    BY TotalIsTabled
  <1> HIDE DEF g
  <1>5. {} \in G
    <2>1. {} \in SUBSET S
      OBVIOUS
    <2>2. g[{}] = 0
      BY <2>1, <1>3 DEF Unfolds
    <2> QED  BY <2>1, <2>2
  <1>6. ASSUME NEW s \in SUBSET S, s # {}
        PROVE  \E x \in s : s \ {x} \in G => s \in G
    <2>1. PICK x \in s : TRUE
      BY <1>6
    <2>2. g[s] = f[x] + g[s \ {x}] /\ f[x] \in Nat
      BY <1>2
    <2>3. g[s \ {x}] \in Nat => g[s] \in Nat
      BY <2>2
    <2> QED  BY <2>3
  <1> HIDE DEF G
  <1>7. G \in SUBSET (SUBSET S)
    BY DEF G
  <1>8. G = SUBSET S
    BY <1>5, <1>6, <1>7, Subsets
  <1>9. \A s \in SUBSET S : g[s] \in Nat
    BY <1>8 DEF G
  <1>10. ASSUME NEW x \in S PROVE f[x] <= g[S]
    <2>1. g[S] = f[x] + g[S \ {x}]
      BY <1>2
    <2>2. g[S \ {x}] \in Nat /\ f[x] \in Nat
      BY <1>9
    <2> QED  BY <2>1, <2>2
  <1> QED  BY <1>4, <1>9, <1>10

-----------------------------------------------------------------------------
(* Lots *)

\* A lot that was received has units, a closed one none, and what a customer
\* has of a lot is in its journal.
LotsKept ==
    /\ \A l \in Lots : Exists(l) => lot[l].got > 0
    /\ \A l \in Lots : ~Exists(l) => left[l] = 0 /\ closed[l] = "open"
    /\ \A l \in Lots : closed[l] # "open" => left[l] = 0
    /\ \A l \in Lots : closed[l] = "reversed" =>
          journal[l]["release"] = 0 /\ journal[l]["transfer_physical"] = 0
    /\ \A l \in Lots, s \in Sales : sold[s][l] > 0 => journal[l]["release"] > 0

Inv == TypeOK /\ LotsKept

\* The part of the types that concerns lots and their journal.
LotsTyped ==
    /\ lot \in [Lots -> LotRows]
    /\ left \in [Lots -> Nat]
    /\ closed \in [Lots -> Reasons]
    /\ journal \in [Lots -> [Types -> Nat]]

-----------------------------------------------------------------------------
LEMMA Bounds == {MaxLots, MaxSales, MaxUnits, MaxCounter, MaxPack, MaxDay} \subseteq Nat
  BY MarketAssumption

LEMMA DatesType == TypeOK => Dates \subseteq Days
  BY Bounds DEF TypeOK, Dates, Days

LEMMA Words ==
    /\ {"release", "transfer_physical", "expiry", "reversal"} = Types
    /\ {"open", "released", "transferred_physical", "expired", "reversed"} = Reasons
  BY DEF Types, Reasons

(***************************************************************************)
(* Batches and pieces.                                                     *)
(***************************************************************************)
LEMMA PacksAre == Packs \subseteq Nat \ {0}
  BY Bounds DEF Packs

LEMMA Packing ==
    ASSUME NEW n \in Nat, NEW p \in Nat \ {0}
    PROVE  Packed(n, p) \in Lines /\ Units(Packed(n, p), p) = n
  <1>1. n \div p \in Nat /\ n % p \in Nat
    OBVIOUS
  <1>2. n = p * (n \div p) + (n % p)
    OBVIOUS
  <1> QED  BY <1>1, <1>2 DEF Packed, Units, Lines

LEMMA UnitsAre ==
    ASSUME NEW row \in Lines, NEW p \in Nat
    PROVE  Units(row, p) \in Nat
  BY DEF Units, Lines

LEMMA NoUnitsAre ==
    ASSUME NEW p \in Nat
    PROVE  NoUnits \in Lines /\ Units(NoUnits, p) = 0
  BY DEF NoUnits, Units, Lines

LEMMA ShelfLinesAre ==
    /\ ShelfLines = {Shelf, SecondLine} /\ Shelf # SecondLine
    /\ \A o \in ShelfLines : o \notin Lots
    /\ ShelfLines \subseteq Origins /\ Lots \subseteq Origins
  BY Bounds DEF ShelfLines, Shelf, SecondLine, Origins, Lots

\* What a new sale writes.
LEMMA Entering ==
    ASSUME TypeOK, NEW s \in Sales, NEW rows, NEW units, NEW S \in SUBSET Origins,
           DOMAIN rows = S, DOMAIN units = S,
           \A o \in S : rows[o] \in Lines /\ units[o] \in Nat,
           Enter(s, rows, units)
    PROVE  /\ line' \in [Sales -> [Origins -> Lines]]
           /\ sold' \in [Sales -> [Origins -> Nat]]
           /\ UNCHANGED <<returned, scrapped>>
           /\ \A r \in Sales, o \in Origins :
                 /\ line'[r][o] = IF r # s THEN line[r][o] ELSE IF o \in S THEN rows[o] ELSE NoUnits
                 /\ sold'[r][o] = IF r # s THEN sold[r][o] ELSE IF o \in S THEN units[o] ELSE 0
  <1> DEFINE lineRow == [o \in Origins |-> IF o \in S THEN rows[o] ELSE NoUnits]
             soldRow == [o \in Origins |-> IF o \in S THEN units[o] ELSE 0]
  <1>1. NoUnits \in Lines
    BY NoUnitsAre
  <1>2. lineRow \in [Origins -> Lines] /\ soldRow \in [Origins -> Nat]
    BY <1>1
  <1>3. /\ line' = [line EXCEPT ![s] = lineRow]
        /\ sold' = [sold EXCEPT ![s] = soldRow]
        /\ UNCHANGED <<returned, scrapped>>
    BY DEF Enter
  <1>4. \A o \in Origins : /\ lineRow[o] = IF o \in S THEN rows[o] ELSE NoUnits
                           /\ soldRow[o] = IF o \in S THEN units[o] ELSE 0
    OBVIOUS
  <1> HIDE DEF lineRow, soldRow
  <1>5. line \in [Sales -> [Origins -> Lines]] /\ sold \in [Sales -> [Origins -> Nat]]
    BY DEF TypeOK
  <1>6. \A r \in Sales : /\ line'[r] = IF r # s THEN line[r] ELSE lineRow
                         /\ sold'[r] = IF r # s THEN sold[r] ELSE soldRow
    BY <1>3, <1>5
  <1>7. line' \in [Sales -> [Origins -> Lines]] /\ sold' \in [Sales -> [Origins -> Nat]]
    BY <1>2, <1>3, <1>5
  <1> QED  BY <1>3, <1>4, <1>6, <1>7

LEMMA InitInv == Init => Inv
  <1> SUFFICES ASSUME Init PROVE Inv  OBVIOUS
  <1>1. TypeOK
    <2>1. 0 \in Days /\ Never \in 0 .. Never
      BY Bounds DEF Days, Never
    <2>2. lot \in [Lots -> LotRows] /\ closed \in [Lots -> Reasons]
      BY <2>1 DEF Init, LotRows, Reasons
    <2>3. house \in Houses /\ day \in Days /\ clerk \in [Clerks -> {Idle} \cup Requests] /\ editing = Idle
      BY <2>1 DEF Init
    <2>4. journal \in [Lots -> [Types -> Nat]] /\ left \in [Lots -> Nat]
      BY DEF Init
    <2>5. /\ line \in [Sales -> [Origins -> Lines]]
          /\ sold \in [Sales -> [Origins -> Nat]] /\ returned \in [Sales -> [Origins -> Nat]]
      BY NoUnitsAre DEF Init
    <2>6. scrapped = 0 /\ shelf = 0 /\ allowance = 0 /\ pack \in Packs
      BY <2>3, MarketAssumption DEF Init
    <2>7. counter \in Counters
      BY DEF Init, Counters
    <2> QED  BY <2>2, <2>3, <2>4, <2>5, <2>6, <2>7 DEF TypeOK
  <1>2. LotsKept
    BY ShelfLinesAre DEF Init, LotsKept, Exists, Types
  <1> QED  BY <1>1, <1>2 DEF Inv

(***************************************************************************)
(* A movement out of lots that are open and have it keeps the lots.        *)
(***************************************************************************)
LEMMA Takes ==
    ASSUME NEW taken \in Takings, NEW n, NEW d, Fefo(taken, n, d)
    PROVE  /\ taken \in [Lots -> Nat]
           /\ \A l \in Lots : taken[l] <= left[l]
           /\ \A l \in Lots : taken[l] > 0 => closed[l] = "open" /\ Exists(l) /\ lot[l].expiry >= d
  <1>1. taken \in [Lots -> Nat]
    BY Bounds DEF Takings
  <1>2. \A l \in Lots : taken[l] <= left[l] /\ (taken[l] > 0 => SellableOn(l, d))
    BY DEF Fefo
  <1> QED  BY <1>1, <1>2 DEF SellableOn, Active

LEMMA Drawing ==
    ASSUME Inv, NEW taken \in [Lots -> Nat], NEW reason \in Reasons, NEW t \in Types,
           \A l \in Lots : taken[l] <= left[l],
           Draw(taken, reason), journal' = Journalled(taken, t)
    PROVE  /\ LotsTyped'
           /\ lot' = lot
           /\ \A l \in Lots :
                 /\ left'[l] = left[l] - taken[l]
                 /\ closed'[l] = IF taken[l] > 0 /\ taken[l] = left[l] THEN reason ELSE closed[l]
                 /\ \A u \in Types :
                       journal'[l][u] = IF u = t THEN journal[l][u] + taken[l] ELSE journal[l][u]
  <1>1. LotsTyped
    BY DEF Inv, TypeOK, LotsTyped
  <1>2. ASSUME NEW l \in Lots
        PROVE  /\ journal[l] \in [Types -> Nat]
               /\ taken[l] \in Nat
               /\ left[l] - taken[l] \in Nat
    BY <1>1 DEF LotsTyped
  <1>3. left' \in [Lots -> Nat] /\ closed' \in [Lots -> Reasons] /\ lot' = lot
    BY <1>1, <1>2 DEF Draw, LotsTyped
  <1>4. \A l \in Lots : journal'[l] = [journal[l] EXCEPT ![t] = @ + taken[l]]
    BY DEF Journalled
  <1>5. ASSUME NEW l \in Lots PROVE journal'[l] \in [Types -> Nat]
    <2>1. journal'[l] = [journal[l] EXCEPT ![t] = @ + taken[l]]
      BY <1>4
    <2>2. journal[l] \in [Types -> Nat] /\ taken[l] \in Nat
      BY <1>2
    <2> QED  BY <2>1, <2>2
  <1>6. journal' \in [Lots -> [Types -> Nat]]
    BY <1>5 DEF Journalled
  <1>7. \A l \in Lots, u \in Types :
          journal'[l][u] = IF u = t THEN journal[l][u] + taken[l] ELSE journal[l][u]
    BY <1>2, <1>4
  <1>8. \A l \in Lots :
          /\ left'[l] = left[l] - taken[l]
          /\ closed'[l] = IF taken[l] > 0 /\ taken[l] = left[l] THEN reason ELSE closed[l]
    BY DEF Draw
  <1> QED  BY <1>1, <1>3, <1>6, <1>7, <1>8 DEF LotsTyped

LEMMA DrawingKeepsLots ==
    ASSUME Inv, NEW taken \in [Lots -> Nat], NEW reason \in Reasons, NEW t \in Types,
           \A l \in Lots : taken[l] <= left[l],
           Draw(taken, reason), journal' = Journalled(taken, t),
           \A l \in Lots, s \in Sales :
              sold'[s][l] = sold[s][l] \/ (t = "release" /\ sold'[s][l] = taken[l]),
           reason = "reversed" =>
              /\ t = "reversal"
              /\ \A l \in Lots : taken[l] > 0 => \A u \in Types : journal[l][u] = 0
    PROVE  LotsTyped' /\ LotsKept'
  <1>1. \A l \in Lots : left[l] \in Nat /\ taken[l] \in Nat
    BY DEF Inv, TypeOK
  <1>12. \A l \in Lots, u \in Types : journal[l][u] \in Nat
    BY DEF Inv, TypeOK
  <1>13. ASSUME NEW l \in Lots, left[l] = 0 PROVE taken[l] = 0
    BY <1>1, <1>13
  <1>2. \A l \in Lots :
          /\ left'[l] = left[l] - taken[l]
          /\ closed'[l] = IF taken[l] > 0 /\ taken[l] = left[l] THEN reason ELSE closed[l]
    BY Drawing
  <1>10. \A l \in Lots, u \in Types :
          journal'[l][u] = IF u = t THEN journal[l][u] + taken[l] ELSE journal[l][u]
    BY Drawing
  <1>3. LotsTyped' /\ lot' = lot
    BY Drawing
  <1>4. "release" \in Types /\ "transfer_physical" \in Types /\ "reversal" \in Types
    BY Words
  <1>5. \A l \in Lots : Exists(l)' => lot'[l].got > 0
    BY <1>3 DEF Inv, LotsKept, Exists
  <1>11. \A l \in Lots : /\ ~Exists(l) => left[l] = 0 /\ closed[l] = "open"
                         /\ closed[l] # "open" => left[l] = 0
    BY DEF Inv, LotsKept
  <1>6. \A l \in Lots : ~Exists(l)' => left'[l] = 0 /\ closed'[l] = "open"
    <2> SUFFICES ASSUME NEW l \in Lots, ~Exists(l)' PROVE left'[l] = 0 /\ closed'[l] = "open"
      OBVIOUS
    <2>1. ~Exists(l)
      BY <1>3 DEF Exists
    <2>2. left[l] = 0 /\ closed[l] = "open"
      BY <2>1, <1>11
    <2>3. taken[l] = 0
      BY <2>2, <1>13
    <2>4. closed'[l] = closed[l]
      BY <2>3, <1>2
    <2>5. left'[l] = left[l] - taken[l]
      BY <1>2
    <2>6. left'[l] = 0
      BY <2>2, <2>3, <2>5
    <2> QED  BY <2>2, <2>4, <2>6
  <1>7. \A l \in Lots : closed'[l] # "open" => left'[l] = 0
    <2> SUFFICES ASSUME NEW l \in Lots, closed'[l] # "open" PROVE left'[l] = 0
      OBVIOUS
    <2>1. left'[l] = left[l] - taken[l] /\ left[l] \in Nat /\ taken[l] \in Nat /\ taken[l] <= left[l]
      BY <1>1, <1>2
    <2>2. CASE taken[l] > 0 /\ taken[l] = left[l]
      BY <2>1, <2>2
    <2>3. CASE ~(taken[l] > 0 /\ taken[l] = left[l])
      <3>1. left[l] = 0
        BY <2>3, <1>2, <1>11
      <3> QED  BY <2>1, <3>1
    <2> QED  BY <2>2, <2>3
  <1>8. ASSUME NEW l \in Lots, closed'[l] = "reversed"
        PROVE  journal'[l]["release"] = 0 /\ journal'[l]["transfer_physical"] = 0
    <2>1. CASE taken[l] > 0 /\ taken[l] = left[l]
      <3>1. reason = "reversed"
        BY <2>1, <1>2, <1>8
      <3>2. t = "reversal" /\ journal[l]["release"] = 0 /\ journal[l]["transfer_physical"] = 0
        BY <2>1, <3>1, <1>4
      <3> QED  BY <3>2, <1>10, <1>4
    <2>2. CASE ~(taken[l] > 0 /\ taken[l] = left[l])
      <3>1. closed[l] = "reversed"
        BY <2>2, <1>2, <1>8
      <3>2. left[l] = 0
        BY <3>1, <1>11
      <3>3. taken[l] = 0
        BY <3>2, <1>13
      <3>4. journal[l]["release"] = 0 /\ journal[l]["transfer_physical"] = 0
        BY <3>1 DEF Inv, LotsKept
      <3> QED  BY <3>3, <3>4, <1>10, <1>4, <1>12
    <2> QED  BY <2>1, <2>2
  <1>9. ASSUME NEW l \in Lots, NEW s \in Sales, sold'[s][l] > 0
        PROVE  journal'[l]["release"] > 0
    <2>1. "release" \in Types /\ journal[l]["release"] \in Nat /\ taken[l] \in Nat
      BY <1>1, <1>4, <1>12
    <2>2. CASE sold'[s][l] = sold[s][l]
      <3>1. journal[l]["release"] > 0
        BY <1>9, <2>2 DEF Inv, LotsKept
      <3> QED  BY <3>1, <2>1, <1>10
    <2>3. CASE t = "release" /\ sold'[s][l] = taken[l]
      BY <1>9, <2>1, <2>3, <1>10
    <2> QED  BY <2>2, <2>3
  <1> QED  BY <1>3, <1>5, <1>6, <1>7, <1>8, <1>9 DEF LotsKept

LEMMA Whole ==
    ASSUME TypeOK, NEW l \in Lots
    PROVE  /\ Only(l, left[l]) \in [Lots -> Nat]
           /\ \A k \in Lots : Only(l, left[l])[k] <= left[k]
           /\ \A k \in Lots : Only(l, left[l])[k] = IF k = l THEN left[l] ELSE 0
  BY DEF Only, TypeOK

(***************************************************************************)
(* A new lot.                                                              *)
(***************************************************************************)
LEMMA Inserting ==
    ASSUME Inv, NEW source \in {"production", "return"}, NEW e \in 0 .. Never,
           NEW r \in Days, NEW n \in Amounts, Insert(source, e, r, n), UNCHANGED sold
    PROVE  /\ LotsTyped' /\ LotsKept'
           /\ closed' = closed /\ journal' = journal
           /\ \A l \in Lots : Exists(l) => lot'[l] = lot[l] /\ left'[l] = left[l]
           /\ \A l \in Lots : ~Exists(l) =>
                 lot'[l] = lot[l] \/ (lot'[l].source = source /\ lot'[l].expiry = e)
  <1> DEFINE row == [source |-> source, expiry |-> e, received |-> r, got |-> n]
  <1>1. PICK k \in Lots :
          /\ ~Exists(k)
          /\ lot' = [lot EXCEPT ![k] = row]
          /\ left' = [left EXCEPT ![k] = n]
          /\ closed' = closed /\ journal' = journal
    BY DEF Insert
  <1>2. n \in Nat /\ n > 0
    BY Bounds DEF Amounts
  <1>3. row \in LotRows
    BY <1>2 DEF Inv, TypeOK, LotRows
  <1>4. row.source = source /\ row.expiry = e /\ row.got = n
    OBVIOUS
  <1> HIDE DEF row
  <1>5. \A l \in Lots : /\ lot'[l] = IF l = k THEN row ELSE lot[l]
                        /\ left'[l] = IF l = k THEN n ELSE left[l]
    BY <1>1 DEF Inv, TypeOK
  <1>6. LotsTyped'
    BY <1>1, <1>2, <1>3 DEF Inv, TypeOK, LotsTyped
  <1>7. closed[k] = "open"
    BY <1>1 DEF Inv, LotsKept
  <1>8. LotsKept'
    <2>1. \A l \in Lots : Exists(l)' => Exists(l) \/ l = k
      BY <1>5 DEF Exists
    <2>2. \A l \in Lots : Exists(l)' => lot'[l].got > 0
      BY <2>1, <1>2, <1>4, <1>5 DEF Inv, LotsKept
    <2>3. ASSUME NEW l \in Lots, ~Exists(l)'
          PROVE  left'[l] = 0 /\ closed'[l] = "open"
      <3>1. l # k
        BY <2>3, <1>4, <1>5 DEF Exists
      <3>2. ~Exists(l)
        BY <2>3, <3>1, <1>5 DEF Exists
      <3> QED  BY <3>1, <3>2, <1>1, <1>5 DEF Inv, LotsKept
    <2>4. \A l \in Lots : closed'[l] # "open" => left'[l] = 0
      BY <1>1, <1>5, <1>7 DEF Inv, LotsKept
    <2>5. /\ \A l \in Lots : closed'[l] = "reversed" =>
                journal'[l]["release"] = 0 /\ journal'[l]["transfer_physical"] = 0
          /\ \A l \in Lots, s \in Sales : sold'[s][l] > 0 => journal'[l]["release"] > 0
      BY <1>1 DEF Inv, LotsKept
    <2> QED  BY <2>2, <2>3, <2>4, <2>5 DEF LotsKept
  <1>9. \A l \in Lots : Exists(l) => lot'[l] = lot[l] /\ left'[l] = left[l]
    BY <1>1, <1>5 DEF Exists
  <1>10. \A l \in Lots : ~Exists(l) => lot'[l] = lot[l] \/ (lot'[l].source = source /\ lot'[l].expiry = e)
    BY <1>4, <1>5
  <1> QED  BY <1>1, <1>6, <1>8, <1>9, <1>10

-----------------------------------------------------------------------------
(* One lemma for each action that touches lots *)

LEMMA ReceiveKeeps ==
    ASSUME Inv, NEW n \in Amounts, NEW e \in 0 .. Never, ReceiveMarketProduction(n, e)
    PROVE  Inv'
  <1>1. Insert("production", e, day, n) /\ UNCHANGED sold
    BY DEF ReceiveMarketProduction, trade
  <1>3. day \in Days
    BY DEF Inv, TypeOK
  <1>2. LotsTyped' /\ LotsKept'
    BY <1>1, <1>3, Inserting
  <1> QED  BY <1>2 DEF ReceiveMarketProduction, trade, rack, Inv, TypeOK, LotsTyped

LEMMA ReleaseKeeps ==
    ASSUME Inv, NEW s \in Sales, NEW taken \in Takings, NEW d, ReleaseMarketStock(s, taken, d)
    PROVE  Inv'
  <1>1. /\ taken \in [Lots -> Nat]
        /\ \A l \in Lots : taken[l] <= left[l]
    BY Takes DEF ReleaseMarketStock
  <1>2. Draw(taken, "released") /\ journal' = Journalled(taken, "release")
    BY DEF ReleaseMarketStock
  <1> DEFINE rows == [l \in Lots |-> Packed(taken[l], pack)]
  <1>3. rows \in [Lots -> Lines] /\ Enter(s, rows, taken) /\ Lots \in SUBSET Origins
        /\ DOMAIN rows = Lots /\ DOMAIN taken = Lots
        /\ \A l \in Lots : rows[l] \in Lines /\ taken[l] \in Nat
    <2>1. pack \in Nat \ {0}
      BY PacksAre DEF Inv, TypeOK
    <2> QED  BY <1>1, <2>1, Packing, ShelfLinesAre DEF ReleaseMarketStock
  <1> HIDE DEF rows
  <1>4. /\ line' \in [Sales -> [Origins -> Lines]]
        /\ sold' \in [Sales -> [Origins -> Nat]]
        /\ UNCHANGED <<returned, scrapped>>
        /\ \A r \in Sales, o \in Origins :
              sold'[r][o] = IF r # s THEN sold[r][o] ELSE IF o \in Lots THEN taken[o] ELSE 0
    <2>1. TypeOK
      BY DEF Inv
    <2>2. /\ line' \in [Sales -> [Origins -> Lines]]
          /\ sold' \in [Sales -> [Origins -> Nat]]
          /\ UNCHANGED <<returned, scrapped>>
          /\ \A r \in Sales, o \in Origins :
                /\ line'[r][o] = IF r # s THEN line[r][o] ELSE IF o \in Lots THEN rows[o] ELSE NoUnits
                /\ sold'[r][o] = IF r # s THEN sold[r][o] ELSE IF o \in Lots THEN taken[o] ELSE 0
      BY <1>1, <1>3, <2>1, Entering
    <2> QED  BY <2>2
  <1>5. \A l \in Lots, r \in Sales : sold'[r][l] = sold[r][l] \/ sold'[r][l] = taken[l]
    BY <1>4, ShelfLinesAre
  <1>6. LotsTyped' /\ LotsKept'
    <2>1. "released" \in Reasons /\ "release" \in Types /\ "released" # "reversed"
      BY Words
    <2> QED  BY <1>1, <1>2, <1>5, <2>1, DrawingKeepsLots
  <1> QED  BY <1>4, <1>6 DEF ReleaseMarketStock, rack, Inv, TypeOK, LotsTyped

LEMMA TransferKeeps ==
    ASSUME Inv, NEW taken \in Takings, NEW d, TransferToPhysical(taken, d)
    PROVE  Inv'
  <1>1. /\ taken \in [Lots -> Nat]
        /\ \A l \in Lots : taken[l] <= left[l]
    BY Takes DEF TransferToPhysical
  <1>2. Draw(taken, "transferred_physical") /\ journal' = Journalled(taken, "transfer_physical")
    BY DEF TransferToPhysical
  <1>3. Total(taken) \in Nat
    BY Bounds DEF TransferToPhysical
  <1>4. UNCHANGED <<house, day, line, sold, returned, scrapped, pack, clerk, editing>>
    BY DEF TransferToPhysical, trade, PutOnShelf
  <1>5. LotsTyped' /\ LotsKept'
    <2>1. /\ "transferred_physical" \in Reasons /\ "transfer_physical" \in Types
          /\ "transferred_physical" # "reversed"
      BY Words
    <2> QED  BY <1>1, <1>2, <1>4, <2>1, DrawingKeepsLots
  <1>6. shelf' \in Int /\ allowance' \in Int
    BY <1>3 DEF TransferToPhysical, PutOnShelf, Inv, TypeOK
  <1>7. counter' \in Counters
    BY <1>3 DEF TransferToPhysical, Inv, TypeOK, Counters
  <1> QED  BY <1>4, <1>5, <1>6, <1>7 DEF Inv, TypeOK, LotsTyped

LEMMA ReturnsKeep ==
    ASSUME Inv, NEW s \in Sales, NEW o \in Origins, NEW n \in Amounts, NEW d \in Dates,
           Redistribute(s, o, n, d) \/ Scrap(s, o, n)
    PROVE  Inv'
  <1>1. n \in Nat
    BY Bounds DEF Amounts
  <1>2. returned' \in [Sales -> [Origins -> Nat]]
    <2>1. returned' = [returned EXCEPT ![s][o] = @ + n]
      BY DEF Redistribute, Scrap
    <2> QED  BY <1>1, <2>1 DEF Inv, TypeOK
  <1>3. CASE Redistribute(s, o, n, d)
    <2>1. ExpiryOf(o) \in 0 .. Never
      BY Bounds DEF ExpiryOf, Never, Inv, TypeOK, LotRows
    <2>2. Insert("return", ExpiryOf(o), d, n) /\ UNCHANGED sold
      BY <1>3 DEF Redistribute
    <2>4. d \in Days
      BY Bounds, DatesType DEF Inv
    <2>3. LotsTyped' /\ LotsKept'
      BY <2>1, <2>2, <2>4, Inserting
    <2> QED  BY <1>2, <1>3, <2>3 DEF Redistribute, rack, Inv, TypeOK, LotsTyped
  <1>4. CASE Scrap(s, o, n)
    <2>1. scrapped' \in Nat
      BY <1>1, <1>4 DEF Scrap, Inv, TypeOK
    <2>2. LotsKept'
      BY <1>4 DEF Scrap, lots, Inv, LotsKept, Exists
    <2> QED  BY <1>2, <1>4, <2>1, <2>2 DEF Scrap, lots, rack, Inv, TypeOK
  <1> QED  BY <1>3, <1>4

LEMMA WriteOffsKeep ==
    ASSUME Inv, NEW l \in Lots, ReconcileExpired(l) \/ ReverseProductionLot(l)
    PROVE  Inv'
  <1> DEFINE taken == Only(l, left[l])
  <1>1. /\ taken \in [Lots -> Nat]
        /\ \A k \in Lots : taken[k] <= left[k]
        /\ \A k \in Lots : taken[k] = IF k = l THEN left[l] ELSE 0
    BY Whole DEF Inv
  <1>2. UNCHANGED <<house, day, line, sold, returned, scrapped, rack, clerk, editing>>
    BY DEF ReconcileExpired, ReverseProductionLot, trade
  <1>3. LotsTyped' /\ LotsKept'
    <2>1. CASE ReconcileExpired(l)
      <3>1. Draw(taken, "expired") /\ journal' = Journalled(taken, "expiry")
        BY <2>1 DEF ReconcileExpired
      <3>2. "expired" \in Reasons /\ "expiry" \in Types /\ "expired" # "reversed"
        BY Words
      <3> HIDE DEF taken
      <3> QED  BY <1>1, <1>2, <3>1, <3>2, DrawingKeepsLots
    <2>2. CASE ReverseProductionLot(l)
      <3>1. Draw(taken, "reversed") /\ journal' = Journalled(taken, "reversal")
        BY <2>2 DEF ReverseProductionLot
      <3>2. \A k \in Lots : taken[k] > 0 => \A u \in Types : journal[k][u] = 0
        BY <1>1, <2>2 DEF ReverseProductionLot, Untouched
      <3>3. "reversed" \in Reasons /\ "reversal" \in Types
        BY Words
      <3> HIDE DEF taken
      <3> QED  BY <1>1, <1>2, <3>1, <3>2, <3>3, DrawingKeepsLots
    <2> QED  BY <2>1, <2>2
  <1> QED  BY <1>2, <1>3 DEF rack, Inv, TypeOK, LotsTyped

(***************************************************************************)
(* The other actions leave the lots alone.                                 *)
(***************************************************************************)
LEMMA LotsAside ==
    ASSUME Inv, UNCHANGED lots,
           \A l \in Lots, s \in Sales : sold'[s][l] = sold[s][l] \/ sold'[s][l] = 0
    PROVE  LotsTyped' /\ LotsKept'
  <1>1. UNCHANGED <<lot, left, closed, journal>>
    BY DEF lots
  <1> QED  BY <1>1 DEF Inv, TypeOK, LotsTyped, LotsKept, Exists

LEMMA SaleableType == ASSUME TypeOK PROVE Saleable \in Int
  BY DEF TypeOK, Saleable, Lesser, Greater

LEMMA RequestTypes ==
    ASSUME TypeOK, NEW c \in Clerks
    PROVE  /\ clerk[c] = Idle \/ clerk[c] \in Requests
           /\ At(c, "idle") <=> clerk[c] = Idle
           /\ ~At(c, "idle") => clerk[c].since \in Nat
           /\ At(c, "checked") => clerk[c].lines \in [ShelfLines -> Lines]
           /\ At(c, "selling") => /\ clerk[c].lines \in [ShelfLines -> Lines]
                                  /\ clerk[c].units \in [ShelfLines -> Nat]
                                  /\ clerk[c].allowance \in Int
           /\ At(c, "shipping") => /\ clerk[c].units \in Nat /\ clerk[c].pack \in Packs
                                   /\ clerk[c].allowance \in Int
           /\ At(c, "adjusting") => clerk[c].change \in Int
  <1>1. clerk[c] = Idle \/ clerk[c] \in Requests
    BY DEF TypeOK
  <1>2. CASE clerk[c] = Idle
    BY <1>2 DEF At, Idle
  <1>3. CASE clerk[c] \in [at : {"checked"}, lines : [ShelfLines -> Lines], since : Nat]
    BY <1>3 DEF At, Idle, Requests
  <1>4. CASE clerk[c] \in [at : {"selling"}, lines : [ShelfLines -> Lines],
                units : [ShelfLines -> Nat], allowance : Int, since : Nat]
    BY <1>4 DEF At, Idle, Requests
  <1>5. CASE clerk[c] \in [at : {"shipping"}, units : Nat, pack : Packs, allowance : Int, since : Nat]
    BY <1>5 DEF At, Idle, Requests
  <1>6. CASE clerk[c] \in [at : {"adjusting"}, change : Int, since : Nat]
    BY <1>6 DEF At, Idle, Requests
  <1> QED  BY <1>1, <1>2, <1>3, <1>4, <1>5, <1>6 DEF Requests

\* Others see that units left the shelf, and nothing else.
LEMMA Waiting ==
    ASSUME TypeOK, NEW c \in Clerks, ~At(c, "idle"), NEW n \in Nat, NEW r,
           r = [clerk[c] EXCEPT !.since = @ + n]
    PROVE  /\ r \in Requests
           /\ r.at = clerk[c].at /\ r.since = clerk[c].since + n
           /\ At(c, "checked") => r.lines = clerk[c].lines
           /\ At(c, "selling") => r.lines = clerk[c].lines /\ r.units = clerk[c].units
                                  /\ r.allowance = clerk[c].allowance
           /\ At(c, "shipping") => r.units = clerk[c].units /\ r.pack = clerk[c].pack
                                   /\ r.allowance = clerk[c].allowance
           /\ At(c, "adjusting") => r.change = clerk[c].change
  <1>1. clerk[c] \in Requests
    BY RequestTypes
  <1>2. CASE clerk[c] \in [at : {"checked"}, lines : [ShelfLines -> Lines], since : Nat]
    BY <1>2 DEF At, Requests
  <1>3. CASE clerk[c] \in [at : {"selling"}, lines : [ShelfLines -> Lines],
                units : [ShelfLines -> Nat], allowance : Int, since : Nat]
    BY <1>3 DEF At, Requests
  <1>4. CASE clerk[c] \in [at : {"shipping"}, units : Nat, pack : Packs, allowance : Int, since : Nat]
    BY <1>4 DEF At, Requests
  <1>5. CASE clerk[c] \in [at : {"adjusting"}, change : Int, since : Nat]
    BY <1>5 DEF At, Requests
  <1> QED  BY <1>1, <1>2, <1>3, <1>4, <1>5 DEF Requests

\* What a sale or a shipment takes off the shelf.
LEMMA Taking ==
    ASSUME TypeOK, NEW c \in Clerks, NEW n \in Nat, NEW m \in Int, NEW late \in Nat,
           TakeOffShelf(c, n, m, late)
    PROVE  /\ shelf' = shelf - n /\ allowance' = allowance - m /\ pack' = pack
           /\ shelf' \in Int /\ allowance' \in Int
           /\ counter' \in Counters
           /\ counter'.gone = counter.gone + n /\ counter'.late = counter.late + late
           /\ counter'.delivered = counter.delivered /\ counter'.transferred = counter.transferred
           /\ counter'.adjusted = counter.adjusted
           /\ clerk' \in [Clerks -> {Idle} \cup Requests]
           /\ \A k \in Clerks :
                 clerk'[k] = IF k = c \/ At(k, "idle") THEN Idle ELSE [clerk[k] EXCEPT !.since = @ + n]
  <1>1. shelf \in Int /\ allowance \in Int /\ counter \in Counters
    BY DEF TypeOK
  <1>2. shelf' = shelf - n /\ allowance' = allowance - m /\ pack' = pack
    BY DEF TakeOffShelf
  <1>3. counter' = [counter EXCEPT !.gone = @ + n, !.late = @ + late]
    BY DEF TakeOffShelf
  <1>4. \A k \in Clerks :
          clerk'[k] = IF k = c \/ At(k, "idle") THEN Idle ELSE [clerk[k] EXCEPT !.since = @ + n]
    BY DEF TakeOffShelf
  <1>5. ASSUME NEW k \in Clerks PROVE clerk'[k] \in {Idle} \cup Requests
    <2>1. CASE k = c \/ At(k, "idle")
      BY <1>4, <2>1
    <2>2. CASE ~(k = c \/ At(k, "idle"))
      <3>1. clerk'[k] = [clerk[k] EXCEPT !.since = @ + n]
        BY <1>4, <2>2
      <3> QED  BY <2>2, <3>1, Waiting
    <2> QED  BY <2>1, <2>2
  <1>6. clerk' \in [Clerks -> {Idle} \cup Requests]
    BY <1>5 DEF TakeOffShelf
  <1>7. /\ counter' \in Counters
        /\ counter'.gone = counter.gone + n /\ counter'.late = counter.late + late
        /\ counter'.delivered = counter.delivered /\ counter'.transferred = counter.transferred
        /\ counter'.adjusted = counter.adjusted
    <2>1. /\ counter.gone \in Nat /\ counter.late \in Nat
          /\ DOMAIN counter = {"delivered", "transferred", "adjusted", "gone", "late"}
      BY <1>1 DEF Counters
    <2> DEFINE g == counter.gone + n
               k == counter.late + late
    <2>2. g \in Nat /\ k \in Nat
      BY <2>1
    <2>3. counter' = [counter EXCEPT !.gone = g, !.late = k]
      BY <1>3, Zenon
    <2> HIDE DEF g, k
    <2>4. counter' \in Counters
      BY <1>1, <2>2, <2>3 DEF Counters
    <2>5. /\ counter'.gone = g /\ counter'.late = k
          /\ counter'.delivered = counter.delivered /\ counter'.transferred = counter.transferred
          /\ counter'.adjusted = counter.adjusted
      BY <1>1, <2>3 DEF Counters
    <2> QED  BY <2>4, <2>5 DEF g, k
  <1> QED  BY <1>1, <1>2, <1>4, <1>6, <1>7

\* The lines of a sale form and what each consumes and finds taken.
LEMMA Lines2 ==
    ASSUME TypeOK, NEW c \in Clerks, At(c, "selling")
    PROVE  /\ clerk[c].units[Shelf] \in Nat /\ clerk[c].units[SecondLine] \in Nat
           /\ Consumed(c, clerk[c].units[Shelf]) \in Int
           /\ Consumed(c, clerk[c].units[SecondLine]) \in Int
           /\ Lesser(clerk[c].units[Shelf], clerk[c].since) \in Nat
           /\ Lesser(clerk[c].units[SecondLine], clerk[c].since + clerk[c].units[Shelf]) \in Nat
  <1>1. /\ clerk[c].units \in [ShelfLines -> Nat] /\ clerk[c].allowance \in Int
        /\ clerk[c].since \in Nat
    BY RequestTypes DEF At
  <1>2. clerk[c].units[Shelf] \in Nat /\ clerk[c].units[SecondLine] \in Nat
    BY <1>1, ShelfLinesAre
  <1> QED  BY <1>1, <1>2 DEF Consumed, Greater, Lesser

\* A new sale with lines of the shelf only.
OffShelf(s, S, rows, units) ==
    /\ DOMAIN rows = S /\ DOMAIN units = S
    /\ \A o \in S : rows[o] \in Lines /\ units[o] \in Nat
    /\ Enter(s, rows, units)

\* What leaves the shelf: by a direct sale or by a shipment.
LEMMA Leaves ==
    ASSUME TypeOK, NEW c \in Clerks, CommitSale(c) \/ MakePhysicalSale(c)
    PROVE  /\ UNCHANGED <<house, day, lots, returned, scrapped, editing>>
           /\ \E n \in Nat, m \in Int, late \in Nat :
                 /\ TakeOffShelf(c, n, m, late)
           /\ \/ UNCHANGED trade
              \/ \E s \in Sales, S \in {ShelfLines, {Shelf}} : \E rows, units : OffShelf(s, S, rows, units)
  <1>1. CASE CommitSale(c)
    <2> DEFINE one == clerk[c].units[Shelf]
               two == clerk[c].units[SecondLine]
               m == Consumed(c, one) + Consumed(c, two)
               late == Lesser(one, clerk[c].since) + Lesser(two, clerk[c].since + one)
    <2>1. At(c, "selling") /\ TakeOffShelf(c, one + two, m, late)
      BY <1>1 DEF CommitSale
    <2>2. one + two \in Nat /\ m \in Int /\ late \in Nat
      BY <2>1, Lines2
    <2> HIDE DEF m, late
    <2>3. clerk[c].lines \in [ShelfLines -> Lines] /\ clerk[c].units \in [ShelfLines -> Nat]
      BY <2>1, RequestTypes
    <2>4. UNCHANGED trade \/ \E s \in Sales : Enter(s, clerk[c].lines, clerk[c].units)
      BY <1>1 DEF CommitSale
    <2>5. UNCHANGED <<house, day, lots, returned, scrapped, editing>>
      BY <1>1, <2>4 DEF CommitSale, trade, Enter
    <2>6. \/ UNCHANGED trade
          \/ \E s \in Sales, S \in {ShelfLines, {Shelf}} : \E rows, units : OffShelf(s, S, rows, units)
      BY <2>3, <2>4 DEF OffShelf
    <2> QED  BY <2>1, <2>2, <2>5, <2>6
  <1>2. CASE MakePhysicalSale(c)
    <2> DEFINE n == clerk[c].units
               m == Consumed(c, n)
               rows == [i \in {Shelf} |-> Packed(n, clerk[c].pack)]
               units == [i \in {Shelf} |-> n]
    <2>1. At(c, "shipping") /\ TakeOffShelf(c, n, m, 0)
      BY <1>2 DEF MakePhysicalSale
    <2>2. n \in Nat /\ clerk[c].pack \in Nat \ {0} /\ clerk[c].allowance \in Int
      BY <2>1, RequestTypes, PacksAre
    <2>3. m \in Int
      BY <2>2 DEF Consumed, Greater, Lesser
    <2>4. DOMAIN rows = {Shelf} /\ DOMAIN units = {Shelf} /\ rows[Shelf] \in Lines /\ units[Shelf] \in Nat
      BY <2>2, Packing
    <2>5. UNCHANGED trade \/ \E s \in Sales : Enter(s, rows, units)
      BY <1>2 DEF MakePhysicalSale
    <2>6. UNCHANGED <<house, day, lots, returned, scrapped, editing>>
      BY <1>2, <2>5 DEF MakePhysicalSale, trade, Enter
    <2> HIDE DEF n, m, rows, units
    <2>7. UNCHANGED trade \/ \E s \in Sales : OffShelf(s, {Shelf}, rows, units)
      BY <2>4, <2>5 DEF OffShelf
    <2>8. UNCHANGED trade \/ \E s \in Sales, S \in {ShelfLines, {Shelf}} : \E x, y : OffShelf(s, S, x, y)
      BY <2>7
    <2> QED  BY <2>1, <2>2, <2>3, <2>6, <2>8
  <1> QED  BY <1>1, <1>2

LEMMA CounterKeeps ==
    ASSUME Inv, NEW c \in Clerks,
           \/ \E rows \in Baskets : CheckSale(c, rows)
           \/ \E n \in Nat : OpenShipment(c, n)
           \/ \E n \in Int : CheckAdjustment(c, n)
           \/ OpenSale(c) \/ CommitSale(c) \/ MakePhysicalSale(c) \/ ShipmentRefused(c) \/ Adjust(c)
    PROVE  Inv'
  <1>1. TypeOK
    BY DEF Inv
  <1>2. UNCHANGED <<house, day, returned, scrapped, editing>> /\ UNCHANGED lots
    BY <1>1, Leaves DEF CheckSale, OpenShipment, OpenSale, ShipmentRefused, CheckAdjustment, Adjust, trade
  <1>3. CASE CommitSale(c) \/ MakePhysicalSale(c)
    <2>1. PICK n \in Nat, m \in Int, late \in Nat : TakeOffShelf(c, n, m, late)
      BY <1>1, <1>3, Leaves
    <2>2. /\ shelf' \in Int /\ allowance' \in Int /\ pack' = pack /\ counter' \in Counters
          /\ clerk' \in [Clerks -> {Idle} \cup Requests]
      BY <1>1, <2>1, Taking
    <2>3. /\ line' \in [Sales -> [Origins -> Lines]] /\ sold' \in [Sales -> [Origins -> Nat]]
          /\ \A l \in Lots, r \in Sales : sold'[r][l] = sold[r][l] \/ sold'[r][l] = 0
      <3>1. CASE UNCHANGED trade
        BY <1>1, <3>1 DEF trade, TypeOK
      <3>2. CASE \E s \in Sales, S \in {ShelfLines, {Shelf}} : \E rows, units : OffShelf(s, S, rows, units)
        <4>5. PICK s \in Sales, S \in {ShelfLines, {Shelf}} : \E rows, units : OffShelf(s, S, rows, units)
          BY <3>2
        <4>1. PICK rows, units :
                    /\ DOMAIN rows = S /\ DOMAIN units = S
                    /\ \A o \in S : rows[o] \in Lines /\ units[o] \in Nat
                    /\ Enter(s, rows, units)
          BY <4>5 DEF OffShelf
        <4>2. S \in SUBSET Origins /\ \A l \in Lots : l \in Origins /\ l \notin S
          BY ShelfLinesAre
        <4>3. /\ line' \in [Sales -> [Origins -> Lines]] /\ sold' \in [Sales -> [Origins -> Nat]]
              /\ \A r \in Sales, o \in Origins :
                   sold'[r][o] = IF r # s THEN sold[r][o] ELSE IF o \in S THEN units[o] ELSE 0
          BY <1>1, <4>1, <4>2, Entering
        <4> QED  BY <4>2, <4>3
      <3> QED  BY <1>1, <1>3, <3>1, <3>2, Leaves
    <2>4. LotsTyped' /\ LotsKept'
      BY <1>2, <2>3, LotsAside
    <2> QED  BY <1>1, <1>2, <2>2, <2>3, <2>4 DEF Inv, TypeOK, LotsTyped
  <1>4. CASE Adjust(c)
    <2>1. /\ clerk[c].change \in Int
          /\ shelf' = shelf + clerk[c].change
          /\ counter' = [counter EXCEPT !.adjusted = @ + clerk[c].change]
          /\ clerk' = [clerk EXCEPT ![c] = Idle]
          /\ UNCHANGED <<trade, pack, allowance>>
      BY <1>1, <1>4, RequestTypes DEF Adjust, Done, Asks
    <2>4. shelf' \in Int
      BY <1>1, <2>1 DEF TypeOK
    <2>5. counter \in Counters /\ counter.adjusted + clerk[c].change \in Int
      BY <1>1, <2>1 DEF TypeOK, Counters
    <2>6. counter' \in Counters
      <3> DEFINE a == counter.adjusted + clerk[c].change
      <3>1. counter' = [counter EXCEPT !.adjusted = a]
        BY <2>1, Zenon
      <3> HIDE DEF a
      <3> QED  BY <2>5, <3>1 DEF Counters, a
    <2>7. clerk' \in [Clerks -> {Idle} \cup Requests]
      BY <1>1, <2>1 DEF TypeOK
    <2>2. shelf' \in Int /\ counter' \in Counters /\ clerk' \in [Clerks -> {Idle} \cup Requests]
      BY <2>4, <2>6, <2>7
    <2>3. LotsTyped' /\ LotsKept'
      BY <1>2, <2>1, LotsAside DEF trade
    <2> QED  BY <1>1, <1>2, <2>1, <2>2, <2>3 DEF trade, Inv, TypeOK, LotsTyped
  <1>5. CASE \/ \E rows \in Baskets : CheckSale(c, rows)
             \/ \E n \in Nat : OpenShipment(c, n)
             \/ \E n \in Int : CheckAdjustment(c, n)
             \/ OpenSale(c) \/ ShipmentRefused(c)
    <2>1. \E r \in {Idle} \cup Requests : clerk' = [clerk EXCEPT ![c] = r]
      <3>1. ASSUME NEW rows \in Baskets, CheckSale(c, rows)
            PROVE  \E r \in Requests : clerk' = [clerk EXCEPT ![c] = r]
        <4>1. rows \in [ShelfLines -> Lines]
          BY DEF Baskets, Lines
        <4>2. [at |-> "checked", lines |-> rows, since |-> 0] \in Requests
          BY <4>1 DEF Requests
        <4> QED  BY <3>1, <4>2 DEF CheckSale, Asks
      <3>2. ASSUME NEW n \in Nat, OpenShipment(c, n)
            PROVE  \E r \in Requests : clerk' = [clerk EXCEPT ![c] = r]
        <4>1. [at |-> "shipping", units |-> n, pack |-> pack, allowance |-> allowance, since |-> 0]
                \in Requests
          BY <1>1 DEF Requests, TypeOK
        <4> QED  BY <3>2, <4>1 DEF OpenShipment, Asks
      <3>3. ASSUME NEW n \in Int, CheckAdjustment(c, n)
            PROVE  \E r \in Requests : clerk' = [clerk EXCEPT ![c] = r]
        <4>1. [at |-> "adjusting", change |-> n, since |-> 0] \in Requests
          BY DEF Requests
        <4> QED  BY <3>3, <4>1 DEF CheckAdjustment, Asks
      <3>4. CASE OpenSale(c)
        <4> DEFINE units == [i \in ShelfLines |-> Units(clerk[c].lines[i], pack)]
                   r == [at |-> "selling", lines |-> clerk[c].lines, units |-> units,
                         allowance |-> allowance, since |-> clerk[c].since]
        <4>1. At(c, "checked") /\ clerk' = [clerk EXCEPT ![c] = r]
          BY <3>4 DEF OpenSale, Asks
        <4>2. clerk[c].lines \in [ShelfLines -> Lines] /\ clerk[c].since \in Nat
          BY <1>1, <4>1, RequestTypes DEF At
        <4>3. pack \in Nat /\ allowance \in Int
          BY <1>1, PacksAre DEF TypeOK
        <4>4. units \in [ShelfLines -> Nat]
          BY <4>2, <4>3, UnitsAre
        <4> HIDE DEF units
        <4>5. r \in Requests
          BY <4>2, <4>3, <4>4 DEF Requests
        <4> QED  BY <4>1, <4>5
      <3>5. CASE ShipmentRefused(c)
        BY <3>5 DEF ShipmentRefused, Done, Asks
      <3> QED  BY <1>5, <3>1, <3>2, <3>3, <3>4, <3>5
    <2>2. clerk' \in [Clerks -> {Idle} \cup Requests]
      BY <1>1, <2>1 DEF TypeOK
    <2>3. UNCHANGED <<rack, trade>>
      BY <1>5 DEF CheckSale, OpenShipment, CheckAdjustment, OpenSale, ShipmentRefused
    <2>4. LotsTyped' /\ LotsKept'
      BY <1>2, <2>3, LotsAside DEF trade
    <2> QED  BY <1>1, <1>2, <2>2, <2>3, <2>4 DEF rack, trade, Inv, TypeOK, LotsTyped
  <1> QED  BY <1>3, <1>4, <1>5

LEMMA OfficeKeeps ==
    ASSUME Inv,
           \/ \E n \in Amounts : Deliver(n)
           \/ ShowForm \/ SaveForm \/ \E p \in Packs : PostForm(p)
           \/ NextDay
    PROVE  Inv'
  <1>1. TypeOK
    BY DEF Inv
  <1>2. UNCHANGED <<house, lots, trade, clerk>>
    BY DEF Deliver, ShowForm, PostForm, SaveForm, NextDay
  <1>3. LotsTyped' /\ LotsKept'
    BY <1>2, LotsAside DEF trade
  <1>4. editing = Idle \/ editing \in Forms
    BY <1>1 DEF TypeOK
  <1>5. /\ day' \in Days /\ shelf' \in Int /\ allowance' \in Int /\ pack' \in Packs
        /\ counter' \in Counters
        /\ editing' = Idle \/ editing' \in Forms
    <2>1. ASSUME NEW n \in Amounts, Deliver(n)
          PROVE  /\ UNCHANGED <<day, pack, allowance, editing>>
                 /\ shelf' \in Int
                 /\ counter' \in Counters
      <3>1. n \in Nat
        BY Bounds DEF Amounts
      <3> QED  BY <2>1, <3>1, <1>1 DEF Deliver, TypeOK, Counters
    <2>2. CASE ShowForm
      BY <2>2, <1>1 DEF ShowForm, rack, TypeOK, Forms
    <2>3. ASSUME NEW p \in Packs, PostForm(p)
          PROVE  editing' \in Forms /\ UNCHANGED <<day, rack>>
      <3>1. editing.stock \in Int
        BY <2>3, <1>4 DEF PostForm, Idle, Forms
      <3> QED  BY <2>3, <3>1, <1>1 DEF PostForm, TypeOK, Forms
    <2>4. CASE SaveForm
      <3>1. editing.stock \in Int /\ editing.allowance \in Int /\ editing.pack \in Packs
        BY <2>4, <1>4 DEF SaveForm, Idle, Forms
      <3> QED  BY <2>4, <3>1, <1>1 DEF SaveForm, TypeOK
    <2>5. CASE NextDay
      BY <2>5, <1>1, Bounds DEF NextDay, rack, TypeOK, Days
    <2> QED  BY <2>1, <2>2, <2>3, <2>4, <2>5, <1>1 DEF TypeOK, rack
  <1> QED  BY <1>1, <1>2, <1>3, <1>5 DEF trade, Inv, TypeOK, LotsTyped

LEMMA InvIsKept == Inv /\ [Next]_vars => Inv'
  <1> SUFFICES ASSUME Inv, [Next]_vars PROVE Inv'  OBVIOUS
  <1>1. CASE UNCHANGED vars
    BY <1>1 DEF vars, lots, trade, rack, Inv, TypeOK, LotsKept, Exists
  <1>2. CASE Stockroom
    BY <1>2, ReceiveKeeps, ReleaseKeeps, TransferKeeps, WriteOffsKeep DEF Stockroom
  <1>3. CASE Customers
    <2>1. day \in Dates
      BY Bounds DEF Inv, TypeOK, Dates, Days
    <2> QED  BY <1>3, <2>1, ReturnsKeep DEF Customers
  <1>4. CASE Counter
    <2>1. PICK c \in Clerks :
            \/ \E rows \in Baskets : CheckSale(c, rows)
            \/ \E n \in Amounts : OpenShipment(c, n) \/ CheckAdjustment(c, n) \/ CheckAdjustment(c, -n)
            \/ OpenSale(c) \/ CommitSale(c) \/ MakePhysicalSale(c) \/ ShipmentRefused(c) \/ Adjust(c)
      BY <1>4 DEF Counter
    <2>2. \A n \in Amounts : n \in Nat /\ -n \in Int
      BY Bounds DEF Amounts
    <2> QED  BY <2>1, <2>2, CounterKeeps
  <1>5. CASE Office
    BY <1>5, OfficeKeeps DEF Office
  <1> QED  BY <1>1, <1>2, <1>3, <1>4, <1>5 DEF Next

LEMMA InvAlways == Spec => []Inv
  BY InitInv, InvIsKept, PTL DEF Spec

-----------------------------------------------------------------------------
(* Theorems *)

(***************************************************************************)
(* Lots, journal, sales, returns and requests have their types, whatever   *)
(* overlaps.                                                               *)
(***************************************************************************)
THEOREM MarketTypeCorrect == Spec => []TypeOK
  BY InvAlways, PTL DEF Inv

(***************************************************************************)
(* Nothing of a reversed production (reverse_market_production_lot) was    *)
(* released or transferred, nor is it later.                               *)
(***************************************************************************)
THEOREM ReversedTheorem == Spec => []ReversedReachedNobody
  <1>1. Inv => ReversedReachedNobody
    <2> SUFFICES ASSUME Inv, NEW l \in Lots, closed[l] = "reversed"
                 PROVE  /\ left[l] = 0
                        /\ journal[l]["release"] = 0
                        /\ journal[l]["transfer_physical"] = 0
                        /\ \A s \in Sales : sold[s][l] = 0
      BY DEF ReversedReachedNobody
    <2>1. left[l] = 0 /\ journal[l]["release"] = 0 /\ journal[l]["transfer_physical"] = 0
      BY DEF Inv, LotsKept
    <2>2. ASSUME NEW s \in Sales PROVE sold[s][l] = 0
      <3>1. sold[s][l] \in Nat
        BY ShelfLinesAre DEF Inv, TypeOK
      <3>2. sold[s][l] > 0 => journal[l]["release"] > 0
        BY DEF Inv, LotsKept
      <3> QED  BY <2>1, <3>1, <3>2
    <2> QED  BY <2>1, <2>2
  <1> QED  BY <1>1, InvAlways, PTL

\* What a step does to lots and their journal.
LEMMA LotSteps ==
    ASSUME Inv, [Next]_vars
    PROVE  \/ UNCHANGED lots
           \/ \E n \in Amounts, e \in 0 .. Never : Insert("production", e, day, n) /\ UNCHANGED sold
           \/ \E s \in Sales, o \in Origins, n \in Amounts, d \in Dates :
                 /\ Insert("return", ExpiryOf(o), d, n) /\ UNCHANGED sold
                 /\ returned' = [returned EXCEPT ![s][o] = @ + n]
           \/ \E taken \in Takings, d \in Dates, t \in {"release", "transfer_physical"},
                 reason \in {"released", "transferred_physical"} :
                 /\ Fefo(taken, Total(taken), d)
                 /\ Draw(taken, reason) /\ journal' = Journalled(taken, t)
           \/ \E l \in Lots :
                 /\ lot[l].expiry < day
                 /\ Draw(Only(l, left[l]), "expired") /\ journal' = Journalled(Only(l, left[l]), "expiry")
           \/ \E l \in Lots :
                 /\ Untouched(l) /\ lot[l].source = "production"
                 /\ Draw(Only(l, left[l]), "reversed") /\ journal' = Journalled(Only(l, left[l]), "reversal")
  <1>1. CASE UNCHANGED vars
    BY <1>1 DEF vars
  <1>2. CASE Stockroom
    <2>1. CASE \E n \in Amounts, e \in 0 .. Never : ReceiveMarketProduction(n, e)
      BY <2>1 DEF ReceiveMarketProduction, trade
    <2>2. CASE \E s \in Sales, taken \in Takings, d \in Dates : ReleaseMarketStock(s, taken, d)
      BY <2>2 DEF ReleaseMarketStock
    <2>3. CASE \E taken \in Takings, d \in Dates : TransferToPhysical(taken, d)
      BY <2>3 DEF TransferToPhysical
    <2>4. CASE \E l \in Lots : ReconcileExpired(l) \/ ReverseProductionLot(l)
      BY <2>4 DEF ReconcileExpired, ReverseProductionLot
    <2> QED  BY <1>2, <2>1, <2>2, <2>3, <2>4 DEF Stockroom
  <1>3. CASE Customers
    BY <1>3 DEF Customers, Redistribute, Scrap
  <1>4. CASE Counter
    BY <1>4 DEF Counter, CheckSale, OpenShipment, OpenSale, CommitSale, ShipmentRefused, MakePhysicalSale,
                CheckAdjustment, Adjust
  <1>5. CASE Office
    BY <1>5 DEF Office, Deliver, ShowForm, PostForm, SaveForm, NextDay
  <1> QED  BY <1>1, <1>2, <1>3, <1>4, <1>5 DEF Next

(***************************************************************************)
(* With today's dates on the forms nothing expired is released or          *)
(* transferred (_sellable_market_lots), and nothing is written off before  *)
(* it expires (reconcile_expired_market_lot).                              *)
(***************************************************************************)
THEOREM FreshTheorem == Spec => OnlyFreshStockLeaves
  <1>1. Inv /\ [Next]_vars => ExpiredUnitsStay
    <2> SUFFICES ASSUME Inv, [Next]_vars, NEW l \in Lots
                 PROVE  /\ Leaving(l, "release") \/ Leaving(l, "transfer_physical")
                              => house.backdated \/ day <= lot[l].expiry
                        /\ Leaving(l, "expiry") => lot[l].expiry < day
      BY DEF ExpiredUnitsStay
    <2>1. \A u \in Types : journal[l][u] \in Nat
      BY DEF Inv, TypeOK
    <2>2. "release" \in Types /\ "transfer_physical" \in Types /\ "expiry" \in Types /\ "reversal" \in Types
      BY Words
    <2>3. /\ "released" \in Reasons /\ "transferred_physical" \in Reasons
          /\ "expired" \in Reasons /\ "reversed" \in Reasons
      BY Words
    <2>4. CASE journal' = journal
      BY <2>1, <2>2, <2>4 DEF Leaving
    <2>5. ASSUME NEW taken \in Takings, NEW d \in Dates, NEW t \in {"release", "transfer_physical"},
                 NEW reason \in {"released", "transferred_physical"},
                 Fefo(taken, Total(taken), d), Draw(taken, reason), journal' = Journalled(taken, t)
          PROVE  /\ Leaving(l, "release") \/ Leaving(l, "transfer_physical")
                       => house.backdated \/ day <= lot[l].expiry
                 /\ ~Leaving(l, "expiry")
      <3>1. taken[l] > 0 => lot[l].expiry >= d
        BY <2>5, Takes
      <3>8. taken \in [Lots -> Nat] /\ \A k \in Lots : taken[k] <= left[k]
        BY <2>5, Takes
      <3>2. t \in Types /\ reason \in Reasons
        BY <2>2, <2>3
      <3>3. \A u \in Types : journal'[l][u] = IF u = t THEN journal[l][u] + taken[l] ELSE journal[l][u]
        BY <2>5, <3>8, <3>2, Drawing
      <3>4. taken[l] \in Nat
        BY <3>8
      <3>5. ~Leaving(l, "expiry")
        BY <2>1, <2>2, <3>3 DEF Leaving
      <3>6. Leaving(l, "release") \/ Leaving(l, "transfer_physical") => taken[l] > 0
        BY <2>1, <2>2, <3>3, <3>4 DEF Leaving
      <3>7. ~house.backdated => d = day
        BY DEF Dates
      <3> QED  BY <3>1, <3>5, <3>6, <3>7
    <2>6. ASSUME NEW k \in Lots, NEW reason \in Reasons, NEW t \in {"expiry", "reversal"},
                 t = "expiry" => lot[k].expiry < day,
                 Draw(Only(k, left[k]), reason), journal' = Journalled(Only(k, left[k]), t)
          PROVE  /\ ~Leaving(l, "release") /\ ~Leaving(l, "transfer_physical")
                 /\ Leaving(l, "expiry") => lot[l].expiry < day
      <3> DEFINE taken == Only(k, left[k])
      <3>1. /\ taken \in [Lots -> Nat]
            /\ \A j \in Lots : taken[j] <= left[j]
            /\ taken[l] = IF l = k THEN left[k] ELSE 0
        BY Whole DEF Inv
      <3>2. Draw(taken, reason) /\ journal' = Journalled(taken, t) /\ t \in Types
        BY <2>2, <2>6
      <3> HIDE DEF taken
      <3>3. \A u \in Types : journal'[l][u] = IF u = t THEN journal[l][u] + taken[l] ELSE journal[l][u]
        BY <3>1, <3>2, Drawing
      <3>4. ~Leaving(l, "release") /\ ~Leaving(l, "transfer_physical")
        BY <2>1, <2>2, <3>3 DEF Leaving
      <3>5. Leaving(l, "expiry") => t = "expiry" /\ l = k
        BY <2>1, <2>2, <3>1, <3>3 DEF Leaving
      <3> QED  BY <2>6, <3>4, <3>5
    <2>7. \A s, e, r, n : Insert(s, e, r, n) => journal' = journal
      BY DEF Insert
    <2> QED  BY <2>3, <2>4, <2>5, <2>6, <2>7, LotSteps DEF lots
  <1>2. Inv /\ [Next]_vars => [ExpiredUnitsStay]_vars
    BY <1>1
  <1> QED  BY <1>2, InvAlways, PTL DEF Spec, OnlyFreshStockLeaves

(***************************************************************************)
(* No lot gains units or opens again; a return makes a lot that expires    *)
(* with the units it is made of (record_distribution_return).              *)
(***************************************************************************)
THEOREM LotsTheorem == Spec => LotsOnlyShrink
  <1>1. ASSUME Inv, [Next]_vars, NEW l \in Lots
        PROVE  /\ Exists(l) => /\ left'[l] <= left[l]
                               /\ closed[l] # "open" => closed'[l] = closed[l]
                               /\ lot'[l] = lot[l]
               /\ ~Exists(l) /\ lot'[l].source = "return" => ReturnKeepsExpiry(l)
    <2>1. left[l] \in Nat /\ (closed[l] # "open" => left[l] = 0)
      BY <1>1 DEF Inv, TypeOK, LotsKept
    <2>2. ASSUME UNCHANGED lots
          PROVE  left'[l] = left[l] /\ closed'[l] = closed[l] /\ lot'[l] = lot[l]
      BY <2>2 DEF lots
    <2>11. day \in Days /\ Dates \subseteq Days
      BY <1>1, DatesType DEF Inv, TypeOK
    <2>3. ASSUME NEW source \in {"production", "return"}, NEW e \in 0 .. Never, NEW r \in Days,
                 NEW n \in Amounts, Insert(source, e, r, n), UNCHANGED sold
          PROVE  /\ Exists(l) => lot'[l] = lot[l] /\ left'[l] = left[l]
                 /\ closed'[l] = closed[l]
                 /\ ~Exists(l) => lot'[l] = lot[l] \/ (lot'[l].source = source /\ lot'[l].expiry = e)
      BY <1>1, <2>3, Inserting
    <2>4. ASSUME NEW taken \in [Lots -> Nat], NEW reason \in Reasons, NEW t \in Types,
                 \A k \in Lots : taken[k] <= left[k],
                 Draw(taken, reason), journal' = Journalled(taken, t)
          PROVE  /\ left'[l] <= left[l] /\ lot'[l] = lot[l]
                 /\ closed[l] # "open" => closed'[l] = closed[l]
      <3>1. taken[l] \in Nat /\ taken[l] <= left[l]
        BY <2>4
      <3>2. /\ lot' = lot
            /\ left'[l] = left[l] - taken[l]
            /\ closed'[l] = IF taken[l] > 0 /\ taken[l] = left[l] THEN reason ELSE closed[l]
        BY <1>1, <2>4, Drawing
      <3>3. left'[l] <= left[l]
        BY <2>1, <3>1, <3>2
      <3>4. closed[l] # "open" => closed'[l] = closed[l]
        BY <2>1, <3>1, <3>2
      <3> QED  BY <3>2, <3>3, <3>4
    <2>5. CASE UNCHANGED lots
      BY <2>1, <2>2, <2>5 DEF Exists
    <2>6. CASE \E n \in Amounts, e \in 0 .. Never : Insert("production", e, day, n) /\ UNCHANGED sold
      <3>1. PICK n \in Amounts, e \in 0 .. Never : Insert("production", e, day, n) /\ UNCHANGED sold
        BY <2>6
      <3>2. /\ Exists(l) => lot'[l] = lot[l] /\ left'[l] = left[l]
            /\ closed'[l] = closed[l]
            /\ ~Exists(l) => lot'[l] = lot[l] \/ lot'[l].source = "production"
        BY <2>3, <2>11, <3>1
      <3> QED  BY <2>1, <3>2 DEF Exists
    <2>7. CASE \E s \in Sales, o \in Origins, n \in Amounts, d \in Dates :
                  /\ Insert("return", ExpiryOf(o), d, n) /\ UNCHANGED sold
                  /\ returned' = [returned EXCEPT ![s][o] = @ + n]
      <3>1. PICK s \in Sales, o \in Origins, n \in Amounts, d \in Dates :
              /\ Insert("return", ExpiryOf(o), d, n) /\ UNCHANGED sold
              /\ returned' = [returned EXCEPT ![s][o] = @ + n]
        BY <2>7
      <3>2. ExpiryOf(o) \in 0 .. Never
        BY <1>1, Bounds DEF ExpiryOf, Never, Inv, TypeOK, LotRows
      <3>3. /\ Exists(l) => lot'[l] = lot[l] /\ left'[l] = left[l]
            /\ closed'[l] = closed[l]
            /\ ~Exists(l) => lot'[l] = lot[l] \/ lot'[l].expiry = ExpiryOf(o)
        BY <2>3, <2>11, <3>1, <3>2
      <3>4. returned'[s][o] > returned[s][o]
        <4>1. n \in Nat /\ n > 0
          BY Bounds DEF Amounts
        <4>2. returned \in [Sales -> [Origins -> Nat]]
          BY <1>1 DEF Inv, TypeOK
        <4> QED  BY <3>1, <4>1, <4>2
      <3>5. ~Exists(l) /\ lot'[l].source = "return" => ReturnKeepsExpiry(l)
        <4> SUFFICES ASSUME ~Exists(l), lot'[l].source = "return" PROVE ReturnKeepsExpiry(l)
          OBVIOUS
        <4>1. lot'[l].expiry = ExpiryOf(o)
          BY <3>3 DEF Exists
        <4>2. lot'[l].expiry = IF o \in ShelfLines THEN Never ELSE lot[o].expiry
          BY <4>1, ShelfLinesAre DEF ExpiryOf, Origins
        <4> QED  BY <3>4, <4>2 DEF ReturnKeepsExpiry
      <3> QED  BY <2>1, <3>3, <3>5
    <2>8. CASE \E taken \in Takings, d \in Dates, t \in {"release", "transfer_physical"},
                  reason \in {"released", "transferred_physical"} :
                  /\ Fefo(taken, Total(taken), d)
                  /\ Draw(taken, reason) /\ journal' = Journalled(taken, t)
      <3>1. PICK taken \in Takings, d \in Dates, t \in {"release", "transfer_physical"},
                 reason \in {"released", "transferred_physical"} :
                 /\ Fefo(taken, Total(taken), d)
                 /\ Draw(taken, reason) /\ journal' = Journalled(taken, t)
        BY <2>8
      <3>2. taken \in [Lots -> Nat] /\ \A k \in Lots : taken[k] <= left[k]
        BY <3>1, Takes
      <3>3. t \in Types /\ reason \in Reasons
        BY Words
      <3>4. /\ left'[l] <= left[l] /\ lot'[l] = lot[l]
            /\ closed[l] # "open" => closed'[l] = closed[l]
        BY <2>4, <3>1, <3>2, <3>3
      <3> QED  BY <3>4 DEF Exists
    <2>9. ASSUME NEW k \in Lots, NEW reason \in Reasons, NEW t \in Types,
                 Draw(Only(k, left[k]), reason), journal' = Journalled(Only(k, left[k]), t)
          PROVE  /\ left'[l] <= left[l] /\ lot'[l] = lot[l]
                 /\ closed[l] # "open" => closed'[l] = closed[l]
      <3> DEFINE taken == Only(k, left[k])
      <3>1. taken \in [Lots -> Nat] /\ \A j \in Lots : taken[j] <= left[j]
        BY <1>1, Whole DEF Inv
      <3>2. Draw(taken, reason) /\ journal' = Journalled(taken, t)
        BY <2>9
      <3> HIDE DEF taken
      <3> QED  BY <2>4, <3>1, <3>2
    <2>10. CASE \E k \in Lots :
                  \/ Draw(Only(k, left[k]), "expired") /\ journal' = Journalled(Only(k, left[k]), "expiry")
                  \/ Draw(Only(k, left[k]), "reversed") /\ journal' = Journalled(Only(k, left[k]), "reversal")
      <3>1. /\ "expired" \in Reasons /\ "reversed" \in Reasons
            /\ "expiry" \in Types /\ "reversal" \in Types
        BY Words
      <3>2. /\ left'[l] <= left[l] /\ lot'[l] = lot[l]
            /\ closed[l] # "open" => closed'[l] = closed[l]
        BY <2>9, <2>10, <3>1
      <3> QED  BY <3>2 DEF Exists
    <2> QED  BY <1>1, <2>5, <2>6, <2>7, <2>8, <2>10, LotSteps
  <1>2. Inv /\ [Next]_vars => [LotsShrink]_vars
    BY <1>1 DEF LotsShrink
  <1> QED  BY <1>2, InvAlways, PTL DEF Spec, LotsOnlyShrink

-----------------------------------------------------------------------------
(* No unit is in two places *)

\* A row that was not inserted has no units.
Blank == \A l \in Lots : ~Exists(l) => lot[l].got = 0

Sold == Total([s \in Sales |-> Total(sold[s])])

\* Lots are accounted for, apart from the sales their releases went to.
Accounted == \A l \in Lots : lot[l].got = left[l] + Total(journal[l])

\* The releases of a lot are on the lines of sales.
OnLines == \A l \in Lots : journal[l]["release"] = Total([s \in Sales |-> sold[s][l]])

LEMMA FiniteParts ==
    IsFiniteSet(Lots) /\ IsFiniteSet(Sales) /\ IsFiniteSet(Origins) /\ IsFiniteSet(Types)
  <1>1. IsFiniteSet(Lots) /\ IsFiniteSet(Sales)
    BY Bounds, FS_Interval DEF Lots, Sales
  <1>2. IsFiniteSet({Shelf}) /\ IsFiniteSet({SecondLine})
    BY FS_Singleton
  <1>8. IsFiniteSet({Shelf} \cup {SecondLine})
    BY <1>2, FS_Union
  <1>9. ShelfLines = {Shelf} \cup {SecondLine}
    BY DEF ShelfLines
  <1>3. IsFiniteSet(Origins)
    BY <1>1, <1>8, <1>9, FS_Union DEF Origins
  <1>4. IsFiniteSet({"release"}) /\ IsFiniteSet({"transfer_physical"})
        /\ IsFiniteSet({"expiry"}) /\ IsFiniteSet({"reversal"})
    BY FS_Singleton
  <1>5. IsFiniteSet({"release"} \cup {"transfer_physical"}) /\ IsFiniteSet({"expiry"} \cup {"reversal"})
    BY <1>4, FS_Union
  <1>6. IsFiniteSet(({"release"} \cup {"transfer_physical"}) \cup ({"expiry"} \cup {"reversal"}))
    BY <1>5, FS_Union
  <1>7. Types = ({"release"} \cup {"transfer_physical"}) \cup ({"expiry"} \cup {"reversal"})
    BY DEF Types
  <1> QED  BY <1>1, <1>3, <1>6, <1>7

LEMMA ShelfIsNoLot ==
    /\ Shelf \notin Lots /\ Shelf \in Origins /\ SecondLine \notin Lots /\ SecondLine \in Origins
    /\ Lots \subseteq Origins /\ Shelf # SecondLine
  BY ShelfLinesAre

LEMMA SumsAreInts ==
    ASSUME TypeOK
    PROVE  /\ Made \in Int /\ InLots \in Int /\ WrittenOff \in Int /\ SentBack \in Int
           /\ Shipped \in Int /\ Sold \in Int
           /\ \A t \in Types : Moved(t) \in Int
           /\ \A s \in Sales : Total(sold[s]) \in Nat /\ Total(returned[s]) \in Nat
  <1>1. \A s \in Sales : /\ sold[s] \in [Origins -> Nat] /\ returned[s] \in [Origins -> Nat]
                         /\ sold[s][Shelf] \in Nat /\ sold[s][SecondLine] \in Nat
    BY ShelfIsNoLot DEF TypeOK
  <1>2. \A l \in Lots : lot[l].got \in Nat /\ left[l] \in Nat /\ \A t \in Types : journal[l][t] \in Nat
    BY DEF TypeOK, LotRows
  <1>3. \A s \in Sales : Total(sold[s]) \in Nat /\ Total(returned[s]) \in Nat
    BY <1>1, FiniteParts, TotalBounds
  <1>4. "expiry" \in Types /\ "reversal" \in Types
    BY Words
  <1>5. [l \in Lots |-> IF lot[l].source = "production" THEN lot[l].got ELSE 0] \in [Lots -> Int]
    BY <1>2
  <1>6. [l \in Lots |-> left[l]] \in [Lots -> Int]
    BY <1>2
  <1>7. [l \in Lots |-> journal[l]["expiry"] + journal[l]["reversal"]] \in [Lots -> Int]
    BY <1>2, <1>4
  <1>8. /\ [s \in Sales |-> Total(returned[s])] \in [Sales -> Int]
        /\ [s \in Sales |-> sold[s][Shelf] + sold[s][SecondLine]] \in [Sales -> Int]
        /\ [s \in Sales |-> Total(sold[s])] \in [Sales -> Int]
    BY <1>1, <1>3
  <1>9. \A t \in Types : [l \in Lots |-> journal[l][t]] \in [Lots -> Int]
    BY <1>2
  <1>10. Made \in Int
    BY <1>5, FiniteParts, TotalIsInt DEF Made
  <1>11. InLots \in Int
    BY <1>6, FiniteParts, TotalIsInt DEF InLots
  <1>12. WrittenOff \in Int
    BY <1>7, FiniteParts, TotalIsInt DEF WrittenOff
  <1>13. SentBack \in Int
    BY <1>8, FiniteParts, TotalIsInt DEF SentBack
  <1>14. Shipped \in Int
    BY <1>8, FiniteParts, TotalIsInt DEF Shipped
  <1>15. Sold \in Int
    BY <1>8, FiniteParts, TotalIsInt DEF Sold
  <1>16. \A t \in Types : Moved(t) \in Int
    BY <1>9, FiniteParts, TotalIsInt DEF Moved
  <1> QED  BY <1>3, <1>10, <1>11, <1>12, <1>13, <1>14, <1>15, <1>16

(***************************************************************************)
(* What a movement takes leaves the lots and is in their journal.          *)
(***************************************************************************)
LEMMA DrawingSums ==
    ASSUME Inv, NEW taken \in [Lots -> Nat], NEW reason \in Reasons, NEW t \in Types,
           \A l \in Lots : taken[l] <= left[l],
           Draw(taken, reason), journal' = Journalled(taken, t)
    PROVE  /\ Made' = Made
           /\ InLots' = InLots - Total(taken)
           /\ Moved(t)' = Moved(t) + Total(taken)
           /\ \A u \in Types : u # t => Moved(u)' = Moved(u)
           /\ t \in {"expiry", "reversal"} => WrittenOff' = WrittenOff + Total(taken)
           /\ t \notin {"expiry", "reversal"} => WrittenOff' = WrittenOff
           /\ Accounted => Accounted'
  <1>1. /\ LotsTyped' /\ lot' = lot
        /\ \A l \in Lots :
              /\ left'[l] = left[l] - taken[l]
              /\ \A u \in Types :
                    journal'[l][u] = IF u = t THEN journal[l][u] + taken[l] ELSE journal[l][u]
    BY Drawing
  <1>2. TypeOK
    BY DEF Inv
  <1>3. \A l \in Lots : /\ left[l] \in Nat /\ taken[l] \in Nat
                        /\ journal[l] \in [Types -> Nat] /\ journal'[l] \in [Types -> Nat]
                        /\ left'[l] \in Nat
    BY <1>1, <1>2 DEF TypeOK, LotsTyped
  <1>4. "expiry" \in Types /\ "reversal" \in Types
    BY Words
  <1>5. Made' = Made
    BY <1>1 DEF Made
  <1>6. taken \in [Lots -> Int]
    OBVIOUS
  <1>13. Total(taken) \in Int
    BY <1>6, FiniteParts, TotalIsInt
  <1>14. IsFiniteSet(Lots)
    BY FiniteParts
  <1>7. InLots' = InLots - Total(taken)
    <2> DEFINE f == [l \in Lots |-> left[l]]
               h == [l \in Lots |-> left'[l]]
    <2>1. f \in [Lots -> Int]
      BY <1>3
    <2>2. h \in [Lots -> Int]
      BY <1>3
    <2>3. \A l \in Lots : f[l] = h[l] + taken[l]
      BY <1>1, <1>3
    <2>4. InLots = Total(f) /\ InLots' = Total(h)
      BY DEF InLots
    <2> HIDE DEF f, h
    <2>5. Total(f) = Total(h) + Total(taken)
      BY <1>6, <1>14, <2>1, <2>2, <2>3, TotalAdds
    <2>6. Total(h) \in Int
      BY <2>2, FiniteParts, TotalIsInt
    <2> QED  BY <1>13, <2>4, <2>5, <2>6
  <1>8. Moved(t)' = Moved(t) + Total(taken)
    <2> DEFINE f == [l \in Lots |-> journal[l][t]]
               h == [l \in Lots |-> journal'[l][t]]
    <2>1. f \in [Lots -> Int]
      BY <1>3
    <2>2. h \in [Lots -> Int]
      BY <1>3
    <2>3. \A l \in Lots : h[l] = f[l] + taken[l]
      BY <1>1, <1>3
    <2>4. Moved(t) = Total(f) /\ Moved(t)' = Total(h)
      BY DEF Moved
    <2> HIDE DEF f, h
    <2>5. Total(h) = Total(f) + Total(taken)
      BY <1>6, <1>14, <2>1, <2>2, <2>3, TotalAdds
    <2> QED  BY <2>4, <2>5
  <1>9. ASSUME NEW u \in Types, u # t PROVE Moved(u)' = Moved(u)
    <2>1. [l \in Lots |-> journal'[l][u]] = [l \in Lots |-> journal[l][u]]
      BY <1>1, <1>9
    <2> QED  BY <2>1 DEF Moved
  <1>10. ASSUME t \in {"expiry", "reversal"} PROVE WrittenOff' = WrittenOff + Total(taken)
    <2> DEFINE f == [l \in Lots |-> journal[l]["expiry"] + journal[l]["reversal"]]
               h == [l \in Lots |-> journal'[l]["expiry"] + journal'[l]["reversal"]]
    <2>1. f \in [Lots -> Int]
      BY <1>3, <1>4
    <2>2. h \in [Lots -> Int]
      BY <1>3, <1>4
    <2>3. \A l \in Lots : h[l] = f[l] + taken[l]
      BY <1>1, <1>3, <1>4, <1>10
    <2>4. WrittenOff = Total(f) /\ WrittenOff' = Total(h)
      BY DEF WrittenOff
    <2> HIDE DEF f, h
    <2>5. Total(h) = Total(f) + Total(taken)
      BY <1>6, <1>14, <2>1, <2>2, <2>3, TotalAdds
    <2> QED  BY <2>4, <2>5
  <1>11. ASSUME t \notin {"expiry", "reversal"} PROVE WrittenOff' = WrittenOff
    <2>1. \A l \in Lots : /\ journal'[l]["expiry"] = journal[l]["expiry"]
                          /\ journal'[l]["reversal"] = journal[l]["reversal"]
      BY <1>1, <1>4, <1>11
    <2>2. [l \in Lots |-> journal'[l]["expiry"] + journal'[l]["reversal"]]
              = [l \in Lots |-> journal[l]["expiry"] + journal[l]["reversal"]]
      BY <2>1
    <2> QED  BY <2>2 DEF WrittenOff
  <1>12. ASSUME Accounted PROVE Accounted'
    <2> SUFFICES ASSUME NEW l \in Lots PROVE lot'[l].got = left'[l] + Total(journal'[l])
      BY DEF Accounted
    <2> DEFINE f == journal[l]
               h == journal'[l]
    <2>1. f \in [Types -> Int]
      BY <1>3
    <2>2. h \in [Types -> Int]
      BY <1>3
    <2>3. \A u \in Types \ {t} : h[u] = f[u]
      BY <1>1
    <2>4. h[t] = f[t] + taken[l] /\ f[t] \in Int
      BY <1>1, <1>3
    <2>5. lot[l].got = left[l] + Total(f)
      BY <1>12 DEF Accounted
    <2>9. lot'[l].got = lot[l].got /\ left'[l] = left[l] - taken[l]
      BY <1>1
    <2> HIDE DEF f, h
    <2>6. Total(h) = Total(f) + (h[t] - f[t])
      BY <2>1, <2>2, <2>3, FiniteParts, TotalChanges, Zenon
    <2>7. Total(f) \in Int
      BY <2>1, FiniteParts, TotalIsInt
    <2>8. lot'[l].got = left'[l] + Total(h)
      BY <2>4, <2>5, <2>6, <2>7, <2>9, <1>3
    <2> QED  BY <2>8 DEF h
  <1> QED  BY <1>5, <1>7, <1>8, <1>9, <1>10, <1>11, <1>12

(***************************************************************************)
(* A new lot brings its units.                                             *)
(***************************************************************************)
LEMMA InsertingSums ==
    ASSUME Inv, Blank, Accounted, NEW source \in {"production", "return"}, NEW e \in 0 .. Never,
           NEW r \in Days, NEW n \in Amounts, Insert(source, e, r, n)
    PROVE  /\ Made' = Made + (IF source = "production" THEN n ELSE 0)
           /\ InLots' = InLots + n
           /\ journal' = journal
           /\ Accounted'
           /\ \A l \in Lots : ~Exists(l)' => lot'[l].got = 0
  <1> DEFINE row == [source |-> source, expiry |-> e, received |-> r, got |-> n]
  <1>1. PICK k \in Lots :
          /\ ~Exists(k)
          /\ lot' = [lot EXCEPT ![k] = row]
          /\ left' = [left EXCEPT ![k] = n]
          /\ closed' = closed /\ journal' = journal
    BY DEF Insert
  <1>2. n \in Nat
    BY Bounds DEF Amounts
  <1>3. row.source = source /\ row.got = n
    OBVIOUS
  <1> HIDE DEF row
  <1>4. \A l \in Lots : /\ lot'[l] = IF l = k THEN row ELSE lot[l]
                        /\ left'[l] = IF l = k THEN n ELSE left[l]
    BY <1>1 DEF Inv, TypeOK
  <1>5. lot[k].source = "none" /\ lot[k].got = 0 /\ left[k] = 0
    BY <1>1 DEF Exists, Blank, Inv, LotsKept
  <1>6. \A l \in Lots : lot[l].got \in Nat /\ left[l] \in Nat /\ journal[l] \in [Types -> Nat]
    BY DEF Inv, TypeOK, LotRows
  <1>7. Made' = Made + (IF source = "production" THEN n ELSE 0)
    <2> DEFINE f == [l \in Lots |-> IF lot[l].source = "production" THEN lot[l].got ELSE 0]
               h == [l \in Lots |-> IF lot'[l].source = "production" THEN lot'[l].got ELSE 0]
    <2>1. f \in [Lots -> Int]
      BY <1>6
    <2>2. h \in [Lots -> Int]
      BY <1>2, <1>3, <1>4, <1>6
    <2>3. \A l \in Lots \ {k} : h[l] = f[l]
      BY <1>4
    <2>4. f[k] = 0 /\ h[k] = IF source = "production" THEN n ELSE 0
      BY <1>3, <1>4, <1>5
    <2>5. Made = Total(f) /\ Made' = Total(h)
      BY DEF Made
    <2> HIDE DEF f, h
    <2>6. Total(h) = Total(f) + (h[k] - f[k])
      BY <2>1, <2>2, <2>3, FiniteParts, TotalChanges
    <2>7. Total(f) \in Int
      BY <2>1, FiniteParts, TotalIsInt
    <2> QED  BY <2>4, <2>5, <2>6, <2>7, <1>2
  <1>8. InLots' = InLots + n
    <2> DEFINE f == [l \in Lots |-> left[l]]
               h == [l \in Lots |-> left'[l]]
    <2>1. f \in [Lots -> Int]
      BY <1>6
    <2>2. h \in [Lots -> Int]
      BY <1>2, <1>4, <1>6
    <2>3. \A l \in Lots \ {k} : h[l] = f[l]
      BY <1>4
    <2>4. f[k] = 0 /\ h[k] = n
      BY <1>4, <1>5
    <2>5. InLots = Total(f) /\ InLots' = Total(h)
      BY DEF InLots
    <2> HIDE DEF f, h
    <2>6. Total(h) = Total(f) + (h[k] - f[k])
      BY <2>1, <2>2, <2>3, FiniteParts, TotalChanges
    <2>7. Total(f) \in Int
      BY <2>1, FiniteParts, TotalIsInt
    <2> QED  BY <2>4, <2>5, <2>6, <2>7, <1>2
  <1>9. Accounted'
    <2> SUFFICES ASSUME NEW l \in Lots PROVE lot'[l].got = left'[l] + Total(journal'[l])
      BY DEF Accounted
    <2>1. lot[l].got = left[l] + Total(journal[l])
      BY DEF Accounted
    <2>2. CASE l # k
      BY <2>1, <2>2, <1>1, <1>4
    <2>3. CASE l = k
      <3>1. Total(journal[l]) \in Nat
        BY <1>6, FiniteParts, TotalBounds
      <3>2. Total(journal[l]) = 0
        BY <3>1, <2>1, <2>3, <1>5
      <3>3. lot'[l].got = n /\ left'[l] = n /\ journal'[l] = journal[l]
        BY <2>3, <1>1, <1>3, <1>4
      <3> QED  BY <3>2, <3>3, <1>2
    <2> QED  BY <2>2, <2>3
  <1>10. ASSUME NEW l \in Lots, ~Exists(l)' PROVE lot'[l].got = 0
    <2>1. l # k
      BY <1>10, <1>3, <1>4 DEF Exists
    <2>2. lot'[l] = lot[l]
      BY <2>1, <1>4
    <2> QED  BY <2>2, <1>10 DEF Exists, Blank
  <1> QED  BY <1>1, <1>7, <1>8, <1>9, <1>10

(***************************************************************************)
(* The first line of a sale finds it empty.                                *)
(***************************************************************************)
LEMMA NewSalesAreEmpty ==
    ASSUME TypeOK, NEW s \in Sales, NewSale(s)
    PROVE  \A o \in Origins : sold[s][o] = 0
  <1>1. sold[s] \in [Origins -> Nat]
    BY DEF TypeOK
  <1>2. Total(sold[s]) = 0
    BY DEF NewSale
  <1>3. \A o \in Origins : sold[s][o] <= 0
    BY <1>1, <1>2, FiniteParts, TotalBounds
  <1> QED  BY <1>1, <1>3

LEMMA SellingSums ==
    ASSUME TypeOK, NEW s \in Sales, NewSale(s), NEW row \in [Origins -> Nat],
           sold' = [sold EXCEPT ![s] = row], returned' = returned
    PROVE  /\ Sold' = Sold + Total(row)
           /\ SentBack' = SentBack
           /\ Shipped' = Shipped + (row[Shelf] + row[SecondLine])
           /\ \A o \in Origins :
                 Total([r \in Sales |-> sold'[r][o]]) = Total([r \in Sales |-> sold[r][o]]) + row[o]
  <1>1. \A o \in Origins : sold[s][o] = 0
    BY NewSalesAreEmpty
  <1>2. \A r \in Sales : sold'[r] = IF r = s THEN row ELSE sold[r]
    BY DEF TypeOK
  <1>3. \A r \in Sales : sold[r] \in [Origins -> Nat] /\ sold'[r] \in [Origins -> Nat]
    BY <1>2 DEF TypeOK
  <1>4. \A r \in Sales : Total(sold[r]) \in Nat /\ Total(sold'[r]) \in Nat
    BY <1>3, FiniteParts, TotalBounds
  <1>5. Sold' = Sold + Total(row)
    <2> DEFINE f == [r \in Sales |-> Total(sold[r])]
               h == [r \in Sales |-> Total(sold'[r])]
    <2>1. f \in [Sales -> Int]
      BY <1>4
    <2>2. h \in [Sales -> Int]
      BY <1>4
    <2>3. \A r \in Sales \ {s} : h[r] = f[r]
      BY <1>2
    <2>4. f[s] = 0 /\ h[s] = Total(row) /\ Total(row) \in Int
      BY <1>2, <1>4 DEF NewSale
    <2>5. Sold = Total(f) /\ Sold' = Total(h)
      BY DEF Sold
    <2> HIDE DEF f, h
    <2>6. Total(h) = Total(f) + (h[s] - f[s])
      BY <2>1, <2>2, <2>3, FiniteParts, TotalChanges
    <2>7. Total(f) \in Int
      BY <2>1, FiniteParts, TotalIsInt
    <2> QED  BY <2>4, <2>5, <2>6, <2>7
  <1>6. SentBack' = SentBack
    BY DEF SentBack
  <1>7. Shipped' = Shipped + (row[Shelf] + row[SecondLine])
    <2> DEFINE f == [r \in Sales |-> sold[r][Shelf] + sold[r][SecondLine]]
               h == [r \in Sales |-> sold'[r][Shelf] + sold'[r][SecondLine]]
    <2>1. f \in [Sales -> Int]
      BY <1>3, ShelfIsNoLot
    <2>2. h \in [Sales -> Int]
      BY <1>3, ShelfIsNoLot
    <2>3. \A r \in Sales \ {s} : h[r] = f[r]
      BY <1>2
    <2>4. f[s] = 0 /\ h[s] = row[Shelf] + row[SecondLine] /\ h[s] \in Int
      BY <1>1, <1>2, <2>2, ShelfIsNoLot
    <2>5. Shipped = Total(f) /\ Shipped' = Total(h)
      BY DEF Shipped
    <2> HIDE DEF f, h
    <2>6. Total(h) = Total(f) + (h[s] - f[s])
      BY <2>1, <2>2, <2>3, FiniteParts, TotalChanges
    <2>7. Total(f) \in Int
      BY <2>1, FiniteParts, TotalIsInt
    <2> QED  BY <2>4, <2>5, <2>6, <2>7
  <1>8. ASSUME NEW o \in Origins
        PROVE  Total([r \in Sales |-> sold'[r][o]]) = Total([r \in Sales |-> sold[r][o]]) + row[o]
    <2> DEFINE f == [r \in Sales |-> sold[r][o]]
               h == [r \in Sales |-> sold'[r][o]]
    <2>1. f \in [Sales -> Int]
      BY <1>3
    <2>2. h \in [Sales -> Int]
      BY <1>3
    <2>3. \A r \in Sales \ {s} : h[r] = f[r]
      BY <1>2
    <2>4. f[s] = 0 /\ h[s] = row[o] /\ row[o] \in Int
      BY <1>1, <1>2
    <2> HIDE DEF f, h
    <2>6. Total(h) = Total(f) + (h[s] - f[s])
      BY <2>1, <2>2, <2>3, FiniteParts, TotalChanges
    <2>7. Total(f) \in Int
      BY <2>1, FiniteParts, TotalIsInt
    <2>8. Total(h) = Total(f) + row[o]
      BY <2>4, <2>6, <2>7
    <2> QED  BY <2>8 DEF f, h
  <1> QED  BY <1>5, <1>6, <1>7, <1>8

LEMMA ReturningSums ==
    ASSUME TypeOK, NEW s \in Sales, NEW o \in Origins, NEW n \in Amounts,
           returned' = [returned EXCEPT ![s][o] = @ + n]
    PROVE  SentBack' = SentBack + n
  <1>1. n \in Nat /\ n > 0
    BY Bounds DEF Amounts
  <1>2. \A r \in Sales : returned[r] \in [Origins -> Nat]
    BY DEF TypeOK
  <1>3. \A r \in Sales : returned'[r] = IF r = s THEN [returned[s] EXCEPT ![o] = @ + n] ELSE returned[r]
    BY DEF TypeOK
  <1>4. returned'[s] = [returned[s] EXCEPT ![o] = @ + n]
    BY <1>3
  <1>5. returned'[s] \in [Origins -> Nat]
    BY <1>1, <1>2, <1>4
  <1>6. \A p \in Origins : returned'[s][p] = IF p = o THEN returned[s][o] + n ELSE returned[s][p]
    BY <1>2, <1>4
  <1>7. Total(returned'[s]) = Total(returned[s]) + n
    <2> DEFINE f == returned[s]
               h == returned'[s]
    <2>1. f \in [Origins -> Int]
      BY <1>2
    <2>2. h \in [Origins -> Int]
      BY <1>5
    <2>3. \A p \in Origins \ {o} : h[p] = f[p]
      BY <1>6
    <2>4. h[o] = f[o] + n /\ f[o] \in Int
      BY <1>2, <1>6
    <2> HIDE DEF f, h
    <2>6. Total(h) = Total(f) + (h[o] - f[o])
      BY <2>1, <2>2, <2>3, FiniteParts, TotalChanges
    <2>7. Total(f) \in Int
      BY <2>1, FiniteParts, TotalIsInt
    <2>8. Total(h) = Total(f) + n
      BY <2>4, <2>6, <2>7, <1>1
    <2> QED  BY <2>8 DEF f, h
  <1>8. \A r \in Sales : Total(returned[r]) \in Nat
    BY <1>2, FiniteParts, TotalBounds
  <1>9. SentBack' = SentBack + n
    <2> DEFINE f == [r \in Sales |-> Total(returned[r])]
               h == [r \in Sales |-> Total(returned'[r])]
    <2>1. f \in [Sales -> Int]
      BY <1>8
    <2>2. h \in [Sales -> Int]
      BY <1>1, <1>3, <1>7, <1>8
    <2>3. \A r \in Sales \ {s} : h[r] = f[r]
      BY <1>3
    <2>4. h[s] = f[s] + n /\ f[s] \in Int
      BY <1>7, <1>8
    <2>5. SentBack = Total(f) /\ SentBack' = Total(h)
      BY DEF SentBack
    <2> HIDE DEF f, h
    <2>6. Total(h) = Total(f) + (h[s] - f[s])
      BY <2>1, <2>2, <2>3, FiniteParts, TotalChanges
    <2>7. Total(f) \in Int
      BY <2>1, FiniteParts, TotalIsInt
    <2> QED  BY <2>4, <2>5, <2>6, <2>7, <1>1
  <1> QED  BY <1>9

-----------------------------------------------------------------------------
(* What is conserved, action by action *)

Balance ==
    Made + Shipped = InLots + (Sold - SentBack) + counter.transferred + WrittenOff + scrapped

Books == Accounted /\ OnLines /\ Balance /\ counter.transferred = Moved("transfer_physical")

Conserved == Inv /\ Blank /\ Books

\* What leaves lots and sales alone.
LEMMA StillConserved ==
    ASSUME Conserved, UNCHANGED <<lots, trade>>, counter'.transferred = counter.transferred
    PROVE  Books' /\ Blank'
  <1>1. UNCHANGED <<lot, left, journal, sold, returned, scrapped>>
    BY DEF lots, trade
  <1>2. /\ Made' = Made /\ InLots' = InLots /\ WrittenOff' = WrittenOff /\ Shipped' = Shipped
        /\ Sold' = Sold /\ SentBack' = SentBack
        /\ Moved("transfer_physical")' = Moved("transfer_physical")
    BY <1>1 DEF Made, InLots, WrittenOff, Moved, Shipped, Sold, SentBack
  <1>3. Accounted' /\ OnLines'
    BY <1>1 DEF Conserved, Books, Accounted, OnLines
  <1>4. Balance' /\ Blank'
    BY <1>1, <1>2 DEF Conserved, Books, Balance, Blank, Exists
  <1> QED  BY <1>2, <1>3, <1>4 DEF Conserved, Books

LEMMA ReceiveConserves ==
    ASSUME Conserved, NEW n \in Amounts, NEW e \in 0 .. Never, ReceiveMarketProduction(n, e)
    PROVE  Books' /\ Blank'
  <1>1. TypeOK /\ Inv /\ Blank /\ day \in Days
    BY DEF Conserved, Inv, TypeOK
  <1>2. /\ Accounted /\ OnLines /\ Balance
        /\ counter.transferred = Moved("transfer_physical")
    BY DEF Conserved, Books
  <1>3. /\ Insert("production", e, day, n)
        /\ UNCHANGED <<house, sold, returned, scrapped, shelf, counter, editing>>
    BY DEF ReceiveMarketProduction, trade, rack
  <1>4. /\ Made' = Made + n
        /\ InLots' = InLots + n
        /\ journal' = journal
        /\ Accounted'
        /\ \A l \in Lots : ~Exists(l)' => lot'[l].got = 0
    BY <1>1, <1>2, <1>3, InsertingSums
  <1>5. Shipped' = Shipped /\ Sold' = Sold /\ SentBack' = SentBack
        /\ WrittenOff' = WrittenOff /\ Moved("transfer_physical")' = Moved("transfer_physical")
    BY <1>3, <1>4 DEF Shipped, Sold, SentBack, WrittenOff, Moved
  <1>6. OnLines'
    BY <1>2, <1>3, <1>4 DEF OnLines
  <1>7. Balance'
    <2>1. /\ Made \in Int /\ InLots \in Int /\ WrittenOff \in Int /\ SentBack \in Int
          /\ Shipped \in Int /\ Sold \in Int
      BY <1>1, SumsAreInts
    <2>2. n \in Int /\ counter.transferred \in Int /\ scrapped \in Int
      BY <1>1, Bounds DEF TypeOK, Amounts, Counters
    <2>3. counter' = counter /\ scrapped' = scrapped
      BY <1>3
    <2> QED  BY <1>2, <1>4, <1>5, <2>1, <2>2, <2>3 DEF Balance
  <1>8. Blank'
    BY <1>1, <1>3, <1>4 DEF Blank
  <1> QED  BY <1>2, <1>3, <1>4, <1>5, <1>6, <1>7, <1>8 DEF Books

LEMMA ReleaseConserves ==
    ASSUME Conserved, NEW s \in Sales, NEW taken \in Takings, NEW d, ReleaseMarketStock(s, taken, d)
    PROVE  Books' /\ Blank'
  <1>1. TypeOK /\ Inv /\ Blank
    BY DEF Conserved, Inv
  <1>2. /\ Accounted /\ OnLines /\ Balance
        /\ counter.transferred = Moved("transfer_physical")
    BY DEF Conserved, Books
  <1>3. /\ NewSale(s) /\ Draw(taken, "released") /\ journal' = Journalled(taken, "release")
        /\ UNCHANGED <<returned, scrapped, counter>>
    BY DEF ReleaseMarketStock, Enter, rack
  <1>4. taken \in [Lots -> Nat] /\ \A l \in Lots : taken[l] <= left[l]
    BY Takes DEF ReleaseMarketStock
  <1>5. /\ "release" \in Types /\ "released" \in Reasons /\ "transfer_physical" \in Types
        /\ "release" \notin {"expiry", "reversal"} /\ "transfer_physical" # "release"
    BY Words
  <1>6. /\ Made' = Made
        /\ InLots' = InLots - Total(taken)
        /\ Moved("transfer_physical")' = Moved("transfer_physical")
        /\ WrittenOff' = WrittenOff
        /\ Accounted'
    BY <1>1, <1>2, <1>3, <1>4, <1>5, DrawingSums
  <1> DEFINE row == [o \in Origins |-> IF o \in Lots THEN taken[o] ELSE 0]
  <1>7. sold' = [sold EXCEPT ![s] = row]
    <2>1. DOMAIN taken = Lots
      BY <1>4
    <2> QED  BY <2>1 DEF ReleaseMarketStock, Enter
  <1>8. row \in [Origins -> Nat]
    BY <1>4
  <1>9. row[Shelf] = 0 /\ row[SecondLine] = 0 /\ \A l \in Lots : row[l] = taken[l]
    BY ShelfIsNoLot
  <1>10. Total(row) = Total(taken)
    <2>1. row \in [Origins -> Int]
      BY <1>4
    <2>2. taken \in [Lots -> Int]
      BY <1>4
    <2>3. \A o \in Origins \ Lots : row[o] = 0
      OBVIOUS
    <2>4. Lots \in SUBSET Origins
      BY ShelfIsNoLot
    <2>5. \A l \in Lots : taken[l] = row[l]
      BY <1>9
    <2> HIDE DEF row
    <2> QED  BY <2>1, <2>2, <2>3, <2>4, <2>5, FiniteParts, TotalOfSome
  <1> HIDE DEF row
  <1>11. /\ Sold' = Sold + Total(row)
         /\ SentBack' = SentBack
         /\ Shipped' = Shipped + (row[Shelf] + row[SecondLine])
         /\ \A o \in Origins :
              Total([r \in Sales |-> sold'[r][o]]) = Total([r \in Sales |-> sold[r][o]]) + row[o]
    BY <1>1, <1>2, <1>3, <1>7, <1>8, SellingSums
  <1>12. /\ Made \in Int /\ InLots \in Int /\ WrittenOff \in Int /\ SentBack \in Int
         /\ Shipped \in Int /\ Sold \in Int
    BY <1>1, SumsAreInts
  <1>13. Shipped' = Shipped
    BY <1>9, <1>11, <1>12
  <1>14. OnLines'
    <2> SUFFICES ASSUME NEW l \in Lots
                 PROVE  journal'[l]["release"] = Total([r \in Sales |-> sold'[r][l]])
      BY DEF OnLines
    <2>1. journal'[l]["release"] = journal[l]["release"] + taken[l]
      BY <1>1, <1>3, <1>4, <1>5, Drawing
    <2>2. Total([r \in Sales |-> sold'[r][l]]) = Total([r \in Sales |-> sold[r][l]]) + taken[l]
      BY <1>9, <1>11, ShelfIsNoLot
    <2>3. journal[l]["release"] = Total([r \in Sales |-> sold[r][l]])
      BY <1>2 DEF OnLines
    <2> QED  BY <2>1, <2>2, <2>3
  <1>15. Balance'
    <2>1. Total(taken) \in Int
      <3>1. taken \in [Lots -> Int]
        BY <1>4
      <3> QED  BY <3>1, FiniteParts, TotalIsInt
    <2>2. counter.transferred \in Int /\ scrapped \in Int
      BY <1>1 DEF TypeOK, Counters
    <2>3. counter' = counter /\ scrapped' = scrapped
      BY <1>3
    <2> QED  BY <1>2, <1>6, <1>10, <1>11, <1>12, <1>13, <2>1, <2>2, <2>3 DEF Balance
  <1>16. Blank'
    <2>1. lot' = lot
      BY <1>3 DEF Draw
    <2> QED  BY <2>1, <1>1, <1>3 DEF Blank, Exists
  <1> QED  BY <1>2, <1>3, <1>6, <1>11, <1>14, <1>15, <1>16 DEF Books

LEMMA TransferConserves ==
    ASSUME Conserved, NEW taken \in Takings, NEW d, TransferToPhysical(taken, d)
    PROVE  Books' /\ Blank'
  <1>1. TypeOK /\ Inv /\ Blank
    BY DEF Conserved, Inv
  <1>2. /\ Accounted /\ OnLines /\ Balance
        /\ counter.transferred = Moved("transfer_physical")
    BY DEF Conserved, Books
  <1>3. /\ Draw(taken, "transferred_physical") /\ journal' = Journalled(taken, "transfer_physical")
        /\ UNCHANGED <<house, sold, returned, scrapped, editing>>
    BY DEF TransferToPhysical, trade
  <1>4. taken \in [Lots -> Nat] /\ \A l \in Lots : taken[l] <= left[l]
    BY Takes DEF TransferToPhysical
  <1>5. /\ "release" \in Types /\ "transferred_physical" \in Reasons /\ "transfer_physical" \in Types
        /\ "transfer_physical" \notin {"expiry", "reversal"} /\ "transfer_physical" # "release"
    BY Words
  <1> DEFINE n == Total(taken)
  <1>6. /\ Made' = Made
        /\ InLots' = InLots - n
        /\ Moved("transfer_physical")' = Moved("transfer_physical") + n
        /\ WrittenOff' = WrittenOff
        /\ Accounted'
    BY <1>1, <1>2, <1>3, <1>4, <1>5, DrawingSums
  <1>7. n \in Int
    <2>1. taken \in [Lots -> Int]
      BY <1>4
    <2> QED  BY <2>1, FiniteParts, TotalIsInt
  <1>8. counter' = [counter EXCEPT !.transferred = @ + n]
    BY DEF TransferToPhysical
  <1> HIDE DEF n
  <1>9. counter \in Counters /\ counter.transferred \in Int /\ scrapped \in Int
    BY <1>1 DEF TypeOK, Counters
  <1>10. counter'.transferred = counter.transferred + n
    BY <1>8, <1>9 DEF Counters
  <1>11. Shipped' = Shipped /\ Sold' = Sold /\ SentBack' = SentBack
    BY <1>3 DEF Shipped, Sold, SentBack
  <1>12. OnLines'
    <2>1. \A l \in Lots : journal'[l]["release"] = journal[l]["release"]
      BY <1>1, <1>3, <1>4, <1>5, Drawing
    <2> QED  BY <2>1, <1>2, <1>3 DEF OnLines
  <1>13. Balance'
    <2>1. /\ Made \in Int /\ InLots \in Int /\ WrittenOff \in Int /\ SentBack \in Int
          /\ Shipped \in Int /\ Sold \in Int
      BY <1>1, SumsAreInts
    <2>2. scrapped' = scrapped /\ counter.transferred \in Int
      BY <1>3, <1>9
    <2> QED  BY <1>2, <1>6, <1>7, <1>9, <1>10, <1>11, <2>1, <2>2 DEF Balance
  <1>14. Blank'
    <2>1. lot' = lot
      BY <1>3 DEF Draw
    <2> QED  BY <2>1, <1>1, <1>3 DEF Blank, Exists
  <1>15. counter'.transferred = Moved("transfer_physical")'
    BY <1>2, <1>6, <1>10
  <1> QED  BY <1>6, <1>12, <1>13, <1>14, <1>15 DEF Books

LEMMA WriteOffConserves ==
    ASSUME Conserved, NEW l \in Lots, ReconcileExpired(l) \/ ReverseProductionLot(l)
    PROVE  Books' /\ Blank'
  <1>1. TypeOK /\ Inv /\ Blank
    BY DEF Conserved, Inv
  <1>2. /\ Accounted /\ OnLines /\ Balance
        /\ counter.transferred = Moved("transfer_physical")
    BY DEF Conserved, Books
  <1> DEFINE taken == Only(l, left[l])
  <1>3. PICK t \in {"expiry", "reversal"}, reason \in Reasons :
          Draw(taken, reason) /\ journal' = Journalled(taken, t)
    BY Words DEF ReconcileExpired, ReverseProductionLot
  <1>4. UNCHANGED <<house, sold, returned, scrapped, shelf, counter, editing>>
    BY DEF ReconcileExpired, ReverseProductionLot, trade, rack
  <1>5. taken \in [Lots -> Nat] /\ \A k \in Lots : taken[k] <= left[k]
    BY <1>1, Whole
  <1>6. /\ "release" \in Types /\ "transfer_physical" \in Types /\ t \in Types
        /\ t # "transfer_physical" /\ t # "release"
    BY Words
  <1> HIDE DEF taken
  <1>7. /\ Made' = Made
        /\ InLots' = InLots - Total(taken)
        /\ Moved("transfer_physical")' = Moved("transfer_physical")
        /\ WrittenOff' = WrittenOff + Total(taken)
        /\ Accounted'
    BY <1>1, <1>2, <1>3, <1>5, <1>6, DrawingSums
  <1>8. Shipped' = Shipped /\ Sold' = Sold /\ SentBack' = SentBack
    BY <1>4 DEF Shipped, Sold, SentBack
  <1>9. OnLines'
    <2>1. \A k \in Lots : journal'[k]["release"] = journal[k]["release"]
      BY <1>1, <1>3, <1>5, <1>6, Drawing
    <2> QED  BY <2>1, <1>2, <1>4 DEF OnLines
  <1>10. Balance'
    <2>1. /\ Made \in Int /\ InLots \in Int /\ WrittenOff \in Int /\ SentBack \in Int
          /\ Shipped \in Int /\ Sold \in Int
      BY <1>1, SumsAreInts
    <2>2. counter.transferred \in Int /\ scrapped \in Int
      BY <1>1 DEF TypeOK, Counters
    <2>3. Total(taken) \in Int
      <3>1. taken \in [Lots -> Int]
        BY <1>5
      <3> QED  BY <3>1, FiniteParts, TotalIsInt
    <2>4. counter' = counter /\ scrapped' = scrapped
      BY <1>4
    <2> QED  BY <1>2, <1>7, <1>8, <2>1, <2>2, <2>3, <2>4 DEF Balance
  <1>11. Blank'
    <2>1. lot' = lot
      BY <1>3 DEF Draw
    <2> QED  BY <2>1, <1>1, <1>4 DEF Blank, Exists
  <1> QED  BY <1>2, <1>4, <1>7, <1>9, <1>10, <1>11 DEF Books

LEMMA ReturnsConserve ==
    ASSUME Conserved, NEW s \in Sales, NEW o \in Origins, NEW n \in Amounts, NEW d \in Dates,
           Redistribute(s, o, n, d) \/ Scrap(s, o, n)
    PROVE  Books' /\ Blank'
  <1>1. TypeOK /\ Inv /\ Blank
    BY DEF Conserved, Inv
  <1>2. /\ Accounted /\ OnLines /\ Balance
        /\ counter.transferred = Moved("transfer_physical")
    BY DEF Conserved, Books
  <1>3. returned' = [returned EXCEPT ![s][o] = @ + n] /\ UNCHANGED <<sold, counter>>
    BY DEF Redistribute, Scrap, rack
  <1>4. SentBack' = SentBack + n
    BY <1>1, <1>2, <1>3, ReturningSums
  <1>5. Shipped' = Shipped /\ Sold' = Sold
    BY <1>3 DEF Shipped, Sold
  <1>6. /\ Made \in Int /\ InLots \in Int /\ WrittenOff \in Int /\ SentBack \in Int
        /\ Shipped \in Int /\ Sold \in Int
    BY <1>1, SumsAreInts
  <1>7. n \in Int /\ counter.transferred \in Int /\ scrapped \in Int
    BY <1>1, Bounds DEF TypeOK, Amounts, Counters
  <1>8. CASE Redistribute(s, o, n, d)
    <2>1. ExpiryOf(o) \in 0 .. Never
      BY <1>1, Bounds DEF ExpiryOf, Never, TypeOK, LotRows
    <2>2. d \in Days
      BY <1>1, DatesType
    <2>3. Insert("return", ExpiryOf(o), d, n) /\ scrapped' = scrapped
      BY <1>8 DEF Redistribute
    <2>4. /\ Made' = Made + 0
          /\ InLots' = InLots + n
          /\ journal' = journal
          /\ Accounted'
          /\ \A l \in Lots : ~Exists(l)' => lot'[l].got = 0
      BY <1>1, <1>2, <2>1, <2>2, <2>3, InsertingSums
    <2>5. WrittenOff' = WrittenOff /\ Moved("transfer_physical")' = Moved("transfer_physical")
      BY <2>4 DEF WrittenOff, Moved
    <2>6. OnLines'
      BY <1>2, <1>3, <2>4 DEF OnLines
    <2>7. Balance'
      BY <1>2, <1>3, <1>4, <1>5, <1>6, <1>7, <2>3, <2>4, <2>5 DEF Balance
    <2>8. Blank'
      BY <1>1, <1>3, <2>4 DEF Blank
    <2> QED  BY <1>2, <1>3, <1>4, <2>4, <2>5, <2>6, <2>7, <2>8 DEF Books
  <1>9. CASE Scrap(s, o, n)
    <2>1. scrapped' = scrapped + n /\ UNCHANGED <<lot, left, journal>>
      BY <1>9 DEF Scrap, lots
    <2>2. /\ Made' = Made /\ InLots' = InLots /\ WrittenOff' = WrittenOff
          /\ Moved("transfer_physical")' = Moved("transfer_physical")
      BY <2>1 DEF Made, InLots, WrittenOff, Moved
    <2>3. Accounted' /\ OnLines'
      BY <1>2, <1>3, <2>1 DEF Accounted, OnLines
    <2>4. Balance'
      BY <1>2, <1>3, <1>4, <1>5, <1>6, <1>7, <2>1, <2>2 DEF Balance
    <2>5. Blank'
      BY <1>1, <1>3, <2>1 DEF Blank, Exists
    <2> QED  BY <1>2, <1>3, <1>4, <2>2, <2>3, <2>4, <2>5 DEF Books
  <1> QED  BY <1>8, <1>9

\* A sale off the shelf has lines of the shelf only.
LEMMA ShelfSaleConserves ==
    ASSUME Conserved, NEW s \in Sales, NEW S \in {ShelfLines, {Shelf}}, NEW rows, NEW units,
           DOMAIN rows = S, DOMAIN units = S, \A o \in S : rows[o] \in Lines /\ units[o] \in Nat,
           Enter(s, rows, units), UNCHANGED lots, counter'.transferred = counter.transferred
    PROVE  Books' /\ Blank'
  <1>1. TypeOK /\ Inv /\ Blank
    BY DEF Conserved, Inv
  <1>2. /\ Accounted /\ OnLines /\ Balance
        /\ counter.transferred = Moved("transfer_physical")
    BY DEF Conserved, Books
  <1>3. NewSale(s) /\ UNCHANGED <<lot, left, journal, returned, scrapped>>
    BY DEF Enter, lots
  <1> DEFINE row == [o \in Origins |-> IF o \in S THEN units[o] ELSE 0]
  <1>5. sold' = [sold EXCEPT ![s] = row]
    BY DEF Enter
  <1>6. S \subseteq ShelfLines
    BY ShelfLinesAre
  <1>7. row \in [Origins -> Nat]
    OBVIOUS
  <1>8. \A o \in Origins : o # Shelf /\ o # SecondLine => row[o] = 0
    BY <1>6, ShelfLinesAre
  <1> HIDE DEF row
  <1>9. \A l \in Lots : row[l] = 0
    BY <1>8, ShelfIsNoLot
  <1>10. Total(row) = row[Shelf] + row[SecondLine]
    <2> DEFINE f == [o \in Origins |-> IF o = Shelf THEN row[o] ELSE 0]
               g == [o \in Origins |-> IF o = SecondLine THEN row[o] ELSE 0]
    <2>1. f \in [Origins -> Int] /\ g \in [Origins -> Int] /\ row \in [Origins -> Int]
      BY <1>7
    <2>2. \A o \in Origins : row[o] = f[o] + g[o]
      BY <1>7, <1>8, ShelfIsNoLot
    <2>3. f[Shelf] = row[Shelf] /\ \A o \in Origins \ {Shelf} : f[o] = 0
      BY ShelfIsNoLot
    <2>4. g[SecondLine] = row[SecondLine] /\ \A o \in Origins \ {SecondLine} : g[o] = 0
      BY ShelfIsNoLot
    <2> HIDE DEF f, g
    <2>5. Total(f) = f[Shelf]
      BY <2>1, <2>3, FiniteParts, ShelfIsNoLot, TotalOfOne
    <2>6. Total(g) = g[SecondLine]
      BY <2>1, <2>4, FiniteParts, ShelfIsNoLot, TotalOfOne
    <2>8. IsFiniteSet(Origins)
      BY FiniteParts
    <2>7. Total(row) = Total(f) + Total(g)
      BY <2>1, <2>2, <2>8, TotalAdds
    <2> QED  BY <2>3, <2>4, <2>5, <2>6, <2>7
  <1>11. /\ Sold' = Sold + Total(row)
         /\ SentBack' = SentBack
         /\ Shipped' = Shipped + (row[Shelf] + row[SecondLine])
         /\ \A o \in Origins :
              Total([r \in Sales |-> sold'[r][o]]) = Total([r \in Sales |-> sold[r][o]]) + row[o]
    BY <1>1, <1>3, <1>5, <1>7, SellingSums
  <1>12. /\ Made' = Made /\ InLots' = InLots /\ WrittenOff' = WrittenOff
         /\ Moved("transfer_physical")' = Moved("transfer_physical")
    BY <1>3 DEF Made, InLots, WrittenOff, Moved
  <1>13. Accounted'
    BY <1>2, <1>3 DEF Accounted
  <1>14. OnLines'
    <2> SUFFICES ASSUME NEW l \in Lots
                 PROVE  journal'[l]["release"] = Total([r \in Sales |-> sold'[r][l]])
      BY DEF OnLines
    <2>1. journal'[l]["release"] = Total([r \in Sales |-> sold[r][l]])
      BY <1>2, <1>3 DEF OnLines
    <2>2. Total([r \in Sales |-> sold'[r][l]]) = Total([r \in Sales |-> sold[r][l]]) + 0
      BY <1>9, <1>11, ShelfIsNoLot
    <2>3. "release" \in Types /\ journal[l]["release"] \in Int /\ journal' = journal
      BY <1>1, <1>3, Words DEF TypeOK
    <2> QED  BY <2>1, <2>2, <2>3
  <1>15. Balance'
    <2>1. /\ Made \in Int /\ InLots \in Int /\ WrittenOff \in Int /\ SentBack \in Int
          /\ Shipped \in Int /\ Sold \in Int
      BY <1>1, SumsAreInts
    <2>2. scrapped' = scrapped /\ scrapped \in Int /\ counter.transferred \in Int
      BY <1>1, <1>3 DEF TypeOK, Counters
    <2>3. row[Shelf] \in Int /\ row[SecondLine] \in Int
      BY <1>7, ShelfIsNoLot
    <2> QED  BY <1>2, <1>10, <1>11, <1>12, <2>1, <2>2, <2>3 DEF Balance
  <1>16. Blank'
    BY <1>1, <1>3 DEF Blank, Exists
  <1> QED  BY <1>2, <1>12, <1>13, <1>14, <1>15, <1>16 DEF Books

LEMMA InitConserved == Init => Conserved
  <1> SUFFICES ASSUME Init PROVE Blank /\ Books
    BY InitInv DEF Conserved
  <1>1. Blank
    BY DEF Init, Blank
  <1>2. \A l \in Lots : lot[l].got = 0 /\ left[l] = 0 /\ \A t \in Types : journal[l][t] = 0
    BY DEF Init
  <1>3. \A s \in Sales, o \in Origins : sold[s][o] = 0 /\ returned[s][o] = 0
    BY DEF Init
  <1>4. TypeOK
    BY InitInv DEF Inv
  <1>5. \A l \in Lots : Total(journal[l]) = 0
    <2>1. \A l \in Lots : journal[l] \in [Types -> Int]
      BY <1>4 DEF TypeOK
    <2> QED  BY <2>1, <1>2, FiniteParts, TotalOfNothing
  <1>6. \A o \in Origins : Total([s \in Sales |-> sold[s][o]]) = 0
    <2> TAKE o \in Origins
    <2> DEFINE f == [s \in Sales |-> sold[s][o]]
    <2>1. f \in [Sales -> Int] /\ \A s \in Sales : f[s] = 0
      BY <1>3
    <2> HIDE DEF f
    <2>2. Total(f) = 0
      BY <2>1, FiniteParts, TotalOfNothing
    <2> QED  BY <2>2 DEF f
  <1>7. \A s \in Sales : Total(sold[s]) = 0 /\ Total(returned[s]) = 0
    <2>1. \A s \in Sales : sold[s] \in [Origins -> Int] /\ returned[s] \in [Origins -> Int]
      BY <1>4 DEF TypeOK
    <2> QED  BY <2>1, <1>3, FiniteParts, TotalOfNothing
  <1>8. Shipped = 0
    <2> DEFINE f == [s \in Sales |-> sold[s][Shelf] + sold[s][SecondLine]]
    <2>1. f \in [Sales -> Int] /\ \A s \in Sales : f[s] = 0
      BY <1>3, ShelfIsNoLot
    <2> HIDE DEF f
    <2>2. Total(f) = 0
      BY <2>1, FiniteParts, TotalOfNothing
    <2> QED  BY <2>2 DEF f, Shipped
  <1>9. Sold = 0
    <2> DEFINE f == [s \in Sales |-> Total(sold[s])]
    <2>1. f \in [Sales -> Int] /\ \A s \in Sales : f[s] = 0
      BY <1>7
    <2> HIDE DEF f
    <2>2. Total(f) = 0
      BY <2>1, FiniteParts, TotalOfNothing
    <2> QED  BY <2>2 DEF f, Sold
  <1>10. SentBack = 0
    <2> DEFINE f == [s \in Sales |-> Total(returned[s])]
    <2>1. f \in [Sales -> Int] /\ \A s \in Sales : f[s] = 0
      BY <1>7
    <2> HIDE DEF f
    <2>2. Total(f) = 0
      BY <2>1, FiniteParts, TotalOfNothing
    <2> QED  BY <2>2 DEF f, SentBack
  <1>11. Made = 0
    <2> DEFINE f == [l \in Lots |-> IF lot[l].source = "production" THEN lot[l].got ELSE 0]
    <2>1. f \in [Lots -> Int] /\ \A l \in Lots : f[l] = 0
      BY <1>2
    <2> HIDE DEF f
    <2>2. Total(f) = 0
      BY <2>1, FiniteParts, TotalOfNothing
    <2> QED  BY <2>2 DEF f, Made
  <1>12. InLots = 0
    <2> DEFINE f == [l \in Lots |-> left[l]]
    <2>1. f \in [Lots -> Int] /\ \A l \in Lots : f[l] = 0
      BY <1>2
    <2> HIDE DEF f
    <2>2. Total(f) = 0
      BY <2>1, FiniteParts, TotalOfNothing
    <2> QED  BY <2>2 DEF f, InLots
  <1>13. WrittenOff = 0
    <2> DEFINE f == [l \in Lots |-> journal[l]["expiry"] + journal[l]["reversal"]]
    <2>1. f \in [Lots -> Int] /\ \A l \in Lots : f[l] = 0
      BY <1>2, Words
    <2> HIDE DEF f
    <2>2. Total(f) = 0
      BY <2>1, FiniteParts, TotalOfNothing
    <2> QED  BY <2>2 DEF f, WrittenOff
  <1>14. Moved("transfer_physical") = 0
    <2> DEFINE f == [l \in Lots |-> journal[l]["transfer_physical"]]
    <2>1. f \in [Lots -> Int] /\ \A l \in Lots : f[l] = 0
      BY <1>2, Words
    <2> HIDE DEF f
    <2>2. Total(f) = 0
      BY <2>1, FiniteParts, TotalOfNothing
    <2> QED  BY <2>2 DEF f, Moved
  <1>15. counter.transferred = 0 /\ scrapped = 0
    BY DEF Init
  <1>16. Accounted /\ OnLines
    BY <1>2, <1>3, <1>5, <1>6, Words, ShelfIsNoLot DEF Accounted, OnLines
  <1>17. Balance
    BY <1>8, <1>9, <1>10, <1>11, <1>12, <1>13, <1>15 DEF Balance
  <1> QED  BY <1>1, <1>14, <1>15, <1>16, <1>17 DEF Books

LEMMA ConservedStep ==
    ASSUME Conserved, [Next]_vars
    PROVE  Books' /\ Blank'
  <1>6. TypeOK
    BY DEF Conserved, Inv
  <1>1. CASE UNCHANGED vars
    BY <1>1, StillConserved DEF vars, rack
  <1>2. CASE Stockroom
    <2>1. CASE \E n \in Amounts, e \in 0 .. Never : ReceiveMarketProduction(n, e)
      BY <2>1, ReceiveConserves
    <2>2. CASE \E s \in Sales, taken \in Takings, d \in Dates : ReleaseMarketStock(s, taken, d)
      BY <2>2, ReleaseConserves
    <2>3. CASE \E taken \in Takings, d \in Dates : TransferToPhysical(taken, d)
      BY <2>3, TransferConserves
    <2>4. CASE \E l \in Lots : ReconcileExpired(l) \/ ReverseProductionLot(l)
      BY <2>4, WriteOffConserves
    <2> QED  BY <1>2, <2>1, <2>2, <2>3, <2>4 DEF Stockroom
  <1>3. CASE Customers
    <2>1. day \in Dates
      <3>1. day \in Int /\ day >= 0
        BY <1>6, Bounds DEF TypeOK, Days
      <3> QED  BY <3>1 DEF Dates
    <2> QED  BY <1>3, <2>1, ReturnsConserve DEF Customers
  <1>4. CASE Counter
    <2>1. PICK c \in Clerks :
            \/ \E rows \in Baskets : CheckSale(c, rows)
            \/ \E n \in Amounts : OpenShipment(c, n) \/ CheckAdjustment(c, n) \/ CheckAdjustment(c, -n)
            \/ OpenSale(c) \/ CommitSale(c) \/ MakePhysicalSale(c) \/ ShipmentRefused(c) \/ Adjust(c)
      BY <1>4 DEF Counter
    <2>2. CASE \/ \E rows \in Baskets : CheckSale(c, rows)
               \/ \E n \in Amounts : OpenShipment(c, n) \/ CheckAdjustment(c, n) \/ CheckAdjustment(c, -n)
               \/ OpenSale(c) \/ ShipmentRefused(c)
      <3>1. UNCHANGED <<lots, trade, counter>>
        BY <2>2 DEF CheckSale, OpenShipment, OpenSale, ShipmentRefused, CheckAdjustment, rack
      <3> QED  BY <3>1, StillConserved
    <2>3. CASE Adjust(c)
      <3>1. UNCHANGED <<lots, trade>> /\ counter' = [counter EXCEPT !.adjusted = @ + clerk[c].change]
        BY <2>3 DEF Adjust
      <3>2. counter'.transferred = counter.transferred
        BY <3>1, <1>6 DEF TypeOK, Counters
      <3> QED  BY <3>1, <3>2, StillConserved
    <2>4. CASE CommitSale(c) \/ MakePhysicalSale(c)
      <3>1. PICK n \in Nat, m \in Int, late \in Nat : TakeOffShelf(c, n, m, late)
        BY <1>6, <2>4, Leaves
      <3>2. counter'.transferred = counter.transferred
        BY <1>6, <3>1, Taking
      <3>3. UNCHANGED lots
        BY <1>6, <2>4, Leaves
      <3>4. CASE UNCHANGED trade
        BY <3>2, <3>3, <3>4, StillConserved
      <3>5. CASE \E s \in Sales, S \in {ShelfLines, {Shelf}} : \E rows, units : OffShelf(s, S, rows, units)
        <4>5. PICK s \in Sales, S \in {ShelfLines, {Shelf}} : \E rows, units : OffShelf(s, S, rows, units)
          BY <3>5
        <4>1. PICK rows, units :
                    /\ DOMAIN rows = S /\ DOMAIN units = S
                    /\ \A o \in S : rows[o] \in Lines /\ units[o] \in Nat
                    /\ Enter(s, rows, units)
          BY <4>5 DEF OffShelf
        <4> QED  BY <3>2, <3>3, <4>1, ShelfSaleConserves
      <3> QED  BY <1>6, <2>4, <3>4, <3>5, Leaves
    <2> QED  BY <2>1, <2>2, <2>3, <2>4
  <1>5. CASE Office
    <2>1. UNCHANGED <<lots, trade>>
      BY <1>5 DEF Office, Deliver, ShowForm, PostForm, SaveForm, NextDay
    <2>2. counter'.transferred = counter.transferred
      <3>1. ASSUME NEW n \in Amounts, Deliver(n) PROVE counter'.transferred = counter.transferred
        BY <3>1, <1>6 DEF Deliver, TypeOK, Counters
      <3> QED  BY <1>5, <3>1 DEF Office, ShowForm, PostForm, SaveForm, NextDay, rack
    <2> QED  BY <2>1, <2>2, StillConserved
  <1> QED  BY <1>1, <1>2, <1>3, <1>4, <1>5 DEF Next

(***************************************************************************)
(* A product that nobody edits: every line stands for the units that moved *)
(* by it, none takes back more than it gave, and the shelf is accounted    *)
(* for.                                                                    *)
(***************************************************************************)
LinesAgree ==
    \A s \in Sales, o \in Origins :
        Units(line[s][o], pack) = sold[s][o] /\ returned[s][o] <= sold[s][o]

RequestsAgree ==
    \A c \in Clerks :
        /\ At(c, "selling") => \A i \in ShelfLines : Units(clerk[c].lines[i], pack) = clerk[c].units[i]
        /\ At(c, "shipping") => clerk[c].pack = pack

ShelfAgrees == shelf + counter.gone = counter.delivered + counter.transferred + counter.adjusted

Unedited == editing = Idle /\ LinesAgree /\ RequestsAgree /\ ShelfAgrees

LEMMA EnteredAgree ==
    ASSUME TypeOK, LinesAgree, NEW s \in Sales, NEW S \in SUBSET Origins, NEW rows, NEW units,
           DOMAIN rows = S, DOMAIN units = S,
           \A o \in S : rows[o] \in Lines /\ units[o] \in Nat /\ Units(rows[o], pack) = units[o],
           Enter(s, rows, units), pack' = pack
    PROVE  LinesAgree'
  <1>1. /\ UNCHANGED returned
        /\ \A r \in Sales, o \in Origins :
              /\ line'[r][o] = IF r # s THEN line[r][o] ELSE IF o \in S THEN rows[o] ELSE NoUnits
              /\ sold'[r][o] = IF r # s THEN sold[r][o] ELSE IF o \in S THEN units[o] ELSE 0
    BY Entering
  <1>2. \A o \in Origins : sold[s][o] = 0
    BY NewSalesAreEmpty DEF Enter
  <1>3. \A r \in Sales, o \in Origins : returned[r][o] \in Nat
    BY DEF TypeOK
  <1>4. Units(NoUnits, pack) = 0
    BY NoUnitsAre, PacksAre DEF TypeOK
  <1>5. \A r \in Sales, o \in Origins :
          Units(line[r][o], pack) = sold[r][o] /\ returned[r][o] <= sold[r][o]
    BY DEF LinesAgree
  <1>6. ASSUME NEW r \in Sales, NEW o \in Origins
        PROVE  Units(line'[r][o], pack) = sold'[r][o] /\ returned[r][o] <= sold'[r][o]
    <2>1. CASE r # s
      BY <1>1, <1>5, <2>1
    <2>2. CASE r = s /\ o \in S
      <3>1. line'[r][o] = rows[o] /\ sold'[r][o] = units[o] /\ units[o] \in Nat
        BY <1>1, <2>2
      <3>2. returned[r][o] = 0
        BY <1>2, <1>3, <1>5, <2>2
      <3> QED  BY <2>2, <3>1, <3>2
    <2>3. CASE r = s /\ o \notin S
      <3>1. line'[r][o] = NoUnits /\ sold'[r][o] = 0
        BY <1>1, <2>3
      <3>2. returned[r][o] <= 0
        BY <1>2, <1>5, <2>3
      <3> QED  BY <1>4, <3>1, <3>2
    <2> QED  BY <2>1, <2>2, <2>3
  <1> QED  BY <1>1, <1>6 DEF LinesAgree

LEMMA TakingAgrees ==
    ASSUME TypeOK, RequestsAgree, ShelfAgrees, NEW c \in Clerks, NEW n \in Nat, NEW m \in Int,
           NEW late \in Nat, TakeOffShelf(c, n, m, late)
    PROVE  RequestsAgree' /\ ShelfAgrees'
  <1>1. /\ shelf' = shelf - n /\ pack' = pack
        /\ counter'.gone = counter.gone + n
        /\ counter'.delivered = counter.delivered /\ counter'.transferred = counter.transferred
        /\ counter'.adjusted = counter.adjusted
        /\ \A k \in Clerks :
              clerk'[k] = IF k = c \/ At(k, "idle") THEN Idle ELSE [clerk[k] EXCEPT !.since = @ + n]
    BY Taking
  <1>2. ShelfAgrees'
    <2>1. shelf \in Int /\ counter.gone \in Int
      BY DEF TypeOK, Counters
    <2> QED  BY <1>1, <2>1 DEF ShelfAgrees
  <1>3. ASSUME NEW k \in Clerks
        PROVE  /\ At(k, "selling")' => \A i \in ShelfLines :
                      Units(clerk'[k].lines[i], pack) = clerk'[k].units[i]
               /\ At(k, "shipping")' => clerk'[k].pack = pack
    <2>1. CASE k = c \/ At(k, "idle")
      <3>1. clerk'[k] = Idle
        BY <1>1, <2>1
      <3>2. Idle.at = "idle"
        BY DEF Idle
      <3> QED  BY <3>1, <3>2 DEF At
    <2>2. CASE ~(k = c \/ At(k, "idle"))
      <3>1. clerk'[k] = [clerk[k] EXCEPT !.since = @ + n] /\ ~At(k, "idle")
        BY <1>1, <2>2
      <3>2. /\ clerk'[k].at = clerk[k].at
            /\ At(k, "selling") => clerk'[k].lines = clerk[k].lines /\ clerk'[k].units = clerk[k].units
            /\ At(k, "shipping") => clerk'[k].pack = clerk[k].pack
        BY <3>1, Waiting
      <3> QED  BY <3>2 DEF At, RequestsAgree
    <2> QED  BY <2>1, <2>2
  <1> QED  BY <1>1, <1>2, <1>3 DEF RequestsAgree

\* A step of one clerk that leaves the rest alone.
LEMMA AskingAgrees ==
    ASSUME TypeOK, Unedited, NEW c \in Clerks, NEW r, Asks(c, r), UNCHANGED <<trade, rack, editing>>,
           r.at = "selling" => \A i \in ShelfLines : Units(r.lines[i], pack) = r.units[i],
           r.at = "shipping" => r.pack = pack
    PROVE  Unedited'
  <1>1. \A k \in Clerks : clerk'[k] = IF k = c THEN r ELSE clerk[k]
    BY DEF Asks, TypeOK
  <1>2. UNCHANGED <<line, sold, returned, pack, shelf, counter>>
    BY DEF trade, rack
  <1>3. RequestsAgree'
    BY <1>1, <1>2 DEF RequestsAgree, At, Unedited
  <1> QED  BY <1>2, <1>3 DEF Unedited, LinesAgree, ShelfAgrees

LEMMA CounterUnedited ==
    ASSUME Inv, Unedited, NEW c \in Clerks,
           \/ \E rows \in Baskets : CheckSale(c, rows)
           \/ \E n \in Int : OpenShipment(c, n) \/ CheckAdjustment(c, n)
           \/ OpenSale(c) \/ CommitSale(c) \/ MakePhysicalSale(c) \/ ShipmentRefused(c) \/ Adjust(c)
    PROVE  Unedited'
  <1>1. TypeOK
    BY DEF Inv
  <1>2. ASSUME NEW rows \in Baskets, CheckSale(c, rows) PROVE Unedited'
    BY <1>1, <1>2, AskingAgrees DEF CheckSale
  <1>3. ASSUME NEW n \in Int, OpenShipment(c, n) PROVE Unedited'
    BY <1>1, <1>3, AskingAgrees DEF OpenShipment
  <1>4. ASSUME NEW n \in Int, CheckAdjustment(c, n) PROVE Unedited'
    BY <1>1, <1>4, AskingAgrees DEF CheckAdjustment
  <1>5. CASE OpenSale(c)
    <2> DEFINE units == [i \in ShelfLines |-> Units(clerk[c].lines[i], pack)]
               r == [at |-> "selling", lines |-> clerk[c].lines, units |-> units,
                     allowance |-> allowance, since |-> clerk[c].since]
    <2>1. Asks(c, r) /\ UNCHANGED <<trade, rack, editing>>
      BY <1>5 DEF OpenSale
    <2>2. \A i \in ShelfLines : Units(r.lines[i], pack) = r.units[i]
      OBVIOUS
    <2>3. r.at # "shipping"
      OBVIOUS
    <2> HIDE DEF r
    <2> QED  BY <1>1, <2>1, <2>2, <2>3, AskingAgrees
  <1>6. CASE ShipmentRefused(c)
    BY <1>1, <1>6, AskingAgrees DEF ShipmentRefused, Done, Idle
  <1>7. CASE CommitSale(c)
    <2> DEFINE one == clerk[c].units[Shelf]
               two == clerk[c].units[SecondLine]
               m == Consumed(c, one) + Consumed(c, two)
               late == Lesser(one, clerk[c].since) + Lesser(two, clerk[c].since + one)
    <2>1. At(c, "selling") /\ TakeOffShelf(c, one + two, m, late) /\ UNCHANGED editing
      BY <1>7 DEF CommitSale
    <2>2. one + two \in Nat /\ m \in Int /\ late \in Nat
      BY <1>1, <2>1, Lines2
    <2> HIDE DEF m, late
    <2>3. RequestsAgree' /\ ShelfAgrees' /\ pack' = pack
      BY <1>1, <2>1, <2>2, TakingAgrees, Taking DEF Unedited
    <2>4. clerk[c].lines \in [ShelfLines -> Lines] /\ clerk[c].units \in [ShelfLines -> Nat]
      BY <1>1, <2>1, RequestTypes
    <2>5. \A i \in ShelfLines : Units(clerk[c].lines[i], pack) = clerk[c].units[i]
      BY <2>1 DEF Unedited, RequestsAgree
    <2>6. CASE UNCHANGED trade
      BY <2>1, <2>3, <2>6 DEF trade, Unedited, LinesAgree
    <2>7. CASE \E s \in Sales : Enter(s, clerk[c].lines, clerk[c].units)
      <3>1. PICK s \in Sales : Enter(s, clerk[c].lines, clerk[c].units)
        BY <2>7
      <3>2. PICK rows, units : rows = clerk[c].lines /\ units = clerk[c].units
        OBVIOUS
      <3>3. /\ DOMAIN rows = ShelfLines /\ DOMAIN units = ShelfLines
            /\ \A o \in ShelfLines : /\ rows[o] \in Lines /\ units[o] \in Nat
                                     /\ Units(rows[o], pack) = units[o]
            /\ Enter(s, rows, units)
        BY <2>4, <2>5, <3>1, <3>2
      <3>4. LinesAgree'
        BY <1>1, <2>3, <3>3, ShelfLinesAre, EnteredAgree DEF Unedited
      <3> QED  BY <2>1, <2>3, <3>4 DEF Unedited
    <2> QED  BY <1>7, <2>6, <2>7 DEF CommitSale
  <1>8. CASE MakePhysicalSale(c)
    <2> DEFINE n == clerk[c].units
               m == Consumed(c, n)
               rows == [i \in {Shelf} |-> Packed(n, clerk[c].pack)]
               units == [i \in {Shelf} |-> n]
    <2>1. At(c, "shipping") /\ TakeOffShelf(c, n, m, 0) /\ UNCHANGED editing
      BY <1>8 DEF MakePhysicalSale
    <2>2. n \in Nat /\ clerk[c].pack \in Nat \ {0} /\ clerk[c].allowance \in Int
      BY <1>1, <2>1, RequestTypes, PacksAre
    <2>3. m \in Int
      BY <2>2 DEF Consumed, Greater, Lesser
    <2>4. clerk[c].pack = pack
      BY <2>1 DEF Unedited, RequestsAgree
    <2>5. /\ DOMAIN rows = {Shelf} /\ DOMAIN units = {Shelf}
          /\ \A o \in {Shelf} : rows[o] \in Lines /\ units[o] \in Nat /\ Units(rows[o], pack) = units[o]
      BY <2>2, <2>4, Packing
    <2>6. UNCHANGED trade \/ \E s \in Sales : Enter(s, rows, units)
      BY <1>8 DEF MakePhysicalSale
    <2> HIDE DEF n, m, rows, units
    <2>7. RequestsAgree' /\ ShelfAgrees' /\ pack' = pack
      BY <1>1, <2>1, <2>2, <2>3, TakingAgrees, Taking DEF Unedited
    <2>8. CASE UNCHANGED trade
      BY <2>1, <2>7, <2>8 DEF trade, Unedited, LinesAgree
    <2>9. CASE \E s \in Sales : Enter(s, rows, units)
      <3>1. {Shelf} \in SUBSET Origins
        BY ShelfLinesAre
      <3>2. LinesAgree'
        BY <1>1, <2>5, <2>7, <2>9, <3>1, EnteredAgree DEF Unedited
      <3> QED  BY <2>1, <2>7, <3>2 DEF Unedited
    <2> QED  BY <2>6, <2>8, <2>9
  <1>9. CASE Adjust(c)
    <2>1. /\ clerk[c].change \in Int
          /\ shelf' = shelf + clerk[c].change
          /\ counter' = [counter EXCEPT !.adjusted = @ + clerk[c].change]
          /\ Asks(c, Idle) /\ UNCHANGED <<trade, pack, editing>>
      BY <1>1, <1>9, RequestTypes DEF Adjust, Done
    <2>2. \A k \in Clerks : clerk'[k] = IF k = c THEN Idle ELSE clerk[k]
      BY <1>1, <2>1 DEF Asks, TypeOK
    <2>3. RequestsAgree'
      BY <2>1, <2>2 DEF RequestsAgree, At, Unedited, Idle
    <2>4. /\ shelf \in Int /\ counter \in Counters /\ counter.adjusted \in Int /\ counter.gone \in Int
          /\ counter.delivered \in Int /\ counter.transferred \in Int
      BY <1>1 DEF TypeOK, Counters
    <2>5. /\ counter'.adjusted = counter.adjusted + clerk[c].change
          /\ counter'.gone = counter.gone /\ counter'.delivered = counter.delivered
          /\ counter'.transferred = counter.transferred
      BY <2>1, <2>4 DEF Counters
    <2>6. ShelfAgrees'
      BY <2>1, <2>4, <2>5 DEF Unedited, ShelfAgrees
    <2> QED  BY <2>1, <2>3, <2>6 DEF trade, Unedited, LinesAgree
  <1> QED  BY <1>2, <1>3, <1>4, <1>5, <1>6, <1>7, <1>8, <1>9

LEMMA UneditedStep ==
    ASSUME Inv, ~house.edited, Unedited, [Next]_vars
    PROVE  Unedited'
  <1>1. TypeOK
    BY DEF Inv
  <1>2. ASSUME UNCHANGED <<trade, rack, clerk, editing>> PROVE Unedited'
    BY <1>2 DEF trade, rack, Unedited, LinesAgree, RequestsAgree, ShelfAgrees, At
  <1>3. CASE UNCHANGED vars
    BY <1>2, <1>3 DEF vars
  <1>4. CASE Stockroom
    <2>1. ASSUME NEW s \in Sales, NEW taken \in Takings, NEW d, ReleaseMarketStock(s, taken, d)
          PROVE  Unedited'
      <3> DEFINE rows == [l \in Lots |-> Packed(taken[l], pack)]
      <3>1. taken \in [Lots -> Nat] /\ pack \in Nat \ {0}
        BY <1>1, <2>1, Takes, PacksAre DEF ReleaseMarketStock, TypeOK
      <3>2. /\ DOMAIN rows = Lots /\ DOMAIN taken = Lots
            /\ \A o \in Lots : rows[o] \in Lines /\ taken[o] \in Nat /\ Units(rows[o], pack) = taken[o]
        BY <3>1, Packing
      <3>3. Enter(s, rows, taken) /\ UNCHANGED <<pack, shelf, counter, clerk, editing>>
        BY <2>1 DEF ReleaseMarketStock, rack
      <3>4. Lots \in SUBSET Origins
        BY ShelfLinesAre
      <3> HIDE DEF rows
      <3>5. LinesAgree'
        BY <1>1, <3>2, <3>3, <3>4, EnteredAgree DEF Unedited
      <3> QED  BY <3>3, <3>5 DEF Unedited, RequestsAgree, ShelfAgrees, At
    <2>2. ASSUME NEW taken \in Takings, NEW d, TransferToPhysical(taken, d)
          PROVE  Unedited'
      <3> DEFINE n == Total(taken)
      <3>1. n \in Nat
        BY <2>2, Bounds DEF TransferToPhysical
      <3>2. /\ UNCHANGED <<trade, pack, clerk, editing>>
            /\ shelf' = shelf + n
            /\ counter' = [counter EXCEPT !.transferred = @ + n]
        BY <2>2 DEF TransferToPhysical, PutOnShelf
      <3> HIDE DEF n
      <3>3. /\ shelf \in Int /\ counter \in Counters /\ counter.adjusted \in Int /\ counter.gone \in Int
            /\ counter.delivered \in Int /\ counter.transferred \in Int
        BY <1>1 DEF TypeOK, Counters
      <3>4. /\ counter'.transferred = counter.transferred + n
            /\ counter'.gone = counter.gone /\ counter'.delivered = counter.delivered
            /\ counter'.adjusted = counter.adjusted
        BY <3>2, <3>3 DEF Counters
      <3>5. ShelfAgrees'
        BY <3>1, <3>2, <3>3, <3>4 DEF Unedited, ShelfAgrees
      <3> QED  BY <3>2, <3>5 DEF trade, Unedited, LinesAgree, RequestsAgree, At
    <2>3. CASE \E n \in Amounts, e \in 0 .. Never : ReceiveMarketProduction(n, e)
      BY <1>2, <2>3 DEF ReceiveMarketProduction
    <2>4. CASE \E l \in Lots : ReconcileExpired(l) \/ ReverseProductionLot(l)
      BY <1>2, <2>4 DEF ReconcileExpired, ReverseProductionLot
    <2> QED  BY <1>4, <2>1, <2>2, <2>3, <2>4 DEF Stockroom
  <1>5. CASE Customers
    <2>1. PICK s \in Sales, o \in Origins, n \in Amounts :
            (\E d \in Dates : Redistribute(s, o, n, d)) \/ Scrap(s, o, n)
      BY <1>5 DEF Customers
    <2>2. /\ n <= Returnable(s, o) /\ returned' = [returned EXCEPT ![s][o] = @ + n]
          /\ UNCHANGED <<line, sold, rack, clerk, editing>>
      BY <2>1 DEF Redistribute, Scrap
    <2>3. n \in Nat /\ n > 0
      BY Bounds DEF Amounts
    <2>4. sold[s][o] \in Nat /\ returned[s][o] \in Nat /\ returned \in [Sales -> [Origins -> Nat]]
      BY <1>1 DEF TypeOK
    <2>5. Units(line[s][o], pack) = sold[s][o]
      BY DEF Unedited, LinesAgree
    <2>6. n <= sold[s][o] - returned[s][o]
      BY <2>2, <2>3, <2>4, <2>5 DEF Returnable, Greater
    <2>7. \A r \in Sales, p \in Origins :
            returned'[r][p] = IF r = s /\ p = o THEN returned[s][o] + n ELSE returned[r][p]
      BY <2>2, <2>4
    <2>8. returned'[s][o] <= sold[s][o]
      BY <2>3, <2>4, <2>6, <2>7
    <2>9. LinesAgree'
      BY <2>2, <2>7, <2>8 DEF Unedited, LinesAgree, rack
    <2> QED  BY <2>2, <2>9 DEF rack, Unedited, RequestsAgree, ShelfAgrees, At
  <1>6. CASE Counter
    <2>1. PICK c \in Clerks :
            \/ \E rows \in Baskets : CheckSale(c, rows)
            \/ \E n \in Amounts : OpenShipment(c, n) \/ CheckAdjustment(c, n) \/ CheckAdjustment(c, -n)
            \/ OpenSale(c) \/ CommitSale(c) \/ MakePhysicalSale(c) \/ ShipmentRefused(c) \/ Adjust(c)
      BY <1>6 DEF Counter
    <2>2. \A n \in Amounts : n \in Int /\ -n \in Int
      BY Bounds DEF Amounts
    <2> QED  BY <2>1, <2>2, CounterUnedited
  <1>7. CASE Office
    <2>1. ~ShowForm /\ ~SaveForm /\ \A p \in Packs : ~PostForm(p)
      BY DEF Unedited, Idle, ShowForm, SaveForm, PostForm
    <2>2. ASSUME NEW n \in Amounts, Deliver(n) PROVE Unedited'
      <3>1. n \in Nat
        BY Bounds DEF Amounts
      <3>2. /\ UNCHANGED <<trade, pack, clerk, editing>>
            /\ shelf' = shelf + n
            /\ counter' = [counter EXCEPT !.delivered = @ + n]
        BY <2>2 DEF Deliver
      <3>3. /\ shelf \in Int /\ counter \in Counters /\ counter.adjusted \in Int /\ counter.gone \in Int
            /\ counter.delivered \in Int /\ counter.transferred \in Int
        BY <1>1 DEF TypeOK, Counters
      <3>4. /\ counter'.delivered = counter.delivered + n
            /\ counter'.gone = counter.gone /\ counter'.transferred = counter.transferred
            /\ counter'.adjusted = counter.adjusted
        BY <3>2, <3>3 DEF Counters
      <3>5. ShelfAgrees'
        BY <3>1, <3>2, <3>3, <3>4 DEF Unedited, ShelfAgrees
      <3> QED  BY <3>2, <3>5 DEF trade, Unedited, LinesAgree, RequestsAgree, At
    <2> QED  BY <1>2, <1>7, <2>1, <2>2 DEF Office, NextDay
  <1> QED  BY <1>3, <1>4, <1>5, <1>6, <1>7 DEF Next

LEMMA HouseStays == [Next]_vars => house' = house
  <1> SUFFICES ASSUME [Next]_vars PROVE house' = house
    OBVIOUS
  <1>1. CASE UNCHANGED vars
    BY <1>1 DEF vars
  <1>2. CASE Stockroom
    BY <1>2 DEF Stockroom, ReceiveMarketProduction, ReleaseMarketStock, TransferToPhysical,
                ReconcileExpired, ReverseProductionLot
  <1>3. CASE Customers
    BY <1>3 DEF Customers, Redistribute, Scrap
  <1>4. CASE Counter
    BY <1>4 DEF Counter, CheckSale, OpenShipment, OpenSale, CommitSale, ShipmentRefused, MakePhysicalSale,
                CheckAdjustment, Adjust
  <1>5. CASE Office
    BY <1>5 DEF Office, Deliver, ShowForm, PostForm, SaveForm, NextDay
  <1> QED  BY <1>1, <1>2, <1>3, <1>4, <1>5 DEF Next

LEMMA InitUnedited == Init => Unedited
  <1> SUFFICES ASSUME Init PROVE Unedited
    OBVIOUS
  <1>1. pack \in Nat
    BY InitInv, PacksAre DEF Inv, TypeOK
  <1>2. LinesAgree
    BY <1>1, NoUnitsAre DEF Init, LinesAgree
  <1>3. RequestsAgree
    BY DEF Init, RequestsAgree, At, Idle
  <1>4. ShelfAgrees /\ editing = Idle
    BY DEF Init, ShelfAgrees
  <1> QED  BY <1>2, <1>3, <1>4 DEF Unedited

LEMMA UneditedAlways == Spec => [](~house.edited => Unedited)
  <1>1. Inv /\ (~house.edited => Unedited) /\ [Next]_vars => (~house.edited => Unedited)'
    BY HouseStays, UneditedStep
  <1> QED  BY <1>1, InitUnedited, InvAlways, PTL DEF Spec

LEMMA ConservedAlways == Spec => []Conserved
  <1>1. Inv /\ Inv' /\ Conserved /\ [Next]_vars => Conserved'
    BY ConservedStep DEF Conserved
  <1> QED  BY <1>1, InitConserved, InvAlways, PTL DEF Spec

(***************************************************************************)
(* No unit is in two places: lots, journal, sale lines, returns and        *)
(* write-offs account for everything production made, for any number of    *)
(* lots, sales, units and clerks; and of a product nobody edits no line    *)
(* takes back more than it gave (record_distribution_return) and the shelf *)
(* is accounted for.                                                       *)
(***************************************************************************)
THEOREM ConservedTheorem == Spec => []UnitsConserved
  <1>1. Conserved /\ (~house.edited => Unedited) => UnitsConserved
    BY DEF Conserved, Books, Balance, Accounted, OnLines, Sold, Unedited, LinesAgree, ShelfAgrees,
           UnitsConserved, LotsAgreeWithJournal, WithDistributors
  <1> QED  BY <1>1, ConservedAlways, UneditedAlways, PTL

-----------------------------------------------------------------------------
(* Sales of a product not normally for shelf sale *)

(***************************************************************************)
(* No request takes more than the allowance it has seen, and whatever the  *)
(* others took since counts as late when it is taken again.                *)
(***************************************************************************)
Reach == counter.transferred + counter.late

ChecksCovered ==
    \A c \in Clerks : At(c, "checked") => \A i \in ShelfLines :
        /\ Units(clerk[c].lines[i], pack) <= allowance + clerk[c].since
        /\ counter.gone + Units(clerk[c].lines[i], pack) <= Reach + clerk[c].since

SalesCovered ==
    \A c \in Clerks : At(c, "selling") =>
        /\ clerk[c].allowance <= allowance + clerk[c].since
        /\ \A i \in ShelfLines :
              /\ clerk[c].units[i] <= clerk[c].allowance + clerk[c].since
              /\ counter.gone + clerk[c].units[i] <= Reach + clerk[c].since

ShipmentsCovered ==
    \A c \in Clerks : At(c, "shipping") =>
        /\ clerk[c].units <= clerk[c].allowance
        /\ clerk[c].allowance <= allowance + clerk[c].since

ShelfCovered ==
    /\ allowance + counter.gone <= Reach
    /\ counter.gone <= Reach
    /\ 0 <= allowance + counter.late

Covered == ShelfCovered /\ ChecksCovered /\ SalesCovered /\ ShipmentsCovered

LEMMA CounterTypes ==
    ASSUME TypeOK
    PROVE  /\ counter.gone \in Nat /\ counter.late \in Nat /\ counter.transferred \in Nat
           /\ counter.delivered \in Nat /\ counter.adjusted \in Int
           /\ shelf \in Int /\ allowance \in Int /\ pack \in Nat /\ Reach \in Nat
  BY PacksAre DEF TypeOK, Counters, Reach

\* Two lines that were checked each alone; u and v are their units, t what the
\* others took since, a the allowance the sale read.
LEMMA TwoLines ==
    ASSUME NEW u \in Nat, NEW v \in Nat, NEW t \in Nat, NEW gone \in Nat, NEW reach \in Nat,
           NEW late \in Nat, NEW a \in Int, NEW now \in Int,
           a <= now + t, u <= a + t, v <= a + t, gone + u <= reach + t, gone + v <= reach + t,
           now + gone <= reach, gone <= reach, 0 <= now + late
    PROVE  LET m == Greater(0, Lesser(a, u)) + Greater(0, Lesser(a, v))
               k == Lesser(u, t) + Lesser(v, t + u)
           IN  /\ m \in Nat /\ k \in Nat /\ m <= u + v
               /\ (now - m) + (gone + (u + v)) <= reach + k
               /\ gone + (u + v) <= reach + k
               /\ 0 <= (now - m) + (late + k)
  <1>1. PICK c \in Nat : c = Greater(0, Lesser(a, u))
    BY DEF Greater, Lesser
  <1>2. PICK d \in Nat : d = Greater(0, Lesser(a, v))
    BY DEF Greater, Lesser
  <1>3. PICK p \in Nat : p = Lesser(u, t)
    BY DEF Lesser
  <1>4. PICK q \in Nat : q = Lesser(v, t + u)
    BY DEF Lesser
  <1>5. c <= u /\ u - c <= p /\ (c <= a \/ c = 0)
    BY <1>1, <1>3 DEF Greater, Lesser
  <1>6. d <= v /\ v - d <= q /\ (d <= a \/ d = 0)
    BY <1>2, <1>4 DEF Greater, Lesser
  <1>7. (p = u \/ (p = t /\ t < u)) /\ (q = v \/ (q = t + u /\ t + u < v))
    BY <1>3, <1>4 DEF Lesser
  <1>8. gone + (u + v) <= reach + (p + q)
    BY <1>7
  <1>9. 0 <= (now - (c + d)) + (late + (p + q))
    <2>1. CASE p = u /\ q = v
      BY <1>5, <1>6, <2>1
    <2>2. CASE p = u /\ q = t + u
      BY <1>5, <1>6, <2>2
    <2>3. CASE p = t /\ q = v
      BY <1>5, <1>6, <2>3
    <2>4. CASE p = t /\ q = t + u
      BY <1>5, <1>6, <2>4
    <2> QED  BY <1>7, <2>1, <2>2, <2>3, <2>4
  <1>10. (now - (c + d)) + (gone + (u + v)) <= reach + (p + q)
    BY <1>5, <1>6
  <1>11. c + d <= u + v
    BY <1>5, <1>6
  <1> QED  BY <1>1, <1>2, <1>3, <1>4, <1>8, <1>9, <1>10, <1>11

\* The requests of the others, after units left the shelf.
LEMMA OthersCovered ==
    ASSUME TypeOK, Covered, NEW c \in Clerks, NEW n \in Nat, NEW m \in Int, NEW k \in Nat,
           TakeOffShelf(c, n, m, k), m <= n
    PROVE  ChecksCovered' /\ SalesCovered' /\ ShipmentsCovered'
  <1>1. /\ allowance' = allowance - m /\ pack' = pack
        /\ counter'.gone = counter.gone + n /\ counter'.late = counter.late + k
        /\ counter'.transferred = counter.transferred
        /\ \A j \in Clerks :
              clerk'[j] = IF j = c \/ At(j, "idle") THEN Idle ELSE [clerk[j] EXCEPT !.since = @ + n]
    BY Taking
  <1>2. /\ counter.gone \in Nat /\ counter.late \in Nat /\ counter.transferred \in Nat
        /\ allowance \in Int /\ pack \in Nat /\ Reach \in Nat
    BY CounterTypes
  <1>3. Reach' = Reach + k
    BY <1>1, <1>2 DEF Reach
  <1>4. Idle.at = "idle"
    BY DEF Idle
  <1>5. ASSUME NEW j \in Clerks, clerk'[j].at # "idle"
        PROVE  /\ clerk'[j].at = clerk[j].at /\ ~At(j, "idle")
               /\ clerk[j].since \in Nat /\ clerk'[j].since = clerk[j].since + n
               /\ At(j, "checked") => clerk'[j].lines = clerk[j].lines
               /\ At(j, "selling") => clerk'[j].units = clerk[j].units
                                      /\ clerk'[j].allowance = clerk[j].allowance
               /\ At(j, "shipping") => clerk'[j].units = clerk[j].units
                                       /\ clerk'[j].allowance = clerk[j].allowance
    <2>1. ~At(j, "idle") /\ clerk'[j] = [clerk[j] EXCEPT !.since = @ + n]
      BY <1>1, <1>4, <1>5
    <2>2. /\ clerk'[j].at = clerk[j].at /\ clerk'[j].since = clerk[j].since + n
          /\ At(j, "checked") => clerk'[j].lines = clerk[j].lines
          /\ At(j, "selling") => clerk'[j].units = clerk[j].units
                                 /\ clerk'[j].allowance = clerk[j].allowance
          /\ At(j, "shipping") => clerk'[j].units = clerk[j].units
                                  /\ clerk'[j].allowance = clerk[j].allowance
      BY <2>1, Waiting
    <2>3. clerk[j].since \in Nat
      BY <2>1, RequestTypes
    <2> QED  BY <2>1, <2>2, <2>3
  <1>6. ChecksCovered'
    <2> SUFFICES ASSUME NEW j \in Clerks, clerk'[j].at = "checked", NEW i \in ShelfLines
                 PROVE  /\ Units(clerk'[j].lines[i], pack) <= allowance' + clerk'[j].since
                        /\ counter'.gone + Units(clerk'[j].lines[i], pack) <= Reach' + clerk'[j].since
      BY <1>1 DEF ChecksCovered, At
    <2>1. /\ At(j, "checked") /\ clerk[j].since \in Nat /\ clerk'[j].since = clerk[j].since + n
          /\ clerk'[j].lines = clerk[j].lines
      BY <1>5 DEF At
    <2>2. clerk[j].lines \in [ShelfLines -> Lines]
      BY <2>1, RequestTypes
    <2>3. PICK u \in Nat : u = Units(clerk[j].lines[i], pack)
      BY <1>2, <2>2, UnitsAre
    <2>4. u <= allowance + clerk[j].since /\ counter.gone + u <= Reach + clerk[j].since
      BY <2>1, <2>3 DEF Covered, ChecksCovered
    <2>5. u <= allowance' + clerk'[j].since /\ counter'.gone + u <= Reach' + clerk'[j].since
      BY <1>1, <1>2, <1>3, <2>1, <2>4
    <2> QED  BY <2>1, <2>3, <2>5
  <1>7. SalesCovered'
    <2> SUFFICES ASSUME NEW j \in Clerks, clerk'[j].at = "selling", NEW i \in ShelfLines
                 PROVE  /\ clerk'[j].allowance <= allowance' + clerk'[j].since
                        /\ clerk'[j].units[i] <= clerk'[j].allowance + clerk'[j].since
                        /\ counter'.gone + clerk'[j].units[i] <= Reach' + clerk'[j].since
      BY ShelfLinesAre DEF SalesCovered, At
    <2>1. /\ At(j, "selling") /\ clerk[j].since \in Nat /\ clerk'[j].since = clerk[j].since + n
          /\ clerk'[j].units = clerk[j].units /\ clerk'[j].allowance = clerk[j].allowance
      BY <1>5 DEF At
    <2>2. clerk[j].units \in [ShelfLines -> Nat] /\ clerk[j].allowance \in Int
      BY <2>1, RequestTypes
    <2>3. PICK u \in Nat : u = clerk[j].units[i]
      BY <2>2
    <2>4. /\ clerk[j].allowance <= allowance + clerk[j].since
          /\ u <= clerk[j].allowance + clerk[j].since /\ counter.gone + u <= Reach + clerk[j].since
      BY <2>1, <2>3 DEF Covered, SalesCovered
    <2>5. /\ clerk[j].allowance <= allowance' + clerk'[j].since
          /\ u <= clerk[j].allowance + clerk'[j].since /\ counter'.gone + u <= Reach' + clerk'[j].since
      BY <1>1, <1>2, <1>3, <2>1, <2>2, <2>4
    <2> QED  BY <2>1, <2>3, <2>5
  <1>8. ShipmentsCovered'
    <2> SUFFICES ASSUME NEW j \in Clerks, clerk'[j].at = "shipping"
                 PROVE  /\ clerk'[j].units <= clerk'[j].allowance
                        /\ clerk'[j].allowance <= allowance' + clerk'[j].since
      BY DEF ShipmentsCovered, At
    <2>1. /\ At(j, "shipping") /\ clerk[j].since \in Nat /\ clerk'[j].since = clerk[j].since + n
          /\ clerk'[j].units = clerk[j].units /\ clerk'[j].allowance = clerk[j].allowance
      BY <1>5 DEF At
    <2>2. clerk[j].allowance \in Int
      BY <2>1, RequestTypes
    <2>3. clerk[j].units <= clerk[j].allowance /\ clerk[j].allowance <= allowance + clerk[j].since
      BY <2>1 DEF Covered, ShipmentsCovered
    <2> QED  BY <1>1, <1>2, <2>1, <2>2, <2>3
  <1> QED  BY <1>6, <1>7, <1>8

\* A request is made or given up.
LEMMA AskingCovered ==
    ASSUME TypeOK, Covered, NEW c \in Clerks, NEW r, Asks(c, r), UNCHANGED rack,
           r.at = "checked" => \A i \in ShelfLines :
              /\ Units(r.lines[i], pack) <= allowance + r.since
              /\ counter.gone + Units(r.lines[i], pack) <= Reach + r.since,
           r.at = "selling" =>
              /\ r.allowance <= allowance + r.since
              /\ \A i \in ShelfLines : /\ r.units[i] <= r.allowance + r.since
                                       /\ counter.gone + r.units[i] <= Reach + r.since,
           r.at = "shipping" => r.units <= r.allowance /\ r.allowance <= allowance + r.since
    PROVE  Covered'
  <1>1. \A k \in Clerks : clerk'[k] = IF k = c THEN r ELSE clerk[k]
    BY DEF Asks, TypeOK
  <1>2. UNCHANGED <<pack, shelf, allowance, counter>>
    BY DEF rack
  <1>3. Reach' = Reach
    BY <1>2 DEF Reach
  <1>4. ChecksCovered'
    BY <1>1, <1>2, <1>3 DEF Covered, ChecksCovered, At
  <1>5. SalesCovered'
    BY <1>1, <1>2, <1>3 DEF Covered, SalesCovered, At
  <1>6. ShipmentsCovered'
    BY <1>1, <1>2, <1>3 DEF Covered, ShipmentsCovered, At
  <1>7. ShelfCovered'
    BY <1>2, <1>3 DEF Covered, ShelfCovered
  <1> QED  BY <1>4, <1>5, <1>6, <1>7 DEF Covered

\* What may be sold of an unlisted product is what the allowance says.
LEMMA SaleableIsAllowed ==
    ASSUME TypeOK, ~house.listed, NEW n \in Nat, n <= Saleable
    PROVE  n = 0 \/ n <= allowance
  BY DEF TypeOK, Saleable, Lesser, Greater

LEMMA CounterCovered ==
    ASSUME Inv, ~house.listed, Covered, NEW c \in Clerks,
           \/ \E rows \in Baskets : CheckSale(c, rows)
           \/ \E n \in Amounts : OpenShipment(c, n)
           \/ \E n \in Int : CheckAdjustment(c, n)
           \/ OpenSale(c) \/ CommitSale(c) \/ MakePhysicalSale(c) \/ ShipmentRefused(c) \/ Adjust(c)
    PROVE  Covered'
  <1>1. TypeOK
    BY DEF Inv
  <1>2. /\ counter.gone \in Nat /\ counter.late \in Nat /\ counter.transferred \in Nat
        /\ allowance \in Int /\ pack \in Nat /\ Reach \in Nat
    BY <1>1, CounterTypes
  <1>3. ASSUME NEW rows \in Baskets, CheckSale(c, rows) PROVE Covered'
    <2> DEFINE r == [at |-> "checked", lines |-> rows, since |-> 0]
    <2>1. Asks(c, r) /\ UNCHANGED rack /\ allowance > 0
      BY <1>3 DEF CheckSale, CanSell
    <2>2. \A i \in ShelfLines : rows[i] \in Lines
      BY DEF Baskets, Lines
    <2>3. ASSUME NEW i \in ShelfLines
          PROVE  /\ Units(rows[i], pack) <= allowance + 0
                 /\ counter.gone + Units(rows[i], pack) <= Reach + 0
      <3>1. PICK u \in Nat : u = Units(rows[i], pack)
        BY <1>2, <2>2, UnitsAre
      <3>2. u <= Saleable
        BY <1>3, <3>1 DEF CheckSale
      <3>3. u = 0 \/ u <= allowance
        BY <1>1, <3>2, SaleableIsAllowed
      <3>4. u <= allowance /\ counter.gone + u <= Reach
        BY <1>2, <2>1, <3>3 DEF Covered, ShelfCovered
      <3> QED  BY <1>2, <3>1, <3>4
    <2>4. r.at = "checked" /\ r.lines = rows /\ r.since = 0
      OBVIOUS
    <2> HIDE DEF r
    <2> QED  BY <1>1, <2>1, <2>3, <2>4, AskingCovered
  <1>4. ASSUME NEW n \in Amounts, OpenShipment(c, n) PROVE Covered'
    <2> DEFINE r == [at |-> "shipping", units |-> n, pack |-> pack, allowance |-> allowance, since |-> 0]
    <2>1. Asks(c, r) /\ UNCHANGED rack /\ n <= Saleable
      BY <1>4 DEF OpenShipment
    <2>2. n \in Nat /\ n > 0
      BY Bounds DEF Amounts
    <2>3. n <= allowance
      BY <1>1, <2>1, <2>2, SaleableIsAllowed
    <2>4. r.at = "shipping" /\ r.units <= r.allowance /\ r.allowance <= allowance + r.since
      BY <1>2, <2>3
    <2> HIDE DEF r
    <2> QED  BY <1>1, <2>1, <2>4, AskingCovered
  <1>5. ASSUME NEW n \in Int, CheckAdjustment(c, n) PROVE Covered'
    BY <1>1, <1>5, AskingCovered DEF CheckAdjustment
  <1>6. CASE OpenSale(c)
    <2> DEFINE units == [i \in ShelfLines |-> Units(clerk[c].lines[i], pack)]
               r == [at |-> "selling", lines |-> clerk[c].lines, units |-> units,
                     allowance |-> allowance, since |-> clerk[c].since]
    <2>1. At(c, "checked") /\ Asks(c, r) /\ UNCHANGED rack
      BY <1>6 DEF OpenSale
    <2>2. clerk[c].since \in Nat
      BY <1>1, <2>1, RequestTypes DEF At
    <2>3. \A i \in ShelfLines : units[i] = Units(clerk[c].lines[i], pack)
      OBVIOUS
    <2>4. r.at = "selling" /\ r.units = units /\ r.allowance = allowance /\ r.since = clerk[c].since
      OBVIOUS
    <2> HIDE DEF r, units
    <2>5. \A i \in ShelfLines : /\ units[i] <= allowance + clerk[c].since
                                /\ counter.gone + units[i] <= Reach + clerk[c].since
      BY <2>1, <2>3 DEF Covered, ChecksCovered
    <2>6. allowance <= allowance + clerk[c].since
      BY <1>2, <2>2
    <2> QED  BY <1>1, <2>1, <2>4, <2>5, <2>6, AskingCovered
  <1>7. CASE ShipmentRefused(c)
    BY <1>1, <1>7, AskingCovered DEF ShipmentRefused, Done, Idle
  <1>8. CASE Adjust(c)
    <2>1. Asks(c, Idle) /\ UNCHANGED <<pack, allowance>>
          /\ counter' = [counter EXCEPT !.adjusted = @ + clerk[c].change]
      BY <1>8 DEF Adjust, Done
    <2>2. counter'.gone = counter.gone /\ counter'.late = counter.late
          /\ counter'.transferred = counter.transferred
      BY <1>1, <2>1 DEF TypeOK, Counters
    <2>3. \A k \in Clerks : clerk'[k] = IF k = c THEN Idle ELSE clerk[k]
      BY <1>1, <2>1 DEF Asks, TypeOK
    <2>4. Reach' = Reach /\ Idle.at = "idle"
      BY <2>2 DEF Reach, Idle
    <2>5. ChecksCovered'
      BY <2>1, <2>2, <2>3, <2>4 DEF Covered, ChecksCovered, At
    <2>6. SalesCovered'
      BY <2>1, <2>2, <2>3, <2>4 DEF Covered, SalesCovered, At
    <2>7. ShipmentsCovered'
      BY <2>1, <2>2, <2>3, <2>4 DEF Covered, ShipmentsCovered, At
    <2>8. ShelfCovered'
      BY <2>1, <2>2, <2>4 DEF Covered, ShelfCovered
    <2> QED  BY <2>5, <2>6, <2>7, <2>8 DEF Covered
  <1>9. CASE CommitSale(c)
    <2>1. At(c, "selling")
      BY <1>9 DEF CommitSale
    <2>2. PICK u \in Nat, v \in Nat : u = clerk[c].units[Shelf] /\ v = clerk[c].units[SecondLine]
      BY <1>1, <2>1, Lines2
    <2>3. PICK t \in Nat, a \in Int : t = clerk[c].since /\ a = clerk[c].allowance
      BY <1>1, <2>1, RequestTypes DEF At
    <2>4. /\ a <= allowance + t /\ u <= a + t /\ v <= a + t
          /\ counter.gone + u <= Reach + t /\ counter.gone + v <= Reach + t
      BY <2>1, <2>2, <2>3, ShelfLinesAre DEF Covered, SalesCovered
    <2>5. allowance + counter.gone <= Reach /\ counter.gone <= Reach /\ 0 <= allowance + counter.late
      BY DEF Covered, ShelfCovered
    <2> DEFINE m == Greater(0, Lesser(a, u)) + Greater(0, Lesser(a, v))
               k == Lesser(u, t) + Lesser(v, t + u)
    <2>6. TakeOffShelf(c, u + v, m, k)
      BY <1>9, <2>2, <2>3 DEF CommitSale, Consumed
    <2>7. /\ m \in Nat /\ k \in Nat /\ m <= u + v
          /\ (allowance - m) + (counter.gone + (u + v)) <= Reach + k
          /\ counter.gone + (u + v) <= Reach + k
          /\ 0 <= (allowance - m) + (counter.late + k)
      BY <1>2, <2>4, <2>5, TwoLines
    <2> HIDE DEF m, k
    <2>8. ChecksCovered' /\ SalesCovered' /\ ShipmentsCovered'
      BY <1>1, <2>6, <2>7, OthersCovered
    <2>9. /\ allowance' = allowance - m /\ counter'.gone = counter.gone + (u + v)
          /\ counter'.late = counter.late + k /\ counter'.transferred = counter.transferred
      BY <1>1, <2>6, <2>7, Taking
    <2>10. Reach' = Reach + k
      BY <1>2, <2>7, <2>9 DEF Reach
    <2>11. ShelfCovered'
      BY <2>7, <2>9, <2>10 DEF ShelfCovered
    <2> QED  BY <2>8, <2>11 DEF Covered
  <1>10. CASE MakePhysicalSale(c)
    <2>1. At(c, "shipping") /\ clerk[c].units <= Saleable
      BY <1>10 DEF MakePhysicalSale
    <2>2. PICK n \in Nat, a \in Int : n = clerk[c].units /\ a = clerk[c].allowance
      BY <1>1, <2>1, RequestTypes
    <2>3. n <= a /\ (n = 0 \/ n <= allowance)
      BY <1>1, <2>1, <2>2, SaleableIsAllowed DEF Covered, ShipmentsCovered
    <2>4. Consumed(c, n) = n
      BY <2>2, <2>3 DEF Consumed, Greater, Lesser
    <2>5. TakeOffShelf(c, n, n, 0)
      BY <1>10, <2>2, <2>4 DEF MakePhysicalSale
    <2>6. ChecksCovered' /\ SalesCovered' /\ ShipmentsCovered'
      BY <1>1, <2>5, OthersCovered
    <2>7. /\ allowance' = allowance - n /\ counter'.gone = counter.gone + n
          /\ counter'.late = counter.late + 0 /\ counter'.transferred = counter.transferred
      BY <1>1, <2>5, Taking
    <2>8. Reach' = Reach /\ counter'.late = counter.late
      BY <1>2, <2>7 DEF Reach
    <2>9. allowance + counter.gone <= Reach /\ counter.gone <= Reach /\ 0 <= allowance + counter.late
      BY DEF Covered, ShelfCovered
    <2>10. /\ (allowance - n) + (counter.gone + n) <= Reach /\ counter.gone + n <= Reach
           /\ 0 <= (allowance - n) + counter.late
      BY <1>2, <2>3, <2>9
    <2>11. ShelfCovered'
      BY <2>7, <2>8, <2>10 DEF ShelfCovered
    <2> QED  BY <2>6, <2>11 DEF Covered
  <1> QED  BY <1>3, <1>4, <1>5, <1>6, <1>7, <1>8, <1>9, <1>10

LEMMA CoveredStep ==
    ASSUME Inv, ~house.listed, editing = Idle, Covered, [Next]_vars
    PROVE  Covered'
  <1>1. TypeOK
    BY DEF Inv
  <1>2. ASSUME UNCHANGED <<rack, clerk>> PROVE Covered'
    BY <1>2 DEF rack, Covered, ShelfCovered, ChecksCovered, SalesCovered, ShipmentsCovered, Reach, At
  <1>3. CASE UNCHANGED vars
    BY <1>2, <1>3 DEF vars
  <1>4. CASE Stockroom
    <2>1. ASSUME NEW taken \in Takings, NEW d, TransferToPhysical(taken, d)
          PROVE  Covered'
      <3> DEFINE n == Total(taken)
      <3>1. n \in Nat
        BY <2>1, Bounds DEF TransferToPhysical
      <3>2. /\ UNCHANGED <<pack, clerk>> /\ allowance' = allowance + n
            /\ counter' = [counter EXCEPT !.transferred = @ + n]
        BY <2>1 DEF TransferToPhysical, PutOnShelf
      <3> HIDE DEF n
      <3>3. counter'.transferred = counter.transferred + n /\ counter'.gone = counter.gone
            /\ counter'.late = counter.late
        BY <3>2, <1>1 DEF TypeOK, Counters
      <3>4. /\ counter.gone \in Nat /\ counter.late \in Nat /\ counter.transferred \in Nat
            /\ allowance \in Int /\ pack \in Nat /\ Reach \in Nat
        BY <1>1, CounterTypes
      <3>5. Reach' = Reach + n
        BY <3>1, <3>3, <3>4 DEF Reach
      <3>6. ShelfCovered'
        BY <3>1, <3>2, <3>3, <3>4, <3>5 DEF Covered, ShelfCovered
      <3>7. \A c \in Clerks : ~At(c, "idle") => clerk[c].since \in Nat
        BY <1>1, RequestTypes
      <3>8. ChecksCovered'
        <4> SUFFICES ASSUME NEW c \in Clerks, At(c, "checked"), NEW i \in ShelfLines
                     PROVE  /\ Units(clerk[c].lines[i], pack) <= allowance' + clerk[c].since
                            /\ counter.gone + Units(clerk[c].lines[i], pack) <= Reach' + clerk[c].since
          BY <3>2, <3>3 DEF ChecksCovered, At
        <4>1. clerk[c].lines \in [ShelfLines -> Lines] /\ clerk[c].since \in Nat
          BY <1>1, RequestTypes DEF At
        <4>2. PICK u \in Nat : u = Units(clerk[c].lines[i], pack)
          BY <3>4, <4>1, UnitsAre
        <4>3. u <= allowance + clerk[c].since /\ counter.gone + u <= Reach + clerk[c].since
          BY <4>2 DEF Covered, ChecksCovered
        <4> QED  BY <3>1, <3>2, <3>4, <3>5, <4>1, <4>2, <4>3
      <3>9. SalesCovered'
        <4> SUFFICES ASSUME NEW c \in Clerks, At(c, "selling"), NEW i \in ShelfLines
                     PROVE  /\ clerk[c].allowance <= allowance' + clerk[c].since
                            /\ clerk[c].units[i] <= clerk[c].allowance + clerk[c].since
                            /\ counter.gone + clerk[c].units[i] <= Reach' + clerk[c].since
          BY <3>2, <3>3, ShelfLinesAre DEF SalesCovered, At
        <4>1. /\ clerk[c].units \in [ShelfLines -> Nat] /\ clerk[c].since \in Nat
              /\ clerk[c].allowance \in Int
          BY <1>1, RequestTypes DEF At
        <4>2. PICK u \in Nat : u = clerk[c].units[i]
          BY <4>1
        <4>3. /\ clerk[c].allowance <= allowance + clerk[c].since
              /\ u <= clerk[c].allowance + clerk[c].since /\ counter.gone + u <= Reach + clerk[c].since
          BY <4>2 DEF Covered, SalesCovered
        <4> QED  BY <3>1, <3>2, <3>4, <3>5, <4>1, <4>2, <4>3
      <3>10. ShipmentsCovered'
        <4> SUFFICES ASSUME NEW c \in Clerks, At(c, "shipping")
                     PROVE  /\ clerk[c].units <= clerk[c].allowance
                            /\ clerk[c].allowance <= allowance' + clerk[c].since
          BY <3>2 DEF ShipmentsCovered, At
        <4>1. clerk[c].since \in Nat /\ clerk[c].allowance \in Int
          BY <1>1, RequestTypes DEF At
        <4>2. clerk[c].units <= clerk[c].allowance /\ clerk[c].allowance <= allowance + clerk[c].since
          BY DEF Covered, ShipmentsCovered
        <4> QED  BY <3>1, <3>2, <3>4, <4>1, <4>2
      <3> QED  BY <3>6, <3>8, <3>9, <3>10 DEF Covered
    <2> QED  BY <1>2, <1>4, <2>1 DEF Stockroom, ReceiveMarketProduction, ReleaseMarketStock,
                  ReconcileExpired, ReverseProductionLot
  <1>5. CASE Customers
    BY <1>2, <1>5 DEF Customers, Redistribute, Scrap
  <1>6. CASE Counter
    <2>1. PICK c \in Clerks :
            \/ \E rows \in Baskets : CheckSale(c, rows)
            \/ \E n \in Amounts : OpenShipment(c, n) \/ CheckAdjustment(c, n) \/ CheckAdjustment(c, -n)
            \/ OpenSale(c) \/ CommitSale(c) \/ MakePhysicalSale(c) \/ ShipmentRefused(c) \/ Adjust(c)
      BY <1>6 DEF Counter
    <2>2. \A n \in Amounts : n \in Int /\ -n \in Int
      BY Bounds DEF Amounts
    <2> QED  BY <2>1, <2>2, CounterCovered
  <1>7. CASE Office
    <2>1. ~ShowForm \/ UNCHANGED <<rack, clerk>>
      BY DEF ShowForm
    <2>2. ~SaveForm /\ \A p \in Packs : ~PostForm(p)
      BY DEF Idle, SaveForm, PostForm
    <2>3. ASSUME NEW n \in Amounts, Deliver(n) PROVE Covered'
      <3>1. UNCHANGED <<pack, allowance, clerk>> /\ counter' = [counter EXCEPT !.delivered = @ + n]
        BY <2>3 DEF Deliver
      <3>2. /\ counter'.transferred = counter.transferred /\ counter'.gone = counter.gone
            /\ counter'.late = counter.late
        BY <3>1, <1>1 DEF TypeOK, Counters
      <3> QED  BY <3>1, <3>2 DEF Covered, ShelfCovered, ChecksCovered, SalesCovered, ShipmentsCovered,
                    Reach, At
    <2> QED  BY <1>2, <1>7, <2>1, <2>2, <2>3 DEF Office, NextDay
  <1> QED  BY <1>3, <1>4, <1>5, <1>6, <1>7 DEF Next

(***************************************************************************)
(* Off the shelf a product not normally for shelf sale is sold only up to  *)
(* what was transferred to it, but for what sales take that were checked   *)
(* before others took theirs, for any number of clerks and forms of two    *)
(* lines (consume_transferred_physical_stock), while nobody edits it.      *)
(***************************************************************************)
Calm == ~house.listed /\ ~house.edited

THEOREM UnlistedTheorem == Spec => []UnlistedSalesAreCovered
  <1>1. Init => Covered
    <2> SUFFICES ASSUME Init PROVE Covered
      OBVIOUS
    <2>1. \A c \in Clerks : clerk[c].at = "idle"
      BY DEF Init, Idle
    <2>2. counter.gone = 0 /\ counter.late = 0 /\ counter.transferred = 0 /\ allowance = 0
      BY DEF Init
    <2>3. ShelfCovered
      BY <2>2 DEF ShelfCovered, Reach
    <2> QED  BY <2>1, <2>3 DEF Covered, ChecksCovered, SalesCovered, ShipmentsCovered, At
  <1>2. Inv /\ (~house.edited => Unedited) /\ (Calm => Covered) /\ [Next]_vars => (Calm => Covered)'
    <2> SUFFICES ASSUME Inv, ~house.edited => Unedited, Calm => Covered, [Next]_vars, Calm'
                 PROVE  Covered'
      OBVIOUS
    <2>1. Calm
      BY HouseStays DEF Calm
    <2> QED  BY <2>1, CoveredStep DEF Calm, Unedited
  <1>3. Inv /\ (~house.edited => Unedited) /\ (Calm => Covered) => UnlistedSalesAreCovered
    <2> SUFFICES ASSUME Inv, Unedited, Covered, Calm
                 PROVE  /\ counter.gone + Greater(0, allowance) <= counter.transferred + counter.late
                        /\ 0 <= allowance + counter.late
                        /\ allowance <= shelf - counter.adjusted + counter.late
      BY DEF Calm, UnlistedSalesAreCovered
    <2>1. /\ counter.gone \in Nat /\ counter.late \in Nat /\ counter.transferred \in Nat
          /\ counter.delivered \in Nat /\ counter.adjusted \in Int /\ shelf \in Int /\ allowance \in Int
      BY CounterTypes DEF Inv
    <2>2. /\ allowance + counter.gone <= counter.transferred + counter.late
          /\ counter.gone <= counter.transferred + counter.late
          /\ 0 <= allowance + counter.late
      BY DEF Covered, ShelfCovered, Reach
    <2>3. shelf + counter.gone = counter.delivered + counter.transferred + counter.adjusted
      BY DEF Unedited, ShelfAgrees
    <2>4. counter.gone + Greater(0, allowance) <= counter.transferred + counter.late
      BY <2>1, <2>2 DEF Greater
    <2> QED  BY <2>1, <2>2, <2>3, <2>4
  <1> QED  BY <1>1, <1>2, <1>3, InvAlways, UneditedAlways, PTL DEF Spec
=============================================================================
