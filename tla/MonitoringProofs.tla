-------------------------- MODULE MonitoringProofs --------------------------
(***************************************************************************)
(* What TLAPS proves of the monitoring side, for any clients, domains,      *)
(* quiet times, limits and capacities.  After lemmas on finite sets and on  *)
(* sums over them: of Alerts, that a device's alerts of a kind keep their   *)
(* distance and that who is told of as new is known; of Bandwidth, that     *)
(* rates are what was moved and that the newest samples survive; of         *)
(* QueryLog, that the readers' figures agree; and all of it of Monitoring.  *)
(***************************************************************************)
EXTENDS Monitoring, FiniteSetTheorems, TLAPS

-----------------------------------------------------------------------------
(* Finite sets and the orders of their elements.                            *)

\* The image of a finite set is finite.
LEMMA ImageIsFinite ==
  ASSUME NEW S, IsFiniteSet(S), NEW F, DOMAIN F = S
  PROVE  IsFiniteSet({F[x] : x \in S})
<1> DEFINE T == {F[x] : x \in S}
<1>1. [x \in S |-> F[x]] \in Surjection(S, T)
  BY DEF Surjection
<1> HIDE DEF T
<1> QED
  BY <1>1, FS_Surjection DEF T

\* Ordered lists every element of a finite set once.
LEMMA OrderedListsTheSet ==
  ASSUME NEW S, IsFiniteSet(S)
  PROVE  /\ Ordered(S) \in Seq(S)
         /\ \A x \in S : \E i \in DOMAIN Ordered(S) : Ordered(S)[i] = x
         /\ \A i, j \in DOMAIN Ordered(S) : i # j => Ordered(S)[i] # Ordered(S)[j]
<1> DEFINE n == Cardinality(S)
           o == Ordered(S)
<1>1. n \in Nat /\ ExistsBijection(1..n, S)
  BY FS_CardinalityType
<1>2. PICK b \in Bijection(1..n, S) : TRUE
  BY <1>1 DEF ExistsBijection
<1>3. b \in [1..n -> S] /\ IsInjective(b)
  BY <1>2 DEF Bijection, Injection, IsInjective
<1>4. o \in [1..n -> S] /\ IsInjective(o)
  BY <1>3 DEF Ordered, SetToSeq
<1>5. o \in Injection(1..n, S)
  BY <1>4 DEF Injection, IsInjective
<1>6. IsFiniteSet(1..n) /\ Cardinality(1..n) = n
  BY <1>1, FS_Interval
<1>7. o \in Surjection(1..n, S)
  BY <1>5, <1>6, FS_Injection
<1> HIDE DEF o, n
<1>8. o \in Seq(S) /\ DOMAIN o = 1..n
  BY <1>1, <1>4
<1> QED
  BY <1>4, <1>7, <1>8 DEF Surjection, IsInjective, o

\* A product of finite sets is finite.
LEMMA ProductIsFinite ==
  ASSUME NEW S, IsFiniteSet(S), NEW T, IsFiniteSet(T)
  PROVE  IsFiniteSet(S \X T)
<1> DEFINE Row(s) == {<<s, t>> : t \in T}
           F == [s \in S |-> Row(s)]
<1>1. ASSUME NEW s \in S PROVE IsFiniteSet(Row(s))
  <2> DEFINE G == [t \in T |-> <<s, t>>]
  <2>1. IsFiniteSet({G[t] : t \in T})
    BY ImageIsFinite, DOMAIN G = T
  <2> QED
    BY <2>1
<1>2. IsFiniteSet({F[s] : s \in S})
  BY ImageIsFinite, DOMAIN F = S
<1>3. S \X T = UNION {F[s] : s \in S}
  OBVIOUS
<1>4. \A R \in {F[s] : s \in S} : IsFiniteSet(R)
  BY <1>1
<1> HIDE DEF F
<1> QED
  BY <1>2, <1>3, <1>4, FS_UNION

\* Two sequences joined: what the one or the other lists.
LEMMA JoinLists ==
  ASSUME NEW S, NEW u \in Seq(S), NEW v \in Seq(S)
  PROVE  /\ u \o v \in Seq(S)
         /\ \A i \in DOMAIN u : i \in DOMAIN (u \o v) /\ (u \o v)[i] = u[i]
         /\ \A i \in DOMAIN v : Len(u) + i \in DOMAIN (u \o v) /\ (u \o v)[Len(u) + i] = v[i]
         /\ \A i \in DOMAIN (u \o v) :
              \/ i \in DOMAIN u /\ (u \o v)[i] = u[i]
              \/ i - Len(u) \in DOMAIN v /\ (u \o v)[i] = v[i - Len(u)]
OBVIOUS

-----------------------------------------------------------------------------
(* Sums over finite sets.                                                   *)

\* Finite sets come about one element at a time: what holds of a set when it
\* holds of the set without any one of its elements holds of every finite set.
LEMMA SetInduction ==
  ASSUME NEW S, IsFiniteSet(S), NEW Good, {} \in Good,
         \A T \in SUBSET S : T # {} /\ (\A x \in T : T \ {x} \in Good) => T \in Good
  PROVE  S \in Good
<1> SUFFICES ASSUME S \notin Good PROVE FALSE
  OBVIOUS
<1> DEFINE Bad == {T \in SUBSET S : T \notin Good}
<1>1. Bad \in SUBSET FiniteSubsetsOf(S) /\ Bad # {}
  BY FS_FiniteSubsetsOfFinite
<1>2. PICK T \in Bad : \A U \in Bad : <<U, T>> \notin StrictSubsetOrdering(S)
  <2> HIDE DEF Bad
  <2> QED BY <1>1, WFMin, FS_StrictSubsetOrderingWellFounded
<1>3. PICK x \in T : T \ {x} \notin Good
  BY <1>2
<1>4. T \ {x} \in Bad /\ T \ {x} # T
  BY <1>2, <1>3
<1> QED
  BY <1>2, <1>4 DEF StrictSubsetOrdering

\* g folds the subsets of S into base, one element after the other, taking the
\* elements in CHOOSE's order.
FoldsWith(step, base, g, S) ==
  \A T \in SUBSET S :
    g[T] = IF T = {} THEN base
           ELSE step[<<CHOOSE x \in T : TRUE, g[T \ {CHOOSE x \in T : TRUE}]>>]

FoldTable(step, base, g, S, V) == g \in [SUBSET S -> V] /\ FoldsWith(step, base, g, S)

Foldable(step, base, S, V) == IsFiniteSet(S) /\ base \in V /\ step \in [S \X V -> V]

LEMMA FoldsExist ==
  ASSUME NEW S, NEW V, NEW base, NEW step, Foldable(step, base, S, V)
  PROVE  \E g : FoldTable(step, base, g, S, V)
<1> DEFINE Holds(g, T) == g[T] = IF T = {} THEN base
                                 ELSE step[<<CHOOSE x \in T : TRUE, g[T \ {CHOOSE x \in T : TRUE}]>>]
           UpTo(g, n) == \A T \in SUBSET S : Cardinality(T) <= n => Holds(g, T)
           Good == {U \in SUBSET S : \E g \in [SUBSET S -> V] : UpTo(g, Cardinality(U))}
<1> USE DEF Foldable
<1>0. \A T \in SUBSET S : IsFiniteSet(T) /\ Cardinality(T) \in Nat /\ (Cardinality(T) = 0 <=> T = {})
  BY FS_Subset, FS_CardinalityType, FS_EmptySet
<1>1. {} \in Good
  <2>1. UpTo([T \in SUBSET S |-> base], 0)
    BY <1>0
  <2>2. Cardinality({}) = 0
    BY FS_EmptySet
  <2>3. [T \in SUBSET S |-> base] \in [SUBSET S -> V]
    OBVIOUS
  <2> HIDE DEF UpTo
  <2> QED
    BY <2>1, <2>2, <2>3
<1>2. ASSUME NEW U \in SUBSET S, U # {}, \A x \in U : U \ {x} \in Good PROVE U \in Good
  <2>1. PICK z \in U : TRUE
    BY <1>2
  <2> DEFINE n == Cardinality(U)
  <2>2. n \in Nat /\ Cardinality(U \ {z}) = n - 1
    BY <1>0, <2>1, FS_RemoveElement
  <2>3. PICK g \in [SUBSET S -> V] : UpTo(g, n - 1)
    <3>1. U \ {z} \in Good /\ Cardinality(U \ {z}) = n - 1
      BY <1>2, <2>1, <2>2
    <3> HIDE DEF UpTo, n
    <3> QED
      BY <3>1
  <2> DEFINE h == [T \in SUBSET S |->
                     IF Cardinality(T) <= n - 1 \/ T = {} THEN g[T]
                     ELSE step[<<CHOOSE x \in T : TRUE, g[T \ {CHOOSE x \in T : TRUE}]>>]]
  <2>4. \A T \in SUBSET S : T # {} => /\ (CHOOSE y \in T : TRUE) \in T
                                     /\ T \ {CHOOSE y \in T : TRUE} \in SUBSET S
                                     /\ Cardinality(T \ {CHOOSE y \in T : TRUE}) = Cardinality(T) - 1
    <3> SUFFICES ASSUME NEW T \in SUBSET S, T # {}
                 PROVE /\ (CHOOSE y \in T : TRUE) \in T
                       /\ T \ {CHOOSE y \in T : TRUE} \in SUBSET S
                       /\ Cardinality(T \ {CHOOSE y \in T : TRUE}) = Cardinality(T) - 1
      OBVIOUS
    <3>1. (CHOOSE y \in T : TRUE) \in T
      OBVIOUS
    <3> QED
      BY <1>0, <3>1, FS_RemoveElement
  <2>5. h \in [SUBSET S -> V]
    <3>1. ASSUME NEW T \in SUBSET S, ~(Cardinality(T) <= n - 1 \/ T = {})
          PROVE  step[<<CHOOSE x \in T : TRUE, g[T \ {CHOOSE x \in T : TRUE}]>>] \in V
      <4>1. (CHOOSE x \in T : TRUE) \in S /\ g[T \ {CHOOSE x \in T : TRUE}] \in V
        BY <2>3, <2>4, <3>1
      <4> QED
        BY <4>1
    <3>2. \A T \in SUBSET S : g[T] \in V
      BY <2>3
    <3> QED
      BY <3>1, <3>2
  <2>6. UpTo(h, n)
    <3> SUFFICES ASSUME NEW T \in SUBSET S, Cardinality(T) <= n PROVE Holds(h, T)
      OBVIOUS
    <3>1. CASE T = {}
      <4>1. n - 1 \in Nat /\ Cardinality(T) = 0
        BY <1>0, <2>1, <2>2, <3>1
      <4>2. Holds(g, T)
        BY <2>3, <4>1
      <4>3. h[T] = g[T]
        BY <3>1
      <4> QED
        BY <3>1, <4>2, <4>3
    <3>2. CASE T # {}
      <4> DEFINE c == CHOOSE y \in T : TRUE
      <4>1. T \ {c} \in SUBSET S /\ Cardinality(T \ {c}) = Cardinality(T) - 1 /\ Cardinality(T) \in Nat
        BY <1>0, <2>4, <3>2
      <4>2. h[T \ {c}] = g[T \ {c}]
        <5>1. Cardinality(T \ {c}) <= n - 1
          BY <2>2, <4>1
        <5> HIDE DEF c, n
        <5> QED
          BY <4>1, <5>1
      <4>3. h[T] = step[<<c, g[T \ {c}]>>]
        <5>1. CASE Cardinality(T) <= n - 1
          BY <2>3, <3>2, <5>1
        <5>2. CASE ~(Cardinality(T) <= n - 1)
          BY <3>2, <5>2
        <5> QED
          BY <5>1, <5>2
      <4> QED
        BY <3>2, <4>2, <4>3
    <3> QED
      BY <3>1, <3>2
  <2> QED
    BY <2>5, <2>6
<1>3. S \in Good
  <2> HIDE DEF Good
  <2> QED BY <1>1, <1>2, SetInduction
<1>4. PICK g \in [SUBSET S -> V] : UpTo(g, Cardinality(S))
  BY <1>3
<1>5. \A T \in SUBSET S : Cardinality(T) <= Cardinality(S)
  BY FS_Subset
<1> QED
  BY <1>4, <1>5 DEF FoldsWith, FoldTable

\* g sums f over the subsets of S, taking the elements in CHOOSE's order.
Sums(f, g, S) ==
  \A T \in SUBSET S :
    g[T] = IF T = {} THEN 0
           ELSE f[CHOOSE x \in T : TRUE] + g[T \ {CHOOSE x \in T : TRUE}]

LEMMA SumsAreUnique ==
  ASSUME NEW S, IsFiniteSet(S), NEW f, NEW g, NEW h, Sums(f, g, S), Sums(f, h, S)
  PROVE  \A T \in SUBSET S : g[T] = h[T]
<1> SUFFICES ASSUME NEW U \in SUBSET S PROVE g[U] = h[U]
  OBVIOUS
<1> DEFINE Good == {T \in SUBSET U : g[T] = h[T]}
<1>1. {} \in Good
  BY DEF Sums
<1>2. ASSUME NEW T \in SUBSET U, T # {}, \A x \in T : T \ {x} \in Good PROVE T \in Good
  <2>1. (CHOOSE x \in T : TRUE) \in T
    BY <1>2
  <2>2. T \ {CHOOSE x \in T : TRUE} \in Good
    BY <1>2, <2>1
  <2> QED
    BY <1>2, <2>2 DEF Sums
<1>3. IsFiniteSet(U)
  BY FS_Subset
<1>4. U \in Good
  <2> HIDE DEF Good
  <2> QED BY <1>1, <1>2, <1>3, SetInduction
<1> QED
  BY <1>4

LEMMA SumsExist ==
  ASSUME NEW S, IsFiniteSet(S), NEW f, \A x \in S : f[x] \in Int
  PROVE  \E g \in [SUBSET S -> Int] : Sums(f, g, S)
<1> DEFINE step == [p \in S \X Int |-> f[p[1]] + p[2]]
<1>1. step \in [S \X Int -> Int]
  OBVIOUS
<1>5. Foldable(step, 0, S, Int)
  BY <1>1 DEF Foldable
<1>2. PICK g : FoldTable(step, 0, g, S, Int)
  <2> HIDE DEF step
  <2> QED BY <1>5, FoldsExist
<1>6. g \in [SUBSET S -> Int] /\ FoldsWith(step, 0, g, S)
  BY <1>2 DEF FoldTable
<1>3. ASSUME NEW T \in SUBSET S, T # {}
      PROVE  step[<<CHOOSE x \in T : TRUE, g[T \ {CHOOSE x \in T : TRUE}]>>]
               = f[CHOOSE x \in T : TRUE] + g[T \ {CHOOSE x \in T : TRUE}]
  <2> DEFINE c == CHOOSE x \in T : TRUE
             v == g[T \ {c}]
  <2>1. c \in S /\ v \in Int
    BY <1>3, <1>6
  <2> HIDE DEF c, v
  <2>2. step[<<c, v>>] = f[c] + v
    BY <2>1
  <2> QED
    BY <2>2 DEF c, v
<1> HIDE DEF step
<1>4. Sums(f, g, S)
  BY <1>3, <1>6 DEF FoldsWith, Sums
<1> QED
  BY <1>4, <1>6

\* SumFunctionOnSet is that sum.
LEMMA SumIsOneOfThose ==
  ASSUME NEW S, IsFiniteSet(S), NEW f, NEW g \in [SUBSET S -> Int], Sums(f, g, S)
  PROVE  SumFunctionOnSet(f, S) = g[S]
<1> DEFINE P(h) == h = [T \in SUBSET S |->
                          IF T = {} THEN 0
                          ELSE f[CHOOSE x \in T : TRUE] + h[T \ {CHOOSE x \in T : TRUE}]]
           H == CHOOSE h : P(h)
<1>1. P(g)
  BY DEF Sums
<1>2. P(H)
  BY <1>1
<1>3. SumFunctionOnSet(f, S) = H[S]
  BY DEF SumFunctionOnSet, FoldFunctionOnSet, MapThenFoldSet
<1>4. Sums(f, H, S)
  <2> HIDE DEF H
  <2> QED BY <1>2 DEF Sums
<1> HIDE DEF H
<1> QED
  BY <1>3, <1>4, SumsAreUnique

\* f can be summed over S; g is the table of the sums over the subsets of S.
Summable(f, S) == IsFiniteSet(S) /\ \A x \in S : f[x] \in Int

SumTable(f, g, S) ==
  /\ g \in [SUBSET S -> Int] /\ Sums(f, g, S)
  /\ \A T \in SUBSET S : SumFunctionOnSet(f, T) = g[T]

LEMMA SumFacts ==
  ASSUME NEW S, NEW f, Summable(f, S)
  PROVE  \E g : SumTable(f, g, S)
<1>0. IsFiniteSet(S) /\ \A x \in S : f[x] \in Int
  BY DEF Summable
<1>1. PICK g \in [SUBSET S -> Int] : Sums(f, g, S)
  BY <1>0, SumsExist
<1>2. ASSUME NEW T \in SUBSET S PROVE SumFunctionOnSet(f, T) = g[T]
  <2>1. IsFiniteSet(T) /\ \A x \in T : f[x] \in Int
    BY <1>0, FS_Subset
  <2>2. PICK h \in [SUBSET T -> Int] : Sums(f, h, T)
    BY <2>1, SumsExist
  <2>3. SumFunctionOnSet(f, T) = h[T]
    BY <2>1, <2>2, SumIsOneOfThose
  <2>4. Sums(f, g, T)
    BY <1>1 DEF Sums
  <2>5. g[T] = h[T]
    BY <2>1, <2>2, <2>4, SumsAreUnique
  <2> QED
    BY <2>3, <2>5
<1> QED
  BY <1>1, <1>2 DEF SumTable

LEMMA SumIsInt ==
  ASSUME NEW S, NEW f, Summable(f, S)
  PROVE  SumFunctionOnSet(f, S) \in Int
<1>1. PICK g : SumTable(f, g, S)
  BY SumFacts
<1> QED
  BY <1>1 DEF SumTable

LEMMA SumOfNone == ASSUME NEW f PROVE SumFunctionOnSet(f, {}) = 0
<1>1. Summable(f, {})
  BY FS_EmptySet DEF Summable
<1>2. PICK g : SumTable(f, g, {})
  BY <1>1, SumFacts
<1> QED
  BY <1>2 DEF SumTable, Sums

\* The order does not matter: any element can be taken out first.
LEMMA SumWithout ==
  ASSUME NEW S, NEW f, Summable(f, S), NEW e \in S
  PROVE  SumFunctionOnSet(f, S) = f[e] + SumFunctionOnSet(f, S \ {e})
<1>0. IsFiniteSet(S) /\ \A x \in S : f[x] \in Int
  BY DEF Summable
<1>1. PICK g : SumTable(f, g, S)
  BY SumFacts
<1>a. /\ g \in [SUBSET S -> Int] /\ Sums(f, g, S)
      /\ \A T \in SUBSET S : SumFunctionOnSet(f, T) = g[T]
  BY <1>1 DEF SumTable
<1> DEFINE Good == {T \in SUBSET S : \A x \in T : g[T] = f[x] + g[T \ {x}]}
<1>2. {} \in Good
  OBVIOUS
<1>3. ASSUME NEW T \in SUBSET S, T # {}, \A x \in T : T \ {x} \in Good PROVE T \in Good
  <2> SUFFICES ASSUME NEW x \in T PROVE g[T] = f[x] + g[T \ {x}]
    OBVIOUS
  <2>1. PICK c \in T : g[T] = f[c] + g[T \ {c}] /\ c = CHOOSE y \in T : TRUE
    BY <1>a DEF Sums
  <2>2. CASE x = c
    BY <2>1, <2>2
  <2>3. CASE x # c
    <3>1. T \ {c} \in Good /\ T \ {x} \in Good
      BY <1>3
    <3>2. g[T \ {c}] = f[x] + g[(T \ {c}) \ {x}]
      BY <2>3, <3>1
    <3>3. g[T \ {x}] = f[c] + g[(T \ {x}) \ {c}]
      BY <2>3, <3>1
    <3>4. (T \ {c}) \ {x} = (T \ {x}) \ {c}
      OBVIOUS
    <3>5. PICK r \in Int : r = g[(T \ {c}) \ {x}] /\ r = g[(T \ {x}) \ {c}]
      BY <1>a, <3>4
    <3>6. f[x] \in Int /\ f[c] \in Int
      BY <1>0
    <3>7. g[T] = f[c] + (f[x] + r) /\ g[T \ {x}] = f[c] + r
      BY <2>1, <3>2, <3>3, <3>5
    <3> QED
      BY <3>6, <3>7
  <2> QED
    BY <2>2, <2>3
<1>4. S \in Good
  <2> HIDE DEF Good
  <2> QED BY <1>0, <1>2, <1>3, SetInduction
<1> QED
  BY <1>a, <1>4

LEMMA SummablePart ==
  ASSUME NEW S, NEW f, Summable(f, S), NEW T \in SUBSET S
  PROVE  Summable(f, T)
BY FS_Subset DEF Summable

\* A sum is no more than that of larger terms; equal terms have equal sums.
LEMMA SumMonotone ==
  ASSUME NEW S, NEW f, NEW g, Summable(f, S), Summable(g, S), \A x \in S : f[x] <= g[x]
  PROVE  SumFunctionOnSet(f, S) <= SumFunctionOnSet(g, S)
<1> DEFINE Good == {T \in SUBSET S : SumFunctionOnSet(f, T) <= SumFunctionOnSet(g, T)}
<1>1. {} \in Good
  <2>1. SumFunctionOnSet(f, {}) = 0 /\ SumFunctionOnSet(g, {}) = 0
    BY SumOfNone
  <2> QED
    BY <2>1
<1>2. ASSUME NEW T \in SUBSET S, T # {}, \A x \in T : T \ {x} \in Good PROVE T \in Good
  <2>1. PICK x \in T : TRUE
    BY <1>2
  <2>2. Summable(f, T) /\ Summable(g, T) /\ Summable(f, T \ {x}) /\ Summable(g, T \ {x})
    BY SummablePart
  <2>3. /\ SumFunctionOnSet(f, T) = f[x] + SumFunctionOnSet(f, T \ {x})
        /\ SumFunctionOnSet(g, T) = g[x] + SumFunctionOnSet(g, T \ {x})
    BY <2>1, <2>2, SumWithout
  <2>4. /\ SumFunctionOnSet(f, T \ {x}) \in Int /\ SumFunctionOnSet(g, T \ {x}) \in Int
    BY <2>2, SumIsInt
  <2>5. SumFunctionOnSet(f, T \ {x}) <= SumFunctionOnSet(g, T \ {x})
    BY <1>2, <2>1
  <2>6. f[x] \in Int /\ g[x] \in Int /\ f[x] <= g[x]
    BY <2>1 DEF Summable
  <2>7. SumFunctionOnSet(f, T) <= SumFunctionOnSet(g, T)
    BY <2>3, <2>4, <2>5, <2>6
  <2> QED
    BY <2>7
<1>3. S \in Good
  <2>1. IsFiniteSet(S)
    BY DEF Summable
  <2> HIDE DEF Good
  <2> QED BY <1>1, <1>2, <2>1, SetInduction
<1> QED
  BY <1>3

LEMMA SumSame ==
  ASSUME NEW S, NEW f, NEW g, Summable(f, S), \A x \in S : f[x] = g[x]
  PROVE  SumFunctionOnSet(f, S) = SumFunctionOnSet(g, S)
<1>0. Summable(g, S)
  BY DEF Summable
<1>1. \A x \in S : f[x] <= g[x] /\ g[x] <= f[x]
  BY DEF Summable
<1>2. SumFunctionOnSet(f, S) <= SumFunctionOnSet(g, S) /\ SumFunctionOnSet(g, S) <= SumFunctionOnSet(f, S)
  BY <1>0, <1>1, SumMonotone
<1>3. SumFunctionOnSet(f, S) \in Int /\ SumFunctionOnSet(g, S) \in Int
  BY <1>0, SumIsInt
<1> QED
  BY <1>2, <1>3

\* The sum over two sets that have nothing in common.
LEMMA SumUnion ==
  ASSUME NEW S, NEW T, S \intersect T = {}, NEW f, Summable(f, S), Summable(f, T)
  PROVE  SumFunctionOnSet(f, S \union T) = SumFunctionOnSet(f, S) + SumFunctionOnSet(f, T)
<1>0. Summable(f, S \union T)
  BY FS_Union DEF Summable
<1> DEFINE Good == {U \in SUBSET T : SumFunctionOnSet(f, S \union U)
                                       = SumFunctionOnSet(f, S) + SumFunctionOnSet(f, U)}
<1>1. {} \in Good
  <2>1. S \union {} = S /\ SumFunctionOnSet(f, {}) = 0 /\ SumFunctionOnSet(f, S) \in Int
    BY SumOfNone, SumIsInt
  <2> QED
    BY <2>1
<1>2. ASSUME NEW U \in SUBSET T, U # {}, \A x \in U : U \ {x} \in Good PROVE U \in Good
  <2>1. PICK x \in U : TRUE
    BY <1>2
  <2>2. Summable(f, U) /\ Summable(f, U \ {x}) /\ Summable(f, S \union U)
    BY <1>0, SummablePart
  <2>3. SumFunctionOnSet(f, U) = f[x] + SumFunctionOnSet(f, U \ {x})
    BY <2>1, <2>2, SumWithout
  <2>4. (S \union U) \ {x} = S \union (U \ {x})
    BY <2>1
  <2>5. SumFunctionOnSet(f, S \union U) = f[x] + SumFunctionOnSet(f, S \union (U \ {x}))
    BY <2>1, <2>2, <2>4, SumWithout
  <2>6. /\ SumFunctionOnSet(f, S) \in Int /\ SumFunctionOnSet(f, U \ {x}) \in Int
    BY <2>2, SumIsInt
  <2>9. f[x] \in Int
    BY <2>1, <2>2 DEF Summable
  <2>7. SumFunctionOnSet(f, S \union (U \ {x}))
          = SumFunctionOnSet(f, S) + SumFunctionOnSet(f, U \ {x})
    BY <1>2, <2>1
  <2>8. SumFunctionOnSet(f, S \union U) = SumFunctionOnSet(f, S) + SumFunctionOnSet(f, U)
    BY <2>3, <2>5, <2>6, <2>7, <2>9
  <2> QED
    BY <2>8
<1>3. T \in Good
  <2>1. IsFiniteSet(T)
    BY DEF Summable
  <2> HIDE DEF Good
  <2> QED BY <1>1, <1>2, <2>1, SetInduction
<1> QED
  BY <1>3

\* A sum of terms that are never negative is not negative, and a part of it is
\* no more than the whole.
LEMMA SumIsNat ==
  ASSUME NEW S, NEW f, Summable(f, S), \A x \in S : f[x] >= 0
  PROVE  SumFunctionOnSet(f, S) \in Nat
<1> DEFINE Good == {T \in SUBSET S : SumFunctionOnSet(f, T) >= 0}
<1>1. {} \in Good
  <2>1. SumFunctionOnSet(f, {}) = 0
    BY SumOfNone
  <2> QED
    BY <2>1
<1>2. ASSUME NEW T \in SUBSET S, T # {}, \A x \in T : T \ {x} \in Good PROVE T \in Good
  <2>1. PICK x \in T : TRUE
    BY <1>2
  <2>2. Summable(f, T) /\ Summable(f, T \ {x})
    BY SummablePart
  <2>3. SumFunctionOnSet(f, T) = f[x] + SumFunctionOnSet(f, T \ {x})
    BY <2>1, <2>2, SumWithout
  <2>4. SumFunctionOnSet(f, T \ {x}) \in Int /\ SumFunctionOnSet(f, T \ {x}) >= 0
    BY <1>2, <2>1, <2>2, SumIsInt
  <2>5. f[x] \in Int /\ f[x] >= 0
    BY <2>1 DEF Summable
  <2>6. SumFunctionOnSet(f, T) >= 0
    BY <2>3, <2>4, <2>5
  <2> QED
    BY <2>6
<1>3. S \in Good
  <2>1. IsFiniteSet(S)
    BY DEF Summable
  <2> HIDE DEF Good
  <2> QED BY <1>1, <1>2, <2>1, SetInduction
<1>4. SumFunctionOnSet(f, S) \in Int
  BY SumIsInt
<1> QED
  BY <1>3, <1>4

LEMMA SumOfPart ==
  ASSUME NEW S, NEW f, Summable(f, S), \A x \in S : f[x] >= 0, NEW T \in SUBSET S
  PROVE  SumFunctionOnSet(f, T) <= SumFunctionOnSet(f, S)
<1>1. Summable(f, T) /\ Summable(f, S \ T) /\ T \intersect (S \ T) = {} /\ T \union (S \ T) = S
  BY SummablePart
<1>2. SumFunctionOnSet(f, S) = SumFunctionOnSet(f, T) + SumFunctionOnSet(f, S \ T)
  BY <1>1, SumUnion
<1>3. SumFunctionOnSet(f, T) \in Int /\ SumFunctionOnSet(f, S \ T) \in Nat
  BY <1>1, SumIsInt, SumIsNat
<1> QED
  BY <1>2, <1>3

\* Grouping the terms by a key: p is the sum of each group, and the groups of
\* the keys K have every element of S.
LEMMA SumByGroup ==
  ASSUME NEW S, NEW f, Summable(f, S), NEW K, IsFiniteSet(K), NEW key \in [S -> K],
         NEW p, \A c \in K : p[c] = SumFunctionOnSet(f, {x \in S : key[x] = c})
  PROVE  SumFunctionOnSet(p, K) = SumFunctionOnSet(f, S)
<1> DEFINE Group(c) == {x \in S : key[x] = c}
           In(C) == {x \in S : key[x] \in C}
           Good == {C \in SUBSET K : SumFunctionOnSet(p, C) = SumFunctionOnSet(f, In(C))}
<1>0. Summable(p, K)
  <2>1. \A c \in K : Summable(f, Group(c))
    BY SummablePart
  <2>2. \A c \in K : p[c] \in Int
    BY <2>1, SumIsInt
  <2> QED
    BY <2>2 DEF Summable
<1>1. {} \in Good
  <2>1. In({}) = {} /\ SumFunctionOnSet(p, {}) = 0 /\ SumFunctionOnSet(f, {}) = 0
    BY SumOfNone
  <2> QED
    BY <2>1
<1>2. ASSUME NEW C \in SUBSET K, C # {}, \A c \in C : C \ {c} \in Good PROVE C \in Good
  <2>1. PICK c \in C : TRUE
    BY <1>2
  <2>2. Summable(p, C) /\ Summable(p, C \ {c})
    BY <1>0, SummablePart
  <2>3. SumFunctionOnSet(p, C) = p[c] + SumFunctionOnSet(p, C \ {c})
    BY <2>1, <2>2, SumWithout
  <2>4. In(C) = Group(c) \union In(C \ {c}) /\ Group(c) \intersect In(C \ {c}) = {}
    BY <2>1
  <2>5. Summable(f, Group(c)) /\ Summable(f, In(C \ {c}))
    BY SummablePart
  <2>6. SumFunctionOnSet(f, In(C))
          = SumFunctionOnSet(f, Group(c)) + SumFunctionOnSet(f, In(C \ {c}))
    <3> HIDE DEF Group, In
    <3> QED BY <2>4, <2>5, SumUnion
  <2>7. SumFunctionOnSet(p, C \ {c}) = SumFunctionOnSet(f, In(C \ {c}))
    BY <1>2, <2>1
  <2> QED
    BY <2>1, <2>3, <2>6, <2>7
<1>3. K \in Good
  <2> HIDE DEF Good
  <2> QED BY <1>1, <1>2, SetInduction
<1>4. In(K) = S
  OBVIOUS
<1> QED
  BY <1>3, <1>4

\* Sums of two functions, of zeros, and of a function one of whose terms grew.
LEMMA SumAdd ==
  ASSUME NEW S, NEW f, NEW g, NEW h, Summable(f, S), Summable(g, S),
         \A x \in S : h[x] = f[x] + g[x]
  PROVE  SumFunctionOnSet(h, S) = SumFunctionOnSet(f, S) + SumFunctionOnSet(g, S)
<1> DEFINE Good == {T \in SUBSET S : SumFunctionOnSet(h, T)
                                       = SumFunctionOnSet(f, T) + SumFunctionOnSet(g, T)}
<1>0. Summable(h, S)
  BY DEF Summable
<1>1. {} \in Good
  <2>1. /\ SumFunctionOnSet(f, {}) = 0 /\ SumFunctionOnSet(g, {}) = 0
        /\ SumFunctionOnSet(h, {}) = 0
    BY SumOfNone
  <2> QED
    BY <2>1
<1>2. ASSUME NEW T \in SUBSET S, T # {}, \A x \in T : T \ {x} \in Good PROVE T \in Good
  <2>1. PICK x \in T : TRUE
    BY <1>2
  <2>2. /\ Summable(f, T) /\ Summable(g, T) /\ Summable(h, T)
        /\ Summable(f, T \ {x}) /\ Summable(g, T \ {x})
    BY <1>0, SummablePart
  <2>3. /\ SumFunctionOnSet(f, T) = f[x] + SumFunctionOnSet(f, T \ {x})
        /\ SumFunctionOnSet(g, T) = g[x] + SumFunctionOnSet(g, T \ {x})
        /\ SumFunctionOnSet(h, T) = h[x] + SumFunctionOnSet(h, T \ {x})
    BY <2>1, <2>2, SumWithout
  <2>4. SumFunctionOnSet(f, T \ {x}) \in Int /\ SumFunctionOnSet(g, T \ {x}) \in Int
    BY <2>2, SumIsInt
  <2>5. f[x] \in Int /\ g[x] \in Int /\ h[x] = f[x] + g[x]
    BY <2>1 DEF Summable
  <2>6. SumFunctionOnSet(h, T \ {x})
          = SumFunctionOnSet(f, T \ {x}) + SumFunctionOnSet(g, T \ {x})
    BY <1>2, <2>1
  <2>7. SumFunctionOnSet(h, T) = SumFunctionOnSet(f, T) + SumFunctionOnSet(g, T)
    BY <2>3, <2>4, <2>5, <2>6
  <2> QED
    BY <2>7
<1>3. S \in Good
  <2>1. IsFiniteSet(S)
    BY DEF Summable
  <2> HIDE DEF Good
  <2> QED BY <1>1, <1>2, <2>1, SetInduction
<1> QED
  BY <1>3

LEMMA SumOfZeros ==
  ASSUME NEW S, IsFiniteSet(S), NEW f, \A x \in S : f[x] = 0
  PROVE  SumFunctionOnSet(f, S) = 0
<1>1. Summable(f, S)
  BY DEF Summable
<1>2. SumFunctionOnSet(f, S) = SumFunctionOnSet(f, S) + SumFunctionOnSet(f, S)
  BY <1>1, SumAdd
<1>3. SumFunctionOnSet(f, S) \in Int
  BY <1>1, SumIsInt
<1>4. PICK k \in Int : k = SumFunctionOnSet(f, S)
  BY <1>3
<1>5. k + k = k
  BY <1>2, <1>4
<1>6. \A m \in Int : m + m = m => m = 0
  OBVIOUS
<1> QED
  BY <1>4, <1>5, <1>6

LEMMA SumRaised ==
  ASSUME NEW S, NEW f, NEW g, Summable(f, S), NEW e \in S, NEW k \in Int,
         g[e] = f[e] + k, \A x \in S : x # e => g[x] = f[x]
  PROVE  SumFunctionOnSet(g, S) = SumFunctionOnSet(f, S) + k
<1>1. Summable(g, S) /\ f[e] \in Int
  BY DEF Summable
<1>2. Summable(f, S \ {e}) /\ SumFunctionOnSet(f, S \ {e}) \in Int
  BY SummablePart, SumIsInt
<1>3. SumFunctionOnSet(f, S \ {e}) = SumFunctionOnSet(g, S \ {e})
  BY <1>2, SumSame
<1>4. /\ SumFunctionOnSet(f, S) = f[e] + SumFunctionOnSet(f, S \ {e})
      /\ SumFunctionOnSet(g, S) = g[e] + SumFunctionOnSet(g, S \ {e})
  BY <1>1, SumWithout
<1> QED
  BY <1>1, <1>2, <1>3, <1>4

\* The largest of a finite set of numbers.
Numbers(S) == IsFiniteSet(S) /\ S # {} /\ S \subseteq Int

IsLargest(m, S) == m \in S /\ \A x \in S : x <= m

LEMMA LargestNumber ==
  ASSUME NEW S, Numbers(S)
  PROVE  \E m : IsLargest(m, S)
<1>0. IsFiniteSet(S) /\ S # {} /\ S \subseteq Int
  BY DEF Numbers
<1> DEFINE Good == {T \in SUBSET S : T # {} => \E m \in T : \A x \in T : x <= m}
<1>1. {} \in Good
  OBVIOUS
<1>2. ASSUME NEW T \in SUBSET S, T # {}, \A x \in T : T \ {x} \in Good PROVE T \in Good
  <2>1. PICK x \in T : TRUE
    BY <1>2
  <2>2. CASE T \ {x} = {}
    <3>1. \A y \in T : y <= x
      BY <1>0, <2>1, <2>2
    <3> QED
      BY <2>1, <3>1
  <2>3. CASE T \ {x} # {}
    <3>1. PICK m \in T \ {x} : \A y \in T \ {x} : y <= m
      BY <1>2, <2>1, <2>3
    <3>2. m \in Int /\ x \in Int /\ m \in T /\ \A y \in T : y \in Int
      BY <1>0, <2>1
    <3>3. CASE x <= m
      BY <3>1, <3>2, <3>3
    <3>4. CASE m <= x
      <4>1. \A y \in T : y <= x
        BY <3>1, <3>2, <3>4
      <4> QED
        BY <2>1, <4>1
    <3> QED
      BY <3>2, <3>3, <3>4
  <2> QED
    BY <2>2, <2>3
<1>3. S \in Good
  <2> HIDE DEF Good
  <2> QED BY <1>0, <1>1, <1>2, SetInduction
<1> QED
  BY <1>0, <1>3 DEF IsLargest

\* The row of the latest time in a finite set.
SomeRows(N) == IsFiniteSet(N) /\ N # {} /\ \A r \in N : r.at \in Int

IsNewest(p, N) == p \in N /\ \A q \in N : q.at <= p.at

LEMMA NewestRow ==
  ASSUME NEW N, SomeRows(N)
  PROVE  \E p : IsNewest(p, N)
<1>0. IsFiniteSet(N) /\ N # {} /\ \A r \in N : r.at \in Int
  BY DEF SomeRows
<1> DEFINE F == [r \in N |-> r.at]
           T == {F[r] : r \in N}
<1>1. IsFiniteSet(T)
  BY <1>0, ImageIsFinite, DOMAIN F = N
<1>2. T # {} /\ T \subseteq Int
  BY <1>0
<1>3. PICK m : IsLargest(m, T)
  <2> HIDE DEF T
  <2> QED
    BY <1>1, <1>2, LargestNumber DEF Numbers
<1> QED
  BY <1>3 DEF IsLargest, IsNewest

-----------------------------------------------------------------------------
(* Alerts.                                                                  *)

InPass == pc \in {"adding", "posting"}

\* What a pass looked at is behind it, and what it added since says so.
PassIsAhead ==
  /\ looked.base <= Len(ever) /\ looked.at <= now
  /\ Len(ever) + Len(drafts) <= MaxAlerts
  /\ \A i \in DOMAIN ever : i > looked.base => ever[i].base = looked.base

\* An alert like a draft is out of its quiet time, out of the table, or a
\* privacy alert of this very pass.
DraftsAreFresh ==
  \A j \in DOMAIN drafts, i \in DOMAIN ever :
    drafts[j].type # "new_device" /\ Same(drafts[j], ever[i]) =>
      \/ i <= looked.base - Cap
      \/ i <= looked.base /\ ever[i].time + Quiet[drafts[j].type] < looked.at
      \/ i > looked.base /\ drafts[j].type \in PrivacyTypes

\* No two drafts of one DNS alert.
DraftsAreDistinct ==
  \A j, k \in DOMAIN drafts :
    j # k /\ drafts[j].type \in DnsTypes => ~Same(drafts[j], drafts[k])

\* What the pass has to tell is drafted or told.
DueIsUnderway ==
  \A x \in due :
    \/ \E j \in DOMAIN drafts : drafts[j].type = x[1] /\ drafts[j].subject = x[2]
    \/ \E i \in DOMAIN ever : /\ ever[i].type = x[1] /\ ever[i].subject = x[2]
                              /\ ever[i].base = looked.base

AlertsInv ==
  /\ AlertsTypeOK /\ InboxIsNewest /\ NoRepeat
  /\ InPass => PassIsAhead /\ DraftsAreFresh /\ DraftsAreDistinct /\ DueIsUnderway

\* How many numbers are above i, up to m.
LEMMA IntervalAbove ==
  ASSUME NEW m \in Nat, NEW i \in 1..m
  PROVE  IsFiniteSet((i + 1)..m) /\ Cardinality((i + 1)..m) = m - i
<1>1. Cardinality((i + 1)..m) = IF i + 1 > m THEN 0 ELSE m - (i + 1) + 1
  BY FS_Interval
<1>2. IsFiniteSet((i + 1)..m)
  BY FS_Interval
<1> QED
  BY <1>1, <1>2

\* The newest k of rows with different ids up to m hold those above m - k.
LEMMA NewestKeeps ==
  ASSUME NEW rows, NEW m \in Nat, NEW k \in Nat,
         \A a \in rows : a.id \in 1..m, \A a, b \in rows : a.id = b.id => a = b,
         NEW a \in rows, a.id > m - k
  PROVE  a \in Newest(rows, k)
<1> DEFINE above == {b \in rows : b.id > a.id}
           G == [b \in above |-> b.id]
<1>1. G \in Injection(above, (a.id + 1)..m)
  BY DEF Injection, IsInjective
<1>2. IsFiniteSet((a.id + 1)..m) /\ Cardinality((a.id + 1)..m) = m - a.id
  BY IntervalAbove
<1>3. IsFiniteSet(above) /\ Cardinality(above) <= m - a.id
  <2> HIDE DEF above, G
  <2> QED BY <1>1, <1>2, FS_Injection
<1>4. Cardinality(above) \in Nat
  BY <1>3, FS_CardinalityType
<1>5. Cardinality(above) < k
  <2> HIDE DEF above
  <2> QED BY <1>3, <1>4
<1> QED
  BY <1>5 DEF Newest

\* The drafts of each kind are finitely many and of their kind; a DNS or
\* privacy alert is drafted when there was none like it of late.
LEMMA DraftsOfAPass ==
  ASSUME AlertsTypeOK, NEW seen \in SUBSET Devices, NEW known, NEW hits \in PrivacyHits
  PROVE  /\ IsFiniteSet(NewDevices(seen, known))
         /\ \A d \in NewDevices(seen, known) : d \in DraftRow /\ d.type = "new_device"
         /\ IsFiniteSet(DnsAlerts)
         /\ \A d \in DnsAlerts : /\ d \in DraftRow /\ d.type \in DnsTypes /\ d.domain = NoDomain
                                 /\ ~RecentlyAlerted(d.type, d.subject)
         /\ IsFiniteSet(PrivacyAlerts(hits))
         /\ \A d \in PrivacyAlerts(hits) : /\ d \in DraftRow /\ d.type \in PrivacyTypes
                                           /\ ~RecentlyAlerted(d.type, d.subject)
<1>1. IsFiniteSet(NewDevices(seen, known))
  <2> DEFINE F == [ip \in seen \ known |-> Draft("new_device", ip, NoDomain)]
  <2>1. IsFiniteSet(seen \ known)
    BY LogConstants, AlertConstants, FS_Subset
  <2>2. IsFiniteSet({F[ip] : ip \in seen \ known})
    BY <2>1, ImageIsFinite, DOMAIN F = seen \ known
  <2> QED
    BY <2>2 DEF NewDevices
<1>2. \A d \in NewDevices(seen, known) : d \in DraftRow /\ d.type = "new_device"
  BY AlertConstants DEF NewDevices, Draft, DraftRow, AlertTypes
<1>3. IsFiniteSet(DnsTypes \X Clients)
  <2>1. IsFiniteSet(DnsTypes)
    <3>1. DnsTypes = ({"late_night"} \union {"spike"}) \union {"blocked_burst"}
      BY DEF DnsTypes
    <3> QED
      BY <3>1, FS_Singleton, FS_Union
  <2> QED
    BY <2>1, LogConstants, ProductIsFinite
<1>4. PICK worth \in SUBSET (DnsTypes \X Clients) :
        /\ DnsAlerts = {Draft(x[1], x[2], NoDomain) : x \in worth}
        /\ \A x \in worth : ~RecentlyAlerted(x[1], x[2])
  <2> DEFINE rows == Since(log, now - Window)
             Worth(type, ip) ==
               CASE type = "late_night"    -> now \in Night /\ Queries(By(rows, ip)) >= LateAt
                 [] type = "spike"         -> Queries(By(rows, ip)) >= SpikeAt
                 [] type = "blocked_burst" -> Queries(Blocked(By(rows, ip))) >= BurstAt
             told == {x \in DnsTypes \X Clients :
                        Worth(x[1], x[2]) /\ ~RecentlyAlerted(x[1], x[2])}
  <2>1. DnsAlerts = {Draft(x[1], x[2], NoDomain) : x \in told}
    BY DEF DnsAlerts
  <2>2. told \in SUBSET (DnsTypes \X Clients) /\ \A x \in told : ~RecentlyAlerted(x[1], x[2])
    <3> HIDE DEF Worth
    <3> QED OBVIOUS
  <2> QED
    <3> HIDE DEF told
    <3> QED BY <2>1, <2>2
<1>5. IsFiniteSet(DnsAlerts)
  <2> DEFINE F == [x \in worth |-> Draft(x[1], x[2], NoDomain)]
  <2>1. IsFiniteSet(worth)
    BY <1>3, FS_Subset
  <2>2. IsFiniteSet({F[x] : x \in worth})
    BY <2>1, ImageIsFinite, DOMAIN F = worth
  <2> QED
    BY <1>4, <2>2
<1>6. \A d \in DnsAlerts : /\ d \in DraftRow /\ d.type \in DnsTypes /\ d.domain = NoDomain
                          /\ ~RecentlyAlerted(d.type, d.subject)
  BY <1>4 DEF Draft, DraftRow, AlertTypes
<1>7. hits \in SUBSET (Clients \X Domains) /\ \A x \in hits : PrivacyKind[x[2]] # "none"
  BY DEF PrivacyHits, Tops
<1>8. IsFiniteSet(PrivacyAlerts(hits))
  <2> DEFINE new == {h \in hits : ~RecentlyAlerted(PrivacyKind[h[2]], h[1])}
             F == [x \in new |-> Draft(PrivacyKind[x[2]], x[1], x[2])]
  <2>1. IsFiniteSet(new)
    <3>1. IsFiniteSet(Clients \X Domains) /\ new \in SUBSET (Clients \X Domains)
      BY <1>7, LogConstants, ProductIsFinite
    <3> HIDE DEF new
    <3> QED
      BY <3>1, FS_Subset
  <2>2. IsFiniteSet({F[x] : x \in new})
    <3>1. DOMAIN F = new
      OBVIOUS
    <3> HIDE DEF new, F
    <3> QED
      BY <2>1, <3>1, ImageIsFinite
  <2> QED
    BY <2>2 DEF PrivacyAlerts
<1>9. \A d \in PrivacyAlerts(hits) : /\ d \in DraftRow /\ d.type \in PrivacyTypes
                                    /\ ~RecentlyAlerted(d.type, d.subject)
  BY <1>7, AlertConstants DEF PrivacyAlerts, Draft, DraftRow, AlertTypes
<1> QED
  BY <1>1, <1>2, <1>5, <1>6, <1>8, <1>9

\* What a pass drafts, one after the other; priv are the privacy alerts.
ToldBy(seen, known, priv) ==
  Ordered(NewDevices(seen, known)) \o Ordered(DnsAlerts) \o priv

Lists(seq, S) == \A d \in S : \E i \in DOMAIN seq : seq[i] = d

\* Drafts of alerts there was none like of late, no DNS alert twice.
GoodDrafts(told) ==
  /\ told \in Seq(DraftRow)
  /\ \A i \in DOMAIN told :
       told[i].type # "new_device" => ~RecentlyAlerted(told[i].type, told[i].subject)
  /\ \A i, j \in DOMAIN told :
       i # j /\ told[i].type \in DnsTypes => ~Same(told[i], told[j])

LEMMA WhatAPassTells ==
  ASSUME AlertsTypeOK, NEW seen \in SUBSET Devices, NEW known,
         NEW hits \in PrivacyHits, NEW priv \in Seq(PrivacyAlerts(hits))
  PROVE  LET told == ToldBy(seen, known, priv)
         IN /\ GoodDrafts(told)
            /\ Lists(told, NewDevices(seen, known) \union DnsAlerts)
            /\ Lists(told, {priv[k] : k \in DOMAIN priv})
<1>0. PICK told : told = ToldBy(seen, known, priv)
  OBVIOUS
<1> DEFINE new == Ordered(NewDevices(seen, known))
           dns == Ordered(DnsAlerts)
<1>1. /\ new \in Seq(NewDevices(seen, known))
      /\ \A d \in NewDevices(seen, known) : \E i \in DOMAIN new : new[i] = d
  BY DraftsOfAPass, OrderedListsTheSet
<1>2. /\ dns \in Seq(DnsAlerts)
      /\ \A d \in DnsAlerts : \E i \in DOMAIN dns : dns[i] = d
      /\ \A i, j \in DOMAIN dns : i # j => dns[i] # dns[j]
  BY DraftsOfAPass, OrderedListsTheSet
<1>4. told = (new \o dns) \o priv
  BY <1>0 DEF ToldBy
<1> HIDE DEF new, dns
<1>5. /\ \A i \in DOMAIN new : new[i] \in DraftRow /\ new[i].type = "new_device"
      /\ \A i \in DOMAIN dns : /\ dns[i] \in DraftRow /\ dns[i].type \in DnsTypes
                              /\ dns[i].domain = NoDomain
                              /\ ~RecentlyAlerted(dns[i].type, dns[i].subject)
      /\ \A i \in DOMAIN priv : /\ priv[i] \in DraftRow /\ priv[i].type \in PrivacyTypes
                               /\ ~RecentlyAlerted(priv[i].type, priv[i].subject)
  <2>1. /\ \A i \in DOMAIN new : new[i] \in NewDevices(seen, known)
        /\ \A i \in DOMAIN dns : dns[i] \in DnsAlerts
        /\ \A i \in DOMAIN priv : priv[i] \in PrivacyAlerts(hits)
    BY <1>1, <1>2
  <2> QED
    BY <2>1, DraftsOfAPass
<1>6. new \in Seq(DraftRow) /\ dns \in Seq(DraftRow) /\ priv \in Seq(DraftRow)
  BY <1>1, <1>2, <1>5
<1>7. /\ new \o dns \in Seq(DraftRow)
      /\ \A i \in DOMAIN new : i \in DOMAIN (new \o dns) /\ (new \o dns)[i] = new[i]
      /\ \A i \in DOMAIN dns : /\ Len(new) + i \in DOMAIN (new \o dns)
                              /\ (new \o dns)[Len(new) + i] = dns[i]
      /\ \A i \in DOMAIN (new \o dns) :
           \/ i \in DOMAIN new /\ (new \o dns)[i] = new[i]
           \/ i - Len(new) \in DOMAIN dns /\ (new \o dns)[i] = dns[i - Len(new)]
  BY <1>6, JoinLists
<1> DEFINE first == new \o dns
<1> HIDE DEF first
<1>8. /\ told \in Seq(DraftRow)
      /\ \A i \in DOMAIN first : i \in DOMAIN told /\ told[i] = first[i]
      /\ \A i \in DOMAIN priv : Len(first) + i \in DOMAIN told /\ told[Len(first) + i] = priv[i]
      /\ \A i \in DOMAIN told :
           \/ i \in DOMAIN first /\ told[i] = first[i]
           \/ i - Len(first) \in DOMAIN priv /\ told[i] = priv[i - Len(first)]
  BY <1>4, <1>6, <1>7, JoinLists DEF first
<1>9. \A i \in DOMAIN told :
        \/ i \in DOMAIN new /\ told[i] = new[i]
        \/ i - Len(new) \in DOMAIN dns /\ told[i] = dns[i - Len(new)]
        \/ i - Len(first) \in DOMAIN priv /\ told[i] = priv[i - Len(first)]
  BY <1>7, <1>8 DEF first
<1>10. \A i \in DOMAIN told :
         told[i].type # "new_device" => ~RecentlyAlerted(told[i].type, told[i].subject)
  BY <1>5, <1>9
<1>11. \A i, j \in DOMAIN told :
         i # j /\ told[i].type \in DnsTypes => ~Same(told[i], told[j])
  <2> SUFFICES ASSUME NEW i \in DOMAIN told, NEW j \in DOMAIN told, i # j,
                      told[i].type \in DnsTypes, Same(told[i], told[j])
               PROVE  FALSE
    OBVIOUS
  <2>1. told[j].type \in DnsTypes /\ told[i].type = told[j].type /\ told[i].subject = told[j].subject
    BY DEF Same
  <2>2. /\ i - Len(new) \in DOMAIN dns /\ told[i] = dns[i - Len(new)]
        /\ j - Len(new) \in DOMAIN dns /\ told[j] = dns[j - Len(new)]
    BY <1>5, <1>9, <2>1 DEF DnsTypes, PrivacyTypes
  <2>3. told[i] = told[j]
    BY <1>5, <2>1, <2>2 DEF DraftRow
  <2>4. i \in Int /\ j \in Int /\ Len(new) \in Int
    BY <1>6, <1>8
  <2>5. i - Len(new) # j - Len(new)
    BY <2>4
  <2> QED
    BY <1>2, <2>2, <2>3, <2>5
<1>12. \A d \in NewDevices(seen, known) \union DnsAlerts : \E i \in DOMAIN told : told[i] = d
  <2>1. ASSUME NEW d \in NewDevices(seen, known) PROVE \E i \in DOMAIN told : told[i] = d
    <3>1. PICK i \in DOMAIN new : new[i] = d
      BY <1>1
    <3>2. i \in DOMAIN first /\ first[i] = d
      BY <1>7, <3>1 DEF first
    <3> QED
      BY <1>8, <3>2
  <2>2. ASSUME NEW d \in DnsAlerts PROVE \E i \in DOMAIN told : told[i] = d
    <3>1. PICK i \in DOMAIN dns : dns[i] = d
      BY <1>2
    <3>2. Len(new) + i \in DOMAIN first /\ first[Len(new) + i] = d
      BY <1>7, <3>1 DEF first
    <3> QED
      BY <1>8, <3>2
  <2> QED
    BY <2>1, <2>2
<1>13. \A k \in DOMAIN priv : \E i \in DOMAIN told : told[i] = priv[k]
  BY <1>8
<1> QED
  BY <1>0, <1>8, <1>10, <1>11, <1>12, <1>13 DEF GoodDrafts, Lists

\* A list of the hits' alerts, or none.
LEMMA PrivacyDrafts ==
  ASSUME AlertsTypeOK, NEW hits \in PrivacyHits, NEW onHits, NEW priv,
         priv = IF onHits THEN Ordered(PrivacyAlerts(hits)) ELSE <<>>
  PROVE  /\ priv \in Seq(PrivacyAlerts(hits))
         /\ onHits => Lists(priv, PrivacyAlerts(hits))
<1>1. CASE onHits
  <2>1. IsFiniteSet(PrivacyAlerts(hits)) /\ priv = Ordered(PrivacyAlerts(hits))
    BY <1>1, DraftsOfAPass
  <2> QED
    BY <2>1, OrderedListsTheSet DEF Lists
<1>2. CASE ~onHits
  BY <1>2
<1> QED
  BY <1>1, <1>2

-----------------------------------------------------------------------------
(* The log.                                                                 *)

LEMMA LookupsType ==
  ASSUME LogTypeOK, NEW batches, IsLookups(batches), LookupsArrive(batches)
  PROVE  LogTypeOK' /\ now' = now
<1>1. PICK batch \in batches :
        log' = log \union {[time |-> now, client |-> b.client, domain |-> b.domain,
                            blocked |-> b.blocked, n |-> b.n] : b \in batch}
  BY DEF LookupsArrive
<1> DEFINE F == [b \in batch |-> [time |-> now, client |-> b.client, domain |-> b.domain,
                                  blocked |-> b.blocked, n |-> b.n]]
<1>2. IsFiniteSet({F[b] : b \in batch})
  <2>1. IsFiniteSet(batch) /\ DOMAIN F = batch
    BY DEF IsLookups
  <2> HIDE DEF F
  <2> QED
    BY <2>1, ImageIsFinite
<1>3. log' = log \union {F[b] : b \in batch}
  BY <1>1
<1>4. \A b \in batch : F[b] \in LogRow
  BY DEF LogTypeOK, IsLookups, LogRow
<1>5. IsFiniteSet(log \union {F[b] : b \in batch})
  <2> HIDE DEF F
  <2> QED
    BY <1>2, FS_Union DEF LogTypeOK
<1> HIDE DEF F
<1> QED
  BY <1>3, <1>4, <1>5 DEF LogTypeOK, LookupsArrive

LEMMA TimeType ==
  ASSUME LogTypeOK, NEW keep, TimePasses(keep)
  PROVE  LogTypeOK' /\ now' = now + 1
<1>1. log' \in SUBSET log
  BY DEF TimePasses
<1>2. IsFiniteSet(log')
  BY <1>1, FS_Subset DEF LogTypeOK
<1> QED
  BY <1>1, <1>2 DEF LogTypeOK, TimePasses

-----------------------------------------------------------------------------
(* Steps of the agent and the dashboard.                                    *)

\* Nothing changes but the time, the log or the step the agent is at.
LEMMA StandsStill ==
  ASSUME AlertsInv, LogTypeOK', now <= now',
         UNCHANGED <<drafts, seenNow, previous, looked, due, inbox, ever>>,
         pc' \in {"down", "idle", "adding", "posting"}, InPass' <=> InPass
  PROVE  AlertsInv'
<1>1. AlertsTypeOK'
  BY DEF AlertsInv, AlertsTypeOK, InPass
<1>2. InboxIsNewest' /\ NoRepeat'
  BY DEF AlertsInv, InboxIsNewest, NoRepeat, Told, Same
<1>3. InPass' => PassIsAhead' /\ DraftsAreFresh' /\ DraftsAreDistinct' /\ DueIsUnderway'
  <2>1. PassIsAhead => PassIsAhead'
    BY DEF PassIsAhead, AlertsInv, AlertsTypeOK, LogTypeOK
  <2>2. DraftsAreFresh => DraftsAreFresh'
    BY DEF DraftsAreFresh, Same
  <2>3. DraftsAreDistinct => DraftsAreDistinct'
    BY DEF DraftsAreDistinct, Same
  <2>4. DueIsUnderway => DueIsUnderway'
    BY DEF DueIsUnderway
  <2> QED
    BY <2>1, <2>2, <2>3, <2>4 DEF AlertsInv
<1> QED
  BY <1>1, <1>2, <1>3 DEF AlertsInv

\* A pass ends, or the agent stops.
LEMMA PassIsOver ==
  ASSUME AlertsInv, UNCHANGED <<now, log, inbox, ever>>, pc' \in {"down", "idle"},
         drafts' = <<>>, seenNow' = {}, looked' = Rested,
         previous' \in {previous, {}, {seenNow}}
  PROVE  AlertsInv'
<1>1. AlertsTypeOK'
  <2>1. AlertsTypeOK
    BY DEF AlertsInv
  <2>2. LogTypeOK' /\ looked' \in [at : Nat, base : 0..MaxAlerts] /\ drafts' \in Seq(DraftRow)
    BY <2>1, AlertConstants DEF AlertsTypeOK, LogTypeOK, Rested
  <2>3. previous' = {} \/ \E S \in SUBSET Devices : previous' = {S}
    BY <2>1 DEF AlertsTypeOK
  <2> QED
    BY <2>1, <2>2, <2>3 DEF AlertsTypeOK
<1>2. InboxIsNewest' /\ NoRepeat'
  BY DEF AlertsInv, InboxIsNewest, NoRepeat, Told, Same
<1> QED
  BY <1>1, <1>2 DEF AlertsInv, InPass

LEMMA AcknowledgedRow ==
  ASSUME NEW a \in AlertRow, NEW yes \in BOOLEAN, NEW b, b = [a EXCEPT !.acked = yes]
  PROVE  b \in AlertRow /\ b.id = a.id /\ Same(b, a) /\ b.time = a.time
BY DEF AlertRow, Same

\* Acknowledgements change nothing else of a row.
LEMMA Acknowledged ==
  ASSUME AlertsInv, UNCHANGED <<now, log, pc, drafts, seenNow, previous, looked, due, ever>>,
         NEW Acks \in SUBSET inbox,
         inbox' = (inbox \ Acks) \union {[a EXCEPT !.acked = TRUE] : a \in Acks}
  PROVE  AlertsInv'
<1> DEFINE Acked(a) == [a EXCEPT !.acked = TRUE]
<1>0. inbox \subseteq AlertRow /\ inbox' = (inbox \ Acks) \union {Acked(a) : a \in Acks}
  BY DEF AlertsInv, AlertsTypeOK
<1>a. \A a \in inbox :
        Acked(a) \in AlertRow /\ Acked(a).id = a.id /\ Same(Acked(a), a) /\ Acked(a).time = a.time
  BY <1>0, AcknowledgedRow
<1> HIDE DEF Acked
<1>1. inbox' \subseteq AlertRow
  BY <1>0, <1>a
<1>2. AlertsTypeOK'
  BY <1>1 DEF AlertsInv, AlertsTypeOK, LogTypeOK
<1>3. /\ \A a \in inbox : a.id \in DOMAIN ever
      /\ \A a, b \in inbox : a.id = b.id => a = b
      /\ inbox \subseteq AlertRow
  BY DEF AlertsInv, AlertsTypeOK, InboxIsNewest
<1>4. \A a \in inbox' : \E b \in inbox :
        /\ a.id = b.id /\ Same(a, b) /\ a.time = b.time
        /\ a = IF b \in Acks THEN Acked(b) ELSE b
  BY <1>0, <1>a DEF Same
<1>5. \A b \in inbox : \E a \in inbox' : a.id = b.id /\ Same(a, b) /\ a.time = b.time
  BY <1>0, <1>a DEF Same
<1>6. InboxIsNewest'
  <2>1. \A a, b \in inbox' : a.id = b.id => a = b
    BY <1>3, <1>4
  <2>2. \A a \in inbox' : a.id \in DOMAIN ever
    BY <1>3, <1>4
  <2>3. ASSUME NEW i \in DOMAIN ever, i > Len(ever) - Cap
        PROVE  \E a \in inbox' : a.id = i /\ Same(a, ever[i]) /\ a.time = ever[i].time
    <3>1. PICK b \in inbox : b.id = i /\ Same(b, ever[i]) /\ b.time = ever[i].time
      BY <2>3 DEF AlertsInv, InboxIsNewest
    <3>2. PICK a \in inbox' : a.id = b.id /\ Same(a, b) /\ a.time = b.time
      BY <1>5
    <3> QED
      BY <3>1, <3>2 DEF Same
  <2>4. \A i \in DOMAIN ever : ever[i].id = i
    BY DEF AlertsInv, InboxIsNewest
  <2> QED
    BY <2>1, <2>2, <2>3, <2>4 DEF InboxIsNewest, Same
<1>7. NoRepeat'
  BY DEF AlertsInv, NoRepeat, Told
<1>8. InPass' => PassIsAhead' /\ DraftsAreFresh' /\ DraftsAreDistinct' /\ DueIsUnderway'
  BY DEF AlertsInv, InPass, PassIsAhead, DraftsAreFresh, DraftsAreDistinct, DueIsUnderway, Same
<1> QED
  BY <1>2, <1>6, <1>7, <1>8 DEF AlertsInv

\* What a pass has to tell is among its drafts.
Tells(told, x) == \E i \in DOMAIN told : told[i].type = x[1] /\ told[i].subject = x[2]

LEMMA DueIsDrafted ==
  ASSUME AlertsTypeOK, NEW seen \in SUBSET Devices, NEW known, NEW onHits,
         NEW hits \in PrivacyHits, NEW told,
         Lists(told, NewDevices(seen, known) \union DnsAlerts),
         onHits => Lists(told, PrivacyAlerts(hits)),
         NEW x \in Due(seen, known, onHits)
  PROVE  Tells(told, x)
<1> DEFINE rows == Since(log, now - PrivacyWindow)
           recent == {r \in rows : PrivacyKind[r.domain] # "none"}
           named == {<<r.client, r.domain>> : r \in recent}
           all == {y \in Clients \X Domains :
                     PrivacyKind[y[2]] # "none" /\ Naming(By(rows, y[1]), y[2]) # {}}
<1>1. CASE x \in {<<"new_device", ip>> : ip \in seen \ known}
  <2>1. PICK ip \in seen \ known : x = <<"new_device", ip>>
    BY <1>1
  <2>2. Draft("new_device", ip, NoDomain) \in NewDevices(seen, known)
    BY DEF NewDevices
  <2> QED
    BY <2>1, <2>2 DEF Draft, Lists, Tells
<1>2. CASE x \in {<<d.type, d.subject>> : d \in DnsAlerts}
  <2>1. PICK d \in DnsAlerts : x = <<d.type, d.subject>>
    BY <1>2
  <2> QED
    BY <2>1 DEF Lists, Tells
<1>3. CASE /\ x \in PrivacyTypes \X Clients /\ onHits /\ Cardinality(named) <= HitLimit
           /\ ~RecentlyAlerted(x[1], x[2])
           /\ \E r \in By(recent, x[2]) : PrivacyKind[r.domain] = x[1]
  <2>1. log \subseteq LogRow
    BY DEF AlertsTypeOK, LogTypeOK
  <2>2. named = all
    BY <2>1, AlertConstants DEF Since, LogRow, Naming, By
  <2>3. hits \in SUBSET all /\ Cardinality(hits) = IF Cardinality(all) < HitLimit THEN Cardinality(all) ELSE HitLimit
    BY DEF PrivacyHits, Tops
  <2>4. IsFiniteSet(all)
    <3>1. IsFiniteSet(Clients \X Domains) /\ all \in SUBSET (Clients \X Domains)
      BY LogConstants, ProductIsFinite
    <3> HIDE DEF all
    <3> QED
      BY <3>1, FS_Subset
  <2>5. hits = all
    <3>1. Cardinality(all) \in Nat /\ Cardinality(all) <= HitLimit /\ HitLimit \in Nat
      BY <1>3, <2>2, <2>4, FS_CardinalityType, AlertConstants
    <3>2. Cardinality(hits) = Cardinality(all)
      <4> HIDE DEF all
      <4> QED BY <2>3, <3>1
    <3> HIDE DEF all
    <3> QED
      BY <2>3, <2>4, <3>2, FS_Subset
  <2>6. PICK r \in By(recent, x[2]) : PrivacyKind[r.domain] = x[1]
    BY <1>3
  <2>7. <<x[2], r.domain>> \in hits
    <3>1. r \in recent /\ r.client = x[2]
      BY <2>6 DEF By
    <3> HIDE DEF recent, all
    <3> QED
      BY <2>2, <2>5, <3>1
  <2>8. Draft(x[1], x[2], r.domain) \in PrivacyAlerts(hits)
    <3> DEFINE h == <<x[2], r.domain>>
    <3>1. h \in hits /\ PrivacyKind[h[2]] = x[1] /\ h[1] = x[2] /\ h[2] = r.domain
      BY <2>6, <2>7
    <3>2. h \in {g \in hits : ~RecentlyAlerted(PrivacyKind[g[2]], g[1])}
      BY <1>3, <3>1
    <3> HIDE DEF h
    <3> QED
      BY <3>1, <3>2 DEF PrivacyAlerts
  <2> QED
    BY <1>3, <2>8 DEF Draft, Lists, Tells
<1> QED
  BY <1>1, <1>2, <1>3 DEF Due

LEMMA EvaluateKeeps ==
  ASSUME AlertsInv, Evaluate
  PROVE  AlertsInv'
<1>1. PICK seen \in SUBSET Devices, onHits \in HitSettings, hits \in PrivacyHits :
        LET known == IF previous = {} THEN seen ELSE UNION previous
            priv  == IF onHits THEN Ordered(PrivacyAlerts(hits)) ELSE <<>>
            told  == ToldBy(seen, known, priv)
        IN /\ Len(ever) + Len(told) <= MaxAlerts
           /\ seenNow' = seen
           /\ drafts' = told
           /\ due' = Due(seen, known, onHits)
  BY DEF Evaluate, ToldBy
<1>d. PICK known : known = IF previous = {} THEN seen ELSE UNION previous
  OBVIOUS
<1>2. PICK priv : priv = IF onHits THEN Ordered(PrivacyAlerts(hits)) ELSE <<>>
  OBVIOUS
<1>b. PICK told : told = ToldBy(seen, known, priv)
  OBVIOUS
<1>3. /\ drafts' = told /\ seenNow' = seen /\ due' = Due(seen, known, onHits)
      /\ Len(ever) + Len(told) <= MaxAlerts
  BY <1>1, <1>2, <1>b, <1>d
<1>a. AlertsTypeOK
  BY DEF AlertsInv
<1>c. priv \in Seq(PrivacyAlerts(hits)) /\ (onHits => Lists(priv, PrivacyAlerts(hits)))
  BY <1>2, <1>a, PrivacyDrafts
<1>4. /\ GoodDrafts(told) /\ Lists(told, NewDevices(seen, known) \union DnsAlerts)
      /\ Lists(told, {priv[k] : k \in DOMAIN priv})
  <2>1. GoodDrafts(ToldBy(seen, known, priv))
    BY <1>a, <1>c, WhatAPassTells
  <2>2. Lists(ToldBy(seen, known, priv), NewDevices(seen, known) \union DnsAlerts)
    BY <1>a, <1>c, WhatAPassTells
  <2>3. Lists(ToldBy(seen, known, priv), {priv[k] : k \in DOMAIN priv})
    BY <1>a, <1>c, WhatAPassTells
  <2> QED
    BY <1>b, <2>1, <2>2, <2>3
<1>5. UNCHANGED <<now, log, previous, inbox, ever>> /\ pc' = "adding"
      /\ looked' = [at |-> now, base |-> Len(ever)]
  BY DEF Evaluate, logVars
<1>6. Len(ever) \in 0..MaxAlerts
  <2>1. Len(ever) \in Nat /\ Len(told) \in Nat
    BY <1>a, <1>4 DEF AlertsTypeOK, GoodDrafts
  <2> QED
    BY <1>3, <2>1, AlertConstants
<1>7. AlertsTypeOK'
  BY <1>3, <1>a, <1>4, <1>5, <1>6 DEF AlertsTypeOK, LogTypeOK, GoodDrafts
<1>8. InboxIsNewest' /\ NoRepeat'
  BY <1>5 DEF AlertsInv, InboxIsNewest, NoRepeat, Told, Same
<1>9. PassIsAhead'
  BY <1>3, <1>a, <1>5, <1>6 DEF PassIsAhead, AlertsTypeOK, LogTypeOK
<1>10. DraftsAreFresh'
  <2>1. ASSUME NEW j \in DOMAIN told, NEW i \in DOMAIN ever,
               told[j].type # "new_device", Same(told[j], ever[i]), i > Len(ever) - Cap
        PROVE  ever[i].time + Quiet[told[j].type] < now
    <3>1. PICK a \in inbox : a.id = i /\ Same(a, ever[i]) /\ a.time = ever[i].time
      BY <2>1 DEF AlertsInv, InboxIsNewest
    <3>2. a.type = told[j].type /\ a.subject = told[j].subject
      BY <2>1, <3>1 DEF Same
    <3>3. ~RecentlyAlerted(told[j].type, told[j].subject)
      BY <1>4, <2>1 DEF GoodDrafts
    <3>4. ~(a.time >= now - Quiet[told[j].type])
      BY <3>2, <3>3 DEF RecentlyAlerted
    <3>5. told[j] \in DraftRow
      BY <1>4 DEF GoodDrafts
    <3>6. a.time \in Nat /\ now \in Nat /\ Quiet[told[j].type] \in Nat
      BY <1>a, <2>1, <3>5, AlertConstants DEF AlertsTypeOK, LogTypeOK, AlertRow, DraftRow, AlertTypes
    <3> QED
      BY <3>1, <3>4, <3>6
  <2>2. \A i \in DOMAIN ever : i \in Int /\ i <= Len(ever) /\ Len(ever) \in Int /\ Cap \in Int
    BY <1>a, AlertConstants DEF AlertsTypeOK
  <2>3. \A j \in DOMAIN told, i \in DOMAIN ever :
          told[j].type # "new_device" /\ Same(told[j], ever[i]) =>
            \/ i <= Len(ever) - Cap
            \/ i <= Len(ever) /\ ever[i].time + Quiet[told[j].type] < now
    BY <2>1, <2>2
  <2> QED
    BY <1>3, <1>5, <2>3 DEF DraftsAreFresh, Same
<1>11. DraftsAreDistinct'
  BY <1>3, <1>4 DEF DraftsAreDistinct, Same, GoodDrafts
<1>12. DueIsUnderway'
  <2>1. \A x \in due' : \E j \in DOMAIN told : told[j].type = x[1] /\ told[j].subject = x[2]
    <3>1. onHits => Lists(told, PrivacyAlerts(hits))
      BY <1>c, <1>4 DEF Lists
    <3>2. \A x \in Due(seen, known, onHits) : Tells(told, x)
      BY <1>4, <1>a, <3>1, DueIsDrafted
    <3> QED
      BY <1>3, <3>2 DEF Tells
  <2> QED
    BY <1>3, <2>1 DEF DueIsUnderway
<1> QED
  BY <1>7, <1>8, <1>9, <1>10, <1>11, <1>12 DEF AlertsInv

\* The row a draft becomes.
NewRow(d) ==
  [id |-> Len(ever) + 1, type |-> d.type, subject |-> d.subject, domain |-> d.domain,
   time |-> now, base |-> looked.base, acked |-> FALSE]

LEMMA NewRowType ==
  ASSUME AlertsTypeOK, PassIsAhead, NEW d \in DraftRow, Len(ever) + 1 <= MaxAlerts
  PROVE  NewRow(d) \in AlertRow
BY AlertConstants DEF NewRow, AlertRow, DraftRow, AlertsTypeOK, LogTypeOK, PassIsAhead

\* The table is cut after a row is added.
LEMMA InboxStaysNewest ==
  ASSUME AlertsTypeOK, InboxIsNewest, NEW row, row.id = Len(ever) + 1,
         ever' = Append(ever, row), inbox' = Newest(inbox \union {row}, Cap)
  PROVE  InboxIsNewest'
<1> DEFINE rows == inbox \union {row}
           m == Len(ever) + 1
<1>1. ever' \in Seq(AlertRow \union {row}) /\ Len(ever') = m /\ m \in Nat
      /\ ever'[m] = row /\ \A i \in DOMAIN ever : ever'[i] = ever[i]
  BY DEF AlertsTypeOK
<1>2. DOMAIN ever' = 1..m /\ DOMAIN ever = 1..(m - 1)
  BY <1>1 DEF AlertsTypeOK
<1>3. (\A a \in rows : a.id \in 1..m) /\ \A a, b \in rows : a.id = b.id => a = b
  BY <1>1, <1>2 DEF InboxIsNewest
<1>4. inbox' \subseteq rows
  BY DEF Newest
<1>5. \A i \in 1..m : ever'[i].id = i
  BY <1>1, <1>2 DEF InboxIsNewest
<1>6. ASSUME NEW i \in 1..m, i > m - Cap
      PROVE  \E a \in inbox' : a.id = i /\ Same(a, ever'[i]) /\ a.time = ever'[i].time
  <2>1. PICK a \in rows : a.id = i /\ Same(a, ever'[i]) /\ a.time = ever'[i].time
    <3>1. CASE i = m
      BY <1>1, <3>1 DEF Same
    <3>2. CASE i # m
      <4>1. i \in DOMAIN ever /\ i > Len(ever) - Cap
        BY <1>1, <1>2, <1>6, <3>2, AlertConstants DEF AlertsTypeOK
      <4>2. ever'[i] = ever[i]
        BY <1>1, <4>1
      <4>3. PICK a \in inbox : a.id = i /\ Same(a, ever[i]) /\ a.time = ever[i].time
        BY <4>1 DEF InboxIsNewest
      <4> QED
        BY <4>2, <4>3
    <3> QED
      BY <3>1, <3>2
  <2>2. a \in Newest(rows, Cap)
    <3> HIDE DEF rows, m
    <3> QED
      BY <1>1, <1>3, <1>6, <2>1, NewestKeeps, AlertConstants
  <2> QED
    BY <2>1, <2>2
<1> HIDE DEF rows, m
<1> QED
  BY <1>1, <1>2, <1>3, <1>4, <1>5, <1>6 DEF InboxIsNewest

\* One alert of a kind and a device at a time.
LEMMA NoRepeatKept ==
  ASSUME AlertsTypeOK, InboxIsNewest, NoRepeat, PassIsAhead, DraftsAreFresh,
         NEW j \in DOMAIN drafts, NEW row, row = NewRow(drafts[j]), ever' = Append(ever, row)
  PROVE  NoRepeat'
<1>1. /\ Len(ever) \in Nat /\ DOMAIN ever' = 1..(Len(ever) + 1) /\ DOMAIN ever = 1..Len(ever)
      /\ ever'[Len(ever) + 1] = row /\ \A i \in DOMAIN ever : ever'[i] = ever[i]
  BY DEF AlertsTypeOK
<1>2. Told' = Told \union {row}
  BY <1>1 DEF Told
<1>3. \A a \in Told : a \in AlertRow /\ a.id <= Len(ever) /\ \E i \in DOMAIN ever : a = ever[i] /\ a.id = i
  BY <1>1 DEF Told, InboxIsNewest, AlertsTypeOK
<1>4. /\ row.id = Len(ever) + 1 /\ Same(row, drafts[j])
      /\ row.time = now /\ row.base = looked.base
  BY DEF NewRow, Same
<1>5. ASSUME NEW a \in Told, a.type = row.type, a.subject = row.subject,
             a.type # "new_device", row.time - a.time <= Quiet[a.type]
      PROVE  \/ a.id <= row.base - Cap
             \/ a.type \in PrivacyTypes /\ a.base = row.base
  <2>1. PICK i \in DOMAIN ever : a = ever[i] /\ a.id = i
    BY <1>3
  <2>2. drafts[j].type = a.type /\ Same(drafts[j], ever[i])
    BY <1>4, <1>5, <2>1 DEF Same
  <2>3. \/ i <= looked.base - Cap
        \/ i <= looked.base /\ ever[i].time + Quiet[a.type] < looked.at
        \/ i > looked.base /\ a.type \in PrivacyTypes
    BY <1>5, <2>2 DEF DraftsAreFresh
  <2>4. a.time \in Nat /\ now \in Nat /\ looked.at \in Nat /\ looked.at <= now /\ Quiet[a.type] \in Nat
    BY <1>3, <1>5, AlertConstants DEF AlertsTypeOK, LogTypeOK, PassIsAhead, AlertRow, AlertTypes
  <2>5. ~(ever[i].time + Quiet[a.type] < looked.at)
    BY <1>4, <1>5, <2>1, <2>4
  <2>6. i > looked.base => a.base = looked.base
    BY <2>1 DEF PassIsAhead
  <2> QED
    BY <1>4, <2>1, <2>3, <2>5, <2>6
<1>6. ASSUME NEW a \in Told', NEW b \in Told', a.id < b.id, a.type = b.type, a.subject = b.subject,
             a.type # "new_device", b.time - a.time <= Quiet[a.type]
      PROVE  \/ a.id <= b.base - Cap
             \/ a.type \in PrivacyTypes /\ a.base = b.base
  <2>1. a \in Told
    <3>1. \A c \in Told' : c.id <= Len(ever) + 1 /\ c.id \in Int
      BY <1>1, <1>2, <1>3, <1>4
    <3>2. a # row
      BY <1>1, <1>4, <1>6, <3>1
    <3> QED
      BY <1>2, <3>2
  <2>2. CASE b \in Told
    BY <1>6, <2>1, <2>2 DEF NoRepeat
  <2>3. CASE b = row
    BY <1>5, <1>6, <2>1, <2>3
  <2> QED
    BY <1>2, <2>2, <2>3
<1> QED
  BY <1>6 DEF NoRepeat

LEMMA AddAlertKeeps ==
  ASSUME AlertsInv, AddAlert
  PROVE  AlertsInv'
<1>1. AlertsTypeOK /\ InboxIsNewest /\ NoRepeat /\ PassIsAhead /\ DraftsAreFresh
      /\ DraftsAreDistinct /\ DueIsUnderway
  BY DEF AlertsInv, AddAlert, InPass
<1>2. PICK row : row = NewRow(drafts[1])
  OBVIOUS
<1>3. /\ pc' \in {"adding", "posting"} /\ drafts # <<>> /\ drafts' = Tail(drafts)
      /\ inbox' = Newest(inbox \union {row}, Cap) /\ ever' = Append(ever, row)
      /\ UNCHANGED <<now, log, seenNow, previous, looked, due>>
  <2>1. /\ pc' = (IF Webhook THEN "posting" ELSE "adding") /\ drafts # <<>> /\ drafts' = Tail(drafts)
        /\ inbox' = Newest(inbox \union {NewRow(Head(drafts))}, Cap)
        /\ ever' = Append(ever, NewRow(Head(drafts)))
        /\ UNCHANGED <<now, log, seenNow, previous, looked, due>>
    BY DEF AddAlert, NewRow, logVars
  <2>2. drafts[1] = Head(drafts)
    BY <1>1, <2>1 DEF AlertsTypeOK
  <2> QED
    BY <1>2, <2>1, <2>2
<1>4. /\ drafts \in Seq(DraftRow) /\ drafts[1] \in DraftRow /\ 1 \in DOMAIN drafts
      /\ drafts' \in Seq(DraftRow) /\ Len(drafts') = Len(drafts) - 1 /\ Len(drafts) \in Nat
      /\ \A j \in DOMAIN drafts' : j + 1 \in DOMAIN drafts /\ drafts'[j] = drafts[j + 1] /\ j \in Nat
  BY <1>1, <1>3 DEF AlertsTypeOK
<1>5. /\ Len(ever) \in Nat /\ DOMAIN ever' = 1..(Len(ever) + 1) /\ DOMAIN ever = 1..Len(ever)
      /\ ever'[Len(ever) + 1] = row /\ \A i \in DOMAIN ever : ever'[i] = ever[i]
      /\ Len(ever') = Len(ever) + 1
  BY <1>1, <1>3 DEF AlertsTypeOK
<1>6. /\ row.id = Len(ever) + 1 /\ row.type = drafts[1].type /\ row.subject = drafts[1].subject
      /\ row.time = now /\ row.base = looked.base
  BY <1>2 DEF NewRow
<1>7. row \in AlertRow
  <2>1. Len(ever) + 1 <= MaxAlerts
    BY <1>1, <1>4, <1>5, AlertConstants DEF PassIsAhead
  <2> QED
    BY <1>1, <1>2, <1>4, <2>1, NewRowType
<1>8. AlertsTypeOK'
  <2>1. inbox' \subseteq inbox \union {row}
    BY <1>3 DEF Newest
  <2>2. ever' \in Seq(AlertRow)
    BY <1>1, <1>3, <1>7 DEF AlertsTypeOK
  <2> QED
    BY <1>1, <1>3, <1>4, <1>7, <2>1, <2>2 DEF AlertsTypeOK, LogTypeOK
<1>9. InboxIsNewest'
  BY <1>1, <1>3, <1>6, InboxStaysNewest
<1>10. NoRepeat'
  BY <1>1, <1>2, <1>3, <1>4, NoRepeatKept
<1>11. PassIsAhead'
  BY <1>1, <1>3, <1>4, <1>5, <1>6, AlertConstants DEF PassIsAhead, AlertsTypeOK, LogTypeOK
<1>12. DraftsAreFresh'
  <2> SUFFICES ASSUME NEW j \in DOMAIN drafts', NEW i \in DOMAIN ever',
                      drafts'[j].type # "new_device", Same(drafts'[j], ever'[i])
               PROVE  \/ i <= looked.base - Cap
                      \/ i <= looked.base /\ ever'[i].time + Quiet[drafts'[j].type] < looked.at
                      \/ i > looked.base /\ drafts'[j].type \in PrivacyTypes
    BY <1>3 DEF DraftsAreFresh, Same
  <2>1. j + 1 \in DOMAIN drafts /\ drafts'[j] = drafts[j + 1] /\ j + 1 # 1
    BY <1>4
  <2>2. CASE i \in DOMAIN ever
    BY <1>1, <1>5, <2>1, <2>2 DEF DraftsAreFresh
  <2>3. CASE i = Len(ever) + 1
    <3>1. Same(drafts[1], drafts[j + 1])
      BY <1>5, <1>6, <2>1, <2>3 DEF Same
    <3>2. drafts[j + 1].type \notin DnsTypes
      BY <1>1, <1>4, <2>1, <3>1 DEF DraftsAreDistinct, Same
    <3>3. drafts[j + 1].type \in PrivacyTypes
      <4>1. drafts[j + 1] \in DraftRow /\ drafts[j + 1].type # "new_device"
        BY <1>4, <2>1
      <4> QED
        BY <3>2, <4>1 DEF DraftRow, AlertTypes
    <3>4. Len(ever) + 1 > looked.base
      BY <1>1, <1>5 DEF PassIsAhead, AlertsTypeOK
    <3> QED
      BY <2>1, <2>3, <3>3, <3>4
  <2> QED
    BY <1>5, <2>2, <2>3
<1>13. DraftsAreDistinct'
  <2>1. \A j, k \in DOMAIN drafts' : j # k => j + 1 # k + 1
    BY <1>4
  <2> QED
    BY <1>1, <1>4, <2>1 DEF DraftsAreDistinct, Same
<1>14. DueIsUnderway'
  <2> SUFFICES ASSUME NEW x \in due
               PROVE  \/ \E j \in DOMAIN drafts' : drafts'[j].type = x[1] /\ drafts'[j].subject = x[2]
                      \/ \E i \in DOMAIN ever' : /\ ever'[i].type = x[1] /\ ever'[i].subject = x[2]
                                                 /\ ever'[i].base = looked.base
    BY <1>3 DEF DueIsUnderway
  <2>1. CASE \E j \in DOMAIN drafts : drafts[j].type = x[1] /\ drafts[j].subject = x[2]
    <3>1. PICK j \in DOMAIN drafts : drafts[j].type = x[1] /\ drafts[j].subject = x[2]
      BY <2>1
    <3>2. CASE j = 1
      BY <1>5, <1>6, <3>1, <3>2
    <3>3. CASE j # 1
      <4>1. j - 1 \in DOMAIN drafts' /\ (j - 1) + 1 = j
        BY <1>4, <3>3
      <4>2. drafts'[j - 1] = drafts[j]
        BY <1>4, <4>1
      <4> QED
        BY <3>1, <4>1, <4>2
    <3> QED
      BY <3>2, <3>3
  <2>2. CASE \E i \in DOMAIN ever : /\ ever[i].type = x[1] /\ ever[i].subject = x[2]
                                   /\ ever[i].base = looked.base
    BY <1>5, <2>2
  <2> QED
    BY <1>1, <2>1, <2>2 DEF DueIsUnderway
<1> QED
  BY <1>8, <1>9, <1>10, <1>11, <1>12, <1>13, <1>14 DEF AlertsInv

LEMMA AlertsStart == AlertsInit => AlertsInv
<1> SUFFICES ASSUME AlertsInit PROVE AlertsInv
  OBVIOUS
<1>1. now = 0 /\ log = {} /\ pc = "down" /\ drafts = <<>> /\ seenNow = {} /\ previous = {}
      /\ looked = Rested /\ due = {} /\ inbox = {} /\ ever = <<>>
  BY DEF AlertsInit, LogInit
<1>2. AlertsTypeOK
  BY <1>1, FS_EmptySet, AlertConstants DEF AlertsTypeOK, LogTypeOK, Rested
<1>3. InboxIsNewest /\ NoRepeat
  BY <1>1 DEF InboxIsNewest, NoRepeat, Told
<1> QED
  BY <1>1, <1>2, <1>3 DEF AlertsInv, InPass

LEMMA AlertsStep == AlertsInv /\ [AlertsNext]_alertVars => AlertsInv'
<1> SUFFICES ASSUME AlertsInv, [AlertsNext]_alertVars PROVE AlertsInv'
  OBVIOUS
<1>0. AlertsTypeOK /\ LogTypeOK
  BY DEF AlertsInv, AlertsTypeOK
<1>1. CASE Tick
  <2>1. LogTypeOK' /\ now' = now + 1 /\ now \in Nat /\ UNCHANGED agentVars
    BY <1>0, <1>1, TimeType DEF Tick, LogTypeOK
  <2> QED
    BY <1>0, <2>1, StandsStill DEF agentVars, InPass, AlertsTypeOK
<1>2. CASE Lookups
  <2>1. LogTypeOK' /\ now' = now /\ now \in Nat /\ UNCHANGED agentVars
    BY <1>0, <1>2, LookupsType, AlertConstants DEF Lookups, LogTypeOK
  <2> QED
    BY <1>0, <2>1, StandsStill DEF agentVars, InPass, AlertsTypeOK
<1>3. CASE Evaluate
  BY <1>3, EvaluateKeeps
<1>4. CASE AddAlert
  BY <1>4, AddAlertKeeps
<1>5. CASE Deliver \/ Start
  <2>1. /\ UNCHANGED <<now, log, drafts, seenNow, previous, looked, due, inbox, ever>>
        /\ pc' \in {"down", "idle", "adding", "posting"} /\ (InPass' <=> InPass)
    BY <1>5 DEF Deliver, Start, logVars, InPass
  <2>2. LogTypeOK' /\ now <= now'
    BY <1>0, <2>1 DEF LogTypeOK
  <2> QED
    BY <2>1, <2>2, StandsStill
<1>6. CASE Finish \/ PassFails \/ Crash
  <2>1. /\ UNCHANGED <<now, log, inbox, ever>> /\ pc' \in {"down", "idle"}
        /\ drafts' = <<>> /\ seenNow' = {} /\ looked' = Rested
        /\ previous' \in {previous, {}, {seenNow}}
    BY <1>6 DEF Finish, PassFails, Crash, EndsPass, logVars
  <2> QED
    BY <2>1, PassIsOver
<1>7. CASE AckAlert
  <2>1. PICK a \in inbox : inbox' = (inbox \ {a}) \union {[a EXCEPT !.acked = TRUE]}
    BY <1>7 DEF AckAlert
  <2>2. UNCHANGED <<now, log, pc, drafts, seenNow, previous, looked, due, ever>>
    BY <1>7 DEF AckAlert, logVars
  <2>3. {a} \in SUBSET inbox /\ {[b EXCEPT !.acked = TRUE] : b \in {a}} = {[a EXCEPT !.acked = TRUE]}
    OBVIOUS
  <2> QED
    BY <2>1, <2>2, <2>3, Acknowledged
<1>8. CASE AckAllAlerts
  <2>1. inbox' = (inbox \ inbox) \union {[a EXCEPT !.acked = TRUE] : a \in inbox}
    BY <1>8 DEF AckAllAlerts
  <2>2. UNCHANGED <<now, log, pc, drafts, seenNow, previous, looked, due, ever>>
    BY <1>8 DEF AckAllAlerts, logVars
  <2> QED
    BY <2>1, <2>2, Acknowledged
<1>9. CASE UNCHANGED alertVars
  <2>1. UNCHANGED <<now, log, pc, drafts, seenNow, previous, looked, due, inbox, ever>>
    BY <1>9 DEF alertVars, agentVars
  <2>2. LogTypeOK' /\ now <= now' /\ (InPass' <=> InPass) /\ pc' \in {"down", "idle", "adding", "posting"}
    BY <1>0, <2>1 DEF LogTypeOK, InPass, AlertsTypeOK
  <2> QED
    BY <2>1, <2>2, StandsStill
<1> QED
  BY <1>1, <1>2, <1>3, <1>4, <1>5, <1>6, <1>7, <1>8, <1>9 DEF AlertsNext

(* What holds of the alerts at every step: the table is the newest alerts   *)
(* ever added, a pass is ahead of what it looked at, its drafts are fresh   *)
(* and distinct, and what it had to tell is drafted or told.                *)
THEOREM AlertsInvariant == AlertsSpec => []AlertsInv
BY AlertsStart, AlertsStep, PTL DEF AlertsSpec

LEMMA TellingStep ==
  ASSUME AlertsInv, AlertsNext, previous' # previous, previous' # {}
  PROVE  \A x \in due : \E a \in Told :
           a.type = x[1] /\ a.subject = x[2] /\ a.base = looked.base
<1>1. Finish
  BY DEF AlertsNext, Tick, Lookups, Evaluate, AddAlert, Deliver, Finish, PassFails, Crash,
         Start, AckAlert, AckAllAlerts, agentVars
<1>2. DueIsUnderway /\ drafts = <<>>
  BY <1>1 DEF AlertsInv, Finish, InPass
<1> QED
  BY <1>2 DEF DueIsUnderway, Told

-----------------------------------------------------------------------------
(* Bandwidth.                                                               *)

\* The addresses whose text begins with a, and the flows an order gives to a.
Kin(a) == {b \in Addresses : b = a \/ <<b, a>> \in Extends}

FlowsOf(order, a) == {f \in Flows : Owner[f] \in DOMAIN order /\ order[Owner[f]] = a}

\* What a and its kin moved between two states of the household.
Moved(a, m, n) == SumFunctionOnSet([b \in Addresses |-> n[b] - m[b]], Kin(a))

NoMore(m, n) == \A b \in Addresses : m[b] <= n[b]

\* What the two sources show now, of an address.
Live(order, a) == SumFunctionOnSet(flows, FlowsOf(order, a))

\* Samples are of the past, one of an address at a time, and what had been
\* moved by then never gets less.
SamplesInOrder ==
  /\ IsFiniteSet(samples)
  /\ \A r \in samples : r.at <= clock /\ NoMore(r.real, moved)
  /\ \A q, r \in samples : q.at < r.at => NoMore(q.real, r.real)
  /\ \A q, r \in samples : q.ip = r.ip /\ q.at = r.at => q = r

\* No source shows more than a sample and what was moved since.
SourcesAreHonest ==
  \A q \in samples :
    /\ q.source = "nftables"
         => counted[q.ip] - q.bytes <= moved[q.ip] - q.real[q.ip]
    /\ q.source = "conntrack"
         => Live(q.order, q.ip) - q.bytes <= Moved(q.ip, q.real, moved)

\* Nor does a later sample of the same source.
SamplesAreHonest ==
  \A q, r \in samples :
    q.ip = r.ip /\ q.at < r.at /\ SameSource(q, r)
      => r.bytes - q.bytes <= MovedBetween(q.ip, q, r)

BandInv == BandTypeOK /\ SamplesInOrder /\ SourcesAreHonest /\ SamplesAreHonest

LEMMA MovedIsSummable ==
  ASSUME NEW a, NEW m \in [Addresses -> Nat], NEW n \in [Addresses -> Nat]
  PROVE  Summable([b \in Addresses |-> n[b] - m[b]], Kin(a))
<1>1. IsFiniteSet(Kin(a))
  BY BandConstants, FS_Subset DEF Kin
<1> QED
  BY <1>1 DEF Summable, Kin

LEMMA MovedIsNat ==
  ASSUME NEW a \in Addresses, NEW m \in [Addresses -> Nat], NEW n \in [Addresses -> Nat],
         NoMore(m, n)
  PROVE  Moved(a, m, n) \in Nat /\ n[a] - m[a] <= Moved(a, m, n)
<1> DEFINE f == [b \in Addresses |-> n[b] - m[b]]
<1>1. Summable(f, Kin(a))
  BY MovedIsSummable
<1>2. a \in Kin(a) /\ \A b \in Kin(a) : f[b] >= 0
  BY DEF Kin, NoMore
<1>3. SumFunctionOnSet(f, Kin(a)) \in Nat /\ SumFunctionOnSet(f, Kin(a) \ {a}) \in Nat
  <2>1. Summable(f, Kin(a) \ {a})
    BY <1>1, SummablePart
  <2> HIDE DEF f
  <2> QED
    BY <1>1, <1>2, <2>1, SumIsNat
<1>4. SumFunctionOnSet(f, Kin(a)) = f[a] + SumFunctionOnSet(f, Kin(a) \ {a})
  <2> HIDE DEF f
  <2> QED
    BY <1>1, <1>2, SumWithout
<1>5. f[a] = n[a] - m[a] /\ f[a] \in Int
  OBVIOUS
<1>6. Moved(a, m, n) = SumFunctionOnSet(f, Kin(a))
  BY DEF Moved
<1> HIDE DEF f
<1> QED
  BY <1>3, <1>4, <1>5, <1>6

LEMMA MovedGrows ==
  ASSUME NEW a \in Addresses, NEW l \in [Addresses -> Nat], NEW m \in [Addresses -> Nat],
         NEW n \in [Addresses -> Nat], NoMore(m, n)
  PROVE  Moved(a, l, m) <= Moved(a, l, n)
<1> DEFINE f == [b \in Addresses |-> m[b] - l[b]]
           g == [b \in Addresses |-> n[b] - l[b]]
<1>1. Summable(f, Kin(a)) /\ Summable(g, Kin(a))
  BY MovedIsSummable
<1>2. \A b \in Kin(a) : f[b] <= g[b]
  BY DEF Kin, NoMore
<1>3. SumFunctionOnSet(f, Kin(a)) <= SumFunctionOnSet(g, Kin(a))
  <2> HIDE DEF f, g
  <2> QED
    BY <1>1, <1>2, SumMonotone
<1> QED
  BY <1>3 DEF Moved

\* One more byte of a relative is one more byte moved.
LEMMA MovedByOne ==
  ASSUME NEW a \in Addresses, NEW l \in [Addresses -> Nat], NEW m \in [Addresses -> Nat],
         NEW n \in [Addresses -> Nat], NEW b \in Kin(a),
         n[b] = m[b] + 1, \A c \in Addresses : c # b => n[c] = m[c]
  PROVE  Moved(a, l, n) = Moved(a, l, m) + 1
<1> DEFINE f == [c \in Addresses |-> m[c] - l[c]]
           g == [c \in Addresses |-> n[c] - l[c]]
<1>1. Summable(f, Kin(a))
  BY MovedIsSummable
<1>2. g[b] = f[b] + 1 /\ \A c \in Kin(a) : c # b => g[c] = f[c]
  BY DEF Kin
<1>3. SumFunctionOnSet(g, Kin(a)) = SumFunctionOnSet(f, Kin(a)) + 1
  <2> HIDE DEF f, g
  <2> QED
    BY <1>1, <1>2, SumRaised
<1> QED
  BY <1>3 DEF Moved

\* Flows that have carried nothing add nothing.
LEMMA IdleFlows ==
  ASSUME NEW fl \in [Flows -> Nat], NEW order, NEW a
  PROVE  SumFunctionOnSet(fl, {f \in Flows : /\ fl[f] > 0 /\ Owner[f] \in DOMAIN order
                                             /\ order[Owner[f]] = a})
           = SumFunctionOnSet(fl, FlowsOf(order, a))
<1> DEFINE busy == {f \in Flows : /\ fl[f] > 0 /\ Owner[f] \in DOMAIN order
                                  /\ order[Owner[f]] = a}
           idle == FlowsOf(order, a) \ busy
<1>1. Summable(fl, Flows)
  BY BandConstants DEF Summable
<1>2. Summable(fl, busy) /\ Summable(fl, idle) /\ busy \intersect idle = {}
  BY <1>1, SummablePart DEF FlowsOf
<1>3. busy \union idle = FlowsOf(order, a)
  BY DEF FlowsOf
<1>4. \A f \in idle : fl[f] = 0
  BY DEF FlowsOf
<1>5. SumFunctionOnSet(fl, idle) = 0
  <2>1. IsFiniteSet(idle)
    BY <1>2 DEF Summable
  <2> HIDE DEF idle
  <2> QED
    BY <1>4, <2>1, SumOfZeros
<1>6. SumFunctionOnSet(fl, FlowsOf(order, a)) = SumFunctionOnSet(fl, busy) + SumFunctionOnSet(fl, idle)
  <2> HIDE DEF busy, idle
  <2> QED
    BY <1>2, <1>3, SumUnion
<1>7. SumFunctionOnSet(fl, busy) \in Int
  BY <1>2, SumIsInt
<1> QED
  BY <1>5, <1>6, <1>7

LEMMA FlowsSum ==
  ASSUME NEW fl \in [Flows -> Nat], NEW order, NEW a
  PROVE  Summable(fl, FlowsOf(order, a)) /\ SumFunctionOnSet(fl, FlowsOf(order, a)) \in Nat
<1>1. Summable(fl, FlowsOf(order, a))
  BY BandConstants, SummablePart, FS_Subset DEF Summable, FlowsOf
<1>2. \A f \in FlowsOf(order, a) : fl[f] >= 0
  BY DEF FlowsOf
<1> QED
  BY <1>1, <1>2, SumIsNat

LEMMA FlowByOne ==
  ASSUME NEW fl \in [Flows -> Nat], NEW gl \in [Flows -> Nat], NEW order, NEW a,
         NEW f \in FlowsOf(order, a), gl[f] = fl[f] + 1,
         \A x \in Flows : x # f => gl[x] = fl[x]
  PROVE  SumFunctionOnSet(gl, FlowsOf(order, a)) = SumFunctionOnSet(fl, FlowsOf(order, a)) + 1
<1>1. \A x \in FlowsOf(order, a) : x # f => gl[x] = fl[x]
  BY DEF FlowsOf
<1>2. Summable(fl, FlowsOf(order, a))
  BY FlowsSum
<1> QED
  BY <1>1, <1>2, SumRaised

LEMMA FlowsShrink ==
  ASSUME NEW fl \in [Flows -> Nat], NEW gl \in [Flows -> Nat], NEW order, NEW a,
         \A f \in FlowsOf(order, a) : gl[f] <= fl[f]
  PROVE  SumFunctionOnSet(gl, FlowsOf(order, a)) <= SumFunctionOnSet(fl, FlowsOf(order, a))
BY FlowsSum, SumMonotone

TakenRow(taken, a, at) ==
  [ip |-> a, at |-> at, bytes |-> taken[a].bytes, source |-> taken[a].source,
   order |-> taken[a].order, real |-> moved]

\* Two rows of an address that are newer than r, both kept.
Outdone(r, kept) ==
  \E p, q \in kept : p # q /\ p.ip = r.ip /\ q.ip = r.ip /\ p.at > r.at /\ q.at > r.at

\* What is kept of rows once the addresses of T are recorded at a time.
Kept(rows, taken, at, T, kept) ==
  /\ kept \subseteq rows \union {TakenRow(taken, a, at) : a \in T}
  /\ \A r \in rows : r.at >= at - Horizon =>
       /\ r.ip \notin T => r \in kept
       /\ r \in kept \/ Outdone(r, kept)

\* Recording one more address keeps its newest rows.
LEMMA RecordKeeps ==
  ASSUME NEW rows, IsFiniteSet(rows), NEW taken, NEW at \in Nat, \A r \in rows : r.at \in Int,
         NEW T, IsFiniteSet(T), NEW c, c \notin T, NEW acc, Kept(rows, taken, at, T, acc)
  PROVE  Kept(rows, taken, at, T \union {c}, Record(acc, TakenRow(taken, c, at)))
<1> DEFINE row == TakenRow(taken, c, at)
           new == {TakenRow(taken, a, at) : a \in T}
           all == {r \in acc \union {row} : r.at >= at - Horizon}
           kept == {r \in all : r.ip # c} \union NewestOf(all, c)
<1>1. row.ip = c /\ row.at = at /\ \A x \in new : x.ip \in T /\ x.at = at
  BY DEF TakenRow
<1>2. Record(acc, row) = kept
  BY <1>1 DEF Record
<1>3. acc \subseteq rows \union new
  BY DEF Kept
<1>4. kept \subseteq all
  BY DEF NewestOf
<1>5. IsFiniteSet(all) /\ \A r \in all : r.at \in Int /\ r.at >= at - Horizon
  <2>1. IsFiniteSet(new)
    <3> DEFINE F == [a \in T |-> TakenRow(taken, a, at)]
    <3>1. IsFiniteSet({F[a] : a \in T})
      BY ImageIsFinite, DOMAIN F = T
    <3> QED
      BY <3>1
  <2>2. IsFiniteSet(acc) /\ IsFiniteSet(acc \union {row})
    BY <1>3, <2>1, FS_Union, FS_Subset, FS_AddElement
  <2>3. IsFiniteSet(all)
    BY <2>2, FS_Subset
  <2> QED
    BY <1>1, <1>3, <2>3
<1>6. kept \subseteq rows \union {TakenRow(taken, a, at) : a \in T \union {c}}
  BY <1>3, <1>4
<1>7. ASSUME NEW r \in rows, r.at >= at - Horizon
      PROVE  /\ r.ip \notin T \union {c} => r \in kept
             /\ r \in kept \/ Outdone(r, kept)
  <2>1. r.ip \notin T => r \in acc
    BY <1>7 DEF Kept
  <2>2. CASE r.ip = c
    <3> DEFINE newer(x) == {q \in all : q.ip = c /\ q.at > x.at}
    <3>1. r \in all
      BY <1>7, <2>1, <2>2
    <3>2. CASE Cardinality(newer(r)) < Keeps
      BY <2>2, <3>1, <3>2 DEF NewestOf
    <3>3. CASE ~(Cardinality(newer(r)) < Keeps)
      <4>1. /\ IsFiniteSet(newer(r)) /\ Cardinality(newer(r)) \in Nat
            /\ \A x \in newer(r) : x.at \in Int
        BY <1>5, FS_Subset, FS_CardinalityType
      <4>2. newer(r) # {}
        <5>1. Cardinality({}) = 0 /\ Keeps \in Nat /\ Keeps >= 2
          BY FS_EmptySet, BandConstants
        <5> HIDE DEF newer
        <5> QED
          BY <3>3, <5>1
      <4>3. PICK p \in newer(r) : \A q \in newer(r) : q.at <= p.at
        <5>1. SomeRows(newer(r))
          BY <4>1, <4>2 DEF SomeRows
        <5> HIDE DEF newer
        <5>2. PICK p : IsNewest(p, newer(r))
          BY <5>1, NewestRow
        <5> QED
          BY <5>2 DEF IsNewest
      <4>4. newer(r) \ {p} # {} /\ IsFiniteSet(newer(r) \ {p})
        <5>1. IsFiniteSet({p}) /\ Cardinality({p}) = 1 /\ Keeps \in Nat /\ Keeps >= 2
          BY FS_Singleton, BandConstants
        <5> HIDE DEF newer
        <5>2. newer(r) # {p}
          BY <3>3, <5>1
        <5> QED
          BY <4>1, <4>3, <5>2, FS_Subset
      <4>5. PICK q \in newer(r) \ {p} : \A x \in newer(r) \ {p} : x.at <= q.at
        <5>1. SomeRows(newer(r) \ {p})
          BY <4>1, <4>4 DEF SomeRows
        <5> HIDE DEF newer
        <5>2. PICK q : IsNewest(q, newer(r) \ {p})
          BY <5>1, NewestRow
        <5> QED
          BY <5>2 DEF IsNewest
      <4>6. newer(p) = {} /\ newer(q) \subseteq {p}
        <5>1. r.at \in Int /\ p.at \in Int /\ q.at \in Int
          BY <4>1
        <5>2. ASSUME NEW x \in newer(p) PROVE FALSE
          <6>1. x \in all /\ x.ip = c /\ x.at > p.at /\ x.at \in Int
            BY <1>5, <5>2
          <6>2. p.at > r.at
            BY <4>3
          <6> HIDE DEF all
          <6>3. x \in newer(r)
            BY <5>1, <6>1, <6>2
          <6>4. x.at <= p.at
            BY <4>3, <6>3
          <6> QED
            BY <5>1, <6>1, <6>4
        <5>3. ASSUME NEW x \in newer(q), x # p PROVE FALSE
          <6>1. x \in all /\ x.ip = c /\ x.at > q.at /\ x.at \in Int
            BY <1>5, <5>3
          <6>2. q.at > r.at
            BY <4>5
          <6> HIDE DEF all
          <6>3. x \in newer(r) \ {p}
            BY <5>1, <5>3, <6>1, <6>2
          <6>4. x.at <= q.at
            BY <4>5, <6>3
          <6> QED
            BY <5>1, <6>1, <6>4
        <5> QED
          BY <5>2, <5>3
      <4>7. Cardinality(newer(p)) < Keeps /\ Cardinality(newer(q)) < Keeps
        <5>1. /\ Cardinality({}) = 0 /\ IsFiniteSet({p}) /\ Cardinality({p}) = 1
              /\ Keeps \in Nat /\ Keeps >= 2
          BY FS_Singleton, FS_EmptySet, BandConstants
        <5>2. Cardinality(newer(q)) \in Nat /\ Cardinality(newer(q)) <= 1
          <6> HIDE DEF newer
          <6> QED
            BY <4>6, <5>1, FS_Subset, FS_CardinalityType
        <5> HIDE DEF newer
        <5>3. Cardinality(newer(p)) = 0
          BY <4>6, <5>1
        <5> QED
          BY <5>1, <5>2, <5>3
      <4>8. p \in kept /\ q \in kept
        BY <4>3, <4>5, <4>7 DEF NewestOf
      <4>9. Outdone(r, kept)
        BY <2>2, <4>3, <4>5, <4>8 DEF Outdone
      <4> QED
        BY <2>2, <4>9
    <3> QED
      BY <3>2, <3>3
  <2>3. CASE r.ip # c
    <3>1. CASE r \in acc
      BY <1>7, <2>3, <3>1
    <3>2. CASE r \notin acc
      <4>1. Outdone(r, acc)
        BY <1>7, <3>2 DEF Kept
      <4>2. PICK p \in acc, q \in acc :
              p # q /\ p.ip = r.ip /\ q.ip = r.ip /\ p.at > r.at /\ q.at > r.at
        BY <4>1 DEF Outdone
      <4>3. p.at \in Int /\ q.at \in Int /\ r.at \in Int
        BY <1>1, <1>3
      <4>4. p \in kept /\ q \in kept
        BY <1>7, <2>3, <4>2, <4>3, BandConstants
      <4> QED
        BY <2>1, <3>2, <4>2, <4>4 DEF Outdone
    <3> QED
      BY <3>1, <3>2
  <2> QED
    BY <2>2, <2>3
<1> HIDE DEF kept
<1> QED
  BY <1>2, <1>6, <1>7 DEF Kept

\* A pass records every address it has taken a sample of.
LEMMA RecordAllKeeps ==
  ASSUME NEW rows, IsFiniteSet(rows), NEW taken, IsFiniteSet(DOMAIN taken), NEW at \in Nat,
         \A r \in rows : r.at \in Int
  PROVE  Kept(rows, taken, at, DOMAIN taken, RecordAll(rows, taken, at))
<1> DEFINE S == DOMAIN taken
           V == SUBSET (rows \union {TakenRow(taken, a, at) : a \in S})
           step == [p \in S \X V |-> Record(p[2], TakenRow(taken, p[1], at))]
<1>1. Foldable(step, rows, S, V)
  <2>1. ASSUME NEW p \in S \X V PROVE Record(p[2], TakenRow(taken, p[1], at)) \in V
    BY DEF Record, NewestOf
  <2> QED
    BY <2>1 DEF Foldable
<1>2. PICK g : FoldTable(step, rows, g, S, V)
  <2> HIDE DEF step, V
  <2> QED
    BY <1>1, FoldsExist
<1>3. g \in [SUBSET S -> V] /\ FoldsWith(step, rows, g, S)
  BY <1>2 DEF FoldTable
<1> DEFINE first(T) == CHOOSE x \in T : TRUE
           Step(h, T) == h[T] = IF T = {} THEN rows
                                ELSE Record(h[T \ {first(T)}], TakenRow(taken, first(T), at))
           P(h) == h = [T \in SUBSET S |->
                          IF T = {} THEN rows
                          ELSE Record(h[T \ {first(T)}], TakenRow(taken, first(T), at))]
           H == CHOOSE h : P(h)
<1>4. \A T \in SUBSET S : Step(g, T)
  <2> SUFFICES ASSUME NEW T \in SUBSET S PROVE Step(g, T)
    OBVIOUS
  <2>1. CASE T = {}
    BY <1>3, <2>1 DEF FoldsWith
  <2>2. CASE T # {}
    <3>1. first(T) \in S /\ T \ {first(T)} \in SUBSET S
      BY <2>2
    <3>2. g[T] = step[<<first(T), g[T \ {first(T)}]>>]
      BY <1>3, <2>2 DEF FoldsWith
    <3>3. g[T \ {first(T)}] \in V
      BY <1>3, <3>1
    <3> HIDE DEF first, V
    <3>4. step[<<first(T), g[T \ {first(T)}]>>]
            = Record(g[T \ {first(T)}], TakenRow(taken, first(T), at))
      BY <3>1, <3>3
    <3> QED
      BY <2>2, <3>2, <3>4
  <2> QED
    BY <2>1, <2>2
<1>5. P(g)
  BY <1>3, <1>4
<1>6. P(H)
  BY <1>5
<1>7. RecordAll(rows, taken, at) = H[S]
  BY DEF RecordAll, FoldSet, MapThenFoldSet, TakenRow
<1> DEFINE Good == {T \in SUBSET S : Kept(rows, taken, at, T, H[T])}
<1>8. {} \in Good
  <2>1. H[{}] = rows
    <3> HIDE DEF H
    <3> QED
      BY <1>6
  <2>2. Kept(rows, taken, at, {}, rows)
    BY DEF Kept
  <2> HIDE DEF H
  <2> QED
    BY <2>1, <2>2
<1>9. ASSUME NEW T \in SUBSET S, T # {}, \A x \in T : T \ {x} \in Good PROVE T \in Good
  <2>1. first(T) \in T /\ T = (T \ {first(T)}) \union {first(T)} /\ first(T) \notin T \ {first(T)}
    BY <1>9
  <2>2. H[T] = Record(H[T \ {first(T)}], TakenRow(taken, first(T), at))
    <3> HIDE DEF H, first
    <3> QED
      BY <1>6, <1>9
  <2>3. Kept(rows, taken, at, T \ {first(T)}, H[T \ {first(T)}])
    BY <1>9, <2>1
  <2>4. IsFiniteSet(T \ {first(T)})
    BY FS_Subset
  <2> DEFINE U == T \ {first(T)}
             c == first(T)
             acc == H[U]
  <2>5. IsFiniteSet(U) /\ c \notin U /\ Kept(rows, taken, at, U, acc) /\ T = U \union {c}
    BY <2>1, <2>3, <2>4
  <2> HIDE DEF U, c, acc
  <2>6. Kept(rows, taken, at, U \union {c}, Record(acc, TakenRow(taken, c, at)))
    BY <2>5, RecordKeeps
  <2>7. Record(acc, TakenRow(taken, c, at)) = H[T]
    BY <2>2 DEF U, c, acc
  <2> HIDE DEF H
  <2> QED
    BY <2>5, <2>6, <2>7
<1>10. S \in Good
  <2> HIDE DEF Good
  <2> QED
    BY <1>8, <1>9, SetInduction
<1> HIDE DEF H
<1> QED
  BY <1>7, <1>10

LEMMA BandStart == BandInit => BandInv
<1> SUFFICES ASSUME BandInit PROVE BandInv
  OBVIOUS
<1>1. samples = {} /\ IsFiniteSet({})
  BY FS_EmptySet DEF BandInit
<1>2. BandTypeOK
  BY <1>1, BandConstants DEF BandInit, BandTypeOK
<1> QED
  BY <1>1, <1>2 DEF BandInv, SamplesInOrder, SourcesAreHonest, SamplesAreHonest

\* What a reading may be: of the counters, or of the connections in an order.
LEMMA Readings ==
  ASSUME BandTypeOK, NEW nftOk \in BOOLEAN, NEW ctOk \in BOOLEAN, NEW order \in Orders,
         NEW taken,
         taken = SampleDeviceBandwidth(NftBytes(nftOk), ConntrackRows(ctOk, order), order)
  PROVE  /\ IsFiniteSet(DOMAIN taken) /\ DOMAIN taken \subseteq Linked
         /\ \A a \in DOMAIN taken :
              /\ taken[a].source \in {"nftables", "conntrack"}
              /\ taken[a].order \in Orders /\ taken[a].bytes \in Nat
              /\ taken[a].source = "nftables" => taken[a].bytes = counted[a]
              /\ taken[a].source = "conntrack" => taken[a].bytes = Live(taken[a].order, a)
<1> DEFINE nft == NftBytes(nftOk)
           ct == ConntrackRows(ctOk, order)
<1>1. DOMAIN nft \subseteq Linked /\ \A a \in DOMAIN nft : nft[a] = counted[a]
  BY DEF NftBytes
<1>2. DOMAIN ct \subseteq Linked /\ \A a \in DOMAIN ct : ct[a] = Live(order, a)
  <2>1. DOMAIN ct \subseteq Linked
    BY DEF ConntrackRows
  <2>2. ASSUME NEW a \in DOMAIN ct PROVE ct[a] = Live(order, a)
    <3>1. ct[a] = SumFunctionOnSet(flows, {f \in Flows : /\ flows[f] > 0 /\ Owner[f] \in DOMAIN order
                                                        /\ order[Owner[f]] = a})
      BY <2>2 DEF ConntrackRows
    <3> QED
      BY <3>1, IdleFlows DEF Live, BandTypeOK
  <2> QED
    BY <2>1, <2>2
<1>3. \A a : Live(order, a) \in Nat
  BY FlowsSum DEF Live, BandTypeOK
<1>4. AnyOrder \in Orders
  BY DEF AnyOrder
<1>5. \A a \in Linked : counted[a] \in Nat
  BY DEF BandTypeOK
<1>6. DOMAIN taken = DOMAIN nft \union DOMAIN ct
  BY DEF SampleDeviceBandwidth
<1>7. ASSUME NEW a \in DOMAIN taken
      PROVE  taken[a] = IF a \in DOMAIN nft
                        THEN [bytes |-> nft[a], source |-> "nftables", order |-> AnyOrder]
                        ELSE [bytes |-> ct[a], source |-> "conntrack", order |-> order]
  BY <1>7 DEF SampleDeviceBandwidth
<1>8. IsFiniteSet(Linked)
  BY BandConstants, FS_Subset
<1>9. DOMAIN taken \subseteq Linked
  BY <1>1, <1>2, <1>6
<1>10. IsFiniteSet(DOMAIN taken)
  BY <1>8, <1>9, FS_Subset
<1> HIDE DEF nft, ct
<1>11. ASSUME NEW a \in DOMAIN taken
       PROVE  /\ taken[a].source \in {"nftables", "conntrack"}
              /\ taken[a].order \in Orders /\ taken[a].bytes \in Nat
              /\ taken[a].source = "nftables" => taken[a].bytes = counted[a]
              /\ taken[a].source = "conntrack" => taken[a].bytes = Live(taken[a].order, a)
  <2>1. CASE a \in DOMAIN nft
    BY <1>1, <1>4, <1>5, <1>7, <2>1
  <2>2. CASE a \notin DOMAIN nft
    <3>1. taken[a] = [bytes |-> ct[a], source |-> "conntrack", order |-> order]
      BY <1>7, <2>2
    <3>2. a \in DOMAIN ct /\ ct[a] = Live(order, a) /\ ct[a] \in Nat
      BY <1>2, <1>3, <1>6, <2>2
    <3>3. taken[a].source = "conntrack" /\ taken[a].order = order /\ taken[a].bytes = ct[a]
      BY <3>1
    <3> QED
      BY <3>2, <3>3
  <2> QED
    BY <2>1, <2>2
<1> QED
  BY <1>9, <1>10, <1>11

\* An order gives a flow to its owner or to an address that begins the owner's.
LEMMA OrdersTakeKin ==
  ASSUME NEW order \in Orders, NEW a, NEW f \in FlowsOf(order, a)
  PROVE  Owner[f] \in Kin(a)
<1>1. f \in Flows /\ Owner[f] \in DOMAIN order /\ order[Owner[f]] = a /\ Owner[f] \in Addresses
  BY BandConstants DEF FlowsOf
<1>2. order[Owner[f]] \in Takers(Owner[f])
  BY <1>1 DEF Orders
<1> QED
  BY <1>1, <1>2 DEF Takers, Kin

LEMMA TypedSamples ==
  ASSUME BandTypeOK, NEW q \in samples
  PROVE  /\ q.ip \in Linked /\ q.ip \in Addresses /\ q.at \in Nat /\ q.bytes \in Nat
         /\ q.source \in {"nftables", "conntrack"} /\ q.order \in Orders
         /\ q.real \in [Addresses -> Nat]
<1>1. q \in SampleRow
  BY DEF BandTypeOK
<1> QED
  BY <1>1, BandConstants DEF SampleRow

\* Traffic, the end of a flow and a reload change what the sources show; the
\* samples stay.
LEMMA SourcesKeep ==
  ASSUME BandInv, BandTypeOK', samples' = samples, clock' = clock, NoMore(moved, moved'),
         SourcesAreHonest'
  PROVE  BandInv'
<1>1. SamplesInOrder'
  <2>1. ASSUME NEW r \in samples PROVE NoMore(r.real, moved')
    <3>1. NoMore(r.real, moved) /\ r.real \in [Addresses -> Nat]
      BY TypedSamples DEF BandInv, SamplesInOrder
    <3> QED
      BY <3>1 DEF NoMore, BandTypeOK, BandInv
  <2> QED
    BY <2>1 DEF BandInv, SamplesInOrder
<1>2. SamplesAreHonest'
  BY DEF BandInv, SamplesAreHonest, MovedBetween, SameSource
<1> QED
  BY <1>1, <1>2 DEF BandInv

LEMMA TrafficKeeps == BandInv /\ Traffic => BandInv'
<1> SUFFICES ASSUME BandInv, Traffic PROVE BandInv'
  OBVIOUS
<1>0. BandTypeOK /\ SamplesInOrder /\ SourcesAreHonest
  BY DEF BandInv
<1>1. PICK f \in Flows, seen \in BOOLEAN :
        /\ moved' = [moved EXCEPT ![Owner[f]] = @ + 1]
        /\ flows' = [flows EXCEPT ![f] = @ + 1]
        /\ seen => Owner[f] \in Linked
        /\ counted' = IF seen THEN [counted EXCEPT ![Owner[f]] = @ + 1] ELSE counted
        /\ UNCHANGED <<clock, samples>>
  BY DEF Traffic
<1>2. Owner[f] \in Addresses
  BY BandConstants
<1>3. /\ moved \in [Addresses -> Nat] /\ counted \in [Linked -> Nat] /\ flows \in [Flows -> Nat]
      /\ Linked \subseteq Addresses
  BY <1>0, BandConstants DEF BandTypeOK
<1>4. NoMore(moved, moved')
  BY <1>1, <1>2, <1>3 DEF NoMore
<1>5. BandTypeOK'
  BY <1>0, <1>1, <1>2, <1>3 DEF BandTypeOK
<1>6. ASSUME NEW q \in samples, q.source = "nftables"
      PROVE  counted'[q.ip] - q.bytes <= moved'[q.ip] - q.real[q.ip]
  <2>1. q.ip \in Linked /\ q.ip \in Addresses /\ q.bytes \in Nat /\ q.real[q.ip] \in Nat
    BY <1>0, TypedSamples
  <2>2. counted[q.ip] - q.bytes <= moved[q.ip] - q.real[q.ip]
    BY <1>0, <1>6 DEF SourcesAreHonest
  <2>3. counted'[q.ip] - counted[q.ip] <= moved'[q.ip] - moved[q.ip]
    BY <1>1, <1>2, <1>3, <2>1
  <2>4. counted[q.ip] \in Nat /\ counted'[q.ip] \in Nat /\ moved[q.ip] \in Nat /\ moved'[q.ip] \in Nat
    BY <1>5, <1>3, <2>1 DEF BandTypeOK
  <2> QED
    BY <2>1, <2>2, <2>3, <2>4
<1>7. ASSUME NEW q \in samples, q.source = "conntrack"
      PROVE  SumFunctionOnSet(flows', FlowsOf(q.order, q.ip)) - q.bytes
               <= Moved(q.ip, q.real, moved')
  <2>1. /\ q.ip \in Addresses /\ q.bytes \in Nat /\ q.order \in Orders
        /\ q.real \in [Addresses -> Nat]
    BY <1>0, TypedSamples
  <2>2. SumFunctionOnSet(flows, FlowsOf(q.order, q.ip)) - q.bytes <= Moved(q.ip, q.real, moved)
    BY <1>0, <1>7 DEF SourcesAreHonest, Live
  <2>3. /\ SumFunctionOnSet(flows, FlowsOf(q.order, q.ip)) \in Nat
        /\ NoMore(q.real, moved) /\ Moved(q.ip, q.real, moved) \in Nat
    BY <1>0, <1>3, <2>1, FlowsSum, MovedIsNat DEF SamplesInOrder
  <2>4. CASE f \in FlowsOf(q.order, q.ip)
    <3>1. Owner[f] \in Kin(q.ip)
      BY <2>1, <2>4, OrdersTakeKin
    <3>2. /\ moved' \in [Addresses -> Nat] /\ moved'[Owner[f]] = moved[Owner[f]] + 1
          /\ \A c \in Addresses : c # Owner[f] => moved'[c] = moved[c]
          /\ flows' \in [Flows -> Nat] /\ flows'[f] = flows[f] + 1
          /\ \A x \in Flows : x # f => flows'[x] = flows[x]
      BY <1>1, <1>2, <1>3
    <3>3. Moved(q.ip, q.real, moved') = Moved(q.ip, q.real, moved) + 1
      BY <1>3, <2>1, <3>1, <3>2, MovedByOne
    <3>4. SumFunctionOnSet(flows', FlowsOf(q.order, q.ip))
            = SumFunctionOnSet(flows, FlowsOf(q.order, q.ip)) + 1
      BY <1>3, <2>4, <3>2, FlowByOne
    <3> QED
      BY <2>1, <2>2, <2>3, <3>3, <3>4
  <2>5. CASE f \notin FlowsOf(q.order, q.ip)
    <3>1. flows' \in [Flows -> Nat] /\ moved' \in [Addresses -> Nat]
      BY <1>5 DEF BandTypeOK
    <3>2. \A x \in FlowsOf(q.order, q.ip) : flows'[x] <= flows[x]
      BY <1>1, <1>3, <2>5 DEF FlowsOf
    <3>3. /\ SumFunctionOnSet(flows', FlowsOf(q.order, q.ip))
               <= SumFunctionOnSet(flows, FlowsOf(q.order, q.ip))
          /\ SumFunctionOnSet(flows', FlowsOf(q.order, q.ip)) \in Nat
      BY <1>3, <3>1, <3>2, FlowsShrink, FlowsSum
    <3>4. NoMore(q.real, moved')
      BY <1>3, <1>4, <2>1, <2>3, <3>1 DEF NoMore
    <3>5. /\ Moved(q.ip, q.real, moved) <= Moved(q.ip, q.real, moved')
          /\ Moved(q.ip, q.real, moved') \in Nat
      BY <1>3, <1>4, <2>1, <3>1, <3>4, MovedGrows, MovedIsNat
    <3> QED
      BY <2>1, <2>2, <2>3, <3>3, <3>5
  <2> QED
    BY <2>4, <2>5
<1>8. SourcesAreHonest'
  BY <1>1, <1>6, <1>7 DEF SourcesAreHonest, Live
<1> QED
  BY <1>1, <1>4, <1>5, <1>8, SourcesKeep

LEMMA FlowEndsKeeps == BandInv /\ FlowEnds => BandInv'
<1> SUFFICES ASSUME BandInv, FlowEnds PROVE BandInv'
  OBVIOUS
<1>0. BandTypeOK /\ SamplesInOrder /\ SourcesAreHonest
  BY DEF BandInv
<1>1. PICK f \in Flows :
        flows' = [flows EXCEPT ![f] = 0] /\ UNCHANGED <<clock, moved, counted, samples>>
  BY DEF FlowEnds
<1>2. BandTypeOK'
  BY <1>0, <1>1 DEF BandTypeOK
<1>3. NoMore(moved, moved')
  BY <1>0, <1>1 DEF BandTypeOK, NoMore
<1>4. ASSUME NEW q \in samples, q.source = "conntrack"
      PROVE  SumFunctionOnSet(flows', FlowsOf(q.order, q.ip)) - q.bytes
               <= Moved(q.ip, q.real, moved)
  <2>1. /\ q.ip \in Addresses /\ q.bytes \in Nat /\ q.real \in [Addresses -> Nat]
        /\ moved \in [Addresses -> Nat] /\ flows \in [Flows -> Nat] /\ flows' \in [Flows -> Nat]
    BY <1>0, <1>2, TypedSamples DEF BandTypeOK
  <2>2. SumFunctionOnSet(flows, FlowsOf(q.order, q.ip)) - q.bytes <= Moved(q.ip, q.real, moved)
    BY <1>0, <1>4 DEF SourcesAreHonest, Live
  <2>3. \A x \in FlowsOf(q.order, q.ip) : flows'[x] <= flows[x]
    BY <1>1, <2>1 DEF FlowsOf
  <2>4. /\ SumFunctionOnSet(flows', FlowsOf(q.order, q.ip))
             <= SumFunctionOnSet(flows, FlowsOf(q.order, q.ip))
        /\ SumFunctionOnSet(flows', FlowsOf(q.order, q.ip)) \in Nat
        /\ SumFunctionOnSet(flows, FlowsOf(q.order, q.ip)) \in Nat
    BY <2>1, <2>3, FlowsShrink, FlowsSum
  <2>5. Moved(q.ip, q.real, moved) \in Nat
    BY <1>0, <2>1, MovedIsNat DEF SamplesInOrder
  <2> QED
    BY <2>1, <2>2, <2>4, <2>5
<1>5. SourcesAreHonest'
  BY <1>0, <1>1, <1>4 DEF SourcesAreHonest, Live
<1> QED
  BY <1>1, <1>2, <1>3, <1>5, SourcesKeep

LEMMA ReloadKeeps == BandInv /\ RulesReloaded => BandInv'
<1> SUFFICES ASSUME BandInv, RulesReloaded PROVE BandInv'
  OBVIOUS
<1>0. BandTypeOK /\ SamplesInOrder /\ SourcesAreHonest
  BY DEF BandInv
<1>1. counted' = [a \in Linked |-> 0] /\ UNCHANGED <<clock, moved, flows, samples>>
  BY DEF RulesReloaded
<1>2. BandTypeOK'
  BY <1>0, <1>1, BandConstants DEF BandTypeOK
<1>3. NoMore(moved, moved')
  BY <1>0, <1>1 DEF BandTypeOK, NoMore
<1>4. ASSUME NEW q \in samples
      PROVE  counted'[q.ip] - q.bytes <= moved[q.ip] - q.real[q.ip]
  <2>1. q.ip \in Linked /\ q.ip \in Addresses /\ q.bytes \in Nat /\ q.real[q.ip] \in Nat
    BY <1>0, TypedSamples
  <2>2. q.real[q.ip] <= moved[q.ip] /\ moved[q.ip] \in Nat
    BY <1>0, <2>1 DEF SamplesInOrder, NoMore, BandTypeOK
  <2> QED
    BY <1>1, <2>1, <2>2
<1>5. SourcesAreHonest'
  BY <1>0, <1>1, <1>4 DEF SourcesAreHonest, Live
<1> QED
  BY <1>1, <1>2, <1>3, <1>5, SourcesKeep

\* A sample's rows are those kept of the table and of the addresses read.
Recording(taken) ==
  /\ IsFiniteSet(DOMAIN taken) /\ DOMAIN taken \subseteq Linked
  /\ \A a \in DOMAIN taken :
       /\ taken[a].source \in {"nftables", "conntrack"}
       /\ taken[a].order \in Orders /\ taken[a].bytes \in Nat
       /\ taken[a].source = "nftables" => taken[a].bytes = counted[a]
       /\ taken[a].source = "conntrack" => taken[a].bytes = Live(taken[a].order, a)
  /\ Kept(samples, taken, clock + 1, DOMAIN taken, samples')

LEMMA SampleRecords ==
  ASSUME BandInv, Sample
  PROVE  \E taken : Recording(taken)
<1>0. BandTypeOK /\ SamplesInOrder
  BY DEF BandInv
<1>1. PICK nftOk \in BOOLEAN, ctOk \in BOOLEAN, order \in Orders :
        samples' = RecordAll(samples,
                     SampleDeviceBandwidth(NftBytes(nftOk), ConntrackRows(ctOk, order), order),
                     clock + 1)
  BY DEF Sample
<1> DEFINE taken == SampleDeviceBandwidth(NftBytes(nftOk), ConntrackRows(ctOk, order), order)
<1>2. samples' = RecordAll(samples, taken, clock + 1)
  BY <1>1
<1>3. /\ IsFiniteSet(DOMAIN taken) /\ DOMAIN taken \subseteq Linked
      /\ \A a \in DOMAIN taken :
           /\ taken[a].source \in {"nftables", "conntrack"}
           /\ taken[a].order \in Orders /\ taken[a].bytes \in Nat
           /\ taken[a].source = "nftables" => taken[a].bytes = counted[a]
           /\ taken[a].source = "conntrack" => taken[a].bytes = Live(taken[a].order, a)
  <2> HIDE DEF taken
  <2> QED
    BY <1>0, Readings DEF taken
<1>4. /\ IsFiniteSet(samples) /\ clock + 1 \in Nat /\ \A r \in samples : r.at \in Int
  BY <1>0, TypedSamples DEF SamplesInOrder, BandTypeOK
<1> HIDE DEF taken
<1>5. Kept(samples, taken, clock + 1, DOMAIN taken, samples')
  BY <1>2, <1>3, <1>4, RecordAllKeeps
<1> QED
  BY <1>3, <1>5 DEF Recording

LEMMA SampleKeeps == BandInv /\ Sample => BandInv'
<1> SUFFICES ASSUME BandInv, Sample PROVE BandInv'
  OBVIOUS
<1>0. BandTypeOK /\ SamplesInOrder /\ SourcesAreHonest /\ SamplesAreHonest
  BY DEF BandInv
<1>1. PICK taken : Recording(taken)
  BY SampleRecords
<1>2. /\ clock' = clock + 1 /\ clock < MaxPasses /\ clock \in Nat /\ clock' \in 1..MaxPasses
      /\ UNCHANGED <<moved, counted, flows>>
  BY <1>0, BandConstants DEF Sample, BandTypeOK
<1> DEFINE New == {TakenRow(taken, a, clock + 1) : a \in DOMAIN taken}
<1>3. samples' \subseteq samples \union New
  BY <1>1 DEF Recording, Kept
<1>4. moved \in [Addresses -> Nat] /\ Linked \subseteq Addresses
  BY <1>0, BandConstants DEF BandTypeOK
<1>5. ASSUME NEW q \in New
      PROVE  /\ q \in SampleRow /\ q.at = clock + 1 /\ q.real = moved
             /\ q.ip \in DOMAIN taken /\ q = TakenRow(taken, q.ip, clock + 1)
             /\ q.source = "nftables" => q.bytes = counted[q.ip]
             /\ q.source = "conntrack" => q.bytes = Live(q.order, q.ip)
  <2>1. PICK a \in DOMAIN taken : q = TakenRow(taken, a, clock + 1)
    OBVIOUS
  <2>2. /\ q.ip = a /\ q.at = clock + 1 /\ q.real = moved /\ q.source = taken[a].source
        /\ q.order = taken[a].order /\ q.bytes = taken[a].bytes
        /\ q = [ip |-> a, at |-> clock + 1, bytes |-> taken[a].bytes, source |-> taken[a].source,
                order |-> taken[a].order, real |-> moved]
    BY <2>1 DEF TakenRow
  <2>3. /\ a \in Linked /\ taken[a].source \in {"nftables", "conntrack"}
        /\ taken[a].order \in Orders /\ taken[a].bytes \in Nat
        /\ taken[a].source = "nftables" => taken[a].bytes = counted[a]
        /\ taken[a].source = "conntrack" => taken[a].bytes = Live(taken[a].order, a)
    BY <1>1 DEF Recording
  <2>4. clock + 1 \in 1..MaxPasses
    BY <1>2
  <2>5. q \in SampleRow
    BY <1>4, <2>2, <2>3, <2>4 DEF SampleRow
  <2> QED
    BY <2>1, <2>2, <2>3, <2>5
<1>6. BandTypeOK'
  <2>1. samples' \subseteq SampleRow
    <3> HIDE DEF New
    <3> QED
      BY <1>0, <1>3, <1>5 DEF BandTypeOK
  <2>2. clock' \in 0..MaxPasses
    BY <1>2
  <2> QED
    BY <1>0, <1>2, <2>1, <2>2 DEF BandTypeOK
<1>7. NoMore(moved, moved)
  BY <1>4 DEF NoMore
<1>8. \A q \in samples : q.at <= clock /\ q.at \in Nat /\ NoMore(q.real, moved)
  BY <1>0, TypedSamples DEF SamplesInOrder
<1>9. SamplesInOrder'
  <2>1. IsFiniteSet(samples')
    <3> DEFINE F == [a \in DOMAIN taken |-> TakenRow(taken, a, clock + 1)]
    <3>1. IsFiniteSet(DOMAIN taken)
      BY <1>1 DEF Recording
    <3>2. IsFiniteSet({F[a] : a \in DOMAIN taken})
      BY <3>1, ImageIsFinite, DOMAIN F = DOMAIN taken
    <3>4. IsFiniteSet(New)
      BY <3>2
    <3> HIDE DEF New
    <3>3. IsFiniteSet(samples \union New)
      BY <1>0, <3>4, FS_Union DEF SamplesInOrder
    <3> QED
      BY <1>3, <3>3, FS_Subset
  <2> HIDE DEF New
  <2>2. ASSUME NEW r \in samples' PROVE r.at <= clock' /\ NoMore(r.real, moved')
    BY <1>2, <1>3, <1>5, <1>7, <1>8
  <2>3. ASSUME NEW q \in samples', NEW r \in samples', q.at < r.at PROVE NoMore(q.real, r.real)
    <3>1. CASE r \in New
      <4>1. r.real = moved /\ NoMore(q.real, moved)
        BY <1>2, <1>5, <2>2, <3>1
      <4> QED
        BY <4>1
    <3>2. CASE r \in samples /\ q \in samples
      BY <1>0, <2>3, <3>2 DEF SamplesInOrder
    <3>3. CASE r \in samples /\ q \in New
      BY <1>2, <1>5, <1>8, <2>3, <3>3
    <3> QED
      BY <1>3, <3>1, <3>2, <3>3
  <2>4. ASSUME NEW q \in samples', NEW r \in samples', q.ip = r.ip, q.at = r.at PROVE q = r
    <3>1. CASE q \in New /\ r \in New
      BY <1>5, <2>4, <3>1
    <3>2. CASE q \in samples /\ r \in samples
      BY <1>0, <2>4, <3>2 DEF SamplesInOrder
    <3>3. CASE q \in samples /\ r \in New
      BY <1>2, <1>5, <1>8, <2>4, <3>3
    <3>4. CASE q \in New /\ r \in samples
      BY <1>2, <1>5, <1>8, <2>4, <3>4
    <3> QED
      BY <1>3, <3>1, <3>2, <3>3, <3>4
  <2> QED
    BY <2>1, <2>2, <2>3, <2>4 DEF SamplesInOrder
<1> HIDE DEF New
<1>10. SourcesAreHonest'
  <2>1. ASSUME NEW q \in New
        PROVE  /\ q.source = "nftables" => counted[q.ip] - q.bytes <= moved[q.ip] - q.real[q.ip]
               /\ q.source = "conntrack" => Live(q.order, q.ip) - q.bytes <= Moved(q.ip, q.real, moved)
    <3>1. /\ q.ip \in Linked /\ q.ip \in Addresses /\ q.bytes \in Nat /\ q.real = moved
      BY <1>4, <1>5 DEF SampleRow
    <3>2. counted[q.ip] \in Nat /\ moved[q.ip] \in Nat
      BY <1>0, <3>1 DEF BandTypeOK
    <3>3. q.source = "conntrack" => q.bytes = Live(q.order, q.ip)
      BY <1>5
    <3>4. q.source = "nftables" => q.bytes = counted[q.ip]
      BY <1>5
    <3>5. Moved(q.ip, q.real, moved) \in Nat
      BY <1>4, <1>7, <3>1, MovedIsNat
    <3> QED
      BY <3>1, <3>2, <3>3, <3>4, <3>5
  <2>2. ASSUME NEW q \in samples'
        PROVE  /\ q.source = "nftables" => counted[q.ip] - q.bytes <= moved[q.ip] - q.real[q.ip]
               /\ q.source = "conntrack" => Live(q.order, q.ip) - q.bytes <= Moved(q.ip, q.real, moved)
    BY <1>0, <1>3, <2>1 DEF SourcesAreHonest
  <2> QED
    BY <1>2, <2>2 DEF SourcesAreHonest, Live
<1>11. SamplesAreHonest'
  <2>1. ASSUME NEW q \in samples', NEW r \in samples',
               q.ip = r.ip, q.at < r.at, SameSource(q, r)
        PROVE  r.bytes - q.bytes <= MovedBetween(q.ip, q, r)
    <3>1. CASE r \in samples /\ q \in samples
      BY <1>0, <2>1, <3>1 DEF SamplesAreHonest
    <3>2. CASE q \in New
      <4>1. r.at <= clock' /\ q.at = clock'  /\ r.at \in Int
        BY <1>2, <1>5, <1>9, <3>2, <1>6 DEF SamplesInOrder, BandTypeOK, SampleRow
      <4> QED
        BY <1>2, <2>1, <4>1
    <3>3. CASE r \in New /\ q \in samples
      <4>1. r.real = moved /\ r.source = q.source /\ r.order = q.order
        BY <1>5, <2>1, <3>3 DEF SameSource
      <4>2. MovedBetween(q.ip, q, r) = Moved(q.ip, q.real, moved)
        BY <4>1 DEF MovedBetween, Moved, Kin
      <4>3. /\ q.ip \in Linked /\ q.ip \in Addresses /\ q.bytes \in Nat
            /\ q.source \in {"nftables", "conntrack"} /\ q.real \in [Addresses -> Nat]
        BY <1>0, <3>3, TypedSamples
      <4>4. Moved(q.ip, q.real, moved) \in Nat /\ moved[q.ip] - q.real[q.ip] <= Moved(q.ip, q.real, moved)
        BY <1>4, <1>8, <3>3, <4>3, MovedIsNat
      <4>5. CASE q.source = "nftables"
        <5>1. r.bytes = counted[q.ip] /\ counted[q.ip] - q.bytes <= moved[q.ip] - q.real[q.ip]
          BY <1>0, <1>5, <2>1, <3>3, <4>1, <4>5 DEF SourcesAreHonest
        <5>2. counted[q.ip] \in Nat /\ moved[q.ip] \in Nat /\ q.real[q.ip] \in Nat
          BY <1>0, <1>4, <4>3 DEF BandTypeOK
        <5> QED
          BY <4>2, <4>3, <4>4, <5>1, <5>2
      <4>6. CASE q.source = "conntrack"
        <5>1. /\ r.bytes = Live(q.order, q.ip)
              /\ Live(q.order, q.ip) - q.bytes <= Moved(q.ip, q.real, moved)
          BY <1>0, <1>5, <2>1, <3>3, <4>1, <4>6 DEF SourcesAreHonest
        <5> QED
          BY <4>2, <5>1
      <4> QED
        BY <4>3, <4>5, <4>6
    <3> QED
      BY <1>3, <3>1, <3>2, <3>3
  <2> QED
    BY <2>1 DEF SamplesAreHonest, SameSource, MovedBetween
<1> QED
  BY <1>6, <1>9, <1>10, <1>11 DEF BandInv

LEMMA BandStep ==
  ASSUME BandInv, [BandNext]_bandVars
  PROVE  BandInv'
<1>1. CASE UNCHANGED bandVars
  BY <1>1 DEF bandVars, BandInv, BandTypeOK, SamplesInOrder, SourcesAreHonest, SamplesAreHonest,
              NoMore, Live, Moved, MovedBetween, SameSource
<1> QED
  BY <1>1, TrafficKeeps, FlowEndsKeeps, ReloadKeeps, SampleKeeps DEF BandNext

(* What holds of the counters and the samples: no source, and no later      *)
(* sample of it, shows more than an earlier sample and what was moved since. *)
THEOREM BandwidthInvariant == BandSpec => []BandInv
<1> QED
  BY BandStart, BandStep, PTL DEF BandSpec

LEMMA CurrentIsNewest ==
  ASSUME BandInv, NEW a, SamplesOf(a) # {}
  PROVE  IsNewest(Current(a), SamplesOf(a))
<1>1. SomeRows(SamplesOf(a))
  BY FS_Subset, TypedSamples DEF SomeRows, SamplesOf, BandInv, SamplesInOrder
<1>2. PICK p : IsNewest(p, SamplesOf(a))
  BY <1>1, NewestRow
<1> QED
  BY <1>2 DEF IsNewest, Current

LEMMA BeforeIsNewest ==
  ASSUME BandInv, NEW a, NEW r \in SamplesOf(a), \E q \in SamplesOf(a) : q.at < r.at
  PROVE  IsNewest(Before(a, r), {q \in SamplesOf(a) : q.at < r.at})
<1> DEFINE N == {q \in SamplesOf(a) : q.at < r.at}
<1>1. SomeRows(N)
  BY FS_Subset, TypedSamples DEF SomeRows, SamplesOf, BandInv, SamplesInOrder
<1>2. PICK p : IsNewest(p, N)
  <2> HIDE DEF N
  <2> QED
    BY <1>1, NewestRow
<1>3. /\ p \in SamplesOf(a) /\ p.at < r.at
      /\ \A q \in SamplesOf(a) : q.at < r.at => q.at <= p.at
  BY <1>2 DEF IsNewest
<1>4. /\ Before(a, r) \in SamplesOf(a) /\ Before(a, r).at < r.at
      /\ \A q \in SamplesOf(a) : q.at < r.at => q.at <= Before(a, r).at
  BY <1>3 DEF Before
<1> QED
  BY <1>4 DEF IsNewest

\* Two samples of one source: the bytes between them were moved between them.
LEMMA PairIsHonest ==
  ASSUME BandInv, NEW a \in Linked, NEW q \in SamplesOf(a), NEW r \in SamplesOf(a),
         q.at < r.at, SameSource(q, r)
  PROVE  /\ Delta(q, r) \in Nat /\ MovedBetween(a, q, r) \in Nat
         /\ Delta(q, r) <= MovedBetween(a, q, r)
         /\ MovedBetween(a, q, r) = Moved(a, q.real, r.real)
<1>1. q \in samples /\ r \in samples /\ q.ip = a /\ r.ip = a
  BY DEF SamplesOf
<1>2. /\ q.bytes \in Nat /\ r.bytes \in Nat /\ a \in Addresses
      /\ q.real \in [Addresses -> Nat] /\ r.real \in [Addresses -> Nat]
  BY <1>1, TypedSamples DEF BandInv
<1>3. NoMore(q.real, r.real)
  BY <1>1 DEF BandInv, SamplesInOrder
<1>4. MovedBetween(a, q, r) = Moved(a, q.real, r.real)
  BY DEF MovedBetween, Moved, Kin
<1>5. MovedBetween(a, q, r) \in Nat
  BY <1>2, <1>3, <1>4, MovedIsNat
<1>6. r.bytes - q.bytes <= MovedBetween(a, q, r)
  BY <1>1 DEF BandInv, SamplesAreHonest
<1> QED
  BY <1>2, <1>4, <1>5, <1>6 DEF Delta

LEMMA RatesFollow == BandInv => RateIsHonest
<1> SUFFICES ASSUME BandInv, NEW a \in Linked, Cardinality(SamplesOf(a)) >= 2,
                    SameSource(Before(a, Current(a)), Current(a))
             PROVE  /\ BandwidthRate(a).elapsed > 0 /\ 0 <= BandwidthRate(a).bytes
                    /\ BandwidthRate(a).bytes <= MovedBetween(a, Before(a, Current(a)), Current(a))
  BY DEF RateIsHonest
<1> DEFINE r == Current(a)
           q == Before(a, r)
<1>1. IsFiniteSet(SamplesOf(a)) /\ SamplesOf(a) \subseteq samples
  BY FS_Subset DEF SamplesOf, BandInv, SamplesInOrder
<1>2. SamplesOf(a) # {} /\ Cardinality(SamplesOf(a)) \in Nat
  BY <1>1, FS_EmptySet, FS_CardinalityType
<1>3. r \in SamplesOf(a) /\ \A p \in SamplesOf(a) : p.at <= r.at
  BY <1>2, CurrentIsNewest DEF IsNewest
<1> HIDE DEF r, q
<1>4. PICK p \in SamplesOf(a) : p # r
  <2>1. SamplesOf(a) # {r}
    BY FS_Singleton
  <2> QED
    BY <1>3, <2>1
<1>5. p.at < r.at
  <2>1. p \in samples /\ r \in samples /\ p.ip = r.ip
    BY <1>3, <1>4 DEF SamplesOf
  <2>2. p.at # r.at /\ p.at \in Nat /\ r.at \in Nat
    BY <1>4, <2>1, TypedSamples DEF BandInv, SamplesInOrder
  <2> QED
    BY <1>3, <2>2
<1>6. q \in SamplesOf(a) /\ q.at < r.at
  BY <1>3, <1>5, BeforeIsNewest DEF IsNewest, q
<1>7. SameSource(q, r)
  BY DEF q, r
<1>8. Delta(q, r) \in Nat /\ Delta(q, r) <= MovedBetween(a, q, r)
  BY <1>3, <1>6, <1>7, PairIsHonest
<1>9. q.at \in Nat /\ r.at \in Nat
  BY <1>1, <1>3, <1>6, TypedSamples DEF BandInv
<1>10. BandwidthRate(a) = [bytes |-> Delta(q, r), elapsed |-> r.at - q.at]
  BY <1>2 DEF BandwidthRate, q, r
<1> QED
  BY <1>6, <1>8, <1>9, <1>10 DEF q, r

\* A larger number of bytes in the same time is a higher rate.
LEMMA HigherRate ==
  ASSUME NEW d \in Nat, NEW m \in Nat, NEW k \in Nat, d <= m
  PROVE  d * k <= m * k /\ d * k \in Int /\ m * k \in Int
OBVIOUS

LEMMA UnitsAreNat ==
  ASSUME NEW m \in Nat, NEW n \in Nat, m < n
  PROVE  Unit \div (n - m) \in Nat
<1>1. Unit \in Nat /\ n - m \in Nat \ {0}
  BY BandConstants
<1> QED
  BY <1>1

LEMMA SeriesFollows == BandInv => SeriesIsHonest
<1> SUFFICES ASSUME BandInv, NEW a \in Linked, NEW window \in 0..Horizon,
                    NEW b \in DOMAIN BandwidthSeries(a, window),
                    \A r \in InBar(a, window, b) : SameSource(Before(a, r), r)
             PROVE  /\ BandwidthSeries(a, window)[b].sum
                         <= SumFunctionOnSet([r \in InBar(a, window, b) |-> RealRate(a, r)],
                                             InBar(a, window, b))
                    /\ BandwidthSeries(a, window)[b].count = 0
                         => BandwidthSeries(a, window)[b].sum = 0
  BY DEF SeriesIsHonest
<1> DEFINE bar == InBar(a, window, b)
           rates == [r \in Rated(a, window) |-> Rate(a, r)]
           real == [r \in bar |-> RealRate(a, r)]
<1>1. BandwidthSeries(a, window)[b] = [sum |-> SumFunctionOnSet(rates, bar),
                                       count |-> Cardinality(bar)]
  <2>1. Rated(a, window) # {}
    <3>1. DOMAIN <<>> = {}
      OBVIOUS
    <3> QED
      BY <3>1 DEF BandwidthSeries
  <2> QED
    BY <2>1 DEF BandwidthSeries
<1>2. /\ bar \subseteq Rated(a, window) /\ bar \subseteq SamplesOf(a)
      /\ SamplesOf(a) \subseteq samples /\ IsFiniteSet(bar)
  <2>1. bar \subseteq Rated(a, window) /\ bar \subseteq SamplesOf(a) /\ SamplesOf(a) \subseteq samples
    BY DEF InBar, Rated, Recent, SamplesOf
  <2> QED
    BY <2>1, FS_Subset DEF BandInv, SamplesInOrder
<1>3. ASSUME NEW r \in bar
      PROVE  Rate(a, r) \in Int /\ RealRate(a, r) \in Int /\ Rate(a, r) <= RealRate(a, r)
  <2>1. r \in SamplesOf(a) /\ \E q \in SamplesOf(a) : q.at < r.at
    BY DEF InBar, Rated, Recent
  <2> DEFINE q == Before(a, r)
  <2>2. q \in SamplesOf(a) /\ q.at < r.at
    BY <2>1, BeforeIsNewest DEF IsNewest
  <2>3. SameSource(q, r)
    OBVIOUS
  <2>4. q.at \in Nat /\ r.at \in Nat
    BY <1>2, <2>1, <2>2, TypedSamples DEF BandInv
  <2>5. Rate(a, r) = Delta(q, r) * PerUnit(q, r) /\ RealRate(a, r) = MovedBetween(a, q, r) * PerUnit(q, r)
    BY DEF Rate, RealRate
  <2> HIDE DEF q
  <2>6. Delta(q, r) \in Nat /\ MovedBetween(a, q, r) \in Nat /\ Delta(q, r) <= MovedBetween(a, q, r)
    BY <2>1, <2>2, <2>3, PairIsHonest
  <2>7. PerUnit(q, r) \in Nat
    BY <2>2, <2>4, UnitsAreNat DEF PerUnit
  <2> QED
    BY <2>5, <2>6, <2>7, HigherRate
<1>4. Summable(rates, bar) /\ Summable(real, bar) /\ \A r \in bar : rates[r] <= real[r]
  <2>1. \A r \in bar : rates[r] = Rate(a, r) /\ real[r] = RealRate(a, r)
    BY <1>2
  <2> HIDE DEF rates, real, bar
  <2> QED
    BY <1>2, <1>3, <2>1 DEF Summable
<1>5. SumFunctionOnSet(rates, bar) <= SumFunctionOnSet(real, bar)
  <2> HIDE DEF rates, real, bar
  <2> QED
    BY <1>4, SumMonotone
<1>6. Cardinality(bar) = 0 => SumFunctionOnSet(rates, bar) = 0
  <2> HIDE DEF rates, real, bar
  <2> QED
    BY <1>2, FS_EmptySet, SumOfNone
<1> QED
  BY <1>1, <1>5, <1>6

LEMMA SurvivalStep ==
  ASSUME BandInv, BandInv', [BandNext]_bandVars
  PROVE  \A a \in Linked : \A r \in SamplesOf(a) :
           (/\ r.at >= clock' - Horizon
            /\ Cardinality({q \in SamplesOf(a)' : q.at > r.at}) < 2) => r \in samples'
<1> SUFFICES ASSUME NEW a \in Linked, NEW r \in SamplesOf(a), r.at >= clock' - Horizon,
                    Cardinality({q \in SamplesOf(a)' : q.at > r.at}) < 2, r \notin samples'
             PROVE  FALSE
  OBVIOUS
<1>1. r \in samples /\ r.ip = a
  BY DEF SamplesOf
<1>2. Sample
  BY <1>1 DEF BandNext, bandVars, Traffic, FlowEnds, RulesReloaded
<1>3. PICK taken : Recording(taken)
  BY <1>2, SampleRecords
<1>4. clock' = clock + 1
  BY <1>2 DEF Sample
<1>5. Outdone(r, samples')
  BY <1>1, <1>3, <1>4 DEF Recording, Kept
<1>6. PICK p \in samples', q \in samples' :
        p # q /\ p.ip = r.ip /\ q.ip = r.ip /\ p.at > r.at /\ q.at > r.at
  BY <1>5 DEF Outdone
<1> DEFINE N == {x \in SamplesOf(a)' : x.at > r.at}
<1>7. N \subseteq samples' /\ IsFiniteSet(samples') /\ p \in N /\ q \in N
  BY <1>1, <1>6 DEF SamplesOf, BandInv, SamplesInOrder
<1> HIDE DEF N
<1>8. IsFiniteSet(N) /\ Cardinality(N) \in Nat
  BY <1>7, FS_Subset, FS_CardinalityType
<1>9. /\ IsFiniteSet(N \ {p}) /\ Cardinality(N \ {p}) = Cardinality(N) - 1
      /\ Cardinality(N \ {p}) \in Nat
  BY <1>7, <1>8, FS_RemoveElement, FS_CardinalityType
<1>10. Cardinality(N \ {p}) # 0
  BY <1>6, <1>7, <1>9, FS_EmptySet
<1> QED
  BY <1>8, <1>9, <1>10 DEF N

-----------------------------------------------------------------------------
(* The readers of the log, on any rows of its type.                         *)

Rows(rows) == rows \subseteq LogRow /\ IsFiniteSet(rows)

Hits(rows) == [r \in rows |-> r.n]

LEMMA RowsPart ==
  ASSUME NEW rows, Rows(rows), NEW S \in SUBSET rows
  PROVE  Rows(S)
BY FS_Subset DEF Rows

LEMMA HitsSum ==
  ASSUME NEW rows, Rows(rows)
  PROVE  /\ Summable(Hits(rows), rows) /\ \A r \in rows : Hits(rows)[r] \in Nat /\ Hits(rows)[r] > 0
         /\ \A r \in rows : Hits(rows)[r] >= 0
<1>1. \A r \in rows : r.n \in Nat /\ r.n > 0
  BY DEF Rows, LogRow
<1> QED
  BY <1>1 DEF Rows, Hits, Summable

\* The lookups of some of the rows are a sum over those.
LEMMA QueriesOfPart ==
  ASSUME NEW rows, Rows(rows), NEW S \in SUBSET rows
  PROVE  Queries(S) = SumFunctionOnSet(Hits(rows), S) /\ Queries(S) \in Nat
<1>1. Rows(S)
  BY RowsPart
<1>2. Summable(Hits(S), S) /\ \A r \in S : Hits(S)[r] >= 0
  BY <1>1, HitsSum
<1>3. \A r \in S : Hits(S)[r] = Hits(rows)[r]
  BY DEF Hits
<1>4. Queries(S) = SumFunctionOnSet(Hits(S), S)
  <2>1. DOMAIN Hits(S) = S
    BY DEF Hits
  <2>2. Queries(S) = SumFunction(Hits(S))
    BY DEF Queries, Hits
  <2> QED
    BY <2>1, <2>2 DEF SumFunction
<1>5. SumFunctionOnSet(Hits(S), S) = SumFunctionOnSet(Hits(rows), S)
  BY <1>2, <1>3, SumSame
<1>6. SumFunctionOnSet(Hits(S), S) \in Nat
  BY <1>2, SumIsNat
<1> QED
  BY <1>4, <1>5, <1>6

LEMMA QueriesGrow ==
  ASSUME NEW rows, Rows(rows), NEW S \in SUBSET rows
  PROVE  Queries(S) <= Queries(rows)
<1>1. SumFunctionOnSet(Hits(rows), S) <= SumFunctionOnSet(Hits(rows), rows)
  BY HitsSum, SumOfPart
<1> QED
  BY <1>1, QueriesOfPart

LEMMA QueriesOfSome ==
  ASSUME NEW rows, Rows(rows), rows # {}
  PROVE  Queries(rows) > 0
<1>1. PICK r \in rows : TRUE
  OBVIOUS
<1>2. /\ Summable(Hits(rows), rows) /\ Hits(rows)[r] \in Nat /\ Hits(rows)[r] > 0
      /\ \A x \in rows : Hits(rows)[x] >= 0
  BY HitsSum
<1>3. SumFunctionOnSet(Hits(rows), rows)
        = Hits(rows)[r] + SumFunctionOnSet(Hits(rows), rows \ {r})
  BY <1>2, SumWithout
<1>4. Queries(rows) = SumFunctionOnSet(Hits(rows), rows) /\ Queries(rows) \in Nat
  BY QueriesOfPart
<1>5. Queries(rows \ {r}) = SumFunctionOnSet(Hits(rows), rows \ {r}) /\ Queries(rows \ {r}) \in Nat
  BY QueriesOfPart
<1> QED
  BY <1>2, <1>3, <1>4, <1>5

\* Rows of two names are different rows.
LEMMA QueriesOfTwo ==
  ASSUME NEW rows, Rows(rows), NEW S \in SUBSET rows, NEW T \in SUBSET rows,
         S \intersect T = {}
  PROVE  Queries(S) + Queries(T) <= Queries(rows)
<1>1. Summable(Hits(rows), S) /\ Summable(Hits(rows), T)
  BY HitsSum, SummablePart
<1>2. SumFunctionOnSet(Hits(rows), S \union T)
        = SumFunctionOnSet(Hits(rows), S) + SumFunctionOnSet(Hits(rows), T)
  BY <1>1, SumUnion
<1>3. S \union T \in SUBSET rows
  OBVIOUS
<1>4. /\ Queries(S) = SumFunctionOnSet(Hits(rows), S)
      /\ Queries(T) = SumFunctionOnSet(Hits(rows), T)
      /\ Queries(S \union T) = SumFunctionOnSet(Hits(rows), S \union T)
      /\ Queries(S \union T) <= Queries(rows)
  BY <1>3, QueriesOfPart, QueriesGrow
<1> QED
  BY <1>2, <1>4

\* Grouped by a key, the lookups add up to those of all rows.
LEMMA QueriesByGroup ==
  ASSUME NEW rows, Rows(rows), NEW K, IsFiniteSet(K), NEW key \in [rows -> K],
         NEW p, \A c \in K : p[c] = Queries({r \in rows : key[r] = c})
  PROVE  SumFunctionOnSet(p, K) = Queries(rows)
<1>1. \A c \in K : p[c] = SumFunctionOnSet(Hits(rows), {r \in rows : key[r] = c})
  BY QueriesOfPart
<1>2. SumFunctionOnSet(p, K) = SumFunctionOnSet(Hits(rows), rows)
  BY <1>1, HitsSum, SumByGroup
<1> QED
  BY <1>2, QueriesOfPart

\* A time of a window lies in one of its buckets.
LEMMA BucketInside ==
  ASSUME NEW w \in 1..3, NEW s \in Int, NEW u \in Int, NEW t \in Int, s <= t, t <= u
  PROVE  Bucket(t, w) \in Bucket(s, w)..Bucket(u, w) /\ Bucket(t, w) % w = 0
<1>1. CASE w = 1
  BY <1>1 DEF Bucket
<1>2. CASE w = 2
  BY <1>2 DEF Bucket
<1>3. CASE w = 3
  BY <1>3 DEF Bucket
<1> QED
  BY <1>1, <1>2, <1>3

LEMMA BucketsAreFinite ==
  ASSUME NEW w \in 1..3, NEW s \in Int, NEW u \in Int
  PROVE  IsFiniteSet(Buckets(u, s, w))
<1> DEFINE I == Bucket(u - s, w)..Bucket(u, w)
<1>1. Bucket(u - s, w) \in Int /\ Bucket(u, w) \in Int
  <2>1. \A t \in Int : Bucket(t, w) \in Int
    BY DEF Bucket
  <2> QED
    BY <2>1
<1>2. IsFiniteSet(I)
  BY <1>1, FS_Interval
<1>3. Buckets(u, s, w) \subseteq I
  BY DEF Buckets
<1> HIDE DEF I
<1> QED
  BY <1>2, <1>3, FS_Subset

LEMMA MaxIsLargest ==
  ASSUME NEW S, Numbers(S)
  PROVE  IsLargest(Max(S), S)
<1>1. PICK m : IsLargest(m, S)
  BY LargestNumber
<1>2. m \in S /\ \A x \in S : m >= x
  BY <1>1 DEF IsLargest, Numbers
<1>3. Max(S) \in S /\ \A x \in S : Max(S) >= x
  BY <1>2 DEF Max
<1> QED
  BY <1>3 DEF IsLargest, Numbers

\* No more clients, or names, are in some of the rows than in all.
LEMMA FewerClients ==
  ASSUME NEW rows, Rows(rows), NEW S \in SUBSET rows
  PROVE  /\ Cardinality({r.client : r \in S}) \in Nat
         /\ Cardinality({r.client : r \in rows}) \in Nat
         /\ Cardinality({r.client : r \in S}) <= Cardinality({r.client : r \in rows})
<1> DEFINE F == [r \in rows |-> r.client]
           C == {r.client : r \in rows}
           D == {r.client : r \in S}
<1>0. IsFiniteSet(rows)
  BY DEF Rows
<1>1. IsFiniteSet({F[r] : r \in rows})
  BY <1>0, ImageIsFinite, DOMAIN F = rows
<1>2. IsFiniteSet(C) /\ D \subseteq C
  BY <1>1
<1> HIDE DEF C, D
<1> QED
  BY <1>2, FS_Subset, FS_CardinalityType DEF C, D

Past(rows, time) == \A r \in rows : r.time <= time

\* The series of a window: every lookup of it is in one bucket.
LEMMA TimelineAddsUp ==
  ASSUME NEW rows, Rows(rows), NEW u \in Nat, Past(rows, u), NEW window \in Nat, NEW w \in 1..3
  PROVE  /\ Timeline(rows, u, window, w).queries = Totals(Since(rows, u - window)).queries
         /\ Timeline(rows, u, window, w).blocked = Totals(Since(rows, u - window)).blocked
         /\ Timeline(rows, u, window, w).devices <= Totals(Since(rows, u - window)).devices
<1> DEFINE inside == Since(rows, u - window)
           K == Buckets(u, window, w)
           of(b) == {r \in inside : Bucket(r.time, w) = b}
           series == TrafficSeries(rows, u, window, w)
           line == Timeline(rows, u, window, w)
<1>1. Rows(inside) /\ Rows(Blocked(inside)) /\ Blocked(inside) \in SUBSET inside
  BY RowsPart DEF Since, Blocked
<1>2. \A r \in inside : Bucket(r.time, w) \in K
  <2> SUFFICES ASSUME NEW r \in inside PROVE Bucket(r.time, w) \in K
    OBVIOUS
  <2>1. r.time \in Int /\ u - window <= r.time /\ r.time <= u /\ u - window \in Int
    BY DEF Since, Rows, LogRow, Past
  <2> DEFINE s == u - window
             t == r.time
  <2>2. s \in Int /\ t \in Int /\ s <= t /\ t <= u /\ u \in Int
    BY <2>1
  <2> HIDE DEF s, t
  <2>3. Bucket(t, w) \in Bucket(s, w)..Bucket(u, w) /\ Bucket(t, w) % w = 0
    BY <2>2, BucketInside
  <2> QED
    BY <2>3 DEF s, t, Buckets
<1>3. IsFiniteSet(K)
  <2>1. u \in Int /\ window \in Int
    OBVIOUS
  <2> QED
    BY <2>1, BucketsAreFinite
<1>4. series = [b \in K |-> [queries |-> Queries(of(b)), blocked |-> Queries(Blocked(of(b))),
                            devices |-> Cardinality({r.client : r \in of(b)})]]
  BY DEF TrafficSeries
<1>5. line = [queries |-> SumFunction([b \in K |-> series[b].queries]),
              blocked |-> SumFunction([b \in K |-> series[b].blocked]),
              devices |-> Max({0} \union {series[b].devices : b \in K})]
  BY <1>4 DEF Timeline
<1> HIDE DEF inside, K, series, line
<1>6. line.queries = Queries(inside)
  <2> DEFINE key == [r \in inside |-> Bucket(r.time, w)]
             p == [b \in K |-> series[b].queries]
  <2>1. key \in [inside -> K]
    BY <1>2
  <2>2. \A b \in K : p[b] = Queries({r \in inside : key[r] = b})
    <3> SUFFICES ASSUME NEW b \in K PROVE p[b] = Queries({r \in inside : key[r] = b})
      OBVIOUS
    <3>1. {r \in inside : key[r] = b} = of(b)
      OBVIOUS
    <3> QED
      BY <1>4, <3>1
  <2>3. DOMAIN p = K /\ line.queries = SumFunction(p)
    BY <1>5
  <2> HIDE DEF key, p
  <2>4. SumFunctionOnSet(p, K) = Queries(inside)
    BY <1>1, <1>3, <2>1, <2>2, QueriesByGroup
  <2> QED
    BY <2>3, <2>4 DEF SumFunction
<1>7. line.blocked = Queries(Blocked(inside))
  <2> DEFINE B == Blocked(inside)
             key == [r \in B |-> Bucket(r.time, w)]
             p == [b \in K |-> series[b].blocked]
  <2>1. key \in [B -> K]
    BY <1>1, <1>2
  <2>2. \A b \in K : p[b] = Queries({r \in B : key[r] = b})
    <3> SUFFICES ASSUME NEW b \in K PROVE p[b] = Queries({r \in B : key[r] = b})
      OBVIOUS
    <3>1. {r \in B : key[r] = b} = Blocked(of(b))
      BY DEF Blocked
    <3> QED
      BY <1>4, <3>1
  <2>3. DOMAIN p = K /\ line.blocked = SumFunction(p) /\ Rows(B)
    BY <1>1, <1>5
  <2> HIDE DEF key, p, B
  <2>4. SumFunctionOnSet(p, K) = Queries(B)
    BY <1>3, <2>1, <2>2, <2>3, QueriesByGroup
  <2> QED
    BY <2>3, <2>4 DEF SumFunction, B
<1>8. line.devices <= Cardinality({r.client : r \in inside})
  <2> DEFINE F == [b \in K |-> series[b].devices]
             M == {0} \union {F[b] : b \in K}
  <2>1. \A b \in K : F[b] \in Nat /\ F[b] <= Cardinality({r.client : r \in inside})
    <3> SUFFICES ASSUME NEW b \in K
                 PROVE  F[b] \in Nat /\ F[b] <= Cardinality({r.client : r \in inside})
      OBVIOUS
    <3>1. F[b] = Cardinality({r.client : r \in of(b)}) /\ of(b) \in SUBSET inside
      BY <1>4
    <3> HIDE DEF of, F
    <3> QED
      BY <1>1, <3>1, FewerClients
  <2>2. Cardinality({r.client : r \in inside}) \in Nat
    BY <1>1, FewerClients
  <2>3. Numbers(M)
    <3>1. IsFiniteSet({F[b] : b \in K})
      BY <1>3, ImageIsFinite, DOMAIN F = K
    <3>2. IsFiniteSet(M)
      <4> HIDE DEF F
      <4> QED
        BY <3>1, FS_Singleton, FS_Union
    <3>3. M # {} /\ M \subseteq Int
      <4> HIDE DEF F
      <4>1. \A m \in M : m \in Int
        BY <2>1
      <4>2. 0 \in M
        OBVIOUS
      <4> HIDE DEF M
      <4> QED
        BY <4>1, <4>2
    <3> HIDE DEF M
    <3> QED
      BY <3>2, <3>3 DEF Numbers
  <2>4. Max(M) \in M
    <3> HIDE DEF M
    <3> QED
      BY <2>3, MaxIsLargest DEF IsLargest
  <2>5. line.devices = Max(M)
    BY <1>5
  <2> HIDE DEF F
  <2> QED
    BY <2>1, <2>2, <2>4, <2>5
<1> QED
  BY <1>6, <1>7, <1>8 DEF Totals, line, inside

\* The clients' own totals, and the services of some names.
LEMMA ClientsAddUp ==
  ASSUME NEW rows, Rows(rows)
  PROVE  Totals(rows).queries = SumFunction([c \in Clients |-> Queries(By(rows, c))])
<1> DEFINE key == [r \in rows |-> r.client]
           p == [c \in Clients |-> Queries(By(rows, c))]
<1>1. key \in [rows -> Clients] /\ IsFiniteSet(Clients)
  BY LogConstants DEF Rows, LogRow
<1>2. \A c \in Clients : p[c] = Queries({r \in rows : key[r] = c})
  <2> SUFFICES ASSUME NEW c \in Clients PROVE p[c] = Queries({r \in rows : key[r] = c})
    OBVIOUS
  <2>1. {r \in rows : key[r] = c} = By(rows, c)
    BY DEF By
  <2> QED
    BY <2>1
<1>3. DOMAIN p = Clients
  OBVIOUS
<1> HIDE DEF key, p
<1>4. SumFunctionOnSet(p, Clients) = Queries(rows)
  BY <1>1, <1>2, QueriesByGroup
<1>5. SumFunction(p) = Totals(rows).queries
  BY <1>3, <1>4 DEF SumFunction, Totals
<1> QED
  BY <1>5 DEF p

LEMMA ServicesAddUp ==
  ASSUME NEW rows, Rows(rows), NEW top \in SUBSET NamesIn(rows)
  PROVE  SumFunction(ServiceCounts(rows, top)) <= Totals(rows).queries
<1> DEFINE named == top \ {NoDomain}
           S == {r \in rows : r.domain \in named}
           K == {Service[d] : d \in named}
           key == [r \in S |-> Service[r.domain]]
           p == ServiceCounts(rows, top)
<1>1. Rows(S) /\ S \in SUBSET rows /\ IsFiniteSet(rows)
  BY RowsPart DEF Rows
<1>2. IsFiniteSet(K)
  <2> DEFINE F == [r \in S |-> Service[r.domain]]
  <2>1. IsFiniteSet(S)
    BY <1>1 DEF Rows
  <2>2. IsFiniteSet({F[r] : r \in S})
    <3> HIDE DEF S
    <3> QED
      BY <2>1, ImageIsFinite, DOMAIN F = S
  <2>3. \A r \in S : F[r] \in K
    OBVIOUS
  <2>4. ASSUME NEW d \in named PROVE Service[d] \in {F[r] : r \in S}
    <3>1. PICK r \in rows : r.domain = d
      BY DEF NamesIn
    <3>2. r \in S /\ F[r] = Service[d]
      BY <3>1
    <3> QED
      BY <3>2
  <2>5. K = {F[r] : r \in S}
    <3> HIDE DEF F, S
    <3> QED
      BY <2>3, <2>4
  <2> QED
    BY <2>2, <2>5
<1>3. key \in [S -> K]
  OBVIOUS
<1>4. p = [s \in K |-> Queries({r \in rows : r.domain \in named /\ Service[r.domain] = s})]
  BY DEF ServiceCounts
<1> HIDE DEF p, K
<1>5. \A s \in K : p[s] = Queries({r \in S : key[r] = s})
  <2> SUFFICES ASSUME NEW s \in K PROVE p[s] = Queries({r \in S : key[r] = s})
    OBVIOUS
  <2>1. {r \in S : key[r] = s} = {r \in rows : r.domain \in named /\ Service[r.domain] = s}
    OBVIOUS
  <2> QED
    BY <1>4, <2>1
<1>6. DOMAIN p = K
  BY <1>4
<1> HIDE DEF S, key
<1>7. SumFunctionOnSet(p, K) = Queries(S)
  BY <1>1, <1>2, <1>3, <1>5, QueriesByGroup
<1>8. Queries(S) <= Queries(rows)
  BY <1>1, QueriesGrow
<1>9. SumFunction(p) <= Totals(rows).queries
  BY <1>6, <1>7, <1>8 DEF SumFunction, Totals
<1> QED
  BY <1>9 DEF p

LEMMA ReadersAgree ==
  ASSUME Rows(log), Past(log, now), now \in Nat
  PROVE  AnalyticsAddUp
<1> SUFFICES ASSUME NEW window \in 0..LogTicks, NEW width \in 1..3
             PROVE  LET rows == Since(log, now - window)
                        all  == Totals(rows)
                        line == Timeline(log, now, window, width)
                    IN /\ line.queries = all.queries /\ line.blocked = all.blocked
                       /\ line.devices <= all.devices
                       /\ all.queries = SumFunction([c \in Clients |-> Queries(By(rows, c))])
                       /\ \A top \in TopDomains(rows, TopLimit) :
                            LET counts == ServiceCounts(rows, top)
                            IN SumFunction(counts) <= all.queries
  BY DEF AnalyticsAddUp
<1> DEFINE rows == Since(log, now - window)
<1>1. Rows(rows)
  BY RowsPart DEF Since
<1>2. window \in Nat
  BY LogConstants
<1>3. /\ Timeline(log, now, window, width).queries = Totals(rows).queries
      /\ Timeline(log, now, window, width).blocked = Totals(rows).blocked
      /\ Timeline(log, now, window, width).devices <= Totals(rows).devices
  BY <1>2, TimelineAddsUp
<1> HIDE DEF rows
<1>4. \A top \in TopDomains(rows, TopLimit) : top \in SUBSET NamesIn(rows)
  BY DEF TopDomains, Tops
<1>5. \A top \in TopDomains(rows, TopLimit) :
        SumFunction(ServiceCounts(rows, top)) <= Totals(rows).queries
  BY <1>1, <1>4, ServicesAddUp
<1>6. Totals(rows).queries = SumFunction([c \in Clients |-> Queries(By(rows, c))])
  BY <1>1, ClientsAddUp
<1> QED
  BY <1>3, <1>5, <1>6 DEF rows

\* No name that was only allowed outranks a blocked one.
LEMMA BlockedRanksFirst ==
  ASSUME NEW rows, Rows(rows), NEW a, NEW b, Blocked(Naming(rows, a)) = {},
         Blocked(Naming(rows, b)) # {}
  PROVE  ~(EvidenceRank(rows, a) >= EvidenceRank(rows, b))
<1>1. Naming(rows, a) \in SUBSET rows /\ Naming(rows, b) \in SUBSET rows
  BY DEF Naming
<1>2. a # b /\ Naming(rows, a) \intersect Naming(rows, b) = {} /\ Naming(rows, b) # {}
  BY DEF Naming, Blocked
<1>3. Queries(Naming(rows, a)) + Queries(Naming(rows, b)) <= Queries(rows)
  BY <1>1, <1>2, QueriesOfTwo
<1>4. Queries(Naming(rows, b)) > 0
  BY <1>1, <1>2, RowsPart, QueriesOfSome
<1>5. /\ Queries(Naming(rows, a)) \in Nat /\ Queries(Naming(rows, b)) \in Nat
      /\ Queries(rows) \in Nat
  BY <1>1, QueriesOfPart
<1>6. EvidenceRank(rows, a) = Queries(Naming(rows, a))
  BY <1>5 DEF EvidenceRank
<1>7. EvidenceRank(rows, b) = Queries(Naming(rows, b)) + Queries(rows)
  BY DEF EvidenceRank
<1> QED
  BY <1>3, <1>4, <1>5, <1>6, <1>7

LEMMA EvidenceIsHonest ==
  ASSUME Rows(log)
  PROVE  EvidencePutsBlockedFirst
<1> SUFFICES ASSUME NEW c \in Clients, NEW focus \in {"blocked", "all"}, NEW until \in {now - 1, now},
                    NEW shown \in DomainEvidence(log, c, until, LogTicks - 1, focus).shown
             PROVE  LET blocked == NamesIn(Blocked(EvidenceRows(log, c, until, LogTicks - 1)))
                                     \ {NoDomain}
                    IN \/ blocked \subseteq shown
                       \/ shown \subseteq blocked /\ Cardinality(shown) = TopLimit
  BY DEF EvidencePutsBlockedFirst
<1> DEFINE rows == EvidenceRows(log, c, until, LogTicks - 1)
           blocked == NamesIn(Blocked(rows)) \ {NoDomain}
           listed == {d \in NamesIn(rows) \ {NoDomain} :
                        CASE focus = "blocked" -> Blocked(Naming(rows, d)) # {}
                          [] focus = "allowed" -> Naming(rows, d) \ Blocked(Naming(rows, d)) # {}
                          [] OTHER             -> TRUE}
<1>1. Rows(rows) /\ IsFiniteSet(rows)
  <2>1. rows \in SUBSET log
    BY DEF EvidenceRows, By
  <2> HIDE DEF rows
  <2> QED
    BY <2>1, RowsPart DEF Rows
<1>2. shown \in Tops(listed, LAMBDA d : EvidenceRank(rows, d), TopLimit)
  BY DEF DomainEvidence
<1> HIDE DEF rows
<1>3. /\ shown \subseteq listed
      /\ Cardinality(shown) = IF Cardinality(listed) < TopLimit THEN Cardinality(listed) ELSE TopLimit
      /\ \A a \in shown, b \in listed \ shown : EvidenceRank(rows, a) >= EvidenceRank(rows, b)
  <2> HIDE DEF listed
  <2> QED
    BY <1>2 DEF Tops
<1>4. \A d : Blocked(Naming(rows, d)) # {} <=> d \in NamesIn(Blocked(rows))
  BY DEF Blocked, Naming, NamesIn
<1>5. blocked \subseteq listed /\ listed \subseteq NamesIn(rows) \ {NoDomain}
  BY <1>4 DEF NamesIn, Blocked
<1>6. IsFiniteSet(listed)
  <2> DEFINE F == [r \in rows |-> r.domain]
  <2>1. IsFiniteSet({F[r] : r \in rows})
    BY <1>1, ImageIsFinite, DOMAIN F = rows
  <2>2. IsFiniteSet(NamesIn(rows))
    BY <2>1 DEF NamesIn
  <2> HIDE DEF listed
  <2> QED
    BY <1>5, <2>2, FS_Subset
<1> HIDE DEF listed
<1>7. ASSUME ~(blocked \subseteq shown)
      PROVE  shown \subseteq blocked /\ Cardinality(shown) = TopLimit
  <2>1. PICK b \in blocked : b \notin shown
    BY <1>7
  <2>2. b \in listed \ shown /\ Blocked(Naming(rows, b)) # {}
    BY <1>4, <1>5, <2>1
  <2>3. Cardinality(shown) = TopLimit
    BY <1>3, <1>6, <2>2, FS_Subset
  <2>4. ASSUME NEW a \in shown PROVE a \in blocked
    <3>1. EvidenceRank(rows, a) >= EvidenceRank(rows, b)
      BY <1>3, <2>2
    <3>2. Blocked(Naming(rows, a)) # {}
      BY <1>1, <2>2, <3>1, BlockedRanksFirst
    <3> QED
      BY <1>3, <1>4, <1>5, <3>2
  <2> QED
    BY <2>3, <2>4
<1> QED
  BY <1>7 DEF rows

-----------------------------------------------------------------------------
(* The three parts together.                                                *)

\* The readers of the log add and drop its rows; the alerts are as they were.
LEMMA LogStep ==
  ASSUME AlertsInv, LogNext, UNCHANGED agentVars
  PROVE  AlertsInv'
<1>0. LogTypeOK /\ LogTicks \in Nat /\ IsLookups(LogBatches)
  BY LogConstants DEF AlertsInv, AlertsTypeOK
<1>1. LogTypeOK' /\ now <= now'
  <2>1. CASE TimePasses(LogTicks)
    <3>1. LogTypeOK' /\ now' = now + 1 /\ now \in Nat
      BY <1>0, <2>1, TimeType DEF LogTypeOK
    <3> QED
      BY <3>1
  <2>2. CASE LookupsArrive(LogBatches)
    <3>1. LogTypeOK' /\ now' = now /\ now \in Nat
      BY <1>0, <2>2, LookupsType DEF LogTypeOK
    <3> QED
      BY <3>1
  <2> QED
    BY <2>1, <2>2 DEF LogNext
<1> QED
  BY <1>1, StandsStill DEF agentVars, InPass, AlertsInv, AlertsTypeOK

MonitoringInv == AlertsInv /\ BandInv /\ Past(log, now)

LEMMA LogStaysPast ==
  ASSUME LogTypeOK, Past(log, now),
         \/ LogNext \/ AlertsNext \/ UNCHANGED logVars
  PROVE  Past(log', now')
<1>1. now \in Nat /\ \A r \in log : r.time \in Nat /\ r.time <= now
  BY DEF LogTypeOK, LogRow, Past
<1>2. ASSUME NEW keep, TimePasses(keep) PROVE Past(log', now')
  BY <1>1, <1>2 DEF TimePasses, Past
<1>3. ASSUME NEW batches, LookupsArrive(batches) PROVE Past(log', now')
  BY <1>1, <1>3 DEF LookupsArrive, Past
<1>4. CASE UNCHANGED logVars
  BY <1>1, <1>4 DEF logVars, Past
<1> QED
  BY <1>2, <1>3, <1>4 DEF LogNext, AlertsNext, Tick, Lookups, Evaluate, AddAlert, Deliver,
     Finish, PassFails, EndsPass, Crash, Start, AckAlert, AckAllAlerts

LEMMA MonitoringStep ==
  ASSUME MonitoringInv, [Next]_allVars
  PROVE  /\ AlertsInv' /\ BandInv' /\ Past(log', now')
         /\ [AlertsNext \/ UNCHANGED agentVars]_alertVars /\ [BandNext]_bandVars
<1>0. AlertsInv /\ BandInv /\ LogTypeOK /\ Past(log, now)
  BY DEF MonitoringInv, AlertsInv, AlertsTypeOK
<1>1. CASE part = "log" /\ LogNext /\ UNCHANGED <<part, agentVars, bandVars>>
  BY <1>0, <1>1, LogStep, BandStep, LogStaysPast
<1>2. CASE part = "alerts" /\ AlertsNext /\ UNCHANGED <<part, bandVars>>
  BY <1>0, <1>2, AlertsStep, BandStep, LogStaysPast
<1>3. CASE part = "bandwidth" /\ BandNext /\ UNCHANGED <<part, alertVars>>
  <2>1. UNCHANGED logVars
    BY <1>3 DEF alertVars, logVars
  <2> QED
    BY <1>0, <1>3, <2>1, AlertsStep, BandStep, LogStaysPast
<1>4. CASE UNCHANGED allVars
  <2>1. UNCHANGED alertVars /\ UNCHANGED bandVars /\ UNCHANGED logVars
    BY <1>4 DEF allVars, alertVars, logVars
  <2> QED
    BY <1>0, <2>1, AlertsStep, BandStep, LogStaysPast
<1> QED
  BY <1>1, <1>2, <1>3, <1>4 DEF Next

(* The three invariants together, and no row of the log is of the future.   *)
THEOREM MonitoringInvariant == Spec => []MonitoringInv
<1>1. Init => MonitoringInv
  <2>1. LogInit => Past(log, now)
    BY DEF LogInit, Past
  <2> QED
    BY <2>1, AlertsStart, BandStart DEF Init, AlertsInit, MonitoringInv
<1>2. MonitoringInv /\ [Next]_allVars => MonitoringInv'
  BY MonitoringStep DEF MonitoringInv
<1> QED
  BY <1>1, <1>2, PTL DEF Spec

(* Every variable of the monitoring side keeps its type: the samples' rows, *)
(* the alerts' table and the log, whatever the readings, the lookups, the   *)
(* passes and the acknowledgements.                                         *)
THEOREM MonitoringIsTyped == Spec => []TypeOK
<1>1. MonitoringInv => TypeOK
  BY DEF MonitoringInv, AlertsInv, BandInv, TypeOK
<1> QED
  BY <1>1, MonitoringInvariant, PTL

(* has_recent_alert: for any capacity, quiet times and limits, of two       *)
(* alerts of one kind about one device within the quiet time the first had  *)
(* left the inbox, or one pass drafted both from privacy hits -- however    *)
(* passes fail, the agent restarts and alerts are acknowledged.             *)
THEOREM AlertsDoNotRepeat == Spec => []NoRepeat
<1>1. MonitoringInv => NoRepeat
  BY DEF MonitoringInv, AlertsInv
<1> QED
  BY <1>1, MonitoringInvariant, PTL

(* The agent takes devices for known only when the pass that saw them has   *)
(* added every alert it had to: a step that changes what is known finds     *)
(* each of them told.                                                       *)
THEOREM DevicesAreKnownWhenTold == Spec => KnownOnlyWhenTold
<1> DEFINE AllTold == \A x \in due : \E a \in Told :
                        a.type = x[1] /\ a.subject = x[2] /\ a.base = looked.base
<1>1. MonitoringInv /\ [Next]_allVars
        => [previous' # previous /\ previous' # {} => AllTold]_alertVars
  <2> SUFFICES ASSUME MonitoringInv, [Next]_allVars, ~UNCHANGED alertVars,
                      previous' # previous, previous' # {}
               PROVE  AllTold
    OBVIOUS
  <2>1. AlertsNext
    BY MonitoringStep DEF agentVars
  <2> QED
    BY <2>1, TellingStep DEF MonitoringInv
<1> QED
  BY <1>1, MonitoringInvariant, PTL DEF Spec, KnownOnlyWhenTold

(* bandwidth_rates and bandwidth_series: whatever counters are reset, flows *)
(* end, readings fail and samples are pruned, a rate between two samples of *)
(* one source, and the sum of a series of them, is never more than what the *)
(* address and those whose text begins with its own moved in between.       *)
THEOREM RatesAreWhatWasMoved == Spec => []RatesAreHonest
<1>1. MonitoringInv => RatesAreHonest
  BY RatesFollow, SeriesFollows DEF RatesAreHonest, MonitoringInv
<1> QED
  BY <1>1, MonitoringInvariant, PTL

(* record_bandwidth_sample: the samples a pass stores, each of which prunes *)
(* the table, leave every address its newest two within the horizon.        *)
THEOREM LatestSamplesSurvive == Spec => LatestSurvive
<1>1. MonitoringInv /\ MonitoringInv' /\ [Next]_allVars =>
        [\A a \in Linked : \A r \in SamplesOf(a) :
           (/\ r.at >= clock' - Horizon
            /\ Cardinality({q \in SamplesOf(a)' : q.at > r.at}) < 2) => r \in samples']_bandVars
  BY MonitoringStep, SurvivalStep DEF MonitoringInv
<1> QED
  BY <1>1, MonitoringInvariant, PTL DEF Spec, LatestSurvive

(* timeline, traffic_series, the rankings and the roll-up of services: on   *)
(* any log, the buckets of a window have each of its lookups once, and a    *)
(* client's and a service's totals are parts of the household's.            *)
THEOREM AnalyticsAgree == Spec => []AnalyticsHold
<1>1. MonitoringInv => AnalyticsHold
  BY ReadersAgree DEF MonitoringInv, AlertsInv, AlertsTypeOK, LogTypeOK, Rows, AnalyticsHold
<1> QED
  BY <1>1, MonitoringInvariant, PTL

(* domain_evidence: of any log and for any limit, a blocked domain is left  *)
(* out only when as many blocked domains as fit are shown.                  *)
THEOREM BlockedEvidenceComesFirst == Spec => []EvidenceHolds
<1>1. MonitoringInv => EvidenceHolds
  BY EvidenceIsHonest DEF MonitoringInv, AlertsInv, AlertsTypeOK, LogTypeOK, Rows, EvidenceHolds
<1> QED
  BY <1>1, MonitoringInvariant, PTL
=============================================================================
