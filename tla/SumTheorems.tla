---------------------------- MODULE SumTheorems ----------------------------
(***************************************************************************)
(* Sums over finite sets: SumFunctionOnSet of the community modules is a   *)
(* recursion that takes the elements in the order of a CHOOSE.  What it    *)
(* yields does not depend on that order, and an element more adds its      *)
(* value.  The inductions are by the least counterexample.  And orders of  *)
(* finite sets: every place from the first to the last is somebody's.      *)
(***************************************************************************)
EXTENDS Integers, Sequences, Functions, FiniteSetTheorems, WellFoundedInduction, TLAPS

LEMMA LeastNumber ==
    ASSUME NEW T, T \subseteq Nat, T # {}
    PROVE  \E m \in T : \A n \in T : m <= n
<1>1. \A m, n \in Nat : n < m => <<n, m>> \in OpToRel(<, Nat)
  BY DEF OpToRel
<1>2. PICK R : /\ IsWellFoundedOn(R, Nat)
               /\ \A m, n \in Nat : n < m => <<n, m>> \in R
  BY <1>1, NatLessThanWellFounded, Zenon
<1>3. \E m \in T : \A n \in T : ~ (<<n, m>> \in R)
  BY <1>2, WFMin, Zenon
<1>4. \E m \in T : \A n \in T : ~ (n < m)
  BY <1>2, <1>3, Zenon
<1>. QED
  BY <1>4

(* Of finite sets one is the smallest.                                      *)
LEMMA SmallestSet ==
    ASSUME NEW B, B # {}, \A s \in B : IsFiniteSet(s)
    PROVE  \E s \in B : \A t \in B : Cardinality(s) <= Cardinality(t)
<1>. DEFINE T == {Cardinality(s) : s \in B}
<1>1. T \subseteq Nat /\ T # {}
  BY FS_CardinalityType
<1>2. PICK m \in T : \A n \in T : m <= n
  BY <1>1, LeastNumber, Zenon
<1>. QED
  BY <1>2

(* Of finitely many numbers one is the largest.                             *)
LEMMA LargestNumber ==
    ASSUME NEW S, IsFiniteSet(S), S \subseteq Nat, S # {}
    PROVE  \E m \in S : \A n \in S : n <= m
<1>. DEFINE B == {s \in SUBSET S : s # {} /\ ~ \E m \in s : \A n \in s : n <= m}
<1>1. SUFFICES ASSUME B # {} PROVE FALSE
  OBVIOUS
<1>2. PICK s \in B : \A t \in B : Cardinality(s) <= Cardinality(t)
  BY <1>1, SmallestSet, FS_Subset
<1>3. PICK x \in s : TRUE
  OBVIOUS
<1>4. s \ {x} \notin B
  <2>1. IsFiniteSet(s) /\ Cardinality(s) \in Nat
    BY FS_Subset, FS_CardinalityType
  <2>2. IsFiniteSet(s \ {x}) /\ Cardinality(s \ {x}) = Cardinality(s) - 1
    BY <1>3, <2>1, FS_RemoveElement
  <2>3. s \ {x} \in B => Cardinality(s) <= Cardinality(s \ {x})
    BY <1>2, Zenon
  <2>. QED
    BY <2>1, <2>2, <2>3
<1>5. CASE s \ {x} = {}
  BY <1>3, <1>5
<1>6. CASE s \ {x} # {}
  <2>1. PICK m \in s \ {x} : \A n \in s \ {x} : n <= m
    BY <1>4, <1>6
  <2>2. CASE x <= m
    BY <2>1, <2>2
  <2>3. CASE m <= x
    BY <1>3, <2>1, <2>3
  <2>. QED
    BY <2>1, <2>2, <2>3
<1>. QED
  BY <1>5, <1>6

(* g sums f over the subsets of D.                                          *)
Sums(g, f, D) ==
    \A s \in SUBSET D :
        g[s] = IF s = {} THEN 0
               ELSE f[CHOOSE x \in s : TRUE] + g[s \ {CHOOSE x \in s : TRUE}]

Recursion(g, f, T) ==
    g = [s \in T |-> IF s = {} THEN 0
                     ELSE f[CHOOSE x \in s : TRUE] + g[s \ {CHOOSE x \in s : TRUE}]]

UpTo(D, n) == {s \in SUBSET D : Cardinality(s) <= n}

LEMMA SumsExist ==
    ASSUME NEW D, IsFiniteSet(D), NEW f
    PROVE  \E g : Recursion(g, f, SUBSET D)
<1>. DEFINE P(n) == \E g : Recursion(g, f, UpTo(D, n))
<1>0. \A s \in SUBSET D : /\ IsFiniteSet(s) /\ Cardinality(s) \in Nat
                          /\ Cardinality(s) <= Cardinality(D)
                          /\ Cardinality(s) = 0 <=> s = {}
                          /\ \A x \in s : Cardinality(s \ {x}) = Cardinality(s) - 1
  BY FS_Subset, FS_CardinalityType, FS_EmptySet, FS_RemoveElement
<1>1. P(0)
  <2>1. \A s \in UpTo(D, 0) : s = {}
    BY <1>0 DEF UpTo
  <2>. DEFINE g == [s \in UpTo(D, 0) |-> 0]
  <2>2. Recursion(g, f, UpTo(D, 0))
    BY <2>1, Zenon DEF Recursion
  <2>. QED
    BY <2>2, Zenon
<1>2. ASSUME NEW n \in Nat, P(n) PROVE P(n + 1)
  <2>1. PICK g : Recursion(g, f, UpTo(D, n))
    BY <1>2, Zenon
  <2>. DEFINE V(s) == IF s = {} THEN 0
                      ELSE f[CHOOSE x \in s : TRUE] + g[s \ {CHOOSE x \in s : TRUE}]
              h == [s \in UpTo(D, n + 1) |-> V(s)]
  <2>2. ASSUME NEW s \in UpTo(D, n + 1), s # {}
        PROVE  h[s \ {CHOOSE x \in s : TRUE}] = g[s \ {CHOOSE x \in s : TRUE}]
    <3>. DEFINE t == s \ {CHOOSE x \in s : TRUE}
    <3>1. t \in UpTo(D, n) /\ t \in UpTo(D, n + 1)
      <4>1. (CHOOSE x \in s : TRUE) \in s
        BY <2>2
      <4>2. s \in SUBSET D /\ Cardinality(s) <= n + 1
        BY DEF UpTo
      <4>3. t \in SUBSET D /\ Cardinality(t) = Cardinality(s) - 1 /\ Cardinality(s) \in Nat
        BY <1>0, <4>1, <4>2
      <4>. QED
        BY <4>2, <4>3 DEF UpTo
    <3>2. g[t] = V(t)
      BY <2>1, <3>1, Zenon DEF Recursion
    <3>3. h[t] = V(t)
      BY <3>1, Zenon
    <3>. QED
      BY <3>2, <3>3
  <2>3. Recursion(h, f, UpTo(D, n + 1))
    <3>1. \A s \in UpTo(D, n + 1) :
             V(s) = IF s = {} THEN 0
                    ELSE f[CHOOSE x \in s : TRUE] + h[s \ {CHOOSE x \in s : TRUE}]
      <4>. HIDE DEF h
      <4>1. SUFFICES ASSUME NEW s \in UpTo(D, n + 1)
                     PROVE  V(s) = IF s = {} THEN 0
                                   ELSE f[CHOOSE x \in s : TRUE] + h[s \ {CHOOSE x \in s : TRUE}]
        BY Zenon
      <4>2. CASE s = {}
        BY <4>2
      <4>3. CASE s # {}
        BY <2>2, <4>3
      <4>. QED
        BY <4>2, <4>3
    <3>. HIDE DEF V
    <3>. QED
      BY <3>1, Zenon DEF Recursion
  <2>. QED
    BY <2>3, Zenon
<1>3. P(Cardinality(D))
  <2>. DEFINE T == {n \in Nat : ~ P(n)}
  <2>. HIDE DEF P
  <2>1. SUFFICES ASSUME T # {} PROVE FALSE
    BY <1>0
  <2>2. PICK m \in T : \A n \in T : m <= n
    BY <2>1, LeastNumber
  <2>3. m # 0
    BY <1>1, <2>2
  <2>4. m - 1 \in Nat /\ m - 1 \notin T
    BY <2>2, <2>3
  <2>5. P(m - 1)
    BY <2>4
  <2>6. P((m - 1) + 1)
    BY <1>2, <2>4, <2>5
  <2>7. P(m)
    BY <2>2, <2>6
  <2>. QED
    BY <2>2, <2>7
<1>4. UpTo(D, Cardinality(D)) = SUBSET D
  BY <1>0 DEF UpTo
<1>. QED
  BY <1>3, <1>4

(* The recursion of the community modules is such a sum.                    *)
LEMMA SumIsSums ==
    ASSUME NEW f, NEW S, IsFiniteSet(S)
    PROVE  \E g : Sums(g, f, S) /\ SumFunctionOnSet(f, S) = g[S]
<1>. DEFINE c == CHOOSE g : Recursion(g, f, SUBSET S)
<1>1. SumFunctionOnSet(f, S) = c[S]
  BY DEF SumFunctionOnSet, FoldFunctionOnSet, MapThenFoldSet, Recursion
<1>2. Recursion(c, f, SUBSET S)
  BY SumsExist
<1>. HIDE DEF c
<1>3. Sums(c, f, S)
  BY <1>2, Zenon DEF Sums, Recursion
<1>. QED
  BY <1>1, <1>3, Zenon

(* The sum of a set is that of its subsets.                                 *)
LEMMA SumsAgree ==
    ASSUME NEW f, NEW g, NEW h, NEW e, NEW C, NEW D, Sums(g, f, C), Sums(h, e, D),
           NEW S, S \subseteq C, S \subseteq D, IsFiniteSet(S), \A x \in S : f[x] = e[x]
    PROVE  g[S] = h[S]
<1>. DEFINE B == {s \in SUBSET S : g[s] # h[s]}
<1>1. SUFFICES ASSUME B # {} PROVE FALSE
  OBVIOUS
<1>2. \A s \in B : IsFiniteSet(s)
  BY FS_Subset
<1>3. PICK s \in B : \A t \in B : Cardinality(s) <= Cardinality(t)
  BY <1>1, <1>2, SmallestSet
<1>4. s \in SUBSET C /\ s \in SUBSET D /\ s \in SUBSET S
  OBVIOUS
<1>5. s # {}
  BY <1>4 DEF Sums
<1>. DEFINE c == CHOOSE x \in s : TRUE
<1>6. c \in s
  BY <1>5
<1>. HIDE DEF c
<1>7. Cardinality(s \ {c}) = Cardinality(s) - 1 /\ Cardinality(s) \in Nat
  BY <1>2, <1>6, FS_RemoveElement, FS_CardinalityType
<1>8. s \ {c} \notin B
  BY <1>3, <1>7
<1>9. g[s \ {c}] = h[s \ {c}] /\ f[c] = e[c]
  BY <1>4, <1>6, <1>8
<1>10. g[s] = f[c] + g[s \ {c}] /\ h[s] = e[c] + h[s \ {c}]
  BY <1>4, <1>5 DEF Sums, c
<1>. QED
  BY <1>9, <1>10

LEMMA SumsAreNumbers ==
    ASSUME NEW f, NEW g, NEW S, Sums(g, f, S), IsFiniteSet(S), \A x \in S : f[x] \in Int
    PROVE  \A s \in SUBSET S : g[s] \in Int
<1>. DEFINE B == {s \in SUBSET S : g[s] \notin Int}
<1>1. SUFFICES ASSUME B # {} PROVE FALSE
  OBVIOUS
<1>2. \A s \in B : IsFiniteSet(s)
  BY FS_Subset
<1>3. PICK s \in B : \A t \in B : Cardinality(s) <= Cardinality(t)
  BY <1>1, <1>2, SmallestSet
<1>4. s \in SUBSET S
  OBVIOUS
<1>5. s # {}
  <2>1. g[{}] = 0
    BY DEF Sums
  <2>. QED
    BY <2>1
<1>. DEFINE c == CHOOSE x \in s : TRUE
<1>6. c \in s
  BY <1>5
<1>. HIDE DEF c
<1>7. Cardinality(s \ {c}) = Cardinality(s) - 1 /\ Cardinality(s) \in Nat
  BY <1>2, <1>6, FS_RemoveElement, FS_CardinalityType
<1>8. g[s \ {c}] \in Int /\ f[c] \in Int
  BY <1>3, <1>4, <1>6, <1>7
<1>9. g[s] = f[c] + g[s \ {c}]
  BY <1>4, <1>5 DEF Sums, c
<1>. QED
  BY <1>8, <1>9

(* Any element may be taken first.                                          *)
LEMMA AnyFirst ==
    ASSUME NEW f, NEW g, NEW S, Sums(g, f, S), IsFiniteSet(S), \A x \in S : f[x] \in Int
    PROVE  \A s \in SUBSET S : \A y \in s : g[s] = f[y] + g[s \ {y}]
<1>. DEFINE B == {s \in SUBSET S : \E y \in s : g[s] # f[y] + g[s \ {y}]}
<1>1. SUFFICES ASSUME B # {} PROVE FALSE
  OBVIOUS
<1>2. \A s \in B : IsFiniteSet(s)
  BY FS_Subset
<1>3. PICK s \in B : \A t \in B : Cardinality(s) <= Cardinality(t)
  BY <1>1, <1>2, SmallestSet
<1>4. PICK y \in s : g[s] # f[y] + g[s \ {y}]
  OBVIOUS
<1>5. s \in SUBSET S /\ s # {}
  BY <1>4
<1>. DEFINE c == CHOOSE x \in s : TRUE
<1>6. c \in s
  BY <1>5
<1>7. g[s] = f[c] + g[s \ {c}]
  BY <1>5 DEF Sums
<1>. HIDE DEF c
<1>8. /\ Cardinality(s \ {c}) = Cardinality(s) - 1 /\ Cardinality(s) \in Nat
      /\ Cardinality(s \ {y}) = Cardinality(s) - 1
  BY <1>2, <1>4, <1>6, FS_RemoveElement, FS_CardinalityType
<1>9. s \ {c} \notin B /\ s \ {y} \notin B
  <2>. HIDE DEF B
  <2>. QED
    BY <1>3, <1>8
<1>10. c # y
  BY <1>4, <1>7
<1>11. /\ s \ {c} \in SUBSET S /\ y \in s \ {c}
       /\ s \ {y} \in SUBSET S /\ c \in s \ {y}
       /\ (s \ {c}) \ {y} = (s \ {y}) \ {c}
  BY <1>4, <1>5, <1>6, <1>10
<1>12. /\ g[s \ {c}] = f[y] + g[(s \ {c}) \ {y}]
       /\ g[s \ {y}] = f[c] + g[(s \ {c}) \ {y}]
  BY <1>9, <1>11
<1>13. f[y] \in Int /\ f[c] \in Int /\ g[(s \ {c}) \ {y}] \in Int
  <2>1. (s \ {c}) \ {y} \in SUBSET S
    BY <1>11
  <2>. QED
    BY <1>4, <1>5, <1>6, <2>1, SumsAreNumbers
<1>. QED
  BY <1>4, <1>7, <1>12, <1>13

-----------------------------------------------------------------------------
LEMMA SumOfNone == ASSUME NEW f PROVE SumFunctionOnSet(f, {}) = 0
<1>1. PICK g : Sums(g, f, {}) /\ SumFunctionOnSet(f, {}) = g[{}]
  BY SumIsSums, FS_EmptySet
<1>. QED
  BY <1>1 DEF Sums

LEMMA SumOfSame ==
    ASSUME NEW f, NEW e, NEW S, IsFiniteSet(S), \A x \in S : f[x] = e[x]
    PROVE  SumFunctionOnSet(f, S) = SumFunctionOnSet(e, S)
<1>1. PICK g : Sums(g, f, S) /\ SumFunctionOnSet(f, S) = g[S]
  BY SumIsSums
<1>2. PICK h : Sums(h, e, S) /\ SumFunctionOnSet(e, S) = h[S]
  BY SumIsSums
<1>. QED
  BY <1>1, <1>2, SumsAgree

LEMMA SumOfMore ==
    ASSUME NEW f, NEW S, IsFiniteSet(S), NEW y, y \notin S, \A x \in S \cup {y} : f[x] \in Int
    PROVE  /\ SumFunctionOnSet(f, S \cup {y}) = SumFunctionOnSet(f, S) + f[y]
           /\ SumFunctionOnSet(f, S) \in Int
<1>. DEFINE D == S \cup {y}
<1>0. IsFiniteSet(D) /\ D \ {y} = S
  BY FS_AddElement
<1>1. PICK g : Sums(g, f, D) /\ SumFunctionOnSet(f, D) = g[D]
  BY <1>0, SumIsSums
<1>2. PICK h : Sums(h, f, S) /\ SumFunctionOnSet(f, S) = h[S]
  BY SumIsSums
<1>3. h[S] = g[S]
  BY <1>1, <1>2, SumsAgree
<1>4. g[D] = f[y] + g[D \ {y}]
  BY <1>0, <1>1, AnyFirst
<1>5. g[S] \in Int
  BY <1>0, <1>1, SumsAreNumbers
<1>6. g[D] = g[S] + f[y]
  <2>1. f[y] \in Int /\ g[D] = f[y] + g[S]
    BY <1>0, <1>4
  <2>. HIDE DEF D
  <2>. QED
    BY <1>5, <2>1
<1>. HIDE DEF D
<1>7. SumFunctionOnSet(f, D) = SumFunctionOnSet(f, S) + f[y] /\ SumFunctionOnSet(f, S) \in Int
  BY <1>1, <1>2, <1>3, <1>5, <1>6
<1>. QED
  BY <1>7 DEF D

LEMMA SumIsNumber ==
    ASSUME NEW f, NEW S, IsFiniteSet(S), \A x \in S : f[x] \in Int
    PROVE  SumFunctionOnSet(f, S) \in Int
BY SumIsSums, SumsAreNumbers

(* ... and an element less takes its value away.                            *)
LEMMA SumWithout ==
    ASSUME NEW f, NEW S, IsFiniteSet(S), \A y \in S : f[y] \in Int, NEW x \in S
    PROVE  /\ SumFunctionOnSet(f, S) = SumFunctionOnSet(f, S \ {x}) + f[x]
           /\ SumFunctionOnSet(f, S \ {x}) \in Int
<1>1. PICK R : R = S \ {x}
  BY Zenon
<1>2. IsFiniteSet(R)
  BY <1>1, FS_RemoveElement
<1>3. x \notin R /\ R \cup {x} = S
  BY <1>1
<1>4. \A y \in R \cup {x} : f[y] \in Int
  BY <1>3
<1>5. /\ SumFunctionOnSet(f, R \cup {x}) = SumFunctionOnSet(f, R) + f[x]
      /\ SumFunctionOnSet(f, R) \in Int
  BY <1>2, <1>3, <1>4, SumOfMore
<1>. QED
  BY <1>1, <1>3, <1>5, Zenon

(* A sum of zeros, and of two sets without a common element.                *)
LEMMA SumOfZeros ==
    ASSUME NEW f, NEW S, IsFiniteSet(S), \A x \in S : f[x] = 0
    PROVE  SumFunctionOnSet(f, S) = 0
<1>. DEFINE B == {s \in SUBSET S : SumFunctionOnSet(f, s) # 0}
<1>1. SUFFICES ASSUME B # {} PROVE FALSE
  <2>1. S \in SUBSET S
    OBVIOUS
  <2>. QED
    BY <2>1
<1>2. \A s \in B : IsFiniteSet(s)
  BY FS_Subset
<1>3. PICK s \in B : \A t \in B : Cardinality(s) <= Cardinality(t)
  BY <1>1, <1>2, SmallestSet
<1>4. PICK x \in s : TRUE
  BY SumOfNone
<1>. DEFINE r == s \ {x}
<1>5. Cardinality(r) = Cardinality(s) - 1 /\ Cardinality(s) \in Nat
  BY <1>2, FS_RemoveElement, FS_CardinalityType
<1>6. r \in SUBSET S /\ r \notin B
  <2>. HIDE DEF B
  <2>1. s \in SUBSET S
    BY DEF B
  <2>. QED
    BY <1>3, <1>5, <2>1
<1>7. SumFunctionOnSet(f, s) = SumFunctionOnSet(f, r) + f[x]
  <2>1. IsFiniteSet(s) /\ \A y \in s : f[y] \in Int
    BY <1>2
  <2>. QED
    BY <2>1, SumWithout
<1>8. SumFunctionOnSet(f, r) = 0 /\ f[x] = 0 /\ SumFunctionOnSet(f, s) # 0
  BY <1>6
<1>. HIDE DEF r, B
<1>. QED
  BY <1>7, <1>8

LEMMA SumOfUnion ==
    ASSUME NEW f, NEW S, NEW T, IsFiniteSet(S), IsFiniteSet(T), S \cap T = {},
           \A x \in S \cup T : f[x] \in Int
    PROVE  SumFunctionOnSet(f, S \cup T) = SumFunctionOnSet(f, S) + SumFunctionOnSet(f, T)
<1>. DEFINE Adds(t) == SumFunctionOnSet(f, S \cup t) = SumFunctionOnSet(f, S) + SumFunctionOnSet(f, t)
            B == {t \in SUBSET T : ~Adds(t)}
<1>1. SUFFICES ASSUME B # {} PROVE FALSE
  <2>1. T \in SUBSET T
    OBVIOUS
  <2>. QED
    BY <2>1
<1>. HIDE DEF Adds
<1>2. \A t \in B : IsFiniteSet(t)
  BY FS_Subset
<1>3. PICK s \in B : \A t \in B : Cardinality(s) <= Cardinality(t)
  BY <1>1, <1>2, SmallestSet
<1>4. SumFunctionOnSet(f, S) \in Int
  BY SumIsNumber
<1>5. Adds({})
  <2>1. S \cup {} = S
    OBVIOUS
  <2>2. SumFunctionOnSet(f, S \cup {}) = SumFunctionOnSet(f, S)
    BY <2>1, Zenon
  <2>. QED
    BY <1>4, <2>2, SumOfNone DEF Adds
<1>6. PICK x \in s : TRUE
  BY <1>5
<1>. DEFINE r == s \ {x}
<1>7. Cardinality(r) = Cardinality(s) - 1 /\ Cardinality(s) \in Nat /\ IsFiniteSet(r)
  BY <1>2, FS_RemoveElement, FS_CardinalityType
<1>8. r \in SUBSET T /\ r \notin B /\ x \notin r
  <2>. HIDE DEF B
  <2>1. s \in SUBSET T
    BY DEF B
  <2>. QED
    BY <1>3, <1>7, <2>1
<1>9. Adds(r) /\ ~Adds(s) /\ s \in SUBSET T
  BY <1>8
<1>10. /\ SumFunctionOnSet(f, s) = SumFunctionOnSet(f, r) + f[x]
       /\ SumFunctionOnSet(f, r) \in Int
  <2>1. IsFiniteSet(s) /\ \A y \in s : f[y] \in Int
    BY <1>2, <1>9
  <2>. QED
    BY <2>1, SumWithout
<1>11. SumFunctionOnSet(f, S \cup s) = SumFunctionOnSet(f, S \cup r) + f[x]
  <2>. DEFINE U == S \cup s
              V == S \cup r
  <2>1. x \in U /\ U \ {x} = V /\ \A y \in U : f[y] \in Int
    BY <1>8, <1>9
  <2>2. IsFiniteSet(U)
    BY <1>2, FS_Union
  <2>. HIDE DEF U, V
  <2>3. SumFunctionOnSet(f, U) = SumFunctionOnSet(f, U \ {x}) + f[x]
    BY <2>1, <2>2, SumWithout
  <2>4. SumFunctionOnSet(f, U) = SumFunctionOnSet(f, V) + f[x]
    BY <2>1, <2>3, Zenon
  <2>. QED
    BY <2>4, Zenon DEF U, V
<1>12. f[x] \in Int
  BY <1>9
<1>. HIDE DEF r, B
<1>. QED
  BY <1>4, <1>9, <1>10, <1>11, <1>12 DEF Adds

(* The sums of the parts add up to the sum.                                 *)
LEMMA SumOfParts ==
    ASSUME NEW f, NEW key, NEW S, IsFiniteSet(S), \A x \in S : f[x] \in Int,
           NEW T, IsFiniteSet(T), \A x \in S : key[x] \in T
    PROVE  SumFunctionOnSet([t \in T |-> SumFunctionOnSet(f, {x \in S : key[x] = t})], T)
             = SumFunctionOnSet(f, S)
<1>. DEFINE Part(s, t) == {x \in s : key[x] = t}
            Parts(s) == [t \in T |-> SumFunctionOnSet(f, Part(s, t))]
            Adds(s) == SumFunctionOnSet(Parts(s), T) = SumFunctionOnSet(f, s)
            B == {s \in SUBSET S : ~Adds(s)}
<1>1. SUFFICES ASSUME B # {} PROVE FALSE
  <2>1. S \in SUBSET S
    OBVIOUS
  <2>. QED
    BY <2>1
<1>. HIDE DEF Adds
<1>2. \A s \in B : IsFiniteSet(s)
  BY FS_Subset
<1>3. PICK s \in B : \A t \in B : Cardinality(s) <= Cardinality(t)
  BY <1>1, <1>2, SmallestSet
<1>4. s \in SUBSET S /\ ~Adds(s) /\ IsFiniteSet(s)
  BY <1>2
<1>5. Adds({})
  <2>1. \A t \in T : Part({}, t) = {}
    OBVIOUS
  <2>. HIDE DEF Part
  <2>2. \A t \in T : Parts({})[t] = 0
    BY <2>1, SumOfNone
  <2>. HIDE DEF Parts
  <2>. QED
    BY <2>2, SumOfNone, SumOfZeros DEF Adds
<1>6. PICK x \in s : TRUE
  BY <1>4, <1>5
<1>. DEFINE r == s \ {x}
            u == key[x]
            rest == T \ {u}
<1>7. Cardinality(r) = Cardinality(s) - 1 /\ Cardinality(s) \in Nat
  BY <1>2, FS_RemoveElement, FS_CardinalityType
<1>8. r \in SUBSET S /\ r \notin B
  <2>. HIDE DEF B
  <2>. QED
    BY <1>3, <1>4, <1>7
<1>9. Adds(r)
  BY <1>8
<1>10. /\ SumFunctionOnSet(f, s) = SumFunctionOnSet(f, r) + f[x]
       /\ SumFunctionOnSet(f, r) \in Int
  <2>1. \A y \in s : f[y] \in Int
    BY <1>4
  <2>. QED
    BY <1>4, <2>1, SumWithout
<1>11. \A p \in SUBSET s : IsFiniteSet(p) /\ SumFunctionOnSet(f, p) \in Int
  <2>. SUFFICES ASSUME NEW p \in SUBSET s PROVE IsFiniteSet(p) /\ SumFunctionOnSet(f, p) \in Int
    OBVIOUS
  <2>1. IsFiniteSet(p)
    BY <1>4, FS_Subset
  <2>2. \A y \in p : f[y] \in Int
    BY <1>4
  <2>. QED
    BY <2>1, <2>2, SumIsNumber
<1>12. \A t \in rest : Parts(s)[t] = Parts(r)[t]
  <2>. SUFFICES ASSUME NEW t \in rest PROVE Parts(s)[t] = Parts(r)[t]
    OBVIOUS
  <2>1. Part(s, t) = Part(r, t)
    OBVIOUS
  <2>. HIDE DEF Part
  <2>. QED
    BY <2>1
<1>13. Parts(s)[u] = Parts(r)[u] + f[x] /\ u \in T
  <2>. DEFINE U == Part(s, u)
              V == Part(r, u)
  <2>1. x \in U /\ U \ {x} = V /\ (\A y \in U : f[y] \in Int) /\ U \in SUBSET s
    BY <1>4
  <2>2. u \in T
    BY <1>4
  <2>3. Parts(s)[u] = SumFunctionOnSet(f, U) /\ Parts(r)[u] = SumFunctionOnSet(f, V)
    BY <2>2
  <2>. HIDE DEF U, V, Parts, u
  <2>4. SumFunctionOnSet(f, U) = SumFunctionOnSet(f, U \ {x}) + f[x]
    BY <1>11, <2>1, SumWithout
  <2>. QED
    BY <2>1, <2>2, <2>3, <2>4, Zenon
<1>14. \A t \in T : Parts(s)[t] \in Int /\ Parts(r)[t] \in Int
  <2>. SUFFICES ASSUME NEW t \in T PROVE Parts(s)[t] \in Int /\ Parts(r)[t] \in Int
    OBVIOUS
  <2>1. Part(s, t) \in SUBSET s /\ Part(r, t) \in SUBSET s
    OBVIOUS
  <2>. HIDE DEF Part
  <2>. QED
    BY <1>11, <2>1
<1>. HIDE DEF Parts, u, B, r
<1>15. /\ SumFunctionOnSet(Parts(s), T) = SumFunctionOnSet(Parts(s), rest) + Parts(s)[u]
       /\ SumFunctionOnSet(Parts(r), T) = SumFunctionOnSet(Parts(r), rest) + Parts(r)[u]
       /\ SumFunctionOnSet(Parts(r), rest) \in Int
  BY <1>13, <1>14, SumWithout
<1>16. SumFunctionOnSet(Parts(s), rest) = SumFunctionOnSet(Parts(r), rest)
  <2>1. IsFiniteSet(rest)
    BY FS_Subset
  <2>. HIDE DEF rest
  <2>. QED
    BY <1>12, <2>1, SumOfSame
<1>17. f[x] \in Int /\ Parts(r)[u] \in Int
  BY <1>4, <1>13, <1>14
<1>. HIDE DEF rest
<1>. QED
  BY <1>4, <1>9, <1>10, <1>13, <1>15, <1>16, <1>17 DEF Adds

(* Functions that add up point by point have sums that do, and the sum of   *)
(* the opposites is the opposite of the sum.                                *)
LEMMA SumOfBoth ==
    ASSUME NEW f, NEW e, NEW g, NEW S, IsFiniteSet(S),
           \A x \in S : f[x] \in Int /\ e[x] \in Int /\ g[x] = f[x] + e[x]
    PROVE  SumFunctionOnSet(g, S) = SumFunctionOnSet(f, S) + SumFunctionOnSet(e, S)
<1>. DEFINE Adds(s) == SumFunctionOnSet(g, s) = SumFunctionOnSet(f, s) + SumFunctionOnSet(e, s)
            B == {s \in SUBSET S : ~Adds(s)}
<1>1. SUFFICES ASSUME B # {} PROVE FALSE
  <2>1. S \in SUBSET S
    OBVIOUS
  <2>. QED
    BY <2>1
<1>. HIDE DEF Adds
<1>2. \A s \in B : IsFiniteSet(s)
  BY FS_Subset
<1>3. PICK s \in B : \A t \in B : Cardinality(s) <= Cardinality(t)
  BY <1>1, <1>2, SmallestSet
<1>4. s \in SUBSET S /\ ~Adds(s) /\ IsFiniteSet(s)
  BY <1>2
<1>5. Adds({})
  BY SumOfNone DEF Adds
<1>6. PICK x \in s : TRUE
  BY <1>4, <1>5
<1>. DEFINE r == s \ {x}
<1>7. Cardinality(r) = Cardinality(s) - 1 /\ Cardinality(s) \in Nat
  BY <1>2, FS_RemoveElement, FS_CardinalityType
<1>8. Adds(r)
  <2>1. r \in SUBSET S /\ r \notin B
    <3>. HIDE DEF B
    <3>. QED
      BY <1>3, <1>4, <1>7
  <2>. QED
    BY <2>1
<1>9. /\ SumFunctionOnSet(f, s) = SumFunctionOnSet(f, r) + f[x]
      /\ SumFunctionOnSet(f, r) \in Int
  <2>1. \A y \in s : f[y] \in Int
    BY <1>4
  <2>. QED
    BY <1>4, <2>1, SumWithout
<1>10. /\ SumFunctionOnSet(e, s) = SumFunctionOnSet(e, r) + e[x]
       /\ SumFunctionOnSet(e, r) \in Int
  <2>1. \A y \in s : e[y] \in Int
    BY <1>4
  <2>. QED
    BY <1>4, <2>1, SumWithout
<1>11. /\ SumFunctionOnSet(g, s) = SumFunctionOnSet(g, r) + g[x]
       /\ SumFunctionOnSet(g, r) \in Int
  <2>1. \A y \in s : g[y] \in Int
    BY <1>4
  <2>. QED
    BY <1>4, <2>1, SumWithout
<1>12. f[x] \in Int /\ e[x] \in Int /\ g[x] = f[x] + e[x]
  BY <1>4
<1>. HIDE DEF r, B
<1>. QED
  BY <1>4, <1>8, <1>9, <1>10, <1>11, <1>12 DEF Adds

LEMMA SumOfOpposites ==
    ASSUME NEW f, NEW e, NEW S, IsFiniteSet(S), \A x \in S : f[x] \in Int /\ e[x] = -f[x]
    PROVE  SumFunctionOnSet(e, S) = -SumFunctionOnSet(f, S)
<1>1. PICK z : z = [x \in S |-> 0]
  BY Zenon
<1>2. \A x \in S : e[x] \in Int /\ z[x] = f[x] + e[x] /\ z[x] = 0
  BY <1>1
<1>3. SumFunctionOnSet(z, S) = SumFunctionOnSet(f, S) + SumFunctionOnSet(e, S)
  BY <1>2, SumOfBoth
<1>4. SumFunctionOnSet(z, S) = 0
  BY <1>2, SumOfZeros
<1>5. SumFunctionOnSet(f, S) \in Int /\ SumFunctionOnSet(e, S) \in Int
  BY <1>2, SumIsNumber
<1>. QED
  BY <1>3, <1>4, <1>5

(* A set has as many elements as ones add up to over it.                   *)
LEMMA CountIsSum ==
    ASSUME NEW S, IsFiniteSet(S), NEW one, \A x \in S : one[x] = 1
    PROVE  Cardinality(S) = SumFunctionOnSet(one, S)
<1>. DEFINE B == {s \in SUBSET S : Cardinality(s) # SumFunctionOnSet(one, s)}
<1>1. SUFFICES ASSUME B # {} PROVE FALSE
  <2>1. S \in SUBSET S
    OBVIOUS
  <2>. QED
    BY <2>1
<1>2. \A s \in B : IsFiniteSet(s)
  BY FS_Subset
<1>3. PICK s \in B : \A r \in B : Cardinality(s) <= Cardinality(r)
  BY <1>1, <1>2, SmallestSet, Zenon
<1>4. IsFiniteSet(s) /\ s \in SUBSET S /\ Cardinality(s) # SumFunctionOnSet(one, s)
  BY <1>2
<1>5. s # {}
  BY <1>4, SumOfNone, FS_EmptySet
<1>6. PICK x \in s : TRUE
  BY <1>5
<1>7. PICK r : r = s \ {x}
  BY Zenon
<1>8. /\ IsFiniteSet(r) /\ r \in SUBSET S /\ Cardinality(r) = Cardinality(s) - 1
      /\ Cardinality(s) \in Nat
  BY <1>4, <1>7, FS_RemoveElement, FS_CardinalityType
<1>9. Cardinality(r) = SumFunctionOnSet(one, r)
  <2>1. r \notin B
    BY <1>3, <1>8
  <2>. QED
    BY <1>8, <2>1
<1>10. SumFunctionOnSet(one, s) = SumFunctionOnSet(one, r) + 1
  <2>1. \A y \in s : one[y] \in Int
    BY <1>4
  <2>2. SumFunctionOnSet(one, s) = SumFunctionOnSet(one, s \ {x}) + one[x]
    BY <1>4, <2>1, SumWithout
  <2>. QED
    BY <1>4, <1>7, <2>2
<1>. QED
  BY <1>4, <1>8, <1>9, <1>10

(* ... so that the numbers of elements of the parts of a set add up to the  *)
(* number of all.                                                           *)
LEMMA CountOfParts ==
    ASSUME NEW S, IsFiniteSet(S), NEW T, IsFiniteSet(T), NEW key, \A x \in S : key[x] \in T
    PROVE  SumFunctionOnSet([t \in T |-> Cardinality({x \in S : key[x] = t})], T) = Cardinality(S)
<1>1. PICK one : one = [x \in S |-> 1]
  BY Zenon
<1>2. \A x \in S : one[x] = 1 /\ one[x] \in Int
  BY <1>1
<1>3. SumFunctionOnSet([t \in T |-> SumFunctionOnSet(one, {x \in S : key[x] = t})], T)
        = SumFunctionOnSet(one, S)
  BY <1>2, SumOfParts
<1>4. SumFunctionOnSet(one, S) = Cardinality(S)
  BY <1>2, CountIsSum
<1>5. ASSUME NEW t \in T
      PROVE  SumFunctionOnSet(one, {x \in S : key[x] = t}) = Cardinality({x \in S : key[x] = t})
  <2>1. PICK part : part = {x \in S : key[x] = t}
    BY Zenon
  <2>2. IsFiniteSet(part) /\ \A x \in part : one[x] = 1
    BY <1>2, <2>1, FS_Subset
  <2>3. Cardinality(part) = SumFunctionOnSet(one, part)
    BY <2>2, CountIsSum
  <2>. QED
    BY <2>1, <2>3
<1>6. [t \in T |-> SumFunctionOnSet(one, {x \in S : key[x] = t})]
        = [t \in T |-> Cardinality({x \in S : key[x] = t})]
  BY <1>5
<1>. QED
  BY <1>3, <1>4, <1>6

-----------------------------------------------------------------------------
(* The image of a set has no more elements than the set.                    *)
LEMMA ImageIsSmaller ==
    ASSUME NEW S, IsFiniteSet(S), NEW f
    PROVE  /\ IsFiniteSet({f[x] : x \in S})
           /\ Cardinality({f[x] : x \in S}) <= Cardinality(S)
<1>. DEFINE T == {f[x] : x \in S}
            g == [x \in S |-> f[x]]
<1>1. g \in Surjection(S, T)
  BY DEF Surjection
<1>. HIDE DEF g
<1>. QED
  BY <1>1, FS_Surjection

(* A strict order of all the elements of S; how many are before one.        *)
Orders(R, S) ==
    /\ \A x, y \in S : x # y => <<x, y>> \in R \/ <<y, x>> \in R
    /\ \A x \in S : <<x, x>> \notin R
    /\ \A x, y, z \in S : <<x, y>> \in R /\ <<y, z>> \in R => <<x, z>> \in R

Lower(x, R, S) == {y \in S : <<y, x>> \in R}
Rank(x, R, S) == Cardinality(Lower(x, R, S))

LEMMA RanksRise ==
    ASSUME NEW S, IsFiniteSet(S), NEW R, Orders(R, S), NEW x \in S, NEW y \in S
    PROVE  /\ Rank(x, R, S) \in 0 .. Cardinality(S) - 1
           /\ <<x, y>> \in R => Rank(x, R, S) < Rank(y, R, S)
           /\ Rank(x, R, S) < Rank(y, R, S) => <<x, y>> \in R
           /\ Rank(x, R, S) = Rank(y, R, S) => x = y
<1>1. \A z \in S : IsFiniteSet(Lower(z, R, S)) /\ Rank(z, R, S) \in Nat
  <2>. SUFFICES ASSUME NEW z \in S PROVE IsFiniteSet(Lower(z, R, S)) /\ Rank(z, R, S) \in Nat
    OBVIOUS
  <2>1. Lower(z, R, S) \in SUBSET S
    BY DEF Lower
  <2>2. IsFiniteSet(Lower(z, R, S))
    BY <2>1, FS_Subset
  <2>. QED
    BY <2>2, FS_CardinalityType DEF Rank
<1>2. Cardinality(S) \in Nat
  BY FS_CardinalityType
<1>3. ASSUME NEW u \in S, NEW v \in S, <<u, v>> \in R
      PROVE  Rank(u, R, S) < Rank(v, R, S)
  <2>1. PICK T : T = Lower(v, R, S) \ {u}
    BY Zenon
  <2>2. u \in Lower(v, R, S)
    BY <1>3 DEF Lower
  <2>3. IsFiniteSet(T) /\ Cardinality(T) = Rank(v, R, S) - 1
    BY <1>1, <2>1, <2>2, FS_RemoveElement DEF Rank
  <2>4. Lower(u, R, S) \in SUBSET T
    <3>. SUFFICES ASSUME NEW w \in Lower(u, R, S) PROVE w \in T
      OBVIOUS
    <3>1. w \in S /\ <<w, u>> \in R
      BY DEF Lower
    <3>2. <<w, v>> \in R /\ w # u
      BY <1>3, <3>1 DEF Orders
    <3>. QED
      BY <2>1, <3>1, <3>2 DEF Lower
  <2>5. Cardinality(Lower(u, R, S)) <= Cardinality(T)
    BY <2>3, <2>4, FS_Subset
  <2>6. Rank(u, R, S) \in Nat /\ Rank(v, R, S) \in Nat
    BY <1>1
  <2>. QED
    BY <2>3, <2>5, <2>6 DEF Rank
<1>4. Rank(x, R, S) \in 0 .. Cardinality(S) - 1
  <2>1. PICK T : T = S \ {x}
    BY Zenon
  <2>2. IsFiniteSet(T) /\ Cardinality(T) = Cardinality(S) - 1
    BY <2>1, FS_RemoveElement
  <2>3. Lower(x, R, S) \in SUBSET T
    BY <2>1 DEF Lower, Orders
  <2>4. Rank(x, R, S) <= Cardinality(T)
    BY <2>2, <2>3, FS_Subset DEF Rank
  <2>. QED
    BY <1>1, <1>2, <2>2, <2>4
<1>5. x = y \/ <<x, y>> \in R \/ <<y, x>> \in R
  BY DEF Orders
<1>6. <<x, y>> \in R => Rank(x, R, S) < Rank(y, R, S)
  BY <1>3
<1>7. <<y, x>> \in R => Rank(y, R, S) < Rank(x, R, S)
  BY <1>3
<1>8. Rank(x, R, S) \in Nat /\ Rank(y, R, S) \in Nat
  BY <1>1
<1>. QED
  BY <1>4, <1>5, <1>6, <1>7, <1>8

(* Each place in the order is somebody's.                                   *)
LEMMA EveryRankIsTaken ==
    ASSUME NEW S, IsFiniteSet(S), NEW R, Orders(R, S), NEW n \in 1 .. Cardinality(S)
    PROVE  \E x \in S : Rank(x, R, S) = n - 1
<1>0. Cardinality(S) \in Nat
  BY FS_CardinalityType
<1>1. PICK last : last = Cardinality(S) - 1
  BY Zenon
<1>2. PICK T : T = 0 .. last
  BY Zenon
<1>3. IsFiniteSet(T) /\ Cardinality(T) = Cardinality(S)
  <2>1. last \in Int /\ 0 \in Int /\ last >= 0
    BY <1>0, <1>1
  <2>2. IsFiniteSet(0 .. last) /\ Cardinality(0 .. last) = IF 0 > last THEN 0 ELSE last - 0 + 1
    BY <2>1, FS_Interval, Zenon
  <2>. QED
    BY <1>0, <1>1, <1>2, <2>1, <2>2
<1>. DEFINE f == [x \in S |-> Rank(x, R, S)]
<1>4. f \in Injection(S, T)
  <2>1. \A x \in S : Rank(x, R, S) \in T
    BY <1>1, <1>2, RanksRise
  <2>2. \A x, y \in S : Rank(x, R, S) = Rank(y, R, S) => x = y
    BY RanksRise
  <2>3. f \in [S -> T]
    BY <2>1
  <2>4. \A x, y \in S : f[x] = f[y] => x = y
    BY <2>2
  <2>. HIDE DEF f
  <2>. QED
    BY <2>3, <2>4 DEF Injection, IsInjective
<1>5. f \in Surjection(S, T)
  <2>. HIDE DEF f
  <2>. QED
    BY <1>3, <1>4, FS_Injection
<1>6. n - 1 \in T
  BY <1>0, <1>1, <1>2
<1>7. \E x \in S : f[x] = n - 1
  <2>. HIDE DEF f
  <2>. QED
    BY <1>5, <1>6 DEF Surjection
<1>. QED
  BY <1>7

(* A sequence that has in each place whoever has that many before it is     *)
(* sorted and has all of S, each once.                                      *)
Sorts(s, R, S) ==
    /\ s \in Seq(S) /\ Len(s) = Cardinality(S)
    /\ S = {s[n] : n \in DOMAIN s}
    /\ \A m, n \in DOMAIN s : m < n => <<s[m], s[n]>> \in R
    /\ \A m, n \in DOMAIN s : s[m] = s[n] => m = n

LEMMA RanksSort ==
    ASSUME NEW S, IsFiniteSet(S), NEW R, Orders(R, S), NEW s \in [1 .. Cardinality(S) -> S],
           \A n \in 1 .. Cardinality(S) : Rank(s[n], R, S) = n - 1
    PROVE  Sorts(s, R, S)
<1>1. Cardinality(S) \in Nat /\ DOMAIN s = 1 .. Cardinality(S)
  BY FS_CardinalityType
<1>2. \A n \in DOMAIN s : s[n] \in S /\ Rank(s[n], R, S) = n - 1
  BY <1>1
<1>3. s \in [1 .. Cardinality(S) -> S]
  OBVIOUS
<1>4. s \in Seq(S) /\ Len(s) = Cardinality(S)
  <2>1. \A n \in Nat : \A f \in [1 .. n -> S] : f \in Seq(S) /\ Len(f) = n
    OBVIOUS
  <2>. QED
    BY <1>1, <1>3, <2>1, Zenon
<1>5. ASSUME NEW x \in S PROVE \E n \in DOMAIN s : s[n] = x
  <2>1. Rank(x, R, S) \in 0 .. Cardinality(S) - 1
    BY RanksRise
  <2>2. PICK n \in DOMAIN s : n = Rank(x, R, S) + 1
    BY <1>1, <2>1
  <2>3. Rank(s[n], R, S) = Rank(x, R, S) /\ s[n] \in S
    BY <1>2, <2>1, <2>2
  <2>. QED
    BY <2>3, RanksRise
<1>6. ASSUME NEW m \in DOMAIN s, NEW n \in DOMAIN s, m < n PROVE <<s[m], s[n]>> \in R
  <2>1. Rank(s[m], R, S) = m - 1 /\ Rank(s[n], R, S) = n - 1 /\ s[m] \in S /\ s[n] \in S
    BY <1>2
  <2>2. m \in Nat /\ n \in Nat
    BY <1>1
  <2>3. Rank(s[m], R, S) < Rank(s[n], R, S)
    BY <1>6, <2>1, <2>2
  <2>. QED
    BY <2>1, <2>3, RanksRise
<1>7. ASSUME NEW m \in DOMAIN s, NEW n \in DOMAIN s, s[m] = s[n] PROVE m = n
  <2>1. m - 1 = n - 1 /\ m \in Nat /\ n \in Nat
    BY <1>1, <1>2, <1>7
  <2>. QED
    BY <2>1
<1>8. S = {s[n] : n \in DOMAIN s}
  BY <1>2, <1>5
<1>. QED
  BY <1>4, <1>6, <1>7, <1>8 DEF Sorts

=============================================================================
