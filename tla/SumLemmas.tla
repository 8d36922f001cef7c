------------------------------ MODULE SumLemmas ------------------------------
(***************************************************************************)
(* What a sum over a finite set does when the set grows or shrinks by one  *)
(* element.  SumFunctionOnSet of the community modules is a fold: a        *)
(* function chosen to satisfy its own recursion.  That one exists, and     *)
(* what it returns, is shown by the least set for which it would fail.     *)
(***************************************************************************)
EXTENDS FiniteSetTheorems, Functions, TLAPS

\* A nonempty set of numbers has a least one.
LEMMA LeastNat ==
  ASSUME NEW T \in SUBSET Nat, T # {}
  PROVE  \E x \in T : \A y \in T : x <= y
<1>1. \E R : IsWellFoundedOn(R, Nat) /\ \A x, y \in Nat : <<x, y>> \in R <=> x < y
  <2>1. IsWellFoundedOn(OpToRel(<, Nat), Nat)
    BY NatLessThanWellFounded
  <2>2. \A x, y \in Nat : <<x, y>> \in OpToRel(<, Nat) <=> x < y
    BY DEF OpToRel
  <2> QED  BY <2>1, <2>2
<1>2. PICK R : IsWellFoundedOn(R, Nat) /\ \A x, y \in Nat : <<x, y>> \in R <=> x < y
  BY <1>1
<1>3. PICK x \in T : \A y \in T : ~(<<y, x>> \in R)
  <2>1. IsWellFoundedOn(R, Nat) /\ T \subseteq Nat
    BY <1>2
  <2> QED  BY <2>1, WFMin
<1>4. ASSUME NEW y \in T PROVE x <= y
  <2>1. x \in Nat /\ y \in Nat
    OBVIOUS
  <2>2. ~(<<y, x>> \in R)
    BY <1>3
  <2>3. ~(y < x)
    BY <1>2, <2>1, <2>2
  <2> QED  BY <2>1, <2>3
<1> QED  BY <1>4

-----------------------------------------------------------------------------
\* The sum over s of f, given the sums g over the smaller sets.
Body(f, g, s) ==
  IF s = {} THEN 0 ELSE f[CHOOSE x \in s : TRUE] + g[s \ {CHOOSE x \in s : TRUE}]

\* The library's sum is the value at S of the function its fold chooses.
LEMMA SumUnfold ==
  ASSUME NEW f, NEW S
  PROVE  SumFunctionOnSet(f, S) = (CHOOSE g : g = [s \in SUBSET S |-> Body(f, g, s)])[S]
BY DEF SumFunctionOnSet, FoldFunctionOnSet, MapThenFoldSet, Body

\* g is the sum on subsets of S of at most n elements.
Sums(f, g, S, n) ==
  LET D == {s \in SUBSET S : Cardinality(s) <= n} IN
  g = [s \in D |-> Body(f, g, s)]

\* Such a function exists, for each n.
LEMMA SumsExist ==
  ASSUME NEW f, NEW S, IsFiniteSet(S), NEW n \in Nat
  PROVE  \E g : Sums(f, g, S, n)
<1> DEFINE Bad == {m \in Nat : ~ \E g : Sums(f, g, S, m)}
<1> SUFFICES ASSUME Bad # {} PROVE FALSE
  OBVIOUS
<1>0. \A s \in SUBSET S : IsFiniteSet(s) /\ Cardinality(s) \in Nat
  BY FS_Subset, FS_CardinalityType
<1>1. PICK m \in Bad : \A k \in Bad : m <= k
  <2> HIDE DEF Bad
  <2>1. Bad \in SUBSET Nat
    BY DEF Bad
  <2> QED  BY <2>1, LeastNat
<1>2. CASE m = 0
  <2> DEFINE g == [s \in {{}} |-> 0]
  <2>1. {s \in SUBSET S : Cardinality(s) <= 0} = {{}}
    BY <1>0, FS_EmptySet
  <2>2. Sums(f, g, S, 0)
    BY <2>1 DEF Sums, Body
  <2> QED  BY <1>2, <2>2
<1>3. CASE m # 0
  <2>1. m - 1 \in Nat /\ m - 1 \notin Bad
    BY <1>1, <1>3
  <2>2. PICK g : Sums(f, g, S, m - 1)
    BY <2>1
  <2> DEFINE D == {s \in SUBSET S : Cardinality(s) <= m}
             C == {s \in SUBSET S : Cardinality(s) <= m - 1}
             h == [s \in D |-> Body(f, g, s)]
  <2>3. ASSUME NEW s \in D PROVE Body(f, g, s) = Body(f, h, s)
    <3>1. CASE s = {}
      BY <3>1 DEF Body
    <3>2. CASE s # {}
      <4> DEFINE x == CHOOSE x \in s : TRUE
      <4>1. x \in s
        BY <3>2
      <4>2. s \ {x} \in C /\ s \ {x} \in D
        <5>1. s \in SUBSET S /\ Cardinality(s) \in Nat /\ Cardinality(s) <= m /\ m \in Nat
          BY <1>0
        <5>2. Cardinality(s \ {x}) = Cardinality(s) - 1
          BY <4>1, <5>1, <1>0, FS_RemoveElement
        <5> HIDE DEF x
        <5> QED  BY <5>1, <5>2
      <4>3. g[s \ {x}] = Body(f, g, s \ {x})
        BY <2>2, <4>2 DEF Sums
      <4>4. h[s \ {x}] = g[s \ {x}]
        BY <4>2, <4>3
      <4> HIDE DEF h
      <4> QED  BY <3>2, <4>4 DEF Body
    <3> QED  BY <3>1, <3>2
  <2>4. Sums(f, h, S, m)
    BY <2>3 DEF Sums
  <2> QED  BY <2>4
<1> QED  BY <1>2, <1>3

\* g is the sum, on every subset of S.
SumsOn(f, g, S) == g = [s \in SUBSET S |-> Body(f, g, s)]

\* The recursive function that the fold defines exists.
LEMMA SumsOnExist ==
  ASSUME NEW f, NEW S, IsFiniteSet(S)
  PROVE  \E g : SumsOn(f, g, S)
<1>1. Cardinality(S) \in Nat /\ {s \in SUBSET S : Cardinality(s) <= Cardinality(S)} = SUBSET S
  BY FS_Subset, FS_CardinalityType
<1>2. PICK g : Sums(f, g, S, Cardinality(S))
  BY <1>1, SumsExist
<1>3. SumsOn(f, g, S)
  BY <1>1, <1>2 DEF Sums, SumsOn
<1> QED  BY <1>3

\* Two such functions agree where both are defined.
LEMMA SumsAgree ==
  ASSUME NEW f, NEW S, NEW T, NEW g, NEW h, IsFiniteSet(S), T \subseteq S,
         SumsOn(f, g, S), SumsOn(f, h, T)
  PROVE  g[T] = h[T]
<1> DEFINE Bad == {m \in Nat : \E s \in SUBSET T : Cardinality(s) = m /\ g[s] # h[s]}
<1>1. \A s \in SUBSET T : IsFiniteSet(s) /\ Cardinality(s) \in Nat /\ s \in SUBSET S
  BY FS_Subset, FS_CardinalityType
<1>2. SUFFICES ASSUME Bad # {} PROVE FALSE
  BY <1>1
<1>3. PICK m \in Bad : \A k \in Bad : m <= k
  <2> HIDE DEF Bad
  <2>1. Bad \in SUBSET Nat
    BY DEF Bad
  <2> QED  BY <1>2, <2>1, LeastNat
<1>4. PICK s \in SUBSET T : Cardinality(s) = m /\ g[s] # h[s]
  OBVIOUS
<1>5. g[s] = Body(f, g, s) /\ h[s] = Body(f, h, s)
  BY <1>1 DEF SumsOn
<1>6. s # {}
  BY <1>4, <1>5 DEF Body
<1> DEFINE x == CHOOSE x \in s : TRUE
<1>7. x \in s
  BY <1>6
<1>8. s \ {x} \in SUBSET T /\ Cardinality(s \ {x}) = m - 1 /\ m \in Nat
  BY <1>1, <1>4, <1>7, FS_RemoveElement
<1>9. g[s \ {x}] = h[s \ {x}]
  <2>1. ~(m <= m - 1) /\ Cardinality(s \ {x}) \in Nat
    BY <1>1, <1>8
  <2>2. m - 1 \notin Bad
    <3> HIDE DEF Bad
    <3> QED  BY <1>3, <2>1
  <2> HIDE DEF x
  <2> QED  BY <1>8, <2>1, <2>2
<1> QED  BY <1>4, <1>5, <1>6, <1>9 DEF Body

\* The sum over S is one of its terms more than the sum over the rest.
LEMMA SumStep ==
  ASSUME NEW f, NEW S, IsFiniteSet(S)
  PROVE  SumFunctionOnSet(f, S) = IF S = {} THEN 0
                     ELSE f[CHOOSE x \in S : TRUE] + SumFunctionOnSet(f, S \ {CHOOSE x \in S : TRUE})
<1> DEFINE G(T) == CHOOSE g : g = [s \in SUBSET T |-> Body(f, g, s)]
<1>1. ASSUME NEW T, IsFiniteSet(T) PROVE SumsOn(f, G(T), T) /\ SumFunctionOnSet(f, T) = G(T)[T]
  <2>1. \E g : g = [s \in SUBSET T |-> Body(f, g, s)]
    BY <1>1, SumsOnExist DEF SumsOn
  <2> QED  BY <2>1, SumUnfold DEF SumsOn
<1> HIDE DEF G
<1>2. SumFunctionOnSet(f, S) = Body(f, G(S), S)
  BY <1>1 DEF SumsOn
<1>3. CASE S = {}
  BY <1>2, <1>3 DEF Body
<1>4. CASE S # {}
  <2> DEFINE x == CHOOSE x \in S : TRUE
  <2>1. IsFiniteSet(S \ {x}) /\ S \ {x} \subseteq S
    BY FS_RemoveElement
  <2>2. SumFunctionOnSet(f, S \ {x}) = G(S \ {x})[S \ {x}]
    BY <1>1, <2>1
  <2>3. G(S)[S \ {x}] = G(S \ {x})[S \ {x}]
    BY <1>1, <2>1, SumsAgree
  <2> QED  BY <1>2, <1>4, <2>2, <2>3 DEF Body
<1> QED  BY <1>3, <1>4

\* The empty sum.
LEMMA SumEmpty == ASSUME NEW f PROVE SumFunctionOnSet(f, {}) = 0
BY FS_EmptySet, SumStep

\* A sum of integers is one.
LEMMA SumInt ==
  ASSUME NEW f, NEW S, IsFiniteSet(S), \A x \in S : f[x] \in Int
  PROVE  SumFunctionOnSet(f, S) \in Int
<1> DEFINE Bad == {m \in Nat : \E s \in SUBSET S : Cardinality(s) = m /\ SumFunctionOnSet(f, s) \notin Int}
<1>1. \A s \in SUBSET S : IsFiniteSet(s) /\ Cardinality(s) \in Nat
  BY FS_Subset, FS_CardinalityType
<1>2. SUFFICES ASSUME Bad # {} PROVE FALSE
  BY <1>1
<1>3. PICK m \in Bad : \A k \in Bad : m <= k
  <2> HIDE DEF Bad
  <2>1. Bad \in SUBSET Nat
    BY DEF Bad
  <2> QED  BY <1>2, <2>1, LeastNat
<1>4. PICK s \in SUBSET S : Cardinality(s) = m /\ SumFunctionOnSet(f, s) \notin Int
  OBVIOUS
<1>5. s # {}
  BY <1>4, SumEmpty
<1> DEFINE x == CHOOSE x \in s : TRUE
<1>6. x \in s
  BY <1>5
<1>7. s \ {x} \in SUBSET S /\ Cardinality(s \ {x}) = m - 1 /\ m \in Nat
  BY <1>1, <1>4, <1>6, FS_RemoveElement
<1>8. SumFunctionOnSet(f, s \ {x}) \in Int
  <2>1. ~(m <= m - 1) /\ Cardinality(s \ {x}) \in Nat
    BY <1>1, <1>7
  <2>2. m - 1 \notin Bad
    <3> HIDE DEF Bad
    <3> QED  BY <1>3, <2>1
  <2> HIDE DEF x
  <2> QED  BY <1>7, <2>1, <2>2
<1>9. SumFunctionOnSet(f, s) = f[x] + SumFunctionOnSet(f, s \ {x})
  BY <1>1, <1>5, SumStep
<1> QED  BY <1>4, <1>6, <1>8, <1>9

\* Any term may be taken out of a sum.
LEMMA SumRemove ==
  ASSUME NEW f, NEW S, IsFiniteSet(S), \A z \in S : f[z] \in Int, NEW y \in S
  PROVE  SumFunctionOnSet(f, S) = f[y] + SumFunctionOnSet(f, S \ {y})
<1> DEFINE Bad == {m \in Nat : \E s \in SUBSET S : \E z \in s :
                     Cardinality(s) = m /\ SumFunctionOnSet(f, s) # f[z] + SumFunctionOnSet(f, s \ {z})}
<1>1. \A s \in SUBSET S : IsFiniteSet(s) /\ Cardinality(s) \in Nat
  BY FS_Subset, FS_CardinalityType
<1>2. SUFFICES ASSUME Bad # {} PROVE FALSE
  BY <1>1
<1>3. PICK m \in Bad : \A k \in Bad : m <= k
  <2> HIDE DEF Bad
  <2>1. Bad \in SUBSET Nat
    BY DEF Bad
  <2> QED  BY <1>2, <2>1, LeastNat
<1>a. PICK s \in SUBSET S : \E z \in s :
        Cardinality(s) = m /\ SumFunctionOnSet(f, s) # f[z] + SumFunctionOnSet(f, s \ {z})
  OBVIOUS
<1>4. PICK z \in s : Cardinality(s) = m /\ SumFunctionOnSet(f, s) # f[z] + SumFunctionOnSet(f, s \ {z})
  BY <1>a
<1> DEFINE x == CHOOSE x \in s : TRUE
<1>5. x \in s
  BY <1>4
<1>6. SumFunctionOnSet(f, s) = f[x] + SumFunctionOnSet(f, s \ {x})
  BY <1>1, <1>4, SumStep
<1> HIDE DEF x
<1>7. x # z
  BY <1>4, <1>6
<1>8. s \ {x} \in SUBSET S /\ s \ {z} \in SUBSET S /\ m \in Nat
      /\ Cardinality(s \ {x}) = m - 1 /\ Cardinality(s \ {z}) = m - 1 /\ m - 1 \in Nat
  BY <1>1, <1>4, <1>5, FS_RemoveElement
<1>9. \A r \in SUBSET S : \A v \in r :
        Cardinality(r) = m - 1 => SumFunctionOnSet(f, r) = f[v] + SumFunctionOnSet(f, r \ {v})
  <2>1. m - 1 \notin Bad
    <3> HIDE DEF Bad
    <3> QED  BY <1>3, <1>8
  <2> QED  BY <1>8, <2>1
<1>10. SumFunctionOnSet(f, s \ {x}) = f[z] + SumFunctionOnSet(f, s \ {x, z})
  <2>1. z \in s \ {x} /\ (s \ {x}) \ {z} = s \ {x, z}
    BY <1>7
  <2> QED  BY <1>8, <1>9, <2>1
<1>11. SumFunctionOnSet(f, s \ {z}) = f[x] + SumFunctionOnSet(f, s \ {x, z})
  <2>1. x \in s \ {z} /\ (s \ {z}) \ {x} = s \ {x, z}
    BY <1>5, <1>7
  <2> QED  BY <1>8, <1>9, <2>1
<1>12. f[x] \in Int /\ f[z] \in Int /\ SumFunctionOnSet(f, s \ {x, z}) \in Int
  <2>1. IsFiniteSet(s \ {x, z}) /\ s \ {x, z} \subseteq S
    BY <1>1
  <2> QED  BY <1>5, <2>1, SumInt
<1> QED  BY <1>4, <1>6, <1>10, <1>11, <1>12

\* A sum depends on its terms only.
LEMMA SumCong ==
  ASSUME NEW f, NEW g, NEW S, IsFiniteSet(S), \A z \in S : f[z] = g[z]
  PROVE  SumFunctionOnSet(f, S) = SumFunctionOnSet(g, S)
<1> DEFINE Bad == {m \in Nat : \E s \in SUBSET S :
                     Cardinality(s) = m /\ SumFunctionOnSet(f, s) # SumFunctionOnSet(g, s)}
<1>1. \A s \in SUBSET S : IsFiniteSet(s) /\ Cardinality(s) \in Nat
  BY FS_Subset, FS_CardinalityType
<1>2. SUFFICES ASSUME Bad # {} PROVE FALSE
  BY <1>1
<1>3. PICK m \in Bad : \A k \in Bad : m <= k
  <2> HIDE DEF Bad
  <2>1. Bad \in SUBSET Nat
    BY DEF Bad
  <2> QED  BY <1>2, <2>1, LeastNat
<1>4. PICK s \in SUBSET S : Cardinality(s) = m /\ SumFunctionOnSet(f, s) # SumFunctionOnSet(g, s)
  OBVIOUS
<1>5. s # {}
  BY <1>4, SumEmpty
<1> DEFINE x == CHOOSE x \in s : TRUE
<1>6. x \in s
  BY <1>5
<1>7. s \ {x} \in SUBSET S /\ Cardinality(s \ {x}) = m - 1 /\ m \in Nat
  BY <1>1, <1>4, <1>6, FS_RemoveElement
<1>8. SumFunctionOnSet(f, s \ {x}) = SumFunctionOnSet(g, s \ {x})
  <2>1. ~(m <= m - 1) /\ Cardinality(s \ {x}) \in Nat
    BY <1>1, <1>7
  <2>2. m - 1 \notin Bad
    <3> HIDE DEF Bad
    <3> QED  BY <1>3, <2>1
  <2> HIDE DEF x
  <2> QED  BY <1>7, <2>1, <2>2
<1>9. /\ SumFunctionOnSet(f, s) = f[x] + SumFunctionOnSet(f, s \ {x})
      /\ SumFunctionOnSet(g, s) = g[x] + SumFunctionOnSet(g, s \ {x})
  BY <1>1, <1>5, SumStep
<1> QED  BY <1>4, <1>6, <1>8, <1>9

\* A sum of naturals is one, and no less than each of its terms.
LEMMA SumNat ==
  ASSUME NEW f, NEW S, IsFiniteSet(S), \A z \in S : f[z] \in Nat
  PROVE  SumFunctionOnSet(f, S) \in Nat /\ \A y \in S : f[y] <= SumFunctionOnSet(f, S)
<1> DEFINE Bad == {m \in Nat : \E s \in SUBSET S :
                     Cardinality(s) = m /\ SumFunctionOnSet(f, s) \notin Nat}
<1>1. \A s \in SUBSET S : IsFiniteSet(s) /\ Cardinality(s) \in Nat
  BY FS_Subset, FS_CardinalityType
<1>2. ASSUME Bad # {} PROVE FALSE
  <2>1. PICK m \in Bad : \A k \in Bad : m <= k
    <3> HIDE DEF Bad
    <3>1. Bad \in SUBSET Nat
      BY DEF Bad
    <3> QED  BY <1>2, <3>1, LeastNat
  <2>2. PICK s \in SUBSET S : Cardinality(s) = m /\ SumFunctionOnSet(f, s) \notin Nat
    OBVIOUS
  <2>3. s # {}
    BY <2>2, SumEmpty
  <2> DEFINE x == CHOOSE x \in s : TRUE
  <2>4. x \in s
    BY <2>3
  <2>5. s \ {x} \in SUBSET S /\ Cardinality(s \ {x}) = m - 1 /\ m \in Nat
    BY <1>1, <2>2, <2>4, FS_RemoveElement
  <2>6. SumFunctionOnSet(f, s \ {x}) \in Nat
    <3>1. ~(m <= m - 1) /\ Cardinality(s \ {x}) \in Nat
      BY <1>1, <2>5
    <3>2. m - 1 \notin Bad
      <4> HIDE DEF Bad
      <4> QED  BY <2>1, <3>1
    <3> HIDE DEF x
    <3> QED  BY <2>5, <3>1, <3>2
  <2>7. SumFunctionOnSet(f, s) = f[x] + SumFunctionOnSet(f, s \ {x})
    BY <1>1, <2>3, SumStep
  <2> QED  BY <2>2, <2>4, <2>6, <2>7
<1>3. \A s \in SUBSET S : SumFunctionOnSet(f, s) \in Nat
  BY <1>1, <1>2
<1>4. ASSUME NEW y \in S PROVE f[y] <= SumFunctionOnSet(f, S)
  <2>1. SumFunctionOnSet(f, S) = f[y] + SumFunctionOnSet(f, S \ {y})
    <3>1. \A z \in S : f[z] \in Int
      OBVIOUS
    <3> QED  BY <3>1, SumRemove
  <2> QED  BY <1>3, <2>1
<1> QED  BY <1>3, <1>4

\* A set's new element adds its term to the sum; one that leaves takes it away.
LEMMA SumJoin ==
  ASSUME NEW S, NEW R, NEW y, NEW f \in [S -> Int], NEW g \in [R -> Int],
         IsFiniteSet(S), y \notin S, R = S \cup {y}, \A z \in S : g[z] = f[z]
  PROVE  SumFunctionOnSet(g, R) = g[y] + SumFunctionOnSet(f, S)
<1>1. IsFiniteSet(R) /\ R \ {y} = S
  BY FS_AddElement
<1>2. SumFunctionOnSet(g, R) = g[y] + SumFunctionOnSet(g, S)
  <2>1. \A z \in R : g[z] \in Int
    OBVIOUS
  <2> QED  BY <1>1, <2>1, SumRemove
<1>3. SumFunctionOnSet(g, S) = SumFunctionOnSet(f, S)
  BY SumCong
<1> QED  BY <1>2, <1>3
=============================================================================
