------------------------- MODULE CollectionLemmas -------------------------
(***************************************************************************)
(* Sums over finite sets: what the folds of the models add up to, whatever *)
(* the order in which CHOOSE takes the elements; and the element sets of   *)
(* sequences without repetition.  The prover cannot instantiate an         *)
(* induction theorem that takes a predicate, so every induction here is by *)
(* a minimal counterexample, taken in a set of finite sets.                *)
(***************************************************************************)
EXTENDS FiniteSetsExt, SequencesExt, FiniteSetTheorems, SequenceTheorems,
        WellFoundedInduction, TLAPS

(* The sum of g[x] over the elements x of S.                               *)
SumOf(g, S) == MapThenSumSet(LAMBDA x : g[x], S)

(* it is the recursive function that the fold over S defines.              *)
Pick(s) == CHOOSE x \in s : TRUE
IsSum(it, g, S) ==
  it = [s \in SUBSET S |-> IF s = {} THEN 0 ELSE g[Pick(s)] + it[s \ {Pick(s)}]]

(* A nonempty set of finite sets has an element none of whose strict       *)
(* subsets it contains.                                                    *)
LEMMA MinimalSet ==
  ASSUME NEW Q, Q # {}, \A U \in Q : IsFiniteSet(U)
  PROVE  \E U \in Q : \A V \in Q : V \subseteq U => V = U
<1> DEFINE S == UNION Q
           R == StrictSubsetOrdering(S)
<1>1. IsWellFoundedOn(R, FiniteSubsetsOf(S))
  BY FS_StrictSubsetOrderingWellFounded
<1>2. Q \subseteq FiniteSubsetsOf(S)
  BY DEF FiniteSubsetsOf
<1>3. PICK U \in Q : \A V \in Q : <<V, U>> \notin R
  <2> HIDE DEF R, S
  <2>1. QED
    BY <1>1, <1>2, WFMin
<1>4. ASSUME NEW V \in Q, V \subseteq U, V # U PROVE FALSE
  <2>1. <<V, U>> \in R
    BY <1>4 DEF StrictSubsetOrdering
  <2>2. QED
    BY <1>3, <2>1
<1>5. QED
  BY <1>4

(* CHOOSE takes an element of a set that has one.                          *)
LEMMA PickIn ==
  ASSUME NEW s, s # {}
  PROVE  Pick(s) \in s
BY DEF Pick

(* What the function of a fold returns for a set and for one element less. *)
LEMMA SumStep ==
  ASSUME NEW S, NEW g, NEW it, IsSum(it, g, S), NEW U \in SUBSET S
  PROVE  it[U] = IF U = {} THEN 0 ELSE g[Pick(U)] + it[U \ {Pick(U)}]
BY DEF IsSum

(* The sum over a set does not depend on the set the fold started from.    *)
LEMMA SumUnique ==
  ASSUME NEW S, NEW T, NEW g, NEW i, NEW j, IsSum(i, g, S), IsSum(j, g, T),
         NEW U \in SUBSET (S \cap T), IsFiniteSet(U)
  PROVE  i[U] = j[U]
<1> SUFFICES ASSUME i[U] # j[U] PROVE FALSE
  OBVIOUS
<1> DEFINE Q == {V \in SUBSET U : i[V] # j[V]}
<1>1. Q # {}
  OBVIOUS
<1>2. \A V \in Q : IsFiniteSet(V)
  BY FS_Subset
<1>3. PICK V \in Q : \A W \in Q : W \subseteq V => W = V
  <2> HIDE DEF Q
  <2>1. QED
    BY <1>1, <1>2, MinimalSet
<1>4. V \in SUBSET S /\ V \in SUBSET T /\ i[V] # j[V]
  BY <1>3
<1>5. V # {}
  BY <1>4, SumStep
<1>6. Pick(V) \in V
  BY <1>5, PickIn
<1>7. i[V \ {Pick(V)}] = j[V \ {Pick(V)}]
  BY <1>3, <1>6
<1>8. i[V] = g[Pick(V)] + i[V \ {Pick(V)}] /\ j[V] = g[Pick(V)] + j[V \ {Pick(V)}]
  BY <1>4, <1>5, SumStep
<1>9. QED
  BY <1>4, <1>7, <1>8

(* The function a fold over a finite set defines exists.                   *)
LEMMA SumExists ==
  ASSUME NEW S, IsFiniteSet(S), NEW g
  PROVE  \E it : IsSum(it, g, S)
<1> SUFFICES ASSUME ~ \E it : IsSum(it, g, S) PROVE FALSE
  OBVIOUS
<1> DEFINE Q == {V \in SUBSET S : ~ \E it : IsSum(it, g, V)}
<1>1. Q # {}
  OBVIOUS
<1>2. \A V \in Q : IsFiniteSet(V)
  BY FS_Subset
<1>3. PICK U \in Q : \A W \in Q : W \subseteq U => W = U
  <2> HIDE DEF Q
  <2>1. QED
    BY <1>1, <1>2, MinimalSet
<1> DEFINE F(V) == CHOOSE it : IsSum(it, g, V)
           h == [s \in SUBSET U |-> IF s = U
                   THEN IF U = {} THEN 0 ELSE g[Pick(U)] + F(U \ {Pick(U)})[U \ {Pick(U)}]
                   ELSE F(s)[s]]
<1>4. ASSUME NEW V \in SUBSET U, V # U PROVE IsSum(F(V), g, V)
  BY <1>3, <1>4
<1>5. ASSUME NEW s \in SUBSET U
      PROVE  h[s] = IF s = {} THEN 0 ELSE g[Pick(s)] + h[s \ {Pick(s)}]
  <2>1. CASE s = {}
    <3>1. CASE U = {}
      BY <2>1, <3>1
    <3>2. CASE U # {}
      <4>1. IsSum(F(s), g, s)
        BY <1>4, <2>1, <3>2
      <4>2. F(s)[s] = 0
        <5> HIDE DEF F
        <5>1. QED  BY <2>1, <4>1, SumStep
      <4>3. QED
        BY <2>1, <3>2, <4>2
    <3>3. QED
      BY <3>1, <3>2
  <2>2. CASE s # {}
    <3> DEFINE t == s \ {Pick(s)}
    <3>1. Pick(s) \in s /\ t \in SUBSET U /\ t # U /\ t \subseteq s
      BY <2>2, PickIn
    <3>2. h[t] = F(t)[t]
      BY <3>1
    <3>3. CASE s = U
      BY <2>2, <3>2, <3>3
    <3>4. CASE s # U
      <4>1. IsSum(F(s), g, s) /\ IsSum(F(t), g, t)
        BY <1>4, <3>1, <3>4
      <4>2. IsFiniteSet(t)
        BY <3>1, FS_Subset
      <4>3. F(s)[s] = g[Pick(s)] + F(s)[t]
        <5> HIDE DEF F
        <5>1. QED  BY <2>2, <4>1, SumStep
      <4>4. F(s)[t] = F(t)[t]
        <5> HIDE DEF F
        <5>1. QED  BY <3>1, <4>1, <4>2, SumUnique
      <4>5. h[s] = F(s)[s]
        BY <3>4
      <4>6. QED
        BY <2>2, <3>2, <4>3, <4>4, <4>5
    <3>5. QED
      BY <3>3, <3>4
  <2>3. QED
    BY <2>1, <2>2
<1>6. IsSum(h, g, U)
  <2> HIDE DEF F
  <2>1. h = [s \in SUBSET U |-> h[s]]
    OBVIOUS
  <2>2. QED
    BY <1>5, <2>1 DEF IsSum
<1>7. QED
  BY <1>3, <1>6

(* A sum of natural numbers is a natural number.                           *)
LEMMA FoldNat ==
  ASSUME NEW S, IsFiniteSet(S), NEW g, \A x \in S : g[x] \in Nat,
         NEW it, IsSum(it, g, S), NEW U \in SUBSET S
  PROVE  it[U] \in Nat
<1>0. \A V \in SUBSET S : it[V] = IF V = {} THEN 0 ELSE g[Pick(V)] + it[V \ {Pick(V)}]
  BY SumStep
<1> SUFFICES ASSUME it[U] \notin Nat PROVE FALSE
  OBVIOUS
<1> DEFINE Q == {V \in SUBSET S : it[V] \notin Nat}
<1>1. Q # {}
  OBVIOUS
<1>2. \A V \in Q : IsFiniteSet(V)
  BY FS_Subset
<1>3. PICK V \in Q : \A W \in Q : W \subseteq V => W = V
  <2> HIDE DEF Q
  <2>1. QED
    BY <1>1, <1>2, MinimalSet
<1>4. V # {} /\ Pick(V) \in V
  BY <1>3, SumStep, PickIn
<1>5. it[V \ {Pick(V)}] \in Nat
  BY <1>3, <1>4
<1>6. it[V] = g[Pick(V)] + it[V \ {Pick(V)}]
  BY <1>0, <1>3, <1>4
<1>7. g[Pick(V)] \in Nat /\ it[V] \notin Nat
  BY <1>3, <1>4
<1>8. g[Pick(V)] + it[V \ {Pick(V)}] \in Nat
  BY <1>5, <1>7
<1>9. QED
  BY <1>6, <1>7, <1>8

(* The sum may be taken apart at any element.                              *)
LEMMA FoldRemove ==
  ASSUME NEW S, IsFiniteSet(S), NEW g, \A x \in S : g[x] \in Nat,
         NEW it, IsSum(it, g, S), NEW U \in SUBSET S, NEW x \in U
  PROVE  it[U] = g[x] + it[U \ {x}]
<1> SUFFICES ASSUME it[U] # g[x] + it[U \ {x}] PROVE FALSE
  OBVIOUS
<1> DEFINE Q == {V \in SUBSET S : \E y \in V : it[V] # g[y] + it[V \ {y}]}
<1>1. Q # {}
  OBVIOUS
<1>2. \A V \in Q : IsFiniteSet(V)
  BY FS_Subset
<1>3. PICK V \in Q : \A W \in Q : W \subseteq V => W = V
  <2> HIDE DEF Q
  <2>1. QED
    BY <1>1, <1>2, MinimalSet
<1>4. PICK y \in V : it[V] # g[y] + it[V \ {y}]
  BY <1>3
<1> DEFINE z == Pick(V)
<1>5. z \in V /\ it[V] = g[z] + it[V \ {z}]
  <2>1. V \in SUBSET S /\ V # {}
    BY <1>3, <1>4
  <2> HIDE DEF Q
  <2>2. it[V] = IF V = {} THEN 0 ELSE g[Pick(V)] + it[V \ {Pick(V)}]
    BY <2>1, SumStep
  <2>3. Pick(V) \in V
    BY <2>1, PickIn
  <2>4. QED
    BY <2>1, <2>2, <2>3
<1> HIDE DEF z
<1>6. y # z
  BY <1>4, <1>5
<1>7. it[V \ {z}] = g[y] + it[V \ {y, z}]
  <2>1. V \ {z} \in SUBSET S /\ V \ {z} # V /\ y \in V \ {z}
    BY <1>3, <1>4, <1>5, <1>6
  <2>2. (V \ {z}) \ {y} = V \ {y, z}
    OBVIOUS
  <2>3. QED
    BY <1>3, <2>1, <2>2
<1>8. it[V \ {y}] = g[z] + it[V \ {y, z}]
  <2>1. V \ {y} \in SUBSET S /\ V \ {y} # V /\ z \in V \ {y}
    BY <1>3, <1>4, <1>5, <1>6
  <2>2. (V \ {y}) \ {z} = V \ {y, z}
    OBVIOUS
  <2>3. QED
    BY <1>3, <2>1, <2>2
<1>9. it[V \ {y, z}] \in Nat /\ g[y] \in Nat /\ g[z] \in Nat
  <2>1. V \ {y, z} \in SUBSET S /\ y \in S /\ z \in S
    BY <1>3, <1>4, <1>5
  <2>2. QED
    BY <2>1, FoldNat
<1>10. QED
  BY <1>4, <1>5, <1>7, <1>8, <1>9

-----------------------------------------------------------------------------
(* SumOf is the fold of such a function.                                   *)
LEMMA SumOfFold ==
  ASSUME NEW S, IsFiniteSet(S), NEW g
  PROVE  \E it : IsSum(it, g, S) /\ SumOf(g, S) = it[S]
<1> DEFINE it == CHOOSE i : IsSum(i, g, S)
<1>1. SumOf(g, S) = it[S]
  BY DEF SumOf, MapThenSumSet, MapThenFoldSet, IsSum, Pick
<1>2. IsSum(it, g, S)
  BY SumExists
<1>3. QED
  BY <1>1, <1>2

LEMMA SumEmpty ==
  ASSUME NEW g
  PROVE  SumOf(g, {}) = 0
BY SumOfFold, SumStep, FS_EmptySet

LEMMA SumNat ==
  ASSUME NEW S, IsFiniteSet(S), NEW g, \A x \in S : g[x] \in Nat
  PROVE  SumOf(g, S) \in Nat
BY SumOfFold, FoldNat

(* An element contributes its own term.                                    *)
LEMMA SumRemove ==
  ASSUME NEW S, IsFiniteSet(S), NEW g, \A x \in S : g[x] \in Nat, NEW x \in S
  PROVE  SumOf(g, S) = g[x] + SumOf(g, S \ {x})
<1>1. PICK i : IsSum(i, g, S) /\ SumOf(g, S) = i[S]
  BY SumOfFold
<1>2. IsFiniteSet(S \ {x}) /\ S \ {x} \in SUBSET S
  BY FS_Subset
<1>3. PICK j : IsSum(j, g, S \ {x}) /\ SumOf(g, S \ {x}) = j[S \ {x}]
  BY <1>2, SumOfFold
<1>4. i[S \ {x}] = j[S \ {x}]
  BY <1>1, <1>2, <1>3, SumUnique
<1>5. QED
  BY <1>1, <1>3, <1>4, FoldRemove

(* An element more contributes its own term.                               *)
LEMMA SumAdd ==
  ASSUME NEW S, IsFiniteSet(S), NEW x, x \notin S, NEW g, \A y \in S \cup {x} : g[y] \in Nat
  PROVE  SumOf(g, S \cup {x}) = g[x] + SumOf(g, S)
<1>1. IsFiniteSet(S \cup {x})
  BY FS_AddElement
<1>2. (S \cup {x}) \ {x} = S
  OBVIOUS
<1>3. x \in S \cup {x}
  OBVIOUS
<1>4. SumOf(g, S \cup {x}) = g[x] + SumOf(g, (S \cup {x}) \ {x})
  BY <1>1, <1>3, SumRemove
<1>5. QED
  BY <1>2, <1>4

(* Only the terms of the set matter.                                       *)
LEMMA SumSame ==
  ASSUME NEW S, IsFiniteSet(S), NEW g, NEW h,
         \A x \in S : g[x] \in Nat /\ h[x] = g[x]
  PROVE  SumOf(h, S) = SumOf(g, S)
<1> SUFFICES ASSUME SumOf(h, S) # SumOf(g, S) PROVE FALSE
  OBVIOUS
<1> DEFINE Q == {V \in SUBSET S : SumOf(h, V) # SumOf(g, V)}
<1>1. Q # {}
  OBVIOUS
<1>2. \A V \in Q : IsFiniteSet(V)
  BY FS_Subset
<1>3. PICK V \in Q : \A W \in Q : W \subseteq V => W = V
  <2> HIDE DEF Q
  <2>1. QED
    BY <1>1, <1>2, MinimalSet
<1>4. V \in SUBSET S /\ IsFiniteSet(V) /\ SumOf(h, V) # SumOf(g, V)
  BY <1>2, <1>3
<1>5. V # {}
  BY <1>4, SumEmpty
<1>6. PICK x : x \in V
  BY <1>5
<1>7. SumOf(h, V \ {x}) = SumOf(g, V \ {x})
  BY <1>3, <1>6
<1>8. \A y \in V : g[y] \in Nat /\ h[y] = g[y] /\ h[y] \in Nat
  BY <1>4
<1>9. SumOf(h, V) = h[x] + SumOf(h, V \ {x}) /\ SumOf(g, V) = g[x] + SumOf(g, V \ {x})
  <2> HIDE DEF Q
  <2>1. QED
    BY <1>4, <1>6, <1>8, SumRemove
<1>10. QED
  BY <1>4, <1>6, <1>7, <1>8, <1>9

(* The sum over two sets without a common element.                         *)
LEMMA SumUnion ==
  ASSUME NEW S, IsFiniteSet(S), NEW T, IsFiniteSet(T), S \cap T = {},
         NEW g, \A x \in S \cup T : g[x] \in Nat
  PROVE  SumOf(g, S \cup T) = SumOf(g, S) + SumOf(g, T)
<1> SUFFICES ASSUME SumOf(g, S \cup T) # SumOf(g, S) + SumOf(g, T) PROVE FALSE
  OBVIOUS
<1> DEFINE Q == {V \in SUBSET T : SumOf(g, S \cup V) # SumOf(g, S) + SumOf(g, V)}
<1>1. Q # {}
  OBVIOUS
<1>2. \A V \in Q : IsFiniteSet(V)
  BY FS_Subset
<1>3. PICK V \in Q : \A W \in Q : W \subseteq V => W = V
  <2> HIDE DEF Q
  <2>1. QED
    BY <1>1, <1>2, MinimalSet
<1>4. V \in SUBSET T /\ IsFiniteSet(V) /\ SumOf(g, S \cup V) # SumOf(g, S) + SumOf(g, V)
  BY <1>2, <1>3
<1>5. SumOf(g, S) \in Nat
  BY SumNat
<1>6. V # {}
  <2>1. S \cup {} = S
    OBVIOUS
  <2>2. QED
    BY <1>4, <1>5, <2>1, SumEmpty
<1>7. PICK x : x \in V
  BY <1>6
<1>8. SumOf(g, S \cup (V \ {x})) = SumOf(g, S) + SumOf(g, V \ {x})
  BY <1>3, <1>7
<1> HIDE DEF Q
<1>9. x \notin S /\ S \cup V = (S \cup (V \ {x})) \cup {x} /\ x \notin S \cup (V \ {x})
  BY <1>4, <1>7
<1>10. IsFiniteSet(V \ {x}) /\ IsFiniteSet(S \cup (V \ {x}))
  BY <1>4, FS_Subset, FS_Union
<1>11. SumOf(g, S \cup V) = g[x] + SumOf(g, S \cup (V \ {x}))
  <2>1. \A y \in (S \cup (V \ {x})) \cup {x} : g[y] \in Nat
    BY <1>4, <1>7
  <2>2. QED
    BY <1>9, <1>10, <2>1, SumAdd
<1>12. SumOf(g, V) = g[x] + SumOf(g, V \ {x})
  BY <1>4, <1>7, SumRemove
<1>13. g[x] \in Nat /\ SumOf(g, V \ {x}) \in Nat
  BY <1>4, <1>7, <1>10, SumNat
<1>14. QED
  BY <1>4, <1>5, <1>8, <1>11, <1>12, <1>13

(* A subset has no larger sum.                                             *)
LEMMA SumSubset ==
  ASSUME NEW S, IsFiniteSet(S), NEW T \in SUBSET S, NEW g, \A x \in S : g[x] \in Nat
  PROVE  SumOf(g, T) + SumOf(g, S \ T) = SumOf(g, S) /\ SumOf(g, T) <= SumOf(g, S)
<1>1. IsFiniteSet(T) /\ IsFiniteSet(S \ T) /\ T \cap (S \ T) = {} /\ T \cup (S \ T) = S
  BY FS_Subset
<1>2. SumOf(g, T \cup (S \ T)) = SumOf(g, T) + SumOf(g, S \ T)
  BY <1>1, SumUnion
<1>3. SumOf(g, T) \in Nat /\ SumOf(g, S \ T) \in Nat
  BY <1>1, SumNat
<1>4. SumOf(g, S) = SumOf(g, T) + SumOf(g, S \ T)
  BY <1>1, <1>2
<1>5. \A m, n \in Nat : m <= m + n
  OBVIOUS
<1>6. QED
  BY <1>3, <1>4, <1>5

(* Terms that are bounded bound the sum.                                   *)
LEMMA SumBound ==
  ASSUME NEW S, IsFiniteSet(S), NEW k \in Nat, NEW g, \A x \in S : g[x] \in Nat /\ g[x] <= k
  PROVE  SumOf(g, S) <= Cardinality(S) * k
<1> SUFFICES ASSUME ~ (SumOf(g, S) <= Cardinality(S) * k) PROVE FALSE
  OBVIOUS
<1> DEFINE Q == {V \in SUBSET S : ~ (SumOf(g, V) <= Cardinality(V) * k)}
<1>1. Q # {}
  OBVIOUS
<1>2. \A V \in Q : IsFiniteSet(V)
  BY FS_Subset
<1>3. PICK V \in Q : \A W \in Q : W \subseteq V => W = V
  <2> HIDE DEF Q
  <2>1. QED
    BY <1>1, <1>2, MinimalSet
<1>4. V \in SUBSET S /\ IsFiniteSet(V) /\ ~ (SumOf(g, V) <= Cardinality(V) * k)
  BY <1>2, <1>3
<1>5. V # {}
  <2>1. SumOf(g, {}) = 0 /\ Cardinality({}) = 0
    BY SumEmpty, FS_EmptySet
  <2>2. QED
    BY <1>4, <2>1
<1>6. PICK x : x \in V
  BY <1>5
<1>7. SumOf(g, V \ {x}) <= Cardinality(V \ {x}) * k
  BY <1>3, <1>6
<1> HIDE DEF Q
<1>8. SumOf(g, V) = g[x] + SumOf(g, V \ {x})
  BY <1>4, <1>6, SumRemove
<1>9. Cardinality(V) \in Nat /\ Cardinality(V \ {x}) = Cardinality(V) - 1 /\ IsFiniteSet(V \ {x})
  BY <1>4, <1>6, FS_RemoveElement, FS_CardinalityType
<1>10. g[x] \in Nat /\ g[x] <= k /\ SumOf(g, V \ {x}) \in Nat
  BY <1>4, <1>6, <1>9, SumNat
<1>11. (Cardinality(V) - 1) * k + k = Cardinality(V) * k
  <2>1. \A n \in Nat : (n - 1) * k + k = n * k
    OBVIOUS
  <2>2. QED
    BY <1>9, <2>1
<1>12. Cardinality(V) * k \in Nat /\ (Cardinality(V) - 1) * k \in Int
  BY <1>9
<1>13. QED
  BY <1>4, <1>7, <1>8, <1>9, <1>10, <1>11, <1>12

ImageOf(f, D) == {f[i] : i \in D}

(* The terms may be counted at the places that an injection sends them to. *)
LEMMA SumImage ==
  ASSUME NEW D, IsFiniteSet(D), NEW f, \A i, j \in D : f[i] = f[j] => i = j,
         NEW g, \A i \in D : g[f[i]] \in Nat,
         NEW h, \A i \in D : h[i] = g[f[i]]
  PROVE  SumOf(h, D) = SumOf(g, ImageOf(f, D))
<1> DEFINE Im(V) == {f[i] : i \in V}
<1>0. ImageOf(f, D) = Im(D)
  BY DEF ImageOf
<1> SUFFICES ASSUME SumOf(h, D) # SumOf(g, Im(D)) PROVE FALSE
  BY <1>0
<1> DEFINE Q == {V \in SUBSET D : SumOf(h, V) # SumOf(g, Im(V))}
<1>1. Q # {}
  OBVIOUS
<1>2. \A V \in Q : IsFiniteSet(V)
  BY FS_Subset
<1>3. PICK V \in Q : \A W \in Q : W \subseteq V => W = V
  <2> HIDE DEF Q
  <2>1. QED
    BY <1>1, <1>2, MinimalSet
<1>4. V \in SUBSET D /\ IsFiniteSet(V) /\ SumOf(h, V) # SumOf(g, Im(V))
  BY <1>2, <1>3
<1>5. V # {}
  <2>1. Im({}) = {}
    OBVIOUS
  <2> HIDE DEF Im
  <2>2. QED
    BY <1>4, <2>1, SumEmpty
<1>6. PICK x : x \in V
  BY <1>5
<1>7. SumOf(h, V \ {x}) = SumOf(g, Im(V \ {x}))
  BY <1>3, <1>6
<1> HIDE DEF Q
<1>8. IsFiniteSet(Im(V))
  <2>1. [i \in V |-> f[i]] \in Surjection(V, Im(V))
    BY DEF Surjection
  <2> HIDE DEF Im
  <2>2. QED
    BY <1>4, <2>1, FS_Surjection
<1>9. f[x] \in Im(V) /\ Im(V) \ {f[x]} = Im(V \ {x})
  BY <1>4, <1>6
<1>10. \A y \in Im(V) : g[y] \in Nat
  BY <1>4
<1>11. SumOf(g, Im(V)) = g[f[x]] + SumOf(g, Im(V) \ {f[x]})
  <2> HIDE DEF Im
  <2>1. QED
    BY <1>8, <1>9, <1>10, SumRemove
<1>12. SumOf(h, V) = h[x] + SumOf(h, V \ {x})
  BY <1>4, <1>6, SumRemove
<1>13. h[x] = g[f[x]]
  BY <1>4, <1>6
<1>14. QED
  BY <1>4, <1>7, <1>9, <1>11, <1>12, <1>13

(* Terms that are all zero add up to nothing.                              *)
LEMMA SumZero ==
  ASSUME NEW S, IsFiniteSet(S), NEW g, \A x \in S : g[x] = 0
  PROVE  SumOf(g, S) = 0
<1>1. SumOf(g, S) \in Nat
  BY SumNat
<1>2. SumOf(g, S) <= Cardinality(S) * 0
  BY SumBound
<1>3. Cardinality(S) \in Nat
  BY FS_CardinalityType
<1>4. \A n \in Nat : n * 0 = 0
  OBVIOUS
<1>5. QED
  BY <1>1, <1>2, <1>3, <1>4

(* A term that grows by d makes the sums it is in grow by d.               *)
LEMMA SumBump ==
  ASSUME NEW S, IsFiniteSet(S), NEW k, NEW d \in Nat, NEW g, NEW h,
         \A x \in S : g[x] \in Nat,
         \A x \in S \ {k} : h[x] = g[x],
         k \in S => h[k] = g[k] + d
  PROVE  /\ k \in S => SumOf(h, S) = SumOf(g, S) + d
         /\ k \notin S => SumOf(h, S) = SumOf(g, S)
<1>1. CASE k \notin S
  <2>1. \A x \in S : g[x] \in Nat /\ h[x] = g[x]
    BY <1>1
  <2>2. SumOf(h, S) = SumOf(g, S)
    BY <2>1, SumSame
  <2>3. QED
    BY <1>1, <2>2
<1>2. CASE k \in S
  <2>1. IsFiniteSet(S \ {k})
    BY FS_Subset
  <2>2. SumOf(h, S \ {k}) = SumOf(g, S \ {k})
    BY <2>1, SumSame
  <2>3. SumOf(g, S) = g[k] + SumOf(g, S \ {k})
    BY <1>2, SumRemove
  <2>4. \A x \in S : h[x] \in Nat
    BY <1>2
  <2>5. SumOf(h, S) = h[k] + SumOf(h, S \ {k})
    BY <1>2, <2>4, SumRemove
  <2>6. SumOf(g, S \ {k}) \in Nat
    BY <2>1, SumNat
  <2>7. h[k] = g[k] + d /\ g[k] \in Nat
    BY <1>2
  <2>8. QED
    BY <1>2, <2>2, <2>3, <2>5, <2>6, <2>7
<1>3. QED
  BY <1>1, <1>2

(* Sums add up term by term.                                               *)
LEMMA SumPlus ==
  ASSUME NEW S, IsFiniteSet(S), NEW g, NEW d, NEW h,
         \A x \in S : g[x] \in Nat /\ d[x] \in Nat /\ h[x] = g[x] + d[x]
  PROVE  SumOf(h, S) = SumOf(g, S) + SumOf(d, S)
<1> SUFFICES ASSUME SumOf(h, S) # SumOf(g, S) + SumOf(d, S) PROVE FALSE
  OBVIOUS
<1> DEFINE Q == {V \in SUBSET S : SumOf(h, V) # SumOf(g, V) + SumOf(d, V)}
<1>1. Q # {}
  OBVIOUS
<1>2. \A V \in Q : IsFiniteSet(V)
  BY FS_Subset
<1>3. PICK V \in Q : \A W \in Q : W \subseteq V => W = V
  <2> HIDE DEF Q
  <2>1. QED
    BY <1>1, <1>2, MinimalSet
<1>4. V \in SUBSET S /\ IsFiniteSet(V) /\ SumOf(h, V) # SumOf(g, V) + SumOf(d, V)
  BY <1>2, <1>3
<1>5. V # {}
  <2>1. SumOf(h, {}) = 0 /\ SumOf(g, {}) = 0 /\ SumOf(d, {}) = 0
    BY SumEmpty
  <2>2. SumOf(h, {}) = SumOf(g, {}) + SumOf(d, {})
    BY <2>1
  <2> HIDE DEF Q
  <2>3. QED
    BY <1>4, <2>2
<1>6. PICK x : x \in V
  BY <1>5
<1>7. SumOf(h, V \ {x}) = SumOf(g, V \ {x}) + SumOf(d, V \ {x})
  BY <1>3, <1>6
<1> HIDE DEF Q
<1>8. \A y \in V : g[y] \in Nat /\ d[y] \in Nat /\ h[y] = g[y] + d[y] /\ h[y] \in Nat
  BY <1>4
<1>9. /\ SumOf(h, V) = h[x] + SumOf(h, V \ {x})
      /\ SumOf(g, V) = g[x] + SumOf(g, V \ {x})
      /\ SumOf(d, V) = d[x] + SumOf(d, V \ {x})
  BY <1>4, <1>6, <1>8, SumRemove
<1>10. IsFiniteSet(V \ {x})
  BY <1>4, FS_Subset
<1>11. SumOf(g, V \ {x}) \in Nat /\ SumOf(d, V \ {x}) \in Nat
  BY <1>8, <1>10, SumNat
<1>12. g[x] \in Nat /\ d[x] \in Nat /\ h[x] = g[x] + d[x]
  BY <1>6, <1>8
<1>13. QED
  BY <1>4, <1>7, <1>9, <1>11, <1>12

(* The terms of a subset grow by those of d.                               *)
LEMMA SumPlusOn ==
  ASSUME NEW S, IsFiniteSet(S), NEW T \in SUBSET S, NEW g, NEW d, NEW h,
         \A x \in S : g[x] \in Nat /\ h[x] \in Nat,
         \A x \in T : d[x] \in Nat /\ h[x] = g[x] + d[x],
         \A x \in S \ T : h[x] = g[x]
  PROVE  SumOf(h, S) = SumOf(g, S) + SumOf(d, T)
<1>1. IsFiniteSet(T) /\ IsFiniteSet(S \ T)
  BY FS_Subset
<1>2. SumOf(h, T) = SumOf(g, T) + SumOf(d, T)
  BY <1>1, SumPlus
<1>3. SumOf(h, S \ T) = SumOf(g, S \ T)
  BY <1>1, SumSame
<1>4. /\ SumOf(g, T) + SumOf(g, S \ T) = SumOf(g, S)
      /\ SumOf(h, T) + SumOf(h, S \ T) = SumOf(h, S)
  BY SumSubset
<1>5. /\ SumOf(g, T) \in Nat /\ SumOf(g, S \ T) \in Nat /\ SumOf(d, T) \in Nat
  BY <1>1, SumNat
<1>6. \A i, j, k \in Nat : (i + k) + j = (i + j) + k
  OBVIOUS
<1>7. SumOf(h, S) = (SumOf(g, T) + SumOf(d, T)) + SumOf(g, S \ T)
  BY <1>2, <1>3, <1>4
<1>8. QED
  BY <1>4, <1>5, <1>6, <1>7

-----------------------------------------------------------------------------
(* Sequences without repetition and the sets of their elements             *)

(* Every element of a sequence has its place, and there is one for each.   *)
LEMMA PlaceOf ==
  ASSUME NEW S, NEW q \in Seq(S)
  PROVE  /\ Len(q) \in Nat /\ DOMAIN q = 1 .. Len(q)
         /\ \A x : x \in ToSet(q) <=> \E i \in 1 .. Len(q) : q[i] = x
         /\ \A i \in 1 .. Len(q) : q[i] \in S
         /\ ToSet(q) \subseteq S
         /\ ToSet(<<>>) = {} /\ (ToSet(q) = {} <=> q = <<>>)
         /\ IsInjective(<<>>)
         /\ IsInjective(q) <=> \A i, j \in 1 .. Len(q) : q[i] = q[j] => i = j
<1>1. Len(q) \in Nat /\ DOMAIN q = 1 .. Len(q) /\ \A i \in 1 .. Len(q) : q[i] \in S
  BY LenProperties, ElementOfSeq
<1>2. ToSet(<<>>) = {} /\ IsInjective(<<>>)
  BY DEF ToSet, IsInjective
<1>3. ASSUME ToSet(q) = {} PROVE q = <<>>
  <2>1. ASSUME Len(q) # 0 PROVE FALSE
    <3>1. 1 \in DOMAIN q
      BY <1>1, <2>1
    <3>2. q[1] \in ToSet(q)
      BY <3>1 DEF ToSet
    <3>3. QED
      BY <1>3, <3>2
  <2>2. QED
    BY <2>1
<1>4. QED
  BY <1>1, <1>2, <1>3 DEF ToSet, IsInjective

LEMMA AppendSet ==
  ASSUME NEW S, NEW q \in Seq(S), NEW c \in S
  PROVE  /\ Append(q, c) \in Seq(S) /\ Append(q, c) # <<>>
         /\ Len(Append(q, c)) = Len(q) + 1
         /\ ToSet(Append(q, c)) = ToSet(q) \cup {c}
         /\ IsInjective(q) /\ c \notin ToSet(q) => IsInjective(Append(q, c))
<1> DEFINE a == Append(q, c)
<1>1. /\ a \in Seq(S) /\ a # <<>> /\ Len(a) = Len(q) + 1 /\ a[Len(q) + 1] = c
      /\ \A i \in 1 .. Len(q) : a[i] = q[i]
  BY AppendProperties
<1>2. Len(q) \in Nat /\ \A i : i \in 1 .. Len(q) + 1 <=> i \in 1 .. Len(q) \/ i = Len(q) + 1
  BY PlaceOf
<1> HIDE DEF a
<1>3. ToSet(a) = ToSet(q) \cup {c}
  <2>1. \A x : x \in ToSet(a) <=> \E i \in 1 .. Len(q) + 1 : a[i] = x
    BY <1>1, PlaceOf
  <2>2. \A x : x \in ToSet(q) <=> \E i \in 1 .. Len(q) : q[i] = x
    BY PlaceOf
  <2>3. Len(q) + 1 \in 1 .. Len(q) + 1
    BY <1>2
  <2>4. QED
    BY <1>1, <1>2, <2>1, <2>2, <2>3
<1>4. ASSUME IsInjective(q), c \notin ToSet(q) PROVE IsInjective(a)
  <2>1. SUFFICES ASSUME NEW i \in 1 .. Len(q) + 1, NEW j \in 1 .. Len(q) + 1, a[i] = a[j] PROVE i = j
    BY <1>1, PlaceOf
  <2>2. QED
    BY <1>1, <1>2, <1>4, <2>1, PlaceOf
<1>5. QED
  BY <1>1, <1>3, <1>4 DEF a

LEMMA TailSet ==
  ASSUME NEW S, NEW q \in Seq(S), q # <<>>
  PROVE  /\ Head(q) \in ToSet(q) /\ Tail(q) \in Seq(S)
         /\ IsInjective(q) => IsInjective(Tail(q)) /\ ToSet(Tail(q)) = ToSet(q) \ {Head(q)}
<1>1. /\ Len(q) \in Nat /\ Len(q) > 0 /\ DOMAIN q = 1 .. Len(q) /\ Head(q) = q[1]
      /\ Tail(q) \in Seq(S) /\ DOMAIN Tail(q) = 1 .. Len(q) - 1
      /\ \A i \in 1 .. Len(q) - 1 : Tail(q)[i] = q[i + 1]
  BY HeadTailProperties, LenProperties
<1>2. ASSUME IsInjective(q) PROVE IsInjective(Tail(q))
  BY <1>1, <1>2 DEF IsInjective
<1>3. ASSUME IsInjective(q), NEW x \in ToSet(q) \ {Head(q)} PROVE x \in ToSet(Tail(q))
  <2>1. PICK i \in 1 .. Len(q) : x = q[i] /\ i # 1
    BY <1>1, <1>3 DEF ToSet
  <2>2. i - 1 \in 1 .. Len(q) - 1 /\ q[(i - 1) + 1] = x
    BY <1>1, <2>1
  <2>3. QED
    BY <1>1, <2>2 DEF ToSet
<1>4. ASSUME IsInjective(q), NEW x \in ToSet(Tail(q)) PROVE x \in ToSet(q) \ {Head(q)}
  <2>1. PICK i \in 1 .. Len(q) - 1 : x = Tail(q)[i]
    BY <1>1 DEF ToSet
  <2>2. x = q[i + 1] /\ i + 1 \in 1 .. Len(q) /\ i + 1 # 1 /\ 1 \in 1 .. Len(q)
    BY <1>1, <2>1
  <2>3. QED
    BY <1>1, <1>4, <2>2 DEF ToSet, IsInjective
<1>5. Head(q) \in ToSet(q)
  BY <1>1 DEF ToSet
<1>6. QED
  BY <1>1, <1>2, <1>3, <1>4, <1>5

LEMMA ConcatSet ==
  ASSUME NEW S, NEW p \in Seq(S), NEW q \in Seq(S)
  PROVE  /\ p \o q \in Seq(S) /\ (p \o q = <<>> <=> p = <<>> /\ q = <<>>)
         /\ Len(p \o q) = Len(p) + Len(q)
         /\ ToSet(p \o q) = ToSet(p) \cup ToSet(q)
         /\ IsInjective(p) /\ IsInjective(q) /\ ToSet(p) \cap ToSet(q) = {} => IsInjective(p \o q)
<1> DEFINE a == p \o q
<1>1. /\ a \in Seq(S) /\ Len(a) = Len(p) + Len(q) /\ Len(p) \in Nat /\ Len(q) \in Nat
      /\ \A i \in 1 .. Len(a) : a[i] = IF i <= Len(p) THEN p[i] ELSE q[i - Len(p)]
  BY ConcatProperties, PlaceOf
<1>2. a = <<>> <=> p = <<>> /\ q = <<>>
  BY ConcatEmptySeq, <1>1
<1> HIDE DEF a
<1>3. /\ \A x : x \in ToSet(a) <=> \E i \in 1 .. Len(a) : a[i] = x
      /\ IsInjective(a) <=> \A i, j \in 1 .. Len(a) : a[i] = a[j] => i = j
  BY <1>1, PlaceOf
<1>4. /\ \A x : x \in ToSet(p) <=> \E i \in 1 .. Len(p) : p[i] = x
      /\ IsInjective(p) <=> \A i, j \in 1 .. Len(p) : p[i] = p[j] => i = j
  BY PlaceOf
<1>5. /\ \A x : x \in ToSet(q) <=> \E i \in 1 .. Len(q) : q[i] = x
      /\ IsInjective(q) <=> \A i, j \in 1 .. Len(q) : q[i] = q[j] => i = j
  BY PlaceOf
<1>6. ASSUME NEW i \in 1 .. Len(a)
      PROVE  \/ i \in 1 .. Len(p) /\ a[i] = p[i]
             \/ i - Len(p) \in 1 .. Len(q) /\ a[i] = q[i - Len(p)]
  BY <1>1
<1>7. ASSUME NEW x \in ToSet(a) PROVE x \in ToSet(p) \cup ToSet(q)
  <2>1. PICK i \in 1 .. Len(a) : a[i] = x
    BY <1>3
  <2>2. CASE i \in 1 .. Len(p) /\ a[i] = p[i]
    BY <1>4, <2>1, <2>2
  <2>3. CASE i - Len(p) \in 1 .. Len(q) /\ a[i] = q[i - Len(p)]
    BY <1>5, <2>1, <2>3
  <2>4. QED
    BY <1>6, <2>2, <2>3
<1>8. ASSUME NEW x \in ToSet(p) PROVE x \in ToSet(a)
  <2>1. PICK i \in 1 .. Len(p) : p[i] = x
    BY <1>4
  <2>2. i \in 1 .. Len(a) /\ a[i] = x
    BY <1>1, <2>1
  <2>3. QED
    BY <1>3, <2>2
<1>9. ASSUME NEW x \in ToSet(q) PROVE x \in ToSet(a)
  <2>1. PICK i \in 1 .. Len(q) : q[i] = x
    BY <1>5
  <2>2. Len(p) + i \in 1 .. Len(a) /\ a[Len(p) + i] = x
    BY <1>1, <2>1
  <2>3. QED
    BY <1>3, <2>2
<1>10. ASSUME IsInjective(p), IsInjective(q), ToSet(p) \cap ToSet(q) = {} PROVE IsInjective(a)
  <2>1. SUFFICES ASSUME NEW i \in 1 .. Len(a), NEW j \in 1 .. Len(a), a[i] = a[j] PROVE i = j
    BY <1>3
  <2> DEFINE k == i - Len(p)
             m == j - Len(p)
  <2>2. CASE i \in 1 .. Len(p) /\ a[i] = p[i] /\ j \in 1 .. Len(p) /\ a[j] = p[j]
    <3>1. p[i] = p[j]
      BY <2>1, <2>2
    <3>2. QED
      BY <1>10, <1>4, <2>2, <3>1
  <2>3. CASE k \in 1 .. Len(q) /\ a[i] = q[k] /\ m \in 1 .. Len(q) /\ a[j] = q[m]
    <3>1. q[k] = q[m]
      BY <2>1, <2>3
    <3>2. k = m
      <4> HIDE DEF k, m
      <4>1. QED
        BY <1>10, <1>5, <2>3, <3>1
    <3>3. QED
      BY <1>1, <3>2
  <2>4. CASE i \in 1 .. Len(p) /\ a[i] = p[i] /\ m \in 1 .. Len(q) /\ a[j] = q[m]
    <3>1. p[i] \in ToSet(p) /\ q[m] \in ToSet(q) /\ p[i] = q[m]
      <4> HIDE DEF m
      <4>1. QED
        BY <1>4, <1>5, <2>1, <2>4
    <3>2. QED
      BY <1>10, <3>1
  <2>5. CASE j \in 1 .. Len(p) /\ a[j] = p[j] /\ k \in 1 .. Len(q) /\ a[i] = q[k]
    <3>1. p[j] \in ToSet(p) /\ q[k] \in ToSet(q) /\ p[j] = q[k]
      <4> HIDE DEF k
      <4>1. QED
        BY <1>4, <1>5, <2>1, <2>5
    <3>2. QED
      BY <1>10, <3>1
  <2>6. QED
    BY <1>6, <2>2, <2>3, <2>4, <2>5
<1>11. QED
  BY <1>1, <1>2, <1>7, <1>8, <1>9, <1>10 DEF a

\* A sequence is cut in two.
LEMMA CutSet ==
  ASSUME NEW S, NEW q \in Seq(S), IsInjective(q), NEW n \in 0 .. Len(q)
  PROVE  LET a == SubSeq(q, 1, n)  b == SubSeq(q, n + 1, Len(q))
         IN  /\ a \in Seq(S) /\ Len(a) = n /\ b \in Seq(S) /\ Len(b) = Len(q) - n
             /\ IsInjective(a) /\ IsInjective(b)
             /\ ToSet(a) \cup ToSet(b) = ToSet(q) /\ ToSet(a) \cap ToSet(b) = {}
             /\ \A x : x \in ToSet(a) <=> \E i \in 1 .. n : q[i] = x
             /\ \A x : x \in ToSet(b) <=> \E i \in n + 1 .. Len(q) : q[i] = x
<1> DEFINE a == SubSeq(q, 1, n)
           b == SubSeq(q, n + 1, Len(q))
<1>1. /\ Len(q) \in Nat /\ n \in Nat
      /\ a \in Seq(S) /\ Len(a) = n /\ \A i \in 1 .. n : a[i] = q[i]
  <2>1. \A i \in 1 .. n : q[i] \in S
    BY PlaceOf
  <2>2. Len(q) \in Nat /\ n \in Int /\ 1 \in Int
    BY PlaceOf
  <2>3. /\ a \in Seq(S) /\ Len(a) = IF 1 <= n THEN n - 1 + 1 ELSE 0
        /\ \A i \in 1 .. n - 1 + 1 : a[i] = q[1 + i - 1]
    BY <2>1, <2>2, SubSeqProperties
  <2>4. QED
    BY <2>2, <2>3
<1>2. /\ b \in Seq(S) /\ Len(b) = Len(q) - n
      /\ \A i \in 1 .. Len(q) - n : b[i] = q[n + i]
  <2>1. Len(q) \in Int /\ n + 1 \in Int /\ \A i \in n + 1 .. Len(q) : q[i] \in S
    BY <1>1, PlaceOf
  <2>2. /\ b \in Seq(S) /\ Len(b) = IF n + 1 <= Len(q) THEN Len(q) - (n + 1) + 1 ELSE 0
        /\ \A i \in 1 .. Len(q) - (n + 1) + 1 : b[i] = q[(n + 1) + i - 1]
    BY <2>1, SubSeqProperties
  <2>3. QED
    BY <1>1, <2>2
<1> HIDE DEF a, b
<1>3. /\ \A x : x \in ToSet(a) <=> \E i \in 1 .. n : a[i] = x
      /\ IsInjective(a) <=> \A i, j \in 1 .. n : a[i] = a[j] => i = j
  BY <1>1, PlaceOf
<1>4. /\ \A x : x \in ToSet(b) <=> \E i \in 1 .. Len(b) : b[i] = x
      /\ IsInjective(b) <=> \A i, j \in 1 .. Len(b) : b[i] = b[j] => i = j
  BY <1>2, PlaceOf
<1>5. /\ \A x : x \in ToSet(q) <=> \E i \in 1 .. Len(q) : q[i] = x
      /\ \A i, j \in 1 .. Len(q) : q[i] = q[j] => i = j
  BY PlaceOf
<1>6. IsInjective(a) /\ IsInjective(b)
  <2>1. ASSUME NEW i \in 1 .. n, NEW j \in 1 .. n, a[i] = a[j] PROVE i = j
    BY <1>1, <1>5, <2>1
  <2>2. ASSUME NEW i \in 1 .. Len(q) - n, NEW j \in 1 .. Len(q) - n, b[i] = b[j] PROVE i = j
    <3>1. n + i \in 1 .. Len(q) /\ n + j \in 1 .. Len(q) /\ q[n + i] = q[n + j]
      BY <1>1, <1>2, <2>2
    <3>2. n + i = n + j
      BY <1>5, <3>1
    <3>3. QED
      BY <1>1, <3>2
  <2>3. QED
    BY <1>2, <1>3, <1>4, <2>1, <2>2
<1>7. \A x : x \in ToSet(a) <=> \E i \in 1 .. n : q[i] = x
  BY <1>1, <1>3
<1>8. ASSUME NEW x \in ToSet(b) PROVE \E i \in n + 1 .. Len(q) : q[i] = x
  <2>1. PICK i \in 1 .. Len(q) - n : b[i] = x
    BY <1>2, <1>4
  <2>2. n + i \in n + 1 .. Len(q) /\ q[n + i] = x
    BY <1>1, <1>2, <2>1
  <2>3. QED
    BY <2>2
<1>9. ASSUME NEW i \in n + 1 .. Len(q) PROVE q[i] \in ToSet(b)
  <2>1. i - n \in 1 .. Len(q) - n /\ b[i - n] = q[i]
    BY <1>1, <1>2
  <2>2. QED
    BY <1>2, <1>4, <2>1
<1>10. \A i : i \in 1 .. n \/ i \in n + 1 .. Len(q) <=> i \in 1 .. Len(q)
  BY <1>1
<1>11. ToSet(a) \cup ToSet(b) = ToSet(q)
  BY <1>7, <1>8, <1>9, <1>10, <1>5
<1>12. ASSUME NEW x \in ToSet(a), x \in ToSet(b) PROVE FALSE
  <2>1. PICK i \in 1 .. n : q[i] = x
    BY <1>7
  <2>2. PICK j \in n + 1 .. Len(q) : q[j] = x
    BY <1>8, <1>12
  <2>3. i = j
    BY <1>10, <1>5, <2>1, <2>2
  <2>4. QED
    BY <1>1, <2>1, <2>2, <2>3
<1>13. ToSet(a) \cap ToSet(b) = {}
  BY <1>12
<1>14. \A x : x \in ToSet(b) <=> \E i \in n + 1 .. Len(q) : q[i] = x
  BY <1>8, <1>9
<1>15. QED
  BY <1>1, <1>2, <1>6, <1>7, <1>11, <1>13, <1>14 DEF a, b

\* An element is taken out where it stands first.
LEMMA RemoveSet ==
  ASSUME NEW S, NEW q \in Seq(S), IsInjective(q), NEW c
  PROVE  LET r == RemoveFirst(q, c)
         IN  r \in Seq(S) /\ IsInjective(r) /\ ToSet(r) = ToSet(q) \ {c}
<1>1. CASE c \notin ToSet(q)
  <2>1. RemoveFirst(q, c) = q
    BY <1>1, PlaceOf DEF RemoveFirst
  <2>2. QED
    BY <1>1, <2>1
<1>2. CASE c \in ToSet(q)
  <2>1. PICK k \in 1 .. Len(q) : q[k] = c
    BY <1>2, PlaceOf
  <2>2. Len(q) \in Nat /\ \A i, j \in 1 .. Len(q) : q[i] = q[j] => i = j
    BY PlaceOf
  <2> DEFINE I == {i \in 1 .. Len(q) : q[i] = c}
             a == SubSeq(q, 1, k - 1)
             b == SubSeq(q, k + 1, Len(q))
  <2>3. I = {k}
    BY <2>1, <2>2
  <2>4. Min(I) = k
    <3>1. k <= k
      BY <2>2
    <3> HIDE DEF I
    <3>2. QED
      BY <2>3, <3>1 DEF Min
  <2>5. RemoveFirst(q, c) = a \o b
    <3>1. RemoveFirst(q, c) = RemoveAt(q, IF I # {} THEN Min(I) ELSE 0)
      BY <2>1 DEF RemoveFirst, SelectInSeq
    <3>2. I # {}
      BY <2>3
    <3> HIDE DEF I
    <3>3. QED
      BY <2>4, <3>1, <3>2 DEF RemoveAt
  <2>6. /\ a \in Seq(S) /\ IsInjective(a)
        /\ \A x : x \in ToSet(a) <=> \E i \in 1 .. k - 1 : q[i] = x
    <3>1. k - 1 \in 0 .. Len(q)
      BY <2>2
    <3>2. QED
      BY <3>1, CutSet
  <2>7. /\ b \in Seq(S) /\ IsInjective(b)
        /\ \A x : x \in ToSet(b) <=> \E i \in k + 1 .. Len(q) : q[i] = x
    <3>1. k \in 0 .. Len(q)
      BY <2>2
    <3>2. QED
      BY <3>1, CutSet
  <2> HIDE DEF a, b
  <2>8. \A i : /\ i \in 1 .. Len(q) /\ i # k <=> i \in 1 .. k - 1 \/ i \in k + 1 .. Len(q)
               /\ ~ (i \in 1 .. k - 1 /\ i \in k + 1 .. Len(q))
    BY <2>2
  <2>9. \A x : x \in ToSet(q) <=> \E i \in 1 .. Len(q) : q[i] = x
    BY PlaceOf
  <2>10. ToSet(a) \cap ToSet(b) = {}
    BY <2>2, <2>6, <2>7, <2>8
  <2>11. ToSet(a) \cup ToSet(b) = ToSet(q) \ {c}
    BY <2>1, <2>2, <2>6, <2>7, <2>8, <2>9
  <2>12. QED
    BY <2>5, <2>6, <2>7, <2>10, <2>11, ConcatSet
<1>3. QED
  BY <1>1, <1>2

LEMMA SetOfSeqFinite ==
  ASSUME NEW S, NEW q \in Seq(S)
  PROVE  /\ IsFiniteSet(ToSet(q))
         /\ IsInjective(q) => Cardinality(ToSet(q)) = Len(q)
<1>1. Len(q) \in Nat /\ DOMAIN q = 1 .. Len(q)
  BY PlaceOf
<1>2. IsFiniteSet(1 .. Len(q)) /\ Cardinality(1 .. Len(q)) = Len(q)
  BY <1>1, FS_Interval
<1>3. q \in Surjection(1 .. Len(q), ToSet(q))
  BY <1>1 DEF Surjection, ToSet
<1>4. ASSUME IsInjective(q) PROVE q \in Injection(1 .. Len(q), ToSet(q))
  BY <1>3, <1>4 DEF Surjection, Injection
<1>5. QED
  BY <1>2, <1>3, <1>4, FS_Surjection

LEMMA EmptySeqSet ==
  ASSUME NEW S
  PROVE  <<>> \in Seq(S) /\ IsInjective(<<>>) /\ ToSet(<<>>) = {}
BY EmptySeq DEF IsInjective, ToSet
=============================================================================
