------------------------- MODULE UsageAccounting_proofs ------------------------
(***************************************************************************)
(* Proofs about UsageAccounting, for any users, cores and coefficients,    *)
(* any number of resets under way and every fault.                         *)
(***************************************************************************)
EXTENDS UsageAccounting, FiniteSetTheorems, TLAPS

(***************************************************************************)
(* What a sum over a finite set is, whatever order the elements are taken  *)
(* in.  Sum is defined by a recursive function on the subsets of the       *)
(* domain.  That such a function exists, and everything else about it,     *)
(* follows from one fact of the library: among the subsets of a finite set *)
(* there is no infinite descent (FS_StrictSubsetOrderingWellFounded).      *)
(***************************************************************************)
\* A collection of subsets of a finite set has a least member.
LEMMA Least ==
    ASSUME NEW S, IsFiniteSet(S), NEW B, B \subseteq SUBSET S, B # {}
    PROVE  \E T \in B : \A U \in SUBSET T : U # T => U \notin B
  <1>1. IsWellFoundedOn(StrictSubsetOrdering(S), FiniteSubsetsOf(S))
    BY FS_StrictSubsetOrderingWellFounded
  <1>2. FiniteSubsetsOf(S) = SUBSET S
    BY FS_FiniteSubsetsOfFinite
  <1>3. PICK T \in B : \A U \in B : <<U, T>> \notin StrictSubsetOrdering(S)
    BY <1>1, <1>2, WFMin
  <1>4. ASSUME NEW U \in SUBSET T, U # T, U \in B PROVE FALSE
    BY <1>3, <1>4 DEF StrictSubsetOrdering
  <1> QED
    BY <1>4


\* What the empty set has, and a set has whenever it has it without one of its
\* elements, all subsets have.
LEMMA SetsGrow ==
    ASSUME NEW S, IsFiniteSet(S), NEW G, {} \in G,
           \A T \in SUBSET S : \A x \in T : T \ {x} \in G => T \in G
    PROVE  SUBSET S \subseteq G
  <1> DEFINE B == (SUBSET S) \ G
  <1>1. ASSUME B # {} PROVE FALSE
    <2>1. PICK T \in B : \A U \in SUBSET T : U # T => U \notin B
      <3>1. B \subseteq SUBSET S
        OBVIOUS
      <3> HIDE DEF B
      <3> QED
        BY <1>1, <3>1, Least
    <2>2. PICK x \in T : TRUE
      BY <2>1
    <2>3. T \in SUBSET S /\ T \notin G
      BY <2>1
    <2>4. T \ {x} \in SUBSET T /\ T \ {x} # T /\ T \ {x} \in SUBSET S
      BY <2>2, <2>3
    <2>5. T \ {x} \in G
      BY <2>1, <2>4
    <2> QED
      BY <2>2, <2>3, <2>5
  <1> QED
    BY <1>1

--------------------------------------------------------------------------------
(***************************************************************************)
(* The recursive function of Sum.                                          *)
(***************************************************************************)
\* The element that is taken first.
Pick(s) == CHOOSE x \in s : TRUE

\* g adds up the values of f over every subset of S.
Adds(g, f, S) ==
    g = [s \in SUBSET S |-> IF s = {} THEN 0 ELSE f[Pick(s)] + g[s \ {Pick(s)}]]

Adder(f, S) == CHOOSE g : Adds(g, f, S)

\* Something is taken from a set that is not empty.
LEMMA PickIsOf == ASSUME NEW s, s # {} PROVE Pick(s) \in s
  BY DEF Pick

\* Two such functions agree where both are defined.
LEMMA SameSums ==
    ASSUME NEW f, NEW g, NEW h, NEW S, NEW T, IsFiniteSet(S),
           NEW e, \A x \in S \cap T : f[x] = e[x],
           Adds(g, f, S), Adds(h, e, T)
    PROVE  \A s \in SUBSET (S \cap T) : g[s] = h[s]
  <1> DEFINE B == {s \in SUBSET (S \cap T) : g[s] # h[s]}
  <1>1. ASSUME B # {} PROVE FALSE
    <2>1. B \subseteq SUBSET S
      BY Zenon
    <2>2. PICK s \in B : \A U \in SUBSET s : U # s => U \notin B
      <3> HIDE DEF B
      <3> QED
        BY <1>1, <2>1, Least
    <2>3. s \in SUBSET S /\ s \in SUBSET T /\ g[s] # h[s]
      BY <2>2
    <2>4. g[s] = IF s = {} THEN 0 ELSE f[Pick(s)] + g[s \ {Pick(s)}]
      BY <2>3 DEF Adds
    <2>5. h[s] = IF s = {} THEN 0 ELSE e[Pick(s)] + h[s \ {Pick(s)}]
      BY <2>3 DEF Adds
    <2>6. s # {}
      BY <2>3, <2>4, <2>5
    <2>7. Pick(s) \in s /\ f[Pick(s)] = e[Pick(s)]
      BY <2>3, <2>6, PickIsOf
    <2>8. g[s \ {Pick(s)}] = h[s \ {Pick(s)}]
      <3>1. s \ {Pick(s)} \in SUBSET s /\ s \ {Pick(s)} # s
        BY <2>7
      <3> QED
        BY <2>2, <2>3, <3>1
    <2> QED
      BY <2>3, <2>4, <2>5, <2>6, <2>7, <2>8
  <1> QED
    BY <1>1

\* There is such a function.
LEMMA AdderAdds == ASSUME NEW f, NEW S, IsFiniteSet(S) PROVE Adds(Adder(f, S), f, S)
  <1> DEFINE B == {T \in SUBSET S : ~\E g : Adds(g, f, T)}
  <1>1. ASSUME B # {} PROVE FALSE
    <2>1. B \subseteq SUBSET S
      BY Zenon
    <2>2. PICK T \in B : \A U \in SUBSET T : U # T => U \notin B
      <3> HIDE DEF B
      <3> QED
        BY <1>1, <2>1, Least
    <2> DEFINE val(U) == Adder(f, U)[U]
               h == [s \in SUBSET T |-> IF s = {} THEN 0 ELSE f[Pick(s)] + val(s \ {Pick(s)})]
    <2>3. ASSUME NEW U \in SUBSET T, U # T PROVE Adds(Adder(f, U), f, U) /\ IsFiniteSet(U)
      <3>1. U \in SUBSET S /\ \E g : Adds(g, f, U)
        BY <2>2, <2>3
      <3>2. IsFiniteSet(U)
        BY <3>1, FS_Subset
      <3> QED
        BY <3>1, <3>2 DEF Adder
    <2>4. ASSUME NEW U \in SUBSET T, U # T
          PROVE  val(U) = IF U = {} THEN 0 ELSE f[Pick(U)] + val(U \ {Pick(U)})
      <3>1. val(U) = IF U = {} THEN 0 ELSE f[Pick(U)] + Adder(f, U)[U \ {Pick(U)}]
        BY <2>3, <2>4 DEF Adds
      <3>2. CASE U # {}
        <4> DEFINE V == U \ {Pick(U)}
        <4>1. V \in SUBSET U /\ V \in SUBSET T /\ V # T
          BY <2>4, <3>2, PickIsOf
        <4> HIDE DEF V
        <4>2. Adds(Adder(f, V), f, V) /\ Adds(Adder(f, U), f, U) /\ IsFiniteSet(U)
          BY <2>3, <2>4, <4>1
        <4>3. \A s \in SUBSET (U \cap V) : Adder(f, U)[s] = Adder(f, V)[s]
          BY <4>2, SameSums
        <4>4. Adder(f, U)[V] = Adder(f, V)[V]
          BY <4>1, <4>3
        <4> QED
          BY <3>1, <3>2, <4>4 DEF V
      <3> QED
        BY <3>1, <3>2
    <2>5. ASSUME NEW s \in SUBSET T
          PROVE  h[s] = IF s = {} THEN 0 ELSE f[Pick(s)] + h[s \ {Pick(s)}]
      <3>1. CASE s # {}
        <4> DEFINE V == s \ {Pick(s)}
        <4>1. V \in SUBSET T /\ V # T
          BY <3>1, PickIsOf
        <4>2. h[s] = f[Pick(s)] + val(V)
          BY <3>1
        <4>3. h[V] = IF V = {} THEN 0 ELSE f[Pick(V)] + val(V \ {Pick(V)})
          BY <4>1
        <4>4. val(V) = h[V]
          BY <2>4, <4>1, <4>3
        <4> QED
          BY <3>1, <4>2, <4>4
      <3> QED
        BY <3>1
    <2>6. h = [s \in SUBSET T |-> IF s = {} THEN 0 ELSE f[Pick(s)] + h[s \ {Pick(s)}]]
      <3> DEFINE k == [s \in SUBSET T |-> IF s = {} THEN 0 ELSE f[Pick(s)] + h[s \ {Pick(s)}]]
      <3>1. \A s \in SUBSET T : h[s] = k[s]
        BY <2>5
      <3> QED
        BY <3>1
    <2>7. Adds(h, f, T)
      BY <2>6 DEF Adds
    <2> QED
      BY <2>2, <2>7
  <1>2. \E g : Adds(g, f, S)
    BY <1>1
  <1> QED
    BY <1>2 DEF Adder

--------------------------------------------------------------------------------
(***************************************************************************)
(* Sums over the subsets of a set.                                         *)
(***************************************************************************)
Part(f, T) == Sum([x \in T |-> f[x]])

\* A sum is that of the first element and of the others.
LEMMA PartSteps ==
    ASSUME NEW f, NEW S, IsFiniteSet(S), NEW T \in SUBSET S
    PROVE  /\ Part(f, T) = Adder(f, S)[T]
           /\ Part(f, T) = IF T = {} THEN 0 ELSE f[Pick(T)] + Part(f, T \ {Pick(T)})
  <1>1. ASSUME NEW U \in SUBSET S PROVE Part(f, U) = Adder(f, S)[U]
    <2> DEFINE e == [x \in U |-> f[x]]
    <2>1. IsFiniteSet(U) /\ DOMAIN e = U /\ \A x \in U \cap S : e[x] = f[x]
      BY FS_Subset
    <2> HIDE DEF e
    <2>2. Adds(Adder(e, U), e, U) /\ Adds(Adder(f, S), f, S)
      BY <2>1, AdderAdds
    <2>3. \A s \in SUBSET (U \cap S) : Adder(e, U)[s] = Adder(f, S)[s]
      BY <2>1, <2>2, SameSums
    <2>4. Sum(e) = Adder(e, U)[U]
      BY <2>1 DEF Sum, MapThenSumSet, MapThenFoldSet, Adder, Adds, Pick
    <2>5. Adder(e, U)[U] = Adder(f, S)[U]
      BY <2>3
    <2> QED
      BY <2>4, <2>5 DEF Part, e
  <1>2. Adder(f, S)[T] = IF T = {} THEN 0 ELSE f[Pick(T)] + Adder(f, S)[T \ {Pick(T)}]
    <2>1. Adds(Adder(f, S), f, S)
      BY AdderAdds
    <2> QED
      BY <2>1 DEF Adds
  <1>3. Part(f, T \ {Pick(T)}) = Adder(f, S)[T \ {Pick(T)}] /\ Part(f, T) = Adder(f, S)[T]
    BY <1>1
  <1> QED
    BY <1>2, <1>3

\* Sums of integers are integers.
LEMMA PartInt ==
    ASSUME NEW S, IsFiniteSet(S), NEW f \in [S -> Int], NEW T \in SUBSET S
    PROVE  Part(f, T) \in Int
  <1> DEFINE B == {U \in SUBSET S : Part(f, U) \notin Int}
  <1>1. ASSUME B # {} PROVE FALSE
    <2>1. PICK U \in B : \A V \in SUBSET U : V # U => V \notin B
      <3>1. B \subseteq SUBSET S
        BY Zenon
      <3> HIDE DEF B
      <3> QED
        BY <1>1, <3>1, Least
    <2>2. U \in SUBSET S /\ Part(f, U) \notin Int
      BY <2>1
    <2>3. Part(f, U) = IF U = {} THEN 0 ELSE f[Pick(U)] + Part(f, U \ {Pick(U)})
      BY <2>2, PartSteps
    <2>4. U # {} /\ Pick(U) \in U
      BY <2>2, <2>3, PickIsOf
    <2>5. Part(f, U \ {Pick(U)}) \in Int
      <3>1. U \ {Pick(U)} \in SUBSET U /\ U \ {Pick(U)} # U /\ U \ {Pick(U)} \in SUBSET S
        BY <2>2, <2>4
      <3> QED
        BY <2>1, <3>1
    <2>6. f[Pick(U)] \in Int
      BY <2>2, <2>4
    <2> QED
      BY <2>2, <2>3, <2>4, <2>5, <2>6
  <1> QED
    BY <1>1

\* The element taken first may be any: this is where the order does not matter.
LEMMA PartAny ==
    ASSUME NEW S, IsFiniteSet(S), NEW f \in [S -> Int], NEW T \in SUBSET S, NEW x \in T
    PROVE  Part(f, T) = f[x] + Part(f, T \ {x})
  <1> DEFINE Any(U) == \A z \in U : Part(f, U) = f[z] + Part(f, U \ {z})
             B == {U \in SUBSET S : ~Any(U)}
  <1>1. ASSUME B # {} PROVE FALSE
    <2>1. PICK U \in B : \A V \in SUBSET U : V # U => V \notin B
      <3>1. B \subseteq SUBSET S
        BY Zenon
      <3> HIDE DEF B
      <3> QED
        BY <1>1, <3>1, Least
    <2>2. PICK z \in U : U \in SUBSET S /\ Part(f, U) # f[z] + Part(f, U \ {z})
      BY <2>1
    <2> DEFINE y == Pick(U)
    <2>3. Part(f, U) = f[y] + Part(f, U \ {y}) /\ y \in U
      BY <2>2, PartSteps, PickIsOf
    <2> HIDE DEF y
    <2>4. y # z
      BY <2>2, <2>3
    <2>5. ASSUME NEW v \in U, NEW w \in U \ {v}
          PROVE  Part(f, U \ {v}) = f[w] + Part(f, (U \ {v}) \ {w})
      <3>1. U \ {v} \in SUBSET U /\ U \ {v} # U /\ U \ {v} \in SUBSET S
        BY <2>2
      <3>2. U \ {v} \notin B
        BY <2>1, <3>1
      <3> QED
        BY <3>1, <3>2
    <2>6. /\ Part(f, U \ {y}) = f[z] + Part(f, (U \ {y}) \ {z})
          /\ Part(f, U \ {z}) = f[y] + Part(f, (U \ {z}) \ {y})
      BY <2>3, <2>4, <2>5
    <2>7. Part(f, (U \ {z}) \ {y}) = Part(f, (U \ {y}) \ {z})
      <3>1. (U \ {z}) \ {y} = (U \ {y}) \ {z}
        OBVIOUS
      <3> QED
        BY <3>1
    <2>8. f[z] \in Int /\ f[y] \in Int /\ Part(f, (U \ {y}) \ {z}) \in Int
      <3>1. (U \ {y}) \ {z} \in SUBSET S
        BY <2>2
      <3> QED
        BY <2>2, <2>3, <3>1, PartInt
    <2> HIDE DEF B
    <2>9. Part(f, U) = f[y] + (f[z] + Part(f, (U \ {y}) \ {z}))
      BY <2>3, <2>6
    <2>10. Part(f, U \ {z}) = f[y] + Part(f, (U \ {y}) \ {z})
      BY <2>6, <2>7
    <2>11. Part(f, U) = f[z] + Part(f, U \ {z})
      BY <2>8, <2>9, <2>10
    <2> QED
      BY <2>2, <2>11
  <1> QED
    BY <1>1

\* Nothing is added up to 0.
LEMMA PartEmpty == ASSUME NEW f PROVE Part(f, {}) = 0
  <1>1. IsFiniteSet({})
    BY FS_EmptySet
  <1> QED
    BY <1>1, PartSteps

\* The whole is a part.
LEMMA PartWhole == ASSUME NEW S, NEW f \in [S -> Int] PROVE Part(f, S) = Sum(f)
  <1>1. [x \in S |-> f[x]] = f
    OBVIOUS
  <1> QED
    BY <1>1 DEF Part

--------------------------------------------------------------------------------
(***************************************************************************)
(* What the sums of three functions have in common with their values.      *)
(***************************************************************************)
\* A relation of three numbers that 0 satisfies and that sums keep.
Summable(R) ==
    /\ <<0, 0, 0>> \in R
    /\ \A a, b, c, d, e, k \in Int :
           <<a, b, c>> \in R /\ <<d, e, k>> \in R => <<a + d, b + e, c + k>> \in R

\* Sums over one set are related as their terms are.
LEMMA SumsKeep ==
    ASSUME NEW S, IsFiniteSet(S),
           NEW f \in [S -> Int], NEW g \in [S -> Int], NEW h \in [S -> Int],
           NEW R, Summable(R),
           \A x \in S : <<f[x], g[x], h[x]>> \in R
    PROVE  <<Sum(f), Sum(g), Sum(h)>> \in R
  <1> DEFINE G == {T \in SUBSET S : <<Part(f, T), Part(g, T), Part(h, T)>> \in R}
  <1>1. {} \in G
    BY PartEmpty DEF Summable
  <1>2. ASSUME NEW T \in SUBSET S, NEW x \in T, T \ {x} \in G PROVE T \in G
    <2> DEFINE U == T \ {x}
    <2>1. ASSUME NEW e \in [S -> Int]
          PROVE  Part(e, T) = e[x] + Part(e, U) /\ e[x] \in Int /\ Part(e, U) \in Int
      <3>1. Part(e, T) = e[x] + Part(e, U)
        BY PartAny
      <3>2. U \in SUBSET S
        OBVIOUS
      <3> HIDE DEF U
      <3>3. Part(e, U) \in Int
        BY <3>2, PartInt
      <3> QED
        BY <3>1, <3>3
    <2>2. <<Part(f, U), Part(g, U), Part(h, U)>> \in R
      BY <1>2
    <2>3. <<f[x], g[x], h[x]>> \in R
      OBVIOUS
    <2> HIDE DEF U
    <2>4. /\ Part(f, T) = f[x] + Part(f, U) /\ f[x] \in Int /\ Part(f, U) \in Int
          /\ Part(g, T) = g[x] + Part(g, U) /\ g[x] \in Int /\ Part(g, U) \in Int
          /\ Part(h, T) = h[x] + Part(h, U) /\ h[x] \in Int /\ Part(h, U) \in Int
      BY <2>1
    <2>5. <<f[x] + Part(f, U), g[x] + Part(g, U), h[x] + Part(h, U)>> \in R
      BY <2>2, <2>3, <2>4 DEF Summable
    <2> QED
      BY <2>4, <2>5
  <1> HIDE DEF G
  <1>3. S \in G
    <2>1. SUBSET S \subseteq G
      BY <1>1, <1>2, SetsGrow
    <2> QED
      BY <2>1
  <1>4. Part(f, S) = Sum(f) /\ Part(g, S) = Sum(g) /\ Part(h, S) = Sum(h)
    BY PartWhole
  <1> QED
    BY <1>3, <1>4 DEF G

\* A sum of integers is an integer.
LEMMA SumIsInt == ASSUME NEW S, IsFiniteSet(S), NEW f \in [S -> Int] PROVE Sum(f) \in Int
  <1>1. S \in SUBSET S
    OBVIOUS
  <1>2. Part(f, S) \in Int
    BY <1>1, PartInt
  <1> QED
    BY <1>2, PartWhole

\* A sum of sums.
LEMMA SumsAdd ==
    ASSUME NEW S, IsFiniteSet(S),
           NEW f \in [S -> Int], NEW g \in [S -> Int], NEW h \in [S -> Int],
           \A x \in S : h[x] = f[x] + g[x]
    PROVE  Sum(h) = Sum(f) + Sum(g)
  <1> DEFINE R == {t \in Int \X Int \X Int : t[3] = t[1] + t[2]}
  <1>1. ASSUME NEW a \in Int, NEW b \in Int, NEW c \in Int, NEW d \in Int, NEW e \in Int, NEW k \in Int,
               <<a, b, c>> \in R, <<d, e, k>> \in R
        PROVE  <<a + d, b + e, c + k>> \in R
    <2>1. c = a + b /\ k = d + e
      BY <1>1
    <2>2. c + k = (a + d) + (b + e) /\ a + d \in Int /\ b + e \in Int /\ c + k \in Int
      BY <2>1
    <2> QED
      BY <2>2
  <1>2. <<0, 0, 0>> \in R
    OBVIOUS
  <1>3. \A x \in S : <<f[x], g[x], h[x]>> \in R
    OBVIOUS
  <1>4. \A t \in R : t[3] = t[1] + t[2]
    OBVIOUS
  <1> HIDE DEF R
  <1>5. Summable(R)
    BY <1>1, <1>2, Zenon DEF Summable
  <1>6. <<Sum(f), Sum(g), Sum(h)>> \in R
    BY <1>3, <1>5, SumsKeep
  <1> QED
    BY <1>4, <1>6

\* A sum is at most that of values that are at least as large.
LEMMA SumsGrow ==
    ASSUME NEW S, IsFiniteSet(S), NEW f \in [S -> Int], NEW g \in [S -> Int],
           \A x \in S : f[x] <= g[x]
    PROVE  Sum(f) <= Sum(g)
  <1> DEFINE R == {t \in Int \X Int \X Int : t[1] <= t[2]}
  <1>1. ASSUME NEW a \in Int, NEW b \in Int, NEW c \in Int, NEW d \in Int, NEW e \in Int, NEW k \in Int,
               <<a, b, c>> \in R, <<d, e, k>> \in R
        PROVE  <<a + d, b + e, c + k>> \in R
    <2>1. a <= b /\ d <= e
      BY <1>1
    <2>2. a + d <= b + e /\ a + d \in Int /\ b + e \in Int /\ c + k \in Int
      BY <2>1
    <2> QED
      BY <2>2
  <1>2. <<0, 0, 0>> \in R
    OBVIOUS
  <1>3. \A x \in S : <<f[x], g[x], g[x]>> \in R
    OBVIOUS
  <1>4. \A t \in R : t[1] <= t[2]
    OBVIOUS
  <1> HIDE DEF R
  <1>5. Summable(R)
    BY <1>1, <1>2, Zenon DEF Summable
  <1>6. <<Sum(f), Sum(g), Sum(g)>> \in R
    BY <1>3, <1>5, SumsKeep
  <1> QED
    BY <1>4, <1>6

\* A multiple of a sum is the sum of the multiples.
LEMMA SumsScale ==
    ASSUME NEW S, IsFiniteSet(S), NEW m \in Nat, NEW f \in [S -> Int], NEW g \in [S -> Int],
           \A x \in S : g[x] = m * f[x]
    PROVE  Sum(g) = m * Sum(f)
  <1> DEFINE R == {t \in Int \X Int \X Int : t[2] = m * t[1]}
  <1>1. ASSUME NEW a \in Int, NEW b \in Int, NEW c \in Int, NEW d \in Int, NEW e \in Int, NEW k \in Int,
               <<a, b, c>> \in R, <<d, e, k>> \in R
        PROVE  <<a + d, b + e, c + k>> \in R
    <2>1. b = m * a /\ e = m * d
      BY <1>1
    <2>2. m * (a + d) = m * a + m * d
      OBVIOUS
    <2>3. b + e = m * (a + d) /\ a + d \in Int /\ b + e \in Int /\ c + k \in Int
      BY <2>1, <2>2
    <2> QED
      BY <2>3
  <1>2. <<0, 0, 0>> \in R
    OBVIOUS
  <1>3. \A x \in S : <<f[x], g[x], g[x]>> \in R
    OBVIOUS
  <1>4. \A t \in R : t[2] = m * t[1]
    OBVIOUS
  <1> HIDE DEF R
  <1>5. Summable(R)
    BY <1>1, <1>2, Zenon DEF Summable
  <1>6. <<Sum(f), Sum(g), Sum(g)>> \in R
    BY <1>3, <1>5, SumsKeep
  <1> QED
    BY <1>4, <1>6

\* A sum of zeros is 0.
LEMMA SumIsZero ==
    ASSUME NEW S, IsFiniteSet(S), NEW f \in [S -> Int], \A x \in S : f[x] = 0
    PROVE  Sum(f) = 0
  <1>1. Sum(f) \in Int
    BY SumIsInt
  <1>2. \A x \in S : f[x] = f[x] + f[x]
    OBVIOUS
  <1>3. Sum(f) = Sum(f) + Sum(f)
    BY <1>2, SumsAdd
  <1>4. ASSUME NEW n \in Int, n = n + n PROVE n = 0
    BY <1>4
  <1> QED
    BY <1>1, <1>3, <1>4, Zenon

\* A sum of natural numbers is one.
LEMMA SumIsNat == ASSUME NEW S, IsFiniteSet(S), NEW f \in [S -> Nat] PROVE Sum(f) \in Nat
  <1> DEFINE z == [x \in S |-> 0]
  <1>1. f \in [S -> Int] /\ z \in [S -> Int] /\ \A x \in S : z[x] = 0 /\ z[x] <= f[x]
    OBVIOUS
  <1> HIDE DEF z
  <1>2. Sum(z) = 0
    BY <1>1, SumIsZero
  <1>3. Sum(z) <= Sum(f)
    BY <1>1, SumsGrow
  <1>4. Sum(f) \in Int
    BY <1>1, SumIsInt
  <1> QED
    BY <1>2, <1>3, <1>4

\* What is 0 may be left out.
LEMMA SumOfSome ==
    ASSUME NEW S, IsFiniteSet(S), NEW f \in [S -> Int], NEW Q \in SUBSET S,
           \A x \in S \ Q : f[x] = 0
    PROVE  Sum([x \in Q |-> f[x]]) = Sum(f)
  <1> DEFINE G == {T \in SUBSET S : Part(f, T \cap Q) = Part(f, T)}
  <1>1. {} \in G
    <2>1. {} \cap Q = {}
      OBVIOUS
    <2> QED
      BY <2>1
  <1>2. ASSUME NEW T \in SUBSET S, NEW x \in T, T \ {x} \in G PROVE T \in G
    <2>1. Part(f, (T \ {x}) \cap Q) = Part(f, T \ {x})
      BY <1>2
    <2>2. Part(f, T) = f[x] + Part(f, T \ {x})
      BY PartAny
    <2>3. CASE x \in Q
      <3>1. (T \cap Q) \ {x} = (T \ {x}) \cap Q
        OBVIOUS
      <3>2. T \cap Q \in SUBSET S /\ x \in T \cap Q
        BY <2>3
      <3>3. Part(f, T \cap Q) = f[x] + Part(f, (T \cap Q) \ {x})
        BY <3>2, PartAny
      <3>4. Part(f, T \cap Q) = Part(f, T)
        BY <2>1, <2>2, <3>1, <3>3
      <3> QED
        BY <3>4
    <2>4. CASE x \notin Q
      <3>1. T \cap Q = (T \ {x}) \cap Q
        BY <2>4
      <3>2. f[x] = 0
        BY <2>4
      <3>3. T \ {x} \in SUBSET S
        OBVIOUS
      <3>4. Part(f, T \ {x}) \in Int
        BY <3>3, PartInt
      <3>5. Part(f, T) = Part(f, T \ {x})
        BY <2>2, <3>2, <3>4
      <3>6. Part(f, T \cap Q) = Part(f, T)
        BY <2>1, <3>1, <3>5
      <3> QED
        BY <3>6
    <2> QED
      BY <2>3, <2>4
  <1>3. S \in G
    <2> HIDE DEF G
    <2>1. SUBSET S \subseteq G
      BY <1>1, <1>2, SetsGrow
    <2> QED
      BY <2>1
  <1>4. Part(f, S \cap Q) = Part(f, S) /\ S \cap Q = Q
    BY <1>3
  <1> QED
    BY <1>4, PartWhole DEF Part

--------------------------------------------------------------------------------
(***************************************************************************)
(* The inductive invariant.                                                *)
(***************************************************************************)
Typed ==
    /\ counter \in [Cores -> [Users -> Nat]]
    /\ moved \in [Cores -> [Users -> Nat]]
    /\ chart \in [Users -> [Cores -> Nat \cup {NoRow}]]
    /\ pass \in [pc : {"idle", "poll", "users", "admins", "charts", "chart"},
                 todo : SUBSET Cores, core : Cores \cup {NoCore},
                 taken : [Cores -> [Users -> Nat]]]

\* A core is read once in a pass, and its chart filled while it is still to do.
OnceEach ==
    /\ pass.pc = "poll" => \A c \in pass.todo, u \in Users : pass.taken[c][u] = 0
    /\ pass.pc = "chart" => pass.core \in pass.todo

\* What the pass has taken is no longer counted, and both were transferred.
TakenOnce == \A u \in Users, c \in Cores : pass.taken[c][u] + counter[c][u] <= moved[c][u]

\* The part of a core's traffic that its chart does not show yet.
Filled(c) == pass.pc \in {"charts", "chart"} /\ c \notin pass.todo

Outstanding(u, c) == counter[c][u] + IF Filled(c) THEN 0 ELSE pass.taken[c][u]

NothingTwice ==
    \A u \in Users, c \in Cores :
        chart[u][c] + Outstanding(u, c) * Factor[c] <= moved[c][u] * Factor[c]

IInv == Typed /\ OnceEach /\ TakenOnce /\ NothingTwice

--------------------------------------------------------------------------------
(***************************************************************************)
(* Arithmetic of weights.                                                  *)
(***************************************************************************)
\* Weights are natural, distribute over sums and grow.
LEMMA Weighing ==
    ASSUME NEW a \in Nat, NEW b \in Nat, NEW f \in Nat
    PROVE  /\ a * f \in Nat
           /\ (a + b) * f = a * f + b * f
           /\ a <= b => a * f <= b * f
  <1>1. a * f \in Nat /\ (a + b) * f = a * f + b * f
    OBVIOUS
  <1>2. ASSUME a <= b PROVE a * f <= b * f
    <2>1. b - a \in Nat /\ b = a + (b - a)
      BY <1>2
    <2>2. (b - a) * f \in Nat
      BY <2>1
    <2>3. b * f = a * f + (b - a) * f
      BY <2>1
    <2> QED
      BY <1>1, <2>2, <2>3
  <1> QED
    BY <1>1, <1>2

\* The weight of one more.
LEMMA OneMore ==
    ASSUME NEW a \in Nat, NEW f \in Nat
    PROVE  a * f \in Nat /\ (a + 1) * f = a * f + f
  OBVIOUS

\* Less outstanding and no more in the chart keeps the bound.
LEMMA NoMore ==
    ASSUME NEW x \in Int, NEW y \in Int, NEW a \in Nat, NEW b \in Nat, NEW m \in Nat, NEW f \in Nat,
           y <= x, b <= a, x + a * f <= m * f
    PROVE  y + b * f <= m * f
  <1>1. b * f \in Nat /\ a * f \in Nat /\ m * f \in Nat /\ b * f <= a * f
    BY Weighing
  <1> QED
    BY <1>1

--------------------------------------------------------------------------------
\* Nothing has been transferred yet.
LEMMA Starts == Init => IInv
  <1> SUFFICES ASSUME Init PROVE IInv
    OBVIOUS
  <1> USE UsageAssumption DEF Init
  <1>1. \A c \in Cores : counter[c] = Nothing /\ moved[c] = Nothing /\ pass.taken[c] = Nothing
    BY DEF PassIdle
  <1>2. Typed
    BY DEF Typed, PassIdle, Nothing, NoRow
  <1>3. OnceEach
    BY DEF OnceEach, PassIdle
  <1>4. TakenOnce
    BY <1>1 DEF TakenOnce, Nothing
  <1>5. NothingTwice
    BY <1>1 DEF NothingTwice, Outstanding, Filled, PassIdle, Nothing, NoRow
  <1> QED
    BY <1>2, <1>3, <1>4, <1>5 DEF IInv

(***************************************************************************)
(* Steps.                                                                  *)
(***************************************************************************)
\* A step that shows no more, leaves no more outstanding and takes no transfer back.
LEMMA Quiet ==
    ASSUME IInv, Typed', OnceEach', TakenOnce',
           \A u \in Users, c \in Cores :
               /\ chart'[u][c] <= chart[u][c]
               /\ Outstanding(u, c)' <= Outstanding(u, c)
               /\ moved'[c][u] = moved[c][u]
    PROVE  IInv'
  <1> USE UsageAssumption
  <1>1. ASSUME NEW u \in Users, NEW c \in Cores
        PROVE  chart'[u][c] + Outstanding(u, c)' * Factor[c] <= moved'[c][u] * Factor[c]
    <2>1. /\ chart[u][c] \in Int /\ chart'[u][c] \in Int
          /\ Factor[c] \in Nat /\ moved[c][u] \in Nat
      BY DEF IInv, Typed, NoRow
    <2>2. Outstanding(u, c) \in Nat /\ Outstanding(u, c)' \in Nat
      <3>1. Outstanding(u, c) \in Nat
        BY DEF IInv, Typed, Outstanding
      <3>2. Outstanding(u, c)' \in Nat
        BY DEF Typed, Outstanding
      <3> QED
        BY <3>1, <3>2
    <2>3. chart[u][c] + Outstanding(u, c) * Factor[c] <= moved[c][u] * Factor[c]
      BY DEF IInv, NothingTwice
    <2> HIDE DEF Outstanding
    <2>4. /\ chart'[u][c] <= chart[u][c] /\ Outstanding(u, c)' <= Outstanding(u, c)
          /\ moved'[c][u] = moved[c][u]
      OBVIOUS
    <2> QED
      BY <2>1, <2>2, <2>3, <2>4, NoMore
  <1>2. NothingTwice'
    BY <1>1 DEF NothingTwice
  <1> QED
    BY <1>2 DEF IInv

\* A pass begins, or it is over, whatever it had in hand.
LEMMA PassIsReset ==
    ASSUME IInv, NEW pc \in {"idle", "poll"}, NEW todo \in SUBSET Cores,
           pass' = [pc |-> pc, todo |-> todo, core |-> NoCore, taken |-> [c \in Cores |-> Nothing]],
           UNCHANGED <<counter, moved, chart>>
    PROVE  IInv'
  <1>1. Typed /\ TakenOnce
    BY DEF IInv
  <1>2. \A c \in Cores, u \in Users : pass'.taken[c][u] = 0
    BY DEF Nothing
  <1>3. Typed'
    BY <1>1 DEF Typed, Nothing
  <1>4. OnceEach'
    BY <1>2 DEF OnceEach
  <1>5. TakenOnce'
    BY <1>1, <1>2 DEF TakenOnce, Typed
  <1>6. \A u \in Users, c \in Cores : Outstanding(u, c)' <= Outstanding(u, c)
    BY <1>1, <1>2 DEF Outstanding, Typed
  <1>7. \A u \in Users, c \in Cores : chart[u][c] \in Int
    BY <1>1 DEF Typed, NoRow
  <1> QED
    BY <1>3, <1>4, <1>5, <1>6, <1>7, Quiet

\* A core is read: what it counted is taken, or it is lost, or nothing was read.
LEMMA PollHolds == ASSUME IInv, NEW d \in Cores, Poll(d) PROVE IInv'
  <1>1. Typed /\ OnceEach /\ TakenOnce
    BY DEF IInv
  <1>2. pass.pc = "poll" /\ d \in pass.todo /\ UNCHANGED <<moved, chart>>
    BY DEF Poll, dbVars
  <1>3. \A u \in Users : pass.taken[d][u] = 0
    BY <1>1, <1>2 DEF OnceEach
  <1>4. \A u \in Users, c \in Cores : chart[u][c] \in Int
    BY <1>1 DEF Typed, NoRow
  <1>5. CASE /\ pass' = [pass EXCEPT !.todo = @ \ {d}, !.taken[d] = counter[d]]
             /\ counter' = [counter EXCEPT ![d] = Nothing]
    <2>1. pass'.pc = "poll" /\ pass'.todo = pass.todo \ {d} /\ pass'.core = pass.core
          /\ pass'.taken = [pass.taken EXCEPT ![d] = counter[d]]
      BY <1>1, <1>2, <1>5 DEF Typed
    <2>2. \A u \in Users, c \in Cores :
              /\ c = d => pass'.taken[c][u] = counter[c][u] /\ counter'[c][u] = 0
              /\ c # d => pass'.taken[c][u] = pass.taken[c][u] /\ counter'[c][u] = counter[c][u]
      BY <1>1, <1>5, <2>1 DEF Typed, Nothing
    <2>3. Typed'
      BY <1>1, <1>2, <1>5, <2>1 DEF Typed, Nothing
    <2>4. OnceEach'
      BY <1>1, <1>2, <2>1, <2>2 DEF OnceEach, Typed
    <2>5. ASSUME NEW u \in Users, NEW c \in Cores
          PROVE  pass'.taken[c][u] + counter'[c][u] <= moved'[c][u]
      <3>1. pass.taken[c][u] + counter[c][u] <= moved[c][u] /\ counter[c][u] \in Nat
        BY <1>1 DEF TakenOnce, Typed
      <3>2. moved'[c][u] = moved[c][u]
        BY <1>2
      <3>3. CASE c = d
        BY <1>3, <2>2, <3>1, <3>2, <3>3
      <3>4. CASE c # d
        BY <2>2, <3>1, <3>2, <3>4
      <3> QED
        BY <3>3, <3>4
    <2>6. TakenOnce'
      BY <2>5 DEF TakenOnce
    <2>7. \A u \in Users, c \in Cores : Outstanding(u, c)' <= Outstanding(u, c)
      BY <1>1, <1>2, <1>3, <2>1, <2>2 DEF Outstanding, Filled, Typed
    <2> QED
      BY <1>2, <1>4, <2>3, <2>4, <2>6, <2>7, Quiet
  <1>6. CASE /\ pass' = [pass EXCEPT !.todo = @ \ {d}]
             /\ counter' = counter \/ counter' = [counter EXCEPT ![d] = Nothing]
    <2>1. pass'.pc = "poll" /\ pass'.todo = pass.todo \ {d} /\ pass'.taken = pass.taken
          /\ pass'.core = pass.core
      BY <1>1, <1>2, <1>6 DEF Typed
    <2>2. /\ counter' \in [Cores -> [Users -> Nat]]
          /\ \A u \in Users, c \in Cores : counter'[c][u] <= counter[c][u]
      <3>1. /\ counter \in [Cores -> [Users -> Nat]] /\ Nothing \in [Users -> Nat]
            /\ \A u \in Users : Nothing[u] = 0
        BY <1>1 DEF Typed, Nothing
      <3>2. \A u \in Users, c \in Cores : counter[c][u] \in Nat
        BY <3>1
      <3>3. CASE counter' = counter
        BY <3>1, <3>2, <3>3
      <3>4. CASE counter' = [counter EXCEPT ![d] = Nothing]
        <4>1. counter' \in [Cores -> [Users -> Nat]]
          BY <3>1, <3>4
        <4>2. \A c \in Cores : counter'[c] = IF c = d THEN Nothing ELSE counter[c]
          BY <3>1, <3>4
        <4> QED
          BY <3>1, <3>2, <4>1, <4>2
      <3> QED
        BY <1>6, <3>3, <3>4
    <2>3. Typed'
      BY <1>1, <1>2, <1>6, <2>2 DEF Typed
    <2>4. OnceEach'
      BY <1>1, <1>2, <2>1 DEF OnceEach
    <2>5. TakenOnce'
      BY <1>1, <1>2, <2>1, <2>2 DEF TakenOnce, Typed
    <2>6. \A u \in Users, c \in Cores : Outstanding(u, c)' <= Outstanding(u, c)
      BY <1>1, <1>2, <2>1, <2>2 DEF Outstanding, Filled, Typed
    <2> QED
      BY <1>2, <1>4, <2>3, <2>4, <2>5, <2>6, Quiet
  <1> QED
    BY <1>5, <1>6 DEF Poll

\* A step of the pass that only moves it on, in front of the charts.
LEMMA PassMovesOn ==
    ASSUME IInv, NEW pc \in {"users", "admins", "charts"}, NEW todo \in SUBSET Cores,
           pass' = [pass EXCEPT !.pc = pc, !.todo = todo],
           pass.pc \in {"poll", "users", "admins"},
           UNCHANGED <<counter, moved, chart>>
    PROVE  IInv'
  <1>1. Typed /\ TakenOnce
    BY DEF IInv
  <1>2. pass'.pc = pc /\ pass'.taken = pass.taken
    BY <1>1 DEF Typed
  <1>3. Typed'
    BY <1>1 DEF Typed
  <1>4. OnceEach'
    BY <1>2 DEF OnceEach
  <1>5. TakenOnce'
    BY <1>1, <1>2 DEF TakenOnce
  <1>6. \A u \in Users, c \in Cores : Outstanding(u, c)' <= Outstanding(u, c)
    BY <1>1, <1>2 DEF Outstanding, Filled, Typed
  <1>7. \A u \in Users, c \in Cores : chart[u][c] \in Int
    BY <1>1 DEF Typed, NoRow
  <1> QED
    BY <1>3, <1>4, <1>5, <1>6, <1>7, Quiet

\* The rows that are missing are inserted, empty.
LEMMA OpenChartHolds == ASSUME IInv, NEW d \in Cores, OpenChart(d) PROVE IInv'
  <1> USE UsageAssumption
  <1>1. Typed /\ OnceEach /\ TakenOnce /\ NothingTwice
    BY DEF IInv
  <1>2. /\ pass.pc = "charts" /\ d \in pass.todo /\ UNCHANGED <<counter, moved>>
        /\ pass' = [pass EXCEPT !.pc = "chart", !.core = d]
    BY DEF OpenChart, coreVars
  <1>3. pass'.pc = "chart" /\ pass'.core = d /\ pass'.todo = pass.todo
        /\ pass'.taken = pass.taken
    BY <1>1, <1>2 DEF Typed
  <1>4. /\ chart' \in [Users -> [Cores -> Nat \cup {NoRow}]]
        /\ \A u \in Users, c \in Cores :
              chart'[u][c] = chart[u][c] \/ chart'[u][c] = 0
    BY <1>1 DEF OpenChart, Typed
  <1>5. Typed'
    BY <1>1, <1>2, <1>4 DEF Typed
  <1>6. OnceEach'
    BY <1>2, <1>3 DEF OnceEach
  <1>7. TakenOnce'
    BY <1>1, <1>2, <1>3 DEF TakenOnce
  <1>8. ASSUME NEW u \in Users, NEW c \in Cores
        PROVE  chart'[u][c] + Outstanding(u, c)' * Factor[c] <= moved'[c][u] * Factor[c]
    <2>1. Outstanding(u, c)' = Outstanding(u, c)
      BY <1>2, <1>3 DEF Outstanding, Filled
    <2>2. /\ counter[c][u] \in Nat /\ pass.taken[c][u] \in Nat /\ moved[c][u] \in Nat
          /\ Factor[c] \in Nat
      BY <1>1 DEF Typed
    <2>3. Outstanding(u, c) \in Nat /\ Outstanding(u, c) <= moved[c][u]
      BY <1>1, <2>2 DEF Outstanding, TakenOnce
    <2>4. chart[u][c] + Outstanding(u, c) * Factor[c] <= moved[c][u] * Factor[c]
      BY <1>1 DEF NothingTwice
    <2> HIDE DEF Outstanding
    <2>5. /\ Outstanding(u, c) * Factor[c] \in Nat
          /\ Outstanding(u, c) * Factor[c] <= moved[c][u] * Factor[c]
      BY <2>2, <2>3, Weighing
    <2>6. moved'[c][u] = moved[c][u]
      BY <1>2
    <2> QED
      BY <1>4, <2>1, <2>4, <2>5, <2>6
  <1>9. NothingTwice'
    BY <1>8 DEF NothingTwice
  <1> QED
    BY <1>5, <1>6, <1>7, <1>9 DEF IInv

\* What was outstanding for a core is shown, and is outstanding no more.
LEMMA FillChartHolds == ASSUME IInv, FillChart PROVE IInv'
  <1> USE UsageAssumption
  <1>1. Typed /\ OnceEach /\ TakenOnce /\ NothingTwice
    BY DEF IInv
  <1> DEFINE d == pass.core
  <1>2. pass.pc = "chart" /\ d \in pass.todo /\ d \in Cores /\ UNCHANGED <<counter, moved>>
    BY <1>1 DEF FillChart, coreVars, OnceEach, Typed
  <1>3. pass' = [pass EXCEPT !.pc = "charts", !.core = NoCore, !.todo = @ \ {d}]
    BY DEF FillChart
  <1>4. pass'.pc = "charts" /\ pass'.todo = pass.todo \ {d} /\ pass'.taken = pass.taken
    BY <1>1, <1>3 DEF Typed
  <1>5. /\ pass.taken[d] \in [Users -> Nat] /\ Factor[d] \in Nat
        /\ \A u \in Users : pass.taken[d][u] * Factor[d] \in Nat
    BY <1>1, <1>2, Weighing DEF Typed
  <1>6. chart' = [u \in Users |-> [chart[u] EXCEPT ![d] =
                     IF @ = NoRow THEN @ ELSE @ + pass.taken[d][u] * Factor[d]]]
    BY DEF FillChart
  <1> HIDE DEF d
  <1>7. \A u \in Users : chart[u] \in [Cores -> Nat \cup {NoRow}]
    BY <1>1 DEF Typed
  <1>8. \A u \in Users, c \in Cores :
            chart'[u][c] = IF c = d
                           THEN IF chart[u][d] = NoRow THEN NoRow
                                ELSE chart[u][d] + pass.taken[d][u] * Factor[d]
                           ELSE chart[u][c]
    BY <1>2, <1>6, <1>7
  <1>9. chart' \in [Users -> [Cores -> Nat \cup {NoRow}]]
    <2>1. ASSUME NEW u \in Users
          PROVE  [chart[u] EXCEPT ![d] = IF @ = NoRow THEN @ ELSE @ + pass.taken[d][u] * Factor[d]]
                     \in [Cores -> Nat \cup {NoRow}]
      <3>1. chart[u][d] \in Nat \cup {NoRow} /\ pass.taken[d][u] * Factor[d] \in Nat
        BY <1>2, <1>5, <1>7
      <3> DEFINE z == IF chart[u][d] = NoRow THEN chart[u][d]
                      ELSE chart[u][d] + pass.taken[d][u] * Factor[d]
      <3>2. z \in Nat \cup {NoRow}
        BY <3>1
      <3>3. [chart[u] EXCEPT ![d] = z] \in [Cores -> Nat \cup {NoRow}]
        BY <1>7, <3>2
      <3> QED
        BY <3>3
    <2> QED
      BY <1>6, <2>1
  <1>10. Typed'
    BY <1>1, <1>2, <1>3, <1>9 DEF Typed
  <1>11. OnceEach'
    BY <1>4 DEF OnceEach
  <1>12. TakenOnce'
    BY <1>1, <1>2, <1>4 DEF TakenOnce
  <1>13. ASSUME NEW u \in Users, NEW c \in Cores
         PROVE  chart'[u][c] + Outstanding(u, c)' * Factor[c] <= moved'[c][u] * Factor[c]
    <2>1. /\ chart[u][c] \in Int /\ (chart[u][c] = NoRow \/ chart[u][c] \in Nat)
          /\ counter[c][u] \in Nat /\ pass.taken[c][u] \in Nat
          /\ Factor[c] \in Nat /\ moved'[c][u] = moved[c][u] /\ counter'[c][u] = counter[c][u]
      BY <1>1, <1>2 DEF Typed, NoRow
    <2>2. chart[u][c] + Outstanding(u, c) * Factor[c] <= moved[c][u] * Factor[c]
      BY <1>1 DEF NothingTwice
    <2>3. CASE c # d
      <3>1. Outstanding(u, c)' = Outstanding(u, c) /\ chart'[u][c] = chart[u][c]
        BY <1>2, <1>4, <1>8, <2>1, <2>3 DEF Outstanding, Filled
      <3> QED
        BY <2>1, <2>2, <3>1
    <2>4. CASE c = d
      <3>1. Outstanding(u, c) = counter[c][u] + pass.taken[c][u]
            /\ Outstanding(u, c)' = counter[c][u]
        BY <1>2, <1>4, <2>1, <2>4 DEF Outstanding, Filled
      <3>2. Outstanding(u, c) * Factor[c]
                = counter[c][u] * Factor[c] + pass.taken[c][u] * Factor[c]
            /\ pass.taken[c][u] * Factor[c] \in Nat /\ counter[c][u] * Factor[c] \in Nat
        BY <2>1, <3>1, Weighing
      <3>3. chart'[u][c] <= chart[u][c] + pass.taken[c][u] * Factor[c] /\ chart'[u][c] \in Int
        BY <1>8, <2>1, <2>4, <3>2 DEF NoRow
      <3>4. moved[c][u] * Factor[c] \in Nat
        BY <1>1, <2>1, Weighing DEF Typed
      <3> QED
        BY <2>1, <2>2, <3>1, <3>2, <3>3, <3>4
    <2> QED
      BY <2>3, <2>4
  <1>14. NothingTwice'
    BY <1>13 DEF NothingTwice
  <1> QED
    BY <1>10, <1>11, <1>12, <1>14 DEF IInv

\* A byte is transferred and counted.
LEMMA TransferHolds ==
    ASSUME IInv, NEW d \in Cores, NEW v \in Users, Transfer(d, v) PROVE IInv'
  <1> USE UsageAssumption
  <1>1. Typed /\ OnceEach /\ TakenOnce /\ NothingTwice
    BY DEF IInv
  <1>2. /\ counter' = [counter EXCEPT ![d][v] = @ + 1]
        /\ moved' = [moved EXCEPT ![d][v] = @ + 1]
        /\ UNCHANGED <<pass, chart>>
    BY DEF Transfer, dbVars
  <1>3. /\ counter' \in [Cores -> [Users -> Nat]] /\ moved' \in [Cores -> [Users -> Nat]]
    BY <1>1, <1>2 DEF Typed
  <1>4. \A u \in Users, c \in Cores :
            /\ counter[c][u] \in Nat /\ moved[c][u] \in Nat /\ pass.taken[c][u] \in Nat
            /\ Factor[c] \in Nat /\ chart[u][c] \in Int
    BY <1>1 DEF Typed, NoRow
  <1>5. \A u \in Users, c \in Cores :
            \/ counter'[c][u] = counter[c][u] /\ moved'[c][u] = moved[c][u]
            \/ counter'[c][u] = counter[c][u] + 1 /\ moved'[c][u] = moved[c][u] + 1
    BY <1>1, <1>2 DEF Typed
  <1>6. Typed'
    BY <1>1, <1>2, <1>3 DEF Typed
  <1>7. OnceEach'
    BY <1>1, <1>2 DEF OnceEach
  <1>8. TakenOnce'
    BY <1>1, <1>2, <1>4, <1>5 DEF TakenOnce
  <1>9. ASSUME NEW u \in Users, NEW c \in Cores
        PROVE  chart'[u][c] + Outstanding(u, c)' * Factor[c] <= moved'[c][u] * Factor[c]
    <2>1. chart[u][c] + Outstanding(u, c) * Factor[c] <= moved[c][u] * Factor[c]
      BY <1>1 DEF NothingTwice
    <2>2. CASE counter'[c][u] = counter[c][u] /\ moved'[c][u] = moved[c][u]
      <3>1. Outstanding(u, c)' = Outstanding(u, c)
        BY <1>2, <2>2 DEF Outstanding, Filled
      <3> QED
        BY <1>2, <2>1, <2>2, <3>1
    <2>3. CASE counter'[c][u] = counter[c][u] + 1 /\ moved'[c][u] = moved[c][u] + 1
      <3>1. Outstanding(u, c)' = Outstanding(u, c) + 1 /\ Outstanding(u, c) \in Nat
        <4>1. Filled(c)' = Filled(c) /\ pass'.taken = pass.taken
          BY <1>2 DEF Filled
        <4>2. CASE Filled(c)
          BY <1>4, <2>3, <4>1, <4>2 DEF Outstanding
        <4>3. CASE ~Filled(c)
          <5>1. Outstanding(u, c) = counter[c][u] + pass.taken[c][u]
            BY <4>3 DEF Outstanding
          <5>2. Outstanding(u, c)' = counter'[c][u] + pass.taken[c][u]
            BY <4>1, <4>3 DEF Outstanding
          <5> QED
            BY <1>4, <2>3, <5>1, <5>2
        <4> QED
          BY <4>2, <4>3
      <3>2. /\ (Outstanding(u, c) + 1) * Factor[c] = Outstanding(u, c) * Factor[c] + Factor[c]
            /\ Outstanding(u, c) * Factor[c] \in Nat
        BY <1>4, <3>1, OneMore
      <3>3. /\ (moved[c][u] + 1) * Factor[c] = moved[c][u] * Factor[c] + Factor[c]
            /\ moved[c][u] * Factor[c] \in Nat
        BY <1>4, OneMore
      <3> QED
        BY <1>2, <1>4, <2>1, <2>3, <3>1, <3>2, <3>3
    <2> QED
      BY <1>5, <2>2, <2>3
  <1>10. NothingTwice'
    BY <1>9 DEF NothingTwice
  <1> QED
    BY <1>6, <1>7, <1>8, <1>10 DEF IInv

\* A reset takes the rows of a user away.
LEMMA ResetHolds == ASSUME IInv, NEW h \in Handlers, ResetCommit(h) PROVE IInv'
  <1>1. Typed /\ OnceEach /\ TakenOnce
    BY DEF IInv
  <1>2. /\ UNCHANGED <<counter, moved, pass>>
        /\ chart' = [chart EXCEPT ![handler[h].user] = [c \in Cores |-> NoRow]]
    BY DEF ResetCommit, coreVars
  <1>3. /\ chart' \in [Users -> [Cores -> Nat \cup {NoRow}]]
        /\ \A u \in Users, c \in Cores : chart'[u][c] <= chart[u][c]
    <2> DEFINE none == [c \in Cores |-> NoRow]
    <2>1. none \in [Cores -> Nat \cup {NoRow}] /\ \A c \in Cores : none[c] = NoRow
      OBVIOUS
    <2> HIDE DEF none
    <2>2. /\ chart' \in [Users -> [Cores -> Nat \cup {NoRow}]]
          /\ \A u \in Users : chart'[u] = chart[u] \/ chart'[u] = none
      BY <1>1, <1>2, <2>1 DEF Typed, none
    <2>3. \A u \in Users, c \in Cores : chart[u][c] \in Nat \/ chart[u][c] = NoRow
      BY <1>1 DEF Typed
    <2>4. \A u \in Users, c \in Cores : chart'[u][c] = chart[u][c] \/ chart'[u][c] = NoRow
      BY <2>1, <2>2
    <2> QED
      BY <2>2, <2>3, <2>4 DEF NoRow
  <1>4. Typed' /\ OnceEach' /\ TakenOnce'
    BY <1>1, <1>2, <1>3 DEF Typed, OnceEach, TakenOnce
  <1>5. \A u \in Users, c \in Cores : Outstanding(u, c)' = Outstanding(u, c)
                                      /\ Outstanding(u, c) \in Nat
    BY <1>1, <1>2 DEF Outstanding, Filled, Typed
  <1> HIDE DEF Outstanding
  <1>6. \A u \in Users, c \in Cores : Outstanding(u, c)' <= Outstanding(u, c)
    BY <1>5
  <1> QED
    BY <1>2, <1>3, <1>4, <1>6, Quiet

\* A core that restarts has counted nothing.
LEMMA CoreRestartHolds == ASSUME IInv, NEW d \in Cores, CoreRestart(d) PROVE IInv'
  <1>1. Typed /\ OnceEach /\ TakenOnce
    BY DEF IInv
  <1>2. counter' = [counter EXCEPT ![d] = Nothing] /\ UNCHANGED <<moved, pass, chart>>
    BY DEF CoreRestart, dbVars
  <1>3. Nothing \in [Users -> Nat] /\ \A u \in Users : Nothing[u] = 0
    BY DEF Nothing
  <1>4. \A u \in Users, c \in Cores : /\ counter[c][u] \in Nat /\ pass.taken[c][u] \in Nat
                                      /\ moved[c][u] \in Nat /\ chart[u][c] \in Int
    BY <1>1 DEF Typed, NoRow
  <1>5. counter' \in [Cores -> [Users -> Nat]]
    BY <1>1, <1>2, <1>3 DEF Typed
  <1>6. \A c \in Cores : counter'[c] = IF c = d THEN Nothing ELSE counter[c]
    BY <1>1, <1>2 DEF Typed
  <1>7. \A u \in Users, c \in Cores : counter'[c][u] <= counter[c][u] /\ counter'[c][u] \in Nat
    BY <1>3, <1>4, <1>6
  <1>8. Typed' /\ OnceEach'
    BY <1>1, <1>2, <1>5 DEF Typed, OnceEach
  <1>9. TakenOnce'
    BY <1>1, <1>2, <1>4, <1>7 DEF TakenOnce
  <1>10. \A u \in Users, c \in Cores : Outstanding(u, c)' <= Outstanding(u, c)
    BY <1>2, <1>4, <1>7 DEF Outstanding, Filled
  <1> QED
    BY <1>2, <1>4, <1>8, <1>9, <1>10, Quiet

\* Nothing the bound speaks of changes.
LEMMA StutterHolds == ASSUME IInv, UNCHANGED <<counter, moved, pass, chart>> PROVE IInv'
  BY DEF IInv, Typed, OnceEach, TakenOnce, NothingTwice, Outstanding, Filled

\* Every step keeps the bound.
LEMMA Kept == IInv /\ [Next]_vars => IInv'
  <1> SUFFICES ASSUME IInv, [Next]_vars PROVE IInv'
    OBVIOUS
  <1>1. CASE Begin
    BY <1>1, PassIsReset DEF Begin, PassIdle, coreVars, dbVars
  <1>2. CASE PollEnd
    <2>1. Typed /\ pass.pc = "poll" /\ UNCHANGED <<counter, moved, chart>>
      BY <1>2 DEF IInv, PollEnd, coreVars, dbVars
    <2>2. pass' = PassIdle \/ pass' = [pass EXCEPT !.pc = "users", !.todo = {}]
      BY <1>2, <2>1 DEF PollEnd, Typed
    <2>3. CASE pass' = PassIdle
      BY <2>1, <2>3, PassIsReset DEF PassIdle
    <2>4. CASE pass' = [pass EXCEPT !.pc = "users", !.todo = {}]
      <3>1. pass' = [pass EXCEPT !.pc = "users", !.todo = pass.todo]
            /\ pass.todo \in SUBSET Cores
        BY <1>2, <2>1, <2>4 DEF PollEnd, Typed
      <3> QED
        BY <2>1, <3>1, PassMovesOn
    <2> QED
      BY <2>2, <2>3, <2>4
  <1>3. CASE StoreUsers
    <2>1. Typed
      BY DEF IInv
    <2>2. pass' = [pass EXCEPT !.pc = "admins", !.todo = pass.todo] /\ pass.todo \in SUBSET Cores
      BY <1>3, <2>1 DEF StoreUsers, Typed
    <2> QED
      BY <1>3, <2>2, PassMovesOn DEF StoreUsers, coreVars
  <1>4. CASE StoreAdmins
    BY <1>4, PassMovesOn DEF StoreAdmins, coreVars
  <1>5. CASE FillChart
    BY <1>5, FillChartHolds
  <1>6. CASE End \/ StatementFails \/ PanelRestart
    BY <1>6, PassIsReset DEF End, StatementFails, PanelRestart, PassIdle, coreVars, dbVars
  <1>7. ASSUME NEW c \in Cores, Poll(c) \/ OpenChart(c) PROVE IInv'
    BY <1>7, PollHolds, OpenChartHolds
  <1>8. ASSUME NEW h \in Handlers, ResetCommit(h) PROVE IInv'
    BY <1>8, ResetHolds
  <1>9. ASSUME NEW h \in Handlers, NEW u \in Users, ResetLoad(h, u) PROVE IInv'
    BY <1>9, StutterHolds DEF ResetLoad, coreVars, dbVars
  <1>10. ASSUME NEW c \in Cores, LinkChange(c) PROVE IInv'
    BY <1>10, StutterHolds DEF LinkChange, dbVars
  <1>11. ASSUME NEW c \in Cores, CoreRestart(c) PROVE IInv'
    BY <1>11, CoreRestartHolds
  <1>12. ASSUME NEW c \in Cores, NEW u \in Users, Transfer(c, u) PROVE IInv'
    BY <1>12, TransferHolds
  <1>13. CASE UNCHANGED vars
    BY <1>13, StutterHolds DEF vars, coreVars, dbVars
  <1> QED
    BY <1>1, <1>2, <1>3, <1>4, <1>5, <1>6, <1>7, <1>8, <1>9, <1>10, <1>11, <1>12, <1>13
       DEF Next, PassStep

--------------------------------------------------------------------------------
(***************************************************************************)
(* Theorem.                                                                *)
(***************************************************************************)
\* No chart ever shows more than was transferred over the core: whatever fails between
\* two transactions of record_user_usages, and however many resets delete rows beside
\* it, no reading of a counter reaches a row twice.
THEOREM UsageChartWithinTraffic == Spec => []ChartWithinTraffic
  <1>1. Init => IInv
    BY Starts
  <1>2. IInv /\ [Next]_vars => IInv'
    BY Kept
  <1>3. IInv => ChartWithinTraffic
    <2> SUFFICES ASSUME IInv, NEW u \in Users, NEW c \in Cores
                 PROVE  chart[u][c] <= moved[c][u] * Factor[c]
      BY DEF ChartWithinTraffic
    <2>1. /\ chart[u][c] \in Int /\ counter[c][u] \in Nat /\ pass.taken[c][u] \in Nat
          /\ Factor[c] \in Nat /\ moved[c][u] \in Nat
      BY UsageAssumption DEF IInv, Typed, NoRow
    <2>2. Outstanding(u, c) \in Nat
      BY <2>1 DEF Outstanding
    <2>3. chart[u][c] + Outstanding(u, c) * Factor[c] <= moved[c][u] * Factor[c]
      BY DEF IInv, NothingTwice
    <2> HIDE DEF Outstanding
    <2>4. Outstanding(u, c) * Factor[c] \in Nat /\ moved[c][u] * Factor[c] \in Nat
      BY <2>1, <2>2, Weighing
    <2> QED
      BY <2>1, <2>3, <2>4
  <1> QED
    BY <1>1, <1>2, <1>3, PTL DEF Spec

--------------------------------------------------------------------------------
(***************************************************************************)
(* Types.                                                                  *)
(***************************************************************************)
\* What is charged is natural, and never more than the weighted traffic.
LEMMA Rounding ==
    ASSUME NEW a \in Nat, NEW b \in Nat \ {0}
    PROVE  a \div b \in Nat /\ b * (a \div b) <= a
  <1>1. a \div b \in Nat
    OBVIOUS
  <1>2. b * (a \div b) <= a
    OBVIOUS
  <1> QED
    BY <1>1, <1>2

\* What a user is charged is natural, nothing for nothing and never more than the weight.
LEMMA ChargedIsNat ==
    ASSUME NEW c \in Cores, NEW v \in Nat
    PROVE  /\ Charged(c, v) \in Nat /\ v * Factor[c] \in Nat
           /\ Scale * Charged(c, v) <= v * Factor[c]
           /\ v = 0 => Charged(c, v) = 0
  <1>1. Scale \in Nat \ {0} /\ Factor[c] \in Nat
    BY UsageAssumption
  <1>2. v * Factor[c] \in Nat
    BY <1>1, Weighing
  <1>3. (v * Factor[c]) \div Scale \in Nat /\ Scale * ((v * Factor[c]) \div Scale) <= v * Factor[c]
    BY <1>1, <1>2, Rounding
  <1>4. ASSUME v = 0 PROVE Charged(c, v) = 0
    <2>1. v * Factor[c] = 0
      BY <1>1, <1>4
    <2>2. 0 \div Scale = 0
      BY <1>1
    <2> QED
      BY <2>1, <2>2 DEF Charged
  <1> QED
    BY <1>2, <1>3, <1>4 DEF Charged

\* So is what the pass will add to a user.
LEMMA UsageIsNat ==
    ASSUME TypeOK, NEW u \in Users
    PROVE  /\ UsageOf(u) \in Nat
           /\ (\A c \in Cores : pass.taken[c][u] = 0) => UsageOf(u) = 0
  <1> DEFINE f == [c \in Cores |-> Charged(c, pass.taken[c][u])]
  <1>1. \A c \in Cores : pass.taken[c][u] \in Nat
    BY DEF TypeOK
  <1>2. f \in [Cores -> Nat]
    BY <1>1, ChargedIsNat
  <1>3. IsFiniteSet(Cores)
    BY UsageAssumption
  <1>4. ASSUME \A c \in Cores : pass.taken[c][u] = 0 PROVE \A c \in Cores : f[c] = 0
    BY <1>1, <1>4, ChargedIsNat
  <1>5. f \in [Cores -> Int]
    BY <1>2
  <1> HIDE DEF f
  <1>6. Sum(f) \in Nat
    BY <1>2, <1>3, SumIsNat
  <1>7. (\A c \in Cores : f[c] = 0) => Sum(f) = 0
    BY <1>3, <1>5, SumIsZero
  <1> QED
    BY <1>4, <1>6, <1>7 DEF UsageOf, f

\* The types hold at first ...
LEMMA TypesStart == Init => TypeOK
  BY UsageAssumption DEF Init, TypeOK, Nothing, PassIdle, HandlerIdle, NoRow

\* ... and no step breaks one.
LEMMA TypesKept == TypeOK /\ [Next]_vars => TypeOK'
  <1> SUFFICES ASSUME TypeOK, [Next]_vars PROVE TypeOK'
    OBVIOUS
  <1> USE UsageAssumption
  <1> DEFINE PassType == [pc : {"idle", "poll", "users", "admins", "charts", "chart"},
                          todo : SUBSET Cores, core : Cores \cup {NoCore},
                          taken : [Cores -> [Users -> Nat]]]
             MishapType == [Users -> SUBSET {"fault", "reset", "overlap"}]
  <1>1. Nothing \in [Users -> Nat] /\ PassIdle \in PassType
    BY DEF Nothing, PassIdle
  <1>2. ASSUME NEW S, NEW w \in {"fault", "reset", "overlap"} PROVE Spoil(S, w) \in MishapType
    BY DEF Spoil, TypeOK
  <1>3. CASE Begin
    BY <1>3, <1>1 DEF Begin, TypeOK, coreVars, dbVars, PassIdle
  <1>4. ASSUME NEW c \in Cores, Poll(c) PROVE TypeOK'
    <2>1. pass' \in PassType
      <3>1. counter[c] \in [Users -> Nat] /\ pass \in PassType
        BY DEF TypeOK
      <3>2. \/ pass' = [pass EXCEPT !.todo = @ \ {c}, !.taken[c] = counter[c]]
            \/ pass' = [pass EXCEPT !.todo = @ \ {c}]
        BY <1>4 DEF Poll
      <3>3. CASE pass' = [pass EXCEPT !.todo = @ \ {c}, !.taken[c] = counter[c]]
        BY <3>1, <3>3
      <3>4. CASE pass' = [pass EXCEPT !.todo = @ \ {c}]
        BY <3>1, <3>4
      <3> QED
        BY <3>2, <3>3, <3>4
    <2>2. counter' \in [Cores -> [Users -> Nat]]
      <3>1. counter \in [Cores -> [Users -> Nat]]
        BY DEF TypeOK
      <3>2. counter' = counter \/ counter' = [counter EXCEPT ![c] = Nothing]
        BY <1>4 DEF Poll
      <3> QED
        BY <1>1, <3>1, <3>2
    <2>3. mishaps' \in MishapType
      BY <1>2, <1>4 DEF Poll, TypeOK
    <2> QED
      BY <1>4, <2>1, <2>2, <2>3 DEF Poll, TypeOK, dbVars
  <1>5. CASE PollEnd
    BY <1>1, <1>5 DEF PollEnd, TypeOK, coreVars, dbVars
  <1>6. CASE StoreUsers
    <2>1. used' \in [Users -> Nat]
      BY <1>6, UsageIsNat DEF StoreUsers, TypeOK
    <2>2. pass' \in PassType
      BY <1>6 DEF StoreUsers, TypeOK
    <2> QED
      BY <1>6, <2>1, <2>2 DEF StoreUsers, TypeOK, coreVars
  <1>7. CASE StoreAdmins
    <2>1. ASSUME NEW a \in Admins
          PROVE  Sum([u \in {v \in Users : Owner[v] = a} |-> UsageOf(u)]) \in Nat
      <3> DEFINE S == {v \in Users : Owner[v] = a}
                 f == [u \in S |-> UsageOf(u)]
      <3>1. f \in [S -> Nat]
        BY UsageIsNat
      <3>2. IsFiniteSet(S)
        <4>1. S \in SUBSET Users
          OBVIOUS
        <4> QED
          BY <4>1, FS_Subset
      <3> HIDE DEF S, f
      <3>3. Sum(f) \in Nat
        BY <3>1, <3>2, SumIsNat
      <3> QED
        BY <3>3 DEF S, f
    <2>2. billed' \in [Admins -> Nat]
      <3> DEFINE share(a) == Sum([u \in {v \in Users : Owner[v] = a} |-> UsageOf(u)])
      <3>1. billed' = [a \in Admins |-> billed[a] + share(a)]
        BY <1>7 DEF StoreAdmins
      <3>2. \A a \in Admins : share(a) \in Nat /\ billed[a] \in Nat
        BY <2>1 DEF TypeOK
      <3> HIDE DEF share
      <3> QED
        BY <3>1, <3>2
    <2>3. pass' \in PassType
      BY <1>7 DEF StoreAdmins, TypeOK
    <2> QED
      BY <1>7, <2>2, <2>3 DEF StoreAdmins, TypeOK, coreVars
  <1>8. ASSUME NEW c \in Cores, OpenChart(c) PROVE TypeOK'
    <2>1. chart' \in [Users -> [Cores -> Nat \cup {NoRow}]]
      BY <1>8 DEF OpenChart, TypeOK
    <2>2. pass' \in PassType
      BY <1>8 DEF OpenChart, TypeOK
    <2> QED
      BY <1>8, <2>1, <2>2 DEF OpenChart, TypeOK, coreVars
  <1>9. CASE FillChart
    <2> DEFINE d == pass.core
    <2>1. \A u \in Users : pass.taken[d][u] * Factor[d] \in Nat \/ d = NoCore
      <3>1. ASSUME NEW u \in Users, d # NoCore PROVE pass.taken[d][u] * Factor[d] \in Nat
        <4>1. d \in Cores /\ pass.taken[d][u] \in Nat
          BY <3>1 DEF TypeOK
        <4> QED
          BY <4>1, ChargedIsNat
      <3> QED
        BY <3>1
    <2>2. ASSUME NEW u \in Users
          PROVE  [chart[u] EXCEPT ![d] = IF @ = NoRow THEN @ ELSE @ + pass.taken[d][u] * Factor[d]]
                     \in [Cores -> Nat \cup {NoRow}]
      <3> DEFINE x == pass.taken[d][u] * Factor[d]
                 z == IF chart[u][d] = NoRow THEN chart[u][d] ELSE chart[u][d] + x
      <3>1. chart[u] \in [Cores -> Nat \cup {NoRow}]
        BY DEF TypeOK
      <3>2. x \in Nat \/ d \notin Cores
        BY <2>1
      <3> HIDE DEF x
      <3>3. z \in Nat \cup {NoRow} \/ d \notin Cores
        BY <3>1, <3>2
      <3> HIDE DEF z, d
      <3>4. [chart[u] EXCEPT ![d] = z] \in [Cores -> Nat \cup {NoRow}]
        BY <3>1, <3>3
      <3> QED
        BY <3>4 DEF z, x
    <2>3. chart' \in [Users -> [Cores -> Nat \cup {NoRow}]]
      BY <1>9, <2>2 DEF FillChart
    <2>4. pass' \in PassType
      BY <1>9 DEF FillChart, TypeOK
    <2> QED
      BY <1>9, <2>3, <2>4 DEF FillChart, TypeOK, coreVars
  <1>10. CASE End
    BY <1>1, <1>10 DEF End, TypeOK, coreVars, dbVars
  <1>11. CASE StatementFails
    BY <1>1, <1>2, <1>11 DEF StatementFails, TypeOK, coreVars, dbVars
  <1>12. ASSUME NEW h \in Handlers, NEW u \in Users, ResetLoad(h, u) PROVE TypeOK'
    BY <1>12 DEF ResetLoad, TypeOK, coreVars, dbVars
  <1>13. ASSUME NEW h \in Handlers, ResetCommit(h) PROVE TypeOK'
    <2> DEFINE u == handler[h].user
    <2>1. handler[h].used \in Nat
      BY DEF TypeOK
    <2>2. logged' \in [Users -> Nat]
      <3>1. logged \in [Users -> Nat] /\ logged' = [logged EXCEPT ![u] = @ + handler[h].used]
        BY <1>13 DEF ResetCommit, TypeOK
      <3> HIDE DEF u
      <3>2. CASE u \in Users
        BY <2>1, <3>1, <3>2
      <3>3. CASE u \notin Users
        BY <3>1, <3>3
      <3> QED
        BY <3>2, <3>3
    <2>3. used' \in [Users -> Nat]
      BY <1>13 DEF ResetCommit, TypeOK
    <2>4. [c \in Cores |-> NoRow] \in [Cores -> Nat \cup {NoRow}]
      OBVIOUS
    <2>5. chart' \in [Users -> [Cores -> Nat \cup {NoRow}]]
      BY <1>13, <2>4 DEF ResetCommit, TypeOK
    <2>6. mishaps' \in MishapType
      BY <1>13 DEF ResetCommit, TypeOK
    <2>7. handler' \in [Handlers -> [user : Users \cup {NoUser}, used : Nat]]
      BY <1>13 DEF ResetCommit, TypeOK, HandlerIdle
    <2> QED
      BY <1>13, <2>2, <2>3, <2>5, <2>6, <2>7 DEF ResetCommit, TypeOK, coreVars
  <1>14. ASSUME NEW c \in Cores, NEW u \in Users, Transfer(c, u) PROVE TypeOK'
    BY <1>14 DEF Transfer, TypeOK, dbVars
  <1>15. ASSUME NEW c \in Cores, LinkChange(c) PROVE TypeOK'
    BY <1>15 DEF LinkChange, TypeOK, dbVars
  <1>16. ASSUME NEW c \in Cores, CoreRestart(c) PROVE TypeOK'
    <2>1. counter' \in [Cores -> [Users -> Nat]]
      BY <1>1, <1>16 DEF CoreRestart, TypeOK
    <2> QED
      BY <1>2, <1>16, <2>1 DEF CoreRestart, TypeOK, dbVars
  <1>17. CASE PanelRestart
    <2>1. handler' \in [Handlers -> [user : Users \cup {NoUser}, used : Nat]]
      BY <1>17 DEF PanelRestart, HandlerIdle
    <2> QED
      BY <1>1, <1>2, <1>17, <2>1 DEF PanelRestart, TypeOK, coreVars, dbVars
  <1>18. CASE UNCHANGED vars
    BY <1>18 DEF TypeOK, vars, coreVars, dbVars
  <1> QED
    BY <1>3, <1>4, <1>5, <1>6, <1>7, <1>8, <1>9, <1>10, <1>11, <1>12, <1>13, <1>14, <1>15,
       <1>16, <1>17, <1>18 DEF Next, PassStep

\* Usage, bills, logs and charts are natural numbers, whatever is lost, and the pass is
\* always at one of its transactions.
THEOREM UsageTyping == Spec => []TypeOK
  BY TypesStart, TypesKept, PTL DEF Spec

--------------------------------------------------------------------------------
(***************************************************************************)
(* Usage within traffic.                                                   *)
(***************************************************************************)
\* Whether the users of this pass have been charged.
Stored == pass.pc \in {"admins", "charts", "chart"}

\* What was transferred over core c and may still be charged to user u.
Owed(u, c) == counter[c][u] + IF Stored THEN 0 ELSE pass.taken[c][u]

OwedOf(u)  == [c \in Cores |-> Owed(u, c)]
MovedOf(u) == [c \in Cores |-> moved[c][u]]

\* Bytes over the cores, in the units of Factor.
Weight(a) == Sum([c \in Cores |-> a[c] * Factor[c]])

\* What was charged and what may still be charged was transferred.
Covered(u) == Scale * (used[u] + logged[u]) + Weight(OwedOf(u)) <= Weight(MovedOf(u))

\* A reset under way that overlaps with no other will log no more than there is.
LoadedIsHeld ==
    \A h \in Handlers, u \in Users :
        handler[h].user = u /\ "overlap" \notin mishaps[u] => handler[h].used <= used[u]

UInv == LoadedIsHeld /\ \A u \in Users : "overlap" \notin mishaps[u] => Covered(u)

\* What has happened to a user's usage is not forgotten.
LEMMA MishapsStay ==
    ASSUME TypeOK, [Next]_vars, NEW u \in Users PROVE mishaps[u] \subseteq mishaps'[u]
  <1>1. ASSUME NEW S, NEW w PROVE mishaps[u] \subseteq Spoil(S, w)[u]
    BY DEF Spoil
  <1>2. CASE Begin \/ PollEnd \/ StoreUsers \/ StoreAdmins \/ FillChart \/ End
    BY <1>2 DEF Begin, PollEnd, StoreUsers, StoreAdmins, FillChart, End
  <1>3. ASSUME NEW c \in Cores, Poll(c) \/ OpenChart(c) \/ LinkChange(c) \/ CoreRestart(c)
        PROVE  mishaps[u] \subseteq mishaps'[u]
    BY <1>1, <1>3 DEF Poll, OpenChart, LinkChange, CoreRestart
  <1>4. CASE StatementFails \/ PanelRestart
    BY <1>1, <1>4 DEF StatementFails, PanelRestart
  <1>5. ASSUME NEW h \in Handlers, ResetCommit(h) PROVE mishaps[u] \subseteq mishaps'[u]
    BY <1>5 DEF ResetCommit, TypeOK
  <1>6. ASSUME NEW h \in Handlers, NEW v \in Users, ResetLoad(h, v)
        PROVE  mishaps[u] \subseteq mishaps'[u]
    BY <1>6 DEF ResetLoad
  <1>7. ASSUME NEW c \in Cores, NEW v \in Users, Transfer(c, v)
        PROVE  mishaps[u] \subseteq mishaps'[u]
    BY <1>7 DEF Transfer
  <1>8. CASE UNCHANGED vars
    BY <1>8 DEF vars
  <1> QED
    BY <1>2, <1>3, <1>4, <1>5, <1>6, <1>7, <1>8 DEF Next, PassStep

\* The weight of bytes is natural, grows with them and is that of their parts.
LEMMA WeightIsNat == ASSUME NEW a \in [Cores -> Nat] PROVE Weight(a) \in Nat
  <1> DEFINE f == [c \in Cores |-> a[c] * Factor[c]]
  <1>1. \A c \in Cores : a[c] \in Nat /\ Factor[c] \in Nat
    BY UsageAssumption
  <1>2. f \in [Cores -> Nat]
    BY <1>1, Weighing
  <1> HIDE DEF f
  <1>3. Sum(f) \in Nat
    BY <1>2, UsageAssumption, SumIsNat
  <1> QED
    BY <1>3 DEF Weight, f

\* More bytes weigh no less.
LEMMA WeightGrows ==
    ASSUME NEW a \in [Cores -> Nat], NEW b \in [Cores -> Nat], \A c \in Cores : a[c] <= b[c]
    PROVE  Weight(a) <= Weight(b)
  <1> DEFINE f == [c \in Cores |-> a[c] * Factor[c]]
             g == [c \in Cores |-> b[c] * Factor[c]]
  <1>1. \A c \in Cores : a[c] \in Nat /\ b[c] \in Nat /\ Factor[c] \in Nat
    BY UsageAssumption
  <1>2. f \in [Cores -> Int] /\ g \in [Cores -> Int] /\ \A c \in Cores : f[c] <= g[c]
    BY <1>1, Weighing
  <1> HIDE DEF f, g
  <1>3. Sum(f) <= Sum(g)
    BY <1>2, UsageAssumption, SumsGrow
  <1> QED
    BY <1>3 DEF Weight, f, g

\* Bytes weigh as much as their parts.
LEMMA WeightsAdd ==
    ASSUME NEW a \in [Cores -> Nat], NEW b \in [Cores -> Nat]
    PROVE  Weight([c \in Cores |-> a[c] + b[c]]) = Weight(a) + Weight(b)
  <1> DEFINE f == [c \in Cores |-> a[c] * Factor[c]]
             g == [c \in Cores |-> b[c] * Factor[c]]
             k == [c \in Cores |-> (a[c] + b[c]) * Factor[c]]
  <1>1. \A c \in Cores : a[c] \in Nat /\ b[c] \in Nat /\ Factor[c] \in Nat
    BY UsageAssumption
  <1>2. f \in [Cores -> Int] /\ g \in [Cores -> Int] /\ k \in [Cores -> Int]
    BY <1>1, Weighing
  <1>3. \A c \in Cores : k[c] = f[c] + g[c]
    BY <1>1, Weighing
  <1>4. k = [c \in Cores |-> [d \in Cores |-> a[d] + b[d]][c] * Factor[c]]
    OBVIOUS
  <1> HIDE DEF f, g, k
  <1>5. Sum(k) = Sum(f) + Sum(g)
    BY <1>2, <1>3, UsageAssumption, SumsAdd
  <1> QED
    BY <1>4, <1>5 DEF Weight, f, g

\* What is owed is natural, before a step ...
LEMMA OwedIsNat == ASSUME TypeOK, NEW u \in Users PROVE OwedOf(u) \in [Cores -> Nat]
  BY DEF TypeOK, OwedOf, Owed

\* ... and after it.
LEMMA OwedIsNatNext == ASSUME TypeOK', NEW u \in Users PROVE OwedOf(u)' \in [Cores -> Nat]
  BY DEF TypeOK, OwedOf, Owed, Stored

\* A step that charges no more and owes no more, while nothing is transferred.
LEMMA CoveredStays ==
    ASSUME TypeOK, TypeOK', NEW u \in Users, Covered(u),
           used'[u] + logged'[u] <= used[u] + logged[u],
           \A c \in Cores : Owed(u, c)' <= Owed(u, c) /\ moved'[c][u] = moved[c][u]
    PROVE  Covered(u)'
  <1>1. Weight(OwedOf(u)') <= Weight(OwedOf(u))
    <2>1. \A c \in Cores : OwedOf(u)'[c] <= OwedOf(u)[c]
      BY DEF OwedOf
    <2> QED
      BY <2>1, OwedIsNat, OwedIsNatNext, WeightGrows
  <1>2. Weight(OwedOf(u)') \in Int /\ Weight(OwedOf(u)) \in Int
    BY OwedIsNat, OwedIsNatNext, WeightIsNat
  <1>3. MovedOf(u)' = MovedOf(u)
    BY DEF MovedOf
  <1>4. Weight(MovedOf(u)) \in Int
    <2>1. MovedOf(u) \in [Cores -> Nat]
      BY DEF TypeOK, MovedOf
    <2> QED
      BY <2>1, WeightIsNat
  <1>5. Scale * (used'[u] + logged'[u]) <= Scale * (used[u] + logged[u])
        /\ Scale * (used'[u] + logged'[u]) \in Int /\ Scale * (used[u] + logged[u]) \in Int
    <2>1. Scale \in Nat /\ used[u] + logged[u] \in Nat /\ used'[u] + logged'[u] \in Nat
      BY UsageAssumption DEF TypeOK
    <2>2. ASSUME NEW a \in Nat, NEW b \in Nat, a <= b
          PROVE  Scale * a <= Scale * b /\ Scale * a \in Int /\ Scale * b \in Int
      <3>1. a * Scale <= b * Scale /\ a * Scale = Scale * a /\ b * Scale = Scale * b
        BY <2>1, <2>2, Weighing
      <3> QED
        BY <2>1, <3>1
    <2> QED
      BY <2>1, <2>2
  <1>6. Covered(u)' <=> Scale * (used'[u] + logged'[u]) + Weight(OwedOf(u)') <= Weight(MovedOf(u)')
    BY DEF Covered, Weight
  <1> QED
    BY <1>1, <1>2, <1>3, <1>4, <1>5, <1>6 DEF Covered

\* Resets that load, wait and commit beside a step that takes no usage away.
LEMMA LoadedStays ==
    ASSUME TypeOK, [Next]_vars, LoadedIsHeld,
           \A u \in Users : used[u] <= used'[u],
           \A h \in Handlers : handler'[h] = handler[h] \/ handler'[h] = HandlerIdle
    PROVE  LoadedIsHeld'
  <1> SUFFICES ASSUME NEW h \in Handlers, NEW u \in Users,
                      handler'[h].user = u, "overlap" \notin mishaps'[u]
               PROVE  handler'[h].used <= used'[u]
    BY DEF LoadedIsHeld
  <1>1. "overlap" \notin mishaps[u]
    BY MishapsStay
  <1>2. handler'[h] = handler[h]
    BY UsageAssumption DEF HandlerIdle
  <1>3. handler[h].used <= used[u]
    BY <1>1, <1>2 DEF LoadedIsHeld
  <1>4. handler[h].used \in Nat /\ used[u] \in Nat /\ used[u] <= used'[u]
    BY DEF TypeOK
  <1>5. used'[u] \in Nat
    BY TypesKept DEF TypeOK
  <1> QED
    BY <1>2, <1>3, <1>4, <1>5

\* A step that charges nobody, transfers nothing and owes nobody more.
LEMMA UsageStays ==
    ASSUME TypeOK, UInv, [Next]_vars, UNCHANGED <<used, logged, moved>>,
           \A h \in Handlers : handler'[h] = handler[h] \/ handler'[h] = HandlerIdle,
           \A u \in Users, c \in Cores : Owed(u, c)' <= Owed(u, c)
    PROVE  UInv'
  <1>1. TypeOK'
    BY TypesKept
  <1>2. LoadedIsHeld'
    <2>1. \A u \in Users : used[u] <= used'[u]
      BY DEF TypeOK
    <2> QED
      BY <2>1, LoadedStays DEF UInv
  <1>3. ASSUME NEW u \in Users, "overlap" \notin mishaps'[u] PROVE Covered(u)'
    <2>1. Covered(u)
      BY <1>3, MishapsStay DEF UInv
    <2>2. used'[u] + logged'[u] <= used[u] + logged[u]
      BY DEF TypeOK
    <2> QED
      BY <1>1, <2>1, <2>2, CoveredStays
  <1> QED
    BY <1>2, <1>3 DEF UInv

\* A pass that begins or is over, whatever it had in hand.
LEMMA UsageAtPassEnd ==
    ASSUME TypeOK, UInv, [Next]_vars,
           pass'.taken = [c \in Cores |-> Nothing], UNCHANGED <<used, logged, moved, counter>>,
           \A h \in Handlers : handler'[h] = handler[h] \/ handler'[h] = HandlerIdle
    PROVE  UInv'
  <1>1. ASSUME NEW u \in Users, NEW c \in Cores PROVE Owed(u, c)' <= Owed(u, c)
    <2>1. counter[c][u] \in Nat /\ pass.taken[c][u] \in Nat /\ pass'.taken[c][u] = 0
      BY DEF TypeOK, Nothing
    <2> QED
      BY <2>1 DEF Owed
  <1> QED
    BY <1>1, UsageStays

\* A core is read once: what is taken is no longer counted.
LEMMA UsageAtPoll ==
    ASSUME TypeOK, OnceEach, UInv, NEW d \in Cores, Poll(d) PROVE UInv'
  <1>1. [Next]_vars
    BY DEF Next, PassStep
  <1>2. pass.pc = "poll" /\ d \in pass.todo /\ UNCHANGED <<used, logged, moved, handler>>
    BY DEF Poll, dbVars
  <1>3. \A u \in Users : pass.taken[d][u] = 0
    BY <1>2 DEF OnceEach
  <1>4. ASSUME NEW u \in Users, NEW c \in Cores PROVE Owed(u, c)' <= Owed(u, c)
    <2>1. counter[c][u] \in Nat /\ pass.taken[c][u] \in Nat
      BY DEF TypeOK
    <2>2. Owed(u, c) = counter[c][u] + pass.taken[c][u]
      BY <1>2 DEF Owed, Stored
    <2>3. pass'.pc = "poll"
      BY <1>2 DEF Poll, TypeOK
    <2>4. Owed(u, c)' = counter'[c][u] + pass'.taken[c][u]
      BY <2>3 DEF Owed, Stored
    <2>5. CASE pass' = [pass EXCEPT !.todo = @ \ {d}, !.taken[d] = counter[d]]
               /\ counter' = [counter EXCEPT ![d] = Nothing]
      <3>1. pass'.taken = [pass.taken EXCEPT ![d] = counter[d]]
        BY <2>5 DEF TypeOK
      <3>2. c = d => pass'.taken[c][u] = counter[c][u] /\ counter'[c][u] = 0
        BY <2>5, <3>1 DEF TypeOK, Nothing
      <3>3. c # d => pass'.taken[c][u] = pass.taken[c][u] /\ counter'[c][u] = counter[c][u]
        BY <2>5, <3>1 DEF TypeOK
      <3> QED
        BY <1>3, <2>1, <2>2, <2>4, <3>2, <3>3
    <2>6. CASE /\ pass' = [pass EXCEPT !.todo = @ \ {d}]
               /\ counter' = counter \/ counter' = [counter EXCEPT ![d] = Nothing]
      <3>1. pass'.taken = pass.taken
        BY <2>6 DEF TypeOK
      <3>2. counter'[c][u] = counter[c][u] \/ counter'[c][u] = 0
        <4>1. Nothing[u] = 0 /\ counter \in [Cores -> [Users -> Nat]]
          BY DEF TypeOK, Nothing
        <4>2. counter'[c] = counter[c] \/ counter'[c] = Nothing
          BY <2>6, <4>1
        <4> QED
          BY <4>1, <4>2
      <3> QED
        BY <2>1, <2>2, <2>4, <3>1, <3>2
    <2> QED
      BY <2>5, <2>6 DEF Poll
  <1> QED
    BY <1>1, <1>2, <1>4, UsageStays

\* Truncation never charges a user for more than the pass has taken.
LEMMA ChargedIsTaken ==
    ASSUME TypeOK, NEW u \in Users
    PROVE  /\ [c \in Cores |-> pass.taken[c][u]] \in [Cores -> Nat]
           /\ Scale * UsageOf(u) <= Weight([c \in Cores |-> pass.taken[c][u]])
  <1> DEFINE t == [c \in Cores |-> pass.taken[c][u]]
             f == [c \in Cores |-> Charged(c, pass.taken[c][u])]
             g == [c \in Cores |-> Scale * Charged(c, pass.taken[c][u])]
             k == [c \in Cores |-> t[c] * Factor[c]]
  <1>1. t \in [Cores -> Nat]
    BY DEF TypeOK
  <1>2. \A c \in Cores : /\ pass.taken[c][u] \in Nat
                         /\ Charged(c, pass.taken[c][u]) \in Nat /\ pass.taken[c][u] * Factor[c] \in Nat
                         /\ Scale * Charged(c, pass.taken[c][u]) <= pass.taken[c][u] * Factor[c]
    BY ChargedIsNat DEF TypeOK
  <1>3. Scale \in Nat /\ IsFiniteSet(Cores)
    BY UsageAssumption
  <1>4. f \in [Cores -> Int] /\ k \in [Cores -> Int]
    BY <1>2
  <1>5. g \in [Cores -> Int]
    BY <1>2, <1>3
  <1>6. \A c \in Cores : g[c] = Scale * f[c] /\ g[c] <= k[c]
    BY <1>2
  <1> HIDE DEF f, g, k
  <1>7. Sum(g) = Scale * Sum(f)
    BY <1>3, <1>4, <1>5, <1>6, SumsScale
  <1>8. Sum(g) <= Sum(k)
    BY <1>3, <1>4, <1>5, <1>6, SumsGrow
  <1> QED
    BY <1>1, <1>7, <1>8 DEF UsageOf, Weight, f, k

\* The users are charged for what was taken.
LEMMA UsageAtStoreUsers == ASSUME TypeOK, UInv, StoreUsers PROVE UInv'
  <1>1. [Next]_vars
    BY DEF Next, PassStep
  <1>2. TypeOK'
    BY <1>1, TypesKept
  <1>3. /\ pass.pc = "users" /\ pass'.pc = "admins" /\ UNCHANGED <<counter, moved, logged, handler>>
        /\ \A u \in Users : used'[u] = used[u] + UsageOf(u)
    BY DEF StoreUsers, TypeOK, coreVars
  <1>4. LoadedIsHeld'
    <2>1. \A u \in Users : used[u] <= used'[u]
      BY <1>3, UsageIsNat DEF TypeOK
    <2> QED
      BY <1>1, <1>3, <2>1, LoadedStays DEF UInv
  <1>5. ASSUME NEW u \in Users, "overlap" \notin mishaps'[u] PROVE Covered(u)'
    <2> DEFINE t == [c \in Cores |-> pass.taken[c][u]]
               n == [c \in Cores |-> counter[c][u]]
    <2>1. Covered(u)
      BY <1>1, <1>5, MishapsStay DEF UInv
    <2>2. n \in [Cores -> Nat] /\ t \in [Cores -> Nat]
      BY DEF TypeOK
    <2>3. OwedOf(u) = [c \in Cores |-> n[c] + t[c]]
      BY <1>3 DEF OwedOf, Owed, Stored
    <2>4. OwedOf(u)' = n
      <3>1. \A c \in Cores : Owed(u, c)' = counter[c][u]
        <4>1. \A c \in Cores : counter[c][u] \in Nat
          BY DEF TypeOK
        <4> QED
          BY <1>3, <4>1 DEF Owed, Stored
      <3> QED
        BY <3>1 DEF OwedOf
    <2>5. Scale * UsageOf(u) <= Weight(t)
      BY ChargedIsTaken
    <2> HIDE DEF t, n
    <2>6. Weight(OwedOf(u)) = Weight(n) + Weight(t) /\ Weight(n) \in Nat /\ Weight(t) \in Nat
      BY <2>2, <2>3, WeightsAdd, WeightIsNat
    <2>7. Scale * ((used[u] + UsageOf(u)) + logged[u]) = Scale * (used[u] + logged[u]) + Scale * UsageOf(u)
          /\ Scale * UsageOf(u) \in Int /\ Scale * (used[u] + logged[u]) \in Int
      <3>1. Scale \in Nat /\ used[u] \in Nat /\ logged[u] \in Nat /\ UsageOf(u) \in Nat
        BY UsageAssumption, UsageIsNat DEF TypeOK
      <3>2. (used[u] + UsageOf(u)) + logged[u] = (used[u] + logged[u]) + UsageOf(u)
        BY <3>1
      <3>3. ASSUME NEW a \in Nat, NEW b \in Nat
            PROVE  Scale * (a + b) = Scale * a + Scale * b /\ Scale * a \in Int /\ Scale * b \in Int
        BY <3>1
      <3>4. used[u] + logged[u] \in Nat
        BY <3>1
      <3> QED
        BY <3>1, <3>2, <3>3, <3>4
    <2>8. MovedOf(u)' = MovedOf(u)
      BY <1>3 DEF MovedOf
    <2>9. Weight(MovedOf(u)) \in Int
      <3>1. MovedOf(u) \in [Cores -> Nat]
        BY DEF TypeOK, MovedOf
      <3> QED
        BY <3>1, WeightIsNat
    <2>10. Covered(u)' <=> Scale * (used'[u] + logged'[u]) + Weight(OwedOf(u)') <= Weight(MovedOf(u)')
      BY DEF Covered, Weight
    <2>11. Scale * (used[u] + logged[u]) + Weight(OwedOf(u)) <= Weight(MovedOf(u))
      BY <2>1 DEF Covered
    <2>12. used'[u] + logged'[u] = (used[u] + UsageOf(u)) + logged[u]
      BY <1>3
    <2> QED
      BY <2>4, <2>5, <2>6, <2>7, <2>8, <2>9, <2>10, <2>11, <2>12
  <1> QED
    BY <1>4, <1>5 DEF UInv

\* A byte that is transferred may be charged.
LEMMA UsageAtTransfer ==
    ASSUME TypeOK, UInv, NEW d \in Cores, NEW v \in Users, Transfer(d, v) PROVE UInv'
  <1>1. [Next]_vars
    BY DEF Next
  <1>2. TypeOK'
    BY <1>1, TypesKept
  <1>3. UNCHANGED <<used, logged, pass, handler, mishaps>>
    BY DEF Transfer, dbVars
  <1>4. LoadedIsHeld'
    BY <1>3 DEF UInv, LoadedIsHeld
  <1>5. ASSUME NEW u \in Users, "overlap" \notin mishaps'[u] PROVE Covered(u)'
    <2> DEFINE one == [c \in Cores |-> IF c = d /\ u = v THEN 1 ELSE 0]
    <2>1. Covered(u)
      BY <1>1, <1>5, MishapsStay DEF UInv
    <2>2. one \in [Cores -> Nat] /\ OwedOf(u) \in [Cores -> Nat] /\ MovedOf(u) \in [Cores -> Nat]
      BY OwedIsNat DEF MovedOf, TypeOK
    <2>3. \A c \in Cores : /\ counter[c][u] \in Nat /\ pass.taken[c][u] \in Nat /\ moved[c][u] \in Nat
                           /\ counter'[c][u] = counter[c][u] + one[c]
                           /\ moved'[c][u] = moved[c][u] + one[c]
                           /\ one[c] \in Nat
      BY DEF Transfer, TypeOK
    <2> HIDE DEF one
    <2>4. OwedOf(u)' = [c \in Cores |-> OwedOf(u)[c] + one[c]]
      <3>1. \A c \in Cores : Owed(u, c)' = Owed(u, c) + one[c]
        BY <1>3, <2>3 DEF Owed, Stored
      <3> QED
        BY <3>1 DEF OwedOf
    <2>5. MovedOf(u)' = [c \in Cores |-> MovedOf(u)[c] + one[c]]
      BY <2>3 DEF MovedOf
    <2>6. /\ Weight(OwedOf(u)') = Weight(OwedOf(u)) + Weight(one)
          /\ Weight(MovedOf(u)') = Weight(MovedOf(u)) + Weight(one)
      BY <2>2, <2>4, <2>5, WeightsAdd
    <2>7. Weight(one) \in Int /\ Weight(OwedOf(u)) \in Int /\ Weight(MovedOf(u)) \in Int
      BY <2>2, WeightIsNat
    <2>8. Scale * (used[u] + logged[u]) \in Int
      BY UsageAssumption DEF TypeOK
    <2>9. Covered(u)' <=> Scale * (used[u] + logged[u]) + Weight(OwedOf(u)') <= Weight(MovedOf(u)')
      BY <1>3 DEF Covered, Weight
    <2> QED
      BY <2>1, <2>6, <2>7, <2>8, <2>9 DEF Covered
  <1> QED
    BY <1>4, <1>5 DEF UInv

\* A reset moves to the log what it loaded, which is still there: another reset of the
\* user would have made this one an overlap.
LEMMA UsageAtReset == ASSUME TypeOK, UInv, NEW h \in Handlers, ResetCommit(h) PROVE UInv'
  <1> DEFINE v == handler[h].user
  <1>1. [Next]_vars
    BY DEF Next
  <1>2. TypeOK'
    BY <1>1, TypesKept
  <1>3. /\ UNCHANGED <<counter, moved, pass>> /\ handler[h].used \in Nat
        /\ handler' = [handler EXCEPT ![h] = HandlerIdle]
        /\ used' = IF handler[h].used = 0 THEN used ELSE [used EXCEPT ![v] = 0]
        /\ logged' = [logged EXCEPT ![v] = @ + handler[h].used]
        /\ mishaps' = [mishaps EXCEPT ![v] = @ \cup {"reset"} \cup
               IF \E g \in Handlers \ {h} : handler[g].user = v THEN {"overlap"} ELSE {}]
    BY DEF ResetCommit, coreVars, TypeOK
  <1>4. ASSUME NEW u \in Users
        PROVE  /\ used[u] \in Nat /\ logged[u] \in Nat
               /\ u # v => used'[u] = used[u] /\ logged'[u] = logged[u]
               /\ u = v => /\ logged'[u] = logged[u] + handler[h].used
                           /\ used'[u] = IF handler[h].used = 0 THEN used[u] ELSE 0
    BY <1>3 DEF TypeOK
  <1>5. ASSUME NEW g \in Handlers, NEW u \in Users,
               handler'[g].user = u, "overlap" \notin mishaps'[u]
        PROVE  handler'[g].used <= used'[u]
    <2>1. g # h /\ handler'[g] = handler[g]
      BY <1>3, <1>5, UsageAssumption DEF TypeOK, HandlerIdle
    <2>2. u # v
      <3>1. ASSUME u = v PROVE FALSE
        <4>1. \E k \in Handlers \ {h} : handler[k].user = v
          BY <1>5, <2>1, <3>1
        <4>2. "overlap" \in mishaps'[v]
          BY <1>3, <3>1, <4>1 DEF TypeOK
        <4> QED
          BY <1>5, <3>1, <4>2
      <3> QED
        BY <3>1
    <2>3. handler[g].used <= used[u]
      BY <1>1, <1>5, <2>1, MishapsStay DEF UInv, LoadedIsHeld
    <2> QED
      BY <1>4, <2>1, <2>2, <2>3
  <1>6. ASSUME NEW u \in Users, "overlap" \notin mishaps'[u] PROVE Covered(u)'
    <2>1. Covered(u) /\ "overlap" \notin mishaps[u]
      BY <1>1, <1>6, MishapsStay DEF UInv
    <2>2. used'[u] + logged'[u] <= used[u] + logged[u]
      <3>1. u = v => handler[h].used <= used[u]
        BY <2>1 DEF UInv, LoadedIsHeld
      <3> HIDE DEF v
      <3> QED
        BY <1>3, <1>4, <3>1
    <2>3. \A c \in Cores : Owed(u, c)' <= Owed(u, c) /\ moved'[c][u] = moved[c][u]
      <3>1. \A c \in Cores : Owed(u, c)' = Owed(u, c) /\ Owed(u, c) \in Nat
        BY <1>3 DEF Owed, Stored, TypeOK
      <3> HIDE DEF Owed
      <3> QED
        BY <1>3, <3>1
    <2> QED
      BY <1>2, <2>1, <2>2, <2>3, CoveredStays
  <1>7. LoadedIsHeld'
    BY <1>5 DEF LoadedIsHeld
  <1> QED
    BY <1>6, <1>7 DEF UInv

\* Nobody is charged at first.
LEMMA UsageStarts == Init => UInv
  <1> SUFFICES ASSUME Init PROVE UInv
    OBVIOUS
  <1> USE UsageAssumption
  <1>1. LoadedIsHeld
    BY DEF Init, LoadedIsHeld, HandlerIdle, Nothing
  <1>2. ASSUME NEW u \in Users PROVE Covered(u)
    <2> DEFINE z == [c \in Cores |-> 0]
    <2>1. OwedOf(u) = z /\ MovedOf(u) = z
      BY DEF Init, OwedOf, Owed, Stored, MovedOf, PassIdle, Nothing
    <2>2. Weight(z) \in Nat
      BY WeightIsNat
    <2>3. Scale * (used[u] + logged[u]) = 0
      BY DEF Init, Nothing
    <2> HIDE DEF z
    <2> QED
      BY <2>1, <2>2, <2>3 DEF Covered
  <1> QED
    BY <1>1, <1>2 DEF UInv

\* No step charges for what was not transferred, or for it twice.
LEMMA UsageKept == TypeOK /\ OnceEach /\ UInv /\ [Next]_vars => UInv'
  <1> SUFFICES ASSUME TypeOK, OnceEach, UInv, [Next]_vars PROVE UInv'
    OBVIOUS
  <1>1. CASE Begin \/ (PollEnd /\ InHand = {}) \/ End \/ StatementFails \/ PanelRestart
    <2>1. /\ pass'.taken = [c \in Cores |-> Nothing] /\ UNCHANGED <<used, logged, moved, counter>>
          /\ \A h \in Handlers : handler'[h] = handler[h] \/ handler'[h] = HandlerIdle
      <3>1. PassIdle.taken = [c \in Cores |-> Nothing]
        BY DEF PassIdle
      <3>2. CASE Begin
        BY <3>1, <3>2 DEF Begin, PassIdle, coreVars, dbVars
      <3>3. CASE (PollEnd /\ InHand = {}) \/ End \/ StatementFails
        BY <3>1, <3>3 DEF PollEnd, End, StatementFails, coreVars, dbVars
      <3>4. CASE PanelRestart
        BY <3>1, <3>4 DEF PanelRestart, coreVars, dbVars
      <3> QED
        BY <1>1, <3>2, <3>3, <3>4
    <2> QED
      BY <2>1, UsageAtPassEnd
  <1>2. CASE (PollEnd /\ InHand # {}) \/ StoreAdmins \/ FillChart
             \/ (\E c \in Cores : OpenChart(c) \/ LinkChange(c))
             \/ (\E h \in Handlers, u \in Users : ResetLoad(h, u)) \/ UNCHANGED vars
    <2>1. /\ UNCHANGED <<used, logged, moved, counter, mishaps>>
          /\ pass'.taken = pass.taken /\ (Stored => Stored')
      <3>1. CASE PollEnd /\ InHand # {}
        BY <3>1 DEF PollEnd, Stored, TypeOK, coreVars, dbVars
      <3>2. CASE StoreAdmins \/ FillChart \/ \E c \in Cores : OpenChart(c)
        BY <3>2 DEF StoreAdmins, FillChart, OpenChart, Stored, TypeOK, coreVars
      <3>3. CASE \E c \in Cores : LinkChange(c)
        BY <3>3 DEF LinkChange, Stored, dbVars
      <3>4. CASE \E h \in Handlers, u \in Users : ResetLoad(h, u)
        BY <3>4 DEF ResetLoad, Stored, coreVars, dbVars
      <3>5. CASE UNCHANGED vars
        BY <3>5 DEF vars, Stored, coreVars, dbVars
      <3> QED
        BY <1>2, <3>1, <3>2, <3>3, <3>4, <3>5
    <2>2. ASSUME NEW u \in Users, NEW c \in Cores PROVE Owed(u, c)' <= Owed(u, c)
      <3>1. counter[c][u] \in Nat /\ pass.taken[c][u] \in Nat
        BY DEF TypeOK
      <3> QED
        BY <2>1, <3>1 DEF Owed
    <2>3. CASE \E h \in Handlers, u \in Users : ResetLoad(h, u)
      <3>1. ASSUME NEW g \in Handlers, NEW u \in Users,
                   handler'[g].user = u, "overlap" \notin mishaps'[u]
            PROVE  handler'[g].used <= used'[u]
        <4>1. handler'[g] = handler[g] \/ \E v \in Users : handler'[g] = [user |-> v, used |-> used[v]]
          BY <2>3 DEF ResetLoad, TypeOK
        <4>2. used[u] \in Nat
          BY DEF TypeOK
        <4>3. CASE handler'[g] = handler[g]
          BY <2>1, <3>1, <4>3 DEF UInv, LoadedIsHeld
        <4>4. CASE \E v \in Users : handler'[g] = [user |-> v, used |-> used[v]]
          BY <2>1, <3>1, <4>2, <4>4
        <4> QED
          BY <4>1, <4>3, <4>4
      <3>2. LoadedIsHeld'
        BY <3>1 DEF LoadedIsHeld
      <3>3. ASSUME NEW u \in Users, "overlap" \notin mishaps'[u] PROVE Covered(u)'
        <4>1. Covered(u)
          BY <2>1, <3>3 DEF UInv
        <4>2. used'[u] + logged'[u] <= used[u] + logged[u]
          BY <2>1 DEF TypeOK
        <4> QED
          BY <2>1, <2>2, <4>1, <4>2, TypesKept, CoveredStays
      <3> QED
        BY <3>2, <3>3 DEF UInv
    <2>4. CASE ~\E h \in Handlers, u \in Users : ResetLoad(h, u)
      <3>1. handler' = handler
        BY <1>2, <2>4 DEF PollEnd, StoreAdmins, FillChart, OpenChart, LinkChange, vars
      <3> QED
        BY <2>1, <2>2, <3>1, UsageStays
    <2> QED
      BY <2>3, <2>4
  <1>3. ASSUME NEW c \in Cores, CoreRestart(c) PROVE UInv'
    <2>1. UNCHANGED <<used, logged, moved, handler, pass>>
      BY <1>3 DEF CoreRestart, dbVars
    <2>2. ASSUME NEW u \in Users, NEW d \in Cores PROVE Owed(u, d)' <= Owed(u, d)
      <3>1. counter[d][u] \in Nat /\ pass.taken[d][u] \in Nat
        BY DEF TypeOK
      <3>2. counter'[d][u] = counter[d][u] \/ counter'[d][u] = 0
        <4>1. Nothing[u] = 0 /\ counter \in [Cores -> [Users -> Nat]]
          BY DEF TypeOK, Nothing
        <4>2. counter'[d] = counter[d] \/ counter'[d] = Nothing
          BY <1>3, <4>1 DEF CoreRestart
        <4> QED
          BY <4>1, <4>2
      <3> QED
        BY <2>1, <3>1, <3>2 DEF Owed, Stored
    <2> QED
      BY <2>1, <2>2, UsageStays
  <1>4. CASE StoreUsers
    BY <1>4, UsageAtStoreUsers
  <1>5. ASSUME NEW c \in Cores, Poll(c) PROVE UInv'
    BY <1>5, UsageAtPoll
  <1>6. ASSUME NEW h \in Handlers, ResetCommit(h) PROVE UInv'
    BY <1>6, UsageAtReset
  <1>7. ASSUME NEW c \in Cores, NEW u \in Users, Transfer(c, u) PROVE UInv'
    BY <1>7, UsageAtTransfer
  <1> QED
    BY <1>1, <1>2, <1>3, <1>4, <1>5, <1>6, <1>7 DEF Next, PassStep

\* Whatever fails between two transactions of record_user_usages, and however resets
\* fall between its steps, nobody is charged for more than was transferred: neither in a
\* chart nor, unless two resets of the user overlap, in the lifetime usage.
THEOREM UsageNeverOvercharged == Spec => []NeverOvercharged
  <1>1. TypeOK /\ UInv => \A u \in Users : "overlap" \notin mishaps[u] =>
            Scale * (used[u] + logged[u]) <= Sum([c \in Cores |-> moved[c][u] * Factor[c]])
    <2> SUFFICES ASSUME TypeOK, UInv, NEW u \in Users, "overlap" \notin mishaps[u]
                 PROVE  Scale * (used[u] + logged[u]) <= Sum([c \in Cores |-> moved[c][u] * Factor[c]])
      OBVIOUS
    <2>1. Covered(u)
      BY DEF UInv
    <2>2. Weight(MovedOf(u)) = Sum([c \in Cores |-> moved[c][u] * Factor[c]])
      <3>1. [c \in Cores |-> MovedOf(u)[c] * Factor[c]] = [c \in Cores |-> moved[c][u] * Factor[c]]
        BY DEF MovedOf
      <3> QED
        BY <3>1 DEF Weight
    <2>3. Weight(OwedOf(u)) \in Nat /\ Weight(MovedOf(u)) \in Int
      <3>1. MovedOf(u) \in [Cores -> Nat]
        BY DEF TypeOK, MovedOf
      <3> QED
        BY <3>1, OwedIsNat, WeightIsNat
    <2>4. Scale * (used[u] + logged[u]) \in Int
      BY UsageAssumption DEF TypeOK
    <2> QED
      BY <2>1, <2>2, <2>3, <2>4 DEF Covered
  <1>2. IInv => OnceEach
    BY DEF IInv
  <1> QED
    BY <1>1, <1>2, Starts, Kept, UsageStarts, UsageKept, UsageTyping, UsageChartWithinTraffic, PTL
       DEF Spec, NeverOvercharged

--------------------------------------------------------------------------------
(***************************************************************************)
(* The bills of the admins.                                                *)
(***************************************************************************)
UsersOf(a) == {u \in Users : Owner[u] = a}

\* What the users of this pass were charged for and their admin was not yet.
Unbilled(u) == IF pass.pc = "admins" THEN UsageOf(u) ELSE 0

Spent(u)   == used[u] + logged[u]
Total(a)   == Sum([u \in UsersOf(a) |-> Spent(u)])
Waiting(a) == Sum([u \in UsersOf(a) |-> Unbilled(u)])

\* Bills, with those still to be written, are what the users used; a reset takes away.
Even(a) ==
    /\ (\A u \in UsersOf(a) : mishaps[u] \subseteq {"reset"}) => billed[a] + Waiting(a) >= Total(a)
    /\ (\A u \in UsersOf(a) : mishaps[u] = {}) => billed[a] + Waiting(a) = Total(a)

BillsEven == \A a \in Admins : Even(a)

\* A pass that is over has nothing in hand.
IdleHoldsNothing == pass.pc = "idle" => pass = PassIdle

\* An admin has finitely many users.
LEMMA UsersOfFinite == ASSUME NEW a PROVE UsersOf(a) \in SUBSET Users /\ IsFiniteSet(UsersOf(a))
  <1>1. UsersOf(a) \in SUBSET Users
    BY DEF UsersOf
  <1> QED
    BY <1>1, UsageAssumption, FS_Subset

\* What is used and what waits is natural.
LEMMA SharesAreNat ==
    ASSUME TypeOK, NEW u \in Users PROVE Spent(u) \in Nat /\ Unbilled(u) \in Nat
  BY UsageIsNat DEF TypeOK, Spent, Unbilled

\* So it is after a step.
LEMMA SharesAreNatNext ==
    ASSUME TypeOK, [Next]_vars, NEW u \in Users PROVE Spent(u)' \in Nat /\ Unbilled(u)' \in Nat
  <1>1. Spent(u)' \in Nat
    BY TypesKept DEF TypeOK, Spent
  <1>2. (TypeOK => UsageOf(u) \in Nat)'
    BY UsageIsNat, PTL
  <1>3. Unbilled(u)' \in Nat
    BY <1>2, TypesKept DEF Unbilled
  <1> QED
    BY <1>1, <1>3

\* Two pairs of shares, one below the other, have sums in the same order.
LEMMA SumsOfPairs ==
    ASSUME NEW S, IsFiniteSet(S), NEW f \in [S -> Int], NEW g \in [S -> Int],
           NEW h \in [S -> Int], NEW k \in [S -> Int],
           \A x \in S : f[x] + g[x] <= h[x] + k[x]
    PROVE  /\ Sum(f) \in Int /\ Sum(g) \in Int /\ Sum(h) \in Int /\ Sum(k) \in Int
           /\ Sum(f) + Sum(g) <= Sum(h) + Sum(k)
  <1> DEFINE l == [x \in S |-> f[x] + g[x]]
             r == [x \in S |-> h[x] + k[x]]
  <1>1. l \in [S -> Int] /\ r \in [S -> Int] /\ \A x \in S : l[x] = f[x] + g[x] /\ r[x] = h[x] + k[x]
    OBVIOUS
  <1>2. \A x \in S : l[x] <= r[x]
    BY <1>1
  <1> HIDE DEF l, r
  <1>3. Sum(l) = Sum(f) + Sum(g)
    BY <1>1, SumsAdd
  <1>4. Sum(r) = Sum(h) + Sum(k)
    BY <1>1, SumsAdd
  <1>5. Sum(l) <= Sum(r)
    BY <1>1, <1>2, SumsGrow
  <1> QED
    BY <1>3, <1>4, <1>5, SumIsInt

\* What a step may do to a user: use no more than is billed, and exactly that unless a
\* mishap befalls the user.
Settled(u) ==
    /\ mishaps'[u] \subseteq {"reset"} => Spent(u)' + Unbilled(u) <= Spent(u) + Unbilled(u)'
    /\ mishaps'[u] = {} => Spent(u)' + Unbilled(u) = Spent(u) + Unbilled(u)'

\* The bill of an admin stays right while every user is settled.
LEMMA EvenStays ==
    ASSUME TypeOK, [Next]_vars, NEW a \in Admins, Even(a), UNCHANGED billed,
           \A u \in UsersOf(a) : Settled(u)
    PROVE  Even(a)'
  <1> DEFINE S == UsersOf(a)
             t == [u \in S |-> Spent(u)]
             w == [u \in S |-> Unbilled(u)]
             tn == [u \in S |-> Spent(u)']
             wn == [u \in S |-> Unbilled(u)']
  <1>1. S \in SUBSET Users /\ IsFiniteSet(S)
    BY UsersOfFinite
  <1>2. /\ t \in [S -> Int] /\ w \in [S -> Int] /\ tn \in [S -> Int] /\ wn \in [S -> Int]
        /\ \A u \in S : t[u] = Spent(u) /\ w[u] = Unbilled(u) /\ tn[u] = Spent(u)' /\ wn[u] = Unbilled(u)'
    <2>1. ASSUME NEW u \in S
          PROVE  Spent(u) \in Int /\ Unbilled(u) \in Int /\ Spent(u)' \in Int /\ Unbilled(u)' \in Int
      BY <1>1, SharesAreNat, SharesAreNatNext
    <2> HIDE DEF S
    <2> QED
      BY <2>1
  <1>3. Sum(t) = Total(a) /\ Sum(w) = Waiting(a)
    BY DEF Total, Waiting
  <1>4. Sum(tn) = Total(a)' /\ Sum(wn) = Waiting(a)'
    BY DEF Total, Waiting, UsersOf
  <1>5. billed[a] \in Int /\ billed'[a] = billed[a]
    BY DEF TypeOK
  <1>6. \A u \in S : mishaps[u] \subseteq mishaps'[u]
    BY <1>1, MishapsStay
  <1>7. \A u \in S : Settled(u)
    OBVIOUS
  <1> HIDE DEF S, t, w, tn, wn
  <1>8. Sum(t) \in Int /\ Sum(w) \in Int /\ Sum(tn) \in Int /\ Sum(wn) \in Int
    BY <1>1, <1>2, SumIsInt
  <1>9. ASSUME \A u \in S : mishaps'[u] \subseteq {"reset"}
        PROVE  billed'[a] + Waiting(a)' >= Total(a)'
    <2>1. \A u \in S : tn[u] + w[u] <= t[u] + wn[u]
      BY <1>2, <1>7, <1>9 DEF Settled
    <2>2. Sum(tn) + Sum(w) <= Sum(t) + Sum(wn)
      BY <1>1, <1>2, <2>1, SumsOfPairs
    <2>3. billed[a] + Waiting(a) >= Total(a)
      BY <1>6, <1>9 DEF Even, S
    <2> QED
      BY <1>3, <1>4, <1>5, <1>8, <2>2, <2>3
  <1>10. ASSUME \A u \in S : mishaps'[u] = {}
         PROVE  billed'[a] + Waiting(a)' = Total(a)'
    <2>1. \A u \in S : tn[u] + w[u] = t[u] + wn[u]
      BY <1>2, <1>7, <1>10 DEF Settled
    <2>2. \A u \in S : tn[u] + w[u] <= t[u] + wn[u] /\ t[u] + wn[u] <= tn[u] + w[u]
      BY <1>2, <2>1
    <2>3. Sum(tn) + Sum(w) <= Sum(t) + Sum(wn)
      BY <1>1, <1>2, <2>2, SumsOfPairs
    <2>4. Sum(t) + Sum(wn) <= Sum(tn) + Sum(w)
      BY <1>1, <1>2, <2>2, SumsOfPairs
    <2>5. billed[a] + Waiting(a) = Total(a)
      BY <1>6, <1>10 DEF Even, S
    <2>6. billed[a] + Sum(w) = Sum(t)
      BY <1>3, <2>5, Zenon
    <2>7. Sum(tn) + Sum(w) = Sum(t) + Sum(wn)
      <3> DEFINE x == Sum(tn) + Sum(w)
                 y == Sum(t) + Sum(wn)
      <3>1. x \in Int /\ y \in Int
        BY <1>8
      <3>2. x <= y /\ y <= x
        BY <2>3, <2>4
      <3> HIDE DEF x, y
      <3>3. x = y
        BY <3>1, <3>2
      <3> QED
        BY <3>3 DEF x, y
    <2>8. billed[a] + Sum(wn) = Sum(tn)
      BY <1>5, <1>8, <2>6, <2>7
    <2> QED
      BY <1>4, <1>5, <2>8, Zenon
  <1>11. UsersOf(a)' = S
    BY DEF S, UsersOf
  <1> QED
    BY <1>9, <1>10, <1>11 DEF Even, UsersOf, S

\* The bill gets what waited for it.
LEMMA EvenAtStoreAdmins ==
    ASSUME TypeOK, NEW a \in Admins, Even(a), StoreAdmins PROVE Even(a)'
  <1> DEFINE w == [u \in UsersOf(a) |-> Unbilled(u)']
  <1>1. pass.pc = "admins" /\ pass'.pc = "charts" /\ UNCHANGED <<used, logged, mishaps>>
    BY DEF StoreAdmins, TypeOK
  <1>2. billed'[a] = billed[a] + Waiting(a)
    <2>1. [u \in UsersOf(a) |-> Unbilled(u)] = [u \in {v \in Users : Owner[v] = a} |-> UsageOf(u)]
      BY <1>1 DEF Unbilled, UsersOf
    <2> QED
      BY <2>1 DEF StoreAdmins, Waiting
  <1>3. Waiting(a)' = 0
    <2>1. w \in [UsersOf(a) -> Int] /\ \A u \in UsersOf(a) : w[u] = 0
      BY <1>1 DEF Unbilled
    <2>2. Waiting(a)' = Sum(w)
      BY DEF Waiting, UsersOf
    <2> HIDE DEF w
    <2> QED
      BY <2>1, <2>2, UsersOfFinite, SumIsZero
  <1>4. Total(a)' = Total(a)
    BY <1>1 DEF Total, Spent, UsersOf
  <1>5. billed[a] \in Int /\ Waiting(a) \in Int
    <2> DEFINE f == [u \in UsersOf(a) |-> Unbilled(u)]
    <2>1. f \in [UsersOf(a) -> Int]
      BY UsersOfFinite, SharesAreNat
    <2> HIDE DEF f
    <2>2. Sum(f) \in Int
      BY <2>1, UsersOfFinite, SumIsInt
    <2> QED
      BY <2>2 DEF Waiting, f, TypeOK
  <1> QED
    BY <1>1, <1>2, <1>3, <1>4, <1>5 DEF Even, UsersOf

\* Most steps neither charge nor bill.
LEMMA SettledQuietly ==
    ASSUME TypeOK, NEW u \in Users, UNCHANGED <<used, logged>>,
           Unbilled(u)' = Unbilled(u) \/ (mishaps'[u] \subseteq {"reset"} => UsageOf(u) = 0 /\ Unbilled(u)' = 0)
    PROVE  Settled(u)
  <1>1. Spent(u)' = Spent(u) /\ Spent(u) \in Nat /\ Unbilled(u) \in Nat
    BY SharesAreNat DEF Spent
  <1>2. CASE Unbilled(u)' = Unbilled(u)
    BY <1>1, <1>2 DEF Settled
  <1>3. CASE mishaps'[u] \subseteq {"reset"} => UsageOf(u) = 0 /\ Unbilled(u)' = 0
    <2>1. mishaps'[u] \subseteq {"reset"} => Unbilled(u)' = Unbilled(u)
      BY <1>3 DEF Unbilled
    <2>2. mishaps'[u] = {} => mishaps'[u] \subseteq {"reset"}
      OBVIOUS
    <2> QED
      BY <1>1, <2>1, <2>2 DEF Settled
  <1> QED
    BY <1>2, <1>3

\* Reading, charting and ending touch neither usage nor bills.
LEMMA SettledInPass ==
    ASSUME TypeOK, NEW u \in Users,
           \/ Begin \/ PollEnd \/ FillChart \/ End
           \/ \E c \in Cores : Poll(c) \/ OpenChart(c)
    PROVE  Settled(u)
  <1>1. UNCHANGED <<used, logged>> /\ pass.pc # "admins"
    BY DEF Begin, PollEnd, FillChart, End, Poll, OpenChart, dbVars
  <1>2. pass'.pc # "admins"
    <2>1. PassIdle.pc = "idle"
      BY DEF PassIdle
    <2>2. CASE Begin
      BY <2>2 DEF Begin, PassIdle
    <2>3. CASE PollEnd \/ End
      BY <2>1, <2>3 DEF PollEnd, End, TypeOK
    <2>4. CASE FillChart \/ \E c \in Cores : OpenChart(c)
      BY <2>4 DEF FillChart, OpenChart, TypeOK
    <2>5. CASE \E c \in Cores : Poll(c)
      <3>1. pass'.pc = pass.pc
        BY <2>5 DEF Poll, TypeOK
      <3> QED
        BY <1>1, <3>1
    <2> QED
      BY <2>2, <2>3, <2>4, <2>5
  <1> QED
    BY <1>1, <1>2, SettledQuietly DEF Unbilled

\* What the users are charged waits for the bill.
LEMMA SettledAtStoreUsers ==
    ASSUME TypeOK, NEW u \in Users, StoreUsers PROVE Settled(u)
  <1>1. pass.pc = "users" /\ pass'.pc = "admins" /\ pass'.taken = pass.taken
    BY DEF StoreUsers, TypeOK
  <1>2. Unbilled(u) = 0 /\ Unbilled(u)' = UsageOf(u)
    BY <1>1 DEF Unbilled, UsageOf
  <1>3. Spent(u)' = Spent(u) + UsageOf(u)
    <2>1. used[u] \in Nat /\ logged[u] \in Nat /\ UsageOf(u) \in Nat
      BY UsageIsNat DEF TypeOK
    <2> QED
      BY <2>1 DEF StoreUsers, Spent
  <1>4. Spent(u) \in Nat /\ UsageOf(u) \in Nat
    BY UsageIsNat, SharesAreNat
  <1> QED
    BY <1>2, <1>3, <1>4 DEF Settled

\* What a failure or a restart loses leaves its mark on the users concerned.
LEMMA SettledWhenLost ==
    ASSUME TypeOK, NEW u \in Users, StatementFails \/ PanelRestart PROVE Settled(u)
  <1>1. UNCHANGED <<used, logged>> /\ pass' = PassIdle /\ mishaps' = Spoil(InHand, "fault")
    BY DEF StatementFails, PanelRestart, dbVars
  <1>2. Unbilled(u)' = 0
    BY <1>1 DEF Unbilled, PassIdle
  <1>3. ASSUME mishaps'[u] \subseteq {"reset"} PROVE UsageOf(u) = 0
    <2>1. u \notin InHand
      BY <1>1, <1>3 DEF Spoil
    <2>2. \A c \in Cores : pass.taken[c][u] = 0
      BY <2>1 DEF InHand, Counted
    <2> QED
      BY <2>2, UsageIsNat
  <1> QED
    BY <1>1, <1>2, <1>3, SettledQuietly

\* A reset logs no more than it takes away, and leaves its mark.
LEMMA SettledAtReset ==
    ASSUME TypeOK, LoadedIsHeld, NEW u \in Users, NEW h \in Handlers, ResetCommit(h)
    PROVE  Settled(u)
  <1> DEFINE v == handler[h].user
             loaded == handler[h].used
  <1>1. Unbilled(u)' = Unbilled(u) /\ Unbilled(u) \in Nat
    BY SharesAreNat DEF ResetCommit, Unbilled, UsageOf
  <1>2. used[u] \in Nat /\ logged[u] \in Nat /\ loaded \in Nat
    BY DEF TypeOK
  <1>3. CASE u # v
    <2>1. used'[u] = used[u] /\ logged'[u] = logged[u]
      BY <1>3 DEF ResetCommit, TypeOK
    <2> QED
      BY <1>1, <1>2, <2>1 DEF Settled, Spent
  <1>4. CASE u = v
    <2>1. "reset" \in mishaps'[u] /\ ("overlap" \in mishaps[u] => "overlap" \in mishaps'[u])
      BY <1>4 DEF ResetCommit, TypeOK
    <2>2. logged'[u] = logged[u] + loaded
      BY <1>4 DEF ResetCommit, TypeOK
    <2>3. used'[u] = IF loaded = 0 THEN used[u] ELSE 0
      BY <1>4 DEF ResetCommit, TypeOK
    <2>4. ASSUME mishaps'[u] \subseteq {"reset"} PROVE Spent(u)' <= Spent(u)
      <3>1. loaded <= used[u]
        BY <1>4, <2>1, <2>4 DEF LoadedIsHeld
      <3> HIDE DEF loaded
      <3> QED
        BY <1>2, <2>2, <2>3, <3>1 DEF Spent
    <2>5. Spent(u) \in Nat /\ Spent(u)' \in Nat
      BY <1>2, <2>2, <2>3 DEF Spent
    <2> QED
      BY <1>1, <2>1, <2>4, <2>5 DEF Settled
  <1> QED
    BY <1>3, <1>4

\* Nothing is billed at first.
LEMMA BillsStart == Init => BillsEven
  <1> SUFFICES ASSUME Init, NEW a \in Admins PROVE Even(a)
    BY DEF BillsEven
  <1> DEFINE t == [u \in UsersOf(a) |-> Spent(u)]
             w == [u \in UsersOf(a) |-> Unbilled(u)]
  <1>1. \A u \in Users : Spent(u) = 0 /\ Unbilled(u) = 0
    BY DEF Init, Spent, Unbilled, PassIdle, Nothing
  <1>2. /\ t \in [UsersOf(a) -> Int] /\ \A u \in UsersOf(a) : t[u] = 0
        /\ w \in [UsersOf(a) -> Int] /\ \A u \in UsersOf(a) : w[u] = 0
    BY <1>1, UsersOfFinite
  <1> HIDE DEF t, w
  <1>3. Sum(t) = 0 /\ Sum(w) = 0
    BY <1>2, UsersOfFinite, SumIsZero
  <1>4. billed[a] = 0
    BY DEF Init
  <1> QED
    BY <1>3, <1>4 DEF Even, Total, Waiting, t, w

\* Each step settles every user, or bills what waited.
LEMMA BillsKept == TypeOK /\ LoadedIsHeld /\ BillsEven /\ [Next]_vars => BillsEven'
  <1> SUFFICES ASSUME TypeOK, LoadedIsHeld, BillsEven, [Next]_vars, NEW a \in Admins PROVE Even(a)'
    BY DEF BillsEven
  <1>1. Even(a)
    BY DEF BillsEven
  <1>2. CASE StoreAdmins
    BY <1>1, <1>2, EvenAtStoreAdmins
  <1>3. CASE ~StoreAdmins
    <2>1. UNCHANGED billed
      <3>1. CASE PassStep
        BY <1>3, <3>1 DEF PassStep, Begin, PollEnd, StoreUsers, FillChart, End, Poll, OpenChart, dbVars
      <3>2. CASE \E h \in Handlers : ResetCommit(h) \/ \E u \in Users : ResetLoad(h, u)
        BY <3>2 DEF ResetCommit, ResetLoad, dbVars
      <3>3. CASE ~PassStep /\ ~\E h \in Handlers : ResetCommit(h) \/ \E u \in Users : ResetLoad(h, u)
        BY <3>3 DEF Next, StatementFails, PanelRestart, LinkChange, CoreRestart, Transfer, vars, dbVars
      <3> QED
        BY <3>1, <3>2, <3>3
    <2>2. ASSUME NEW u \in Users PROVE Settled(u)
      <3>1. CASE PassStep
        BY <1>3, <3>1, SettledInPass, SettledAtStoreUsers DEF PassStep
      <3>2. CASE StatementFails \/ PanelRestart
        BY <3>2, SettledWhenLost
      <3>3. ASSUME NEW h \in Handlers, ResetCommit(h) PROVE Settled(u)
        BY <3>3, SettledAtReset
      <3>4. CASE \/ \E h \in Handlers, v \in Users : ResetLoad(h, v)
                 \/ \E c \in Cores : LinkChange(c) \/ CoreRestart(c) \/ \E v \in Users : Transfer(c, v)
                 \/ UNCHANGED vars
        <4>1. UNCHANGED <<used, logged, pass>>
          BY <3>4 DEF ResetLoad, LinkChange, CoreRestart, Transfer, vars, dbVars
        <4>2. Unbilled(u)' = Unbilled(u)
          BY <4>1 DEF Unbilled, UsageOf
        <4> QED
          BY <4>1, <4>2, SettledQuietly
      <3> QED
        BY <3>1, <3>2, <3>3, <3>4 DEF Next
    <2> QED
      BY <1>1, <2>1, <2>2, UsersOfFinite, EvenStays
  <1> QED
    BY <1>2, <1>3

\* Whatever fails and however resets fall between the steps of a pass, an admin is charged
\* for what the users used, once the pass is over.
THEOREM UsageAdminsPayForUsers == Spec => []AdminsPayForUsers
  <1>1. TypeOK /\ BillsEven => AdminsPayForUsers
    <2> SUFFICES ASSUME TypeOK, BillsEven, pass.pc = "idle", NEW a \in Admins
                 PROVE  /\ (\A u \in UsersOf(a) : mishaps[u] \subseteq {"reset"}) => billed[a] >= Total(a)
                        /\ (\A u \in UsersOf(a) : mishaps[u] = {}) => billed[a] = Total(a)
      BY DEF AdminsPayForUsers, UsersOf, Total, Spent
    <2> DEFINE w == [u \in UsersOf(a) |-> Unbilled(u)]
    <2>1. w \in [UsersOf(a) -> Int] /\ \A u \in UsersOf(a) : w[u] = 0
      BY DEF Unbilled
    <2> HIDE DEF w
    <2>2. Waiting(a) = 0
      <3>1. Sum(w) = 0
        BY <2>1, UsersOfFinite, SumIsZero
      <3> QED
        BY <3>1 DEF Waiting, w
    <2>3. Even(a) /\ billed[a] + 0 = billed[a]
      BY DEF BillsEven, TypeOK
    <2> QED
      BY <2>2, <2>3 DEF Even
  <1>2. UInv => LoadedIsHeld
    BY DEF UInv
  <1>3. IInv => OnceEach
    BY DEF IInv
  <1> QED
    BY <1>1, <1>2, <1>3, Starts, Kept, UsageStarts, UsageKept, BillsStart, BillsKept, UsageTyping, PTL
       DEF Spec

--------------------------------------------------------------------------------
(***************************************************************************)
(* The charts.                                                             *)
(***************************************************************************)
\* What the chart shows of a user and a core.
Charts(u, c) == IF chart[u][c] = NoRow THEN 0 ELSE chart[u][c]

\* A user without mishap is shown all that is not outstanding.
Exact(u, c) == Charts(u, c) = (moved[c][u] - Outstanding(u, c)) * Factor[c]

ChartsExact == \A u \in Users : mishaps[u] = {} => \A c \in Cores : Exact(u, c)

\* The rows that are about to be filled are there, unless a reset removed them.
RowsAreOpen ==
    pass.pc = "chart" =>
        \A u \in Users : mishaps[u] = {} /\ pass.taken[pass.core][u] # 0 => chart[u][pass.core] # NoRow

CInv == IdleHoldsNothing /\ RowsAreOpen /\ ChartsExact

\* What is outstanding is natural.
LEMMA OutstandingIsNat ==
    ASSUME TypeOK, NEW u \in Users, NEW c \in Cores
    PROVE  /\ Outstanding(u, c) \in Nat /\ counter[c][u] \in Nat /\ pass.taken[c][u] \in Nat
           /\ moved[c][u] \in Nat
  BY DEF TypeOK, Outstanding

\* Steps that leave the chart alone, and what is outstanding of what was transferred.
LEMMA ExactStays ==
    ASSUME NEW u \in Users, NEW c \in Cores, Exact(u, c), Charts(u, c)' = Charts(u, c),
           moved'[c][u] - Outstanding(u, c)' = moved[c][u] - Outstanding(u, c)
    PROVE  Exact(u, c)'
  BY DEF Exact

\* A pass ends with nothing in hand.
LEMMA IdleKept == TypeOK /\ IdleHoldsNothing /\ [Next]_vars => IdleHoldsNothing'
  <1> SUFFICES ASSUME TypeOK, IdleHoldsNothing, [Next]_vars PROVE IdleHoldsNothing'
    OBVIOUS
  <1>1. CASE Begin
    BY <1>1 DEF Begin, PassIdle, IdleHoldsNothing
  <1>2. CASE PollEnd \/ End \/ StatementFails \/ PanelRestart
    <2>1. pass' = PassIdle \/ pass' = [pass EXCEPT !.pc = "users"]
      BY <1>2 DEF PollEnd, End, StatementFails, PanelRestart
    <2> QED
      BY <2>1 DEF IdleHoldsNothing, TypeOK
  <1>3. CASE StoreUsers \/ StoreAdmins \/ FillChart \/ \E c \in Cores : OpenChart(c)
    BY <1>3 DEF StoreUsers, StoreAdmins, FillChart, OpenChart, IdleHoldsNothing, TypeOK
  <1>4. CASE \E c \in Cores : Poll(c)
    <2>1. pass.pc = "poll" /\ pass'.pc = pass.pc
      BY <1>4 DEF Poll, TypeOK
    <2> QED
      BY <2>1 DEF IdleHoldsNothing
  <1>5. CASE UNCHANGED pass
    BY <1>5 DEF IdleHoldsNothing, PassIdle
  <1> QED
    BY <1>1, <1>2, <1>3, <1>4, <1>5
       DEF Next, PassStep, ResetLoad, ResetCommit, Transfer, LinkChange, CoreRestart, vars

\* The rows of a core are inserted before they are filled.
LEMMA OpenKept == TypeOK /\ RowsAreOpen /\ [Next]_vars => RowsAreOpen'
  <1> SUFFICES ASSUME TypeOK, RowsAreOpen, [Next]_vars, pass'.pc = "chart", NEW u \in Users,
                      mishaps'[u] = {}, pass'.taken[pass'.core][u] # 0
               PROVE  chart'[u][pass'.core] # NoRow
    BY DEF RowsAreOpen
  <1>1. mishaps[u] = {}
    BY MishapsStay
  <1>2. CASE PassStep /\ ~\E c \in Cores : OpenChart(c)
    <2>1. PassIdle.pc = "idle"
      BY DEF PassIdle
    <2>2. CASE Begin
      BY <2>2 DEF Begin, PassIdle
    <2>3. CASE PollEnd \/ End \/ StoreUsers \/ StoreAdmins \/ FillChart
      BY <2>1, <2>3 DEF PollEnd, End, StoreUsers, StoreAdmins, FillChart, TypeOK
    <2>4. CASE \E c \in Cores : Poll(c)
      <3>1. pass.pc = "poll" /\ pass'.pc = pass.pc
        BY <2>4 DEF Poll, TypeOK
      <3> QED
        BY <3>1
    <2> QED
      BY <1>2, <2>2, <2>3, <2>4 DEF PassStep
  <1>3. ASSUME NEW c \in Cores, OpenChart(c) PROVE chart'[u][pass'.core] # NoRow
    <2>1. pass'.core = c /\ pass'.taken = pass.taken
      BY <1>3 DEF OpenChart, TypeOK
    <2>2. u \in Counted(c)
      BY <2>1 DEF Counted
    <2>3. chart'[u][c] = IF chart[u][c] = NoRow THEN 0 ELSE chart[u][c]
      BY <1>3, <2>2 DEF OpenChart, TypeOK
    <2> QED
      BY <2>1, <2>3 DEF NoRow
  <1>4. CASE StatementFails \/ PanelRestart
    BY <1>4 DEF StatementFails, PanelRestart, PassIdle
  <1>5. ASSUME NEW h \in Handlers, ResetCommit(h) PROVE chart'[u][pass'.core] # NoRow
    <2>1. u # handler[h].user
      BY <1>5 DEF ResetCommit, TypeOK
    <2> QED
      BY <1>1, <1>5, <2>1 DEF ResetCommit, RowsAreOpen, TypeOK
  <1>6. CASE UNCHANGED <<pass, chart>>
    BY <1>1, <1>6 DEF RowsAreOpen
  <1> QED
    BY <1>2, <1>3, <1>4, <1>5, <1>6
       DEF Next, ResetLoad, Transfer, LinkChange, CoreRestart, vars, dbVars, PassStep

\* Steps of a pass that touch no counter and no chart leave as much outstanding.
LEMMA ExactBetweenCharts ==
    ASSUME TypeOK, OnceEach, IdleHoldsNothing, NEW u \in Users, NEW c \in Cores, Exact(u, c),
           mishaps'[u] = {},
           Begin \/ PollEnd \/ StoreUsers \/ StoreAdmins \/ End \/ StatementFails \/ PanelRestart
    PROVE  Exact(u, c)'
  <1>1. UNCHANGED <<chart, moved, counter>>
    BY DEF Begin, PollEnd, StoreUsers, StoreAdmins, End, StatementFails, PanelRestart, coreVars, dbVars
  <1>2. PassIdle.taken[c][u] = 0 /\ PassIdle.pc = "idle"
    BY DEF PassIdle, Nothing
  <1>3. u \notin InHand => pass.taken[c][u] = 0
    BY DEF InHand, Counted
  <1>4. Outstanding(u, c)' = Outstanding(u, c)
    <2>1. CASE Begin
      <3>1. pass'.taken[c][u] = 0 /\ pass.taken[c][u] = 0
        BY <1>2, <2>1 DEF Begin, IdleHoldsNothing, PassIdle
      <3> QED
        BY <1>1, <3>1 DEF Outstanding
    <2>2. CASE StoreUsers
      <3>1. pass'.taken = pass.taken /\ ~Filled(c) /\ ~Filled(c)'
        BY <2>2 DEF StoreUsers, TypeOK, Filled
      <3> QED
        BY <1>1, <3>1 DEF Outstanding
    <2>3. CASE StoreAdmins
      <3>1. pass'.taken = pass.taken /\ ~Filled(c) /\ pass'.todo = {d \in Cores : Counted(d) # {}}
        BY <2>3 DEF StoreAdmins, TypeOK, Filled
      <3>2. Filled(c)' => pass.taken[c][u] = 0
        BY <3>1 DEF Filled, Counted
      <3> QED
        BY <1>1, <3>1, <3>2 DEF Outstanding
    <2>4. CASE PollEnd /\ InHand # {}
      <3>1. pass'.taken = pass.taken /\ ~Filled(c) /\ ~Filled(c)'
        BY <2>4 DEF PollEnd, TypeOK, Filled
      <3> QED
        BY <1>1, <3>1 DEF Outstanding
    <2>5. CASE (PollEnd /\ InHand = {}) \/ StatementFails \/ PanelRestart
      <3>1. pass' = PassIdle
        BY <2>5 DEF PollEnd, StatementFails, PanelRestart
      <3>2. u \notin InHand
        <4>1. CASE InHand = {}
          BY <4>1
        <4>2. CASE StatementFails \/ PanelRestart
          BY <4>2 DEF StatementFails, PanelRestart, Spoil
        <4> QED
          BY <2>5, <4>1, <4>2
      <3> QED
        BY <1>1, <1>2, <1>3, <3>1, <3>2 DEF Outstanding, Filled
    <2>6. CASE End
      <3>1. pass' = PassIdle /\ Filled(c)
        BY <2>6 DEF End, Filled
      <3> QED
        BY <1>1, <1>2, <3>1 DEF Outstanding
    <2> QED
      BY <2>1, <2>2, <2>3, <2>4, <2>5, <2>6
  <1> QED
    BY <1>1, <1>4, ExactStays DEF Charts

\* What is read from a counter is as much outstanding as it was there; what is lost is a mishap.
LEMMA ExactAtPoll ==
    ASSUME TypeOK, OnceEach, NEW u \in Users, NEW c \in Cores, Exact(u, c), mishaps'[u] = {},
           NEW d \in Cores, Poll(d)
    PROVE  Exact(u, c)'
  <1>1. UNCHANGED <<chart, moved>> /\ pass.pc = "poll" /\ d \in pass.todo
    BY DEF Poll, dbVars
  <1>2. pass'.pc = "poll"
    BY DEF Poll, TypeOK
  <1>3. Outstanding(u, c) = counter[c][u] + pass.taken[c][u]
        /\ Outstanding(u, c)' = counter'[c][u] + pass'.taken[c][u]
    BY <1>1, <1>2 DEF Outstanding, Filled
  <1>4. counter[c][u] \in Nat /\ pass.taken[c][u] \in Nat
    BY DEF TypeOK
  <1>5. CASE c # d
    <2>1. counter'[c] = counter[c] /\ pass'.taken[c] = pass.taken[c]
      <3>1. counter \in [Cores -> [Users -> Nat]] /\ pass.taken \in [Cores -> [Users -> Nat]]
        BY DEF TypeOK
      <3>2. counter' = counter \/ counter' = [counter EXCEPT ![d] = Nothing]
        BY DEF Poll
      <3>3. pass'.taken = pass.taken \/ pass'.taken = [pass.taken EXCEPT ![d] = counter[d]]
        BY DEF Poll, TypeOK
      <3> QED
        BY <1>5, <3>1, <3>2, <3>3
    <2> QED
      BY <1>1, <1>3, <2>1, ExactStays DEF Charts
  <1>6. CASE c = d
    <2>1. pass.taken[c][u] = 0
      BY <1>1, <1>6 DEF OnceEach
    <2>2. CASE /\ pass' = [pass EXCEPT !.todo = @ \ {d}, !.taken[d] = counter[d]]
               /\ counter' = [counter EXCEPT ![d] = Nothing]
      <3>1. pass'.taken[c][u] = counter[c][u] /\ counter'[c][u] = 0
        BY <1>6, <2>2 DEF TypeOK, Nothing
      <3> QED
        BY <1>1, <1>3, <1>4, <2>1, <3>1, ExactStays DEF Charts
    <2>3. CASE pass' = [pass EXCEPT !.todo = @ \ {d}] /\ UNCHANGED counter
      <3>1. pass'.taken = pass.taken
        BY <2>3 DEF TypeOK
      <3> QED
        BY <1>1, <1>3, <2>3, <3>1, ExactStays DEF Charts
    <2>4. CASE /\ pass' = [pass EXCEPT !.todo = @ \ {d}]
               /\ counter' = [counter EXCEPT ![d] = Nothing]
               /\ mishaps' = Spoil({v \in Users : counter[d][v] # 0}, "fault")
      <3>1. counter[c][u] = 0
        BY <1>6, <2>4 DEF Spoil
      <3>2. pass'.taken = pass.taken /\ counter'[c][u] = 0
        BY <1>6, <2>4 DEF TypeOK, Nothing
      <3> QED
        BY <1>1, <1>3, <3>1, <3>2, ExactStays DEF Charts
    <2> QED
      BY <2>2, <2>3, <2>4 DEF Poll
  <1> QED
    BY <1>5, <1>6

\* A row that is inserted shows nothing yet.
LEMMA ExactAtOpenChart ==
    ASSUME TypeOK, NEW u \in Users, NEW c \in Cores, Exact(u, c), NEW d \in Cores, OpenChart(d)
    PROVE  Exact(u, c)'
  <1>1. UNCHANGED <<moved, counter>> /\ pass'.taken = pass.taken /\ pass'.todo = pass.todo
        /\ pass.pc = "charts" /\ pass'.pc = "chart"
    BY DEF OpenChart, TypeOK, coreVars
  <1>2. Outstanding(u, c)' = Outstanding(u, c)
    BY <1>1 DEF Outstanding, Filled
  <1>3. Charts(u, c)' = Charts(u, c)
    <2>1. chart'[u][c] = chart[u][c] \/ (chart[u][c] = NoRow /\ chart'[u][c] = 0)
      BY DEF OpenChart, TypeOK
    <2> QED
      BY <2>1 DEF Charts, NoRow
  <1> QED
    BY <1>1, <1>2, <1>3, ExactStays

\* Filling the chart of a core moves what was read from there into it.
LEMMA ExactAtFillChart ==
    ASSUME TypeOK, OnceEach, RowsAreOpen, NEW u \in Users, NEW c \in Cores, Exact(u, c),
           mishaps[u] = {}, FillChart
    PROVE  Exact(u, c)'
  <1> DEFINE d == pass.core
             t == pass.taken[c][u]
             x == t * Factor[c]
  <1>1. UNCHANGED <<moved, counter>> /\ pass'.taken = pass.taken /\ pass'.todo = pass.todo \ {d}
        /\ pass.pc = "chart" /\ pass'.pc = "charts" /\ d \in pass.todo
    BY DEF FillChart, TypeOK, coreVars, OnceEach
  <1>2. CASE c # d
    <2>1. chart'[u][c] = chart[u][c]
      BY <1>2 DEF FillChart, TypeOK
    <2>2. Outstanding(u, c)' = Outstanding(u, c)
      BY <1>1, <1>2 DEF Outstanding, Filled
    <2> QED
      BY <1>1, <2>1, <2>2, ExactStays DEF Charts
  <1>3. CASE c = d
    <2>1. Outstanding(u, c) = counter[c][u] + t /\ Outstanding(u, c)' = counter[c][u]
      <3>1. ~Filled(c) /\ Filled(c)'
        BY <1>1, <1>3 DEF Filled
      <3>2. counter[c][u] \in Nat
        BY DEF TypeOK
      <3> QED
        BY <1>1, <3>1, <3>2 DEF Outstanding
    <2>2. t \in Nat /\ counter[c][u] \in Nat /\ moved[c][u] \in Nat /\ Factor[c] \in Nat
          /\ chart[u][c] \in Nat \cup {NoRow}
      BY UsageAssumption DEF TypeOK
    <2>3. x \in Nat
      BY <2>2, Weighing
    <2>4. Charts(u, c)' = Charts(u, c) + x
      <3>1. chart'[u][c] = IF chart[u][c] = NoRow THEN chart[u][c] ELSE chart[u][c] + x
        BY <1>3 DEF FillChart, TypeOK
      <3>2. chart[u][c] = NoRow => x = 0
        <4>1. chart[u][c] = NoRow => t = 0
          BY <1>1, <1>3 DEF RowsAreOpen
        <4> QED
          BY <2>2, <4>1
      <3> HIDE DEF x
      <3> QED
        BY <2>2, <2>3, <3>1, <3>2 DEF Charts, NoRow
    <2>5. Charts(u, c) = (moved[c][u] - (counter[c][u] + t)) * Factor[c]
      BY <2>1 DEF Exact
    <2>6. ASSUME NEW m \in Nat, NEW k \in Nat, NEW f \in Nat, NEW r \in Nat
          PROVE  (m - (k + r)) * f + r * f = (m - k) * f
      OBVIOUS
    <2>7. Charts(u, c)' = (moved[c][u] - counter[c][u]) * Factor[c]
      BY <2>2, <2>4, <2>5, <2>6
    <2> QED
      BY <1>1, <2>1, <2>7 DEF Exact
  <1> QED
    BY <1>2, <1>3

\* Beside a pass a chart loses its rows to a reset only, which leaves its mark.
LEMMA ExactBesidePasses ==
    ASSUME TypeOK, NEW u \in Users, NEW c \in Cores, Exact(u, c), mishaps'[u] = {},
           \/ \E h \in Handlers : ResetCommit(h) \/ \E v \in Users : ResetLoad(h, v)
           \/ \E d \in Cores : LinkChange(d) \/ CoreRestart(d) \/ \E v \in Users : Transfer(d, v)
           \/ UNCHANGED vars
    PROVE  Exact(u, c)'
  <1>1. UNCHANGED pass
    BY DEF ResetCommit, ResetLoad, LinkChange, CoreRestart, Transfer, vars
  <1>2. Filled(c)' = Filled(c)
    BY <1>1 DEF Filled
  <1>3. CASE UNCHANGED <<moved, counter, chart>>
    BY <1>1, <1>2, <1>3, ExactStays DEF Outstanding, Charts
  <1>4. ASSUME NEW h \in Handlers, ResetCommit(h) PROVE Exact(u, c)'
    <2>1. u # handler[h].user
      BY <1>4 DEF ResetCommit, TypeOK
    <2>2. chart'[u] = chart[u] /\ UNCHANGED <<moved, counter>>
      BY <1>4, <2>1 DEF ResetCommit, TypeOK, coreVars
    <2> QED
      BY <1>1, <1>2, <2>2, ExactStays DEF Outstanding, Charts
  <1>5. ASSUME NEW d \in Cores, CoreRestart(d) PROVE Exact(u, c)'
    <2>1. UNCHANGED <<moved, chart>> /\ counter[c][u] \in Nat
      BY <1>5 DEF CoreRestart, dbVars, TypeOK
    <2>2. counter'[c][u] = counter[c][u]
      <3>1. counter[d][u] = 0
        BY <1>5 DEF CoreRestart, Spoil
      <3> QED
        BY <1>5, <3>1 DEF CoreRestart, TypeOK, Nothing
    <2> QED
      BY <1>1, <1>2, <2>1, <2>2, ExactStays DEF Outstanding, Charts
  <1>6. ASSUME NEW d \in Cores, NEW v \in Users, Transfer(d, v) PROVE Exact(u, c)'
    <2>1. UNCHANGED chart
      BY <1>6 DEF Transfer, dbVars
    <2> DEFINE n == IF c = d /\ u = v THEN 1 ELSE 0
    <2>2. moved'[c][u] = moved[c][u] + n /\ counter'[c][u] = counter[c][u] + n
      BY <1>6 DEF Transfer, TypeOK
    <2>3. moved[c][u] \in Nat /\ counter[c][u] \in Nat /\ pass.taken[c][u] \in Nat
      BY DEF TypeOK
    <2>4. n \in Nat
      OBVIOUS
    <2> HIDE DEF n
    <2>5. moved'[c][u] - Outstanding(u, c)' = moved[c][u] - Outstanding(u, c)
      BY <1>1, <1>2, <2>2, <2>3, <2>4 DEF Outstanding
    <2> QED
      BY <2>1, <2>5, ExactStays DEF Charts
  <1> QED
    BY <1>3, <1>4, <1>5, <1>6 DEF ResetLoad, LinkChange, vars, coreVars, dbVars

\* No chart shows anything at first.
LEMMA ChartsStart == Init => CInv
  <1> SUFFICES ASSUME Init PROVE CInv
    OBVIOUS
  <1>1. IdleHoldsNothing /\ RowsAreOpen
    BY DEF Init, IdleHoldsNothing, RowsAreOpen, PassIdle
  <1>2. ASSUME NEW u \in Users, NEW c \in Cores PROVE Exact(u, c)
    <2>1. Charts(u, c) = 0 /\ moved[c][u] = 0 /\ Outstanding(u, c) = 0
      BY <1>2 DEF Init, Charts, Outstanding, Nothing, PassIdle
    <2>2. Factor[c] \in Nat
      BY UsageAssumption
    <2>3. (0 - 0) * Factor[c] = 0
      BY <2>2
    <2> QED
      BY <2>1, <2>3 DEF Exact
  <1> QED
    BY <1>1, <1>2 DEF CInv, ChartsExact

\* Each step keeps the charts exact of those to whom nothing happened.
LEMMA ChartsKept == TypeOK /\ OnceEach /\ CInv /\ [Next]_vars => CInv'
  <1> SUFFICES ASSUME TypeOK, OnceEach, CInv, [Next]_vars PROVE CInv'
    OBVIOUS
  <1>1. IdleHoldsNothing /\ RowsAreOpen /\ ChartsExact
    BY DEF CInv
  <1>2. ASSUME NEW u \in Users, mishaps'[u] = {}, NEW c \in Cores PROVE Exact(u, c)'
    <2>1. mishaps[u] = {}
      BY <1>2, MishapsStay
    <2>2. Exact(u, c)
      BY <1>1, <2>1 DEF ChartsExact
    <2>3. CASE Begin \/ PollEnd \/ StoreUsers \/ StoreAdmins \/ End \/ StatementFails \/ PanelRestart
      BY <1>1, <1>2, <2>2, <2>3, ExactBetweenCharts
    <2>4. CASE \E d \in Cores : Poll(d)
      BY <1>2, <2>2, <2>4, ExactAtPoll
    <2>5. CASE \E d \in Cores : OpenChart(d)
      BY <2>2, <2>5, ExactAtOpenChart
    <2>6. CASE FillChart
      BY <1>1, <2>1, <2>2, <2>6, ExactAtFillChart
    <2>7. CASE \/ \E h \in Handlers : ResetCommit(h) \/ \E v \in Users : ResetLoad(h, v)
               \/ \E d \in Cores : LinkChange(d) \/ CoreRestart(d) \/ \E v \in Users : Transfer(d, v)
               \/ UNCHANGED vars
      BY <1>2, <2>2, <2>7, ExactBesidePasses
    <2> QED
      BY <2>3, <2>4, <2>5, <2>6, <2>7 DEF Next, PassStep
  <1> QED
    BY <1>1, <1>2, IdleKept, OpenKept DEF CInv, ChartsExact

\* The rows of the chart add up to what it shows.
LEMMA ChartedIsShown ==
    ASSUME TypeOK, NEW u \in Users
    PROVE  Charted(u) = Sum([c \in Cores |-> Charts(u, c)])
  <1> DEFINE f == [c \in Cores |-> Charts(u, c)]
  <1>1. f \in [Cores -> Int] /\ \A c \in Cores \ Rows(u) : f[c] = 0
    BY DEF TypeOK, Charts, Rows
  <1>2. Rows(u) \in SUBSET Cores
    BY DEF Rows
  <1>3. [c \in Rows(u) |-> f[c]] = [c \in Rows(u) |-> chart[u][c]]
    BY DEF Charts, Rows
  <1> HIDE DEF f
  <1>4. Sum([c \in Rows(u) |-> f[c]]) = Sum(f)
    BY <1>1, <1>2, UsageAssumption, SumOfSome
  <1> QED
    BY <1>3, <1>4 DEF Charted, f

\* Between two passes the chart of a user to whom nothing happened shows all that was read
\* from the cores, and the usage is less than that by what truncation took.
THEOREM UsageChartIsComplete == Spec => []ChartIsComplete
  <1>1. TypeOK /\ UInv /\ CInv => ChartIsComplete
    <2> SUFFICES ASSUME TypeOK, UInv, CInv, pass.pc = "idle", NEW u \in Users, mishaps[u] = {}
                 PROVE  /\ Charted(u) = Sum([c \in Cores |-> (moved[c][u] - counter[c][u]) * Factor[c]])
                        /\ Scale * used[u] <= Charted(u)
      BY DEF ChartIsComplete
    <2> DEFINE f == [c \in Cores |-> (moved[c][u] - counter[c][u]) * Factor[c]]
               g == [c \in Cores |-> OwedOf(u)[c] * Factor[c]]
               h == [c \in Cores |-> MovedOf(u)[c] * Factor[c]]
    <2>1. ASSUME NEW c \in Cores
          PROVE  /\ Outstanding(u, c) = counter[c][u] /\ Owed(u, c) = counter[c][u]
                 /\ counter[c][u] \in Nat /\ moved[c][u] \in Nat /\ Factor[c] \in Nat
      <3>1. pass.taken[c][u] = 0
        BY DEF CInv, IdleHoldsNothing, PassIdle, Nothing
      <3>2. counter[c][u] \in Nat /\ moved[c][u] \in Nat /\ Factor[c] \in Nat
        BY UsageAssumption DEF TypeOK
      <3> QED
        BY <3>1, <3>2 DEF Outstanding, Owed
    <2>2. \A c \in Cores : Charts(u, c) = (moved[c][u] - counter[c][u]) * Factor[c]
      BY <2>1 DEF CInv, ChartsExact, Exact
    <2>3. Charted(u) = Sum(f)
      <3>1. [c \in Cores |-> Charts(u, c)] = f
        BY <2>2
      <3> QED
        BY <3>1, ChartedIsShown
    <2>4. f \in [Cores -> Int] /\ g \in [Cores -> Int] /\ h \in [Cores -> Int]
          /\ \A c \in Cores : h[c] = f[c] + g[c]
      <3>1. ASSUME NEW m \in Nat, NEW k \in Nat, NEW w \in Nat
            PROVE  (m - k) * w \in Int /\ k * w \in Int /\ m * w \in Int /\ m * w = (m - k) * w + k * w
        OBVIOUS
      <3>2. \A c \in Cores : OwedOf(u)[c] = counter[c][u] /\ MovedOf(u)[c] = moved[c][u]
        BY <2>1 DEF OwedOf, MovedOf
      <3>3. ASSUME NEW c \in Cores
            PROVE  f[c] \in Int /\ g[c] \in Int /\ h[c] \in Int /\ h[c] = f[c] + g[c]
        BY <2>1, <3>1, <3>2
      <3> QED
        BY <3>3
    <2> HIDE DEF f, g, h
    <2>5. Sum(h) = Sum(f) + Sum(g)
      BY <2>4, UsageAssumption, SumsAdd
    <2>6. Sum(f) \in Int /\ Sum(g) \in Int
      BY <2>4, UsageAssumption, SumIsInt
    <2>7. Scale * (used[u] + logged[u]) + Sum(g) <= Sum(h)
      BY DEF UInv, Covered, Weight, g, h
    <2>8. Scale * used[u] <= Scale * (used[u] + logged[u])
          /\ Scale * used[u] \in Int /\ Scale * (used[u] + logged[u]) \in Int
      <3>1. used[u] \in Nat /\ logged[u] \in Nat /\ Scale \in Nat
        BY UsageAssumption DEF TypeOK
      <3>2. ASSUME NEW a \in Nat, NEW b \in Nat, NEW k \in Nat
            PROVE  k * a <= k * (a + b) /\ k * a \in Int /\ k * (a + b) \in Int
        <4>1. k * b \in Nat /\ k * a \in Nat /\ k * (a + b) = k * a + k * b
          OBVIOUS
        <4> QED
          BY <4>1
      <3> QED
        BY <3>1, <3>2
    <2>9. Scale * used[u] <= Sum(f)
      BY <2>5, <2>6, <2>7, <2>8
    <2> QED
      BY <2>3, <2>9 DEF f
  <1>2. IInv => OnceEach
    BY DEF IInv
  <1> QED
    BY <1>1, <1>2, Starts, Kept, UsageStarts, UsageKept, ChartsStart, ChartsKept, UsageTyping, PTL
       DEF Spec
================================================================================
