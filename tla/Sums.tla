-------------------------------- MODULE Sums --------------------------------
(***************************************************************************)
(* What MapThenSumSet returns for a finite set of whole numbers.  The         *)
(* inductions go over the subsets of one finite set: a counterexample would   *)
(* have a smallest one, and strict inclusion is well-founded.                 *)
(***************************************************************************)
EXTENDS Integers, FiniteSets, FiniteSetTheorems, TLAPS

Pick(s) == CHOOSE x \in s : TRUE

\* The recursion of MapThenSumSet, over the subsets of S.
Sums(v, S) ==
    {g \in [SUBSET S -> Int] :
        g = [s \in SUBSET S |-> IF s = {} THEN 0 ELSE v[Pick(s)] + g[s \ {Pick(s)}]]}

SumOf(v, S) == (CHOOSE g \in Sums(v, S) : TRUE)[S]

Numbers(v, S) == \A x \in S : v[x] \in Int

\* Every collection of subsets of a finite set has a smallest one.
LEMMA LeastSubset ==
    ASSUME NEW S, IsFiniteSet(S), NEW T \in SUBSET SUBSET S, T # {}
    PROVE  \E x \in T : \A y \in T : y \subseteq x => y = x
<1>1. IsWellFoundedOn(StrictSubsetOrdering(S), SUBSET S)
  BY FS_StrictSubsetOrderingWellFounded, FS_FiniteSubsetsOfFinite
<1>2. PICK x \in T : \A y \in T : <<y, x>> \notin StrictSubsetOrdering(S)
  BY <1>1, WFMin
<1> QED BY <1>2 DEF StrictSubsetOrdering

\* The pick is a member.
LEMMA Picked == ASSUME NEW s, s # {} PROVE Pick(s) \in s
BY DEF Pick

\* What holds of a set as soon as it holds of all smaller ones holds of every
\* finite set; here: that there is one sum, and no other.
LEMMA SumsAgree ==
    ASSUME NEW S, NEW v, IsFiniteSet(S), NEW U \in SUBSET S,
           NEW g \in Sums(v, S), NEW h \in Sums(v, U), NEW W \in SUBSET U
    PROVE  g[W] = h[W]
<1> DEFINE T == {s \in SUBSET U : g[s] # h[s]}
<1> SUFFICES ASSUME T # {} PROVE FALSE
  OBVIOUS
<1>1. IsFiniteSet(U)
  BY FS_Subset
<1>2. PICK s \in T : \A t \in T : t \subseteq s => t = s
  <2> HIDE DEF T
  <2>1. T \in SUBSET SUBSET U
    BY DEF T
  <2> QED BY <1>1, <2>1, LeastSubset
<1>3. s # {}
  BY DEF Sums
<1>4. /\ Pick(s) \in s /\ s \ {Pick(s)} \in SUBSET U /\ s \ {Pick(s)} # s
  BY <1>3, Picked
<1>5. g[s \ {Pick(s)}] = h[s \ {Pick(s)}]
  BY <1>2, <1>4
<1>6. /\ g[s] = v[Pick(s)] + g[s \ {Pick(s)}]
      /\ h[s] = v[Pick(s)] + h[s \ {Pick(s)}]
  BY <1>3 DEF Sums
<1> QED BY <1>2, <1>5, <1>6

\* Any function with numbers on a finite set can be added up.
LEMMA SumExists ==
    ASSUME NEW S, NEW v, IsFiniteSet(S), Numbers(v, S)
    PROVE  Sums(v, S) # {}
<1> DEFINE T == {s \in SUBSET S : Sums(v, s) = {}}
<1> SUFFICES ASSUME T # {} PROVE FALSE
  OBVIOUS
<1>1. PICK U \in T : \A t \in T : t \subseteq U => t = U
  <2> HIDE DEF T
  <2>1. T \in SUBSET SUBSET S
    BY DEF T
  <2> QED BY <2>1, LeastSubset
<1> DEFINE G(s) == CHOOSE g \in Sums(v, s) : TRUE
           f == [s \in SUBSET U |->
                    IF s = {} THEN 0
                    ELSE v[Pick(s)] + G(s \ {Pick(s)})[s \ {Pick(s)}]]
<1>2. \A s \in SUBSET U : s # U => G(s) \in Sums(v, s)
  BY <1>1
<1>3. \A s \in SUBSET U : s # {} =>
          /\ Pick(s) \in s /\ v[Pick(s)] \in Int
          /\ s \ {Pick(s)} \in SUBSET U /\ s \ {Pick(s)} # U
  BY Picked DEF Numbers
<1>4. f \in [SUBSET U -> Int]
  <2> SUFFICES ASSUME NEW s \in SUBSET U, s # {}
               PROVE  v[Pick(s)] + G(s \ {Pick(s)})[s \ {Pick(s)}] \in Int
    OBVIOUS
  <2> DEFINE r == s \ {Pick(s)}
  <2>1. G(r) \in Sums(v, r)
    BY <1>2, <1>3
  <2> HIDE DEF G
  <2>2. G(r)[r] \in Int
    <3> HIDE DEF r
    <3> QED BY <2>1 DEF Sums
  <2> QED BY <1>3, <2>2
<1>5. \A s \in SUBSET U : s # U => f[s] = G(s)[s]
  <2> SUFFICES ASSUME NEW s \in SUBSET U, s # U PROVE f[s] = G(s)[s]
    OBVIOUS
  <2>1. G(s) \in Sums(v, s)
    BY <1>2
  <2>2. CASE s = {}
    <3> HIDE DEF G
    <3>1. G(s)[s] = 0
      BY <2>1, <2>2 DEF Sums
    <3> QED BY <2>2, <3>1
  <2>3. CASE s # {}
    <3> DEFINE r == s \ {Pick(s)}
    <3>1. G(r) \in Sums(v, r)
      BY <1>2, <1>3, <2>3
    <3>2. IsFiniteSet(s)
      BY FS_Subset
    <3>3. r \in SUBSET s
      OBVIOUS
    <3>4. f[s] = v[Pick(s)] + G(r)[r]
      BY <2>3
    <3> HIDE DEF G, f
    <3>5. G(s)[s] = v[Pick(s)] + G(s)[r]
      BY <2>1, <2>3 DEF Sums
    <3> HIDE DEF r
    <3>6. G(s)[r] = G(r)[r]
      BY <2>1, <3>1, <3>2, <3>3, SumsAgree
    <3> QED BY <3>4, <3>5, <3>6
  <2> QED BY <2>2, <2>3
<1>6. f \in Sums(v, U)
  <2>1. \A s \in SUBSET U : f[s] = IF s = {} THEN 0 ELSE v[Pick(s)] + f[s \ {Pick(s)}]
    <3> HIDE DEF G
    <3> QED BY <1>3, <1>5
  <2> HIDE DEF f
  <2> QED BY <1>4, <2>1 DEF Sums
<1> QED BY <1>1, <1>6

\* The sum is the one there is.
LEMMA SumIs ==
    ASSUME NEW S, NEW v, IsFiniteSet(S), NEW g \in Sums(v, S)
    PROVE  g[S] = SumOf(v, S)
<1> DEFINE h == CHOOSE k \in Sums(v, S) : TRUE
<1>1. h \in Sums(v, S)
  OBVIOUS
<1> HIDE DEF h
<1>2. g[S] = h[S]
  BY <1>1, SumsAgree
<1> QED BY <1>2 DEF SumOf, h

\* Nothing adds up to nothing.
LEMMA SumOfNone == ASSUME NEW v PROVE SumOf(v, {}) = 0
<1>1. PICK g \in Sums(v, {}) : TRUE
  BY SumExists, FS_EmptySet DEF Numbers
<1>2. g[{}] = 0
  BY DEF Sums
<1> QED BY <1>2, SumIs, FS_EmptySet

\* A sum of whole numbers is one.
LEMMA SumIsInt ==
    ASSUME NEW S, NEW v, IsFiniteSet(S), Numbers(v, S)
    PROVE  SumOf(v, S) \in Int
<1>1. PICK g \in Sums(v, S) : TRUE
  BY SumExists
<1>2. g[S] \in Int
  BY DEF Sums
<1> QED BY <1>2, SumIs

\* One step of the recursion.
LEMMA SumPicks ==
    ASSUME NEW S, NEW v, IsFiniteSet(S), Numbers(v, S), S # {}
    PROVE  /\ Pick(S) \in S
           /\ SumOf(v, S) = v[Pick(S)] + SumOf(v, S \ {Pick(S)})
<1>1. PICK g \in Sums(v, S) : TRUE
  BY SumExists
<1> DEFINE R == S \ {Pick(S)}
<1>2. IsFiniteSet(R) /\ Numbers(v, R) /\ R \in SUBSET S
  BY FS_Subset DEF Numbers
<1>3. PICK h \in Sums(v, R) : TRUE
  BY <1>2, SumExists
<1>4. g[S] = v[Pick(S)] + g[R]
  BY DEF Sums
<1>5. g[S] = SumOf(v, S)
  BY SumIs
<1> HIDE DEF R
<1>6. h[R] = SumOf(v, R)
  BY <1>2, SumIs
<1>7. g[R] = h[R]
  BY <1>2, SumsAgree
<1> QED BY <1>4, <1>5, <1>6, <1>7, Picked DEF R

\* Only the values on the set matter.
LEMMA SumOfEqual ==
    ASSUME NEW S, NEW v, NEW w, IsFiniteSet(S), Numbers(v, S), \A x \in S : w[x] = v[x]
    PROVE  SumOf(w, S) = SumOf(v, S)
<1> DEFINE T == {s \in SUBSET S : SumOf(w, s) # SumOf(v, s)}
<1> SUFFICES ASSUME T # {} PROVE FALSE
  OBVIOUS
<1>1. PICK U \in T : \A t \in T : t \subseteq U => t = U
  <2>1. T \in SUBSET SUBSET S
    OBVIOUS
  <2> HIDE DEF T
  <2> QED BY <2>1, LeastSubset
<1>2. U # {}
  BY SumOfNone
<1>3. IsFiniteSet(U) /\ Numbers(v, U) /\ Numbers(w, U)
  BY FS_Subset DEF Numbers
<1>4. /\ Pick(U) \in U
      /\ SumOf(v, U) = v[Pick(U)] + SumOf(v, U \ {Pick(U)})
      /\ SumOf(w, U) = w[Pick(U)] + SumOf(w, U \ {Pick(U)})
  BY <1>2, <1>3, SumPicks
<1>5. SumOf(w, U \ {Pick(U)}) = SumOf(v, U \ {Pick(U)})
  BY <1>1, <1>4
<1> QED BY <1>1, <1>4, <1>5

\* The order of adding does not matter: any one of them may come last.
LEMMA SumWithout ==
    ASSUME NEW S, NEW v, IsFiniteSet(S), Numbers(v, S), NEW x \in S
    PROVE  SumOf(v, S) = v[x] + SumOf(v, S \ {x})
<1> DEFINE T == {s \in SUBSET S : \E y \in s : SumOf(v, s) # v[y] + SumOf(v, s \ {y})}
<1> SUFFICES ASSUME T # {} PROVE FALSE
  OBVIOUS
<1>1. PICK U \in T : \A t \in T : t \subseteq U => t = U
  <2>1. T \in SUBSET SUBSET S
    OBVIOUS
  <2> HIDE DEF T
  <2> QED BY <2>1, LeastSubset
<1>2. PICK y \in U : SumOf(v, U) # v[y] + SumOf(v, U \ {y})
  OBVIOUS
<1> DEFINE p == Pick(U)
<1>3. /\ p \in U
      /\ SumOf(v, U) = v[p] + SumOf(v, U \ {p})
  <2>1. IsFiniteSet(U) /\ Numbers(v, U) /\ U # {}
    BY FS_Subset DEF Numbers
  <2> QED BY <2>1, SumPicks
<1>4. y # p
  BY <1>2, <1>3
<1> HIDE DEF p
<1>5. SumOf(v, U \ {p}) = v[y] + SumOf(v, (U \ {p}) \ {y})
  <2>1. U \ {p} \notin T
    BY <1>1, <1>3
  <2> QED BY <1>3, <1>4, <2>1
<1>6. SumOf(v, U \ {y}) = v[p] + SumOf(v, (U \ {y}) \ {p})
  <2>1. U \ {y} \notin T
    BY <1>1
  <2> QED BY <1>3, <1>4, <2>1
<1>7. (U \ {p}) \ {y} = (U \ {y}) \ {p}
  OBVIOUS
<1>8. /\ v[y] \in Int /\ v[p] \in Int /\ SumOf(v, (U \ {y}) \ {p}) \in Int
  <2>1. IsFiniteSet((U \ {y}) \ {p}) /\ Numbers(v, (U \ {y}) \ {p})
    BY FS_Subset DEF Numbers
  <2> QED BY <1>3, <2>1, SumIsInt DEF Numbers
<1>9. \A a, b, c \in Int : a + (b + c) = b + (a + c)
  OBVIOUS
<1> DEFINE rest == SumOf(v, (U \ {y}) \ {p})
<1>10. SumOf(v, U) = v[p] + (v[y] + rest) /\ v[y] + SumOf(v, U \ {y}) = v[y] + (v[p] + rest)
  BY <1>3, <1>5, <1>6, <1>7
<1> HIDE DEF rest
<1>11. v[p] + (v[y] + rest) = v[y] + (v[p] + rest)
  BY <1>8, <1>9 DEF rest
<1> QED BY <1>2, <1>10, <1>11

\* A new member adds its value.
LEMMA SumWith ==
    ASSUME NEW S, NEW v, IsFiniteSet(S), Numbers(v, S), NEW x, x \notin S, v[x] \in Int
    PROVE  SumOf(v, S \cup {x}) = v[x] + SumOf(v, S)
<1>1. /\ IsFiniteSet(S \cup {x}) /\ Numbers(v, S \cup {x}) /\ (S \cup {x}) \ {x} = S
  BY FS_AddElement DEF Numbers
<1> QED BY <1>1, SumWithout

\* A sum of smaller numbers is smaller.
LEMMA SumIsMonotone ==
    ASSUME NEW S, NEW v, NEW w, IsFiniteSet(S), Numbers(v, S), Numbers(w, S),
           \A x \in S : v[x] <= w[x]
    PROVE  SumOf(v, S) <= SumOf(w, S)
<1> DEFINE T == {s \in SUBSET S : ~(SumOf(v, s) <= SumOf(w, s))}
<1> SUFFICES ASSUME T # {} PROVE FALSE
  OBVIOUS
<1>1. PICK U \in T : \A t \in T : t \subseteq U => t = U
  <2>1. T \in SUBSET SUBSET S
    OBVIOUS
  <2> HIDE DEF T
  <2> QED BY <2>1, LeastSubset
<1>2. U # {}
  BY SumOfNone
<1>3. IsFiniteSet(U) /\ Numbers(v, U) /\ Numbers(w, U)
  BY FS_Subset DEF Numbers
<1> DEFINE p == Pick(U)
<1>4. /\ p \in U
      /\ SumOf(v, U) = v[p] + SumOf(v, U \ {p})
      /\ SumOf(w, U) = w[p] + SumOf(w, U \ {p})
  BY <1>2, <1>3, SumPicks
<1> HIDE DEF p
<1>5. SumOf(v, U \ {p}) <= SumOf(w, U \ {p})
  BY <1>1, <1>4
<1>6. /\ v[p] \in Int /\ w[p] \in Int /\ v[p] <= w[p]
      /\ SumOf(v, U \ {p}) \in Int /\ SumOf(w, U \ {p}) \in Int
  <2>1. IsFiniteSet(U \ {p}) /\ Numbers(v, U \ {p}) /\ Numbers(w, U \ {p})
    BY <1>3, FS_Subset DEF Numbers
  <2> QED BY <1>3, <1>4, <2>1, SumIsInt DEF Numbers
<1> QED BY <1>1, <1>4, <1>5, <1>6

\* Zeros add up to zero.
LEMMA SumOfZeros ==
    ASSUME NEW S, IsFiniteSet(S)
    PROVE  SumOf([x \in S |-> 0], S) = 0
<1> DEFINE z == [x \in S |-> 0]
<1> DEFINE f == [s \in SUBSET S |-> 0]
<1>1. f \in Sums(z, S)
  <2>1. \A s \in SUBSET S : f[s] = IF s = {} THEN 0 ELSE z[Pick(s)] + f[s \ {Pick(s)}]
    BY Picked
  <2>2. f \in [SUBSET S -> Int]
    OBVIOUS
  <2>3. f = [s \in SUBSET S |-> f[s]]
    OBVIOUS
  <2> HIDE DEF f
  <2> QED BY <2>1, <2>2, <2>3 DEF Sums
<1>2. f[S] = SumOf(z, S)
  <2> HIDE DEF f, z
  <2> QED BY <1>1, SumIs
<1> QED BY <1>2

\* What is never negative adds up to no negative.
LEMMA SumOfNaturals ==
    ASSUME NEW S, NEW v, IsFiniteSet(S), \A x \in S : v[x] \in Nat
    PROVE  SumOf(v, S) \in Nat
<1> DEFINE z == [x \in S |-> 0]
<1>1. Numbers(v, S) /\ Numbers(z, S)
  BY DEF Numbers
<1>2. SumOf(z, S) = 0
  BY SumOfZeros
<1>3. SumOf(z, S) <= SumOf(v, S)
  <2>1. \A x \in S : z[x] <= v[x]
    OBVIOUS
  <2> HIDE DEF z
  <2> QED BY <1>1, <2>1, SumIsMonotone
<1> QED BY <1>1, <1>2, <1>3, SumIsInt

\* What is never positive adds up to no positive.
LEMMA SumOfNegatives ==
    ASSUME NEW S, NEW v, IsFiniteSet(S), \A x \in S : v[x] \in Int /\ v[x] <= 0
    PROVE  SumOf(v, S) <= 0
<1> DEFINE z == [x \in S |-> 0]
<1>1. Numbers(v, S) /\ Numbers(z, S) /\ \A x \in S : v[x] <= z[x]
  BY DEF Numbers
<1> HIDE DEF z
<1>2. SumOf(v, S) <= SumOf(z, S)
  BY <1>1, SumIsMonotone
<1> QED BY <1>2, SumOfZeros DEF z

\* The recursion as it is written has no type; it still has one solution only.
LEMMA RecursionIsSum ==
    ASSUME NEW S, NEW v, IsFiniteSet(S), Numbers(v, S), NEW g,
           g = [s \in SUBSET S |-> IF s = {} THEN 0 ELSE v[Pick(s)] + g[s \ {Pick(s)}]]
    PROVE  g \in Sums(v, S)
<1>1. PICK f \in Sums(v, S) : TRUE
  BY SumExists
<1> DEFINE T == {s \in SUBSET S : g[s] # f[s]}
<1>2. T = {}
  <2> SUFFICES ASSUME T # {} PROVE FALSE
    OBVIOUS
  <2>1. PICK U \in T : \A t \in T : t \subseteq U => t = U
    <3>1. T \in SUBSET SUBSET S
      OBVIOUS
    <3> HIDE DEF T
    <3> QED BY <3>1, LeastSubset
  <2>2. /\ g[U] = IF U = {} THEN 0 ELSE v[Pick(U)] + g[U \ {Pick(U)}]
        /\ f[U] = IF U = {} THEN 0 ELSE v[Pick(U)] + f[U \ {Pick(U)}]
    BY <1>1 DEF Sums
  <2>3. U # {}
    BY <2>2
  <2>4. g[U \ {Pick(U)}] = f[U \ {Pick(U)}]
    <3>1. U \ {Pick(U)} \in SUBSET S /\ U \ {Pick(U)} # U /\ U \ {Pick(U)} \subseteq U
      BY <2>3, Picked
    <3>2. U \ {Pick(U)} \notin T
      BY <2>1, <3>1
    <3> QED BY <3>1, <3>2
  <2> QED BY <2>1, <2>2, <2>3, <2>4
<1>3. g = f
  <2>1. g = [s \in SUBSET S |-> g[s]] /\ f = [s \in SUBSET S |-> f[s]]
    BY <1>1 DEF Sums
  <2> QED BY <1>2, <2>1
<1> QED BY <1>1, <1>3

\* The recursion of MapThenSumSet, as its definition reads, over the values of a function.
LEMMA FoldOfFunction ==
    ASSUME NEW S, NEW f, IsFiniteSet(S), Numbers(f, S)
    PROVE  (CHOOSE g : g = [s \in SUBSET S |->
                IF s = {} THEN 0
                ELSE f[CHOOSE x \in s : TRUE] + g[s \ {CHOOSE x \in s : TRUE}]])[S]
               = SumOf(f, S)
<1> DEFINE It(g) == [s \in SUBSET S |->
                IF s = {} THEN 0
                ELSE f[CHOOSE x \in s : TRUE] + g[s \ {CHOOSE x \in s : TRUE}]]
           iter == CHOOSE g : g = It(g)
<1>1. \A g : It(g) = [s \in SUBSET S |->
                IF s = {} THEN 0 ELSE f[Pick(s)] + g[s \ {Pick(s)}]]
  BY DEF Pick
<1> HIDE DEF It
<1>2. PICK h \in Sums(f, S) : h = It(h)
  <2>1. PICK h \in Sums(f, S) : TRUE
    BY SumExists
  <2>2. h = It(h)
    BY <1>1 DEF Sums
  <2> QED BY <2>2
<1>3. iter = It(iter)
  BY <1>2
<1> HIDE DEF iter
<1>4. iter \in Sums(f, S)
  BY <1>1, <1>3, RecursionIsSum
<1> QED BY <1>4, SumIs DEF iter, It

\* Two parts of a set have the sum of the whole.
LEMMA SumOfParts ==
    ASSUME NEW S, NEW v, IsFiniteSet(S), Numbers(v, S), NEW A \in SUBSET S
    PROVE  SumOf(v, S) = SumOf(v, A) + SumOf(v, S \ A)
<1> DEFINE T == {s \in SUBSET S : A \subseteq s /\ SumOf(v, s) # SumOf(v, A) + SumOf(v, s \ A)}
<1> SUFFICES ASSUME T # {} PROVE FALSE
  OBVIOUS
<1>1. PICK U \in T : \A t \in T : t \subseteq U => t = U
  <2>1. T \in SUBSET SUBSET S
    OBVIOUS
  <2> HIDE DEF T
  <2> QED BY <2>1, LeastSubset
<1>2. /\ U \in SUBSET S /\ A \subseteq U
      /\ SumOf(v, U) # SumOf(v, A) + SumOf(v, U \ A)
      /\ IsFiniteSet(U) /\ Numbers(v, U) /\ IsFiniteSet(A) /\ Numbers(v, A)
      /\ IsFiniteSet(U \ A) /\ Numbers(v, U \ A)
  BY FS_Subset DEF Numbers
<1>3. U # A
  <2>1. SumOf(v, A) \in Int /\ U \ U = {}
    BY <1>2, SumIsInt
  <2> QED BY <1>2, <2>1, SumOfNone
<1>4. PICK y \in U : y \notin A
  BY <1>2, <1>3
<1> DEFINE W == U \ {y}
<1>5. SumOf(v, W) = SumOf(v, A) + SumOf(v, W \ A)
  <2>1. W \in SUBSET S /\ A \subseteq W /\ W # U /\ W \subseteq U
    BY <1>2, <1>4
  <2> QED BY <1>1, <2>1
<1>6. SumOf(v, U) = v[y] + SumOf(v, W)
  BY <1>2, SumWithout
<1>7. SumOf(v, U \ A) = v[y] + SumOf(v, W \ A)
  <2>1. y \in U \ A /\ (U \ A) \ {y} = W \ A
    BY <1>4
  <2> HIDE DEF W
  <2> QED BY <1>2, <2>1, SumWithout
<1>8. v[y] \in Int /\ SumOf(v, A) \in Int /\ SumOf(v, W \ A) \in Int
  <2>1. IsFiniteSet(W \ A) /\ Numbers(v, W \ A)
    BY FS_Subset DEF Numbers
  <2> QED BY <1>2, <2>1, SumIsInt DEF Numbers
<1> HIDE DEF W
<1> QED BY <1>2, <1>5, <1>6, <1>7, <1>8
=============================================================================
