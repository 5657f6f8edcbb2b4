----------------------------- MODULE FiniteSums -----------------------------
(***************************************************************************)
(* Sums over finite sets, for the books of stock: orders against units     *)
(* sold, levels against units drawn.  The sums of the community modules    *)
(* are recursive functions on the subsets of a set; what is needed of them *)
(* is proved by the least counterexample, a subset being smaller than the  *)
(* sets that contain it.                                                   *)
(***************************************************************************)
EXTENDS Integers, FiniteSets, Folds, Functions, FiniteSetTheorems, WellFoundedInduction, TLAPS

\* A nonempty family of subsets of a finite set has a least member: induction on finite
\* sets, in the form of a least counterexample.
LEMMA LeastSubset ==
    ASSUME NEW S, IsFiniteSet(S), NEW B, B \subseteq SUBSET S, B # {}
    PROVE  \E T \in B : \A U \in B : U \subseteq T => U = T
<1>1. IsWellFoundedOn(StrictSubsetOrdering(S), FiniteSubsetsOf(S))
  BY FS_StrictSubsetOrderingWellFounded
<1>2. FiniteSubsetsOf(S) = SUBSET S
  BY FS_FiniteSubsetsOfFinite
<1>3. \E T \in B : \A U \in B : ~(<<U, T>> \in StrictSubsetOrdering(S))
  BY <1>1, <1>2, WFMin
<1> QED BY <1>3 DEF StrictSubsetOrdering

\* The member of s that the recursion sets aside.
Pick(s) == CHOOSE x \in s : TRUE

\* It is a member.
LEMMA PickIsIn ==
    ASSUME NEW s, s # {}
    PROVE  Pick(s) \in s
BY DEF Pick

\* g is the recursive function that sums F over every subset of S.
Sums(F, g, S) ==
    g = [s \in SUBSET S |-> IF s = {} THEN 0 ELSE F[Pick(s)] + g[s \ {Pick(s)}]]

\* Its values.
LEMMA SumsAt ==
    ASSUME NEW F, NEW g, NEW S, Sums(F, g, S)
    PROVE  /\ g[{}] = 0
           /\ \A s \in SUBSET S : s # {} => g[s] = F[Pick(s)] + g[s \ {Pick(s)}]
<1>1. \A s \in SUBSET S :
         g[s] = IF s = {} THEN 0 ELSE F[Pick(s)] + g[s \ {Pick(s)}]
  BY DEF Sums
<1> QED BY <1>1

\* The sum over a set does not depend on the larger set it is computed in.
LEMMA SumsAgree ==
    ASSUME NEW F, NEW S, NEW T, IsFiniteSet(S), S \subseteq T, NEW g, NEW h,
           Sums(F, g, S), Sums(F, h, T)
    PROVE  \A s \in SUBSET S : g[s] = h[s]
<1> DEFINE B == {s \in SUBSET S : g[s] # h[s]}
<1> SUFFICES ASSUME B # {} PROVE FALSE
  OBVIOUS
<1>1. PICK s \in B : \A u \in B : u \subseteq s => u = s
  <2>1. B \subseteq SUBSET S
    OBVIOUS
  <2> HIDE DEF B
  <2> QED BY <2>1, LeastSubset
<1>2. s # {} /\ s \in SUBSET S
  BY SumsAt
<1>3. /\ g[s] = F[Pick(s)] + g[s \ {Pick(s)}]
      /\ h[s] = F[Pick(s)] + h[s \ {Pick(s)}]
  BY <1>2, SumsAt
<1>4. s \ {Pick(s)} \notin B /\ s \ {Pick(s)} \in SUBSET S
  BY <1>1, <1>2, PickIsIn
<1> QED BY <1>3, <1>4

\* There is such a function.
LEMMA SumsExist ==
    ASSUME NEW F, NEW S, IsFiniteSet(S)
    PROVE  \E g : Sums(F, g, S)
<1> DEFINE B == {T \in SUBSET S : ~ \E g : Sums(F, g, T)}
<1> SUFFICES ASSUME B # {} PROVE FALSE
  OBVIOUS
<1>1. PICK T \in B : \A U \in B : U \subseteq T => U = T
  <2>1. B \subseteq SUBSET S
    OBVIOUS
  <2> HIDE DEF B
  <2> QED BY <2>1, LeastSubset
<1> DEFINE Below(W) == CHOOSE g : Sums(F, g, W)
           Value(U) == IF U = {} THEN 0
                       ELSE F[Pick(U)] + Below(U \ {Pick(U)})[U \ {Pick(U)}]
           v == [U \in SUBSET T |-> Value(U)]
<1>2. ASSUME NEW W \in SUBSET T, W # T
      PROVE  IsFiniteSet(W) /\ Sums(F, Below(W), W)
  <2>1. W \notin B /\ W \in SUBSET S
    BY <1>1, <1>2
  <2>2. \E g : Sums(F, g, W)
    BY <2>1
  <2>3. Sums(F, Below(W), W)
    BY <2>2
  <2> QED BY <2>1, <2>3, FS_Subset
<1>3. ASSUME NEW W \in SUBSET T, W # T
      PROVE  v[W] = Below(W)[W]
  <2>1. CASE W = {}
    BY <1>2, <1>3, <2>1, SumsAt
  <2>2. CASE W # {}
    <3> DEFINE V == W \ {Pick(W)}
    <3>1. V \in SUBSET T /\ V # T /\ V \subseteq W
      BY <1>3
    <3>2. IsFiniteSet(V) /\ Sums(F, Below(V), V) /\ Sums(F, Below(W), W)
      BY <1>2, <1>3, <3>1
    <3>3. Below(V)[V] = Below(W)[V]
      <4> HIDE DEF V, Below
      <4> QED BY <3>1, <3>2, SumsAgree
    <3>4. Below(W)[W] = F[Pick(W)] + Below(W)[V]
      <4> HIDE DEF Below
      <4> QED BY <2>2, <3>2, SumsAt
    <3> QED BY <2>2, <3>3, <3>4
  <2> QED BY <2>1, <2>2
<1>4. \A U \in SUBSET T :
         v[U] = IF U = {} THEN 0 ELSE F[Pick(U)] + v[U \ {Pick(U)}]
  <2>0. v[{}] = 0
    OBVIOUS
  <2> SUFFICES ASSUME NEW U \in SUBSET T, U # {}
               PROVE  v[U] = F[Pick(U)] + v[U \ {Pick(U)}]
    <3> HIDE DEF v
    <3> QED BY <2>0
  <2>1. U \ {Pick(U)} \in SUBSET T /\ U \ {Pick(U)} # T
    BY PickIsIn
  <2>2. v[U \ {Pick(U)}] = Below(U \ {Pick(U)})[U \ {Pick(U)}]
    BY <1>3, <2>1
  <2> QED BY <2>2
<1>5. Sums(F, v, T)
  <2>1. v = [U \in SUBSET T |-> v[U]]
    OBVIOUS
  <2> HIDE DEF v
  <2> QED BY <1>4, <2>1 DEF Sums
<1> QED BY <1>5

\* The sum of F over S.
SumOf(F, S) == (CHOOSE g : Sums(F, g, S))[S]

\* It is the value of any such function.
LEMMA SumOfIs ==
    ASSUME NEW F, NEW S, NEW T, IsFiniteSet(T), S \subseteq T, NEW g, Sums(F, g, T)
    PROVE  SumOf(F, S) = g[S]
<1>1. IsFiniteSet(S)
  BY FS_Subset
<1>2. Sums(F, CHOOSE h : Sums(F, h, S), S)
  BY <1>1, SumsExist
<1>3. PICK h : Sums(F, h, S) /\ SumOf(F, S) = h[S]
  BY <1>2 DEF SumOf
<1>4. \A s \in SUBSET S : h[s] = g[s]
  BY <1>1, <1>3, SumsAgree
<1> QED BY <1>3, <1>4

\* The recursion.
LEMMA SumOfAt ==
    ASSUME NEW F, NEW S, IsFiniteSet(S)
    PROVE  /\ SumOf(F, {}) = 0
           /\ S # {} => SumOf(F, S) = F[Pick(S)] + SumOf(F, S \ {Pick(S)})
<1>1. PICK g : Sums(F, g, S)
  BY SumsExist
<1>2. \A s \in SUBSET S : SumOf(F, s) = g[s]
  BY <1>1, SumOfIs
<1> QED BY <1>1, <1>2, SumsAt

\* A sum of integers is an integer.
LEMMA SumOfType ==
    ASSUME NEW F, NEW S, IsFiniteSet(S), \A x \in S : F[x] \in Int
    PROVE  SumOf(F, S) \in Int
<1> DEFINE B == {T \in SUBSET S : SumOf(F, T) \notin Int}
<1> SUFFICES ASSUME B # {} PROVE FALSE
  OBVIOUS
<1>1. PICK T \in B : \A U \in B : U \subseteq T => U = T
  <2>1. B \subseteq SUBSET S
    OBVIOUS
  <2> HIDE DEF B
  <2> QED BY <2>1, LeastSubset
<1>2. IsFiniteSet(T)
  BY FS_Subset
<1>3. T # {}
  <2>1. SumOf(F, {}) = 0
    BY SumOfAt
  <2>2. SumOf(F, T) \notin Int
    OBVIOUS
  <2> QED BY <2>1, <2>2
<1>4. Pick(T) \in T /\ SumOf(F, T) = F[Pick(T)] + SumOf(F, T \ {Pick(T)})
  BY <1>2, <1>3, SumOfAt, PickIsIn
<1>5. SumOf(F, T \ {Pick(T)}) \in Int
  BY <1>1, <1>4
<1> QED BY <1>4, <1>5

\* Any member may be set aside first.
LEMMA SumOfWithout ==
    ASSUME NEW F, NEW S, IsFiniteSet(S), \A y \in S : F[y] \in Int, NEW x \in S
    PROVE  SumOf(F, S) = F[x] + SumOf(F, S \ {x})
<1> DEFINE B == {T \in SUBSET S : \E y \in T : SumOf(F, T) # F[y] + SumOf(F, T \ {y})}
<1> SUFFICES ASSUME B # {} PROVE FALSE
  OBVIOUS
<1>1. PICK T \in B : \A U \in B : U \subseteq T => U = T
  <2>1. B \subseteq SUBSET S
    OBVIOUS
  <2> HIDE DEF B
  <2> QED BY <2>1, LeastSubset
<1>2. PICK y \in T : SumOf(F, T) # F[y] + SumOf(F, T \ {y})
  OBVIOUS
<1> DEFINE z == Pick(T)
           V == T \ {y, z}
<1>3. z \in T /\ SumOf(F, T) = F[z] + SumOf(F, T \ {z})
  BY SumOfAt, PickIsIn, FS_Subset
<1>4. y # z
  BY <1>2, <1>3
<1> HIDE DEF z
<1>5. ASSUME NEW U \in SUBSET T, U # T, NEW u \in U
      PROVE  SumOf(F, U) = F[u] + SumOf(F, U \ {u})
  BY <1>1, <1>5
<1>6. SumOf(F, T \ {z}) = F[y] + SumOf(F, V)
  <2>1. (T \ {z}) \ {y} = V /\ T \ {z} # T /\ y \in T \ {z}
    BY <1>3, <1>4
  <2> QED BY <1>5, <2>1
<1>7. SumOf(F, T \ {y}) = F[z] + SumOf(F, V)
  <2>1. (T \ {y}) \ {z} = V /\ T \ {y} # T /\ z \in T \ {y}
    BY <1>3, <1>4
  <2> QED BY <1>5, <2>1
<1>8. SumOf(F, V) \in Int /\ F[y] \in Int /\ F[z] \in Int
  <2>1. IsFiniteSet(V) /\ \A v \in V : F[v] \in Int
    BY FS_Subset
  <2> QED BY <1>3, <2>1, SumOfType
<1> QED BY <1>2, <1>3, <1>6, <1>7, <1>8

------------------------------------------------------------------------------
(***************************************************************************)
(* The sum of the community modules.                                       *)
(***************************************************************************)
\* It is this one.
LEMMA SumIs ==
    ASSUME NEW F, NEW S, IsFiniteSet(S)
    PROVE  SumFunctionOnSet(F, S) = SumOf(F, S)
<1> DEFINE Rec(g) == g = [s \in SUBSET S |->
                             IF s = {} THEN 0
                             ELSE F[CHOOSE x \in s : TRUE] + g[s \ {CHOOSE x \in s : TRUE}]]
<1>1. SumFunctionOnSet(F, S) = (CHOOSE g : Rec(g))[S]
  BY DEF SumFunctionOnSet, FoldFunctionOnSet, MapThenFoldSet
<1>2. ASSUME NEW g PROVE Rec(g) <=> Sums(F, g, S)
  BY DEF Sums, Pick
<1> HIDE DEF Rec
<1>3. PICK h : Rec(h) /\ SumFunctionOnSet(F, S) = h[S]
  <2>1. \E g : Rec(g)
    BY <1>2, SumsExist
  <2> QED BY <1>1, <2>1
<1> QED BY <1>2, <1>3, SumOfIs

\* A sum over nothing, and a sum of integers with one member set aside.
LEMMA SumWithout ==
    ASSUME NEW F, NEW S, IsFiniteSet(S), \A y \in S : F[y] \in Int
    PROVE  /\ SumFunctionOnSet(F, {}) = 0
           /\ SumFunctionOnSet(F, S) \in Int
           /\ \A x \in S : SumFunctionOnSet(F, S) = F[x] + SumFunctionOnSet(F, S \ {x})
<1>1. \A T \in SUBSET S : SumFunctionOnSet(F, T) = SumOf(F, T)
  BY SumIs, FS_Subset
<1>2. SumOf(F, {}) = 0 /\ SumOf(F, S) \in Int
  BY SumOfAt, SumOfType
<1>3. \A x \in S : SumOf(F, S) = F[x] + SumOf(F, S \ {x})
  BY SumOfWithout
<1> QED BY <1>1, <1>2, <1>3

\* Functions that agree on a set have the same sum over it.
LEMMA SumSame ==
    ASSUME NEW F, NEW G, NEW S, IsFiniteSet(S), \A x \in S : F[x] = G[x]
    PROVE  SumFunctionOnSet(F, S) = SumFunctionOnSet(G, S)
<1>1. PICK g : Sums(F, g, S)
  BY SumsExist
<1>2. \A s \in SUBSET S : s # {} => F[Pick(s)] = G[Pick(s)]
  BY PickIsIn
<1>3. [s \in SUBSET S |-> IF s = {} THEN 0 ELSE F[Pick(s)] + g[s \ {Pick(s)}]]
         = [s \in SUBSET S |-> IF s = {} THEN 0 ELSE G[Pick(s)] + g[s \ {Pick(s)}]]
  BY <1>2
<1>4. Sums(G, g, S)
  BY <1>1, <1>3 DEF Sums
<1> QED BY <1>1, <1>4, SumIs, SumOfIs

\* When sets and functions agree but at x, so do the sums.
LEMMA SumMoved ==
    ASSUME NEW F, NEW G, NEW S, NEW T, IsFiniteSet(S), IsFiniteSet(T),
           \A y \in S : F[y] \in Int, \A y \in T : G[y] \in Int,
           NEW x, S \ {x} = T \ {x}, \A y \in S \ {x} : F[y] = G[y]
    PROVE  SumFunctionOnSet(G, T)
              = SumFunctionOnSet(F, S) - (IF x \in S THEN F[x] ELSE 0)
                                       + (IF x \in T THEN G[x] ELSE 0)
<1>r. PICK R : R = S \ {x} /\ R = T \ {x}
  OBVIOUS
<1>1. IsFiniteSet(R)
  BY <1>r, FS_Subset
<1>2. /\ SumFunctionOnSet(F, R) = SumFunctionOnSet(G, R)
      /\ SumFunctionOnSet(F, R) \in Int
  BY <1>r, <1>1, SumSame, SumWithout
<1>3. SumFunctionOnSet(F, S)
         = SumFunctionOnSet(F, R) + (IF x \in S THEN F[x] ELSE 0)
  <2>1. CASE x \in S
    <3>1. SumFunctionOnSet(F, S) = F[x] + SumFunctionOnSet(F, R)
      BY <1>r, <2>1, SumWithout
    <3> QED BY <1>2, <2>1, <3>1
  <2>2. CASE x \notin S
    <3>1. R = S
      BY <1>r, <2>2
    <3> QED BY <1>2, <2>2, <3>1
  <2> QED BY <2>1, <2>2
<1>4. SumFunctionOnSet(G, T)
         = SumFunctionOnSet(G, R) + (IF x \in T THEN G[x] ELSE 0)
  <2>1. CASE x \in T
    <3>1. SumFunctionOnSet(G, T) = G[x] + SumFunctionOnSet(G, R)
      BY <1>r, <2>1, SumWithout
    <3> QED BY <1>2, <2>1, <3>1
  <2>2. CASE x \notin T
    <3>1. R = T
      BY <1>r, <2>2
    <3> QED BY <1>2, <2>2, <3>1
  <2> QED BY <2>1, <2>2
<1>5. (IF x \in S THEN F[x] ELSE 0) \in Int /\ (IF x \in T THEN G[x] ELSE 0) \in Int
  OBVIOUS
<1> QED BY <1>2, <1>3, <1>4, <1>5

\* A sum of natural numbers is one.
LEMMA SumNat ==
    ASSUME NEW F, NEW S, IsFiniteSet(S), \A x \in S : F[x] \in Nat
    PROVE  SumFunctionOnSet(F, S) \in Nat
<1> DEFINE B == {T \in SUBSET S : SumFunctionOnSet(F, T) \notin Nat}
<1> SUFFICES ASSUME B # {} PROVE FALSE
  OBVIOUS
<1>1. PICK T \in B : \A U \in B : U \subseteq T => U = T
  <2>1. B \subseteq SUBSET S
    OBVIOUS
  <2> HIDE DEF B
  <2> QED BY <2>1, LeastSubset
<1>2. IsFiniteSet(T)
  BY FS_Subset
<1>3. SumFunctionOnSet(F, {}) = 0
  BY <1>2, SumWithout
<1>4. PICK x \in T : TRUE
  BY <1>3
<1>5. SumFunctionOnSet(F, T) = F[x] + SumFunctionOnSet(F, T \ {x})
  <2>1. \A y \in T : F[y] \in Int
    OBVIOUS
  <2> HIDE DEF B
  <2> QED BY <1>2, <2>1, SumWithout
<1>6. SumFunctionOnSet(F, T \ {x}) \in Nat
  BY <1>1, <1>4
<1> QED BY <1>4, <1>5, <1>6

\* A sum of zeros.
LEMMA SumZero ==
    ASSUME NEW S, IsFiniteSet(S), NEW F, \A x \in S : F[x] = 0
    PROVE  SumFunctionOnSet(F, S) = 0
<1> DEFINE B == {T \in SUBSET S : SumFunctionOnSet(F, T) # 0}
<1> SUFFICES ASSUME B # {} PROVE FALSE
  OBVIOUS
<1>1. PICK T \in B : \A U \in B : U \subseteq T => U = T
  <2>1. B \subseteq SUBSET S
    OBVIOUS
  <2> HIDE DEF B
  <2> QED BY <2>1, LeastSubset
<1>2. IsFiniteSet(T)
  BY FS_Subset
<1>3. SumFunctionOnSet(F, {}) = 0
  BY <1>2, SumWithout
<1>4. PICK x \in T : TRUE
  BY <1>3
<1>5. SumFunctionOnSet(F, T) = F[x] + SumFunctionOnSet(F, T \ {x})
  <2>1. \A y \in T : F[y] \in Int
    OBVIOUS
  <2> HIDE DEF B
  <2> QED BY <1>2, <2>1, SumWithout
<1>6. T \ {x} \notin B /\ T \ {x} \in SUBSET S
  BY <1>1, <1>4
<1> QED BY <1>3, <1>4, <1>5, <1>6
=============================================================================
