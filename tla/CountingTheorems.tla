------------------------- MODULE CountingTheorems -------------------------
(***************************************************************************)
(* Sums and counts over finite sets.  Sums are those of SumFunctionOnSet:  *)
(* the sum of nothing, of one summand more or less, of summands that       *)
(* agree, and over the entries of a list.  SumFunctionOnSet is a fold, a   *)
(* recursive function on the subsets of the index set; that such a         *)
(* function exists, and what it returns, is proved by looking at a         *)
(* smallest counterexample, which the library's WFMin provides.            *)
(***************************************************************************)
EXTENDS Integers, Sequences, Functions, FiniteSetTheorems, TLAPS

LEMMA LeastNumber ==
    ASSUME NEW T \in SUBSET Nat, T # {}
    PROVE  \E n \in T : \A m \in T : n <= m
<1> DEFINE R == OpToRel(<, Nat)
<1>1. IsWellFoundedOn(R, Nat)
    BY NatLessThanWellFounded
<1>2. \A m, n \in Nat : m < n => <<m, n>> \in R
    BY DEF OpToRel
<1> HIDE DEF R
<1>3. PICK n \in T : \A m \in T : ~(<<m, n>> \in R)
    BY <1>1, WFMin
<1>4. ASSUME NEW m \in T PROVE n <= m
  <2>1. m \in Nat /\ n \in Nat
      OBVIOUS
  <2>2. ~(m < n)
      BY <1>2, <1>3, <2>1
  <2> QED
      BY <2>1, <2>2
<1> QED
    BY <1>4

\* A nonempty set of subsets of a finite set has a minimal member.
LEMMA SmallestSet ==
    ASSUME NEW S, IsFiniteSet(S), NEW C \in SUBSET (SUBSET S), C # {}
    PROVE  \E s \in C : \A t \in C : t \subseteq s => t = s
<1>1. IsWellFoundedOn(StrictSubsetOrdering(S), SUBSET S)
    BY FS_StrictSubsetOrderingWellFounded, FS_FiniteSubsetsOfFinite
<1>2. PICK s \in C : \A t \in C : ~(<<t, s>> \in StrictSubsetOrdering(S))
    BY <1>1, WFMin
<1>3. \A t \in C : t \subseteq s /\ t # s => <<t, s>> \in StrictSubsetOrdering(S)
    BY DEF StrictSubsetOrdering
<1>4. \A t \in C : t \subseteq s => t = s
    BY <1>2, <1>3
<1> QED
    BY <1>4

----------------------------------------------------------------------------
(* The fold *)

Some(s) == CHOOSE x \in s : TRUE

\* g is the function the fold computes with, on the sets of D.
FoldsOn(g, f, D) ==
    g = [s \in D |-> IF s = {} THEN 0 ELSE f[Some(s)] + g[s \ {Some(s)}]]

Fold(f, S) == CHOOSE g : FoldsOn(g, f, SUBSET S)

LEMMA SomeMember == ASSUME NEW s, s # {} PROVE Some(s) \in s
    BY DEF Some

LEMMA SumIsFold ==
    ASSUME NEW f, NEW S
    PROVE  SumFunctionOnSet(f, S) = Fold(f, S)[S]
    BY DEF SumFunctionOnSet, FoldFunctionOnSet, MapThenFoldSet, Fold, FoldsOn, Some

\* The recursion has a solution: on the sets of at most n elements, for every n,
\* and so on all subsets of a finite set.
LEMMA FoldExists ==
    ASSUME NEW f, NEW S, IsFiniteSet(S)
    PROVE  \E g : FoldsOn(g, f, SUBSET S)
<1> DEFINE D(n) == {s \in SUBSET S : Cardinality(s) <= n}
           Bad == {n \in Nat : ~\E g : FoldsOn(g, f, D(n))}
<1>1. \A s \in SUBSET S : IsFiniteSet(s) /\ Cardinality(s) \in Nat
    BY FS_Subset, FS_CardinalityType
<1>2. Cardinality(S) \in Nat /\ D(Cardinality(S)) = SUBSET S
    BY <1>1, FS_Subset
<1>3. \E g : FoldsOn(g, f, D(0))
  <2>1. \A s \in D(0) : s = {}
      BY <1>1, FS_EmptySet
  <2> DEFINE g == [s \in D(0) |-> 0]
  <2>2. FoldsOn(g, f, D(0))
      BY <2>1 DEF FoldsOn
  <2> QED
      BY <2>2
<1>4. ASSUME NEW n \in Nat, NEW g, FoldsOn(g, f, D(n))
      PROVE  \E h : FoldsOn(h, f, D(n + 1))
  <2> DEFINE h == [s \in D(n + 1) |-> IF s = {} THEN 0 ELSE f[Some(s)] + g[s \ {Some(s)}]]
  <2>1. D(n) \subseteq D(n + 1)
      BY <1>1
  <2>2. \A s \in D(n) : h[s] = g[s]
      BY <1>4, <2>1 DEF FoldsOn
  <2>3. ASSUME NEW s \in D(n + 1), s # {}
        PROVE  s \ {Some(s)} \in D(n)
    <3>1. Cardinality(s \ {Some(s)}) = Cardinality(s) - 1
        BY <1>1, <2>3, SomeMember, FS_RemoveElement
    <3> QED
        BY <1>1, <3>1
  <2>4. h = [s \in D(n + 1) |-> IF s = {} THEN 0 ELSE f[Some(s)] + h[s \ {Some(s)}]]
      BY <2>2, <2>3
  <2> QED
      BY <2>4 DEF FoldsOn
<1> HIDE DEF D
<1>5. Bad = {}
  <2> SUFFICES ASSUME Bad # {} PROVE FALSE
      OBVIOUS
  <2>1. PICK n \in Bad : \A m \in Bad : n <= m
      BY LeastNumber
  <2>2. n \in Nat /\ n # 0
      BY <1>3, <2>1
  <2>3. n - 1 \in Nat /\ n - 1 \notin Bad /\ n = (n - 1) + 1
      BY <2>1, <2>2
  <2> QED
      BY <1>4, <2>1, <2>3
<1> QED
    BY <1>2, <1>5

\* What the fold returns for each subset.
LEMMA FoldValue ==
    ASSUME NEW f, NEW S, IsFiniteSet(S)
    PROVE  \A s \in SUBSET S :
             Fold(f, S)[s] = IF s = {} THEN 0 ELSE f[Some(s)] + Fold(f, S)[s \ {Some(s)}]
<1> DEFINE g == Fold(f, S)
<1>1. FoldsOn(g, f, SUBSET S)
    BY FoldExists DEF Fold
<1> HIDE DEF g
<1>2. \A s \in SUBSET S : g[s] = IF s = {} THEN 0 ELSE f[Some(s)] + g[s \ {Some(s)}]
    BY <1>1 DEF FoldsOn
<1> QED
    BY <1>2 DEF g

\* Folds over different sets agree on the subsets they share, and depend on the
\* summands of those only.
LEMMA FoldAgrees ==
    ASSUME NEW f, NEW g, NEW S, NEW T, IsFiniteSet(S), IsFiniteSet(T), S \subseteq T,
           \A x \in S : f[x] = g[x]
    PROVE  Fold(f, S)[S] = Fold(g, T)[S]
<1> DEFINE C == {s \in SUBSET S : Fold(f, S)[s] # Fold(g, T)[s]}
<1>1. C = {}
  <2> SUFFICES ASSUME C # {} PROVE FALSE
      OBVIOUS
  <2>0. C \in SUBSET (SUBSET S)
      OBVIOUS
  <2> HIDE DEF C
  <2>1. PICK s \in C : \A t \in C : t \subseteq s => t = s
      BY <2>0, SmallestSet
  <2> USE DEF C
  <2>2. s \in SUBSET S /\ s \in SUBSET T
      OBVIOUS
  <2>3. CASE s = {}
      BY <2>1, <2>2, <2>3, FoldValue
  <2>4. CASE s # {}
    <3> DEFINE t == s \ {Some(s)}
    <3>1. Some(s) \in s
        BY <2>4, SomeMember
    <3>2. t \in SUBSET S /\ t \notin C
        BY <2>1, <3>1
    <3>3. Fold(f, S)[t] = Fold(g, T)[t]
        BY <3>2
    <3>4. /\ Fold(f, S)[s] = f[Some(s)] + Fold(f, S)[t]
          /\ Fold(g, T)[s] = g[Some(s)] + Fold(g, T)[t]
        BY <2>2, <2>4, FoldValue
    <3> QED
        BY <2>1, <3>1, <3>3, <3>4
  <2> QED
      BY <2>3, <2>4
<1> QED
    BY <1>1

----------------------------------------------------------------------------
(* Sums *)

\* The sum of no summands is 0.
THEOREM SumEmpty == \A f : SumFunctionOnSet(f, {}) = 0
    BY FS_EmptySet, SumIsFold, FoldValue

\* Sums over the same indices of summands that agree are equal.
THEOREM SumSame ==
    ASSUME NEW f, NEW g, NEW S, IsFiniteSet(S), \A x \in S : f[x] = g[x]
    PROVE  SumFunctionOnSet(f, S) = SumFunctionOnSet(g, S)
    BY SumIsFold, FoldAgrees

LEMMA SumUnfold ==
    ASSUME NEW f, NEW S, IsFiniteSet(S), S # {}
    PROVE  SumFunctionOnSet(f, S) = f[Some(S)] + SumFunctionOnSet(f, S \ {Some(S)})
<1> DEFINE T == S \ {Some(S)}
<1>1. IsFiniteSet(T) /\ T \subseteq S
    BY FS_Subset
<1>2. Fold(f, S)[S] = f[Some(S)] + Fold(f, S)[T]
    BY FoldValue
<1>3. Fold(f, T)[T] = Fold(f, S)[T]
    BY <1>1, FoldAgrees
<1> QED
    BY <1>2, <1>3, SumIsFold

\* A sum of integers is an integer.
THEOREM SumInt ==
    ASSUME NEW f, NEW S, IsFiniteSet(S), \A x \in S : f[x] \in Int
    PROVE  SumFunctionOnSet(f, S) \in Int
<1> DEFINE C == {s \in SUBSET S : SumFunctionOnSet(f, s) \notin Int}
<1>1. C = {}
  <2> SUFFICES ASSUME C # {} PROVE FALSE
      OBVIOUS
  <2>0. C \in SUBSET (SUBSET S)
      OBVIOUS
  <2> HIDE DEF C
  <2>1. PICK s \in C : \A t \in C : t \subseteq s => t = s
      BY <2>0, SmallestSet
  <2> USE DEF C
  <2>2. s \in SUBSET S /\ IsFiniteSet(s) /\ s # {}
    <3>1. s \in SUBSET S /\ SumFunctionOnSet(f, s) \notin Int
        OBVIOUS
    <3>2. s # {}
        BY <3>1, SumEmpty
    <3> QED
        BY <3>1, <3>2, FS_Subset
  <2>3. Some(s) \in s
      BY <2>2, SomeMember
  <2>4. SumFunctionOnSet(f, s \ {Some(s)}) \in Int
      BY <2>1, <2>2, <2>3
  <2> QED
      BY <2>1, <2>2, <2>3, <2>4, SumUnfold
<1> QED
    BY <1>1

\* Any summand may be taken out of a sum.
THEOREM SumTakeOut ==
    ASSUME NEW f, NEW S, IsFiniteSet(S), \A x \in S : f[x] \in Int, NEW x \in S
    PROVE  SumFunctionOnSet(f, S) = f[x] + SumFunctionOnSet(f, S \ {x})
<1> DEFINE Sum(s) == SumFunctionOnSet(f, s)
           C == {s \in SUBSET S : \E y \in s : Sum(s) # f[y] + Sum(s \ {y})}
<1>1. C = {}
  <2> SUFFICES ASSUME C # {} PROVE FALSE
      OBVIOUS
  <2>0. C \in SUBSET (SUBSET S)
      OBVIOUS
  <2> HIDE DEF C
  <2>1. PICK s \in C : \A t \in C : t \subseteq s => t = s
      BY <2>0, SmallestSet
  <2> USE DEF C
  <2>2. PICK y \in s : Sum(s) # f[y] + Sum(s \ {y})
      OBVIOUS
  <2> DEFINE z == Some(s)
             t == s \ {z}
             u == s \ {y}
             v == (s \ {y}) \ {z}
  <2>3. s \in SUBSET S /\ IsFiniteSet(s) /\ z \in s
      BY <2>2, FS_Subset, SomeMember
  <2>4. Sum(s) = f[z] + Sum(t)
      BY <2>2, <2>3, SumUnfold
  <2>5. y # z
      BY <2>2, <2>4
  <2>6. t \notin C /\ u \notin C /\ t \in SUBSET S /\ u \in SUBSET S
      BY <2>1, <2>2, <2>3
  <2>7. t \ {y} = v /\ y \in t /\ z \in u /\ v \in SUBSET S
      BY <2>2, <2>3, <2>5
  <2>8. Sum(t) = f[y] + Sum(v)
      BY <2>6, <2>7
  <2>9. Sum(u) = f[z] + Sum(v)
      BY <2>6, <2>7
  <2>10. Sum(v) \in Int /\ f[y] \in Int /\ f[z] \in Int
      BY <2>2, <2>3, <2>7, FS_Subset, SumInt
  <2> HIDE DEF Sum, t, u, v, z
  <2>11. Sum(s) = f[y] + Sum(u)
      BY <2>4, <2>8, <2>9, <2>10
  <2> QED
      BY <2>2, <2>11 DEF u
<1> QED
    BY <1>1

\* One index more.
THEOREM SumAdd ==
    ASSUME NEW f, NEW S, NEW x, IsFiniteSet(S), x \notin S,
           \A y \in S \cup {x} : f[y] \in Int
    PROVE  SumFunctionOnSet(f, S \cup {x}) = f[x] + SumFunctionOnSet(f, S)
<1>1. IsFiniteSet(S \cup {x}) /\ (S \cup {x}) \ {x} = S
    BY FS_AddElement
<1> QED
    BY <1>1, SumTakeOut

\* Zeros add up to zero.
LEMMA SumZero ==
    ASSUME NEW S, IsFiniteSet(S), NEW f, \A x \in S : f[x] = 0
    PROVE  SumFunctionOnSet(f, S) = 0
<1> DEFINE C == {s \in SUBSET S : SumFunctionOnSet(f, s) # 0}
<1>1. C = {}
  <2> SUFFICES ASSUME C # {} PROVE FALSE
      OBVIOUS
  <2>0. C \in SUBSET (SUBSET S)
      OBVIOUS
  <2> HIDE DEF C
  <2>1. PICK s \in C : \A t \in C : t \subseteq s => t = s
      BY <2>0, SmallestSet
  <2>2. s \in SUBSET S /\ SumFunctionOnSet(f, s) # 0
      BY DEF C
  <2>3. PICK x \in s : TRUE
      BY <2>2, SumEmpty
  <2>4. SumFunctionOnSet(f, s \ {x}) = 0
    <3>1. s \ {x} \notin C
        BY <2>1
    <3> QED
        BY <2>2, <3>1 DEF C
  <2>5. SumFunctionOnSet(f, s) = f[x] + SumFunctionOnSet(f, s \ {x})
    <3>1. IsFiniteSet(s) /\ \A y \in s : f[y] \in Int
        BY <2>2, FS_Subset
    <3> QED
        BY <3>1, SumTakeOut
  <2> QED
      BY <2>2, <2>4, <2>5
<1> QED
    BY <1>1

\* A sum of naturals is a natural.
LEMMA SumNat ==
    ASSUME NEW S, IsFiniteSet(S), NEW f, \A x \in S : f[x] \in Nat
    PROVE  SumFunctionOnSet(f, S) \in Nat
<1> DEFINE C == {s \in SUBSET S : SumFunctionOnSet(f, s) \notin Nat}
<1>1. C = {}
  <2> SUFFICES ASSUME C # {} PROVE FALSE
      OBVIOUS
  <2>0. C \in SUBSET (SUBSET S)
      OBVIOUS
  <2> HIDE DEF C
  <2>1. PICK s \in C : \A t \in C : t \subseteq s => t = s
      BY <2>0, SmallestSet
  <2>2. s \in SUBSET S /\ SumFunctionOnSet(f, s) \notin Nat
      BY DEF C
  <2>3. PICK x \in s : TRUE
      BY <2>2, SumEmpty
  <2>4. SumFunctionOnSet(f, s \ {x}) \in Nat
    <3>1. s \ {x} \notin C
        BY <2>1
    <3> QED
        BY <2>2, <3>1 DEF C
  <2>5. SumFunctionOnSet(f, s) = f[x] + SumFunctionOnSet(f, s \ {x})
    <3>1. IsFiniteSet(s) /\ \A y \in s : f[y] \in Int
        BY <2>2, FS_Subset
    <3> QED
        BY <3>1, SumTakeOut
  <2> QED
      BY <2>2, <2>4, <2>5
<1> QED
    BY <1>1

----------------------------------------------------------------------------
(* Counting the entries of a list *)

\* A list that has no entry twice keeps that when an entry it lacks is appended.
LEMMA AppendFresh ==
    ASSUME NEW A, NEW s \in Seq(A), NEW x \in A,
           \A i, j \in DOMAIN s : s[i] = s[j] => i = j,
           \A i \in DOMAIN s : s[i] # x
    PROVE  LET t == Append(s, x)
           IN  /\ t \in Seq(A)
               /\ {t[i] : i \in DOMAIN t} = {s[i] : i \in DOMAIN s} \cup {x}
               /\ \A i, j \in DOMAIN t : t[i] = t[j] => i = j
<1> DEFINE t == Append(s, x)
           n == Len(s)
<1>1. /\ n \in Nat /\ DOMAIN s = 1 .. n /\ DOMAIN t = 1 .. (n + 1)
      /\ t[n + 1] = x /\ \A i \in 1 .. n : t[i] = s[i]
      /\ t \in Seq(A)
    OBVIOUS
<1> HIDE DEF t, n
<1>2. DOMAIN t = DOMAIN s \cup {n + 1}
    BY <1>1
<1>3. \A i \in DOMAIN s : t[i] = s[i]
    BY <1>1
<1> QED
    BY <1>1, <1>2, <1>3 DEF t

\* Where a list has no entry twice, the positions of its entries in T are as
\* many as those entries.
LEMMA PositionsAreEntries ==
    ASSUME NEW A, NEW s \in Seq(A), NEW T, NEW P, NEW E,
           \A i, j \in DOMAIN s : s[i] = s[j] => i = j,
           P = {i \in DOMAIN s : s[i] \in T},
           E = {s[i] : i \in DOMAIN s} \cap T
    PROVE  IsFiniteSet(E) /\ Cardinality(P) = Cardinality(E)
<1> DEFINE f == [i \in P |-> s[i]]
<1>1. IsFiniteSet(P)
  <2>1. DOMAIN s = 1 .. Len(s) /\ Len(s) \in Nat
      OBVIOUS
  <2>2. IsFiniteSet(DOMAIN s)
      BY <2>1, FS_Interval
  <2> QED
      BY <2>2, FS_Subset
<1>2. f \in [P -> E] /\ \A e \in E : \E i \in P : f[i] = e
    OBVIOUS
<1>3. \A i, j \in P : f[i] = f[j] => i = j
    OBVIOUS
<1> HIDE DEF f
<1>4. f \in Bijection(P, E)
    BY <1>2, <1>3 DEF Bijection, Injection, Surjection, IsInjective
<1> QED
    BY <1>1, <1>4, FS_Bijection DEF ExistsBijection

\* A list that has no entry twice and has all of T; and what a loop over the list
\* adds at each position when it skips entries outside T.
Covers(s, T) ==
    /\ \A i, j \in DOMAIN s : s[i] = s[j] => i = j
    /\ \A x \in T : \E i \in DOMAIN s : s[i] = x
Skips(f, s, T, h) == \A i \in DOMAIN s : f[i] = IF s[i] \in T THEN h[s[i]] ELSE 0

\* Such a loop sums over T.
THEOREM SumOfList ==
    ASSUME NEW A, NEW s \in Seq(A), NEW T \in SUBSET A, NEW h, NEW f,
           Covers(s, T), Skips(f, s, T, h), \A x \in T : h[x] \in Int
    PROVE  SumFunctionOnSet(f, DOMAIN s) = SumFunctionOnSet(h, T)
<1> USE DEF Covers, Skips
<1> DEFINE D == DOMAIN s
           E(P) == {x \in T : \E i \in P : s[i] = x}
           C == {P \in SUBSET D : SumFunctionOnSet(f, P) # SumFunctionOnSet(h, E(P))}
<1>1. IsFiniteSet(D)
  <2>1. D = 1 .. Len(s) /\ Len(s) \in Nat
      OBVIOUS
  <2> QED
      BY <2>1, FS_Interval
<1>2. \A i \in D : f[i] \in Int
    OBVIOUS
<1>3. ASSUME NEW P \in SUBSET D
      PROVE  IsFiniteSet(P) /\ IsFiniteSet(E(P))
  <2>1. IsFiniteSet(P)
      BY <1>1, FS_Subset
  <2>2. IsFiniteSet(T)
    <3> DEFINE I == {i \in DOMAIN s : s[i] \in T}
               F == {s[i] : i \in DOMAIN s} \cap T
    <3>1. F = T
        OBVIOUS
    <3>2. F = {s[i] : i \in DOMAIN s} \cap T /\ I = {i \in DOMAIN s : s[i] \in T}
        OBVIOUS
    <3> HIDE DEF I, F
    <3>3. IsFiniteSet(F)
        BY <3>2, PositionsAreEntries
    <3> QED
        BY <3>1, <3>3
  <2>3. E(P) \subseteq T
      OBVIOUS
  <2> HIDE DEF E
  <2> QED
      BY <2>1, <2>2, <2>3, FS_Subset
<1>4. C = {}
  <2> SUFFICES ASSUME C # {} PROVE FALSE
      OBVIOUS
  <2>0. C \in SUBSET (SUBSET D)
      OBVIOUS
  <2> HIDE DEF C
  <2>1. PICK P \in C : \A Q \in C : Q \subseteq P => Q = P
      BY <1>1, <2>0, SmallestSet
  <2>2. P \in SUBSET D /\ SumFunctionOnSet(f, P) # SumFunctionOnSet(h, E(P))
      BY DEF C
  <2>3. P # {}
    <3>1. E({}) = {}
        OBVIOUS
    <3> QED
        BY <2>2, <3>1, SumEmpty
  <2>4. PICK i \in P : TRUE
      BY <2>3
  <2> DEFINE Q == P \ {i}
  <2>5. SumFunctionOnSet(f, Q) = SumFunctionOnSet(h, E(Q))
    <3>1. Q \in SUBSET D /\ Q \subseteq P /\ Q # P
        BY <2>2
    <3>2. Q \notin C
        BY <2>1, <3>1
    <3> QED
        BY <3>1, <3>2 DEF C
  <2>6. SumFunctionOnSet(f, P) = f[i] + SumFunctionOnSet(f, Q)
    <3>1. IsFiniteSet(P) /\ \A j \in P : f[j] \in Int
        BY <1>2, <1>3, <2>2
    <3> QED
        BY <3>1, SumTakeOut
  <2>7. SumFunctionOnSet(f, Q) \in Int
    <3>1. IsFiniteSet(Q) /\ \A j \in Q : f[j] \in Int
        BY <1>2, <1>3, <2>2
    <3> QED
        BY <3>1, SumInt
  <2>8. CASE s[i] \in T
    <3> DEFINE x == s[i]
               F == E(Q)
    <3>1. E(P) = F \cup {x} /\ x \notin F
        BY <2>2, <2>8
    <3>2. IsFiniteSet(F) /\ \A y \in F \cup {x} : h[y] \in Int
      <4>1. Q \in SUBSET D /\ E(Q) \subseteq T
          BY <2>2
      <4> HIDE DEF E, Q
      <4> QED
          BY <1>3, <2>8, <4>1
    <3>3. f[i] = h[x]
        BY <2>2, <2>8
    <3> HIDE DEF x, F
    <3>4. SumFunctionOnSet(h, F \cup {x}) = h[x] + SumFunctionOnSet(h, F)
        BY <3>1, <3>2, SumAdd
    <3> QED
        BY <2>2, <2>5, <2>6, <3>1, <3>3, <3>4 DEF F
  <2>9. CASE s[i] \notin T
    <3>1. E(P) = E(Q) /\ f[i] = 0
        BY <2>2, <2>9
    <3> HIDE DEF E, Q
    <3> QED
        BY <2>2, <2>5, <2>6, <2>7, <3>1
  <2> QED
      BY <2>8, <2>9
<1>5. E(D) = T
    OBVIOUS
<1> QED
    BY <1>4, <1>5
============================================================================
