---------------------------- MODULE SumTheorems ----------------------------
(***************************************************************************)
(* Facts about SumFunction, the total of an integer-valued function over a *)
(* finite domain (community module Functions).  The escrow contract keeps  *)
(* three numbers that are meant to be such totals: the ETH it holds, the   *)
(* running total of credited balances, and what each payee is owed.  Its   *)
(* handlers maintain them one entry at a time, so the facts needed are     *)
(* that a total follows a change of one entry, and that a total of zeros   *)
(* is zero.                                                                *)
(*                                                                         *)
(* SumFunction is a fold in an arbitrary order.  The proofs first show     *)
(* that the fold is a finitely additive measure on the subsets of the      *)
(* domain (removing any element takes away exactly its value), and from    *)
(* then on use nothing else of it.  Inductions over finite sets are        *)
(* carried out as minimal counterexamples.                                 *)
(***************************************************************************)
EXTENDS Integers, Functions, FiniteSetTheorems, TLAPS

\* The element the fold takes next.
Pick(T) == CHOOSE x \in T : TRUE

\* The equation that defines the fold over the subsets of D.
FoldsOver(m, f, D) ==
    m = [T \in SUBSET D |-> IF T = {} THEN 0
                            ELSE f[Pick(T)] + m[T \ {Pick(T)}]]

\* m assigns to every subset of D the total of f over it.
IsMeasure(m, f, D) ==
    /\ m \in [SUBSET D -> Int]
    /\ m[{}] = 0
    /\ \A T \in SUBSET D : \A x \in T : m[T] = m[T \ {x}] + f[x]

\* A non-empty set of subsets of a finite set has a minimal member.
LEMMA MinimalSubset ==
  ASSUME NEW D, IsFiniteSet(D), NEW B \in SUBSET (SUBSET D), B # {}
  PROVE  \E T \in B : \A U \in B : ~(U \subseteq T /\ U # T)
<1>1. IsWellFoundedOn(StrictSubsetOrdering(D), FiniteSubsetsOf(D))
  BY FS_StrictSubsetOrderingWellFounded
<1>2. FiniteSubsetsOf(D) = SUBSET D
  BY FS_FiniteSubsetsOfFinite
<1>3. PICK T \in B : \A U \in B : ~(<<U, T>> \in StrictSubsetOrdering(D))
  BY <1>1, <1>2, WFMin
<1>4. ASSUME NEW U \in B, U \subseteq T, U # T PROVE FALSE
  BY <1>3, <1>4 DEF StrictSubsetOrdering
<1> QED BY <1>4

\* The element picked is one of the set.
LEMMA PickIn == ASSUME NEW T, T # {} PROVE Pick(T) \in T
BY DEF Pick

\* Two folds agree on the sets both of them cover.
LEMMA FoldUnique ==
  ASSUME NEW D, IsFiniteSet(D), NEW f, NEW g, NEW h, NEW U, NEW V, NEW S,
         U \subseteq D, V \subseteq D, S \subseteq U, U \subseteq V,
         FoldsOver(g, f, U), FoldsOver(h, f, V)
  PROVE  g[S] = h[S]
<1> DEFINE B == {T \in SUBSET U : g[T] # h[T]}
<1>1. SUFFICES ASSUME B # {} PROVE FALSE
  OBVIOUS
<1>2. B \in SUBSET (SUBSET D)
  OBVIOUS
<1>3. PICK T \in B : \A W \in B : ~(W \subseteq T /\ W # T)
  <2> HIDE DEF B
  <2> QED BY <1>1, <1>2, MinimalSubset
<1>4. T \in SUBSET U /\ T \in SUBSET V /\ g[T] # h[T]
  OBVIOUS
<1>5. CASE T = {}
  <2>1. g[{}] = 0
    BY DEF FoldsOver
  <2>2. h[{}] = 0
    BY DEF FoldsOver
  <2> QED BY <2>1, <2>2, <1>4, <1>5
<1>6. CASE T # {}
  <2> DEFINE W == T \ {Pick(T)}
  <2>1. W \in SUBSET U /\ W \subseteq T /\ W # T
    BY <1>6, <1>4, PickIn
  <2>2. W \notin B
    BY <2>1, <1>3
  <2>3. g[W] = h[W]
    BY <2>1, <2>2
  <2>4. g[T] = f[Pick(T)] + g[W]
    BY <1>4, <1>6 DEF FoldsOver
  <2>5. h[T] = f[Pick(T)] + h[W]
    BY <1>4, <1>6 DEF FoldsOver
  <2> QED BY <2>3, <2>4, <2>5, <1>4
<1> QED BY <1>5, <1>6

\* The fold over a finite set exists.
LEMMA FoldExists ==
  ASSUME NEW D, IsFiniteSet(D), NEW f
  PROVE  \E g : FoldsOver(g, f, D)
<1> DEFINE B == {U \in SUBSET D : ~ \E g : FoldsOver(g, f, U)}
<1>1. SUFFICES ASSUME B # {} PROVE FALSE
  <2>1. D \in SUBSET D
    OBVIOUS
  <2> QED BY <2>1
<1>2. PICK U \in B : \A W \in B : ~(W \subseteq U /\ W # U)
  <2>1. B \in SUBSET (SUBSET D)
    OBVIOUS
  <2> HIDE DEF B
  <2> QED BY <1>1, <2>1, MinimalSubset
<1> DEFINE G(T) == CHOOSE g : FoldsOver(g, f, T)
<1>3. ASSUME NEW T \in SUBSET U, T # U PROVE FoldsOver(G(T), f, T)
  <2>1. T \notin B
    BY <1>2, <1>3
  <2>2. \E g : FoldsOver(g, f, T)
    BY <2>1
  <2> QED BY <2>2
<1> DEFINE h == [T \in SUBSET U |-> IF T = {} THEN 0
                 ELSE f[Pick(T)] + G(T \ {Pick(T)})[T \ {Pick(T)}]]
<1> HIDE DEF G
<1>4. ASSUME NEW T \in SUBSET U, T # U PROVE h[T] = G(T)[T]
  <2>1. FoldsOver(G(T), f, T)
    BY <1>3, <1>4
  <2>2. CASE T = {}
    <3>1. G(T)[T] = 0
      BY <2>1, <2>2 DEF FoldsOver
    <3> QED BY <3>1, <2>2
  <2>3. CASE T # {}
    <3> DEFINE W == T \ {Pick(T)}
    <3>1. W \in SUBSET T /\ W \in SUBSET U /\ W # U
      BY <2>3, <1>4, PickIn
    <3>2. FoldsOver(G(W), f, W)
      BY <3>1, <1>3
    <3>3. G(W)[W] = G(T)[W]
      <4>1. W \subseteq D /\ T \subseteq D /\ W \subseteq T
        BY <3>1
      <4>2. PICK gw, gt : gw = G(W) /\ gt = G(T)
        OBVIOUS
      <4>3. FoldsOver(gw, f, W) /\ FoldsOver(gt, f, T)
        BY <4>2, <3>2, <2>1
      <4>4. PICK w : w = W
        OBVIOUS
      <4>5. /\ w \subseteq D /\ T \subseteq D /\ w \subseteq T
            /\ FoldsOver(gw, f, w)
        BY <4>1, <4>3, <4>4
      <4> HIDE DEF W, B, h
      <4>6. gw[w] = gt[w]
        <5>1. PICK S : S = w
          OBVIOUS
        <5>2. S \subseteq w
          BY <5>1
        <5>3. gw[S] = gt[S]
          BY <5>2, <4>3, <4>5, FoldUnique
        <5> QED BY <5>1, <5>3
      <4> QED BY <4>2, <4>4, <4>6
    <3>4. G(T)[T] = f[Pick(T)] + G(T)[W]
      <4>1. T \in SUBSET T
        OBVIOUS
      <4> HIDE DEF W
      <4>2. W = T \ {Pick(T)}
        BY DEF W
      <4> QED BY <4>1, <4>2, <2>1, <2>3 DEF FoldsOver
    <3>5. h[T] = f[Pick(T)] + G(W)[W]
      BY <2>3
    <3> QED BY <3>3, <3>4, <3>5
  <2> QED BY <2>2, <2>3
<1>5. ASSUME NEW T \in SUBSET U, T # {}
      PROVE  h[T \ {Pick(T)}] = G(T \ {Pick(T)})[T \ {Pick(T)}]
  <2>1. T \ {Pick(T)} \in SUBSET U /\ T \ {Pick(T)} # U
    BY <1>5, PickIn
  <2> HIDE DEF h
  <2> QED BY <2>1, <1>4
<1>6. h = [T \in SUBSET U |-> IF T = {} THEN 0
                              ELSE f[Pick(T)] + h[T \ {Pick(T)}]]
  <2> DEFINE k == [T \in SUBSET U |-> IF T = {} THEN 0
                              ELSE f[Pick(T)] + h[T \ {Pick(T)}]]
  <2>1. ASSUME NEW T \in SUBSET U PROVE h[T] = k[T]
    <3>1. CASE T = {}
      BY <3>1
    <3>2. CASE T # {}
      <4>1. h[T] = f[Pick(T)] + G(T \ {Pick(T)})[T \ {Pick(T)}]
        BY <3>2
      <4>2. k[T] = f[Pick(T)] + h[T \ {Pick(T)}]
        BY <3>2
      <4> QED BY <4>1, <4>2, <1>5, <3>2
    <3> QED BY <3>1, <3>2
  <2>2. h \in [SUBSET U -> {h[T] : T \in SUBSET U}]
    OBVIOUS
  <2>3. DOMAIN k = SUBSET U /\ DOMAIN h = SUBSET U
    OBVIOUS
  <2> QED BY <2>1, <2>3
<1>7. FoldsOver(h, f, U)
  <2> HIDE DEF h
  <2> QED BY <1>6 DEF FoldsOver
<1> QED BY <1>7, <1>2

\* SumFunction is an additive measure of the whole domain.
THEOREM SumIsMeasure ==
  ASSUME NEW D, IsFiniteSet(D), NEW f \in [D -> Int]
  PROVE  \E m : IsMeasure(m, f, D) /\ SumFunction(f) = m[D]
<1> DEFINE m == CHOOSE g : FoldsOver(g, f, D)
<1>1. FoldsOver(m, f, D)
  BY FoldExists
<1>2. SumFunction(f) = m[D]
  <2>1. DOMAIN f = D
    OBVIOUS
  <2> QED BY <2>1
       DEF SumFunction, SumFunctionOnSet, FoldFunctionOnSet, MapThenFoldSet,
           FoldsOver, Pick
<1> HIDE DEF m
<1>3. m[{}] = 0
  BY <1>1 DEF FoldsOver
<1>4. ASSUME NEW T \in SUBSET D, T # {}
      PROVE  m[T] = f[Pick(T)] + m[T \ {Pick(T)}]
  BY <1>1, <1>4 DEF FoldsOver
<1>5. ASSUME NEW T \in SUBSET D PROVE m[T] \in Int
  <2> DEFINE B == {U \in SUBSET D : m[U] \notin Int}
  <2>1. SUFFICES ASSUME B # {} PROVE FALSE
    OBVIOUS
  <2>2. PICK U \in B : \A W \in B : ~(W \subseteq U /\ W # U)
    <3>1. B \in SUBSET (SUBSET D)
      OBVIOUS
    <3> HIDE DEF B
    <3> QED BY <2>1, <3>1, MinimalSubset
  <2>3. U # {}
    BY <1>3
  <2>4. U \ {Pick(U)} \notin B /\ Pick(U) \in U
    BY <2>2, <2>3, PickIn
  <2>5. m[U \ {Pick(U)}] \in Int /\ f[Pick(U)] \in Int
    BY <2>4
  <2>6. m[U] = f[Pick(U)] + m[U \ {Pick(U)}]
    <3>1. U \in SUBSET D
      OBVIOUS
    <3> QED BY <2>3, <3>1, <1>4
  <2>7. m[U] \in Int
    BY <2>5, <2>6
  <2> QED BY <2>7
<1>6. ASSUME NEW T \in SUBSET D, NEW x \in T PROVE m[T] = m[T \ {x}] + f[x]
  <2> DEFINE B == {U \in SUBSET D : \E y \in U : m[U] # m[U \ {y}] + f[y]}
  <2>1. SUFFICES ASSUME B # {} PROVE FALSE
    OBVIOUS
  <2>2. PICK U \in B : \A W \in B : ~(W \subseteq U /\ W # U)
    <3>1. B \in SUBSET (SUBSET D)
      OBVIOUS
    <3> HIDE DEF B
    <3> QED BY <2>1, <3>1, MinimalSubset
  <2>3. PICK y \in U : m[U] # m[U \ {y}] + f[y]
    OBVIOUS
  <2>4. PICK z \in U : z = Pick(U) /\ m[U] = f[z] + m[U \ {z}]
    BY <1>4, PickIn
  <2>5. y # z
    <3>1. f[z] \in Int /\ U \ {z} \in SUBSET D
      OBVIOUS
    <3>2. m[U \ {z}] \in Int
      BY <3>1, <1>5
    <3>3. SUFFICES ASSUME y = z PROVE FALSE
      OBVIOUS
    <3>4. PICK r : r = m[U \ {z}]
      OBVIOUS
    <3>5. m[U] # r + f[z]
      BY <2>3, <3>3, <3>4, Zenon
    <3>6. m[U] = f[z] + r
      BY <2>4, <3>4, Zenon
    <3>7. r \in Int
      BY <3>2, <3>4, Zenon
    <3> QED BY <3>1, <3>5, <3>6, <3>7
  <2>6. m[U \ {z}] = m[(U \ {z}) \ {y}] + f[y]
    <3>1. U \ {z} \notin B
      BY <2>2
    <3> QED BY <3>1, <2>5
  <2>7. m[U \ {y}] = m[(U \ {y}) \ {z}] + f[z]
    <3>1. U \ {y} \notin B
      BY <2>2
    <3> QED BY <3>1, <2>5
  <2>8. (U \ {z}) \ {y} = (U \ {y}) \ {z}
    OBVIOUS
  <2>9. PICK w \in Int : w = m[(U \ {y}) \ {z}]
    <3>1. (U \ {y}) \ {z} \in SUBSET D
      OBVIOUS
    <3> QED BY <3>1, <1>5
  <2>10. f[y] \in Int /\ f[z] \in Int
    OBVIOUS
  <2>11. PICK p, r : p = m[U \ {y}] /\ r = m[U \ {z}]
    OBVIOUS
  <2>12. m[U] # p + f[y] /\ m[U] = f[z] + r
    BY <2>3, <2>4, <2>11, Zenon
  <2>13. r = w + f[y] /\ p = w + f[z]
    BY <2>6, <2>7, <2>8, <2>9, <2>11, Zenon
  <2> QED BY <2>9, <2>10, <2>12, <2>13
<1>7. IsMeasure(m, f, D)
  <2>1. DOMAIN m = SUBSET D /\ m \in [SUBSET D -> Int]
    BY <1>1, <1>5 DEF FoldsOver
  <2> QED BY <2>1, <1>3, <1>6 DEF IsMeasure
<1> QED BY <1>2, <1>7

\* Two measures of the same function agree on every set.
LEMMA MeasureUnique ==
  ASSUME NEW D, IsFiniteSet(D), NEW f, NEW m, IsMeasure(m, f, D),
         NEW n, IsMeasure(n, f, D), NEW S \in SUBSET D
  PROVE  m[S] = n[S]
<1> DEFINE B == {T \in SUBSET D : m[T] # n[T]}
<1>1. SUFFICES ASSUME B # {} PROVE FALSE
  OBVIOUS
<1>2. PICK T \in B : \A W \in B : ~(W \subseteq T /\ W # T)
  <2>1. B \in SUBSET (SUBSET D)
    OBVIOUS
  <2> HIDE DEF B
  <2> QED BY <1>1, <2>1, MinimalSubset
<1>3. PICK x \in T : TRUE
  BY DEF IsMeasure
<1>4. T \ {x} \notin B
  BY <1>2
<1>5. m[T \ {x}] = n[T \ {x}]
  BY <1>4
<1>6. m[T] = m[T \ {x}] + f[x] /\ n[T] = n[T \ {x}] + f[x]
  BY DEF IsMeasure
<1> QED BY <1>5, <1>6

\* The total is an integer, and a total of zeros is zero.
THEOREM SumType ==
  ASSUME NEW D, IsFiniteSet(D), NEW f \in [D -> Int]
  PROVE  SumFunction(f) \in Int
<1>1. PICK m : IsMeasure(m, f, D) /\ SumFunction(f) = m[D]
  BY SumIsMeasure
<1>2. D \in SUBSET D
  OBVIOUS
<1> QED BY <1>1, <1>2 DEF IsMeasure

\* The total of zeros is zero.
THEOREM SumZero ==
  ASSUME NEW D, IsFiniteSet(D), NEW f \in [D -> Int], \A x \in D : f[x] = 0
  PROVE  SumFunction(f) = 0
<1>1. PICK m : IsMeasure(m, f, D) /\ SumFunction(f) = m[D]
  BY SumIsMeasure
<1> DEFINE z == [T \in SUBSET D |-> 0]
<1>2. IsMeasure(z, f, D)
  BY DEF IsMeasure
<1>3. D \in SUBSET D
  OBVIOUS
<1> HIDE DEF z
<1>4. m[D] = z[D]
  BY <1>1, <1>2, <1>3, MeasureUnique
<1> QED BY <1>1, <1>3, <1>4 DEF z

\* Changing one entry changes the total by the difference.
THEOREM SumUpdate ==
  ASSUME NEW D, IsFiniteSet(D), NEW f \in [D -> Int], NEW g \in [D -> Int],
         NEW a \in D, \A x \in D \ {a} : g[x] = f[x]
  PROVE  SumFunction(g) = SumFunction(f) + g[a] - f[a]
<1>1. PICK m : IsMeasure(m, f, D) /\ SumFunction(f) = m[D]
  BY SumIsMeasure
<1>2. PICK n : IsMeasure(n, g, D) /\ SumFunction(g) = n[D]
  BY SumIsMeasure
<1> DEFINE d == g[a] - f[a]
           k == [T \in SUBSET D |-> IF a \in T THEN m[T] + d ELSE m[T]]
<1>3. IsMeasure(k, g, D)
  <2>1. k \in [SUBSET D -> Int]
    BY <1>1 DEF IsMeasure
  <2>2. k[{}] = 0
    BY <1>1 DEF IsMeasure
  <2>3. ASSUME NEW T \in SUBSET D, NEW x \in T
        PROVE  k[T] = k[T \ {x}] + g[x]
    <3>1. /\ m[T] = m[T \ {x}] + f[x] /\ m[T] \in Int /\ m[T \ {x}] \in Int
          /\ f[x] \in Int /\ g[x] \in Int /\ f[a] \in Int /\ g[a] \in Int
          /\ T \ {x} \in SUBSET D /\ x \in D
      BY <1>1 DEF IsMeasure
    <3>2. CASE x = a
      <4>1. k[T] = m[T] + d /\ k[T \ {x}] = m[T \ {x}]
        BY <3>1, <3>2
      <4> QED BY <3>1, <3>2, <4>1
    <3>3. CASE x # a /\ a \in T
      <4>1. k[T] = m[T] + d /\ k[T \ {x}] = m[T \ {x}] + d
        BY <3>1, <3>3
      <4>2. g[x] = f[x]
        BY <3>1, <3>3
      <4> QED BY <3>1, <4>1, <4>2
    <3>4. CASE x # a /\ a \notin T
      <4>1. k[T] = m[T] /\ k[T \ {x}] = m[T \ {x}]
        BY <3>1, <3>4
      <4>2. g[x] = f[x]
        BY <3>1, <3>4
      <4> QED BY <3>1, <4>1, <4>2
    <3> QED BY <3>2, <3>3, <3>4
  <2> HIDE DEF k
  <2> QED BY <2>1, <2>2, <2>3 DEF IsMeasure
<1>4. D \in SUBSET D
  OBVIOUS
<1>5. k[D] = m[D] + d
  BY <1>4
<1> HIDE DEF k
<1>6. n[D] = k[D]
  BY <1>2, <1>3, <1>4, MeasureUnique
<1>7. m[D] \in Int /\ f[a] \in Int /\ g[a] \in Int
  BY <1>1, <1>4 DEF IsMeasure
<1> QED BY <1>1, <1>2, <1>5, <1>6, <1>7

\* A total of natural numbers is one, and no entry exceeds it.
THEOREM SumNat ==
  ASSUME NEW D, IsFiniteSet(D), NEW f \in [D -> Nat]
  PROVE  SumFunction(f) \in Nat
<1>1. f \in [D -> Int]
  OBVIOUS
<1>2. PICK m : IsMeasure(m, f, D) /\ SumFunction(f) = m[D]
  BY <1>1, SumIsMeasure
<1> DEFINE B == {T \in SUBSET D : m[T] \notin Nat}
<1>3. B = {}
  <2>1. SUFFICES ASSUME B # {} PROVE FALSE
    OBVIOUS
  <2>2. PICK T \in B : \A W \in B : ~(W \subseteq T /\ W # T)
    <3>1. B \in SUBSET (SUBSET D)
      OBVIOUS
    <3> HIDE DEF B
    <3> QED BY <2>1, <3>1, MinimalSubset
  <2>3. PICK x \in T : TRUE
    <3>1. m[{}] = 0
      BY <1>2 DEF IsMeasure
    <3>2. T # {}
      BY <3>1
    <3> QED BY <3>2, Zenon
  <2>4. T \ {x} \notin B
    BY <2>2
  <2>5. m[T \ {x}] \in Nat /\ f[x] \in Nat
    BY <2>4
  <2>6. m[T] = m[T \ {x}] + f[x]
    BY <1>2 DEF IsMeasure
  <2> QED BY <2>5, <2>6
<1>4. D \in SUBSET D
  OBVIOUS
<1> QED BY <1>2, <1>3, <1>4

\* No entry of a function to naturals exceeds its total.
THEOREM SumBoundsEntry ==
  ASSUME NEW D, IsFiniteSet(D), NEW f \in [D -> Nat], NEW a \in D
  PROVE  f[a] <= SumFunction(f)
<1> DEFINE g == [f EXCEPT ![a] = 0]
<1>1. g \in [D -> Nat]
  OBVIOUS
<1>2. g \in [D -> Int] /\ f \in [D -> Int] /\ g[a] = 0 /\ \A x \in D \ {a} : g[x] = f[x]
  OBVIOUS
<1> HIDE DEF g
<1>3. SumFunction(g) = SumFunction(f) + g[a] - f[a]
  BY <1>2, SumUpdate
<1>4. SumFunction(g) \in Nat /\ SumFunction(f) \in Nat
  BY <1>1, SumNat
<1> QED BY <1>2, <1>3, <1>4

\* The total of a pointwise sum is the sum of the totals.
THEOREM SumAdd ==
  ASSUME NEW D, IsFiniteSet(D), NEW f \in [D -> Int], NEW g \in [D -> Int],
         NEW h \in [D -> Int], \A x \in D : h[x] = f[x] + g[x]
  PROVE  SumFunction(h) = SumFunction(f) + SumFunction(g)
<1>1. PICK m : IsMeasure(m, f, D) /\ SumFunction(f) = m[D]
  BY SumIsMeasure
<1>2. PICK n : IsMeasure(n, g, D) /\ SumFunction(g) = n[D]
  BY SumIsMeasure
<1>3. PICK p : IsMeasure(p, h, D) /\ SumFunction(h) = p[D]
  BY SumIsMeasure
<1> DEFINE k == [T \in SUBSET D |-> m[T] + n[T]]
<1>4. IsMeasure(k, h, D)
  <2>1. k \in [SUBSET D -> Int] /\ k[{}] = 0
    BY <1>1, <1>2 DEF IsMeasure
  <2>2. ASSUME NEW T \in SUBSET D, NEW x \in T
        PROVE  k[T] = k[T \ {x}] + h[x]
    <3>1. /\ T \ {x} \in SUBSET D /\ x \in D
          /\ m[T] = m[T \ {x}] + f[x] /\ n[T] = n[T \ {x}] + g[x]
          /\ m[T \ {x}] \in Int /\ n[T \ {x}] \in Int /\ f[x] \in Int /\ g[x] \in Int
      BY <1>1, <1>2 DEF IsMeasure
    <3>2. k[T] = m[T] + n[T] /\ k[T \ {x}] = m[T \ {x}] + n[T \ {x}]
      BY <3>1
    <3>3. h[x] = f[x] + g[x]
      BY <3>1
    <3> HIDE DEF k
    <3> QED BY <3>1, <3>2, <3>3
  <2> HIDE DEF k
  <2> QED BY <2>1, <2>2 DEF IsMeasure
<1>5. D \in SUBSET D
  OBVIOUS
<1>6. k[D] = m[D] + n[D]
  BY <1>5
<1> HIDE DEF k
<1>7. p[D] = k[D]
  BY <1>3, <1>4, <1>5, MeasureUnique
<1> QED BY <1>1, <1>2, <1>3, <1>6, <1>7

\* A function that is zero but for one entry.
THEOREM SumSingle ==
  ASSUME NEW D, IsFiniteSet(D), NEW f \in [D -> Int], NEW a \in D,
         \A x \in D \ {a} : f[x] = 0
  PROVE  SumFunction(f) = f[a]
<1> DEFINE z == [x \in D |-> 0]
<1>1. z \in [D -> Int] /\ z[a] = 0 /\ (\A x \in D : z[x] = 0)
      /\ (\A x \in D \ {a} : f[x] = z[x])
  OBVIOUS
<1> HIDE DEF z
<1>2. SumFunction(z) = 0
  BY <1>1, SumZero
<1>3. SumFunction(f) = SumFunction(z) + f[a] - z[a]
  BY <1>1, SumUpdate
<1> QED BY <1>1, <1>2, <1>3

\* The total of the row totals of a table is the total of its column totals.
THEOREM SumExchange ==
  ASSUME NEW A, IsFiniteSet(A), NEW D, IsFiniteSet(D), NEW u \in [A -> [D -> Int]]
  PROVE  SumFunction([a \in A |-> SumFunction(u[a])])
           = SumFunction([x \in D |-> SumFunction([a \in A |-> u[a][x]])])
<1> DEFINE meas == [a \in A |-> CHOOSE m : IsMeasure(m, u[a], D)]
           column(x) == [a \in A |-> u[a][x]]
           columns == [x \in D |-> SumFunction(column(x))]
           over(T) == [a \in A |-> meas[a][T]]
           k == [T \in SUBSET D |-> SumFunction(over(T))]
<1>1. \A a \in A : IsMeasure(meas[a], u[a], D) /\ SumFunction(u[a]) = meas[a][D]
  <2> SUFFICES ASSUME NEW a \in A
               PROVE  IsMeasure(meas[a], u[a], D) /\ SumFunction(u[a]) = meas[a][D]
    OBVIOUS
  <2>1. u[a] \in [D -> Int]
    OBVIOUS
  <2>2. PICK m : IsMeasure(m, u[a], D) /\ SumFunction(u[a]) = m[D]
    BY <2>1, SumIsMeasure
  <2>3. meas[a] = CHOOSE n : IsMeasure(n, u[a], D)
    OBVIOUS
  <2> HIDE DEF meas
  <2>4. IsMeasure(meas[a], u[a], D)
    BY <2>2, <2>3
  <2>5. meas[a][D] = m[D]
    <3>1. D \in SUBSET D
      OBVIOUS
    <3> QED BY <2>2, <2>4, <3>1, MeasureUnique
  <2> QED BY <2>2, <2>4, <2>5
<1> HIDE DEF meas
<1>2. \A T \in SUBSET D : over(T) \in [A -> Int]
  BY <1>1 DEF IsMeasure
<1>3. \A x \in D : column(x) \in [A -> Int] /\ SumFunction(column(x)) \in Int
  <2> SUFFICES ASSUME NEW x \in D
               PROVE  column(x) \in [A -> Int] /\ SumFunction(column(x)) \in Int
    OBVIOUS
  <2>1. column(x) \in [A -> Int]
    OBVIOUS
  <2> HIDE DEF column
  <2> QED BY <2>1, SumType
<1>4. columns \in [D -> Int]
  BY <1>3
<1>5. IsMeasure(k, columns, D)
  <2>1. \A T \in SUBSET D : k[T] = SumFunction(over(T)) /\ SumFunction(over(T)) \in Int
    <3> SUFFICES ASSUME NEW T \in SUBSET D
                 PROVE  k[T] = SumFunction(over(T)) /\ SumFunction(over(T)) \in Int
      OBVIOUS
    <3>1. over(T) \in [A -> Int]
      BY <1>2
    <3>2. k[T] = SumFunction(over(T))
      OBVIOUS
    <3> HIDE DEF k, over
    <3> QED BY <3>1, <3>2, SumType
  <2>2. k \in [SUBSET D -> Int]
    BY <2>1
  <2>3. k[{}] = 0
    <3>1. {} \in SUBSET D /\ over({}) \in [A -> Int]
      BY <1>2
    <3>2. \A a \in A : over({})[a] = 0
      BY <1>1 DEF IsMeasure
    <3> HIDE DEF over, k
    <3>3. SumFunction(over({})) = 0
      BY <3>1, <3>2, SumZero
    <3> QED BY <2>1, <3>1, <3>3
  <2>4. ASSUME NEW T \in SUBSET D, NEW x \in T
        PROVE  k[T] = k[T \ {x}] + columns[x]
    <3>1. T \ {x} \in SUBSET D /\ x \in D
      OBVIOUS
    <3>2. /\ over(T) \in [A -> Int] /\ over(T \ {x}) \in [A -> Int]
          /\ column(x) \in [A -> Int]
      BY <1>2, <1>3, <3>1
    <3>3. \A a \in A : over(T)[a] = over(T \ {x})[a] + column(x)[a]
      BY <1>1 DEF IsMeasure
    <3>4. columns[x] = SumFunction(column(x))
      BY <3>1
    <3> DEFINE whole == over(T)
               rest == over(T \ {x})
               col == column(x)
    <3>5. /\ whole \in [A -> Int] /\ rest \in [A -> Int] /\ col \in [A -> Int]
          /\ \A a \in A : whole[a] = rest[a] + col[a]
      BY <3>2, <3>3
    <3>6. SumFunction(whole) = SumFunction(rest) + SumFunction(col)
      <4> HIDE DEF whole, rest, col
      <4> QED BY <3>5, SumAdd
    <3> HIDE DEF over, k, columns, column
    <3> QED BY <2>1, <3>1, <3>4, <3>6
  <2> HIDE DEF k, columns
  <2> QED BY <2>2, <2>3, <2>4 DEF IsMeasure
<1>6. D \in SUBSET D
  OBVIOUS
<1>7. k[D] = SumFunction([a \in A |-> SumFunction(u[a])])
  <2>1. k[D] = SumFunction(over(D))
    BY <1>6
  <2>2. over(D) = [a \in A |-> SumFunction(u[a])]
    BY <1>1
  <2> QED BY <2>1, <2>2
<1> HIDE DEF k
<1>8. SumFunction(columns) = k[D]
  <2> HIDE DEF columns
  <2>1. PICK m : IsMeasure(m, columns, D) /\ SumFunction(columns) = m[D]
    BY <1>4, SumIsMeasure
  <2> QED BY <1>5, <1>6, <2>1, MeasureUnique
<1> QED BY <1>7, <1>8
=============================================================================
