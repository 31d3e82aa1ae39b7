----------------------------- MODULE CfgProofs -----------------------------
(***************************************************************************)
(* Facts about the reference definitions of Cfg on any finite graph.  The  *)
(* recursive function behind ReachIn computes the least set that holds the *)
(* start and is closed under successors; what the other proofs need to     *)
(* know of paths and dominance follows from that alone.                    *)
(***************************************************************************)
EXTENDS Cfg, FiniteSetsExt, FiniteSetTheorems, TLAPS

\* One round of the search behind ReachIn.
Round(N, S, X) == X \cup (N \cap UNION {S[b] : b \in X})

\* The search as an equation, and a function it determines.
Searches(N, S, f) ==
  f = [X \in SUBSET N |-> IF Round(N, S, X) = X THEN X ELSE f[Round(N, S, X)]]

Closure(N, S) ==
  [X \in SUBSET N |-> {x \in N : \A Y \in SUBSET N : X \subseteq Y /\ Round(N, S, Y) = Y => x \in Y}]

\* X cannot be left by an edge inside N.
Closed(N, S, X) == \A b \in X : \A c \in S[b] \cap N : c \in X

-----------------------------------------------------------------------------

\* The closures solve the equation of the search.
LEMMA ClosureSearches == ASSUME NEW N, NEW S PROVE Searches(N, S, Closure(N, S))
<1> DEFINE g == Closure(N, S)
<1> SUFFICES ASSUME NEW X \in SUBSET N
             PROVE  g[X] = IF Round(N, S, X) = X THEN X ELSE g[Round(N, S, X)]
  BY DEF Searches, Closure
<1>1. Round(N, S, X) \in SUBSET N /\ X \subseteq Round(N, S, X)
  BY DEF Round
<1>2. CASE Round(N, S, X) = X
  BY <1>2 DEF Closure
<1>3. CASE Round(N, S, X) # X
  <2>1. \A Y \in SUBSET N : Round(N, S, Y) = Y => (X \subseteq Y <=> Round(N, S, X) \subseteq Y)
    BY <1>1 DEF Round
  <2> QED BY <1>1, <1>3, <2>1 DEF Closure
<1> QED BY <1>2, <1>3

\* Of a finite graph they are the only solution: a set on which another one
\* differs, with the fewest blocks left out, would have a larger one.
LEMMA SearchUnique ==
  ASSUME NEW N, NEW S, IsFiniteSet(N), NEW f, Searches(N, S, f), NEW X \in SUBSET N
  PROVE  f[X] = Closure(N, S)[X]
<1> DEFINE g   == Closure(N, S)
           Bad == {Y \in SUBSET N : f[N \ Y] # g[N \ Y]}
           R   == StrictSubsetOrdering(N)
<1> SUFFICES ASSUME Bad # {} PROVE FALSE
  <2>1. N \ X \in SUBSET N /\ N \ (N \ X) = X
    OBVIOUS
  <2> QED BY <2>1
<1>1. IsWellFoundedOn(R, FiniteSubsetsOf(N))
  BY FS_StrictSubsetOrderingWellFounded
<1>2. FiniteSubsetsOf(N) = SUBSET N
  BY FS_FiniteSubsetsOfFinite
<1>3. PICK Y \in Bad : \A Z \in Bad : <<Z, Y>> \notin R
  <2> HIDE DEF R
  <2>1. Bad \subseteq FiniteSubsetsOf(N)
    BY <1>2
  <2> QED BY <1>1, <2>1, WFMin
<1> DEFINE C == N \ Y
           D == Round(N, S, C)
<1>4. C \in SUBSET N /\ D \in SUBSET N /\ C \subseteq D
  BY DEF Round
<1>5. /\ f[C] = IF D = C THEN C ELSE f[D]
      /\ g[C] = IF D = C THEN C ELSE g[D]
  <2>1. Searches(N, S, g)
    BY ClosureSearches
  <2>2. \A h : Searches(N, S, h) => h[C] = IF D = C THEN C ELSE h[D]
    <3> SUFFICES ASSUME NEW h, Searches(N, S, h) PROVE h[C] = IF D = C THEN C ELSE h[D]
      OBVIOUS
    <3> DEFINE e == [Z \in SUBSET N |-> IF Round(N, S, Z) = Z THEN Z ELSE h[Round(N, S, Z)]]
    <3>1. h = e
      BY DEF Searches
    <3>2. e[C] = IF D = C THEN C ELSE h[D]
      BY <1>4
    <3> HIDE DEF e
    <3> QED BY <3>1, <3>2, Zenon
  <2> HIDE DEF g, C, D
  <2> QED BY <2>1, <2>2
<1>6. D # C /\ f[D] # g[D]
  BY <1>5
<1>7. N \ D \in Bad /\ <<N \ D, Y>> \in R
  BY <1>4, <1>6 DEF StrictSubsetOrdering
<1> QED BY <1>3, <1>7

\* ReachIn is the least set of blocks of N with the start that cannot be left.
LEMMA ReachDef ==
  ASSUME NEW N, NEW S, NEW r, IsFiniteSet(N)
  PROVE  ReachIn(N, S, r) =
           {x \in N : \A Y \in SUBSET N : {r} \cap N \subseteq Y /\ Round(N, S, Y) = Y => x \in Y}
<1> DEFINE grow == CHOOSE f : Searches(N, S, f)
<1>1. Searches(N, S, grow)
  BY ClosureSearches
<1>2. ReachIn(N, S, r) = grow[{r} \cap N]
  BY Zenon DEF ReachIn, Searches, Round
<1>3. ReachIn(N, S, r) = Closure(N, S)[{r} \cap N]
  BY <1>1, <1>2, SearchUnique
<1> QED BY <1>3 DEF Closure

\* ReachIn lies in N, holds the start when N does, and cannot be left.
THEOREM ReachClosed ==
  ASSUME NEW N, NEW S, NEW r, IsFiniteSet(N)
  PROVE  /\ ReachIn(N, S, r) \subseteq N
         /\ r \in N => r \in ReachIn(N, S, r)
         /\ Closed(N, S, ReachIn(N, S, r))
<1> DEFINE K == ReachIn(N, S, r)
<1>1. K = {x \in N : \A Y \in SUBSET N : {r} \cap N \subseteq Y /\ Round(N, S, Y) = Y => x \in Y}
  BY ReachDef
<1> HIDE DEF K
<1>2. K \subseteq N /\ (r \in N => r \in K)
  BY <1>1
<1>3. Closed(N, S, K)
  <2> SUFFICES ASSUME NEW b \in K, NEW c \in S[b] \cap N PROVE c \in K
    BY DEF Closed
  <2> SUFFICES ASSUME NEW Y \in SUBSET N, {r} \cap N \subseteq Y, Round(N, S, Y) = Y PROVE c \in Y
    BY <1>1
  <2>1. b \in Y
    BY <1>1
  <2> QED BY <2>1 DEF Round
<1> QED BY <1>2, <1>3 DEF K

\* And it is the least such set.
THEOREM ReachLeast ==
  ASSUME NEW N, NEW S, NEW r, IsFiniteSet(N),
         NEW X, r \in N => r \in X, Closed(N, S, X \cap N)
  PROVE  ReachIn(N, S, r) \subseteq X
<1> DEFINE Y == X \cap N
<1>1. Y \in SUBSET N /\ {r} \cap N \subseteq Y /\ Round(N, S, Y) = Y
  BY DEF Closed, Round
<1>2. ReachIn(N, S, r) = {x \in N : \A Z \in SUBSET N : {r} \cap N \subseteq Z /\ Round(N, S, Z) = Z => x \in Z}
  BY ReachDef
<1> HIDE DEF Y
<1>3. ReachIn(N, S, r) \subseteq Y
  BY <1>1, <1>2
<1> QED BY <1>3 DEF Y

\* What can be reached from a block that can be reached can be reached.
LEMMA ReachTrans ==
  ASSUME NEW N, NEW S, NEW r, IsFiniteSet(N), NEW b \in ReachIn(N, S, r)
  PROVE  ReachIn(N, S, b) \subseteq ReachIn(N, S, r)
<1> DEFINE X == ReachIn(N, S, r)
<1>1. X \subseteq N /\ Closed(N, S, X)
  BY ReachClosed
<1> HIDE DEF X
<1>2. X \cap N = X /\ b \in X
  BY <1>1 DEF X
<1>3. ReachIn(N, S, b) \subseteq X
  BY <1>1, <1>2, ReachLeast
<1> QED BY <1>3 DEF X

\* What can be reached from a block is the block and what can be reached from
\* one of its successors.
LEMMA ReachFirst ==
  ASSUME NEW N, NEW S, NEW r \in N, IsFiniteSet(N)
  PROVE  ReachIn(N, S, r) = {r} \cup UNION {ReachIn(N, S, c) : c \in S[r] \cap N}
<1> DEFINE X == {r} \cup UNION {ReachIn(N, S, c) : c \in S[r] \cap N}
           K == ReachIn(N, S, r)
<1>1. K \subseteq N /\ r \in K /\ Closed(N, S, K)
  BY ReachClosed
<1>2. \A c \in S[r] \cap N : c \in K
  BY <1>1 DEF Closed
<1>3. \A c \in S[r] \cap N : ReachIn(N, S, c) \subseteq K
  BY <1>2, ReachTrans
<1>4. X \subseteq K
  BY <1>1, <1>3
<1>5. \A c \in S[r] \cap N : c \in ReachIn(N, S, c) /\ Closed(N, S, ReachIn(N, S, c))
  BY ReachClosed
<1>6. Closed(N, S, X)
  <2> SUFFICES ASSUME NEW b \in X, NEW c \in S[b] \cap N PROVE c \in X
    BY DEF Closed
  <2>1. CASE b = r
    BY <2>1, <1>5
  <2>2. CASE b # r
    BY <2>2, <1>5 DEF Closed
  <2> QED BY <2>1, <2>2
<1>7. X \cap N = X /\ r \in X
  BY <1>1, <1>4
<1> HIDE DEF X
<1>8. K \subseteq X
  BY <1>6, <1>7, ReachLeast
<1> QED BY <1>4, <1>8 DEF X

\* A set of numbers has its least one in it.
LEMMA LeastMember == ASSUME NEW K \in SUBSET Nat, K # {} PROVE \E m \in K : \A k \in K : m <= k
<1> DEFINE T == {0..k : k \in K}
           R == StrictSubsetOrdering(Nat)
<1>1. T \subseteq FiniteSubsetsOf(Nat)
  <2> SUFFICES ASSUME NEW k \in K PROVE 0..k \in FiniteSubsetsOf(Nat)
    OBVIOUS
  <2>1. IsFiniteSet(0..k)
    BY FS_Interval
  <2> QED BY <2>1 DEF FiniteSubsetsOf
<1>2. \E X \in T : \A Y \in T : <<Y, X>> \notin R
  <2>1. T # {}
    OBVIOUS
  <2> HIDE DEF R, T
  <2> QED BY <1>1, <2>1, FS_StrictSubsetOrderingWellFounded, WFMin DEF R
<1>3. PICK m \in K : \A k \in K : <<0..k, 0..m>> \notin R
  BY <1>2
<1>4. \A k \in K : m <= k
  <2> SUFFICES ASSUME NEW k \in K, k < m PROVE FALSE
    OBVIOUS
  <2>1. m \in 0..m /\ m \notin 0..k
    OBVIOUS
  <2>2. 0..k \subseteq 0..m /\ 0..k # 0..m /\ 0..k \in SUBSET Nat /\ 0..m \in SUBSET Nat
    BY <2>1
  <2> QED BY <1>3, <2>2 DEF StrictSubsetOrdering
<1> QED BY <1>4

LEMMA MinMember == ASSUME NEW K \in SUBSET Nat, K # {} PROVE Min(K) \in K
BY LeastMember DEF Min

-----------------------------------------------------------------------------
(* Dominance.                                                              *)

\* Leaving a block out of a finite graph.
LEMMA Without == ASSUME NEW N, NEW a, IsFiniteSet(N) PROVE IsFiniteSet(N \ {a})
  BY FS_RemoveElement

\* Nothing but the root dominates the root.
LEMMA DomRoot ==
  ASSUME NEW N, NEW S, NEW root \in N, IsFiniteSet(N), NEW a, Dominates(N, S, root, a, root)
  PROVE  a = root
<1> SUFFICES ASSUME a # root PROVE FALSE
  OBVIOUS
<1>1. root \in ReachIn(N \ {a}, S, root)
  BY Without, ReachClosed
<1> QED BY <1>1 DEF Dominates

\* What strictly dominates a block dominates its predecessors.
LEMMA DomPred ==
  ASSUME NEW N, NEW S, NEW root, IsFiniteSet(N), NEW a, NEW b \in N, NEW p,
         a # b, b \in S[p], Dominates(N, S, root, a, b)
  PROVE  Dominates(N, S, root, a, p)
<1> SUFFICES ASSUME p \in ReachIn(N \ {a}, S, root) PROVE FALSE
  BY DEF Dominates
<1>1. Closed(N \ {a}, S, ReachIn(N \ {a}, S, root))
  BY Without, ReachClosed
<1>2. b \in ReachIn(N \ {a}, S, root)
  BY <1>1 DEF Closed
<1> QED BY <1>2 DEF Dominates

\* What dominates all predecessors of a block dominates the block.
LEMMA DomOfPreds ==
  ASSUME NEW N, NEW S, NEW root, IsFiniteSet(N), NEW a, NEW b, b # root,
         \A p \in N : b \in S[p] => Dominates(N, S, root, a, p)
  PROVE  Dominates(N, S, root, a, b)
<1> SUFFICES ASSUME a # b PROVE b \notin ReachIn(N \ {a}, S, root)
  BY DEF Dominates
<1> DEFINE M == N \ {a}
           K == ReachIn(M, S, root)
           X == K \ {b}
<1>1. IsFiniteSet(M)
  BY Without
<1>2. K \subseteq M /\ (root \in M => root \in K) /\ Closed(M, S, K)
  BY <1>1, ReachClosed
<1>3. \A p \in K : b \notin S[p]
  BY <1>2 DEF Dominates
<1>4. Closed(M, S, X)
  BY <1>2, <1>3 DEF Closed
<1>5. X \cap M = X /\ (root \in M => root \in X)
  BY <1>2
<1> HIDE DEF X, M
<1>6. K \subseteq X
  BY <1>1, <1>4, <1>5, ReachLeast
<1> QED BY <1>6 DEF X, M

\* What a path around a dominator of b reaches, a path around b reaches.
LEMMA DomReach ==
  ASSUME NEW N, NEW S, NEW root \in N, IsFiniteSet(N), NEW a, NEW b \in N, Dominates(N, S, root, a, b)
  PROVE  ReachIn(N \ {a}, S, root) \subseteq ReachIn(N \ {b}, S, root)
<1>1. CASE a = b
  BY <1>1
<1>2. CASE a # b
  <2> DEFINE M == N \ {a}
             K == ReachIn(M, S, root)
             L == ReachIn(N \ {b}, S, root)
             X == K \cap L
  <2>1. IsFiniteSet(M) /\ IsFiniteSet(N \ {b})
    BY Without
  <2>2. K \subseteq M /\ (root \in M => root \in K) /\ Closed(M, S, K)
    BY <2>1, ReachClosed
  <2>3. (root \in N \ {b} => root \in L) /\ Closed(N \ {b}, S, L)
    BY <2>1, ReachClosed
  <2>4. b \notin K
    BY <1>2 DEF Dominates
  <2>5. Closed(M, S, X)
    BY <2>2, <2>3, <2>4 DEF Closed
  <2>6. root \in M => root \in X
    BY <1>2, <2>2, <2>3, <2>4
  <2>7. X \cap M = X
    BY <2>2
  <2> HIDE DEF X, M, L
  <2>8. K \subseteq X
    BY <2>1, <2>5, <2>6, <2>7, ReachLeast
  <2> QED BY <2>8 DEF X, M, L
<1> QED BY <1>1, <1>2

\* Dominance is transitive.
LEMMA DomTrans ==
  ASSUME NEW N, NEW S, NEW root \in N, IsFiniteSet(N), NEW a, NEW b \in N, NEW c,
         Dominates(N, S, root, a, b), Dominates(N, S, root, b, c)
  PROVE  Dominates(N, S, root, a, c)
<1>1. ReachIn(N \ {a}, S, root) \subseteq ReachIn(N \ {b}, S, root)
  BY DomReach
<1> QED BY <1>1 DEF Dominates

\* Of two blocks of a graph that the root reaches, only one dominates the other.
LEMMA DomAntisym ==
  ASSUME NEW N, NEW S, NEW root \in N, IsFiniteSet(N), ReachIn(N, S, root) = N,
         NEW a \in N, NEW b \in N, Dominates(N, S, root, a, b), Dominates(N, S, root, b, a)
  PROVE  a = b
<1> SUFFICES ASSUME a # b PROVE FALSE
  OBVIOUS
<1> DEFINE K == ReachIn(N \ {a}, S, root)
           L == ReachIn(N \ {b}, S, root)
<1>1. K = L
  BY DomReach
<1>2. /\ K \subseteq N \ {a} /\ (root \in N \ {a} => root \in K) /\ Closed(N \ {a}, S, K)
      /\ L \subseteq N \ {b} /\ (root \in N \ {b} => root \in L) /\ Closed(N \ {b}, S, L)
  BY Without, ReachClosed
<1> HIDE DEF K, L
<1>3. K \cap N = K /\ root \in K
  BY <1>1, <1>2
<1>4. Closed(N, S, K)
  BY <1>1, <1>2 DEF Closed
<1>5. N \subseteq K
  BY <1>3, <1>4, ReachLeast
<1> QED BY <1>2, <1>5
=============================================================================
