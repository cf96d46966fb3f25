---------------------------- MODULE Pipeline_proofs ----------------------------
(******************************************************************************)
(* Proofs about the analysis of a run: type correctness, and that the work    *)
(* of every task and finish in the profile is that of its steps.              *)
(*                                                                            *)
(* In this order: sums over finite sets; the tree that gentprof reads and the *)
(* steps below a node of it; the invariant of a pass, AInv; what each action  *)
(* does to it; that the reports of a run that has ended are such a tree       *)
(* (TreeLogged, with the ids from CollectionTree_proofs); the theorems.       *)
(******************************************************************************)
EXTENDS Pipeline, CollectionTree_proofs, FiniteSetTheorems

(******************************************************************************)
(* Sums                                                                       *)
(******************************************************************************)

LEMMA AllNaturals ==
    ASSUME NEW T \in SUBSET Nat, 0 \in T, \A n \in T : n + 1 \in T
    PROVE  T = Nat
<1>1. SUFFICES ASSUME Nat \ T # {}
               PROVE  FALSE
  OBVIOUS
<1> DEFINE R == OpToRel(<, Nat)
<1>2. PICK x \in Nat \ T : \A y \in Nat \ T : <<y, x>> \notin R
  <2>1. IsWellFoundedOn(R, Nat) /\ Nat \ T \subseteq Nat
    BY NatLessThanWellFounded
  <2> HIDE DEF R
  <2>2. QED  BY <1>1, <2>1, WFMin
<1> HIDE DEF R
<1>3. x \in Nat /\ x # 0
  BY <1>2
<1>4. x - 1 \in Nat /\ x - 1 < x /\ (x - 1) + 1 = x
  BY <1>3
<1>5. <<x - 1, x>> \in R
  BY <1>3, <1>4 DEF R, OpToRel
<1>6. QED  BY <1>2, <1>4, <1>5

\* The element of s that a sum begins with.
Chosen(s) == CHOOSE x \in s : TRUE

LEMMA ChosenIn ==
    ASSUME NEW s, s # {}
    PROVE  Chosen(s) \in s
  BY DEF Chosen

\* g has, for each subset of S in D, the sum of v.
Sums(g, v, D) ==
    \A s \in D : g[s] = IF s = {} THEN 0 ELSE v[Chosen(s)] + g[s \ {Chosen(s)}]

UpTo(S, n) == {s \in SUBSET S : Cardinality(s) <= n}

LEMMA OneLess ==
    ASSUME NEW S, IsFiniteSet(S), NEW n \in Nat, NEW s \in UpTo(S, n + 1), s # {}
    PROVE  /\ s \ {Chosen(s)} \in UpTo(S, n) /\ Chosen(s) \in S
           /\ Chosen(s) \in s
<1>1. IsFiniteSet(s) /\ Chosen(s) \in s
  BY ChosenIn, FS_Subset DEF UpTo
<1>2. Cardinality(s \ {Chosen(s)}) = Cardinality(s) - 1 /\ Cardinality(s) \in Nat
  BY <1>1, FS_RemoveElement, FS_CardinalityType
<1>3. QED  BY <1>1, <1>2 DEF UpTo

LEMMA EmptyUpTo ==
    ASSUME NEW S, IsFiniteSet(S), NEW s \in UpTo(S, 0)
    PROVE  s = {}
<1>1. IsFiniteSet(s) /\ Cardinality(s) \in Nat /\ Cardinality(s) <= 0
  BY FS_Subset, FS_CardinalityType DEF UpTo
<1>2. QED  BY <1>1, FS_EmptySet

LEMMA AllUpTo ==
    ASSUME NEW S, IsFiniteSet(S)
    PROVE  \E n \in Nat : UpTo(S, n) = SUBSET S
<1>1. Cardinality(S) \in Nat /\ \A s \in SUBSET S : Cardinality(s) <= Cardinality(S)
  BY FS_CardinalityType, FS_Subset
<1>2. QED  BY <1>1 DEF UpTo

\* The sums exist.
LEMMA SumsExist ==
    ASSUME NEW S, IsFiniteSet(S), NEW v \in [S -> Int]
    PROVE  \E g \in [SUBSET S -> Int] : Sums(g, v, SUBSET S)
<1> DEFINE T == {n \in Nat : \E g \in [UpTo(S, n) -> Int] : Sums(g, v, UpTo(S, n))}
<1>1. 0 \in T
  <2> DEFINE g == [s \in UpTo(S, 0) |-> 0]
  <2>1. g \in [UpTo(S, 0) -> Int] /\ Sums(g, v, UpTo(S, 0))
    BY EmptyUpTo DEF Sums
  <2> HIDE DEF g
  <2>2. QED  BY <2>1
<1>2. ASSUME NEW n \in T
      PROVE  n + 1 \in T
  <2>1. PICK g \in [UpTo(S, n) -> Int] : Sums(g, v, UpTo(S, n))
    OBVIOUS
  <2> DEFINE h == [s \in UpTo(S, n + 1) |->
                      IF s = {} THEN 0 ELSE v[Chosen(s)] + g[s \ {Chosen(s)}]]
  <2>2. h \in [UpTo(S, n + 1) -> Int]
    BY OneLess
  <2>3. UpTo(S, n) \subseteq UpTo(S, n + 1)
    <3>1. ASSUME NEW s \in UpTo(S, n)
          PROVE  s \in UpTo(S, n + 1)
      <4>1. s \in SUBSET S /\ Cardinality(s) <= n /\ Cardinality(s) \in Nat
        BY FS_Subset, FS_CardinalityType DEF UpTo
      <4>2. QED  BY <4>1 DEF UpTo
    <3>2. QED  BY <3>1
  <2>4. \A s \in UpTo(S, n) : h[s] = g[s]
    BY <2>1, <2>3 DEF Sums
  <2>5. Sums(h, v, UpTo(S, n + 1))
    BY <2>4, OneLess DEF Sums
  <2> HIDE DEF h
  <2>6. QED  BY <2>2, <2>5
<1> HIDE DEF T
<1>3. T = Nat
  <2>1. T \in SUBSET Nat
    BY DEF T
  <2>2. QED  BY <1>1, <1>2, <2>1, AllNaturals
<1>4. PICK n \in Nat : UpTo(S, n) = SUBSET S
  BY AllUpTo
<1>5. n \in T
  BY <1>3
<1>6. \E g \in [UpTo(S, n) -> Int] : Sums(g, v, UpTo(S, n))
  BY <1>5 DEF T
<1>7. QED  BY <1>4, <1>6

\* Two sums of functions that agree on s.
LEMMA SumsAgree ==
    ASSUME NEW A, IsFiniteSet(A), NEW B, IsFiniteSet(B), NEW v, NEW w,
           NEW g, NEW h, Sums(g, v, SUBSET A), Sums(h, w, SUBSET B),
           NEW s \in SUBSET A, s \subseteq B, \A x \in s : v[x] = w[x]
    PROVE  g[s] = h[s]
<1> DEFINE T == {n \in Nat : \A r \in UpTo(s, n) : g[r] = h[r]}
<1>0. IsFiniteSet(s)
  BY FS_Subset
<1>1. ASSUME NEW r \in SUBSET s
      PROVE  /\ r = {} => g[r] = 0 /\ h[r] = 0
             /\ r # {} => /\ g[r] = v[Chosen(r)] + g[r \ {Chosen(r)}]
                          /\ h[r] = w[Chosen(r)] + h[r \ {Chosen(r)}]
  <2>1. r \in SUBSET A /\ r \in SUBSET B
    OBVIOUS
  <2>2. QED  BY <2>1 DEF Sums
<1>2. 0 \in T
  BY <1>0, <1>1, EmptyUpTo DEF UpTo
<1>3. ASSUME NEW n \in T
      PROVE  n + 1 \in T
  <2>1. ASSUME NEW r \in UpTo(s, n + 1)
        PROVE  g[r] = h[r]
    <3>0. r \in SUBSET s
      BY DEF UpTo
    <3>1. CASE r = {}
      BY <1>1, <3>0, <3>1
    <3>2. CASE r # {}
      <4>1. PICK x, q : x = Chosen(r) /\ q = r \ {Chosen(r)}
        OBVIOUS
      <4>2. q \in UpTo(s, n) /\ x \in s
        BY <1>0, <3>2, <4>1, OneLess
      <4>3. g[q] = h[q] /\ v[x] = w[x]
        BY <4>2
      <4>4. g[r] = v[x] + g[q] /\ h[r] = w[x] + h[q]
        BY <1>1, <3>0, <3>2, <4>1
      <4>5. QED  BY <4>3, <4>4
    <3>3. QED  BY <3>1, <3>2
  <2>2. QED  BY <2>1
<1> HIDE DEF T
<1>4. T = Nat
  <2>1. T \in SUBSET Nat
    BY DEF T
  <2>2. QED  BY <1>2, <1>3, <2>1, AllNaturals
<1>5. PICK n \in Nat : UpTo(s, n) = SUBSET s
  BY <1>0, AllUpTo
<1>6. n \in T
  BY <1>4
<1>7. QED  BY <1>5, <1>6 DEF T

\* g has the sums of v over the subsets of S.
SumTable(g, v, S) == g \in [SUBSET S -> Int] /\ Sums(g, v, SUBSET S)

\* A sum can begin with any of its elements.
LEMMA AnyFirst ==
    ASSUME NEW S, IsFiniteSet(S), NEW v \in [S -> Int], NEW g, SumTable(g, v, S),
           NEW s \in SUBSET S, NEW x \in s
    PROVE  g[s] = v[x] + g[s \ {x}]
<1> DEFINE T == {n \in Nat : \A r \in UpTo(S, n) : \A y \in r : g[r] = v[y] + g[r \ {y}]}
<1>0. \A r \in SUBSET S : /\ g[r] \in Int
                          /\ r # {} => g[r] = v[Chosen(r)] + g[r \ {Chosen(r)}]
  BY DEF Sums, SumTable
<1>1. 0 \in T
  BY EmptyUpTo
<1>2. ASSUME NEW n \in T
      PROVE  n + 1 \in T
  <2>1. ASSUME NEW r \in UpTo(S, n + 1), NEW y \in r
        PROVE  g[r] = v[y] + g[r \ {y}]
    <3>1. PICK c, q : c = Chosen(r) /\ q = r \ {Chosen(r)}
      OBVIOUS
    <3>2. q \in UpTo(S, n) /\ c \in S /\ c \in r /\ r \in SUBSET S
      BY <3>1, OneLess DEF UpTo
    <3>3. g[r] = v[c] + g[q] /\ q \in SUBSET S
      BY <1>0, <3>1, <3>2
    <3>4. CASE y = c
      BY <3>1, <3>3, <3>4
    <3>5. CASE y # c
      <4>1. PICK p, u : p = r \ {y} /\ u = q \ {y}
        OBVIOUS
      <4>2. y \in q
        BY <3>1, <3>5
      <4>3. g[q] = v[y] + g[u]
        BY <3>2, <4>1, <4>2
      <4>4. p \in UpTo(S, n) /\ c \in p
        <5>1. IsFiniteSet(r) /\ IsFiniteSet(q)
          BY <3>2, <3>3, FS_Subset
        <5>2. Cardinality(p) = Cardinality(r) - 1 /\ Cardinality(r) \in Nat
          BY <4>1, <5>1, FS_RemoveElement, FS_CardinalityType
        <5>3. Cardinality(r) <= n + 1
          BY DEF UpTo
        <5>4. Cardinality(p) <= n
          BY <5>2, <5>3
        <5>5. QED  BY <3>1, <3>2, <3>5, <4>1, <5>4 DEF UpTo
      <4>5. p \ {c} = u
        BY <3>1, <4>1
      <4>6. g[p] = v[c] + g[u]
        BY <4>4, <4>5
      <4>7. v[y] \in Int /\ v[c] \in Int /\ g[u] \in Int
        BY <1>0, <3>2, <3>3, <4>1
      <4>8. g[r] = v[y] + g[p]
        BY <3>3, <4>3, <4>6, <4>7
      <4>9. QED  BY <4>1, <4>8
    <3>6. QED  BY <3>4, <3>5
  <2>2. QED  BY <2>1
<1> HIDE DEF T
<1>3. T = Nat
  <2>1. T \in SUBSET Nat
    BY DEF T
  <2>2. QED  BY <1>1, <1>2, <2>1, AllNaturals
<1>4. PICK n \in Nat : UpTo(S, n) = SUBSET S
  BY AllUpTo
<1>5. n \in T
  BY <1>3
<1>6. QED  BY <1>4, <1>5 DEF T

\* u is a and b, which have nothing in common.
Splits(u, a, b) == u = a \cup b /\ a \cap b = {}

LEMMA SumOfTwo ==
    ASSUME NEW S, IsFiniteSet(S), NEW v \in [S -> Int], NEW g, SumTable(g, v, S),
           NEW a \in SUBSET S, NEW b \in SUBSET S, NEW all, Splits(all, a, b)
    PROVE  g[all] = g[a] + g[b]
<1> DEFINE T == {n \in Nat : \A r \in UpTo(S, n) : a \cap r = {} => g[a \cup r] = g[a] + g[r]}
<1>0. \A r \in SUBSET S : g[r] \in Int
  BY DEF SumTable
<1>1. 0 \in T
  <2>1. {} \in SUBSET S /\ g[{}] = 0 /\ a \cup {} = a /\ g[a] \in Int
    BY <1>0 DEF Sums, SumTable
  <2>2. \A r \in UpTo(S, 0) : g[a \cup r] = g[a] + g[r]
    <3>1. ASSUME NEW r \in UpTo(S, 0)
          PROVE  g[a \cup r] = g[a] + g[r]
      <4>1. r = {}
        BY EmptyUpTo
      <4>2. QED  BY <2>1, <4>1
    <3>2. QED  BY <3>1
  <2>3. QED  BY <2>2
<1>2. ASSUME NEW n \in T
      PROVE  n + 1 \in T
  <2>0. n \in Nat /\ \A r \in UpTo(S, n) : a \cap r = {} => g[a \cup r] = g[a] + g[r]
    OBVIOUS
  <2> HIDE DEF T
  <2>1. ASSUME NEW r \in UpTo(S, n + 1), a \cap r = {}
        PROVE  g[a \cup r] = g[a] + g[r]
    <3>1. CASE r = {}
      <4>1. {} \in SUBSET S /\ g[{}] = 0 /\ a \cup {} = a /\ g[a] \in Int
        BY <1>0 DEF Sums, SumTable
      <4>2. QED  BY <3>1, <4>1
    <3>2. CASE r # {}
      <4>1. PICK c, q : c = Chosen(r) /\ q = r \ {Chosen(r)}
        OBVIOUS
      <4>11. q \in UpTo(S, n) /\ c \in S /\ c \in r
        <5>1. r \ {Chosen(r)} \in UpTo(S, n) /\ Chosen(r) \in S /\ Chosen(r) \in r
          BY <2>0, <3>2, OneLess
        <5>2. QED  BY <4>1, <5>1
      <4>2. q \in UpTo(S, n) /\ c \in S /\ c \in r /\ r \in SUBSET S /\ q \in SUBSET S
        BY <4>11 DEF UpTo
      <4>3. g[r] = v[c] + g[q]
        <5>1. g[r] = v[c] + g[r \ {c}]
          BY <4>2, AnyFirst
        <5>2. QED  BY <4>1, <5>1
      <4>4. PICK u : u = a \cup r
        OBVIOUS
      <4>5. u \in SUBSET S /\ c \in u /\ u \ {c} = a \cup q
        BY <2>1, <4>1, <4>2, <4>4
      <4>6. g[u] = v[c] + g[a \cup q]
        <5>1. g[u] = v[c] + g[u \ {c}]
          BY <4>5, AnyFirst
        <5>2. QED  BY <4>5, <5>1
      <4>7. g[a \cup q] = g[a] + g[q]
        BY <2>0, <2>1, <4>1, <4>2
      <4>8. g[a] \in Int /\ g[q] \in Int /\ v[c] \in Int
        BY <1>0, <4>2
      <4>9. g[u] = g[a] + g[r]
        BY <4>3, <4>6, <4>7, <4>8
      <4>10. QED  BY <4>4, <4>9
    <3>3. QED  BY <3>1, <3>2
  <2>2. QED  BY <2>0, <2>1 DEF T
<1> HIDE DEF T
<1>3. T = Nat
  <2>1. T \in SUBSET Nat
    BY DEF T
  <2>2. QED  BY <1>1, <1>2, <2>1, AllNaturals
<1>4. PICK n \in Nat : UpTo(S, n) = SUBSET S
  BY AllUpTo
<1>5. n \in T
  BY <1>3
<1>6. all = a \cup b /\ a \cap b = {}
  BY DEF Splits
<1>7. QED  BY <1>4, <1>5, <1>6 DEF T

\* What the module's sum is: its entry in any table that has it.
LEMMA SumInTable ==
    ASSUME NEW S, IsFiniteSet(S), NEW v \in [S -> Int], NEW g, SumTable(g, v, S),
           NEW w, DOMAIN w \in SUBSET S, \A x \in DOMAIN w : w[x] = v[x]
    PROVE  SumFunction(w) = g[DOMAIN w]
<1>1. PICK D : D = DOMAIN w
  OBVIOUS
<1>2. IsFiniteSet(D) /\ D \in SUBSET S
  BY <1>1, FS_Subset
<1> DEFINE Table(f) == f = [s \in SUBSET D |->
                              IF s = {} THEN 0 ELSE w[Chosen(s)] + f[s \ {Chosen(s)}]]
           f == CHOOSE h : Table(h)
<1>3. SumFunction(w) = f[D]
  BY <1>1 DEF SumFunction, SumFunctionOnSet, FoldFunctionOnSet, MapThenFoldSet, Chosen
<1>4. \E h : Table(h)
  <2>1. PICK z : z = [x \in D |-> v[x]]
    OBVIOUS
  <2>2. z \in [D -> Int] /\ \A x \in D : z[x] = w[x]
    BY <1>1, <1>2, <2>1
  <2>3. PICK h \in [SUBSET D -> Int] : Sums(h, z, SUBSET D)
    BY <1>2, <2>2, SumsExist
  <2>4. \A s \in SUBSET D : s # {} => Chosen(s) \in D
    BY ChosenIn
  <2>5. \A s \in SUBSET D : h[s] = IF s = {} THEN 0 ELSE w[Chosen(s)] + h[s \ {Chosen(s)}]
    BY <2>2, <2>3, <2>4 DEF Sums
  <2>6. h = [s \in SUBSET D |-> h[s]]
    BY <2>3
  <2>7. QED  BY <2>5, <2>6
<1>5. Table(f)
  BY <1>4
<1> HIDE DEF f
<1>6. Sums(f, w, SUBSET D)
  BY <1>5 DEF Sums
<1> HIDE DEF Table
<1>7. f[D] = g[D]
  <2>1. Sums(g, v, SUBSET S) /\ \A x \in D : w[x] = v[x]
    BY <1>1 DEF SumTable
  <2>2. QED  BY <1>2, <1>6, <2>1, SumsAgree
<1>8. QED  BY <1>1, <1>3, <1>7

\* So it is an integer, and a natural number when all its terms are.
LEMMA SumTyped ==
    ASSUME NEW S, IsFiniteSet(S), NEW v \in [S -> Int]
    PROVE  SumFunction(v) \in Int
<1>1. PICK g \in [SUBSET S -> Int] : Sums(g, v, SUBSET S)
  BY SumsExist
<1>2. SumFunction(v) = g[S]
  BY <1>1, SumInTable DEF SumTable
<1>3. QED  BY <1>1, <1>2

(******************************************************************************)
(* The tree that gentprof has read                                            *)
(******************************************************************************)

Children(n) == {c \in Ids : Parent(c) = n}

\* A node's parent has a smaller id, steps have no children, and num_children is
\* the number of children.
Tree ==
    /\ \E m \in Nat : DOMAIN tgraph_nodes = 0 .. m
    /\ tgraph_nodes \in [DOMAIN tgraph_nodes -> TaskNode]
    /\ \A n \in Ids :
          /\ Parent(n) < n
          /\ tgraph_nodes[n].type \in {ASYNC, FINISH, STEP}
          /\ tgraph_nodes[n].num_children = Cardinality(Children(n))
          /\ tgraph_nodes[n].type = STEP => Children(n) = {}
    /\ DOMAIN before = {n \in Ids : tgraph_nodes[n].type = STEP}

LEMMA IdsInRow ==
    ASSUME NEW N, NEW m \in Nat, N = 0 .. m
    PROVE  1 .. Cardinality(N) - 1 = 1 .. m
<1>1. Cardinality(0 .. m) = m - 0 + 1
  BY FS_Interval
<1>2. Cardinality(N) - 1 = m
  BY <1>1
<1>3. QED  BY <1>2

LEMMA TreeIds ==
    ASSUME Tree
    PROVE  \E m \in Nat : /\ DOMAIN tgraph_nodes = 0 .. m /\ Ids = 1 .. m
                          /\ \A n \in 1 .. m : Parent(n) \in 0 .. n - 1
<1>1. PICK m \in Nat : DOMAIN tgraph_nodes = 0 .. m
  BY DEF Tree
<1>2. Ids = 1 .. m
  BY <1>1, IdsInRow DEF Ids
<1>3. ASSUME NEW n \in 1 .. m
      PROVE  Parent(n) \in 0 .. n - 1
  <2>1. tgraph_nodes[n] \in TaskNode /\ Parent(n) < n
    BY <1>1, <1>2 DEF Tree
  <2>2. Parent(n) \in Nat
    BY <2>1 DEF TaskNode, Parent
  <2>3. QED  BY <2>1, <2>2
<1>4. QED  BY <1>1, <1>2, <1>3

\* f is the function that Ancestry(k) is defined by.
IsPath(f, k) ==
    f = [m \in 0 .. k |-> IF m = 0 THEN {} ELSE f[Parent(m)] \cup {m}]

LEMMA PathExists ==
    ASSUME NEW m \in Nat, \A n \in 1 .. m : Parent(n) \in 0 .. n - 1, NEW k \in 0 .. m
    PROVE  \E f : IsPath(f, k)
<1> DEFINE T == {n \in Nat : n <= m => \E f : IsPath(f, n)}
<1>1. 0 \in T
  <2> DEFINE f == [i \in 0 .. 0 |-> {}]
  <2>1. f = [i \in 0 .. 0 |-> IF i = 0 THEN {} ELSE f[Parent(i)] \cup {i}]
    OBVIOUS
  <2>2. IsPath(f, 0)
    BY <2>1 DEF IsPath
  <2> HIDE DEF f
  <2>3. QED  BY <2>2
<1>2. ASSUME NEW n \in T
      PROVE  n + 1 \in T
  <2>1. CASE n + 1 <= m
    <3>1. n \in Nat /\ n <= m
      BY <2>1
    <3>2. PICK f : IsPath(f, n)
      BY <3>1
    <3>3. \A i \in 0 .. n : f[i] = IF i = 0 THEN {} ELSE f[Parent(i)] \cup {i}
      BY <3>2 DEF IsPath
    <3> DEFINE h == [i \in 0 .. n + 1 |->
                       IF i = n + 1 THEN f[Parent(n + 1)] \cup {n + 1} ELSE f[i]]
    <3>4. /\ \A i \in 0 .. n : i \in 0 .. n + 1 /\ i # n + 1
          /\ \A i \in 0 .. n + 1 : i = n + 1 \/ i \in 0 .. n
          /\ n + 1 # 0 /\ Parent(n + 1) \in 0 .. n
      BY <2>1, <3>1
    <3>5. /\ \A i \in 0 .. n : h[i] = f[i]
          /\ h[n + 1] = f[Parent(n + 1)] \cup {n + 1}
      BY <3>1, <3>4
    <3>6. \A i \in 0 .. n : i # 0 => Parent(i) \in 0 .. n
      BY <3>1
    <3>7. h = [i \in 0 .. n + 1 |-> h[i]]
      OBVIOUS
    <3> HIDE DEF h
    <3>8. \A i \in 0 .. n + 1 : h[i] = IF i = 0 THEN {} ELSE h[Parent(i)] \cup {i}
      BY <3>3, <3>4, <3>5, <3>6
    <3>9. IsPath(h, n + 1)
      BY <3>7, <3>8 DEF IsPath
    <3>10. QED  BY <3>1, <3>9
  <2>2. CASE ~(n + 1 <= m)
    BY <2>2
  <2>3. QED  BY <2>1, <2>2
<1> HIDE DEF T
<1>3. T = Nat
  <2>1. T \in SUBSET Nat
    BY DEF T
  <2>2. QED  BY <1>1, <1>2, <2>1, AllNaturals
<1>4. QED  BY <1>3 DEF T

LEMMA PathsAgree ==
    ASSUME NEW m \in Nat, \A n \in 1 .. m : Parent(n) \in 0 .. n - 1,
           NEW k \in 0 .. m, NEW j \in 0 .. k, NEW f, NEW h, IsPath(f, k), IsPath(h, j)
    PROVE  f[j] = h[j]
<1> DEFINE T == {n \in Nat : \A i \in 0 .. n : i <= j => f[i] = h[i]}
<1>0. /\ \A i \in 0 .. k : f[i] = IF i = 0 THEN {} ELSE f[Parent(i)] \cup {i}
      /\ \A i \in 0 .. j : h[i] = IF i = 0 THEN {} ELSE h[Parent(i)] \cup {i}
  BY DEF IsPath
<1>1. 0 \in T
  <2>0. 0 \in 0 .. k /\ 0 \in 0 .. j
    OBVIOUS
  <2>1. f[0] = {} /\ h[0] = {}
    BY <1>0, <2>0
  <2>2. \A i \in 0 .. 0 : i = 0
    OBVIOUS
  <2>3. QED  BY <2>1, <2>2
<1>2. ASSUME NEW n \in T
      PROVE  n + 1 \in T
  <2>0. n \in Nat /\ \A i \in 0 .. n : i <= j => f[i] = h[i]
    OBVIOUS
  <2>1. ASSUME n + 1 <= j
        PROVE  f[n + 1] = h[n + 1]
    <3>1. n + 1 \in 0 .. j /\ n + 1 \in 0 .. k /\ n + 1 # 0 /\ n + 1 \in 1 .. m
      BY <2>0, <2>1
    <3>2. Parent(n + 1) \in 0 .. n /\ Parent(n + 1) <= j
      BY <2>0, <2>1, <3>1
    <3>3. f[Parent(n + 1)] = h[Parent(n + 1)]
      BY <2>0, <3>2
    <3>4. QED  BY <1>0, <3>1, <3>3
  <2>2. \A i \in 0 .. n + 1 : i = n + 1 \/ i \in 0 .. n
    BY <2>0
  <2>3. QED  BY <2>0, <2>1, <2>2
<1> HIDE DEF T
<1>3. T = Nat
  <2>1. T \in SUBSET Nat
    BY DEF T
  <2>2. QED  BY <1>1, <1>2, <2>1, AllNaturals
<1>4. j \in T /\ j \in 0 .. j
  BY <1>3
<1>5. QED  BY <1>4 DEF T

\* The nodes above n are n and those above its parent.
LEMMA AncestryUp ==
    ASSUME Tree
    PROVE  /\ Ancestry(0) = {}
           /\ \A n \in Ids : Ancestry(n) = Ancestry(Parent(n)) \cup {n}
<1>1. PICK m \in Nat : Ids = 1 .. m /\ \A n \in 1 .. m : Parent(n) \in 0 .. n - 1
  BY TreeIds
<1>2. \A k \in 0 .. m : \E f : IsPath(f, k) /\ Ancestry(k) = f[k]
  <2>1. ASSUME NEW k \in 0 .. m
        PROVE  \E f : IsPath(f, k) /\ Ancestry(k) = f[k]
    <3> DEFINE f == CHOOSE p : IsPath(p, k)
    <3>1. IsPath(f, k)
      BY <1>1, PathExists
    <3>2. Ancestry(k) = f[k]
      BY DEF Ancestry, IsPath
    <3> HIDE DEF f
    <3>3. QED  BY <3>1, <3>2
  <2>2. QED  BY <2>1
<1>3. Ancestry(0) = {}
  <2>1. PICK f : IsPath(f, 0) /\ Ancestry(0) = f[0]
    BY <1>2
  <2>2. QED  BY <2>1 DEF IsPath
<1>4. ASSUME NEW n \in Ids
      PROVE  Ancestry(n) = Ancestry(Parent(n)) \cup {n}
  <2>1. PICK p \in 0 .. n : p = Parent(n)
    BY <1>1
  <2>2. n \in 0 .. m /\ p \in 0 .. m /\ n # 0 /\ n \in 0 .. n
    BY <1>1, <2>1
  <2>3. PICK f : IsPath(f, n) /\ Ancestry(n) = f[n]
    BY <1>2, <2>2
  <2>4. PICK h : IsPath(h, p) /\ Ancestry(p) = h[p]
    BY <1>2, <2>2
  <2>5. f[p] = h[p]
    BY <1>1, <2>1, <2>2, <2>3, <2>4, PathsAgree
  <2>6. f[n] = f[p] \cup {n}
    BY <2>1, <2>2, <2>3 DEF IsPath
  <2>7. QED  BY <2>1, <2>3, <2>4, <2>5, <2>6
<1>5. QED  BY <1>3, <1>4

\* An induction over the ids of the tree, from a parent to its children.
LEMMA FromAbove ==
    ASSUME Tree, NEW T \in SUBSET Ids,
           \A n \in Ids : Parent(n) = 0 \/ Parent(n) \in T => n \in T
    PROVE  T = Ids
<1>1. PICK m \in Nat : Ids = 1 .. m /\ \A n \in 1 .. m : Parent(n) \in 0 .. n - 1
  BY TreeIds
<1> DEFINE U == {k \in Nat : \A n \in 1 .. m : n <= k => n \in T}
<1>2. 0 \in U
  OBVIOUS
<1>3. ASSUME NEW k \in U
      PROVE  k + 1 \in U
  <2>1. k \in Nat /\ \A n \in 1 .. m : n <= k => n \in T
    OBVIOUS
  <2>2. ASSUME k + 1 \in 1 .. m
        PROVE  k + 1 \in T
    <3>1. PICK p : p = Parent(k + 1)
      OBVIOUS
    <3>2. p \in 0 .. k + 1 - 1
      BY <1>1, <2>2, <3>1
    <3>3. p = 0 \/ (p \in 1 .. m /\ p <= k)
      BY <2>1, <2>2, <3>2
    <3>4. p = 0 \/ p \in T
      BY <2>1, <3>3
    <3>5. QED  BY <1>1, <2>2, <3>1, <3>4
  <2>3. \A n \in 1 .. m : n <= k + 1 => n <= k \/ n = k + 1
    BY <2>1
  <2>4. QED  BY <2>1, <2>2, <2>3
<1> HIDE DEF U
<1>4. U = Nat
  <2>1. U \in SUBSET Nat
    BY DEF U
  <2>2. QED  BY <1>2, <1>3, <2>1, AllNaturals
<1>5. m \in U
  BY <1>4
<1>6. \A n \in 1 .. m : n \in T
  BY <1>5 DEF U
<1>7. QED  BY <1>1, <1>6

\* A node is above itself, and what is above it has no larger id.
LEMMA AboveIsSmaller ==
    ASSUME Tree, NEW n \in Ids
    PROVE  n \in Ancestry(n) /\ Ancestry(n) \subseteq Ids /\ \A a \in Ancestry(n) : a <= n
<1>1. PICK m \in Nat : Ids = 1 .. m /\ \A i \in 1 .. m : Parent(i) \in 0 .. i - 1
  BY TreeIds
<1> DEFINE T == {i \in Ids : Ancestry(i) \subseteq Ids /\ \A a \in Ancestry(i) : a <= i}
<1>2. ASSUME NEW i \in Ids, Parent(i) = 0 \/ Parent(i) \in T
      PROVE  i \in T
  <2>1. PICK p : p = Parent(i)
    OBVIOUS
  <2>2. Ancestry(i) = Ancestry(p) \cup {i} /\ p \in 0 .. i - 1 /\ i \in 1 .. m
    BY <1>1, <2>1, AncestryUp
  <2>3. CASE p = 0
    <3>1. Ancestry(p) = {}
      BY <2>3, AncestryUp
    <3>2. QED  BY <1>1, <2>2, <3>1
  <2>4. CASE p \in T
    BY <1>1, <2>2, <2>4
  <2>5. QED  BY <1>2, <2>1, <2>3, <2>4
<1>3. T = Ids
  <2>1. T \in SUBSET Ids
    OBVIOUS
  <2> HIDE DEF T
  <2>2. QED  BY <1>2, <2>1, FromAbove
<1>4. n \in T
  BY <1>3
<1>5. n \in Ancestry(n)
  BY AncestryUp
<1>6. QED  BY <1>4, <1>5

\* The way from s up to a passes a child of a.
LEMMA ThroughChild ==
    ASSUME Tree, NEW a \in Ids, NEW s \in Ids, a \in Ancestry(s), a # s
    PROVE  \E c \in Children(a) : c \in Ancestry(s)
<1> DEFINE ByChild(i) == a \in Ancestry(i) /\ a # i => \E c \in Children(a) : c \in Ancestry(i)
           T == {i \in Ids : ByChild(i)}
<1>1. ASSUME NEW i \in Ids, Parent(i) = 0 \/ Parent(i) \in T
      PROVE  i \in T
  <2>1. PICK p : p = Parent(i)
    OBVIOUS
  <2>2. Ancestry(i) = Ancestry(p) \cup {i} /\ i \in Ancestry(i)
    BY <2>1, AncestryUp
  <2>3. CASE p = 0
    <3>1. Ancestry(p) = {}
      BY <2>3, AncestryUp
    <3>2. QED  BY <2>2, <3>1
  <2>4. CASE p = a
    <3>1. i \in Children(a)
      BY <2>1, <2>4 DEF Children
    <3>2. QED  BY <2>2, <3>1
  <2>5. CASE p \in T /\ p # a
    <3>1. a \in Ancestry(p) => \E c \in Children(a) : c \in Ancestry(p)
      BY <2>5
    <3>2. QED  BY <2>2, <3>1
  <2>6. QED  BY <1>1, <2>1, <2>3, <2>4, <2>5
<1>2. T = Ids
  <2>1. T \in SUBSET Ids
    OBVIOUS
  <2> HIDE DEF T
  <2>2. QED  BY <1>1, <2>1, FromAbove
<1>3. s \in T
  BY <1>2
<1>4. QED  BY <1>3

\* And one only.
LEMMA ThroughOneChild ==
    ASSUME Tree, NEW a \in Ids, NEW s \in Ids, NEW c \in Children(a), NEW d \in Children(a),
           c \in Ancestry(s), d \in Ancestry(s)
    PROVE  c = d
<1> DEFINE T == {i \in Ids : c \in Ancestry(i) /\ d \in Ancestry(i) => c = d}
<1>0. PICK m \in Nat : Ids = 1 .. m /\ \A i \in 1 .. m : Parent(i) \in 0 .. i - 1
  BY TreeIds
<1>1. ASSUME NEW i \in Ids, Parent(i) = 0 \/ Parent(i) \in T
      PROVE  i \in T
  <2>1. PICK p : p = Parent(i)
    OBVIOUS
  <2>2. Ancestry(i) = Ancestry(p) \cup {i}
    BY <2>1, AncestryUp
  <2>3. CASE p = 0
    <3>1. Ancestry(p) = {}
      BY <2>3, AncestryUp
    <3>2. QED  BY <2>2, <3>1
  <2>4. CASE p \in T
    <3>1. ASSUME NEW x \in Children(a), NEW y \in Children(a), i = x, y \in Ancestry(p)
          PROVE  FALSE
      <4>1. p = a /\ y <= p /\ Parent(y) = a /\ y \in Ids
        BY <2>1, <2>4, <3>1, AboveIsSmaller DEF Children
      <4>2. Parent(y) \in 0 .. y - 1 /\ y \in 1 .. m /\ p \in 1 .. m
        BY <1>0, <2>4, <4>1
      <4>3. QED  BY <4>1, <4>2
    <3>2. CASE c = i \/ d = i
      BY <2>2, <3>1, <3>2
    <3>3. CASE c # i /\ d # i
      BY <2>2, <2>4, <3>3
    <3>4. QED  BY <3>2, <3>3
  <2>5. QED  BY <1>1, <2>1, <2>3, <2>4
<1>2. T = Ids
  <2>1. T \in SUBSET Ids
    OBVIOUS
  <2> HIDE DEF T
  <2>2. QED  BY <1>1, <2>1, FromAbove
<1>3. s \in T
  BY <1>2
<1>4. QED  BY <1>3

\* What is below a node is below its parent.
LEMMA AboveGoesUp ==
    ASSUME Tree, NEW c \in Ids, NEW s \in Ids, c \in Ancestry(s), Parent(c) # 0
    PROVE  Parent(c) \in Ancestry(s)
<1> DEFINE T == {i \in Ids : c \in Ancestry(i) => Parent(c) \in Ancestry(i)}
<1>0. PICK m \in Nat : Ids = 1 .. m /\ \A i \in 1 .. m : Parent(i) \in 0 .. i - 1
  BY TreeIds
<1>1. ASSUME NEW i \in Ids, Parent(i) = 0 \/ Parent(i) \in T
      PROVE  i \in T
  <2>1. PICK p : p = Parent(i)
    OBVIOUS
  <2>2. Ancestry(i) = Ancestry(p) \cup {i}
    BY <2>1, AncestryUp
  <2>3. CASE p = 0
    <3>1. Ancestry(p) = {}
      BY <2>3, AncestryUp
    <3>2. QED  BY <2>1, <2>2, <2>3, <3>1
  <2>4. CASE p \in T
    <3>1. p \in Ancestry(p)
      BY <2>4, AboveIsSmaller
    <3>2. QED  BY <2>1, <2>2, <2>4, <3>1
  <2>5. QED  BY <1>1, <2>1, <2>3, <2>4
<1>2. T = Ids
  <2>1. T \in SUBSET Ids
    OBVIOUS
  <2> HIDE DEF T
  <2>2. QED  BY <1>1, <2>1, FromAbove
<1>3. s \in T
  BY <1>2
<1>4. QED  BY <1>3

LEMMA StepsBelowTyped ==
    ASSUME Tree, NEW n
    PROVE  /\ StepsBelow(n) \in SUBSET DOMAIN before
           /\ DOMAIN before \subseteq Ids /\ IsFiniteSet(DOMAIN before)
<1>1. PICK m \in Nat : Ids = 1 .. m
  BY TreeIds
<1>2. IsFiniteSet(Ids) /\ DOMAIN before \in SUBSET Ids
  <2>1. IsFiniteSet(1 .. m)
    BY FS_Interval
  <2>2. QED  BY <1>1, <2>1 DEF Tree
<1>3. IsFiniteSet(DOMAIN before)
  BY <1>2, FS_Subset
<1>4. QED  BY <1>2, <1>3 DEF StepsBelow

\* A step has itself below it and nothing else.
LEMMA StepBelowItself ==
    ASSUME Tree, NEW s \in Ids, tgraph_nodes[s].type = STEP
    PROVE  StepsBelow(s) = {s}
<1>1. s \in DOMAIN before /\ Children(s) = {}
  BY DEF Tree
<1>2. s \in StepsBelow(s)
  BY <1>1, AboveIsSmaller DEF StepsBelow
<1>3. ASSUME NEW r \in StepsBelow(s)
      PROVE  r = s
  <2>1. r \in Ids /\ s \in Ancestry(r)
    BY StepsBelowTyped DEF StepsBelow
  <2>2. QED  BY <1>1, <2>1, ThroughChild
<1>4. QED  BY <1>2, <1>3

(******************************************************************************)
(* The work of a set of steps                                                 *)
(******************************************************************************)

WorkOver(P, A) == SumFunction([s \in A |-> P[s].work])

LEMMA WorkOverSame ==
    ASSUME NEW A, NEW P, NEW Q, \A s \in A : P[s].work = Q[s].work
    PROVE  WorkOver(P, A) = WorkOver(Q, A)
<1>1. [s \in A |-> P[s].work] = [s \in A |-> Q[s].work]
  OBVIOUS
<1>2. QED  BY <1>1 DEF WorkOver

LEMMA WorkTable ==
    ASSUME NEW S, IsFiniteSet(S), NEW P, \A s \in S : P[s].work \in Int
    PROVE  \E v \in [S -> Int] : \E g : /\ \A s \in S : v[s] = P[s].work
                                        /\ SumTable(g, v, S)
                                        /\ \A A \in SUBSET S : WorkOver(P, A) = g[A]
<1>1. PICK v \in [S -> Int] : \A s \in S : v[s] = P[s].work
  <2>1. [s \in S |-> P[s].work] \in [S -> Int]
    OBVIOUS
  <2>2. QED  BY <2>1
<1>2. PICK g : SumTable(g, v, S)
  BY SumsExist DEF SumTable
<1>3. ASSUME NEW A \in SUBSET S
      PROVE  WorkOver(P, A) = g[A]
  <2>1. PICK w : w = [s \in A |-> P[s].work]
    OBVIOUS
  <2>2. DOMAIN w = A /\ \A x \in A : w[x] = v[x]
    BY <1>1, <2>1
  <2>3. SumFunction(w) = g[DOMAIN w]
    BY <1>2, <2>2, SumInTable
  <2>4. QED  BY <2>1, <2>2, <2>3 DEF WorkOver
<1>4. QED  BY <1>1, <1>2, <1>3

LEMMA WorkOverNone ==
    ASSUME NEW P
    PROVE  WorkOver(P, {}) = 0
<1>1. IsFiniteSet({})
  BY FS_EmptySet
<1>2. PICK S : S = {}
  OBVIOUS
<1>3. IsFiniteSet(S) /\ \A s \in S : P[s].work \in Int
  BY <1>1, <1>2
<1>4. PICK v \in [S -> Int] : \E g : SumTable(g, v, S) /\ \A A \in SUBSET S : WorkOver(P, A) = g[A]
  BY <1>3, WorkTable
<1>5. PICK g : SumTable(g, v, S) /\ \A A \in SUBSET S : WorkOver(P, A) = g[A]
  BY <1>4
<1>6. g[S] = 0 /\ WorkOver(P, S) = g[S]
  BY <1>2, <1>5 DEF SumTable, Sums
<1>7. QED  BY <1>2, <1>6

LEMMA WorkOverOne ==
    ASSUME NEW P, NEW s, P[s].work \in Int
    PROVE  WorkOver(P, {s}) = P[s].work
<1>1. PICK S : S = {s}
  OBVIOUS
<1>2. IsFiniteSet(S) /\ \A x \in S : P[x].work \in Int
  BY <1>1, FS_Singleton
<1>3. PICK v \in [S -> Int] : \E g : /\ \A x \in S : v[x] = P[x].work
                                     /\ SumTable(g, v, S)
                                     /\ \A A \in SUBSET S : WorkOver(P, A) = g[A]
  BY <1>2, WorkTable
<1>4. PICK g : SumTable(g, v, S) /\ \A A \in SUBSET S : WorkOver(P, A) = g[A]
  BY <1>3
<1>5. /\ {} \in SUBSET S /\ S \in SUBSET S /\ s \in S /\ S \ {s} = {}
      /\ v[s] = P[s].work
  BY <1>1, <1>3
<1>6. g[S] = v[s] + g[S \ {s}]
  BY <1>2, <1>4, <1>5, AnyFirst
<1>7. g[{}] = 0
  BY <1>4, <1>5 DEF SumTable, Sums
<1>8. WorkOver(P, S) = g[S]
  BY <1>4, <1>5
<1>9. g[S] = P[s].work
  <2>1. PICK k \in Int : k = P[s].work
    OBVIOUS
  <2>2. v[s] = k
    BY <1>5, <2>1
  <2>3. g[S] = k + 0
    BY <1>5, <1>6, <1>7, <2>2
  <2>4. QED  BY <2>1, <2>3
<1>10. QED  BY <1>1, <1>8, <1>9

LEMMA WorkOverTwo ==
    ASSUME NEW S, IsFiniteSet(S), NEW P, \A s \in S : P[s].work \in Int,
           NEW a \in SUBSET S, NEW b \in SUBSET S, NEW all, Splits(all, a, b)
    PROVE  /\ WorkOver(P, all) = WorkOver(P, a) + WorkOver(P, b)
           /\ WorkOver(P, a) \in Int /\ WorkOver(P, b) \in Int
<1>1. PICK v \in [S -> Int] : \E g : /\ \A x \in S : v[x] = P[x].work
                                     /\ SumTable(g, v, S)
                                     /\ \A A \in SUBSET S : WorkOver(P, A) = g[A]
  BY WorkTable
<1>2. PICK g : SumTable(g, v, S) /\ \A A \in SUBSET S : WorkOver(P, A) = g[A]
  BY <1>1
<1>3. g[all] = g[a] + g[b]
  BY <1>2, SumOfTwo
<1>4. all \in SUBSET S
  BY DEF Splits
<1>5. WorkOver(P, all) = g[all] /\ WorkOver(P, a) = g[a] /\ WorkOver(P, b) = g[b]
  BY <1>2, <1>4
<1>6. g[a] \in Int /\ g[b] \in Int
  BY <1>2 DEF SumTable
<1>7. QED  BY <1>3, <1>5, <1>6

(******************************************************************************)
(* The invariant of the analysis                                              *)
(******************************************************************************)

\* Node c has been calculated in this pass.
Calculated(c) ==
    IF tgraph_nodes[c].num_children = 0 THEN c < index
    ELSE num_processed[c] = tgraph_nodes[c].num_children

\* The children of p whose results p has.
Told(p) == {c \in Children(p) : Calculated(c)}

\* num_processed counts them, but for the one that climb carries up.
Counts ==
    /\ num_processed \in [DOMAIN tgraph_nodes -> Nat]
    /\ \A p \in Ids : num_processed[p] + (IF climb = p THEN 1 ELSE 0) = Cardinality(Told(p))
    /\ \A p \in Ids : num_processed[p] > 0 => p < index
    /\ climb \in Ids \cup {0} /\ climb < index
    /\ index \in 1 .. Cardinality(Ids) + 1

APass == [regions : SUBSET Regions, par_increase : Nat \ {0}]

DataTyped ==
    /\ t_prof \in [DOMAIN tgraph_nodes -> ProfilerData]
    /\ critical_call_sites \in [DOMAIN tgraph_nodes -> [Sites -> Nat]]
    /\ workSpanMap \in [Sites -> [work : Nat, span : Nat, call_count : Nat]]
    /\ pass \in APass
    /\ pending \in Seq(APass)

\* The steps below n whose work n has.
Got(n) == {s \in StepsBelow(n) : \E c \in Told(n) : c \in Ancestry(s)}

Gathered(n) == IF phase = "profile" THEN Got(n) ELSE StepsBelow(n)

WorkGathered == \A n \in InnerNodes : t_prof[n].work = WorkOver(t_prof, Gathered(n))

AInv ==
    \/ /\ phase = "idle" /\ tgraph_nodes = [i \in {} |-> 0] /\ Counts /\ DataTyped
    \/ /\ phase \in {"profile", "region", "done"} /\ finished
       /\ Tree /\ Counts /\ DataTyped /\ WorkGathered

(******************************************************************************)
(* What a calculation does to the results                                     *)
(******************************************************************************)

\* Q is P with more work at p, and other changes that are not to the work.
AddsWork(P, Q, D, p, w) ==
    /\ P \in [D -> ProfilerData] /\ Q \in [D -> ProfilerData]
    /\ \A x \in D : Q[x].work = P[x].work + IF x = p THEN w ELSE 0

LEMMA CriticalTyped ==
    ASSUME DataTyped, NEW n \in DOMAIN tgraph_nodes
    PROVE  Critical(n) \in Nat
<1>1. t_prof[n] \in ProfilerData
  BY DEF DataTyped
<1>2. PICK a \in Nat, b \in Nat : a = t_prof[n].local_work /\ b = t_prof[n].critical_child
  BY <1>1 DEF ProfilerData
<1>3. Max({a, b}) \in Nat
  BY DEF Max
<1>4. QED  BY <1>2, <1>3 DEF Critical

LEMMA SitesTyped ==
    ASSUME WorkSpanAssumption, NEW map \in [Sites -> Nat], NEW site \in Sites, NEW work \in Nat
    PROVE  /\ insert_cs_data(map, site, work) \in [Sites -> Nat]
           /\ NoSites \in [Sites -> Nat]
           /\ SumFunction(map) \in Int
<1>1. insert_cs_data(map, site, work) \in [Sites -> Nat] /\ NoSites \in [Sites -> Nat]
  BY DEF insert_cs_data, NoSites
<1>2. map \in [Sites -> Int] /\ IsFiniteSet(Sites)
  BY DEF WorkSpanAssumption
<1>3. SumFunction(map) \in Int
  BY <1>2, SumTyped
<1>4. QED  BY <1>1, <1>3

LEMMA SitesMerge ==
    ASSUME NEW a \in [Sites -> Nat], NEW b \in [Sites -> Nat]
    PROVE  merge_critical_call_sites(a, b) \in [Sites -> Nat]
  BY DEF merge_critical_call_sites

\* What the three branches need to know of node n and its parent.
LEMMA AtNode ==
    ASSUME Tree, DataTyped, NEW n \in Ids
    PROVE  /\ n \in DOMAIN tgraph_nodes /\ Parent(n) \in DOMAIN tgraph_nodes /\ Parent(n) # n
           /\ tgraph_nodes[n] \in TaskNode
           /\ tgraph_nodes[n].type \in {ASYNC, FINISH, STEP}
           /\ t_prof[n] \in ProfilerData /\ t_prof[Parent(n)] \in ProfilerData
           /\ critical_call_sites[n] \in [Sites -> Nat]
           /\ critical_call_sites[Parent(n)] \in [Sites -> Nat]
<1>1. PICK m \in Nat : /\ DOMAIN tgraph_nodes = 0 .. m /\ Ids = 1 .. m
                       /\ \A i \in 1 .. m : Parent(i) \in 0 .. i - 1
  BY TreeIds
<1>2. n \in DOMAIN tgraph_nodes /\ Parent(n) \in DOMAIN tgraph_nodes /\ Parent(n) # n
  BY <1>1
<1>3. tgraph_nodes[n] \in TaskNode /\ tgraph_nodes[n].type \in {ASYNC, FINISH, STEP}
  BY <1>2 DEF Tree
<1>4. /\ t_prof \in [DOMAIN tgraph_nodes -> ProfilerData]
      /\ critical_call_sites \in [DOMAIN tgraph_nodes -> [Sites -> Nat]]
  BY DEF DataTyped
<1>5. QED  BY <1>2, <1>3, <1>4

LEMMA StepAdds ==
    ASSUME WorkSpanAssumption, Tree, DataTyped, NEW n \in Ids, StepCalculated(n)
    PROVE  /\ AddsWork(t_prof, t_prof', DOMAIN tgraph_nodes, Parent(n), t_prof[n].work)
           /\ critical_call_sites' \in [DOMAIN tgraph_nodes -> [Sites -> Nat]]
<1>1. PICK P, D, p, w, a, b, c :
         /\ P = t_prof /\ D = DOMAIN tgraph_nodes /\ p = Parent(n) /\ w = t_prof[n].work
         /\ a = P[p].work + w /\ b = P[p].local_work + w /\ c = (P[p].local_local_work + w) % SIZE
  OBVIOUS
<1>2. P \in [D -> ProfilerData] /\ p \in D /\ w \in Nat
  BY <1>1, AtNode DEF DataTyped, ProfilerData
<1>3. a \in Nat /\ b \in Nat /\ c \in Nat
  BY <1>1, <1>2 DEF ProfilerData, WorkSpanAssumption
<1>4. PICK r : r = [P[p] EXCEPT !.work = a, !.local_work = b, !.local_local_work = c]
  OBVIOUS
<1>5. r \in ProfilerData /\ r.work = P[p].work + w
  BY <1>1, <1>2, <1>3, <1>4 DEF ProfilerData
<1>6. t_prof' = [P EXCEPT ![p] = r]
  BY <1>1, <1>2, <1>4 DEF StepCalculated
<1>7. AddsWork(P, t_prof', D, p, w)
  BY <1>2, <1>5, <1>6 DEF AddsWork, ProfilerData
<1>8. critical_call_sites' \in [DOMAIN tgraph_nodes -> [Sites -> Nat]]
  BY DEF StepCalculated, DataTyped
<1>9. QED  BY <1>1, <1>7, <1>8

LEMMA AsyncAdds ==
    ASSUME WorkSpanAssumption, Tree, DataTyped, NEW n \in Ids, AsyncCalculated(n)
    PROVE  /\ AddsWork(t_prof, t_prof', DOMAIN tgraph_nodes, Parent(n), t_prof[n].work)
           /\ critical_call_sites' \in [DOMAIN tgraph_nodes -> [Sites -> Nat]]
<1>1. PICK P, D, p, w, cc, path, C, none, sites :
         /\ P = t_prof /\ D = DOMAIN tgraph_nodes /\ p = Parent(n) /\ w = t_prof[n].work
         /\ cc = Critical(n) /\ path = cc + t_prof[n].parent_work
         /\ C = critical_call_sites /\ none = NoSites
         /\ sites = insert_cs_data(critical_call_sites[n], tgraph_nodes[n].call_site,
                                   t_prof[n].local_local_work)
  OBVIOUS
<1>2. /\ P \in [D -> ProfilerData] /\ C \in [D -> [Sites -> Nat]]
      /\ p \in D /\ n \in D /\ p # n /\ w \in Nat /\ cc \in Nat
      /\ t_prof[n] \in ProfilerData /\ tgraph_nodes[n] \in TaskNode
  BY <1>1, AtNode, CriticalTyped DEF DataTyped, ProfilerData
<1>3. path \in Nat /\ sites \in [Sites -> Nat] /\ none \in [Sites -> Nat]
  <2>1. PICK map, site, work : /\ map = critical_call_sites[n] /\ site = tgraph_nodes[n].call_site
                               /\ work = t_prof[n].local_local_work
    OBVIOUS
  <2>2. map \in [Sites -> Nat] /\ site \in Sites /\ work \in Nat
    BY <1>2, <2>1, AtNode DEF TaskNode, ProfilerData
  <2>3. insert_cs_data(map, site, work) \in [Sites -> Nat] /\ NoSites \in [Sites -> Nat]
    BY <2>2, SitesTyped
  <2>4. sites = insert_cs_data(map, site, work)
    BY <1>1, <2>1
  <2>5. t_prof[n].parent_work \in Nat
    BY <1>2 DEF ProfilerData
  <2>6. QED  BY <1>1, <1>2, <2>3, <2>4, <2>5
<1>4. PICK q, r, s :
         /\ q = [P[n] EXCEPT !.critical_child = cc]
         /\ r = [P[p] EXCEPT !.work = P[p].work + w]
         /\ s = [r EXCEPT !.critical_child = path]
  OBVIOUS
<1>5. /\ q \in ProfilerData /\ q.work = P[n].work
      /\ r \in ProfilerData /\ r.work = P[p].work + w
      /\ s \in ProfilerData /\ s.work = P[p].work + w
  <2>1. P[n] \in ProfilerData /\ P[p] \in ProfilerData
    BY <1>2
  <2>2. q \in ProfilerData /\ q.work = P[n].work
    BY <1>2, <1>4, <2>1 DEF ProfilerData
  <2>3. r \in ProfilerData /\ r.work = P[p].work + w
    BY <1>2, <1>4, <2>1 DEF ProfilerData
  <2>4. s \in ProfilerData /\ s.work = r.work
    BY <1>3, <1>4, <2>3 DEF ProfilerData
  <2>5. QED  BY <2>2, <2>3, <2>4
<1>6. PICK results : results = [[P EXCEPT ![n] = q] EXCEPT ![p] = r]
  OBVIOUS
<1>7. results = [t_prof EXCEPT ![n].critical_child = cc, ![p].work = @ + w]
  BY <1>1, <1>2, <1>4, <1>6
<1>8. results \in [D -> ProfilerData] /\ results[p] = r
  BY <1>2, <1>5, <1>6
<1>9. AddsWork(P, results, D, p, w)
  BY <1>2, <1>5, <1>6, <1>8 DEF AddsWork, ProfilerData
<1>10. CASE /\ t_prof' = [results EXCEPT ![p].critical_child = path]
            /\ critical_call_sites' = [C EXCEPT ![n] = none, ![p] = sites]
  <2>1. t_prof' = [results EXCEPT ![p] = s]
    BY <1>2, <1>4, <1>8, <1>10
  <2>2. AddsWork(P, t_prof', D, p, w)
    BY <1>2, <1>5, <1>8, <1>9, <2>1 DEF AddsWork
  <2>3. critical_call_sites' \in [D -> [Sites -> Nat]]
    BY <1>2, <1>3, <1>10
  <2>4. QED  BY <1>1, <2>2, <2>3
<1>11. CASE /\ t_prof' = results
            /\ critical_call_sites' = [C EXCEPT ![n] = sites]
  <2>1. critical_call_sites' \in [D -> [Sites -> Nat]]
    BY <1>2, <1>3, <1>11
  <2>2. QED  BY <1>1, <1>9, <1>11, <2>1
<1>12. QED
  <2>1. \/ /\ t_prof' = [results EXCEPT ![p].critical_child = path]
           /\ critical_call_sites' = [C EXCEPT ![n] = none, ![p] = sites]
        \/ /\ t_prof' = results
           /\ critical_call_sites' = [C EXCEPT ![n] = sites]
    BY <1>1, <1>7 DEF AsyncCalculated
  <2>2. QED  BY <1>10, <1>11, <2>1

LEMMA FinishAdds ==
    ASSUME WorkSpanAssumption, Tree, DataTyped, NEW n \in Ids, NEW sites \in [Sites -> Nat],
           NEW share \in Int, FinishJoins(n, sites, share)
    PROVE  /\ AddsWork(t_prof, t_prof', DOMAIN tgraph_nodes, Parent(n), t_prof[n].work)
           /\ critical_call_sites' \in [DOMAIN tgraph_nodes -> [Sites -> Nat]]
<1>1. PICK P, D, p, w, cc, C, merged, b, c :
         /\ P = t_prof /\ D = DOMAIN tgraph_nodes /\ p = Parent(n) /\ w = t_prof[n].work
         /\ cc = Critical(n) /\ C = critical_call_sites
         /\ merged = merge_critical_call_sites(sites, critical_call_sites[p])
         /\ b = P[p].local_work + cc /\ c = (P[p].local_local_work + share) % SIZE
  OBVIOUS
<1>2. /\ P \in [D -> ProfilerData] /\ C \in [D -> [Sites -> Nat]]
      /\ p \in D /\ n \in D /\ p # n /\ w \in Nat /\ cc \in Nat
      /\ P[p] \in ProfilerData
  BY <1>1, AtNode, CriticalTyped DEF DataTyped, ProfilerData
<1>3. b \in Nat /\ c \in Nat /\ merged \in [Sites -> Nat]
  <2>1. P[p].local_work \in Nat /\ P[p].local_local_work \in Nat
    BY <1>2 DEF ProfilerData
  <2>2. b \in Nat /\ c \in Nat
    BY <1>1, <1>2, <2>1 DEF WorkSpanAssumption
  <2>3. merged \in [Sites -> Nat]
    BY <1>1, <1>2, SitesMerge
  <2>4. QED  BY <2>2, <2>3
<1>4. PICK q, r :
         /\ q = [P[n] EXCEPT !.critical_child = cc]
         /\ r = [P[p] EXCEPT !.work = P[p].work + w, !.local_work = b, !.local_local_work = c]
  OBVIOUS
<1>5. /\ q \in ProfilerData /\ q.work = P[n].work
      /\ r \in ProfilerData /\ r.work = P[p].work + w
  <2>1. P[n] \in ProfilerData /\ P[p] \in ProfilerData
    BY <1>2
  <2>2. q \in ProfilerData /\ q.work = P[n].work
    BY <1>2, <1>4, <2>1 DEF ProfilerData
  <2>3. r \in ProfilerData /\ r.work = P[p].work + w
    <3>1. PICK rec, tot : rec = P[p] /\ tot = P[p].work + w
      OBVIOUS
    <3>2. rec \in ProfilerData /\ tot \in Nat /\ b \in Nat /\ c \in Nat
      BY <1>2, <1>3, <2>1, <3>1 DEF ProfilerData
    <3>3. r = [rec EXCEPT !.work = tot, !.local_work = b, !.local_local_work = c]
      BY <1>4, <3>1
    <3>4. r \in ProfilerData /\ r.work = tot
      BY <3>2, <3>3 DEF ProfilerData
    <3>5. QED  BY <3>1, <3>4
  <2>4. QED  BY <2>2, <2>3
<1>6. t_prof' = [[P EXCEPT ![n] = q] EXCEPT ![p] = r]
  BY <1>1, <1>2, <1>4 DEF FinishJoins
<1>7. AddsWork(P, t_prof', D, p, w)
  <2>1. t_prof' \in [D -> ProfilerData]
    BY <1>2, <1>5, <1>6
  <2>2. ASSUME NEW x \in D
        PROVE  t_prof'[x].work = P[x].work + IF x = p THEN w ELSE 0
    <3>1. P[x].work \in Nat
      BY <1>2 DEF ProfilerData
    <3>2. CASE x = p
      BY <1>2, <1>5, <1>6, <3>2
    <3>3. CASE x # p
      <4>1. t_prof'[x].work = P[x].work
        BY <1>2, <1>5, <1>6, <3>3
      <4>2. QED  BY <3>1, <3>3, <4>1
    <3>4. QED  BY <3>2, <3>3
  <2>3. QED  BY <1>2, <2>1, <2>2 DEF AddsWork
<1>8. critical_call_sites' \in [D -> [Sites -> Nat]]
  <2>1. PICK mine : mine = IF p = 0 THEN C[p] ELSE merged
    OBVIOUS
  <2>2. mine \in [Sites -> Nat]
    BY <1>2, <1>3, <2>1
  <2>3. critical_call_sites' = [[C EXCEPT ![n] = sites] EXCEPT ![p] = mine]
    BY <1>1, <1>2, <2>1 DEF FinishJoins
  <2>4. QED  BY <1>2, <2>2, <2>3
<1>9. QED  BY <1>1, <1>7, <1>8

LEMMA FinishCalculates ==
    ASSUME WorkSpanAssumption, Tree, DataTyped, NEW n \in Ids, FinishCalculated(n)
    PROVE  /\ AddsWork(t_prof, t_prof', DOMAIN tgraph_nodes, Parent(n), t_prof[n].work)
           /\ critical_call_sites' \in [DOMAIN tgraph_nodes -> [Sites -> Nat]]
<1>1. PICK me, site, sites, ll, own, sum :
         /\ me = t_prof[n] /\ site = tgraph_nodes[n].call_site /\ sites = critical_call_sites[n]
         /\ ll = me.local_work /\ own = me.local_local_work /\ sum = SumFunction(sites)
  OBVIOUS
<1>2. /\ me \in ProfilerData /\ sites \in [Sites -> Nat] /\ tgraph_nodes[n] \in TaskNode
  BY <1>1, AtNode
<1>3. /\ ll \in Nat /\ own \in Nat /\ me.critical_child \in Nat /\ site \in Sites
  BY <1>1, <1>2 DEF ProfilerData, TaskNode
<1>4. NoSites \in [Sites -> Nat]
  BY DEF NoSites
<1>5. PICK none, a, b, rest :
         /\ none = NoSites
         /\ a = insert_cs_data(none, site, ll) /\ b = insert_cs_data(sites, site, own)
         /\ rest = (me.critical_child - sum) % SIZE
  OBVIOUS
<1>6. /\ none \in [Sites -> Nat] /\ a \in [Sites -> Nat] /\ b \in [Sites -> Nat]
  <2>1. none \in [Sites -> Nat]
    BY <1>4, <1>5
  <2>2. a \in [Sites -> Nat]
    BY <1>3, <1>5, <2>1, SitesTyped
  <2>3. b \in [Sites -> Nat]
    BY <1>2, <1>3, <1>5, SitesTyped
  <2>4. QED  BY <2>1, <2>2, <2>3
<1>7. rest \in Int
  <2>1. sum \in Int
    BY <1>1, <1>2, <1>3, SitesTyped
  <2>2. QED  BY <1>3, <1>5, <2>1 DEF WorkSpanAssumption
<1>8. PICK zero : zero = 0
  OBVIOUS
<1>9. /\ zero \in Int /\ own \in Int
      /\ \/ FinishJoins(n, a, zero) \/ FinishJoins(n, b, zero) \/ FinishJoins(n, none, own)
         \/ FinishJoins(n, sites, zero) \/ FinishJoins(n, sites, rest)
  BY <1>1, <1>3, <1>5, <1>8 DEF FinishCalculated
<1>10. CASE FinishJoins(n, a, zero)
  BY <1>6, <1>9, <1>10, FinishAdds
<1>11. CASE FinishJoins(n, b, zero)
  BY <1>6, <1>9, <1>11, FinishAdds
<1>12. CASE FinishJoins(n, none, own)
  BY <1>6, <1>9, <1>12, FinishAdds
<1>13. CASE FinishJoins(n, sites, zero)
  BY <1>2, <1>9, <1>13, FinishAdds
<1>14. CASE FinishJoins(n, sites, rest)
  BY <1>2, <1>7, <1>14, FinishAdds
<1>15. QED  BY <1>9, <1>10, <1>11, <1>12, <1>13, <1>14

\* calculateWorkSpan gives the node's work to its parent.
LEMMA ProfileAdds ==
    ASSUME WorkSpanAssumption, Tree, DataTyped, NEW n \in Ids, calculateWorkSpan(n)
    PROVE  /\ AddsWork(t_prof, t_prof', DOMAIN tgraph_nodes, Parent(n), t_prof[n].work)
           /\ critical_call_sites' \in [DOMAIN tgraph_nodes -> [Sites -> Nat]]
<1>1. CASE StepCalculated(n)
  BY <1>1, StepAdds
<1>2. CASE AsyncCalculated(n)
  BY <1>2, AsyncAdds
<1>3. CASE FinishCalculated(n)
  BY <1>3, FinishCalculates
<1>4. QED  BY <1>1, <1>2, <1>3 DEF calculateWorkSpan

LEMMA ReducedTyped ==
    ASSUME WorkSpanAssumption, Tree, DataTyped, NEW n \in Ids
    PROVE  ReducedWork(n) \in Nat
<1>1. PICK R, inc, work, rw : /\ R = pass.regions /\ inc = pass.par_increase
                              /\ work = t_prof[n].work /\ rw = tgraph_nodes[n].region_work
  OBVIOUS
<1>2. pass \in APass
  BY DEF DataTyped
<1>3. R \in SUBSET Regions /\ inc \in Nat \ {0} /\ IsFiniteSet(R)
  BY <1>1, <1>2, FS_Subset DEF APass, WorkSpanAssumption
<1>4. rw \in [Regions -> Nat] /\ work \in Nat
  BY <1>1, AtNode DEF TaskNode, ProfilerData
<1>5. PICK decrease : decrease = [r \in R |-> rw[r] - rw[r] \div inc]
  OBVIOUS
<1>6. decrease \in [R -> Int]
  <2>1. ASSUME NEW r \in R
        PROVE  rw[r] - rw[r] \div inc \in Int
    <3>1. PICK k \in Nat : k = rw[r]
      BY <1>3, <1>4
    <3>2. k \div inc \in Int
      BY <1>3
    <3>3. QED  BY <3>1, <3>2
  <2>2. QED  BY <1>5, <2>1
<1>7. PICK sum \in Int : sum = SumFunction(decrease)
  BY <1>3, <1>6, SumTyped
<1>8. (work - sum) % SIZE \in Nat
  BY <1>4 DEF WorkSpanAssumption
<1>9. ReducedWork(n) = (work - sum) % SIZE
  BY <1>1, <1>5, <1>7 DEF ReducedWork
<1>10. QED  BY <1>8, <1>9

\* What-if passes change no node's work.
LEMMA RegionKeepsWork ==
    ASSUME WorkSpanAssumption, Tree, DataTyped, NEW n \in Ids, calculateWorkSpan_region(n)
    PROVE  /\ t_prof' \in [DOMAIN tgraph_nodes -> ProfilerData]
           /\ \A x \in DOMAIN tgraph_nodes : t_prof'[x].work = t_prof[x].work
           /\ critical_call_sites' = critical_call_sites
<1>1. PICK P, D, p, cc, path, red :
         /\ P = t_prof /\ D = DOMAIN tgraph_nodes /\ p = Parent(n) /\ cc = Critical(n)
         /\ path = cc + t_prof[n].parent_work /\ red = ReducedWork(n)
  OBVIOUS
<1>2. /\ P \in [D -> ProfilerData] /\ p \in D /\ n \in D /\ p # n
      /\ P[p] \in ProfilerData /\ P[n] \in ProfilerData
  BY <1>1, AtNode DEF DataTyped
<1>3. cc \in Nat /\ red \in Nat
  BY <1>1, <1>2, CriticalTyped, ReducedTyped
<1>4. PICK pl, pc \in Nat : pl = P[p].local_work /\ pc = P[p].critical_child
  BY <1>2 DEF ProfilerData
<1>5. path \in Nat
  BY <1>1, <1>2, <1>3 DEF ProfilerData
<1>6. PICK new : new = Max({pc, path})
  OBVIOUS
<1>7. new \in Nat
  <2>1. Max({pc, path}) \in {pc, path}
    <3>1. \E x \in {pc, path} : \A y \in {pc, path} : x >= y
      BY <1>4, <1>5
    <3>2. QED  BY <3>1 DEF Max
  <2>2. QED  BY <1>4, <1>5, <1>6, <2>1
<1>8. PICK q, r1, r2, r3, l1, l2 :
         /\ l1 = pl + red /\ l2 = pl + cc
         /\ q = [P[n] EXCEPT !.critical_child = cc]
         /\ r1 = [P[p] EXCEPT !.local_work = l1]
         /\ r2 = [P[p] EXCEPT !.critical_child = new]
         /\ r3 = [P[p] EXCEPT !.local_work = l2]
  OBVIOUS
<1>9. l1 \in Nat /\ l2 \in Nat
  BY <1>3, <1>4, <1>8
<1>10. q \in ProfilerData /\ q.work = P[n].work
  BY <1>2, <1>3, <1>8 DEF ProfilerData
<1>11. r1 \in ProfilerData /\ r1.work = P[p].work
  BY <1>2, <1>9, <1>8 DEF ProfilerData
<1>12. r2 \in ProfilerData /\ r2.work = P[p].work
  BY <1>2, <1>7, <1>8 DEF ProfilerData
<1>13. r3 \in ProfilerData /\ r3.work = P[p].work
  BY <1>2, <1>9, <1>8 DEF ProfilerData
<1>14. CASE t_prof' = [P EXCEPT ![p] = r1]
  BY <1>1, <1>2, <1>11, <1>14 DEF calculateWorkSpan_region
<1>15. CASE t_prof' = [[P EXCEPT ![n] = q] EXCEPT ![p] = r2]
  BY <1>1, <1>2, <1>10, <1>12, <1>15 DEF calculateWorkSpan_region
<1>16. CASE t_prof' = [[P EXCEPT ![n] = q] EXCEPT ![p] = r3]
  BY <1>1, <1>2, <1>10, <1>13, <1>16 DEF calculateWorkSpan_region
<1>17. QED
  <2>1. \/ t_prof' = [P EXCEPT ![p].local_work = @ + red]
        \/ t_prof' = [P EXCEPT ![n].critical_child = cc,
                               ![p].critical_child = Max({@, path})]
        \/ t_prof' = [P EXCEPT ![n].critical_child = cc, ![p].local_work = @ + cc]
    BY <1>1 DEF calculateWorkSpan_region
  <2>2. CASE t_prof' = [P EXCEPT ![p].local_work = @ + red]
    <3>1. t_prof' = [P EXCEPT ![p] = r1]
      BY <1>2, <1>4, <1>8, <2>2
    <3>2. QED  BY <1>14, <3>1
  <2>3. CASE t_prof' = [P EXCEPT ![n].critical_child = cc,
                                 ![p].critical_child = Max({@, path})]
    <3>1. t_prof' = [[P EXCEPT ![n] = q]
                         EXCEPT ![p] = [P[p] EXCEPT !.critical_child = Max({P[p].critical_child, path})]]
      BY <1>2, <1>8, <2>3
    <3>2. t_prof' = [[P EXCEPT ![n] = q] EXCEPT ![p] = r2]
      BY <1>4, <1>6, <1>8, <3>1
    <3>3. QED  BY <1>15, <3>2
  <2>4. CASE t_prof' = [P EXCEPT ![n].critical_child = cc, ![p].local_work = @ + cc]
    <3>1. t_prof' = [[P EXCEPT ![n] = q] EXCEPT ![p] = r3]
      BY <1>2, <1>4, <1>8, <2>4
    <3>2. QED  BY <1>16, <3>1
  <2>5. QED  BY <2>1, <2>2, <2>3, <2>4

LEMMA SiteReportedTyped ==
    ASSUME DataTyped, t_prof' \in [DOMAIN tgraph_nodes -> ProfilerData],
           NEW n \in DOMAIN tgraph_nodes, SiteReported(n)
    PROVE  workSpanMap' \in [Sites -> [work : Nat, span : Nat, call_count : Nat]]
<1> DEFINE Row == [work : Nat, span : Nat, call_count : Nat]
<1>1. workSpanMap \in [Sites -> Row]
  BY DEF DataTyped
<1>2. PICK M, site, w, c : /\ M = workSpanMap /\ site = tgraph_nodes[n].call_site
                           /\ w = t_prof'[n].work /\ c = t_prof'[n].critical_child
  OBVIOUS
<1>3. w \in Nat /\ c \in Nat
  BY <1>2 DEF ProfilerData
<1>4. CASE workSpanMap' = M
  BY <1>1, <1>2, <1>4
<1>5. CASE workSpanMap' = [M EXCEPT ![site] = [work |-> @.work + w, span |-> @.span + c,
                                               call_count |-> @.call_count + 1]]
  <2>1. ASSUME site \in Sites
        PROVE  [work |-> M[site].work + w, span |-> M[site].span + c,
                call_count |-> M[site].call_count + 1] \in Row
    <3>1. M[site] \in Row
      BY <1>1, <1>2, <2>1
    <3>2. QED  BY <1>3, <3>1
  <2>2. QED  BY <1>1, <1>2, <1>5, <2>1
<1>6. QED  BY <1>2, <1>4, <1>5 DEF SiteReported

LEMMA Calculates ==
    ASSUME WorkSpanAssumption, Tree, DataTyped, NEW n \in Ids, Calculate(n),
           UNCHANGED <<tgraph_nodes, pass, pending>>
    PROVE  /\ DataTyped'
           /\ phase = "profile" =>
                 AddsWork(t_prof, t_prof', DOMAIN tgraph_nodes, Parent(n), t_prof[n].work)
           /\ phase = "region" =>
                 \A x \in DOMAIN tgraph_nodes : t_prof'[x].work = t_prof[x].work
<1>1. n \in DOMAIN tgraph_nodes
  BY AtNode
<1>2. /\ t_prof' \in [DOMAIN tgraph_nodes -> ProfilerData]
      /\ critical_call_sites' \in [DOMAIN tgraph_nodes -> [Sites -> Nat]]
      /\ phase = "profile" =>
            AddsWork(t_prof, t_prof', DOMAIN tgraph_nodes, Parent(n), t_prof[n].work)
      /\ phase = "region" =>
            \A x \in DOMAIN tgraph_nodes : t_prof'[x].work = t_prof[x].work
  <2>1. CASE phase = "profile" /\ calculateWorkSpan(n)
    <3>1. /\ AddsWork(t_prof, t_prof', DOMAIN tgraph_nodes, Parent(n), t_prof[n].work)
          /\ critical_call_sites' \in [DOMAIN tgraph_nodes -> [Sites -> Nat]]
      BY <2>1, ProfileAdds
    <3>2. t_prof' \in [DOMAIN tgraph_nodes -> ProfilerData]
      BY <3>1 DEF AddsWork
    <3>3. QED  BY <2>1, <3>1, <3>2
  <2>2. CASE phase = "region" /\ calculateWorkSpan_region(n)
    <3>1. /\ t_prof' \in [DOMAIN tgraph_nodes -> ProfilerData]
          /\ \A x \in DOMAIN tgraph_nodes : t_prof'[x].work = t_prof[x].work
          /\ critical_call_sites' = critical_call_sites
      BY <2>2, RegionKeepsWork
    <3>2. critical_call_sites' \in [DOMAIN tgraph_nodes -> [Sites -> Nat]]
      BY <3>1 DEF DataTyped
    <3>3. QED  BY <2>2, <3>1, <3>2
  <2>3. QED  BY <2>1, <2>2 DEF Calculate
<1>3. workSpanMap' \in [Sites -> [work : Nat, span : Nat, call_count : Nat]]
  <2>1. SiteReported(n)
    BY DEF Calculate
  <2>2. QED  BY <1>1, <1>2, <2>1, SiteReportedTyped
<1>4. DataTyped'
  <2>1. pass \in APass /\ pending \in Seq(APass)
    BY DEF DataTyped
  <2>2. QED  BY <1>2, <1>3, <2>1 DEF DataTyped
<1>5. QED  BY <1>2, <1>4

(******************************************************************************)
(* How the work gets to a parent                                              *)
(******************************************************************************)

LEMMA SameTree ==
    ASSUME UNCHANGED <<tgraph_nodes, before>>
    PROVE  /\ Tree => Tree'
           /\ Ids' = Ids /\ InnerNodes' = InnerNodes
           /\ \A n : Parent(n)' = Parent(n) /\ Children(n)' = Children(n)
           /\ \A n : Ancestry(n)' = Ancestry(n) /\ StepsBelow(n)' = StepsBelow(n)
<1>1. Ids' = Ids
  BY DEF Ids
<1>2. \A n : Parent(n)' = Parent(n)
  BY DEF Parent
<1>3. \A n : Children(n)' = Children(n)
  BY <1>1, <1>2 DEF Children
<1>4. ASSUME NEW n
      PROVE  Ancestry(n)' = Ancestry(n)
  BY DEF Ancestry, Parent
<1>5. \A n : StepsBelow(n)' = StepsBelow(n)
  BY <1>4 DEF StepsBelow
<1>6. InnerNodes' = InnerNodes
  BY <1>1 DEF InnerNodes
<1>7. Tree => Tree'
  BY <1>1, <1>2, <1>3 DEF Tree
<1>8. QED  BY <1>1, <1>2, <1>3, <1>4, <1>5, <1>6, <1>7

\* A step's work is never added to.
LEMMA ParentIsNoStep ==
    ASSUME Tree, NEW n \in Ids, NEW s \in Ids, tgraph_nodes[s].type = STEP
    PROVE  Parent(n) # s
<1>1. Children(s) = {}
  BY DEF Tree
<1>2. QED  BY <1>1 DEF Children

\* A node whose children are all calculated has the work of all its steps.
LEMMA WorkComplete ==
    ASSUME Tree, DataTyped, NEW n \in Ids, Told(n) = Children(n),
           WorkGathered, phase = "profile"
    PROVE  t_prof[n].work = WorkOver(t_prof, StepsBelow(n))
<1>1. CASE tgraph_nodes[n].type = STEP
  <2>1. StepsBelow(n) = {n}
    BY <1>1, StepBelowItself
  <2>2. t_prof[n].work \in Int
    BY AtNode DEF ProfilerData
  <2>3. QED  BY <2>1, <2>2, WorkOverOne
<1>2. CASE tgraph_nodes[n].type # STEP
  <2>1. n \in InnerNodes
    BY <1>2 DEF InnerNodes
  <2>2. ASSUME NEW s \in StepsBelow(n)
        PROVE  \E c \in Told(n) : c \in Ancestry(s)
    <3>1. s \in Ids /\ n \in Ancestry(s) /\ s # n
      BY <1>2 DEF StepsBelow, Tree
    <3>2. QED  BY <3>1, ThroughChild
  <2>3. Got(n) = StepsBelow(n)
    BY <2>2 DEF Got
  <2>4. QED  BY <2>1, <2>3 DEF WorkGathered, Gathered
<1>3. QED  BY <1>1, <1>2

LEMMA WorkFlows ==
    ASSUME Tree, DataTyped, UNCHANGED <<tgraph_nodes, before>>, NEW n \in Ids,
           WorkGathered, phase = "profile", phase' = "profile",
           ~Calculated(n), Told(n) = Children(n),
           \A c \in Ids : Calculated(c)' <=> Calculated(c) \/ c = n,
           AddsWork(t_prof, t_prof', DOMAIN tgraph_nodes, Parent(n), t_prof[n].work)
    PROVE  WorkGathered'
<1>1. PICK P, Q, p, w, D : /\ P = t_prof /\ Q = t_prof' /\ p = Parent(n) /\ w = t_prof[n].work
                           /\ D = DOMAIN tgraph_nodes
  OBVIOUS
<1>2. /\ \A x \in D : P[x] \in ProfilerData
      /\ \A x \in D : Q[x].work = P[x].work + IF x = p THEN w ELSE 0
      /\ Ids \subseteq D /\ w \in Nat
  <2>1. P \in [D -> ProfilerData] /\ \A x \in D : Q[x].work = P[x].work + IF x = p THEN w ELSE 0
    BY <1>1 DEF AddsWork
  <2>2. Ids \subseteq D /\ t_prof[n] \in ProfilerData
    BY <1>1, AtNode
  <2>3. QED  BY <1>1, <2>1, <2>2 DEF ProfilerData
<1>3. /\ \A x : Children(x)' = Children(x) /\ Parent(x)' = Parent(x)
      /\ \A x : Ancestry(x)' = Ancestry(x) /\ StepsBelow(x)' = StepsBelow(x)
      /\ InnerNodes' = InnerNodes /\ InnerNodes \subseteq Ids
  BY SameTree DEF InnerNodes
<1>4. ASSUME NEW A \in SUBSET DOMAIN before
      PROVE  WorkOver(Q, A) = WorkOver(P, A)
  <2>1. ASSUME NEW s \in A
        PROVE  Q[s].work = P[s].work
    <3>1. s \in Ids /\ s # p
      BY <1>1, ParentIsNoStep DEF Tree
    <3>2. s \in D /\ Q[s].work = P[s].work + 0
      BY <1>2, <3>1
    <3>3. P[s].work \in Nat
      BY <1>2, <3>2 DEF ProfilerData
    <3>4. QED  BY <3>2, <3>3
  <2>2. QED  BY <2>1, WorkOverSame
<1>5. \A x, c : c \in Told(x)' <=> c \in Told(x) \/ (c = n /\ x = p)
  BY <1>1, <1>3 DEF Told, Children
<1>6. \A x : Got(x) \in SUBSET DOMAIN before /\ StepsBelow(x) \in SUBSET DOMAIN before
  BY DEF Got, StepsBelow
<1>7. ASSUME NEW x \in InnerNodes
      PROVE  Q[x].work = WorkOver(Q, Got(x)')
  <2>1. P[x].work = WorkOver(P, Got(x)) /\ P[x].work \in Nat
    BY <1>1, <1>2, <1>3 DEF WorkGathered, Gathered, ProfilerData
  <2>2. CASE x # p
    <3>1. Got(x)' = Got(x)
      BY <1>3, <1>5, <2>2 DEF Got
    <3>2. Q[x].work = P[x].work
      <4>1. Q[x].work = P[x].work + 0
        BY <1>2, <1>3, <2>2
      <4>2. QED  BY <2>1, <4>1
    <3>3. WorkOver(Q, Got(x)) = WorkOver(P, Got(x))
      BY <1>4, <1>6
    <3>4. QED  BY <2>1, <3>1, <3>2, <3>3
  <2>3. CASE x = p
    <3>1. PICK a, b, all : a = Got(x) /\ b = StepsBelow(n) /\ all = Got(x)'
      OBVIOUS
    <3>2. n \in Children(x) /\ n \notin Told(x) /\ x # 0
      <4>1. 0 \notin Ids
        BY TreeIds
      <4>2. QED  BY <1>1, <1>3, <2>3, <4>1 DEF Children, Told
    <3>3. ASSUME NEW s
          PROVE  s \in all <=> s \in a \/ s \in b
      <4>1. ASSUME s \in b
            PROVE  s \in StepsBelow(x) /\ n \in Ancestry(s)
        <5>1. s \in Ids /\ n \in Ancestry(s) /\ s \in DOMAIN before
          BY <3>1, <4>1 DEF StepsBelow, Tree
        <5>2. x \in Ancestry(s)
          BY <1>1, <2>3, <3>2, <5>1, AboveGoesUp
        <5>3. QED  BY <5>1, <5>2 DEF StepsBelow
      <4>2. s \in all <=> s \in StepsBelow(x) /\ \E c \in Told(x)' : c \in Ancestry(s)
        BY <1>3, <3>1 DEF Got
      <4>3. s \in all <=> s \in StepsBelow(x)
                          /\ ((\E c \in Told(x) : c \in Ancestry(s)) \/ n \in Ancestry(s))
        BY <1>5, <2>3, <4>2
      <4>4. s \in a <=> s \in StepsBelow(x) /\ \E c \in Told(x) : c \in Ancestry(s)
        BY <3>1 DEF Got
      <4>5. s \in StepsBelow(x) /\ n \in Ancestry(s) => s \in b
        BY <3>1 DEF StepsBelow
      <4>6. QED  BY <4>1, <4>3, <4>4, <4>5
    <3>4. ASSUME NEW s \in a, s \in b
          PROVE  FALSE
      <4>1. s \in Ids /\ n \in Ancestry(s)
        BY <3>1, <3>4 DEF StepsBelow, Tree
      <4>2. PICK c \in Told(x) : c \in Ancestry(s)
        BY <3>1 DEF Got
      <4>3. c \in Children(x) /\ x \in Ids
        BY <1>3, <4>2 DEF Told
      <4>4. c = n
        BY <3>2, <4>1, <4>2, <4>3, ThroughOneChild
      <4>5. QED  BY <3>2, <4>2, <4>4
    <3>5. Splits(all, a, b)
      <4>1. all = a \cup b
        BY <3>3
      <4>2. a \cap b = {}
        BY <3>4
      <4>3. QED  BY <4>1, <4>2 DEF Splits
    <3>6. PICK S : S = DOMAIN before
      OBVIOUS
    <3>7. /\ IsFiniteSet(S) /\ a \in SUBSET S /\ b \in SUBSET S /\ all \in SUBSET S
          /\ \A s \in S : P[s].work \in Int
      <4>1. IsFiniteSet(S) /\ S \subseteq Ids
        BY <3>6, StepsBelowTyped
      <4>2. a \in SUBSET S /\ b \in SUBSET S
        BY <1>6, <3>1, <3>6
      <4>3. all \in SUBSET S
        BY <4>2, <3>3
      <4>4. QED  BY <1>2, <4>1, <4>2, <4>3 DEF ProfilerData
    <3>8. /\ WorkOver(P, all) = WorkOver(P, a) + WorkOver(P, b)
      BY <3>5, <3>7, WorkOverTwo
    <3>9. WorkOver(P, a) = P[x].work /\ WorkOver(P, b) = w
      BY <1>1, <2>1, <3>1, WorkComplete
    <3>10. Q[x].work = P[x].work + w
      BY <1>2, <1>3, <2>3
    <3>11. WorkOver(Q, all) = WorkOver(P, all)
      BY <1>4, <3>6, <3>7
    <3>12. QED  BY <3>1, <3>8, <3>9, <3>10, <3>11
  <2>4. QED  BY <2>2, <2>3
<1>8. QED  BY <1>1, <1>3, <1>7 DEF WorkGathered, Gathered

\* When every child of every node is calculated, nothing is left to gather.
LEMMA AllGathered ==
    ASSUME Tree, DataTyped, WorkGathered, phase \in {"profile", "region", "done"},
           \A n \in Ids : Told(n) = Children(n)
    PROVE  \A n \in InnerNodes : t_prof[n].work = WorkOver(t_prof, StepsBelow(n))
<1>1. InnerNodes \subseteq Ids
  BY DEF InnerNodes
<1>2. CASE phase = "profile"
  BY <1>1, <1>2, WorkComplete
<1>3. CASE phase # "profile"
  BY <1>3 DEF WorkGathered, Gathered
<1>4. QED  BY <1>2, <1>3

(******************************************************************************)
(* The counting of the finished children                                      *)
(******************************************************************************)

LEMMA ChildrenTyped ==
    ASSUME Tree, NEW n \in Ids
    PROVE  /\ IsFiniteSet(Children(n)) /\ Cardinality(Children(n)) \in Nat
           /\ tgraph_nodes[n].num_children = Cardinality(Children(n))
           /\ \A T \in SUBSET Children(n) :
                 /\ IsFiniteSet(T) /\ Cardinality(T) \in Nat
                 /\ Cardinality(T) <= Cardinality(Children(n))
                 /\ Cardinality(T) = Cardinality(Children(n)) => T = Children(n)
           /\ Told(n) \in SUBSET Children(n)
<1>1. PICK m \in Nat : Ids = 1 .. m
  BY TreeIds
<1>2. IsFiniteSet(Ids) /\ Children(n) \in SUBSET Ids
  <2>1. IsFiniteSet(1 .. m)
    BY FS_Interval
  <2>2. QED  BY <1>1, <2>1 DEF Children
<1>3. IsFiniteSet(Children(n))
  BY <1>2, FS_Subset
<1>4. ASSUME NEW T \in SUBSET Children(n)
      PROVE  /\ IsFiniteSet(T) /\ Cardinality(T) \in Nat
             /\ Cardinality(T) <= Cardinality(Children(n))
             /\ Cardinality(T) = Cardinality(Children(n)) => T = Children(n)
  <2>1. /\ IsFiniteSet(T) /\ Cardinality(T) <= Cardinality(Children(n))
        /\ Cardinality(T) = Cardinality(Children(n)) => T = Children(n)
    BY <1>3, FS_Subset
  <2>2. QED  BY <2>1, FS_CardinalityType
<1>5. QED  BY <1>3, <1>4, FS_CardinalityType DEF Tree, Told

\* The count of a node whose child n is calculated now.
LEMMA ToldGrows ==
    ASSUME Tree, UNCHANGED <<tgraph_nodes, before>>, NEW n \in Ids, ~Calculated(n),
           \A c \in Ids : Calculated(c)' <=> Calculated(c) \/ c = n, NEW p \in Ids
    PROVE  /\ p = Parent(n) => Cardinality(Told(p)') = Cardinality(Told(p)) + 1
           /\ p # Parent(n) => Told(p)' = Told(p)
<1>1. Children(p)' = Children(p) /\ Children(p) \subseteq Ids
  BY SameTree DEF Children
<1>2. CASE p = Parent(n)
  <2>1. n \in Children(p)
    BY <1>2 DEF Children
  <2>2. Told(p)' = Told(p) \cup {n} /\ n \notin Told(p)
    BY <1>1, <2>1 DEF Told
  <2>3. IsFiniteSet(Told(p))
    BY ChildrenTyped
  <2>4. Cardinality(Told(p) \cup {n}) = Cardinality(Told(p)) + 1
    BY <2>2, <2>3, FS_AddElement
  <2>5. QED  BY <1>2, <2>2, <2>4
<1>3. CASE p # Parent(n)
  <2>1. n \notin Children(p)
    BY <1>3 DEF Children
  <2>2. Told(p)' = Told(p)
    BY <1>1, <2>1 DEF Told
  <2>3. QED  BY <1>3, <2>2
<1>4. QED  BY <1>2, <1>3

LEMMA IndexRange ==
    ASSUME Tree, Counts
    PROVE  \E m \in Nat : /\ Ids = 1 .. m /\ Cardinality(Ids) = m /\ index \in 1 .. m + 1
                          /\ DOMAIN tgraph_nodes = 0 .. m
                          /\ \A n \in 1 .. m : Parent(n) \in 0 .. n - 1
<1>1. PICK m \in Nat : /\ DOMAIN tgraph_nodes = 0 .. m /\ Ids = 1 .. m
                       /\ \A n \in 1 .. m : Parent(n) \in 0 .. n - 1
  BY TreeIds
<1>2. Cardinality(1 .. m) = m
  <2>1. PICK one : one = 1
    OBVIOUS
  <2>2. Cardinality(one .. m) = IF one > m THEN 0 ELSE m - one + 1
    BY <2>1, FS_Interval
  <2>3. QED  BY <2>1, <2>2
<1>3. QED  BY <1>1, <1>2 DEF Counts

LEMMA LeafVisited ==
    ASSUME Tree, Counts, UNCHANGED <<tgraph_nodes, before, num_processed>>,
           climb = 0, index \in Ids, tgraph_nodes[index].num_children = num_processed[index],
           climb' = Parent(index), index' = index + 1
    PROVE  /\ Counts' /\ ~Calculated(index) /\ Told(index) = Children(index)
           /\ \A c \in Ids : Calculated(c)' <=> Calculated(c) \/ c = index
<1>1. PICK n : n = index
  OBVIOUS
<1>2. PICK m \in Nat : /\ Ids = 1 .. m /\ Cardinality(Ids) = m /\ n \in 1 .. m
                       /\ DOMAIN tgraph_nodes = 0 .. m
                       /\ \A i \in 1 .. m : Parent(i) \in 0 .. i - 1
  BY <1>1, IndexRange
<1>3. num_processed[n] = 0
  <2>1. num_processed[n] \in Nat /\ ~(num_processed[n] > 0)
    BY <1>1, <1>2 DEF Counts
  <2>2. QED  BY <2>1
<1>4. tgraph_nodes[n].num_children = 0 /\ Children(n) = {} /\ Told(n) = Children(n)
  <2>1. tgraph_nodes[n].num_children = 0
    BY <1>1, <1>3
  <2>2. Cardinality(Children(n)) = 0 /\ IsFiniteSet(Children(n)) /\ n \in Ids
    BY <1>1, <2>1, ChildrenTyped
  <2>3. Children(n) = {}
    BY <2>2, FS_EmptySet
  <2>4. QED  BY <2>1, <2>3 DEF Told
<1>5. ~Calculated(n)
  BY <1>1, <1>2, <1>4 DEF Calculated
<1>6. ASSUME NEW c \in Ids
      PROVE  Calculated(c)' <=> Calculated(c) \/ c = n
  <2>1. CASE tgraph_nodes[c].num_children = 0
    <3>1. (Calculated(c)' <=> c < index + 1) /\ (Calculated(c) <=> c < index)
      BY <2>1 DEF Calculated
    <3>2. QED  BY <1>1, <1>2, <3>1
  <2>2. CASE tgraph_nodes[c].num_children # 0
    BY <1>4, <2>2 DEF Calculated
  <2>3. QED  BY <2>1, <2>2
<1>7. Counts'
  <2>1. PICK k : k = Parent(n)
    OBVIOUS
  <2>2. climb' = k /\ index' = n + 1 /\ k \in 0 .. n - 1 /\ Ids' = Ids
    BY <1>1, <1>2, <2>1, SameTree
  <2>3. ASSUME NEW p \in Ids
        PROVE  num_processed[p] + (IF k = p THEN 1 ELSE 0) = Cardinality(Told(p)')
    <3>1. num_processed[p] + 0 = Cardinality(Told(p)) /\ num_processed[p] \in Nat
      <4>1. climb # p
        BY <1>2
      <4>2. QED  BY <1>2, <4>1 DEF Counts
    <3>2. CASE k = p
      <4>1. Cardinality(Told(p)') = Cardinality(Told(p)) + 1
        BY <1>2, <1>5, <1>6, <2>1, <3>2, ToldGrows
      <4>2. QED  BY <3>1, <3>2, <4>1
    <3>3. CASE k # p
      <4>1. Told(p)' = Told(p)
        BY <1>2, <1>5, <1>6, <2>1, <3>3, ToldGrows
      <4>2. QED  BY <3>1, <3>3, <4>1
    <3>4. QED  BY <3>2, <3>3
  <2>4. ASSUME NEW p \in Ids, num_processed[p] > 0
        PROVE  p < n + 1
    <3>1. p < n
      BY <1>1, <2>4 DEF Counts
    <3>2. QED  BY <1>2, <3>1
  <2>5. k \in Ids \cup {0} /\ k < n + 1 /\ n + 1 \in 1 .. Cardinality(Ids) + 1
    BY <1>2, <2>2
  <2>6. num_processed \in [DOMAIN tgraph_nodes -> Nat]
    BY DEF Counts
  <2>7. QED  BY <2>2, <2>3, <2>4, <2>5, <2>6 DEF Counts
<1>8. QED  BY <1>1, <1>4, <1>5, <1>6, <1>7

LEMMA InnerVisited ==
    ASSUME Tree, Counts, UNCHANGED <<tgraph_nodes, before, num_processed, climb>>,
           climb = 0, index \in Ids, tgraph_nodes[index].num_children # num_processed[index],
           index' = index + 1
    PROVE  Counts' /\ \A c \in Ids : Calculated(c)' <=> Calculated(c)
<1>1. PICK n : n = index
  OBVIOUS
<1>2. PICK m \in Nat : Ids = 1 .. m /\ Cardinality(Ids) = m /\ n \in 1 .. m
                       /\ DOMAIN tgraph_nodes = 0 .. m
  BY <1>1, IndexRange
<1>3. tgraph_nodes[n].num_children # 0
  <2>1. num_processed[n] \in Nat /\ ~(num_processed[n] > 0)
    BY <1>1, <1>2 DEF Counts
  <2>2. QED  BY <1>1, <2>1
<1>4. ASSUME NEW c \in Ids
      PROVE  Calculated(c)' <=> Calculated(c)
  <2>1. CASE tgraph_nodes[c].num_children = 0
    <3>1. (Calculated(c)' <=> c < index + 1) /\ (Calculated(c) <=> c < index)
      BY <2>1 DEF Calculated
    <3>2. QED  BY <1>1, <1>2, <1>3, <2>1, <3>1
  <2>2. CASE tgraph_nodes[c].num_children # 0
    BY <2>2 DEF Calculated
  <2>3. QED  BY <2>1, <2>2
<1>5. \A p \in Ids : Told(p)' = Told(p)
  BY <1>4, SameTree DEF Told, Children
<1>6. Counts'
  <2>1. climb' = 0 /\ index' = n + 1 /\ Ids' = Ids
    BY <1>1, SameTree
  <2>2. ASSUME NEW p \in Ids
        PROVE  num_processed[p] + (IF climb = p THEN 1 ELSE 0) = Cardinality(Told(p)')
    BY <1>5 DEF Counts
  <2>3. ASSUME NEW p \in Ids, num_processed[p] > 0
        PROVE  p < n + 1
    <3>1. p < n
      BY <1>1, <2>3 DEF Counts
    <3>2. QED  BY <1>2, <3>1
  <2>4. 0 < n + 1 /\ n + 1 \in 1 .. Cardinality(Ids) + 1
    BY <1>2
  <2>5. num_processed \in [DOMAIN tgraph_nodes -> Nat]
    BY DEF Counts
  <2>6. QED  BY <2>1, <2>2, <2>3, <2>4, <2>5 DEF Counts
<1>7. QED  BY <1>4, <1>6

LEMMA IdsAreNodes ==
    ASSUME Tree
    PROVE  Ids \subseteq DOMAIN tgraph_nodes
<1>1. PICK m \in Nat : DOMAIN tgraph_nodes = 0 .. m /\ Ids = 1 .. m
  BY TreeIds
<1>2. QED  BY <1>1

\* The count at node k = climb; full is whether this was its last child.
LEMMA CountsUp ==
    ASSUME Tree, Counts, NEW k \in Ids, climb = k,
           num_processed' = [num_processed EXCEPT ![k] = @ + 1]
    PROVE  /\ num_processed[k] \in Nat /\ num_processed'[k] = num_processed[k] + 1
           /\ num_processed'[k] = Cardinality(Told(k))
           /\ tgraph_nodes[k].num_children \in Nat
           /\ num_processed'[k] <= tgraph_nodes[k].num_children
           /\ ~Calculated(k) /\ k < index
           /\ num_processed'[k] = tgraph_nodes[k].num_children => Told(k) = Children(k)
           /\ \A p \in Ids \ {k} : num_processed'[p] = num_processed[p]
           /\ num_processed' \in [DOMAIN tgraph_nodes -> Nat]
<1>1. PICK m \in Nat : Ids = 1 .. m /\ DOMAIN tgraph_nodes = 0 .. m
  BY IndexRange
<1>2. num_processed \in [DOMAIN tgraph_nodes -> Nat] /\ k \in DOMAIN tgraph_nodes
  BY <1>1 DEF Counts
<1>3. PICK c \in Nat : c = num_processed[k]
  BY <1>2
<1>4. num_processed'[k] = c + 1 /\ \A p \in Ids \ {k} : num_processed'[p] = num_processed[p]
  BY <1>1, <1>2, <1>3
<1>5. num_processed' \in [DOMAIN tgraph_nodes -> Nat]
  <2>1. num_processed' = [num_processed EXCEPT ![k] = c + 1] /\ c + 1 \in Nat
    BY <1>2, <1>3
  <2>2. QED  BY <1>2, <2>1
<1>6. c + 1 = Cardinality(Told(k)) /\ k < index
  BY <1>3 DEF Counts
<1>7. PICK t, all \in Nat : t = Cardinality(Told(k)) /\ all = tgraph_nodes[k].num_children
  <2>1. Cardinality(Told(k)) \in Nat /\ tgraph_nodes[k].num_children \in Nat
    BY ChildrenTyped
  <2>2. QED  BY <2>1
<1>8. t <= all /\ (t = all => Told(k) = Children(k))
  BY <1>7, ChildrenTyped
<1>9. ~Calculated(k)
  BY <1>3, <1>6, <1>7, <1>8 DEF Calculated
<1>10. QED  BY <1>3, <1>4, <1>5, <1>6, <1>7, <1>8, <1>9

LEMMA LastChildCounted ==
    ASSUME Tree, Counts, UNCHANGED <<tgraph_nodes, before, index>>, NEW k \in Ids, climb = k,
           num_processed' = [num_processed EXCEPT ![k] = @ + 1],
           tgraph_nodes[k].num_children = num_processed'[k], climb' = Parent(k)
    PROVE  /\ Counts' /\ ~Calculated(k) /\ Told(k) = Children(k)
           /\ \A c \in Ids : Calculated(c)' <=> Calculated(c) \/ c = k
<1>1. PICK m \in Nat : /\ Ids = 1 .. m /\ Cardinality(Ids) = m /\ k \in 1 .. m
                       /\ index \in 1 .. m + 1
                       /\ \A i \in 1 .. m : Parent(i) \in 0 .. i - 1
  BY IndexRange
<1>2. /\ num_processed[k] \in Nat /\ num_processed'[k] = num_processed[k] + 1
      /\ num_processed'[k] = Cardinality(Told(k))
      /\ ~Calculated(k) /\ k < index /\ Told(k) = Children(k)
      /\ \A p \in Ids \ {k} : num_processed'[p] = num_processed[p]
      /\ num_processed' \in [DOMAIN tgraph_nodes -> Nat]
  BY CountsUp
<1>3. ASSUME NEW c \in Ids
      PROVE  Calculated(c)' <=> Calculated(c) \/ c = k
  <2>1. CASE c = k
    <3>1. tgraph_nodes[k].num_children # 0
      BY <1>2
    <3>2. QED  BY <2>1, <3>1 DEF Calculated
  <2>2. CASE c # k
    BY <1>2, <2>2 DEF Calculated
  <2>3. QED  BY <2>1, <2>2
<1>4. PICK j : j = Parent(k)
  OBVIOUS
<1>5. j \in 0 .. k - 1 /\ climb' = j /\ Ids' = Ids
  BY <1>1, <1>4, SameTree
<1>6. ASSUME NEW p \in Ids
      PROVE  num_processed'[p] + (IF j = p THEN 1 ELSE 0) = Cardinality(Told(p)')
  <2>1. CASE p = k
    <3>1. Told(p)' = Told(p)
      BY <1>1, <1>2, <1>3, <1>4, <1>5, <2>1, ToldGrows
    <3>2. j # p /\ num_processed'[p] + 0 = Cardinality(Told(p))
      BY <1>1, <1>2, <1>5, <2>1
    <3>3. QED  BY <3>1, <3>2
  <2>2. CASE p # k
    <3>1. num_processed'[p] = num_processed[p] /\ num_processed[p] \in Nat
      <4>1. p \in DOMAIN tgraph_nodes /\ num_processed \in [DOMAIN tgraph_nodes -> Nat]
        BY IdsAreNodes DEF Counts
      <4>2. QED  BY <1>2, <2>2, <4>1
    <3>2. num_processed[p] + 0 = Cardinality(Told(p))
      BY <2>2 DEF Counts
    <3>3. CASE j = p
      <4>1. Cardinality(Told(p)') = Cardinality(Told(p)) + 1
        BY <1>2, <1>3, <1>4, <3>3, ToldGrows
      <4>2. QED  BY <3>1, <3>2, <3>3, <4>1
    <3>4. CASE j # p
      <4>1. Told(p)' = Told(p)
        BY <1>2, <1>3, <1>4, <3>4, ToldGrows
      <4>2. QED  BY <3>1, <3>2, <3>4, <4>1
    <3>5. QED  BY <3>3, <3>4
  <2>3. QED  BY <2>1, <2>2
<1>7. ASSUME NEW p \in Ids, num_processed'[p] > 0
      PROVE  p < index
  <2>1. CASE p = k
    BY <1>2, <2>1
  <2>2. CASE p # k
    BY <1>2, <1>7, <2>2 DEF Counts
  <2>3. QED  BY <2>1, <2>2
<1>8. j \in Ids \cup {0} /\ j < index /\ index \in 1 .. Cardinality(Ids) + 1
  BY <1>1, <1>2, <1>5
<1>9. Counts'
  BY <1>2, <1>5, <1>6, <1>7, <1>8 DEF Counts
<1>10. QED  BY <1>2, <1>3, <1>9

LEMMA ChildCounted ==
    ASSUME Tree, Counts, UNCHANGED <<tgraph_nodes, before, index>>, NEW k \in Ids, climb = k,
           num_processed' = [num_processed EXCEPT ![k] = @ + 1],
           tgraph_nodes[k].num_children # num_processed'[k], climb' = 0
    PROVE  Counts' /\ \A c \in Ids : Calculated(c)' <=> Calculated(c)
<1>1. PICK m \in Nat : /\ Ids = 1 .. m /\ Cardinality(Ids) = m /\ k \in 1 .. m
                       /\ index \in 1 .. m + 1
  BY IndexRange
<1>2. /\ num_processed[k] \in Nat /\ num_processed'[k] = num_processed[k] + 1
      /\ num_processed'[k] = Cardinality(Told(k))
      /\ ~Calculated(k) /\ k < index
      /\ tgraph_nodes[k].num_children \in Nat
      /\ num_processed'[k] <= tgraph_nodes[k].num_children
      /\ \A p \in Ids \ {k} : num_processed'[p] = num_processed[p]
      /\ num_processed' \in [DOMAIN tgraph_nodes -> Nat]
  BY CountsUp
<1>3. ASSUME NEW c \in Ids
      PROVE  Calculated(c)' <=> Calculated(c)
  <2>1. CASE c = k
    <3>1. tgraph_nodes[k].num_children # 0
      BY <1>2
    <3>2. QED  BY <1>2, <2>1, <3>1 DEF Calculated
  <2>2. CASE c # k
    BY <1>2, <2>2 DEF Calculated
  <2>3. QED  BY <2>1, <2>2
<1>4. \A p \in Ids : Told(p)' = Told(p)
  BY <1>3, SameTree DEF Told, Children
<1>5. ASSUME NEW p \in Ids
      PROVE  num_processed'[p] + (IF climb' = p THEN 1 ELSE 0) = Cardinality(Told(p)')
  <2>1. climb' # p
    BY <1>1
  <2>2. CASE p = k
    <3>1. num_processed'[p] + 0 = Cardinality(Told(p))
      BY <1>2, <2>2
    <3>2. QED  BY <1>4, <2>1, <3>1
  <2>3. CASE p # k
    <3>1. num_processed[p] + 0 = Cardinality(Told(p)) /\ num_processed'[p] = num_processed[p]
      BY <1>2, <2>3 DEF Counts
    <3>2. QED  BY <1>4, <2>1, <3>1
  <2>4. QED  BY <2>2, <2>3
<1>6. ASSUME NEW p \in Ids, num_processed'[p] > 0
      PROVE  p < index
  <2>1. CASE p = k
    BY <1>2, <2>1
  <2>2. CASE p # k
    BY <1>2, <1>6, <2>2 DEF Counts
  <2>3. QED  BY <2>1, <2>2
<1>7. /\ climb' \in Ids \cup {0} /\ climb' < index /\ index \in 1 .. Cardinality(Ids) + 1
      /\ Ids' = Ids
  BY <1>1, SameTree
<1>8. Counts'
  BY <1>2, <1>5, <1>6, <1>7 DEF Counts
<1>9. QED  BY <1>3, <1>8

\* A pass that begins has everything before it.
LEMMA CountsAnew ==
    ASSUME Tree, Counts, UNCHANGED <<tgraph_nodes, before>>, climb' = 0, index' = 1,
           num_processed' = [i \in DOMAIN num_processed |-> 0]
    PROVE  Counts'
<1>1. PICK m \in Nat : Ids = 1 .. m /\ Cardinality(Ids) = m /\ DOMAIN tgraph_nodes = 0 .. m
  BY IndexRange
<1>2. /\ num_processed' \in [DOMAIN tgraph_nodes -> Nat]
      /\ \A p \in Ids : num_processed'[p] = 0
  <2>1. DOMAIN num_processed = DOMAIN tgraph_nodes
    BY DEF Counts
  <2>2. QED  BY <1>1, <2>1
<1>3. ASSUME NEW p \in Ids
      PROVE  Told(p)' = {}
  <2>1. ASSUME NEW c \in Ids
        PROVE  ~Calculated(c)'
    <3>1. c \in 1 .. m /\ num_processed'[c] = 0
      BY <1>1, <1>2
    <3>2. CASE tgraph_nodes[c].num_children = 0
      BY <3>1, <3>2 DEF Calculated
    <3>3. CASE tgraph_nodes[c].num_children # 0
      BY <3>1, <3>3 DEF Calculated
    <3>4. QED  BY <3>2, <3>3
  <2>2. QED  BY <2>1, SameTree DEF Told, Children
<1>4. ASSUME NEW p \in Ids
      PROVE  num_processed'[p] + (IF climb' = p THEN 1 ELSE 0) = Cardinality(Told(p)')
  <2>1. climb' # p
    BY <1>1
  <2>2. Cardinality({}) = 0
    BY FS_EmptySet
  <2>3. QED  BY <1>2, <1>3, <2>1, <2>2
<1>5. /\ climb' \in Ids \cup {0} /\ climb' < index' /\ index' \in 1 .. Cardinality(Ids) + 1
      /\ Ids' = Ids
  BY <1>1, SameTree
<1>6. QED  BY <1>2, <1>4, <1>5 DEF Counts

\* When the loop is through, every node has been calculated.
LEMMA AllCalculated ==
    ASSUME Tree, Counts, PassEnds
    PROVE  \A n \in Ids : Told(n) = Children(n)
<1>1. PICK m \in Nat : /\ Ids = 1 .. m /\ index = m + 1 /\ climb = 0
                       /\ \A n \in 1 .. m : Parent(n) \in 0 .. n - 1
  <2>1. PICK m \in Nat : /\ Ids = 1 .. m /\ index \in 1 .. m + 1
                         /\ \A n \in 1 .. m : Parent(n) \in 0 .. n - 1
    BY IndexRange
  <2>2. index = m + 1 /\ climb = 0
    BY <2>1 DEF PassEnds
  <2>3. QED  BY <2>1, <2>2
<1> DEFINE U == {k \in Nat : \A n \in 1 .. m : n + k > m => Calculated(n)}
<1>2. 0 \in U
  OBVIOUS
<1>3. ASSUME NEW k \in U
      PROVE  k + 1 \in U
  <2>1. k \in Nat /\ \A n \in 1 .. m : n + k > m => Calculated(n)
    OBVIOUS
  <2> HIDE DEF U
  <2>2. ASSUME NEW n \in 1 .. m, n + k = m
        PROVE  Calculated(n)
    <3>1. \A c \in Children(n) : c \in 1 .. m /\ n < c
      BY <1>1 DEF Children
    <3>2. Told(n) = Children(n)
      BY <2>1, <2>2, <3>1 DEF Told
    <3>3. /\ tgraph_nodes[n].num_children = Cardinality(Told(n))
          /\ num_processed[n] \in Nat
          /\ num_processed[n] + 0 = Cardinality(Told(n))
      <4>1. n \in Ids /\ climb # n /\ n \in DOMAIN tgraph_nodes
        BY <1>1, IdsAreNodes
      <4>2. QED  BY <3>2, <4>1, ChildrenTyped DEF Counts
    <3>4. num_processed[n] = tgraph_nodes[n].num_children
      BY <3>3
    <3>5. QED  BY <1>1, <3>4 DEF Calculated
  <2>3. \A n \in 1 .. m : n + (k + 1) > m => n + k > m \/ n + k = m
    BY <2>1
  <2>4. QED  BY <2>1, <2>2, <2>3 DEF U
<1> HIDE DEF U
<1>4. U = Nat
  <2>1. U \in SUBSET Nat
    BY DEF U
  <2>2. QED  BY <1>2, <1>3, <2>1, AllNaturals
<1>5. \A n \in 1 .. m : Calculated(n)
  <2>1. m \in U
    BY <1>4
  <2>2. \A n \in 1 .. m : n + m > m
    OBVIOUS
  <2>3. QED  BY <2>1, <2>2 DEF U
<1>6. QED  BY <1>1, <1>5 DEF Told, Children

(******************************************************************************)
(* The what-if passes                                                         *)
(******************************************************************************)

\* f is Increase up to line k.
IsIncrease(f, k) ==
    f = [i \in 0 .. k |-> IF i = 0 THEN PAR_INC_INIT ELSE f[i - 1] * PAR_INC_FACTOR]

LEMMA Products ==
    ASSUME NEW a \in Nat \ {0}, NEW b \in Nat \ {0}
    PROVE  a * b \in Nat \ {0}
  OBVIOUS

LEMMA IncreaseExists ==
    ASSUME WorkSpanAssumption, NEW k \in Nat
    PROVE  \E f \in [0 .. k -> Nat \ {0}] : IsIncrease(f, k)
<1> DEFINE T == {n \in Nat : \E f \in [0 .. n -> Nat \ {0}] : IsIncrease(f, n)}
<1>0. PAR_INC_INIT \in Nat \ {0} /\ PAR_INC_FACTOR \in Nat \ {0}
  BY DEF WorkSpanAssumption
<1>1. 0 \in T
  <2> DEFINE f == [i \in 0 .. 0 |-> PAR_INC_INIT]
  <2>1. f = [i \in 0 .. 0 |-> IF i = 0 THEN PAR_INC_INIT ELSE f[i - 1] * PAR_INC_FACTOR]
    OBVIOUS
  <2>2. IsIncrease(f, 0) /\ f \in [0 .. 0 -> Nat \ {0}]
    BY <1>0, <2>1 DEF IsIncrease
  <2> HIDE DEF f
  <2>3. QED  BY <2>2
<1>2. ASSUME NEW n \in T
      PROVE  n + 1 \in T
  <2>1. n \in Nat /\ \E f \in [0 .. n -> Nat \ {0}] : IsIncrease(f, n)
    OBVIOUS
  <2> HIDE DEF T
  <2>2. PICK f \in [0 .. n -> Nat \ {0}] : IsIncrease(f, n)
    BY <2>1
  <2>3. \A i \in 0 .. n : f[i] = IF i = 0 THEN PAR_INC_INIT ELSE f[i - 1] * PAR_INC_FACTOR
    BY <2>2 DEF IsIncrease
  <2>4. PICK next : next = f[n] * PAR_INC_FACTOR
    OBVIOUS
  <2>5. next \in Nat \ {0}
    <3>1. f[n] \in Nat \ {0}
      BY <2>1, <2>2
    <3>2. \A a, b \in Nat \ {0} : a * b \in Nat \ {0}
      BY Products
    <3>3. QED  BY <1>0, <2>4, <3>1, <3>2
  <2> DEFINE h == [i \in 0 .. n + 1 |-> IF i = n + 1 THEN next ELSE f[i]]
  <2>6. /\ \A i \in 0 .. n : i \in 0 .. n + 1 /\ i # n + 1
        /\ \A i \in 0 .. n + 1 : i = n + 1 \/ i \in 0 .. n
        /\ \A i \in 0 .. n : i # 0 => i - 1 \in 0 .. n
        /\ n + 1 # 0 /\ (n + 1) - 1 = n /\ n \in 0 .. n
    BY <2>1
  <2>7. (\A i \in 0 .. n : h[i] = f[i]) /\ h[n + 1] = next
    BY <2>1, <2>6
  <2>8. h \in [0 .. n + 1 -> Nat \ {0}]
    BY <2>2, <2>5, <2>6
  <2>9. h = [i \in 0 .. n + 1 |-> h[i]]
    OBVIOUS
  <2> HIDE DEF h
  <2>10. \A i \in 0 .. n + 1 : h[i] = IF i = 0 THEN PAR_INC_INIT ELSE h[i - 1] * PAR_INC_FACTOR
    BY <2>3, <2>4, <2>6, <2>7
  <2>11. IsIncrease(h, n + 1)
    BY <2>9, <2>10 DEF IsIncrease
  <2>12. n + 1 \in Nat
    BY <2>1
  <2>13. QED  BY <2>8, <2>11, <2>12 DEF T
<1> HIDE DEF T
<1>3. T = Nat
  <2>1. T \in SUBSET Nat
    BY DEF T
  <2>2. QED  BY <1>1, <1>2, <2>1, AllNaturals
<1>4. QED  BY <1>3 DEF T

LEMMA IncreaseTyped ==
    ASSUME WorkSpanAssumption
    PROVE  \A i \in 0 .. PAR_INC_COUNT - 1 : Increase[i] \in Nat \ {0}
<1> DEFINE F(f) == f = [i \in 0 .. PAR_INC_COUNT - 1 |->
                          IF i = 0 THEN PAR_INC_INIT ELSE f[i - 1] * PAR_INC_FACTOR]
<1>1. PICK k \in Nat : k = PAR_INC_COUNT - 1
  BY DEF WorkSpanAssumption
<1>2. PICK f \in [0 .. k -> Nat \ {0}] : IsIncrease(f, k)
  BY IncreaseExists
<1>3. F(f)
  BY <1>1, <1>2 DEF IsIncrease
<1>4. Increase = CHOOSE g : F(g)
  BY DEF Increase
<1>5. PICK g : g = Increase
  OBVIOUS
<1>6. F(g)
  <2> HIDE DEF F
  <2>1. QED  BY <1>3, <1>4, <1>5
<1>7. \A i \in 0 .. k : g[i] = IF i = 0 THEN PAR_INC_INIT ELSE g[i - 1] * PAR_INC_FACTOR
  BY <1>1, <1>6
<1>8. \A i \in 0 .. k : f[i] = IF i = 0 THEN PAR_INC_INIT ELSE f[i - 1] * PAR_INC_FACTOR
  BY <1>2 DEF IsIncrease
<1> HIDE DEF F
<1> DEFINE T == {n \in Nat : n <= k => g[n] = f[n]}
<1>9. 0 \in T
  <2>1. 0 \in 0 .. k
    OBVIOUS
  <2>2. g[0] = f[0]
    BY <1>7, <1>8, <2>1
  <2>3. QED  BY <2>2
<1>10. ASSUME NEW n \in T
       PROVE  n + 1 \in T
  <2>1. n \in Nat /\ (n <= k => g[n] = f[n])
    OBVIOUS
  <2>2. ASSUME n + 1 <= k
        PROVE  g[n + 1] = f[n + 1]
    <3>1. n + 1 \in 0 .. k /\ n + 1 # 0 /\ (n + 1) - 1 = n /\ n <= k
      BY <2>1, <2>2
    <3>2. g[n + 1] = g[n] * PAR_INC_FACTOR /\ f[n + 1] = f[n] * PAR_INC_FACTOR
      BY <1>7, <1>8, <3>1
    <3>3. QED  BY <2>1, <3>1, <3>2
  <2>3. QED  BY <2>1, <2>2
<1> HIDE DEF T
<1>11. T = Nat
  <2>1. T \in SUBSET Nat
    BY DEF T
  <2>2. QED  BY <1>9, <1>10, <2>1, AllNaturals
<1>12. ASSUME NEW i \in 0 .. k
       PROVE  g[i] \in Nat \ {0}
  <2>1. i \in T /\ i <= k
    BY <1>11
  <2>2. g[i] = f[i]
    BY <2>1 DEF T
  <2>3. QED  BY <1>2, <2>2
<1>13. QED  BY <1>1, <1>5, <1>12

LEMMA RoundsTyped ==
    ASSUME WorkSpanAssumption, NEW R \in SUBSET Regions
    PROVE  Rounds(R) \in Seq(APass)
<1>1. PICK c \in Nat : c = PAR_INC_COUNT
  BY DEF WorkSpanAssumption
<1>2. \A i \in 1 .. c : Increase[i - 1] \in Nat \ {0}
  <2>1. \A i \in 1 .. c : i - 1 \in 0 .. c - 1
    OBVIOUS
  <2>2. QED  BY <1>1, <2>1, IncreaseTyped
<1>3. [i \in 1 .. c |-> [regions |-> R, par_increase |-> Increase[i - 1]]] \in [1 .. c -> APass]
  BY <1>2 DEF APass
<1>4. Rounds(R) \in [1 .. c -> APass]
  BY <1>1, <1>3 DEF Rounds
<1>5. QED  BY <1>4

LEMMA FlattenTyped ==
    ASSUME NEW S, NEW seqs \in Seq(Seq(S))
    PROVE  FlattenSeq(seqs) \in Seq(S)
<1>1. PICK n \in Nat : n = Len(seqs)
  BY LenProperties
<1>2. \A i \in 1 .. n : seqs[i] \in Seq(S)
  BY <1>1, ElementOfSeq
<1> DEFINE F(f, k) == f = [i \in 1 .. k |-> IF i = 1 THEN seqs[i] ELSE f[i - 1] \o seqs[i]]
           T == {k \in Nat : k <= n => \E f \in [1 .. k -> Seq(S)] : F(f, k)}
<1>3. 0 \in T
  <2> DEFINE f == [i \in 1 .. 0 |-> <<>>]
  <2>1. f \in [1 .. 0 -> Seq(S)] /\ F(f, 0)
    OBVIOUS
  <2> HIDE DEF f, F
  <2>2. QED  BY <2>1
<1>4. ASSUME NEW k \in T
      PROVE  k + 1 \in T
  <2>1. k \in Nat /\ (k <= n => \E f \in [1 .. k -> Seq(S)] : F(f, k))
    OBVIOUS
  <2> HIDE DEF T
  <2>2. ASSUME k + 1 <= n
        PROVE  \E f \in [1 .. k + 1 -> Seq(S)] : F(f, k + 1)
    <3>1. PICK f \in [1 .. k -> Seq(S)] : F(f, k)
      <4> HIDE DEF F
      <4>1. k <= n
        BY <2>1, <2>2
      <4>2. QED  BY <2>1, <4>1
    <3>2. \A i \in 1 .. k : f[i] = IF i = 1 THEN seqs[i] ELSE f[i - 1] \o seqs[i]
      BY <3>1
    <3>3. PICK next : next = IF k + 1 = 1 THEN seqs[k + 1] ELSE f[k] \o seqs[k + 1]
      OBVIOUS
    <3>4. next \in Seq(S)
      <4>1. seqs[k + 1] \in Seq(S)
        BY <1>2, <2>1, <2>2
      <4>2. ASSUME k + 1 # 1
            PROVE  f[k] \o seqs[k + 1] \in Seq(S)
        <5>1. f[k] \in Seq(S)
          BY <2>1, <3>1, <4>2
        <5>2. QED  BY <4>1, <5>1, ConcatProperties
      <4>3. QED  BY <3>3, <4>1, <4>2
    <3> DEFINE h == [i \in 1 .. k + 1 |-> IF i = k + 1 THEN next ELSE f[i]]
    <3>5. /\ \A i \in 1 .. k : i \in 1 .. k + 1 /\ i # k + 1
          /\ \A i \in 1 .. k + 1 : i = k + 1 \/ i \in 1 .. k
          /\ \A i \in 1 .. k + 1 : i # 1 => i - 1 \in 1 .. k
          /\ (k + 1) - 1 = k
      BY <2>1
    <3>6. (\A i \in 1 .. k : h[i] = f[i]) /\ h[k + 1] = next
      BY <2>1, <3>5
    <3>7. h \in [1 .. k + 1 -> Seq(S)]
      BY <3>1, <3>4, <3>5
    <3>8. h = [i \in 1 .. k + 1 |-> h[i]]
      OBVIOUS
    <3> HIDE DEF h
    <3>9. ASSUME NEW i \in 1 .. k + 1
          PROVE  h[i] = IF i = 1 THEN seqs[i] ELSE h[i - 1] \o seqs[i]
      <4>1. i # 1 => h[i - 1] = f[i - 1]
        BY <3>5, <3>6
      <4>2. CASE i = k + 1
        BY <3>3, <3>5, <3>6, <4>1, <4>2
      <4>3. CASE i \in 1 .. k
        BY <3>2, <3>6, <4>1, <4>3
      <4>4. QED  BY <3>5, <4>2, <4>3
    <3>10. F(h, k + 1)
      BY <3>8, <3>9
    <3>11. QED  BY <3>7, <3>10
  <2>3. k + 1 \in Nat
    BY <2>1
  <2>4. QED  BY <2>2, <2>3 DEF T
<1> HIDE DEF T
<1>5. T = Nat
  <2>1. T \in SUBSET Nat
    BY DEF T
  <2>2. QED  BY <1>3, <1>4, <2>1, AllNaturals
<1>6. PICK f \in [1 .. n -> Seq(S)] : F(f, n)
  <2> HIDE DEF F
  <2>1. n \in T /\ n <= n
    BY <1>5
  <2>2. QED  BY <2>1 DEF T
<1>7. CASE n = 0
  <2>1. seqs = <<>>
    BY <1>1, <1>7, EmptySeq
  <2>2. FlattenSeq(seqs) = <<>>
    BY <1>1, <1>7, <2>1 DEF FlattenSeq
  <2>3. QED  BY <2>2, EmptySeq
<1>8. CASE n # 0
  <2>1. PICK g : g = CHOOSE h : F(h, n)
    OBVIOUS
  <2>2. F(g, n)
    <3> HIDE DEF F
    <3>1. QED  BY <1>6, <2>1
  <2>3. FlattenSeq(seqs) = g[n]
    BY <1>1, <1>8, <2>1 DEF FlattenSeq
  <2>4. \A i \in 1 .. n : g[i] = IF i = 1 THEN seqs[i] ELSE g[i - 1] \o seqs[i]
    BY <2>2
  <2> HIDE DEF F
  <2> DEFINE U == {k \in Nat : \A i \in 1 .. k : i <= n => g[i] \in Seq(S)}
  <2>5. 0 \in U
    OBVIOUS
  <2>6. ASSUME NEW k \in U
        PROVE  k + 1 \in U
    <3>1. k \in Nat /\ \A i \in 1 .. k : i <= n => g[i] \in Seq(S)
      OBVIOUS
    <3> HIDE DEF U
    <3>2. ASSUME k + 1 <= n
          PROVE  g[k + 1] \in Seq(S)
      <4>1. k + 1 \in 1 .. n /\ (k + 1) - 1 = k
        BY <3>1, <3>2
      <4>2. seqs[k + 1] \in Seq(S)
        BY <1>2, <4>1
      <4>3. CASE k + 1 = 1
        BY <2>4, <4>1, <4>2, <4>3
      <4>4. CASE k + 1 # 1
        <5>1. g[k] \in Seq(S)
          BY <3>1, <3>2, <4>4
        <5>2. g[k] \o seqs[k + 1] \in Seq(S)
          BY <4>2, <5>1, ConcatProperties
        <5>3. QED  BY <2>4, <4>1, <4>4, <5>2
      <4>5. QED  BY <4>3, <4>4
    <3>3. \A i \in 1 .. k + 1 : i = k + 1 \/ i \in 1 .. k
      BY <3>1
    <3>4. k + 1 \in Nat
      BY <3>1
    <3>5. QED  BY <3>1, <3>2, <3>3, <3>4 DEF U
  <2> HIDE DEF U
  <2>7. U = Nat
    <3>1. U \in SUBSET Nat
      BY DEF U
    <3>2. QED  BY <2>5, <2>6, <3>1, AllNaturals
  <2>8. g[n] \in Seq(S)
    <3>1. n \in U /\ n \in 1 .. n /\ n <= n
      BY <1>8, <2>7
    <3>2. QED  BY <3>1 DEF U
  <2>9. QED  BY <2>3, <2>8
<1>9. QED  BY <1>7, <1>8

LEMMA PassesTyped ==
    ASSUME WorkSpanAssumption, NEW order \in SetToSeqs(Regions)
    PROVE  Passes(order) \in Seq(APass)
<1>1. PICK n \in Nat : order \in [1 .. n -> Regions]
  <2>1. IsFiniteSet(Regions)
    BY DEF WorkSpanAssumption
  <2>2. Cardinality(Regions) \in Nat
    BY <2>1, FS_CardinalityType
  <2>3. order \in [1 .. Cardinality(Regions) -> Regions]
    BY DEF SetToSeqs
  <2>4. QED  BY <2>2, <2>3
<1>2. PICK seqs : seqs = [i \in DOMAIN order |-> Rounds({order[i]})]
  OBVIOUS
<1>3. seqs \in [1 .. n -> Seq(APass)]
  <2>1. DOMAIN order = 1 .. n
    BY <1>1
  <2>2. ASSUME NEW i \in 1 .. n
        PROVE  Rounds({order[i]}) \in Seq(APass)
    <3>1. PICK R : R = {order[i]}
      OBVIOUS
    <3>2. R \in SUBSET Regions
      BY <1>1, <3>1
    <3>3. Rounds(R) \in Seq(APass)
      BY <3>2, RoundsTyped
    <3>4. QED  BY <3>1, <3>3
  <2>3. QED  BY <1>2, <2>1, <2>2
<1>4. seqs \in Seq(Seq(APass))
  BY <1>3
<1>5. FlattenSeq(seqs) \in Seq(APass)
  BY <1>4, FlattenTyped
<1>6. Rounds(Regions) \in Seq(APass)
  BY RoundsTyped
<1>7. FlattenSeq(seqs) \o Rounds(Regions) \in Seq(APass)
  BY <1>5, <1>6, ConcatProperties
<1>8. <<>> \in Seq(APass)
  BY EmptySeq
<1>9. Passes(order) = IF Regions = {} THEN <<>> ELSE FlattenSeq(seqs) \o Rounds(Regions)
  BY <1>2 DEF Passes
<1>10. QED  BY <1>7, <1>8, <1>9

(******************************************************************************)
(* The steps of the analysis                                                  *)
(******************************************************************************)

Loaded == /\ phase \in {"profile", "region", "done"} /\ finished
          /\ Tree /\ Counts /\ DataTyped /\ WorkGathered

LEMMA RunningLoaded ==
    ASSUME AInv, Running
    PROVE  Loaded
  BY DEF AInv, Loaded, Running

\* A what-if pass leaves the work where it is.
LEMMA WorkStays ==
    ASSUME Tree, UNCHANGED <<tgraph_nodes, before>>,
           \A x \in DOMAIN tgraph_nodes : t_prof'[x].work = t_prof[x].work
    PROVE  \A A \in SUBSET DOMAIN before : WorkOver(t_prof', A) = WorkOver(t_prof, A)
<1>1. PICK P, Q : P = t_prof /\ Q = t_prof'
  OBVIOUS
<1>2. ASSUME NEW A \in SUBSET DOMAIN before
      PROVE  WorkOver(Q, A) = WorkOver(P, A)
  <2>1. A \subseteq DOMAIN tgraph_nodes
    BY IdsAreNodes DEF Tree
  <2>2. \A s \in A : Q[s].work = P[s].work
    BY <1>1, <2>1
  <2>3. QED  BY <2>2, WorkOverSame
<1>3. QED  BY <1>1, <1>2

LEMMA RegionGathered ==
    ASSUME Tree, WorkGathered, UNCHANGED <<tgraph_nodes, before>>,
           phase # "profile", phase' # "profile",
           \A x \in DOMAIN tgraph_nodes : t_prof'[x].work = t_prof[x].work
    PROVE  WorkGathered'
<1>1. /\ \A x : StepsBelow(x)' = StepsBelow(x)
      /\ InnerNodes' = InnerNodes /\ InnerNodes \subseteq DOMAIN tgraph_nodes
  BY SameTree, IdsAreNodes DEF InnerNodes
<1>2. ASSUME NEW x \in InnerNodes
      PROVE  t_prof'[x].work = WorkOver(t_prof', StepsBelow(x))
  <2>1. StepsBelow(x) \in SUBSET DOMAIN before
    BY DEF StepsBelow
  <2>2. WorkOver(t_prof', StepsBelow(x)) = WorkOver(t_prof, StepsBelow(x))
    BY <2>1, WorkStays
  <2>3. QED  BY <1>1, <2>2 DEF WorkGathered, Gathered
<1>3. QED  BY <1>1, <1>2 DEF WorkGathered, Gathered

\* A step in which no node is calculated and no work changes.
LEMMA SameGathered ==
    ASSUME Tree, WorkGathered, UNCHANGED <<tgraph_nodes, before, phase>>,
           \A c \in Ids : Calculated(c)' <=> Calculated(c),
           \A x \in DOMAIN tgraph_nodes : t_prof'[x].work = t_prof[x].work
    PROVE  WorkGathered'
<1>1. /\ \A x : StepsBelow(x)' = StepsBelow(x) /\ Children(x)' = Children(x)
      /\ \A x : Ancestry(x)' = Ancestry(x)
      /\ InnerNodes' = InnerNodes /\ InnerNodes \subseteq DOMAIN tgraph_nodes
  BY SameTree, IdsAreNodes DEF InnerNodes
<1>2. \A x : Told(x)' = Told(x)
  BY <1>1 DEF Told, Children
<1>3. \A x : Got(x)' = Got(x)
  BY <1>1, <1>2 DEF Got
<1>4. \A x : Gathered(x)' = Gathered(x)
  BY <1>1, <1>3 DEF Gathered
<1>5. ASSUME NEW x \in InnerNodes
      PROVE  t_prof'[x].work = WorkOver(t_prof', Gathered(x)')
  <2>1. Gathered(x) \in SUBSET DOMAIN before
    BY DEF Gathered, Got, StepsBelow
  <2>2. WorkOver(t_prof', Gathered(x)) = WorkOver(t_prof, Gathered(x))
    BY <2>1, WorkStays
  <2>3. QED  BY <1>1, <1>4, <2>2 DEF WorkGathered
<1>6. QED  BY <1>1, <1>5 DEF WorkGathered

\* Node n, whose children have all been calculated, is calculated.
LEMMA CalculatedGathered ==
    ASSUME WorkSpanAssumption, Tree, DataTyped, WorkGathered, NEW n \in Ids, Calculate(n),
           UNCHANGED <<tgraph_nodes, before, pass, pending, phase>>,
           ~Calculated(n), Told(n) = Children(n),
           \A c \in Ids : Calculated(c)' <=> Calculated(c) \/ c = n
    PROVE  DataTyped' /\ WorkGathered'
<1>1. /\ DataTyped'
      /\ phase = "profile" =>
            AddsWork(t_prof, t_prof', DOMAIN tgraph_nodes, Parent(n), t_prof[n].work)
      /\ phase = "region" =>
            \A x \in DOMAIN tgraph_nodes : t_prof'[x].work = t_prof[x].work
  BY Calculates
<1>2. CASE phase = "profile"
  <2>1. phase' = "profile"
    BY <1>2
  <2>2. AddsWork(t_prof, t_prof', DOMAIN tgraph_nodes, Parent(n), t_prof[n].work)
    BY <1>1, <1>2
  <2>3. WorkGathered'
    BY <1>2, <2>1, <2>2, WorkFlows
  <2>4. QED  BY <1>1, <2>3
<1>3. CASE phase = "region"
  <2>1. phase # "profile" /\ phase' # "profile"
    BY <1>3
  <2>2. \A x \in DOMAIN tgraph_nodes : t_prof'[x].work = t_prof[x].work
    BY <1>1, <1>3
  <2>3. WorkGathered'
    BY <2>1, <2>2, RegionGathered
  <2>4. QED  BY <1>1, <2>3
<1>4. QED  BY <1>2, <1>3 DEF Calculate

LEMMA VisitLeafKeeps ==
    ASSUME WorkSpanAssumption, AInv, VisitLeaf, UNCHANGED <<before, finished>>
    PROVE  AInv'
<1>1. /\ phase \in {"profile", "region"} /\ finished /\ Tree /\ Counts /\ DataTyped
      /\ WorkGathered
  BY RunningLoaded DEF VisitLeaf, Running, Loaded
<1>2. /\ UNCHANGED <<phase, tgraph_nodes, before, num_processed, pass, pending, finished>>
      /\ climb = 0 /\ index \in Ids /\ tgraph_nodes[index].num_children = num_processed[index]
      /\ climb' = Parent(index) /\ index' = index + 1 /\ Calculate(index)
  BY DEF VisitLeaf
<1>3. /\ Counts' /\ ~Calculated(index) /\ Told(index) = Children(index)
      /\ \A c \in Ids : Calculated(c)' <=> Calculated(c) \/ c = index
  BY <1>1, <1>2, LeafVisited
<1>4. PICK n : n = index
  OBVIOUS
<1>5. /\ n \in Ids /\ Calculate(n) /\ ~Calculated(n) /\ Told(n) = Children(n)
      /\ \A c \in Ids : Calculated(c)' <=> Calculated(c) \/ c = n
  BY <1>2, <1>3, <1>4
<1>6. DataTyped' /\ WorkGathered'
  BY <1>1, <1>2, <1>5, CalculatedGathered
<1>7. Tree'
  BY <1>1, <1>2, SameTree
<1>8. QED  BY <1>1, <1>2, <1>3, <1>6, <1>7 DEF AInv

LEMMA ClimbKeeps ==
    ASSUME WorkSpanAssumption, AInv, Climb, UNCHANGED <<before, finished>>
    PROVE  AInv'
<1>1. /\ phase \in {"profile", "region"} /\ finished /\ Tree /\ Counts /\ DataTyped
      /\ WorkGathered
  BY RunningLoaded DEF Climb, Running, Loaded
<1>2. PICK k : k = climb
  OBVIOUS
<1>3. /\ UNCHANGED <<phase, tgraph_nodes, before, index, pass, pending, finished>>
      /\ num_processed' = [num_processed EXCEPT ![k] = @ + 1]
      /\ k \in Ids /\ climb = k
  BY <1>1, <1>2 DEF Climb, Counts
<1>4. Tree'
  BY <1>1, <1>3, SameTree
<1>5. CASE /\ tgraph_nodes[k].num_children = num_processed'[k]
           /\ Calculate(k) /\ climb' = Parent(k)
  <2>1. /\ Counts' /\ ~Calculated(k) /\ Told(k) = Children(k)
        /\ \A c \in Ids : Calculated(c)' <=> Calculated(c) \/ c = k
    BY <1>1, <1>3, <1>5, LastChildCounted
  <2>2. DataTyped' /\ WorkGathered'
    BY <1>1, <1>3, <1>5, <2>1, CalculatedGathered
  <2>3. QED  BY <1>1, <1>3, <1>4, <2>1, <2>2 DEF AInv
<1>6. CASE /\ tgraph_nodes[k].num_children # num_processed'[k]
           /\ climb' = 0 /\ UNCHANGED <<t_prof, critical_call_sites, workSpanMap>>
  <2>1. Counts' /\ \A c \in Ids : Calculated(c)' <=> Calculated(c)
    BY <1>1, <1>3, <1>6, ChildCounted
  <2>2. DataTyped'
    BY <1>1, <1>3, <1>6 DEF DataTyped
  <2>3. WorkGathered'
    BY <1>1, <1>3, <1>6, <2>1, SameGathered
  <2>4. QED  BY <1>1, <1>3, <1>4, <2>1, <2>2, <2>3 DEF AInv
<1>7. QED  BY <1>2, <1>5, <1>6 DEF Climb

LEMMA VisitInnerKeeps ==
    ASSUME WorkSpanAssumption, AInv, VisitInner, UNCHANGED <<before, finished>>
    PROVE  AInv'
<1>1. /\ phase \in {"profile", "region"} /\ finished /\ Tree /\ Counts /\ DataTyped
      /\ WorkGathered
  BY RunningLoaded DEF VisitInner, Running, Loaded
<1>2. PICK n, P : n = index /\ P = t_prof
  OBVIOUS
<1>3. /\ UNCHANGED <<phase, tgraph_nodes, before, critical_call_sites, workSpanMap,
                     num_processed, climb, pass, pending, finished>>
      /\ climb = 0 /\ index \in Ids /\ tgraph_nodes[index].num_children # num_processed[index]
      /\ index' = index + 1
      /\ t_prof' = IF tgraph_nodes[n].type = ASYNC
                   THEN [P EXCEPT ![n].parent_work = WorkBefore(n)] ELSE P
  BY <1>2 DEF VisitInner
<1>4. Counts' /\ \A c \in Ids : Calculated(c)' <=> Calculated(c)
  BY <1>1, <1>3, InnerVisited
<1>5. Tree'
  BY <1>1, <1>3, SameTree
<1>6. /\ t_prof' \in [DOMAIN tgraph_nodes -> ProfilerData]
      /\ \A x \in DOMAIN tgraph_nodes : t_prof'[x].work = P[x].work
  <2>1. P \in [DOMAIN tgraph_nodes -> ProfilerData]
    BY <1>1, <1>2 DEF DataTyped
  <2>2. PICK w \in Nat : w = WorkBefore(n)
    BY <1>1, <1>2, <1>3, AtNode DEF WorkBefore, ProfilerData
  <2>3. CASE tgraph_nodes[n].type = ASYNC
    <3>1. PICK q : q = [P[n] EXCEPT !.parent_work = w]
      OBVIOUS
    <3>2. n \in DOMAIN tgraph_nodes /\ P[n] \in ProfilerData
      BY <1>1, <1>2, <1>3, <2>1, IdsAreNodes
    <3>3. q \in ProfilerData /\ q.work = P[n].work
      BY <2>2, <3>1, <3>2 DEF ProfilerData
    <3>4. t_prof' = [P EXCEPT ![n] = q]
      BY <1>3, <2>1, <2>2, <2>3, <3>1, <3>2
    <3>5. QED  BY <2>1, <3>2, <3>3, <3>4
  <2>4. CASE tgraph_nodes[n].type # ASYNC
    BY <1>3, <2>1, <2>4
  <2>5. QED  BY <2>3, <2>4
<1>7. DataTyped'
  <2>1. /\ critical_call_sites \in [DOMAIN tgraph_nodes -> [Sites -> Nat]]
        /\ workSpanMap \in [Sites -> [work : Nat, span : Nat, call_count : Nat]]
        /\ pass \in APass /\ pending \in Seq(APass)
    BY <1>1 DEF DataTyped
  <2>2. QED  BY <1>3, <1>6, <2>1 DEF DataTyped
<1>8. WorkGathered'
  BY <1>1, <1>2, <1>3, <1>4, <1>6, SameGathered
<1>9. QED  BY <1>1, <1>3, <1>4, <1>5, <1>7, <1>8 DEF AInv

LEMMA ResetKeepsWork ==
    ASSUME Tree, DataTyped, reset_work_span
    PROVE  /\ t_prof' \in [DOMAIN tgraph_nodes -> ProfilerData]
           /\ \A x \in DOMAIN tgraph_nodes : t_prof'[x].work = t_prof[x].work
<1>1. PICK P, D : P = t_prof /\ D = DOMAIN tgraph_nodes
  OBVIOUS
<1>2. P \in [D -> ProfilerData]
  BY <1>1 DEF DataTyped
<1>3. ASSUME NEW x \in D
      PROVE  LET r == [P[x] EXCEPT !.critical_child = 0, !.local_work = 0, !.parent_work = 0]
             IN  r \in ProfilerData /\ r.work = P[x].work
  <2>1. P[x] \in ProfilerData
    BY <1>2
  <2>2. QED  BY <2>1 DEF ProfilerData
<1>4. t_prof' = [i \in D |->
        IF i = 0 \/ tgraph_nodes[i].type = STEP THEN P[i]
        ELSE [P[i] EXCEPT !.critical_child = 0, !.local_work = 0, !.parent_work = 0]]
  BY <1>1, <1>2 DEF reset_work_span
<1>5. QED  BY <1>1, <1>2, <1>3, <1>4

LEMMA PassStarts ==
    ASSUME WorkSpanAssumption, Loaded, PassEnds, UNCHANGED <<before, finished>>,
           NEW passes \in Seq(APass), StartPass(passes) \/ Stop(passes)
    PROVE  AInv'
<1>1. /\ finished /\ Tree /\ Counts /\ DataTyped /\ WorkGathered
      /\ phase \in {"profile", "region", "done"}
  BY DEF Loaded
<1>2. /\ UNCHANGED <<tgraph_nodes, critical_call_sites, workSpanMap>>
      /\ climb = 0 /\ climb' = 0
  BY DEF StartPass, Stop, PassEnds, loop
<1>3. Tree'
  BY <1>1, <1>2, SameTree
<1>4. \A n \in InnerNodes : t_prof[n].work = WorkOver(t_prof, StepsBelow(n))
  BY <1>1, AllCalculated, AllGathered
<1>5. ASSUME phase' # "profile",
             \A x \in DOMAIN tgraph_nodes : t_prof'[x].work = t_prof[x].work
      PROVE  WorkGathered'
  <2>1. /\ \A x : StepsBelow(x)' = StepsBelow(x)
        /\ InnerNodes' = InnerNodes /\ InnerNodes \subseteq DOMAIN tgraph_nodes
    BY <1>2, SameTree, <1>1, IdsAreNodes DEF InnerNodes
  <2>2. ASSUME NEW x \in InnerNodes
        PROVE  t_prof'[x].work = WorkOver(t_prof', StepsBelow(x))
    <3>1. StepsBelow(x) \in SUBSET DOMAIN before
      BY DEF StepsBelow
    <3>2. WorkOver(t_prof', StepsBelow(x)) = WorkOver(t_prof, StepsBelow(x))
      BY <1>1, <1>2, <1>5, <3>1, WorkStays
    <3>3. t_prof'[x].work = t_prof[x].work
      BY <1>5, <2>1
    <3>4. QED  BY <1>4, <3>2, <3>3
  <2>3. QED  BY <1>5, <2>1, <2>2 DEF WorkGathered, Gathered
<1>6. CASE StartPass(passes)
  <2>1. /\ passes # <<>> /\ phase' = "region" /\ pass' = Head(passes) /\ pending' = Tail(passes)
        /\ reset_work_span /\ index' = 1
        /\ num_processed' = [i \in DOMAIN num_processed |-> 0]
    BY <1>6 DEF StartPass
  <2>2. /\ t_prof' \in [DOMAIN tgraph_nodes -> ProfilerData]
        /\ \A x \in DOMAIN tgraph_nodes : t_prof'[x].work = t_prof[x].work
    BY <1>1, <2>1, ResetKeepsWork
  <2>3. Counts'
    BY <1>1, <1>2, <2>1, CountsAnew
  <2>4. pass' \in APass /\ pending' \in Seq(APass)
    BY <2>1, HeadTailProperties
  <2>5. DataTyped'
    <3>1. /\ critical_call_sites \in [DOMAIN tgraph_nodes -> [Sites -> Nat]]
          /\ workSpanMap \in [Sites -> [work : Nat, span : Nat, call_count : Nat]]
      BY <1>1 DEF DataTyped
    <3>2. QED  BY <1>2, <2>2, <2>4, <3>1 DEF DataTyped
  <2>6. WorkGathered'
    BY <1>5, <2>1, <2>2
  <2>7. QED  BY <1>1, <1>3, <2>1, <2>3, <2>5, <2>6 DEF AInv
<1>7. CASE Stop(passes)
  <2>1. /\ phase' = "done"
        /\ UNCHANGED <<t_prof, pass, pending, num_processed, index, climb>>
    BY <1>7 DEF Stop, loop
  <2>2. Counts'
    <3>1. \A p : Told(p)' = Told(p)
      BY <1>2, <2>1, SameTree DEF Told, Children, Calculated
    <3>2. Ids' = Ids
      BY <1>2, SameTree
    <3>3. QED  BY <1>1, <1>2, <2>1, <3>1, <3>2 DEF Counts
  <2>3. DataTyped'
    BY <1>1, <1>2, <2>1 DEF DataTyped
  <2>4. WorkGathered'
    BY <1>5, <2>1
  <2>5. QED  BY <1>1, <1>3, <2>1, <2>2, <2>3, <2>4 DEF AInv
<1>8. QED  BY <1>6, <1>7

LEMMA AnalysisKeeps ==
    ASSUME WorkSpanAssumption, AInv, AnalysisNext, UNCHANGED <<before, finished>>
    PROVE  AInv'
<1>1. CASE VisitLeaf
  BY <1>1, VisitLeafKeeps
<1>2. CASE VisitInner
  BY <1>2, VisitInnerKeeps
<1>3. CASE Climb
  BY <1>3, ClimbKeeps
<1>4. CASE EndProfile
  <2>1. PICK order \in SetToSeqs(Regions) : StartPass(Passes(order)) \/ Stop(Passes(order))
    BY <1>4 DEF EndProfile
  <2>2. PICK passes : passes = Passes(order)
    OBVIOUS
  <2>3. passes \in Seq(APass)
    BY <2>2, PassesTyped
  <2>4. PassEnds /\ Loaded
    BY <1>4, RunningLoaded DEF EndProfile, PassEnds
  <2>5. StartPass(passes) \/ Stop(passes)
    BY <2>1, <2>2
  <2>6. QED  BY <2>3, <2>4, <2>5, PassStarts
<1>5. CASE EndRegionPass
  <2>1. PassEnds /\ Loaded
    BY <1>5, RunningLoaded DEF EndRegionPass, PassEnds
  <2>2. PICK passes : passes = pending
    OBVIOUS
  <2>3. passes \in Seq(APass)
    BY <2>1, <2>2 DEF Loaded, DataTyped
  <2>4. StartPass(passes) \/ Stop(passes)
    BY <1>5, <2>2 DEF EndRegionPass
  <2>5. QED  BY <2>1, <2>3, <2>4, PassStarts
<1>6. QED  BY <1>1, <1>2, <1>3, <1>4, <1>5 DEF AnalysisNext

LEMMA IdleIds ==
    ASSUME DOMAIN tgraph_nodes = {}
    PROVE  Ids = {}
<1>1. Cardinality({}) = 0
  BY FS_EmptySet
<1>2. QED  BY <1>1 DEF Ids

LEMMA NoNodes ==
    ASSUME NEW f, f = [i \in {} |-> 0], NEW S
    PROVE  DOMAIN f = {} /\ f \in [{} -> S]
  OBVIOUS

\* What the invariant says of the runs' properties.
LEMMA InvTypeOK ==
    ASSUME AInv
    PROVE  AnalysisTypeOK
<1>1. phase \in {"idle", "profile", "region", "done"} /\ Counts /\ DataTyped
  BY DEF AInv
<1>2. CASE tgraph_nodes = [i \in {} |-> 0]
  <2>0. DOMAIN tgraph_nodes = {}
    BY <1>2
  <2>1. Ids = {}
    BY <2>0, IdleIds
  <2>2. tgraph_nodes \in [DOMAIN tgraph_nodes -> TaskNode]
    BY <1>2, <2>0, NoNodes
  <2>3. index \in 1 .. Cardinality(Ids) + 1 /\ climb \in Ids \cup {0}
    BY <1>1 DEF Counts
  <2>4. QED  BY <1>1, <2>1, <2>2, <2>3 DEF AnalysisTypeOK, DataTyped
<1>3. CASE Tree
  <2>1. tgraph_nodes \in [DOMAIN tgraph_nodes -> TaskNode]
    BY <1>3 DEF Tree
  <2>2. ASSUME NEW n \in Ids
        PROVE  num_processed[n] \in 0 .. tgraph_nodes[n].num_children
    <3>1. num_processed[n] \in Nat
      BY <1>1, <1>3, IdsAreNodes DEF Counts
    <3>2. num_processed[n] + (IF climb = n THEN 1 ELSE 0) = Cardinality(Told(n))
      BY <1>1 DEF Counts
    <3>3. PICK t, all \in Nat : /\ t = Cardinality(Told(n)) /\ t <= all
                                /\ all = tgraph_nodes[n].num_children
      <4>1. /\ Cardinality(Told(n)) \in Nat /\ Cardinality(Children(n)) \in Nat
            /\ Cardinality(Told(n)) <= Cardinality(Children(n))
            /\ tgraph_nodes[n].num_children = Cardinality(Children(n))
        BY <1>3, ChildrenTyped
      <4>2. QED  BY <4>1
    <3>4. num_processed[n] <= t
      BY <3>1, <3>2, <3>3
    <3>5. QED  BY <3>1, <3>3, <3>4
  <2>3. index \in 1 .. Cardinality(Ids) + 1 /\ climb \in Ids \cup {0}
    BY <1>1 DEF Counts
  <2>4. QED  BY <1>1, <2>1, <2>2, <2>3 DEF AnalysisTypeOK, DataTyped
<1>4. QED  BY <1>2, <1>3 DEF AInv

LEMMA InvWorkIsTotal ==
    ASSUME AInv
    PROVE  WorkIsTotal
<1>1. ASSUME PassEnds
      PROVE  \A n \in InnerNodes : t_prof[n].work = WorkOver(t_prof, StepsBelow(n))
  <2>1. Loaded
    BY <1>1, RunningLoaded DEF PassEnds
  <2>2. Tree /\ DataTyped /\ WorkGathered /\ Counts /\ phase \in {"profile", "region", "done"}
    BY <2>1 DEF Loaded
  <2>3. \A n \in Ids : Told(n) = Children(n)
    BY <1>1, <2>2, AllCalculated
  <2>4. QED  BY <2>2, <2>3, AllGathered
<1>2. QED  BY <1>1 DEF WorkIsTotal, WorkOver

(******************************************************************************)
(* The tree in the reports                                                    *)
(******************************************************************************)

\* The ids of the entries es that are not steps.
InnerOf(es) == {es[i].node_id : i \in {j \in DOMAIN es : es[j].node_type # STEP}}

InnerLogged == {e.node_id : e \in {d \in Entries : d.node_type # STEP}}

EntrySites == SpawnSites \cup RootSites \cup {0}

\* Every allocated node is in the reports, the parents there are no steps, and
\* the steps there are those that have happened.
TreeLogged ==
    /\ DOMAIN nodes \subseteq InnerLogged
    /\ \A e \in Entries : e.step_parent \in InnerLogged \cup {0} /\ e.ret_addr \in EntrySites
    /\ \A x : x \in DOMAIN before <=> \E e \in Entries : e.node_type = STEP /\ x = e.node_id

LEMMA EntriesGrow ==
    ASSUME report \in [Threads -> Seq(LogEntry)], NEW t \in Threads,
           NEW es \in Seq(LogEntry), Log(t, es)
    PROVE  \A e : e \in Entries' <=> e \in Entries \/ \E j \in DOMAIN es : e = es[j]
<1>1. PICK a, b, n : a = report[t] /\ b = report'[t] /\ n = Len(report[t])
  OBVIOUS
<1>2. /\ b = a \o es /\ a \in Seq(LogEntry) /\ n \in Nat /\ n = Len(a)
      /\ DOMAIN a = 1 .. n /\ DOMAIN es = 1 .. Len(es) /\ Len(es) \in Nat
      /\ \A u \in Threads \ {t} : report'[u] = report[u]
  BY <1>1, LenProperties DEF Log
<1>3. /\ DOMAIN b = 1 .. n + Len(es)
      /\ \A i \in 1 .. n : b[i] = a[i]
      /\ \A i \in 1 .. Len(es) : b[n + i] = es[i]
  BY <1>2
<1>4. ASSUME NEW e
      PROVE  e \in Logged(t)' <=> e \in Logged(t) \/ \E j \in DOMAIN es : e = es[j]
  <2>1. e \in Logged(t)' <=> \E i \in DOMAIN b : e = b[i]
    BY <1>1 DEF Logged
  <2>2. e \in Logged(t) <=> \E i \in DOMAIN a : e = a[i]
    BY <1>1 DEF Logged
  <2>3. \A i \in DOMAIN b : i \in DOMAIN a \/ \E j \in DOMAIN es : i = n + j
    <3>1. ASSUME NEW i \in 1 .. n + Len(es), i \notin 1 .. n
          PROVE  i - n \in 1 .. Len(es) /\ i = n + (i - n)
      BY <1>2, <3>1
    <3>2. QED  BY <1>2, <1>3, <3>1
  <2>4. /\ \A i \in DOMAIN a : i \in DOMAIN b /\ b[i] = a[i]
        /\ \A j \in DOMAIN es : n + j \in DOMAIN b /\ b[n + j] = es[j]
    BY <1>2, <1>3
  <2>5. QED  BY <2>1, <2>2, <2>3, <2>4
<1>5. \A u \in Threads \ {t} : Logged(u)' = Logged(u)
  BY <1>2 DEF Logged
<1>6. ASSUME NEW e
      PROVE  e \in Entries' <=> e \in Entries \/ \E j \in DOMAIN es : e = es[j]
  <2>1. e \in Entries' <=> \E u \in Threads : e \in Logged(u)'
    BY DEF Entries
  <2>2. e \in Entries <=> \E u \in Threads : e \in Logged(u)
    BY DEF Entries
  <2>3. \A u \in Threads : u # t => (e \in Logged(u)' <=> e \in Logged(u))
    BY <1>5
  <2>4. e \in Logged(t)' <=> e \in Logged(t) \/ \E j \in DOMAIN es : e = es[j]
    BY <1>4
  <2>5. QED  BY <2>1, <2>2, <2>3, <2>4
<1>7. QED  BY <1>6

LEMMA TreeGrows ==
    ASSUME report \in [Threads -> Seq(LogEntry)], TreeLogged, NEW t \in Threads,
           NEW es \in Seq(LogEntry), Log(t, es),
           DOMAIN nodes' \subseteq DOMAIN nodes \cup InnerOf(es),
           \A j \in DOMAIN es : /\ es[j].step_parent \in DOMAIN nodes \cup InnerOf(es)
                                /\ es[j].ret_addr \in EntrySites,
           \A x : x \in DOMAIN before' <=>
                    \/ x \in DOMAIN before
                    \/ \E j \in DOMAIN es : es[j].node_type = STEP /\ x = es[j].node_id
    PROVE  TreeLogged'
<1>1. \A e : e \in Entries' <=> e \in Entries \/ \E j \in DOMAIN es : e = es[j]
  BY EntriesGrow
<1>2. ASSUME NEW x
      PROVE  x \in InnerLogged' <=> x \in InnerLogged \/ x \in InnerOf(es)
  <2>1. x \in InnerLogged' <=> \E e \in Entries' : e.node_type # STEP /\ x = e.node_id
    BY DEF InnerLogged
  <2>2. x \in InnerLogged <=> \E e \in Entries : e.node_type # STEP /\ x = e.node_id
    BY DEF InnerLogged
  <2>3. x \in InnerOf(es) <=> \E j \in DOMAIN es : es[j].node_type # STEP /\ x = es[j].node_id
    BY DEF InnerOf
  <2>4. QED  BY <1>1, <2>1, <2>2, <2>3
<1>3. DOMAIN nodes \subseteq InnerLogged
  BY DEF TreeLogged
<1>4. DOMAIN nodes' \subseteq InnerLogged'
  BY <1>2, <1>3
<1>5. ASSUME NEW e \in Entries'
      PROVE  e.step_parent \in InnerLogged' \cup {0} /\ e.ret_addr \in EntrySites
  <2>1. CASE e \in Entries
    <3>1. e.step_parent \in InnerLogged \cup {0} /\ e.ret_addr \in EntrySites
      BY <2>1 DEF TreeLogged
    <3>2. QED  BY <1>2, <3>1
  <2>2. CASE \E j \in DOMAIN es : e = es[j]
    BY <1>2, <1>3, <2>2
  <2>3. QED  BY <1>1, <2>1, <2>2
<1>6. ASSUME NEW x
      PROVE  x \in DOMAIN before' <=> \E e \in Entries' : e.node_type = STEP /\ x = e.node_id
  <2>1. x \in DOMAIN before <=> \E e \in Entries : e.node_type = STEP /\ x = e.node_id
    BY DEF TreeLogged
  <2>2. QED  BY <1>1, <2>1
<1>7. EntrySites' = EntrySites
  BY DEF EntrySites
<1>8. QED  BY <1>4, <1>5, <1>6, <1>7 DEF TreeLogged

LEMMA TreeStays ==
    ASSUME TreeLogged, UNCHANGED <<report, before>>, DOMAIN nodes' \subseteq DOMAIN nodes
    PROVE  TreeLogged'
<1>1. Entries' = Entries /\ EntrySites' = EntrySites
  BY DEF Entries, Logged, EntrySites
<1>2. InnerLogged' = InnerLogged
  BY <1>1 DEF InnerLogged
<1>3. QED  BY <1>1, <1>2 DEF TreeLogged

\* A step is logged when it has happened.
LEMMA StepLogged ==
    ASSUME IInv, TreeLogged, NEW t \in Threads, LogStep(t), StepHappens(t),
           DOMAIN nodes' \subseteq DOMAIN nodes
    PROVE  TreeLogged'
<1>1. /\ report \in [Threads -> Seq(LogEntry)] /\ cur_dpst_index[t] # <<>>
      /\ NodeOwnership /\ GraphTypeOK
  BY DEF IInv, TypeOK, GraphTypeOK, LogStep
<1>2. Top(t) \in DOMAIN nodes /\ getCurStepId(t) \in Nat /\ getCurStepParent(t) \in Nat
  BY <1>1, TopAllocated DEF NodeOwnership, getCurStepParent
<1>3. PICK e, es : e = Entry(getCurStepId(t), getCurStepParent(t), STEP, 0) /\ es = <<e>>
  OBVIOUS
<1>4. /\ e \in LogEntry /\ e.node_type = STEP /\ e.step_parent = Top(t) /\ e.ret_addr = 0
      /\ e.node_id = getCurStepId(t)
  BY <1>2, <1>3 DEF Entry, LogEntry, getCurStepParent
<1>5. es \in Seq(LogEntry) /\ DOMAIN es = {1} /\ es[1] = e /\ Log(t, es)
  BY <1>3, <1>4 DEF LogStep
<1>6. \A x : x \in DOMAIN before' <=>
               \/ x \in DOMAIN before
               \/ \E j \in DOMAIN es : es[j].node_type = STEP /\ x = es[j].node_id
  BY <1>4, <1>5 DEF StepHappens
<1>7. \A j \in DOMAIN es : /\ es[j].step_parent \in DOMAIN nodes \cup InnerOf(es)
                           /\ es[j].ret_addr \in EntrySites
  BY <1>2, <1>4, <1>5 DEF EntrySites
<1>8. QED  BY <1>1, <1>5, <1>6, <1>7, TreeGrows

LEMMA AddAsyncGrows ==
    ASSUME IInv, TreeLogged, NEW t \in Threads, NEW k, NEW site \in EntrySites, NEW step, NEW last,
           site \in Nat, cur_dpst_index[t] # <<>>, AddAsync(t, k, site, step, last),
           UNCHANGED before
    PROVE  TreeLogged'
<1>1. /\ report \in [Threads -> Seq(LogEntry)] /\ NodeOwnership /\ GraphTypeOK
      /\ last_allocated_node \in Nat
  BY DEF IInv, TypeOK, GraphTypeOK
<1>2. PICK cur, new : cur = Top(t) /\ new = last_allocated_node
  OBVIOUS
<1>3. cur \in DOMAIN nodes /\ cur \in Nat
  BY <1>1, <1>2, TopAllocated DEF NodeOwnership
<1>4. PICK e, es : e = Entry(new, cur, ASYNC, site) /\ es = <<e>>
  OBVIOUS
<1>5. /\ e \in LogEntry /\ e.node_type = ASYNC /\ e.step_parent = cur /\ e.ret_addr = site
      /\ e.node_id = new
  BY <1>1, <1>2, <1>3, <1>4 DEF Entry, LogEntry
<1>6. es \in Seq(LogEntry) /\ DOMAIN es = {1} /\ es[1] = e /\ Log(t, es)
  BY <1>2, <1>4, <1>5 DEF AddAsync
<1>7. ASYNC # STEP
  BY DEF ASYNC, STEP
<1>8. InnerOf(es) = {new}
  BY <1>5, <1>6, <1>7 DEF InnerOf
<1>9. DOMAIN nodes' \subseteq DOMAIN nodes \cup InnerOf(es)
  BY <1>2, <1>8 DEF AddAsync, Insert
<1>10. /\ \A j \in DOMAIN es : /\ es[j].step_parent \in DOMAIN nodes \cup InnerOf(es)
                               /\ es[j].ret_addr \in EntrySites
       /\ \A x : x \in DOMAIN before' <=>
                    \/ x \in DOMAIN before
                    \/ \E j \in DOMAIN es : es[j].node_type = STEP /\ x = es[j].node_id
  BY <1>3, <1>5, <1>6, <1>7
<1>11. QED  BY <1>1, <1>6, <1>9, <1>10, TreeGrows

LEMMA AddFinishAndAsyncGrows ==
    ASSUME IInv, TreeLogged, NEW t \in Threads, NEW k, NEW site \in EntrySites, NEW step, NEW last,
           site \in Nat, cur_dpst_index[t] # <<>>, AddFinishAndAsync(t, k, site, step, last),
           UNCHANGED before
    PROVE  TreeLogged'
<1>1. /\ report \in [Threads -> Seq(LogEntry)] /\ NodeOwnership /\ GraphTypeOK
      /\ last_allocated_node \in Nat
  BY DEF IInv, TypeOK, GraphTypeOK
<1>2. PICK cur, fin, new : cur = Top(t) /\ fin = last_allocated_node /\ new = last_allocated_node + 1
  OBVIOUS
<1>3. cur \in DOMAIN nodes /\ cur \in Nat /\ fin \in Nat /\ new \in Nat
  BY <1>1, <1>2, TopAllocated DEF NodeOwnership
<1>4. PICK d, e, es : d = Entry(fin, cur, FINISH, 0) /\ e = Entry(new, fin, ASYNC, site) /\ es = <<d, e>>
  OBVIOUS
<1>5. /\ d \in LogEntry /\ d.node_type = FINISH /\ d.step_parent = cur /\ d.ret_addr = 0
      /\ d.node_id = fin
      /\ e \in LogEntry /\ e.node_type = ASYNC /\ e.step_parent = fin /\ e.ret_addr = site
      /\ e.node_id = new
  BY <1>3, <1>4 DEF Entry, LogEntry
<1>6. es \in Seq(LogEntry) /\ DOMAIN es = {1, 2} /\ es[1] = d /\ es[2] = e /\ Log(t, es)
  <2>1. Log(t, es)
    BY <1>2, <1>4 DEF AddFinishAndAsync
  <2>2. es \in Seq(LogEntry) /\ DOMAIN es = 1 .. 2 /\ es[1] = d /\ es[2] = e
    BY <1>4, <1>5
  <2>3. QED  BY <2>1, <2>2
<1>7. ASYNC # STEP /\ FINISH # STEP
  BY DEF ASYNC, FINISH, STEP
<1>8. InnerOf(es) = {fin, new}
  BY <1>5, <1>6, <1>7 DEF InnerOf
<1>9. DOMAIN nodes' \subseteq DOMAIN nodes \cup InnerOf(es)
  BY <1>2, <1>8 DEF AddFinishAndAsync, Insert
<1>10. /\ \A j \in DOMAIN es : /\ es[j].step_parent \in DOMAIN nodes \cup InnerOf(es)
                               /\ es[j].ret_addr \in EntrySites
       /\ \A x : x \in DOMAIN before' <=>
                    \/ x \in DOMAIN before
                    \/ \E j \in DOMAIN es : es[j].node_type = STEP /\ x = es[j].node_id
  <2>1. 0 \in EntrySites
    BY DEF EntrySites
  <2>2. QED  BY <1>3, <1>5, <1>6, <1>7, <1>8, <2>1
<1>11. QED  BY <1>1, <1>6, <1>9, <1>10, TreeGrows

LEMMA SpawnAndWaitGrows ==
    ASSUME IInv, TreeLogged, NEW t \in Threads, NEW k, NEW site \in EntrySites,
           site \in Nat, CaptureSpawnAndWait(t, k, site), UNCHANGED before
    PROVE  TreeLogged'
<1>1. /\ report \in [Threads -> Seq(LogEntry)] /\ NodeOwnership /\ GraphTypeOK
      /\ last_allocated_node \in Nat /\ cur_dpst_index[t] # <<>>
  BY DEF IInv, TypeOK, GraphTypeOK, CaptureSpawnAndWait
<1>2. PICK cur, fin : cur = Top(t) /\ fin = last_allocated_node
  OBVIOUS
<1>3. cur \in DOMAIN nodes /\ cur \in Nat
  BY <1>1, <1>2, TopAllocated DEF NodeOwnership
<1>4. PICK e, es : e = Entry(fin, cur, FINISH, site) /\ es = <<e>>
  OBVIOUS
<1>5. /\ e \in LogEntry /\ e.node_type = FINISH /\ e.step_parent = cur /\ e.ret_addr = site
      /\ e.node_id = fin
  BY <1>1, <1>2, <1>3, <1>4 DEF Entry, LogEntry
<1>6. es \in Seq(LogEntry) /\ DOMAIN es = {1} /\ es[1] = e /\ Log(t, es)
  BY <1>2, <1>4, <1>5 DEF CaptureSpawnAndWait
<1>7. FINISH # STEP
  BY DEF FINISH, STEP
<1>8. InnerOf(es) = {fin}
  BY <1>5, <1>6, <1>7 DEF InnerOf
<1>9. DOMAIN nodes' \subseteq DOMAIN nodes \cup InnerOf(es)
  BY <1>2, <1>8 DEF CaptureSpawnAndWait, Insert
<1>10. /\ \A j \in DOMAIN es : /\ es[j].step_parent \in DOMAIN nodes \cup InnerOf(es)
                               /\ es[j].ret_addr \in EntrySites
       /\ \A x : x \in DOMAIN before' <=>
                    \/ x \in DOMAIN before
                    \/ \E j \in DOMAIN es : es[j].node_type = STEP /\ x = es[j].node_id
  BY <1>3, <1>5, <1>6, <1>7
<1>11. QED  BY <1>1, <1>6, <1>9, <1>10, TreeGrows

LEMMA SpawnCaptureGrows ==
    ASSUME CollectionAssumption, IInv, TreeLogged, NEW t \in Threads, SpawnCapture(t)
    PROVE  TreeLogged'
<1>1. PICK site \in SpawnSites \cup RootSites : SpawnCaptureAt(t, site)
  BY DEF SpawnCapture
<1>2. PICK k : k = TopFrame(t).kid
  OBVIOUS
<1>3. site \in EntrySites /\ site \in Nat /\ UNCHANGED before
  BY <1>1 DEF CollectionAssumption, EntrySites, SpawnCaptureAt
<1>4. \/ CaptureSpawnOnly(t, k, site)
      \/ CaptureSpawnAndWait(t, k, site)
      \/ CaptureSpawnAndWaitForAll(t, k, site)
  <2>1. \/ CaptureSpawnOnly(t, TopFrame(t).kid, site)
        \/ CaptureSpawnAndWait(t, TopFrame(t).kid, site)
        \/ CaptureSpawnAndWaitForAll(t, TopFrame(t).kid, site)
    BY <1>1 DEF SpawnCaptureAt
  <2>2. CASE CaptureSpawnOnly(t, TopFrame(t).kid, site)
    BY <1>2, <2>2 DEF CaptureSpawnOnly, AddAsync, AddFinishAndAsync, Register
  <2>3. CASE CaptureSpawnAndWait(t, TopFrame(t).kid, site)
    BY <1>2, <2>3 DEF CaptureSpawnAndWait, Register
  <2>4. CASE CaptureSpawnAndWaitForAll(t, TopFrame(t).kid, site)
    BY <1>2, <2>4 DEF CaptureSpawnAndWaitForAll, AddAsync, AddFinishAndAsync, Register
  <2>5. QED  BY <2>1, <2>2, <2>3, <2>4
<1> DEFINE m == last_allocated_node
<1>5. CASE CaptureSpawnOnly(t, k, site)
  <2>1. PICK step, last, longer : step = m + 2 /\ last = m + 3 /\ longer = m + 4
    OBVIOUS
  <2>2. cur_dpst_index[t] # <<>>
    BY <1>5 DEF CaptureSpawnOnly
  <2>3. CASE AddAsync(t, k, site, m + 2, m + 3)
    <3>1. AddAsync(t, k, site, step, last)
      BY <2>1, <2>3 DEF AddAsync
    <3>2. QED  BY <1>3, <2>2, <3>1, AddAsyncGrows
  <2>4. CASE AddFinishAndAsync(t, k, site, m + 3, m + 4)
    <3>1. AddFinishAndAsync(t, k, site, last, longer)
      BY <2>1, <2>4 DEF AddFinishAndAsync
    <3>2. QED  BY <1>3, <2>2, <3>1, AddFinishAndAsyncGrows
  <2>5. QED  BY <1>5, <2>3, <2>4 DEF CaptureSpawnOnly
<1>6. CASE CaptureSpawnAndWaitForAll(t, k, site)
  <2>1. PICK step, none, last, longer :
           step = nodes[Top(t)].child_id /\ none = 0 /\ last = m + 2 /\ longer = m + 3
    OBVIOUS
  <2>2. cur_dpst_index[t] # <<>>
    BY <1>6 DEF CaptureSpawnAndWaitForAll
  <2>3. CASE AddAsync(t, k, site, nodes[Top(t)].child_id, m + 2)
    <3>1. AddAsync(t, k, site, step, last)
      BY <2>1, <2>3 DEF AddAsync
    <3>2. QED  BY <1>3, <2>2, <3>1, AddAsyncGrows
  <2>4. CASE AddFinishAndAsync(t, k, site, 0, m + 3)
    <3>1. AddFinishAndAsync(t, k, site, none, longer)
      BY <2>1, <2>4 DEF AddFinishAndAsync
    <3>2. QED  BY <1>3, <2>2, <3>1, AddFinishAndAsyncGrows
  <2>5. QED  BY <1>6, <2>3, <2>4 DEF CaptureSpawnAndWaitForAll
<1>7. CASE CaptureSpawnAndWait(t, k, site)
  BY <1>3, <1>7, SpawnAndWaitGrows
<1>8. QED  BY <1>4, <1>5, <1>6, <1>7

LEMMA InitTree ==
    ASSUME MainAssumption, Init
    PROVE  TreeLogged
<1> DEFINE e == Entry(1, 0, FINISH, 0)
<1>1. /\ report = [t \in Threads |-> IF t = Main THEN <<e>> ELSE <<>>] /\ Main \in Threads
      /\ DOMAIN nodes = {1} /\ DOMAIN before = {}
  BY DEF Init, GraphInit, Threads
<1>2. e.node_id = 1 /\ e.step_parent = 0 /\ e.node_type = FINISH /\ e.ret_addr = 0 /\ FINISH # STEP
  BY DEF Entry, FINISH, STEP
<1> HIDE DEF e
<1>3. /\ DOMAIN report[Main] = {1} /\ report[Main][1] = e
      /\ \A t \in Threads \ {Main} : DOMAIN report[t] = {}
  BY <1>1
<1>4. Logged(Main) = {e} /\ \A t \in Threads \ {Main} : Logged(t) = {}
  BY <1>3 DEF Logged
<1>5. Entries = {e}
  <2>1. \A x : x \in Entries <=> \E t \in Threads : x \in Logged(t)
    BY DEF Entries
  <2>2. QED  BY <1>1, <1>4, <2>1
<1>6. InnerLogged = {1}
  BY <1>2, <1>5 DEF InnerLogged
<1>7. QED  BY <1>1, <1>2, <1>5, <1>6 DEF TreeLogged, EntrySites

LEMMA NextTree ==
    ASSUME CollectionAssumption, IInv, TreeLogged, [Next]_vars
    PROVE  TreeLogged'
<1>1. ASSUME NEW t \in Threads, ThreadStep(t)
      PROVE  TreeLogged'
  <2>1. ASSUME NEW op \in {"spawn", "root", "both"}, SpawnEntry(t, op)
        PROVE  TreeLogged'
    <3>1. LogStep(t) /\ StepHappens(t) /\ DOMAIN nodes' \subseteq DOMAIN nodes
      BY <2>1 DEF SpawnEntry, graph
    <3>2. QED  BY <3>1, StepLogged
  <2>2. CASE SpawnCapture(t)
    BY <2>2, SpawnCaptureGrows
  <2>3. CASE SpawnExit(t)
    BY <2>3, TreeStays DEF SpawnExit, graph, program
  <2>4. CASE WaitEntry(t)
    <3>1. LogStep(t) /\ StepHappens(t) /\ DOMAIN nodes' \subseteq DOMAIN nodes
      BY <2>4 DEF WaitEntry, graph
    <3>2. QED  BY <3>1, StepLogged
  <2>5. CASE Join(t)
    <3>1. UNCHANGED <<report, before>> /\ (CaptureWait(t) \/ CaptureWaitOnly(t))
      BY <2>5 DEF Join
    <3>2. DOMAIN nodes' \subseteq DOMAIN nodes
      BY <3>1 DEF CaptureWait, CaptureWaitOnly, Erase
    <3>3. QED  BY <3>1, <3>2, TreeStays
  <2>6. ASSUME NEW k \in Tasks, TakeTask(t, k)
        PROVE  TreeLogged'
    BY <2>6, TreeStays DEF TakeTask, Begin, CaptureExecute
  <2>7. CASE RunChild(t)
    BY <2>7, TreeStays DEF RunChild, Begin, CaptureExecute
  <2>8. CASE ExecEnd(t)
    <3>1. LogStep(t) /\ StepHappens(t) /\ CaptureReturn(t)
      BY <2>8 DEF ExecEnd
    <3>2. DOMAIN nodes' \subseteq DOMAIN nodes
      BY <3>1 DEF CaptureReturn, Erase
    <3>3. QED  BY <3>1, <3>2, StepLogged
  <2>9. QED  BY <1>1, <2>1, <2>2, <2>3, <2>4, <2>5, <2>6, <2>7, <2>8 DEF ThreadStep
<1>2. CASE Fini
  <2>1. LogStep(Main) /\ StepHappens(Main) /\ DOMAIN nodes' \subseteq DOMAIN nodes /\ Main \in Threads
    BY <1>2 DEF Fini, graph, Threads
  <2>2. QED  BY <2>1, StepLogged
<1>3. CASE UNCHANGED vars
  BY <1>3, TreeStays DEF vars, graph, program
<1>4. QED  BY <1>1, <1>2, <1>3 DEF Next, Terminated

(* What Fini leaves in the reports is a tree of the nodes of AFTaskGraph: a   *)
(* line's parent is a line too, and no step, or it is 0, the return address   *)
(* is one the program passed or none, and there is a line of type STEP for    *)
(* each step that has happened, whatever nodes the Capture calls deleted.     *)
THEOREM TreeInReports == Spec => []TreeLogged
<1>1. Init => TreeLogged
  BY InitTree, MainAssumption
<1>2. IInv /\ TreeLogged /\ [Next]_vars => TreeLogged'
  BY NextTree, CollectionAssumption
<1>3. QED  BY <1>1, <1>2, Invariance, PTL DEF Spec

(******************************************************************************)
(* Reading the files                                                          *)
(******************************************************************************)

ALine == [ node_id : Nat, step_parent : Nat, node_type : {ASYNC, FINISH, STEP},
           ret_addr : Sites, work : Nat, region_work : [Regions -> Nat] ]

\* The lines of L describe a tree of the nodes 1 .. n and the steps of `before`.
TreeOfLines(L, n) ==
    /\ \A l \in L : l \in ALine /\ l.node_id \in 1 .. n /\ l.step_parent < l.node_id
    /\ \A k, l \in L : k.node_id = l.node_id => k = l
    /\ \A i \in 1 .. n : \E l \in L : l.node_id = i
    /\ \A l \in L : \A k \in L : k.step_parent = l.node_id => l.node_type # STEP
    /\ \A x : x \in DOMAIN before <=> \E l \in L : l.node_type = STEP /\ x = l.node_id

\* K takes each id of C to its line in D.
OnTo(K, C, D) ==
    /\ \A c \in C : K[c] \in D /\ K[c].node_id = c
    /\ \A l \in D : l.node_id \in C /\ K[l.node_id] = l

LEMMA OneLineEach ==
    ASSUME NEW K, NEW C, NEW D, IsFiniteSet(C), OnTo(K, C, D)
    PROVE  IsFiniteSet(D) /\ Cardinality(D) = Cardinality(C)
<1>1. PICK f : f = [c \in C |-> K[c]]
  OBVIOUS
<1>2. f \in [C -> D] /\ IsInjective(f)
  BY <1>1 DEF IsInjective, OnTo
<1>3. \A l \in D : \E c \in C : f[c] = l
  BY <1>1 DEF OnTo
<1>4. f \in Bijection(C, D)
  BY <1>2, <1>3 DEF Bijection, Injection, Surjection
<1>5. ExistsBijection(C, D)
  BY <1>4 DEF ExistsBijection
<1>6. QED  BY <1>5, FS_Bijection

\* K gives the line of each node.
LinesOf(K, L, n) ==
    /\ K \in [1 .. n -> L]
    /\ \A i \in 1 .. n : K[i].node_id = i
    /\ \A l \in L : K[l.node_id] = l

\* What gentprof has when it has read the lines.
NodesRead(K, L, n) ==
    /\ DOMAIN tgraph_nodes = 0 .. n /\ Ids = 1 .. n
    /\ tgraph_nodes \in [0 .. n -> TaskNode]
    /\ \A i \in 1 .. n :
          /\ tgraph_nodes[i].parent = K[i].step_parent
          /\ tgraph_nodes[i].type = K[i].node_type
          /\ tgraph_nodes[i].num_children = Cardinality({l \in L : l.step_parent = i})
    /\ t_prof \in [0 .. n -> ProfilerData]
    /\ \A i \in 1 .. n : t_prof[i].work = IF K[i].node_type = STEP THEN K[i].work ELSE 0
    /\ phase = "profile" /\ num_processed = [i \in 0 .. n |-> 0] /\ index = 1 /\ climb = 0
    /\ critical_call_sites = [i \in 0 .. n |-> NoSites]
    /\ workSpanMap = [s \in Sites |-> [work |-> 0, span |-> 0, call_count |-> 0]]
    /\ pass = Profiling /\ pending = <<>>

LEMMA LinesFound ==
    ASSUME NEW n \in Nat, NEW L, TreeOfLines(L, n)
    PROVE  LET K == [i \in 1 .. n |-> CHOOSE l \in L : l.node_id = i] IN LinesOf(K, L, n)
<1> DEFINE K == [i \in 1 .. n |-> CHOOSE l \in L : l.node_id = i]
<1>1. ASSUME NEW i \in 1 .. n
      PROVE  K[i] \in L /\ K[i].node_id = i
  BY DEF TreeOfLines
<1>2. K \in [1 .. n -> L]
  BY <1>1
<1> HIDE DEF K
<1>3. ASSUME NEW l \in L
      PROVE  K[l.node_id] = l
  BY <1>1 DEF TreeOfLines
<1>4. QED  BY <1>1, <1>2, <1>3 DEF LinesOf, K

LEMMA LinesBelow ==
    ASSUME NEW n \in Nat, NEW L, NEW K, TreeOfLines(L, n), LinesOf(K, L, n), NEW i
    PROVE  /\ IsFiniteSet({l \in L : l.step_parent = i})
           /\ Cardinality({l \in L : l.step_parent = i}) =
                 Cardinality({c \in 1 .. n : K[c].step_parent = i})
<1>1. PICK C, D : /\ C = {c \in 1 .. n : K[c].step_parent = i}
                  /\ D = {l \in L : l.step_parent = i}
  OBVIOUS
<1>2. \A l \in L : K[l.node_id] = l /\ l.node_id \in 1 .. n
  BY DEF TreeOfLines, LinesOf
<1>3. K \in [1 .. n -> L] /\ \A j \in 1 .. n : K[j].node_id = j
  BY DEF LinesOf
<1>4. IsFiniteSet(C)
  <2>1. IsFiniteSet(1 .. n)
    BY FS_Interval
  <2>2. C \in SUBSET (1 .. n)
    BY <1>1
  <2>3. QED  BY <2>1, <2>2, FS_Subset
<1>5. OnTo(K, C, D)
  BY <1>1, <1>2, <1>3 DEF OnTo
<1>6. IsFiniteSet(D) /\ Cardinality(D) = Cardinality(C)
  BY <1>4, <1>5, OneLineEach
<1>7. QED  BY <1>1, <1>6

LEMMA LinesCounted ==
    ASSUME NEW n \in Nat, NEW L, NEW K, TreeOfLines(L, n), LinesOf(K, L, n)
    PROVE  Cardinality(L) = n
<1>1. PICK C : C = 1 .. n
  OBVIOUS
<1>2. IsFiniteSet(C) /\ Cardinality(C) = n
  <2>1. IsFiniteSet(1 .. n) /\ Cardinality(1 .. n) = n
    BY FS_Interval
  <2>2. QED  BY <1>1, <2>1
<1>3. OnTo(K, C, L)
  BY <1>1 DEF OnTo, TreeOfLines, LinesOf
<1>4. Cardinality(L) = Cardinality(C)
  BY <1>2, <1>3, OneLineEach
<1>5. QED  BY <1>2, <1>4

LEMMA LinesRead ==
    ASSUME WorkSpanAssumption, NEW n \in Nat, NEW L, TreeOfLines(L, n), create_dpst(L)
    PROVE  \E K : LinesOf(K, L, n) /\ NodesRead(K, L, n)'
<1>1. PICK K : K = [i \in 1 .. n |-> CHOOSE l \in L : l.node_id = i]
  OBVIOUS
<1>2. LinesOf(K, L, n)
  BY <1>1, LinesFound
<1>3. Cardinality(L) = n
  BY <1>2, LinesCounted
<1>4. \A i \in 1 .. n : K[i] \in ALine
  BY <1>2 DEF LinesOf, TreeOfLines
<1>5. PICK G : G = tgraph_nodes'
  OBVIOUS
<1>6. PICK N : N = [i \in 1 .. n |->
            [parent |-> K[i].step_parent, type |-> K[i].node_type, call_site |-> K[i].ret_addr,
             num_children |-> Cardinality({l \in L : l.step_parent = i}),
             sp_root_n_wt_flag |-> K[i].node_type = FINISH /\ K[i].ret_addr # 0,
             region_work |-> K[i].region_work]]
  OBVIOUS
<1>7. PICK Z : Z = [parent |-> 0, type |-> NO_TYPE, call_site |-> 0, num_children |-> 0,
                    sp_root_n_wt_flag |-> FALSE, region_work |-> [r \in Regions |-> 0]]
  OBVIOUS
<1>8. G = [i \in 0 .. n |-> IF i = 0 THEN Z ELSE N[i]]
  <2>1. G = [i \in 0 .. n |->
                 IF i = 0
                 THEN [parent |-> 0, type |-> NO_TYPE, call_site |-> 0, num_children |-> 0,
                       sp_root_n_wt_flag |-> FALSE, region_work |-> [r \in Regions |-> 0]]
                 ELSE [parent |-> (CHOOSE l \in L : l.node_id = i).step_parent,
                       type |-> (CHOOSE l \in L : l.node_id = i).node_type,
                       call_site |-> (CHOOSE l \in L : l.node_id = i).ret_addr,
                       num_children |-> Cardinality({l \in L : l.step_parent = i}),
                       sp_root_n_wt_flag |-> (CHOOSE l \in L : l.node_id = i).node_type = FINISH
                                             /\ (CHOOSE l \in L : l.node_id = i).ret_addr # 0,
                       region_work |-> (CHOOSE l \in L : l.node_id = i).region_work]]
    BY <1>3, <1>5 DEF create_dpst
  <2>2. ASSUME NEW i \in 0 .. n, i # 0
        PROVE  N[i] = [parent |-> (CHOOSE l \in L : l.node_id = i).step_parent,
                       type |-> (CHOOSE l \in L : l.node_id = i).node_type,
                       call_site |-> (CHOOSE l \in L : l.node_id = i).ret_addr,
                       num_children |-> Cardinality({l \in L : l.step_parent = i}),
                       sp_root_n_wt_flag |-> (CHOOSE l \in L : l.node_id = i).node_type = FINISH
                                             /\ (CHOOSE l \in L : l.node_id = i).ret_addr # 0,
                       region_work |-> (CHOOSE l \in L : l.node_id = i).region_work]
    <3>1. i \in 1 .. n
      BY <2>2
    <3>2. K[i] = CHOOSE l \in L : l.node_id = i
      BY <1>1, <3>1
    <3>3. QED  BY <1>6, <3>1, <3>2
  <2>3. \A i \in 0 .. n : G[i] = IF i = 0 THEN Z ELSE N[i]
    BY <1>7, <2>1, <2>2
  <2>4. G = [i \in 0 .. n |-> G[i]]
    BY <2>1
  <2>5. QED  BY <2>3, <2>4
<1>9. Z \in TaskNode
  BY <1>7 DEF WorkSpanAssumption, TaskNode
<1>10. ASSUME NEW i \in 1 .. n
       PROVE  N[i] \in TaskNode
  <2>1. PICK l, d : l = K[i] /\ d = Cardinality({x \in L : x.step_parent = i})
    OBVIOUS
  <2>2. d \in Nat
    <3>1. PICK D : D = {x \in L : x.step_parent = i}
      OBVIOUS
    <3>2. IsFiniteSet({x \in L : x.step_parent = i})
      BY <1>2, LinesBelow
    <3>3. IsFiniteSet(D)
      BY <3>1, <3>2
    <3>4. Cardinality(D) \in Nat
      BY <3>3, FS_CardinalityType
    <3>5. QED  BY <2>1, <3>1, <3>4
  <2>3. l \in ALine
    BY <1>4, <2>1
  <2>4. N[i] = [parent |-> l.step_parent, type |-> l.node_type, call_site |-> l.ret_addr,
                num_children |-> d, sp_root_n_wt_flag |-> l.node_type = FINISH /\ l.ret_addr # 0,
                region_work |-> l.region_work]
    BY <1>6, <2>1
  <2>5. (l.node_type = FINISH /\ l.ret_addr # 0) \in BOOLEAN
    OBVIOUS
  <2>6. QED  BY <2>2, <2>3, <2>4, <2>5 DEF ALine, TaskNode
<1>11. \A i \in 0 .. n : i # 0 => i \in 1 .. n
  OBVIOUS
<1>12. G \in [0 .. n -> TaskNode] /\ DOMAIN G = 0 .. n
  BY <1>8, <1>9, <1>10, <1>11
<1>13. Ids' = 1 .. n
  BY <1>5, <1>12, IdsInRow DEF Ids
<1>14. ASSUME NEW i \in 1 .. n
       PROVE  /\ G[i].parent = K[i].step_parent
              /\ G[i].type = K[i].node_type
              /\ G[i].num_children = Cardinality({l \in L : l.step_parent = i})
  <2>1. i \in 0 .. n /\ i # 0
    OBVIOUS
  <2>2. G[i] = N[i]
    BY <1>8, <2>1
  <2>3. QED  BY <1>6, <2>2
<1>15. /\ t_prof' \in [0 .. n -> ProfilerData]
       /\ \A i \in 1 .. n : t_prof'[i].work = IF K[i].node_type = STEP THEN K[i].work ELSE 0
  <2>1. PICK R : R = [i \in 1 .. n |-> IF K[i].node_type = STEP
                                       THEN [NoProfile EXCEPT !.work = K[i].work] ELSE NoProfile]
    OBVIOUS
  <2>2. t_prof' = [i \in 0 .. n |->
             IF i # 0 /\ (CHOOSE l \in L : l.node_id = i).node_type = STEP
             THEN [NoProfile EXCEPT !.work = (CHOOSE l \in L : l.node_id = i).work] ELSE NoProfile]
    BY <1>3 DEF create_dpst
  <2>3. \A i \in 0 .. n : t_prof'[i] = IF i = 0 THEN NoProfile ELSE R[i]
    BY <1>1, <1>11, <2>1, <2>2
  <2>4. ASSUME NEW i \in 1 .. n
        PROVE  R[i] \in ProfilerData /\ R[i].work = IF K[i].node_type = STEP THEN K[i].work ELSE 0
    <3>1. PICK w \in Nat : w = K[i].work
      BY <1>4 DEF ALine
    <3>2. PICK r : r = [NoProfile EXCEPT !.work = w]
      OBVIOUS
    <3>3. r \in ProfilerData /\ r.work = w /\ NoProfile \in ProfilerData /\ NoProfile.work = 0
      BY <3>1, <3>2 DEF ProfilerData, NoProfile
    <3>4. QED  BY <2>1, <3>1, <3>2, <3>3
  <2>5. NoProfile \in ProfilerData
    BY DEF ProfilerData, NoProfile
  <2>6. t_prof' \in [0 .. n -> ProfilerData]
    BY <1>11, <2>2, <2>3, <2>4, <2>5
  <2>7. \A i \in 1 .. n : i \in 0 .. n /\ i # 0
    OBVIOUS
  <2>8. QED  BY <2>3, <2>4, <2>6, <2>7
<1>16. /\ phase' = "profile" /\ num_processed' = [i \in 0 .. n |-> 0] /\ index' = 1 /\ climb' = 0
       /\ critical_call_sites' = [i \in 0 .. n |-> NoSites]
       /\ workSpanMap' = [s \in Sites |-> [work |-> 0, span |-> 0, call_count |-> 0]]
       /\ pass' = Profiling /\ pending' = <<>>
  BY <1>3 DEF create_dpst
<1>17. NodesRead(K, L, n)'
  BY <1>5, <1>12, <1>13, <1>14, <1>15, <1>16 DEF NodesRead, NoSites, Profiling
<1>18. QED  BY <1>2, <1>17

LEMMA ReadStarts ==
    ASSUME WorkSpanAssumption, NEW n \in Nat, NEW L, TreeOfLines(L, n), create_dpst(L),
           finished, UNCHANGED <<before, finished>>
    PROVE  AInv'
<1>1. PICK K : LinesOf(K, L, n) /\ NodesRead(K, L, n)'
  BY LinesRead
<1>2. /\ K \in [1 .. n -> L]
      /\ \A i \in 1 .. n : /\ K[i] \in L /\ K[i].node_id = i
                           /\ K[i] \in ALine /\ K[i].step_parent < i
      /\ \A l \in L : l.node_id \in 1 .. n /\ K[l.node_id] = l
  BY <1>1 DEF LinesOf, TreeOfLines
<1>3. PICK G : G = tgraph_nodes'
  OBVIOUS
<1>4. /\ DOMAIN G = 0 .. n /\ Ids' = 1 .. n /\ G \in [0 .. n -> TaskNode]
      /\ \A i \in 1 .. n : /\ G[i].parent = K[i].step_parent /\ G[i].type = K[i].node_type
                           /\ G[i].num_children = Cardinality({l \in L : l.step_parent = i})
  BY <1>1, <1>3 DEF NodesRead
<1>5. \A i : Parent(i)' = G[i].parent
  BY <1>3 DEF Parent
<1>6. ASSUME NEW i
      PROVE  Children(i)' = {c \in 1 .. n : K[c].step_parent = i}
  BY <1>4, <1>5 DEF Children
<1>7. ASSUME NEW i \in 1 .. n
      PROVE  G[i].num_children = Cardinality(Children(i)')
  <2>1. LinesOf(K, L, n)
    BY <1>1
  <2>2. Cardinality({l \in L : l.step_parent = i}) =
           Cardinality({c \in 1 .. n : K[c].step_parent = i})
    BY <2>1, LinesBelow
  <2>3. QED  BY <1>4, <1>6, <2>2
<1>8. ASSUME NEW i \in 1 .. n, G[i].type = STEP
      PROVE  Children(i)' = {}
  <2>1. K[i] \in L /\ K[i].node_type = STEP /\ K[i].node_id = i
    BY <1>2, <1>4, <1>8
  <2>2. \A k \in L : k.step_parent # i
    BY <2>1 DEF TreeOfLines
  <2>3. QED  BY <1>2, <1>6, <2>2
<1>9. DOMAIN before = {i \in 1 .. n : G[i].type = STEP}
  <2>1. \A x : x \in DOMAIN before <=> \E l \in L : l.node_type = STEP /\ x = l.node_id
    BY DEF TreeOfLines
  <2>2. ASSUME NEW i \in 1 .. n, G[i].type = STEP
        PROVE  i \in DOMAIN before
    BY <1>2, <1>4, <2>1, <2>2
  <2>3. ASSUME NEW l \in L, l.node_type = STEP
        PROVE  l.node_id \in 1 .. n /\ G[l.node_id].type = STEP
    BY <1>2, <1>4, <2>3
  <2>4. QED  BY <2>1, <2>2, <2>3
<1>10. Tree'
  <2>1. \A i \in 1 .. n : /\ Parent(i)' < i /\ G[i].type \in {ASYNC, FINISH, STEP}
    BY <1>2, <1>4, <1>5 DEF ALine
  <2>2. DOMAIN before' = {i \in 1 .. n : G[i].type = STEP}
    BY <1>9
  <2>3. \E m \in Nat : DOMAIN G = 0 .. m
    BY <1>4
  <2>4. QED  BY <1>3, <1>4, <1>7, <1>8, <2>1, <2>2, <2>3 DEF Tree
<1>11. /\ phase' = "profile" /\ num_processed' = [i \in 0 .. n |-> 0] /\ index' = 1 /\ climb' = 0
       /\ critical_call_sites' = [i \in 0 .. n |-> NoSites]
       /\ workSpanMap' = [s \in Sites |-> [work |-> 0, span |-> 0, call_count |-> 0]]
       /\ pass' = Profiling /\ pending' = <<>> /\ t_prof' \in [0 .. n -> ProfilerData]
       /\ \A i \in 1 .. n : t_prof'[i].work = IF K[i].node_type = STEP THEN K[i].work ELSE 0
  BY <1>1 DEF NodesRead, NoSites, Profiling
<1>12. \A i : Told(i)' = {}
  <2>1. ASSUME NEW c \in 1 .. n
        PROVE  ~Calculated(c)'
    <3>1. c \in 0 .. n /\ ~(c < 1)
      OBVIOUS
    <3>2. num_processed'[c] = 0 /\ ~(c < index')
      BY <1>11, <3>1
    <3>3. QED  BY <3>2 DEF Calculated
  <2>2. \A i : Children(i)' \subseteq 1 .. n
    BY <1>6
  <2>3. QED  BY <2>1, <2>2 DEF Told
<1>13. Counts'
  <2>1. num_processed' \in [0 .. n -> Nat]
    BY <1>11
  <2>2. \A i \in 1 .. n : i \in 0 .. n /\ i # 0 /\ num_processed'[i] = 0
    BY <1>11
  <2>3. Cardinality({}) = 0 /\ Cardinality(1 .. n) = n
    BY FS_EmptySet, FS_Interval
  <2>4. \A i \in Ids' : num_processed'[i] + (IF climb' = i THEN 1 ELSE 0) = Cardinality(Told(i)')
    <3>1. ASSUME NEW i \in Ids'
          PROVE  /\ num_processed'[i] = 0 /\ climb' # i /\ Cardinality(Told(i)') = 0
      BY <1>4, <1>11, <1>12, <2>2, <2>3
    <3>2. QED  BY <3>1
  <2>5. \A i \in Ids' : num_processed'[i] > 0 => i < index'
    BY <1>4, <2>2
  <2>6. Cardinality(Ids') = n
    BY <1>4, <2>3
  <2>7. index' \in 1 .. Cardinality(Ids') + 1
    BY <1>11, <2>6
  <2>8. climb' \in Ids' \cup {0} /\ climb' < index'
    BY <1>11
  <2>9. QED  BY <1>3, <1>4, <2>1, <2>4, <2>5, <2>7, <2>8 DEF Counts
<1>14. DataTyped'
  <2>1. NoSites \in [Sites -> Nat]
    BY DEF NoSites
  <2>2. critical_call_sites' \in [0 .. n -> [Sites -> Nat]]
    BY <1>11, <2>1
  <2>3. workSpanMap' \in [Sites -> [work : Nat, span : Nat, call_count : Nat]]
    BY <1>11
  <2>4. pass' \in APass
    BY <1>11 DEF APass, Profiling
  <2>5. pending' \in Seq(APass)
    BY <1>11
  <2>6. QED  BY <1>3, <1>4, <1>11, <2>2, <2>3, <2>4, <2>5 DEF DataTyped
<1>15. WorkGathered'
  <2>1. ASSUME NEW x \in InnerNodes'
        PROVE  t_prof'[x].work = WorkOver(t_prof', Gathered(x)')
    <3>1. x \in 1 .. n /\ G[x].type # STEP
      BY <1>3, <1>4, <2>1 DEF InnerNodes
    <3>2. t_prof'[x].work = 0
      BY <1>4, <1>11, <3>1
    <3>3. Gathered(x)' = {}
      BY <1>11, <1>12 DEF Gathered, Got
    <3>4. QED  BY <3>2, <3>3, WorkOverNone
  <2>2. QED  BY <2>1 DEF WorkGathered
<1>16. QED  BY <1>10, <1>11, <1>13, <1>14, <1>15 DEF AInv

LEMMA EntriesTyped ==
    ASSUME TypeOK
    PROVE  \A e \in Entries : e \in LogEntry
<1>1. report \in [Threads -> Seq(LogEntry)]
  BY DEF TypeOK, GraphTypeOK
<1>2. ASSUME NEW t \in Threads, NEW e \in Logged(t)
      PROVE  e \in LogEntry
  <2>1. PICK r : r = report[t]
    OBVIOUS
  <2>2. r \in Seq(LogEntry)
    BY <1>1, <2>1
  <2>3. PICK i \in DOMAIN r : e = r[i]
    BY <2>1 DEF Logged
  <2>4. QED  BY <2>2, <2>3, ElementOfSeq
<1>3. QED  BY <1>2 DEF Entries

LEMMA OneEntryEach ==
    ASSUME IdsUnique
    PROVE  \A e, f \in Entries : e.node_id = f.node_id => e = f
<1>1. ASSUME NEW e \in Entries, NEW f \in Entries, e.node_id = f.node_id
      PROVE  e = f
  <2>1. PICK t \in Threads : e \in Logged(t)
    BY DEF Entries
  <2>2. PICK u \in Threads : f \in Logged(u)
    BY DEF Entries
  <2>3. t = u
    BY <1>1, <2>1, <2>2 DEF IdsUnique
  <2>4. PICK i \in DOMAIN report[t] : e = report[t][i]
    BY <2>1 DEF Logged
  <2>5. PICK j \in DOMAIN report[t] : f = report[t][j]
    BY <2>2, <2>3 DEF Logged
  <2>6. i = j
    BY <1>1, <2>4, <2>5 DEF IdsUnique
  <2>7. QED  BY <2>4, <2>5, <2>6
<1>2. QED  BY <1>1

LEMMA LineTyped ==
    ASSUME PipelineAssumption, WorkSpanAssumption, NEW e \in LogEntry, e.ret_addr \in EntrySites, NEW heavy
    PROVE  /\ Line(e, heavy) \in ALine
           /\ Line(e, heavy).node_id = e.node_id
           /\ Line(e, heavy).step_parent = e.step_parent
           /\ Line(e, heavy).node_type = e.node_type
<1>1. LIGHT \in Nat /\ HEAVY \in Nat /\ HEAVY - LIGHT \in Nat /\ e.ret_addr \in Sites
  BY DEF PipelineAssumption, WorkSpanAssumption, EntrySites
<1>2. PICK w, r : /\ w = IF e.node_type # STEP THEN 0
                         ELSE IF e.node_id \in DOMAIN heavy THEN HEAVY ELSE LIGHT
                  /\ r = [x \in Regions |-> IF e.node_id \in DOMAIN heavy /\ x \in heavy[e.node_id]
                                            THEN HEAVY - LIGHT ELSE 0]
  OBVIOUS
<1>3. w \in Nat /\ r \in [Regions -> Nat]
  BY <1>1, <1>2
<1>4. Line(e, heavy) = [ node_id |-> e.node_id, step_parent |-> e.step_parent,
                         node_type |-> e.node_type, ret_addr |-> e.ret_addr,
                         work |-> w, region_work |-> r ]
  BY <1>2 DEF Line
<1>5. QED  BY <1>1, <1>3, <1>4 DEF ALine, LogEntry

\* The files of a run that has ended.
LEMMA FilesAreATree ==
    ASSUME PipelineAssumption, WorkSpanAssumption, TypeOK, IdsUnique, LogComplete, TreeLogged,
           finished, NEW heavy, NEW n, n = last_allocated_node - 1, NEW L,
           L = {Line(e, heavy) : e \in Entries}
    PROVE  n \in Nat /\ TreeOfLines(L, n)
<1>1. n \in Nat /\ LoggedIds = 1 .. n
  BY DEF TypeOK, GraphTypeOK, LogComplete
<1>2. \A e \in Entries : /\ Line(e, heavy) \in L
                         /\ Line(e, heavy) \in ALine
                         /\ Line(e, heavy).node_id = e.node_id
                         /\ Line(e, heavy).step_parent = e.step_parent
                         /\ Line(e, heavy).node_type = e.node_type
  BY EntriesTyped, LineTyped DEF TreeLogged
<1>3. \A l \in L : \E e \in Entries : l = Line(e, heavy)
  OBVIOUS
<1>4. \A e \in Entries : e.node_id \in 1 .. n /\ e.step_parent < e.node_id
  BY <1>1 DEF LoggedIds, IdsUnique
<1>5. \A e, f \in Entries : e.node_id = f.node_id => e = f
  BY OneEntryEach
<1>6. \A l \in L : l \in ALine /\ l.node_id \in 1 .. n /\ l.step_parent < l.node_id
  BY <1>2, <1>3, <1>4
<1>7. \A k, l \in L : k.node_id = l.node_id => k = l
  BY <1>2, <1>3, <1>5
<1>8. \A i \in 1 .. n : \E l \in L : l.node_id = i
  <2>1. \A i \in 1 .. n : \E e \in Entries : e.node_id = i
    BY <1>1 DEF LoggedIds
  <2>2. QED  BY <1>2, <2>1
<1>9. ASSUME NEW l \in L, NEW k \in L, k.step_parent = l.node_id
      PROVE  l.node_type # STEP
  <2>1. PICK e \in Entries : l = Line(e, heavy)
    BY <1>3
  <2>2. PICK f \in Entries : k = Line(f, heavy)
    BY <1>3
  <2>3. f.step_parent = e.node_id /\ e.node_id \in 1 .. n
    BY <1>2, <1>4, <1>9, <2>1, <2>2
  <2>4. e.node_id # 0
    BY <2>3
  <2>5. e.node_id \in InnerLogged
    BY <2>3, <2>4 DEF TreeLogged
  <2>6. PICK d \in Entries : d.node_type # STEP /\ d.node_id = e.node_id
    BY <2>5 DEF InnerLogged
  <2>7. d = e
    BY <1>5, <2>6
  <2>8. QED  BY <1>2, <2>1, <2>6, <2>7
<1>10. ASSUME NEW x
       PROVE  x \in DOMAIN before <=> \E l \in L : l.node_type = STEP /\ x = l.node_id
  <2>1. x \in DOMAIN before <=> \E e \in Entries : e.node_type = STEP /\ x = e.node_id
    BY DEF TreeLogged
  <2>2. QED  BY <1>2, <1>3, <2>1
<1>11. QED  BY <1>1, <1>6, <1>7, <1>8, <1>9, <1>10 DEF TreeOfLines

(******************************************************************************)
(* The theorems                                                               *)
(******************************************************************************)
LEMMA LoadKeeps ==
    ASSUME PipelineAssumption, WorkSpanAssumption, TypeOK, IdsUnique, LogComplete, TreeLogged, Load
    PROVE  AInv'
<1>1. finished /\ UNCHANGED vars
  BY DEF Load
<1>2. PICK heavy : create_dpst({Line(e, heavy) : e \in Entries})
  BY DEF Load
<1>3. PICK n, L : n = last_allocated_node - 1 /\ L = {Line(e, heavy) : e \in Entries}
  OBVIOUS
<1>4. create_dpst(L)
  BY <1>2, <1>3
<1>5. n \in Nat /\ TreeOfLines(L, n)
  BY <1>1, <1>3, FilesAreATree
<1>6. UNCHANGED <<before, finished>>
  BY <1>1 DEF vars, scheduler, program
<1>7. QED  BY <1>1, <1>4, <1>5, <1>6, ReadStarts

LEMMA InitIdle ==
    ASSUME AnalysisInit
    PROVE  AInv
<1>1. /\ phase = "idle" /\ tgraph_nodes = [i \in {} |-> 0]
      /\ t_prof = [i \in {} |-> 0] /\ critical_call_sites = [i \in {} |-> 0]
      /\ num_processed = [i \in {} |-> 0] /\ index = 1 /\ climb = 0
      /\ workSpanMap = [s \in Sites |-> [work |-> 0, span |-> 0, call_count |-> 0]]
      /\ pass = Profiling /\ pending = <<>>
  BY DEF AnalysisInit
<1>2. DOMAIN tgraph_nodes = {}
  BY <1>1
<1>3. Ids = {}
  BY <1>2, IdleIds
<1>4. Counts
  <2>1. num_processed \in [DOMAIN tgraph_nodes -> Nat]
    BY <1>1, <1>2, NoNodes
  <2>2. Cardinality(Ids) = 0
    BY <1>3, FS_EmptySet
  <2>3. index \in 1 .. Cardinality(Ids) + 1
    BY <1>1, <2>2
  <2>4. climb \in Ids \cup {0} /\ climb < index
    BY <1>1
  <2>5. QED  BY <1>3, <2>1, <2>3, <2>4 DEF Counts
<1>5. DataTyped
  <2>1. /\ t_prof \in [DOMAIN tgraph_nodes -> ProfilerData]
        /\ critical_call_sites \in [DOMAIN tgraph_nodes -> [Sites -> Nat]]
    BY <1>1, <1>2, NoNodes
  <2>2. workSpanMap \in [Sites -> [work : Nat, span : Nat, call_count : Nat]]
    BY <1>1
  <2>3. pass \in APass
    BY <1>1 DEF APass, Profiling
  <2>4. pending \in Seq(APass)
    BY <1>1
  <2>5. QED  BY <2>1, <2>2, <2>3, <2>4 DEF DataTyped
<1>6. QED  BY <1>1, <1>4, <1>5 DEF AInv

\* Nothing of the analysis changes, or of what it takes from the run.
LEMMA AnalysisStays ==
    ASSUME AInv, UNCHANGED analysis, phase = "idle" \/ UNCHANGED <<before, finished>>
    PROVE  AInv'
<1>1. UNCHANGED <<phase, tgraph_nodes, t_prof, critical_call_sites, workSpanMap,
                  num_processed, index, climb, pass, pending>>
  BY DEF analysis, loop
<1>2. DataTyped => DataTyped'
  BY <1>1 DEF DataTyped
<1>3. Ids' = Ids /\ \A p : Told(p)' = Told(p)
  <2>1. Ids' = Ids
    BY <1>1 DEF Ids
  <2>2. \A p : Children(p)' = Children(p)
    BY <1>1, <2>1 DEF Children, Parent
  <2>3. QED  BY <1>1, <2>1, <2>2 DEF Told, Calculated
<1>4. Counts => Counts'
  BY <1>1, <1>3 DEF Counts
<1>5. CASE phase = "idle"
  BY <1>1, <1>2, <1>4, <1>5 DEF AInv
<1>6. CASE phase # "idle" /\ UNCHANGED <<before, finished>>
  <2>1. finished /\ Tree /\ Counts /\ DataTyped /\ WorkGathered
        /\ phase \in {"profile", "region", "done"}
    BY <1>6 DEF AInv
  <2>2. Tree'
    BY <1>1, <1>6, <2>1, SameTree
  <2>3. InnerNodes' = InnerNodes /\ \A n : StepsBelow(n)' = StepsBelow(n)
    BY <1>1, <1>6, SameTree
  <2>4. \A n : Gathered(n)' = Gathered(n)
    <3>1. \A n : Ancestry(n)' = Ancestry(n)
      BY <1>1, <1>6, SameTree
    <3>2. \A n : Got(n)' = Got(n)
      BY <1>3, <2>3, <3>1 DEF Got
    <3>3. QED  BY <1>1, <2>3, <3>2 DEF Gathered
  <2>5. WorkGathered'
    BY <1>1, <2>1, <2>3, <2>4 DEF WorkGathered
  <2>6. QED  BY <1>1, <1>2, <1>4, <1>6, <2>1, <2>2, <2>5 DEF AInv
<1>7. QED  BY <1>5, <1>6

LEMMA NextAnalysis ==
    ASSUME PipelineAssumption, WorkSpanAssumption, TypeOK, IdsUnique, LogComplete, TreeLogged,
           AInv, [PipelineNext]_PipelineVars
    PROVE  AInv'
<1>1. CASE ~finished /\ Next /\ UNCHANGED analysis
  <2>1. phase = "idle"
    BY <1>1 DEF AInv
  <2>2. QED  BY <1>1, <2>1, AnalysisStays
<1>2. CASE Load
  BY <1>2, LoadKeeps
<1>3. CASE AnalysisNext /\ UNCHANGED vars
  <2>1. UNCHANGED <<before, finished>>
    BY <1>3 DEF vars, scheduler, program
  <2>2. QED  BY <1>3, <2>1, AnalysisKeeps
<1>4. CASE UNCHANGED PipelineVars
  <2>1. UNCHANGED analysis /\ UNCHANGED <<before, finished>>
    BY <1>4 DEF PipelineVars, vars, scheduler, program
  <2>2. QED  BY <2>1, AnalysisStays
<1>5. QED  BY <1>1, <1>2, <1>3, <1>4 DEF PipelineNext

\* What the files say does not depend on there being an analysis of them.
LEMMA RunOfCollection == PipelineSpec => Spec
<1>1. PipelineInit => Init
  BY DEF PipelineInit
<1>2. [PipelineNext]_PipelineVars => [Next]_vars
  BY DEF PipelineNext, PipelineVars, Load
<1>3. QED  BY <1>1, <1>2, PTL DEF PipelineSpec, Spec

(* The invariant of the analysis: while gentprof goes over the tree it has    *)
(* read, num_processed counts the calculated children of a node, and the work *)
(* of a node is that of the steps below these; in a what-if pass, of all.     *)
THEOREM WorkOnItsWay == PipelineSpec => []AInv
<1>1. PipelineInit => AInv
  BY InitIdle DEF PipelineInit
<1>2. IInv => TypeOK
  BY DEF IInv
<1>3. /\ TypeOK /\ IdsUnique /\ LogComplete /\ TreeLogged /\ AInv
      /\ [PipelineNext]_PipelineVars
      => AInv'
  BY NextAnalysis, PipelineAssumption, WorkSpanAssumption
<1>4. QED  BY <1>1, <1>2, <1>3, RunOfCollection, Invariance, UniqueIds, CompleteLog, TreeInReports,
           PTL DEF PipelineSpec

(* Type correctness of the analysis; no node is told of more children than it *)
(* has, so calculateRecurse calculates it once in a pass.                     *)
THEOREM AnalysisTypes == PipelineSpec => []AnalysisTypeOK
<1>1. AInv => AnalysisTypeOK
  BY InvTypeOK
<1>2. QED  BY <1>1, WorkOnItsWay, PTL

(* The work that calculateWorkSpan gives a task or finish is that of all the  *)
(* steps beneath it, each counted once, whatever program was run and however  *)
(* its threads interleaved, and no what-if pass changes it.                   *)
THEOREM WorkTotal == PipelineSpec => []WorkIsTotal
<1>1. AInv => WorkIsTotal
  BY InvWorkIsTotal
<1>2. QED  BY <1>1, WorkOnItsWay, PTL

================================================================================
