------------------------ MODULE CollectionOrder_proofs -------------------------
(******************************************************************************)
(* The tree is the program's order (TreeIsProgramOrder), for any number of    *)
(* workers and tasks and for every program that waits only when it has        *)
(* something to wait for and does not spawn after a spawn_root_and_wait among *)
(* spawned children.                                                          *)
(*                                                                            *)
(* The argument has three parts.                                              *)
(*                                                                            *)
(* 1. Trees and tasks in themselves.  Two steps are apart if the least node   *)
(*    on the path to one of them only is an ASYNC.  Ordered says that all     *)
(*    pairs of steps are apart exactly if neither happened before the other,  *)
(*    and what makes this inductive: that the past of each task that has not  *)
(*    ended is the steps in series with the place where its next node will    *)
(*    be, that the tasks' places are apart from each other, and that an id    *)
(*    handed out beforehand is still the last under its parent when it is     *)
(*    used.  It is kept by what can happen: a step is done, an implicit       *)
(*    FINISH opened, a task spawned, ended, joined.                           *)
(* 2. The state has such a tree (OInv): the entries in the reports are its    *)
(*    nodes, and the stacks, the map and the frames say where the tasks are.  *)
(*    Every action does one of the things of part 1, or nothing.              *)
(* 3. After Fini no id is missing, so the paths that the analysis follows     *)
(*    from parent to parent are those of the tree.                            *)
(******************************************************************************)
EXTENDS CollectionTree_proofs, NaturalsInduction, WellFoundedInduction

(******************************************************************************)
(* Paths                                                                      *)
(******************************************************************************)

Diff(p, q) == (p \ q) \cup (q \ p)

\* The least node on one of the paths p and q only is one of the ASYNC nodes W.
Apart(W, p, q) == \E c \in W : c \in Diff(p, q) /\ \A m \in Diff(p, q) : c <= m

LEMMA ApartBothWays ==
    ASSUME NEW W, NEW p, NEW q
    PROVE  Apart(W, p, q) <=> Apart(W, q, p)
<1>1. Diff(p, q) = Diff(q, p)
  BY DEF Diff
<1>2. QED  BY <1>1 DEF Apart

LEMMA NeverApart ==
    ASSUME NEW W, NEW p
    PROVE  ~Apart(W, p, p)
  BY DEF Apart, Diff

\* A node below both sides' least difference changes nothing, be it ASYNC or not.
LEMMA ApartExtends ==
    ASSUME NEW p \in SUBSET Nat, NEW q \in SUBSET Nat, NEW x \in Nat, x \notin p, x \notin q,
           NEW c \in Diff(p, q), c < x,
           NEW V, NEW W, \A y : y # x => (y \in V <=> y \in W)
    PROVE  Apart(V, p, q \cup {x}) <=> Apart(W, p, q)
<1>1. Diff(p, q \cup {x}) = Diff(p, q) \cup {x} /\ x \notin Diff(p, q)
  BY DEF Diff
<1>2. Diff(p, q) \subseteq Nat
  BY DEF Diff
<1>3. ASSUME Apart(V, p, q \cup {x})
      PROVE  Apart(W, p, q)
  <2>1. PICK b \in V : b \in Diff(p, q) \cup {x} /\ \A m \in Diff(p, q) \cup {x} : b <= m
    BY <1>1, <1>3 DEF Apart
  <2>2. b # x
    BY <1>2, <2>1
  <2>3. QED  BY <2>1, <2>2 DEF Apart
<1>4. ASSUME Apart(W, p, q)
      PROVE  Apart(V, p, q \cup {x})
  <2>1. PICK b \in W : b \in Diff(p, q) /\ \A m \in Diff(p, q) : b <= m
    BY <1>4 DEF Apart
  <2>2. b <= x /\ b # x
    BY <1>1, <1>2, <2>1
  <2>3. QED  BY <1>1, <2>1, <2>2 DEF Apart
<1>5. QED  BY <1>3, <1>4

\* The same paths, with an ASYNC node more elsewhere.
LEMMA ApartElsewhere ==
    ASSUME NEW p, NEW q, NEW x, x \notin p, x \notin q,
           NEW V, NEW W, \A y : y # x => (y \in V <=> y \in W)
    PROVE  Apart(V, p, q) <=> Apart(W, p, q)
  BY DEF Apart, Diff

\* up[n] is the path from the head to n, n included.
PathsUp(up) ==
    /\ DOMAIN up \subseteq Nat \ {0}
    /\ \A n \in DOMAIN up : n \in up[n] /\ up[n] \subseteq DOMAIN up
    /\ \A n \in DOMAIN up : \A m \in up[n] : m <= n /\ \A x : x \in up[m] <=> x \in up[n] /\ x <= m

\* Node x has come under node a.
Grows(A, B, a, x) ==
    /\ a \in DOMAIN A.up /\ x \in Nat /\ x \notin DOMAIN A.up /\ a < x
    /\ DOMAIN B.up = DOMAIN A.up \cup {x}
    /\ B.up[x] = A.up[a] \cup {x}
    /\ \A n \in DOMAIN A.up : B.up[n] = A.up[n]
    /\ \A y : y # x => (y \in B.asy <=> y \in A.asy)

LEMMA PathsGrow ==
    ASSUME NEW A, NEW B, NEW a, NEW x, PathsUp(A.up), Grows(A, B, a, x)
    PROVE  PathsUp(B.up) /\ \A n \in DOMAIN A.up : x \notin A.up[n]
<1>0. PICK up, v : up = A.up /\ v = B.up
  OBVIOUS
<1>1. /\ a \in DOMAIN up /\ x \in Nat /\ x \notin DOMAIN up /\ a < x
      /\ DOMAIN v = DOMAIN up \cup {x}
      /\ v[x] = up[a] \cup {x}
      /\ \A n \in DOMAIN up : v[n] = up[n]
  BY <1>0 DEF Grows
<1>2. \A n \in DOMAIN up : n \in up[n] /\ up[n] \subseteq DOMAIN up /\ n \in Nat \ {0} /\ x \notin up[n]
  BY <1>0, <1>1 DEF PathsUp
<1>3. \A n \in DOMAIN up : \A m \in up[n] :
          m <= n /\ \A y : y \in up[m] <=> y \in up[n] /\ y <= m
  BY <1>0 DEF PathsUp
<1>4. \A n \in DOMAIN v : n \in v[n] /\ v[n] \subseteq DOMAIN v /\ n \in Nat \ {0}
  BY <1>1, <1>2
<1>5. ASSUME NEW n \in DOMAIN v, NEW m \in v[n]
      PROVE  m <= n /\ \A y : y \in v[m] <=> y \in v[n] /\ y <= m
  <2>1. CASE n \in DOMAIN up
    BY <1>1, <1>2, <1>3, <2>1
  <2>2. CASE n = x /\ m = x
    <3>1. \A y \in v[x] : y <= x
      BY <1>1, <1>2, <1>3
    <3>2. QED  BY <2>2, <3>1
  <2>3. CASE n = x /\ m \in up[a]
    <3>1. m \in DOMAIN up /\ m <= a /\ m \in Nat /\ a \in Nat /\ v[m] = up[m]
      BY <1>1, <1>2, <1>3, <2>3
    <3>2. m <= x /\ ~(x <= m)
      BY <1>1, <3>1
    <3>3. \A y : y \in up[m] <=> y \in up[a] /\ y <= m
      BY <1>1, <1>3, <2>3
    <3>4. QED  BY <1>1, <2>3, <3>1, <3>2, <3>3
  <2>4. QED  BY <1>1, <2>1, <2>2, <2>3
<1>6. PathsUp(v)
  BY <1>4, <1>5 DEF PathsUp
<1>7. QED  BY <1>0, <1>2, <1>6

\* A node x put under a, or taken from there, leaves the paths to n and to it in
\* the order in which those to n and a are, if it is the last below a.
LEMMA OrderKept ==
    ASSUME NEW up, PathsUp(up), NEW n \in DOMAIN up, NEW a \in DOMAIN up, n # a,
           NEW x \in Nat, x \notin up[n], x \notin up[a], a < x,
           a \in up[n] => \E c \in up[n] : a < c /\ c < x,
           NEW V, NEW W, \A y : y # x => (y \in V <=> y \in W)
    PROVE  Apart(V, up[n], up[a] \cup {x}) <=> Apart(W, up[n], up[a])
<1>1. /\ up[n] \in SUBSET Nat /\ up[a] \in SUBSET Nat /\ a \in up[a] /\ a \in Nat
      /\ \A m \in up[a] : m <= a
  BY DEF PathsUp
<1>2. PICK c : c \in Diff(up[n], up[a]) /\ c < x
  <2>1. CASE a \notin up[n]
    BY <1>1, <2>1 DEF Diff
  <2>2. CASE a \in up[n]
    <3>1. PICK c \in up[n] : a < c /\ c < x
      BY <2>2
    <3>2. c \notin up[a]
      BY <1>1, <3>1
    <3>3. QED  BY <3>1, <3>2 DEF Diff
  <2>3. QED  BY <2>1, <2>2
<1>3. PICK p, q : p = up[n] /\ q = up[a]
  OBVIOUS
<1>4. p \in SUBSET Nat /\ q \in SUBSET Nat /\ x \notin p /\ x \notin q /\ c \in Diff(p, q)
  BY <1>1, <1>2, <1>3
<1>5. Apart(V, p, q \cup {x}) <=> Apart(W, p, q)
  BY <1>2, <1>4, ApartExtends
<1>6. QED  BY <1>3, <1>5


\* The paths to two nodes that were there are in the order they were in.
LEMMA OrderStays ==
    ASSUME NEW A, NEW B, NEW a, NEW x, PathsUp(A.up), Grows(A, B, a, x)
    PROVE  \A m, n \in DOMAIN A.up :
              Apart(B.asy, B.up[m], B.up[n]) <=> Apart(A.asy, A.up[m], A.up[n])
<1> SUFFICES ASSUME NEW m \in DOMAIN A.up, NEW n \in DOMAIN A.up
             PROVE  Apart(B.asy, B.up[m], B.up[n]) <=> Apart(A.asy, A.up[m], A.up[n])
  OBVIOUS
<1>1. PICK p, q, V, W : p = A.up[m] /\ q = A.up[n] /\ V = B.asy /\ W = A.asy
  OBVIOUS
<1>2. x \notin p /\ x \notin q
  BY <1>1, PathsGrow
<1>3. B.up[m] = p /\ B.up[n] = q /\ \A y : y # x => (y \in V <=> y \in W)
  BY <1>1 DEF Grows
<1>4. Apart(V, p, q) <=> Apart(W, p, q)
  BY <1>2, <1>3, ApartElsewhere
<1>5. QED  BY <1>1, <1>3, <1>4

\* On every path beyond p that f is not on, the next node after p is before f.
LastIn(up, p, f) ==
    \A n \in DOMAIN up : p \in up[n] /\ n # p /\ f \notin up[n] => \E c \in up[n] : p < c /\ c < f

LEMMA OrderOfNew ==
    ASSUME NEW A, NEW B, NEW a, NEW x, PathsUp(A.up), Grows(A, B, a, x),
           LastIn(A.up, a, x), NEW n \in DOMAIN A.up, n # a
    PROVE  /\ Apart(B.asy, B.up[n], B.up[x]) <=> Apart(A.asy, A.up[n], A.up[a])
           /\ Apart(B.asy, B.up[x], B.up[n]) <=> Apart(A.asy, A.up[a], A.up[n])
<1>1. PICK up, V, W : up = A.up /\ V = B.asy /\ W = A.asy
  OBVIOUS
<1>2. /\ PathsUp(up) /\ n \in DOMAIN up /\ a \in DOMAIN up /\ x \in Nat /\ a < x
      /\ x \notin up[n] /\ x \notin up[a]
      /\ \A y : y # x => (y \in V <=> y \in W)
  BY <1>1, PathsGrow DEF Grows
<1>3. a \in up[n] => \E c \in up[n] : a < c /\ c < x
  BY <1>1, <1>2 DEF LastIn
<1>4. Apart(V, up[n], up[a] \cup {x}) <=> Apart(W, up[n], up[a])
  BY <1>2, <1>3, OrderKept
<1>5. B.up[n] = up[n] /\ B.up[x] = up[a] \cup {x}
  BY <1>1 DEF Grows
<1>6. QED  BY <1>1, <1>4, <1>5, ApartBothWays

\* The new node and the one it is under differ in it alone.
LEMMA OrderOfParent ==
    ASSUME NEW A, NEW B, NEW a, NEW x, PathsUp(A.up), Grows(A, B, a, x)
    PROVE  /\ Apart(B.asy, B.up[a], B.up[x]) <=> x \in B.asy
           /\ Apart(B.asy, B.up[x], B.up[a]) <=> x \in B.asy
<1>1. B.up[a] = A.up[a] /\ B.up[x] = A.up[a] \cup {x} /\ x \notin A.up[a] /\ x \in Nat
  BY PathsGrow DEF Grows
<1>2. Diff(B.up[a], B.up[x]) = {x}
  BY <1>1 DEF Diff
<1>3. Apart(B.asy, B.up[a], B.up[x]) <=> x \in B.asy
  BY <1>1, <1>2 DEF Apart
<1>4. QED  BY <1>3, ApartBothWays

LEMMA LastInGrows ==
    ASSUME NEW A, NEW B, NEW a, NEW x, PathsUp(A.up), Grows(A, B, a, x),
           NEW p \in DOMAIN A.up, NEW f, LastIn(A.up, p, f), a # p
    PROVE  LastIn(B.up, p, f)
<1>1. ASSUME NEW n \in DOMAIN B.up, p \in B.up[n], n # p, f \notin B.up[n]
      PROVE  \E c \in B.up[n] : p < c /\ c < f
  <2>1. CASE n \in DOMAIN A.up
    BY <1>1, <2>1 DEF Grows, LastIn
  <2>2. CASE n = x
    <3>1. B.up[x] = A.up[a] \cup {x} /\ p # x /\ a \in DOMAIN A.up
      BY DEF Grows
    <3>2. p \in A.up[a] /\ f \notin A.up[a]
      BY <1>1, <2>2, <3>1
    <3>3. \E c \in A.up[a] : p < c /\ c < f
      BY <3>1, <3>2 DEF LastIn
    <3>4. QED  BY <2>2, <3>1, <3>3
  <2>3. QED  BY <2>1, <2>2 DEF Grows
<1>2. QED  BY <1>1 DEF LastIn

\* A node beyond all there are is last under any of them.
LEMMA LastInAll ==
    ASSUME NEW up, PathsUp(up), NEW p \in DOMAIN up, NEW f \in Nat, \A n \in DOMAIN up : n < f
    PROVE  LastIn(up, p, f)
<1>1. ASSUME NEW n \in DOMAIN up, p \in up[n], n # p
      PROVE  \E c \in up[n] : p < c /\ c < f
  <2>1. n \in up[n] /\ p <= n /\ n \in Nat /\ p \in Nat
    BY <1>1 DEF PathsUp
  <2>2. p < n /\ n < f
    BY <1>1, <2>1
  <2>3. QED  BY <2>1, <2>2
<1>2. QED  BY <1>1 DEF LastIn

(******************************************************************************)
(* The invariant of a tree and its tasks                                      *)
(*                                                                            *)
(* A is a record: of the tree, up, the paths; asy, the ASYNC nodes; steps;    *)
(* own, the task of a step; before, the steps before a step.  Of the tasks,   *)
(* reg, those with a node; live, those of them that have not ended; past,     *)
(* above, as in Collection; node, the task's node; fin, the implicit FINISH   *)
(* it has open, root, the root task it is in a call for, next, the id its     *)
(* step will have; the last three are 0 for none.                             *)
(******************************************************************************)

\* The place under which task k puts nodes now.
Pos(A, k) == IF A.fin[k] = 0 THEN A.node[k] ELSE A.fin[k]

\* Node x is below the root task that k waits for.
InRoot(A, k, x) == A.root[k] # 0 /\ A.node[A.root[k]] \in A.up[x]

\* Node x is below what k has spawned and not joined yet.
Inside(A, k, x) == IF A.fin[k] # 0 THEN A.fin[k] \in A.up[x] ELSE InRoot(A, k, x)

Paths(A) ==
    /\ PathsUp(A.up)
    /\ A.steps \subseteq DOMAIN A.up /\ A.asy \subseteq DOMAIN A.up /\ A.steps \cap A.asy = {}
    /\ A.live \subseteq A.reg
    /\ \A k \in A.reg : A.node[k] \in DOMAIN A.up \ A.steps
    /\ \A j, k \in A.reg : A.node[j] = A.node[k] => j = k

\* An implicit FINISH is under the task's node, the last there, and nobody else's.
Finishes(A) ==
    \A k \in A.live : A.fin[k] # 0 =>
        /\ A.fin[k] \in (DOMAIN A.up \ A.steps) \ A.asy
        /\ \A m \in A.reg : A.node[m] # A.fin[k]
        /\ \A j \in A.live : A.fin[j] = A.fin[k] => j = k
        /\ A.up[A.fin[k]] = A.up[A.node[k]] \cup {A.fin[k]} /\ A.node[k] < A.fin[k]
        /\ LastIn(A.up, A.node[k], A.fin[k])

\* A root task is under the place of the task that waits for it.
RootAt(A, k, r) ==
    /\ r \in A.reg /\ A.node[r] \notin A.asy /\ A.next[k] = 0
    /\ A.up[A.node[r]] = A.up[Pos(A, k)] \cup {A.node[r]}
    /\ Pos(A, k) < A.node[r]
    /\ k \in A.above[r]

Roots(A) == \A k \in A.live : A.root[k] # 0 => RootAt(A, k, A.root[k])

Ancestors(A) ==
    \A k \in A.reg : A.above[k] \subseteq A.reg /\ \A j \in A.above[k] : A.above[j] \subseteq A.above[k]

\* The tasks whose nodes are above a step are its task and that task's ancestors.
Owned(A) ==
    \A s \in A.steps :
        /\ A.own[s] \in A.reg /\ s \in A.past[A.own[s]]
        /\ \A m \in A.reg : A.node[m] \in A.up[s] <=> m \in A.above[A.own[s]] \/ m = A.own[s]

\* So are those above the place of a task.
Settled(A) ==
    \A k \in A.live : \A m \in A.reg :
        A.node[m] \in A.up[Pos(A, k)] <=> m \in A.above[k] \/ m = k

\* The next step of a task comes after all that its past has and that is under
\* its place.
NextIsLast(A) ==
    \A k \in A.live : A.next[k] # 0 =>
        /\ A.next[k] \in Nat /\ Pos(A, k) < A.next[k]
        /\ \A s \in A.past[k] : s < A.next[k]
        /\ LastIn(A.up, Pos(A, k), A.next[k])

Pasts(A) ==
    /\ \A k \in A.reg : A.past[k] \subseteq A.steps
    /\ \A s \in A.steps : A.before[s] \subseteq A.steps

\* The past of a task is the steps in series with its place, those of the root
\* task it waits for excepted.
Serial(A) ==
    \A k \in A.live : \A s \in A.steps :
        s \in A.past[k] <=> ~Apart(A.asy, A.up[s], A.up[Pos(A, k)]) /\ ~InRoot(A, k, s)

\* Two tasks that have not ended are in parallel, or one waits for the other.
Parallel(A) ==
    \A j, k \in A.live : j # k =>
        \/ Apart(A.asy, A.up[Pos(A, j)], A.up[Pos(A, k)])
        \/ InRoot(A, j, Pos(A, k)) \/ InRoot(A, k, Pos(A, j))

\* The tree has the steps in their order.
Recorded(A) ==
    \A r, s \in A.steps : r < s =>
        /\ r \in A.before[s] <=> ~Apart(A.asy, A.up[r], A.up[s])
        /\ s \notin A.before[r]

\* What a join will add to the past of a task is in the tree below what it
\* has spawned.
RootPasts(A) ==
    \A j \in A.live : A.root[j] # 0 => \A d \in A.reg : d = A.root[j] \/ A.root[j] \in A.above[d] =>
        \A s \in A.past[d] : s \in A.past[j] \/ A.node[A.root[j]] \in A.up[s]

KidPasts(A) ==
    \A j \in A.live : \A d \in A.reg : j \in A.above[d] =>
        \A s \in A.past[d] : s \in A.past[j] \/ Inside(A, j, s)

KidsInside(A) ==
    \A j, k \in A.live : j \in A.above[k] => Inside(A, j, Pos(A, k))

Ordered(A) ==
    /\ Paths(A) /\ Finishes(A) /\ Roots(A) /\ Ancestors(A) /\ Owned(A) /\ Settled(A) /\ NextIsLast(A)
    /\ Pasts(A) /\ Serial(A) /\ Parallel(A) /\ Recorded(A)
    /\ RootPasts(A) /\ KidPasts(A) /\ KidsInside(A)

\* Where the tasks are.
LEMMA PosIs ==
    ASSUME NEW A, Paths(A), Finishes(A), NEW k \in A.live
    PROVE  /\ k \in A.reg /\ A.node[k] \in DOMAIN A.up \ A.steps
           /\ Pos(A, k) \in DOMAIN A.up \ A.steps /\ Pos(A, k) \in Nat
           /\ \A m \in A.reg : A.node[m] = Pos(A, k) => m = k
           /\ \A j \in A.live : Pos(A, j) = Pos(A, k) => j = k
<1>1. k \in A.reg /\ A.node[k] \in DOMAIN A.up \ A.steps
  BY DEF Paths
<1>2. Pos(A, k) \in DOMAIN A.up \ A.steps
  BY <1>1 DEF Pos, Finishes
<1>3. \A m \in A.reg : A.node[m] = Pos(A, k) => m = k
  BY <1>1 DEF Pos, Paths, Finishes
<1>4. \A j \in A.live : Pos(A, j) = Pos(A, k) => j = k
  <2> SUFFICES ASSUME NEW j \in A.live, Pos(A, j) = Pos(A, k)
               PROVE  j = k
    OBVIOUS
  <2>1. j \in A.reg
    BY DEF Paths
  <2>2. CASE A.fin[j] = 0
    BY <1>3, <2>1, <2>2 DEF Pos
  <2>3. CASE A.fin[j] # 0
    BY <1>1, <2>1, <2>3 DEF Pos, Finishes
  <2>4. QED  BY <2>2, <2>3
<1>5. Pos(A, k) \in Nat
  BY <1>2 DEF Paths, PathsUp
<1>6. QED  BY <1>1, <1>2, <1>3, <1>4, <1>5

\* The tasks are the same, and where they are.
SameFrames(A, B) ==
    /\ B.reg = A.reg
    /\ \A j \in A.reg : B.node[j] = A.node[j] /\ B.above[j] = A.above[j]
    /\ \A j \in A.live : B.fin[j] = A.fin[j] /\ B.root[j] = A.root[j]

\* Task k has done step x.
StepDone(A, B, k, x) ==
    /\ k \in A.live /\ A.root[k] = 0 /\ A.next[k] = x /\ x # 0
    /\ Grows(A, B, Pos(A, k), x) /\ B.asy = A.asy
    /\ B.steps = A.steps \cup {x}
    /\ B.own[x] = k /\ B.before[x] = A.past[k]
    /\ \A s \in A.steps : B.own[s] = A.own[s] /\ B.before[s] = A.before[s]
    /\ \A j \in A.reg : B.past[j] = IF j = k THEN A.past[k] \cup {x} ELSE A.past[j]
    /\ B.live = A.live /\ SameFrames(A, B)
    /\ \A j \in A.live : B.next[j] = IF j = k THEN 0 ELSE A.next[j]

LEMMA StepTree ==
    ASSUME NEW A, NEW B, NEW k, NEW x, Ordered(A), StepDone(A, B, k, x)
    PROVE  /\ PathsUp(B.up) /\ k \in A.live /\ k \in A.reg
           /\ \A n \in DOMAIN A.up : B.up[n] = A.up[n] /\ x \notin A.up[n] /\ n # x
           /\ DOMAIN B.up = DOMAIN A.up \cup {x} /\ B.up[x] = A.up[Pos(A, k)] \cup {x}
           /\ \A j \in A.live : /\ Pos(B, j) = Pos(A, j) /\ Pos(A, j) \in DOMAIN A.up \ A.steps
                                /\ j \in A.reg /\ A.node[j] \in DOMAIN A.up
                                /\ \A m \in A.reg : A.node[m] = Pos(A, j) => m = j
                                /\ Pos(A, j) = Pos(A, k) => j = k
           /\ \A m, n \in DOMAIN A.up : Apart(B.asy, B.up[m], B.up[n]) <=> Apart(A.asy, A.up[m], A.up[n])
           /\ x \notin B.asy /\ x \notin A.steps
<1>1. Paths(A) /\ Finishes(A) /\ PathsUp(A.up) /\ Grows(A, B, Pos(A, k), x)
  BY DEF Ordered, Paths, StepDone
<1>2. PathsUp(B.up) /\ \A n \in DOMAIN A.up : x \notin A.up[n]
  BY <1>1, PathsGrow
<1>3. \A m, n \in DOMAIN A.up : Apart(B.asy, B.up[m], B.up[n]) <=> Apart(A.asy, A.up[m], A.up[n])
  BY <1>1, OrderStays
<1>4. ASSUME NEW j \in A.live
      PROVE  /\ Pos(B, j) = Pos(A, j) /\ Pos(A, j) \in DOMAIN A.up \ A.steps
             /\ j \in A.reg /\ A.node[j] \in DOMAIN A.up
             /\ \A m \in A.reg : A.node[m] = Pos(A, j) => m = j
  <2>1. j \in A.reg
    BY <1>1 DEF Paths
  <2>2. Pos(B, j) = Pos(A, j)
    BY <2>1 DEF Pos, StepDone, SameFrames
  <2>3. QED  BY <1>1, <2>1, <2>2, PosIs
<1>5. k \in A.live /\ k \in A.reg
  BY <1>1, PosIs DEF StepDone
<1>6. \A j \in A.live : Pos(A, j) = Pos(A, k) => j = k
  BY <1>1, <1>5, PosIs
<1>7. x \notin B.asy /\ x \notin A.steps
  BY <1>1 DEF Paths, Grows, StepDone
<1>8. QED  BY <1>1, <1>2, <1>3, <1>4, <1>5, <1>6, <1>7 DEF Grows

LEMMA StepOrdered ==
    ASSUME NEW A, NEW B, NEW k, NEW x, Ordered(A), StepDone(A, B, k, x)
    PROVE  Ordered(B)
<1> DEFINE a == Pos(A, k)
<1>0. /\ PathsUp(B.up) /\ k \in A.live /\ k \in A.reg
      /\ \A n \in DOMAIN A.up : B.up[n] = A.up[n] /\ x \notin A.up[n] /\ n # x
      /\ DOMAIN B.up = DOMAIN A.up \cup {x} /\ B.up[x] = A.up[a] \cup {x}
      /\ \A j \in A.live : /\ Pos(B, j) = Pos(A, j) /\ Pos(A, j) \in DOMAIN A.up \ A.steps
                           /\ j \in A.reg /\ A.node[j] \in DOMAIN A.up
                           /\ \A m \in A.reg : A.node[m] = Pos(A, j) => m = j
                           /\ Pos(A, j) = a => j = k
      /\ \A m, n \in DOMAIN A.up : Apart(B.asy, B.up[m], B.up[n]) <=> Apart(A.asy, A.up[m], A.up[n])
      /\ x \notin B.asy /\ x \notin A.steps
  BY StepTree
<1>1. /\ A.root[k] = 0 /\ A.next[k] = x /\ x # 0 /\ Grows(A, B, a, x) /\ B.asy = A.asy
      /\ B.steps = A.steps \cup {x} /\ B.own[x] = k /\ B.before[x] = A.past[k]
      /\ \A s \in A.steps : B.own[s] = A.own[s] /\ B.before[s] = A.before[s]
      /\ \A j \in A.reg : B.past[j] = IF j = k THEN A.past[k] \cup {x} ELSE A.past[j]
      /\ B.live = A.live /\ B.reg = A.reg
      /\ \A j \in A.live : B.next[j] = IF j = k THEN 0 ELSE A.next[j]
  BY DEF StepDone, SameFrames
<1>2. /\ \A j \in A.reg : B.node[j] = A.node[j] /\ B.above[j] = A.above[j]
      /\ \A j \in A.live : B.fin[j] = A.fin[j] /\ B.root[j] = A.root[j]
  BY DEF StepDone, SameFrames
<1>3. /\ Paths(A) /\ Finishes(A) /\ Roots(A) /\ Ancestors(A) /\ Owned(A) /\ Settled(A) /\ NextIsLast(A)
      /\ Pasts(A) /\ Serial(A) /\ Parallel(A) /\ Recorded(A)
      /\ RootPasts(A) /\ KidPasts(A) /\ KidsInside(A) /\ PathsUp(A.up)
  BY DEF Ordered, Paths
<1> HIDE DEF a
<1>4. \A j \in A.live : A.root[j] # 0 => A.root[j] \in A.reg
  BY <1>3 DEF Roots, RootAt
<1>5. \A j \in A.live : \A n \in DOMAIN A.up :
         (InRoot(B, j, n) <=> InRoot(A, j, n)) /\ (Inside(B, j, n) <=> Inside(A, j, n))
  BY <1>0, <1>2, <1>4 DEF InRoot, Inside
<1>6. LastIn(A.up, a, x)
  BY <1>0, <1>1, <1>3 DEF NextIsLast, a
<1>7. ASSUME NEW j \in A.live
      PROVE  (InRoot(A, j, a) => InRoot(B, j, x)) /\ (Inside(A, j, a) => Inside(B, j, x))
  BY <1>0, <1>2, <1>4 DEF InRoot, Inside
<1>8. Paths(B)
  BY <1>0, <1>1, <1>2, <1>3 DEF Paths
<1>9. Finishes(B)
  <2>1. ASSUME NEW j \in A.live, A.fin[j] # 0
        PROVE  LastIn(B.up, A.node[j], A.fin[j])
    <3>1. a # A.node[j]
      <4>1. a = A.node[j] => j = k
        BY <1>0 DEF a
      <4>2. j = k => a = A.fin[j] /\ A.fin[j] # A.node[j]
        BY <1>0, <1>3, <2>1 DEF a, Pos, Finishes
      <4>3. QED  BY <4>1, <4>2
    <3>2. LastIn(A.up, A.node[j], A.fin[j]) /\ A.node[j] \in DOMAIN A.up
      BY <1>0, <1>3, <2>1 DEF Finishes
    <3>3. QED  BY <1>1, <1>3, <3>1, <3>2, LastInGrows
  <2>2. ASSUME NEW j \in A.live, A.fin[j] # 0
        PROVE  /\ A.fin[j] \in (DOMAIN B.up \ B.steps) \ B.asy
               /\ B.up[A.fin[j]] = B.up[A.node[j]] \cup {A.fin[j]} /\ A.node[j] < A.fin[j]
    BY <1>0, <1>1, <1>3, <2>2 DEF Finishes
  <2>3. QED  BY <1>0, <1>1, <1>2, <1>3, <2>1, <2>2 DEF Finishes
<1>10. Roots(B)
  <2>1. ASSUME NEW j \in A.live, NEW r, r = A.root[j], r # 0
        PROVE  RootAt(B, j, r)
    <3>1. RootAt(A, j, r) /\ r \in A.reg
      BY <1>3, <2>1 DEF Roots, RootAt
    <3>2. A.node[r] \in DOMAIN A.up /\ j # k
      BY <1>1, <1>3, <2>1, <3>1 DEF Paths
    <3>3. B.node[r] = A.node[r] /\ B.above[r] = A.above[r]
      BY <1>2, <3>1
    <3>4. QED  BY <1>0, <1>1, <2>1, <3>1, <3>2, <3>3 DEF RootAt
  <2>2. QED  BY <1>1, <1>2, <2>1 DEF Roots
<1>11. Ancestors(B)
  BY <1>1, <1>2, <1>3 DEF Ancestors
<1>12. Owned(B)
  <2>1. ASSUME NEW s \in A.steps
        PROVE  /\ B.own[s] \in B.reg /\ s \in B.past[B.own[s]]
               /\ \A m \in B.reg : B.node[m] \in B.up[s] <=> m \in B.above[B.own[s]] \/ m = B.own[s]
    <3>1. /\ A.own[s] \in A.reg /\ s \in A.past[A.own[s]] /\ B.own[s] = A.own[s] /\ B.up[s] = A.up[s]
          /\ \A m \in A.reg : A.node[m] \in A.up[s] <=> m \in A.above[A.own[s]] \/ m = A.own[s]
      BY <1>0, <1>1, <1>3 DEF Owned, Paths
    <3>2. QED  BY <1>1, <1>2, <3>1
  <2>2. /\ B.own[x] \in B.reg /\ x \in B.past[B.own[x]]
        /\ \A m \in B.reg : B.node[m] \in B.up[x] <=> m \in B.above[B.own[x]] \/ m = B.own[x]
    <3>1. \A m \in A.reg : A.node[m] \in A.up[a] <=> m \in A.above[k] \/ m = k
      BY <1>0, <1>3 DEF Settled, a
    <3>2. \A m \in A.reg : A.node[m] # x
      BY <1>0, <1>3 DEF Paths
    <3>3. QED  BY <1>0, <1>1, <1>2, <3>1, <3>2
  <2>3. QED  BY <1>1, <2>1, <2>2 DEF Owned
<1>13. Settled(B)
  BY <1>0, <1>1, <1>2, <1>3 DEF Settled
<1>14. NextIsLast(B)
  <2> SUFFICES ASSUME NEW j \in A.live, j # k, A.next[j] # 0
               PROVE  /\ A.next[j] \in Nat /\ Pos(A, j) < A.next[j]
                      /\ \A s \in A.past[j] : s < A.next[j]
                      /\ LastIn(B.up, Pos(A, j), A.next[j])
    BY <1>0, <1>1 DEF NextIsLast
  <2>1. /\ A.next[j] \in Nat /\ Pos(A, j) < A.next[j] /\ \A s \in A.past[j] : s < A.next[j]
        /\ LastIn(A.up, Pos(A, j), A.next[j])
    BY <1>3 DEF NextIsLast
  <2>2. a # Pos(A, j) /\ Pos(A, j) \in DOMAIN A.up
    BY <1>0 DEF a
  <2>3. LastIn(B.up, Pos(A, j), A.next[j])
    BY <1>1, <1>3, <2>1, <2>2, LastInGrows
  <2>4. QED  BY <2>1, <2>3
<1>15. Pasts(B)
  BY <1>0, <1>1, <1>3 DEF Pasts
<1>16. \A j \in A.live : x \in B.past[j] <=> j = k
  BY <1>0, <1>1, <1>3 DEF Pasts
<1>17. ASSUME NEW j \in A.live, j # k
       PROVE  Apart(B.asy, B.up[x], B.up[Pos(A, j)]) \/ InRoot(B, j, x)
  <2>1. \/ Apart(A.asy, A.up[a], A.up[Pos(A, j)])
        \/ InRoot(A, j, a) \/ InRoot(A, k, Pos(A, j))
    BY <1>0, <1>3, <1>17, ApartBothWays DEF Parallel, a
  <2>2. ~InRoot(A, k, Pos(A, j))
    BY <1>1 DEF InRoot
  <2>3. Apart(A.asy, A.up[a], A.up[Pos(A, j)]) => Apart(B.asy, B.up[x], B.up[Pos(A, j)])
    <3>1. Pos(A, j) \in DOMAIN A.up /\ Pos(A, j) # a
      BY <1>0, <1>17 DEF a
    <3>2. QED  BY <1>1, <1>3, <1>6, <3>1, OrderOfNew
  <2>4. QED  BY <1>7, <2>1, <2>2, <2>3
<1>18. Serial(B)
  <2> SUFFICES ASSUME NEW j \in A.live, NEW s \in B.steps
               PROVE  s \in B.past[j] <=> ~Apart(B.asy, B.up[s], B.up[Pos(A, j)]) /\ ~InRoot(B, j, s)
    BY <1>0, <1>1 DEF Serial
  <2>1. CASE s \in A.steps
    <3>1. s \in A.past[j] <=> ~Apart(A.asy, A.up[s], A.up[Pos(A, j)]) /\ ~InRoot(A, j, s)
      BY <1>3, <2>1 DEF Serial
    <3>2. s \in DOMAIN A.up /\ s # x /\ j \in A.reg /\ Pos(A, j) \in DOMAIN A.up
      BY <1>0, <1>3, <2>1 DEF Paths
    <3>3. s \in B.past[j] <=> s \in A.past[j]
      BY <1>1, <3>2
    <3>4. QED  BY <1>0, <1>5, <3>1, <3>2, <3>3
  <2>2. CASE s = x /\ j # k
    BY <1>16, <1>17, <2>2
  <2>3. CASE s = x /\ j = k
    <3>1. ~InRoot(B, k, x)
      BY <1>0, <1>1, <1>2 DEF InRoot
    <3>2. ~Apart(B.asy, B.up[x], B.up[a])
      BY <1>0, <1>1, <1>3, OrderOfParent
    <3>3. QED  BY <1>16, <2>3, <3>1, <3>2 DEF a
  <2>4. QED  BY <1>1, <2>1, <2>2, <2>3
<1>19. Parallel(B)
  <2> SUFFICES ASSUME NEW i \in A.live, NEW j \in A.live, i # j
               PROVE  \/ Apart(B.asy, B.up[Pos(A, i)], B.up[Pos(A, j)])
                      \/ InRoot(B, i, Pos(A, j)) \/ InRoot(B, j, Pos(A, i))
    BY <1>0, <1>1 DEF Parallel
  <2>1. \/ Apart(A.asy, A.up[Pos(A, i)], A.up[Pos(A, j)])
        \/ InRoot(A, i, Pos(A, j)) \/ InRoot(A, j, Pos(A, i))
    BY <1>3 DEF Parallel
  <2>2. Pos(A, i) \in DOMAIN A.up /\ Pos(A, j) \in DOMAIN A.up
    BY <1>0
  <2>3. QED  BY <1>0, <1>5, <2>1, <2>2
<1>20. ASSUME NEW r \in A.steps
       PROVE  r \in A.past[k] <=> ~Apart(B.asy, B.up[r], B.up[x])
  <2>1. r \in A.past[k] <=> ~Apart(A.asy, A.up[r], A.up[a]) /\ ~InRoot(A, k, r)
    BY <1>0, <1>3 DEF Serial, a
  <2>2. ~InRoot(A, k, r)
    BY <1>1 DEF InRoot
  <2>3. r \in DOMAIN A.up /\ r # a
    BY <1>0, <1>3 DEF Paths, a
  <2>4. QED  BY <1>1, <1>3, <1>6, <2>1, <2>2, <2>3, OrderOfNew
<1>21. Recorded(B)
  <2>1. \A r \in A.steps : r \in DOMAIN A.up /\ r \in Nat /\ r # x
    BY <1>0, <1>3 DEF Paths, PathsUp
  <2> SUFFICES ASSUME NEW r \in B.steps, NEW s \in B.steps, r < s
               PROVE  /\ r \in B.before[s] <=> ~Apart(B.asy, B.up[r], B.up[s])
                      /\ s \notin B.before[r]
    BY DEF Recorded
  <2>2. CASE r \in A.steps /\ s \in A.steps
    BY <1>0, <1>1, <1>3, <2>1, <2>2 DEF Recorded
  <2>3. CASE r \in A.steps /\ s = x
    <3>1. x \notin A.before[r]
      BY <1>0, <1>3, <2>3 DEF Pasts
    <3>2. QED  BY <1>1, <1>20, <2>3, <3>1
  <2>4. CASE r = x /\ s \in A.steps
    <3>1. \A y \in A.past[k] : y < x
      BY <1>0, <1>1, <1>3 DEF NextIsLast
    <3>2. s \notin A.past[k]
      <4>1. x \in Nat /\ s \in Nat
        BY <1>1, <2>1, <2>4 DEF Grows
      <4>2. QED  BY <2>4, <3>1, <4>1
    <3>3. Apart(B.asy, B.up[x], B.up[s])
      BY <1>20, <2>4, <3>2, ApartBothWays
    <3>4. x \notin A.before[s]
      BY <1>0, <1>3, <2>4 DEF Pasts
    <3>5. QED  BY <1>1, <2>4, <3>2, <3>3, <3>4
  <2>5. CASE r = x /\ s = x
    <3>1. x \in Nat
      BY <1>1 DEF Grows
    <3>2. QED  BY <2>5, <3>1
  <2>6. QED  BY <1>1, <2>2, <2>3, <2>4, <2>5
<1>22. \A m \in A.reg : A.node[m] \in A.up[a] <=> m \in A.above[k] \/ m = k
  BY <1>0, <1>3 DEF Settled, a
<1>23. \A d \in A.reg : \A s \in B.past[d] : s \in A.past[d] \/ (s = x /\ d = k)
  BY <1>1
<1>24. \A d \in A.reg : \A s \in A.past[d] : s \in B.past[d] /\ s \in A.steps /\ s \in DOMAIN A.up
  BY <1>1, <1>3 DEF Pasts, Paths
<1>25. RootPasts(B)
  <2> SUFFICES ASSUME NEW j \in A.live, A.root[j] # 0, NEW d \in A.reg,
                      d = A.root[j] \/ A.root[j] \in A.above[d], NEW s \in B.past[d]
               PROVE  s \in B.past[j] \/ A.node[A.root[j]] \in B.up[s]
    BY <1>1, <1>2, <1>4 DEF RootPasts
  <2>1. CASE s \in A.past[d]
    <3>1. s \in A.past[j] \/ A.node[A.root[j]] \in A.up[s]
      BY <1>3, <2>1 DEF RootPasts
    <3>2. QED  BY <1>0, <1>24, <2>1, <3>1
  <2>2. CASE s = x /\ d = k
    BY <1>0, <1>4, <1>22, <2>2
  <2>3. QED  BY <1>23, <2>1, <2>2
<1>26. KidPasts(B)
  <2> SUFFICES ASSUME NEW j \in A.live, NEW d \in A.reg, j \in A.above[d], NEW s \in B.past[d]
               PROVE  s \in B.past[j] \/ Inside(B, j, s)
    BY <1>1, <1>2 DEF KidPasts
  <2>1. CASE s \in A.past[d]
    <3>1. s \in A.past[j] \/ Inside(A, j, s)
      BY <1>3, <2>1 DEF KidPasts
    <3>2. QED  BY <1>0, <1>5, <1>24, <2>1, <3>1
  <2>2. CASE s = x /\ d = k
    <3>1. Inside(A, j, a)
      BY <1>0, <1>3, <2>2 DEF KidsInside, a
    <3>2. QED  BY <1>7, <2>2, <3>1
  <2>3. QED  BY <1>23, <2>1, <2>2
<1>27. KidsInside(B)
  <2> SUFFICES ASSUME NEW i \in A.live, NEW j \in A.live, i \in A.above[j]
               PROVE  Inside(B, i, Pos(A, j))
    BY <1>0, <1>1, <1>2 DEF KidsInside
  <2>1. Inside(A, i, Pos(A, j)) /\ Pos(A, j) \in DOMAIN A.up
    BY <1>0, <1>3 DEF KidsInside
  <2>2. QED  BY <1>5, <2>1
<1>28. QED  BY <1>8, <1>9, <1>10, <1>11, <1>12, <1>13, <1>14, <1>15, <1>18, <1>19, <1>21, <1>25, <1>26, <1>27
            DEF Ordered

SameTree(A, B) ==
    B.up = A.up /\ B.asy = A.asy /\ B.steps = A.steps /\ B.own = A.own /\ B.before = A.before

\* Tasks have ended, or been given the id of their next step.
TasksGoOn(A, B) ==
    /\ SameTree(A, B) /\ SameFrames(A, B)
    /\ \A j \in A.reg : B.past[j] = A.past[j]
    /\ B.live \subseteq A.live
    /\ \A j \in B.live : \/ B.next[j] \in {0, A.next[j]}
                         \/ /\ A.root[j] = 0
                            /\ B.next[j] \in Nat /\ \A n \in DOMAIN A.up : n < B.next[j]

LEMMA GoOnOrdered ==
    ASSUME NEW A, NEW B, Ordered(A), TasksGoOn(A, B)
    PROVE  Ordered(B)
<1>1. /\ B.up = A.up /\ B.asy = A.asy /\ B.steps = A.steps /\ B.own = A.own /\ B.before = A.before
      /\ B.reg = A.reg
      /\ \A j \in A.reg : B.node[j] = A.node[j] /\ B.above[j] = A.above[j]
      /\ \A j \in A.live : B.fin[j] = A.fin[j] /\ B.root[j] = A.root[j]
      /\ \A j \in A.reg : B.past[j] = A.past[j]
      /\ B.live \subseteq A.live
  BY DEF TasksGoOn, SameTree, SameFrames
<1>2. /\ Paths(A) /\ Finishes(A) /\ Roots(A) /\ Ancestors(A) /\ Owned(A) /\ Settled(A) /\ NextIsLast(A)
      /\ Pasts(A) /\ Serial(A) /\ Parallel(A) /\ Recorded(A)
      /\ RootPasts(A) /\ KidPasts(A) /\ KidsInside(A) /\ PathsUp(A.up)
  BY DEF Ordered, Paths
<1>3. ASSUME NEW j \in B.live
      PROVE  /\ j \in A.live /\ j \in A.reg
             /\ A.root[j] # 0 => A.root[j] \in A.reg
             /\ Pos(B, j) = Pos(A, j) /\ Pos(A, j) \in DOMAIN A.up /\ Pos(A, j) \in Nat
  <2>1. j \in A.live /\ j \in A.reg
    BY <1>1, <1>2 DEF Paths
  <2>2. Pos(B, j) = Pos(A, j)
    BY <1>1, <2>1 DEF Pos
  <2>3. QED  BY <1>2, <2>1, <2>2, PosIs DEF Roots, RootAt
<1>4. \A j \in B.live : \A n : (InRoot(B, j, n) <=> InRoot(A, j, n)) /\ (Inside(B, j, n) <=> Inside(A, j, n))
  BY <1>1, <1>3 DEF InRoot, Inside
<1>5. Paths(B)
  BY <1>1, <1>2 DEF Paths
<1>6. Finishes(B)
  BY <1>1, <1>2, <1>3 DEF Finishes
<1>7. Roots(B)
  <2>1. ASSUME NEW j \in B.live, NEW r, r = A.root[j], r # 0
        PROVE  RootAt(B, j, r)
    <3>1. RootAt(A, j, r) /\ r \in A.reg
      BY <1>2, <1>3, <2>1 DEF Roots, RootAt
    <3>2. B.node[r] = A.node[r] /\ B.above[r] = A.above[r] /\ Pos(B, j) = Pos(A, j)
      BY <1>1, <1>3, <3>1
    <3>3. B.next[j] = 0
      BY <2>1, <3>1 DEF TasksGoOn, RootAt
    <3>4. QED  BY <1>1, <3>1, <3>2, <3>3 DEF RootAt
  <2>2. QED  BY <1>1, <1>3, <2>1 DEF Roots
<1>8. Ancestors(B)
  BY <1>1, <1>2 DEF Ancestors
<1>9. Owned(B)
  BY <1>1, <1>2 DEF Owned
<1>10. Settled(B)
  BY <1>1, <1>2, <1>3 DEF Settled
<1>11. NextIsLast(B)
  <2> SUFFICES ASSUME NEW j \in B.live, B.next[j] # 0
               PROVE  /\ B.next[j] \in Nat /\ Pos(A, j) < B.next[j]
                      /\ \A s \in A.past[j] : s < B.next[j]
                      /\ LastIn(A.up, Pos(A, j), B.next[j])
    BY <1>1, <1>3 DEF NextIsLast
  <2>1. CASE B.next[j] = A.next[j]
    BY <1>2, <1>3, <2>1 DEF NextIsLast
  <2>2. CASE B.next[j] \in Nat /\ \A n \in DOMAIN A.up : n < B.next[j]
    <3>1. \A s \in A.past[j] : s \in DOMAIN A.up
      BY <1>2, <1>3 DEF Pasts, Paths
    <3>2. PICK x \in Nat : x = B.next[j]
      BY <2>2
    <3>3. LastIn(A.up, Pos(A, j), x)
      BY <1>2, <1>3, <2>2, <3>2, LastInAll
    <3>4. QED  BY <1>3, <2>2, <3>1, <3>2, <3>3
  <2>3. QED  BY <2>1, <2>2 DEF TasksGoOn
<1>12. Pasts(B)
  BY <1>1, <1>2 DEF Pasts
<1>13. Serial(B)
  BY <1>1, <1>2, <1>3, <1>4 DEF Serial
<1>14. Parallel(B)
  BY <1>1, <1>2, <1>3, <1>4 DEF Parallel
<1>15. Recorded(B)
  BY <1>1, <1>2 DEF Recorded
<1>16. RootPasts(B)
  BY <1>1, <1>2, <1>3 DEF RootPasts
<1>17. KidPasts(B)
  BY <1>1, <1>2, <1>3, <1>4 DEF KidPasts
<1>18. KidsInside(B)
  BY <1>1, <1>2, <1>3, <1>4 DEF KidsInside
<1>19. QED  BY <1>5, <1>6, <1>7, <1>8, <1>9, <1>10, <1>11, <1>12, <1>13, <1>14, <1>15, <1>16, <1>17, <1>18
            DEF Ordered

\* Task k, which has no implicit FINISH open, has opened f.
FinishOpened(A, B, k, f) ==
    /\ k \in A.live /\ A.fin[k] = 0 /\ A.root[k] = 0
    /\ Grows(A, B, A.node[k], f) /\ B.asy = A.asy /\ \A n \in DOMAIN A.up : n < f
    /\ B.steps = A.steps /\ B.own = A.own /\ B.before = A.before
    /\ \A j \in A.reg : B.past[j] = A.past[j]
    /\ B.live = A.live /\ B.reg = A.reg
    /\ \A j \in A.reg : B.node[j] = A.node[j] /\ B.above[j] = A.above[j]
    /\ \A j \in A.live : /\ B.root[j] = A.root[j]
                         /\ B.fin[j] = IF j = k THEN f ELSE A.fin[j]
                         /\ B.next[j] = IF j = k THEN 0 ELSE A.next[j]

LEMMA LastInParent ==
    ASSUME NEW A, NEW B, NEW a, NEW x, PathsUp(A.up), Grows(A, B, a, x), \A n \in DOMAIN A.up : n < x
    PROVE  LastIn(A.up, a, x) /\ LastIn(B.up, a, x)
<1>1. LastIn(A.up, a, x)
  BY LastInAll DEF Grows
<1>2. LastIn(B.up, a, x)
  <2>1. ASSUME NEW n \in DOMAIN B.up, a \in B.up[n], n # a, x \notin B.up[n]
        PROVE  n \in DOMAIN A.up /\ B.up[n] = A.up[n]
    BY <2>1 DEF Grows
  <2>2. QED  BY <1>1, <2>1 DEF LastIn
<1>3. QED  BY <1>1, <1>2

LEMMA OpenOrdered ==
    ASSUME NEW A, NEW B, NEW k, NEW f, Ordered(A), FinishOpened(A, B, k, f)
    PROVE  Ordered(B)
<1>1. /\ k \in A.live /\ A.fin[k] = 0 /\ A.root[k] = 0
      /\ Grows(A, B, A.node[k], f) /\ B.asy = A.asy /\ \A n \in DOMAIN A.up : n < f
      /\ B.steps = A.steps /\ B.own = A.own /\ B.before = A.before
      /\ \A j \in A.reg : B.past[j] = A.past[j]
      /\ B.live = A.live /\ B.reg = A.reg
      /\ \A j \in A.reg : B.node[j] = A.node[j] /\ B.above[j] = A.above[j]
      /\ \A j \in A.live : /\ B.root[j] = A.root[j]
                           /\ B.fin[j] = IF j = k THEN f ELSE A.fin[j]
                           /\ B.next[j] = IF j = k THEN 0 ELSE A.next[j]
  BY DEF FinishOpened
<1>2. /\ Paths(A) /\ Finishes(A) /\ Roots(A) /\ Ancestors(A) /\ Owned(A) /\ Settled(A) /\ NextIsLast(A)
      /\ Pasts(A) /\ Serial(A) /\ Parallel(A) /\ Recorded(A)
      /\ RootPasts(A) /\ KidPasts(A) /\ KidsInside(A) /\ PathsUp(A.up)
  BY DEF Ordered, Paths
<1>3. /\ f \in Nat /\ f \notin DOMAIN A.up /\ f # 0 /\ f \notin A.steps /\ f \notin A.asy
      /\ A.node[k] < f /\ A.node[k] \in DOMAIN A.up
      /\ DOMAIN B.up = DOMAIN A.up \cup {f} /\ B.up[f] = A.up[A.node[k]] \cup {f}
      /\ \A n \in DOMAIN A.up : B.up[n] = A.up[n] /\ n # f
  BY <1>1, <1>2 DEF Grows, Paths, PathsUp
<1>4. PathsUp(B.up) /\ \A n \in DOMAIN A.up : f \notin A.up[n]
  BY <1>1, <1>2, PathsGrow
<1>5. \A m, n \in DOMAIN A.up : Apart(B.asy, B.up[m], B.up[n]) <=> Apart(A.asy, A.up[m], A.up[n])
  BY <1>1, <1>2, OrderStays
<1>6. ASSUME NEW j \in A.live
      PROVE  /\ j \in A.reg /\ A.node[j] \in DOMAIN A.up /\ Pos(A, j) \in DOMAIN A.up
             /\ A.root[j] # 0 => A.root[j] \in A.reg
             /\ j # k => Pos(A, j) # A.node[k]
             /\ j # k => Pos(B, j) = Pos(A, j)
  <2>1. k \in A.reg /\ j \in A.reg
    BY <1>1, <1>2 DEF Paths
  <2>2. j # k => Pos(B, j) = Pos(A, j)
    BY <1>1, <2>1 DEF Pos
  <2>3. QED  BY <1>2, <2>1, <2>2, PosIs DEF Roots, RootAt
<1>7. Pos(A, k) = A.node[k] /\ Pos(B, k) = f
  BY <1>1, <1>3 DEF Pos
<1>8. /\ \A j \in A.live : \A n \in DOMAIN A.up : InRoot(B, j, n) <=> InRoot(A, j, n)
      /\ \A j \in A.live \ {k} : \A n \in DOMAIN A.up : Inside(B, j, n) <=> Inside(A, j, n)
  BY <1>1, <1>3, <1>6 DEF InRoot, Inside
<1>9. /\ \A j \in A.live : InRoot(A, j, A.node[k]) => InRoot(B, j, f)
      /\ \A j \in A.live \ {k} : Inside(A, j, A.node[k]) => Inside(B, j, f)
      /\ \A n : ~Inside(A, k, n) /\ ~InRoot(A, k, n)
  BY <1>1, <1>3, <1>6 DEF InRoot, Inside
<1>10. Paths(B)
  BY <1>1, <1>2, <1>3, <1>4 DEF Paths
<1>11. Finishes(B)
  <2>1. ASSUME NEW j \in A.live, j # k, A.fin[j] # 0
        PROVE  LastIn(B.up, A.node[j], A.fin[j])
    <3>1. A.node[k] # A.node[j]
      BY <1>1, <1>2, <1>6, <2>1 DEF Paths
    <3>2. LastIn(A.up, A.node[j], A.fin[j]) /\ A.node[j] \in DOMAIN A.up
      BY <1>2, <1>6, <2>1 DEF Finishes
    <3>3. QED  BY <1>1, <1>2, <3>1, <3>2, LastInGrows
  <2>2. ASSUME NEW j \in A.live, j # k, A.fin[j] # 0
        PROVE  /\ A.fin[j] \in (DOMAIN B.up \ B.steps) \ B.asy /\ A.fin[j] # f
               /\ \A m \in A.reg : A.node[m] # A.fin[j]
               /\ B.up[A.fin[j]] = B.up[A.node[j]] \cup {A.fin[j]} /\ A.node[j] < A.fin[j]
               /\ \A i \in A.live : A.fin[i] = A.fin[j] => i = j
    BY <1>1, <1>2, <1>3, <1>6, <2>2 DEF Finishes
  <2>3. /\ f \in (DOMAIN B.up \ B.steps) \ B.asy
        /\ \A m \in A.reg : A.node[m] # f
        /\ \A j \in A.live : B.fin[j] = f => j = k
        /\ B.up[f] = B.up[A.node[k]] \cup {f} /\ A.node[k] < f
    BY <1>1, <1>2, <1>3, <1>6, <2>2 DEF Paths
  <2>4. LastIn(B.up, A.node[k], f)
    BY <1>1, <1>2, LastInParent
  <2>5. ASSUME NEW j \in B.live, B.fin[j] # 0
        PROVE  /\ B.fin[j] \in (DOMAIN B.up \ B.steps) \ B.asy
               /\ \A m \in B.reg : B.node[m] # B.fin[j]
               /\ \A i \in B.live : B.fin[i] = B.fin[j] => i = j
               /\ B.up[B.fin[j]] = B.up[B.node[j]] \cup {B.fin[j]} /\ B.node[j] < B.fin[j]
               /\ LastIn(B.up, B.node[j], B.fin[j])
    <3>1. CASE j = k
      BY <1>1, <1>6, <2>3, <2>4, <3>1
    <3>2. CASE j # k
      <4>1. B.fin[j] = A.fin[j] /\ B.node[j] = A.node[j] /\ j \in A.live
        BY <1>1, <1>6, <2>5, <3>2
      <4>2. \A i \in B.live : B.fin[i] = B.fin[j] => i = j
        BY <1>1, <2>2, <2>5, <3>2, <4>1
      <4>3. QED  BY <1>1, <2>1, <2>2, <2>5, <3>2, <4>1, <4>2
    <3>3. QED  BY <3>1, <3>2
  <2>6. QED  BY <2>5 DEF Finishes
<1>12. Roots(B)
  <2>1. ASSUME NEW j \in A.live, NEW r, r = A.root[j], r # 0
        PROVE  RootAt(B, j, r)
    <3>1. RootAt(A, j, r) /\ r \in A.reg
      BY <1>2, <2>1 DEF Roots, RootAt
    <3>2. A.node[r] \in DOMAIN A.up /\ j # k
      BY <1>1, <1>2, <2>1, <3>1 DEF Paths
    <3>3. B.node[r] = A.node[r] /\ B.above[r] = A.above[r] /\ Pos(B, j) = Pos(A, j) /\ Pos(A, j) \in DOMAIN A.up
      BY <1>1, <1>6, <3>1, <3>2
    <3>4. QED  BY <1>1, <1>3, <2>1, <3>1, <3>2, <3>3 DEF RootAt
  <2>2. QED  BY <1>1, <2>1 DEF Roots
<1>13. Ancestors(B)
  BY <1>1, <1>2 DEF Ancestors
<1>14. \A s \in A.steps : s \in DOMAIN A.up /\ s # A.node[k]
  BY <1>2, <1>6, <1>1 DEF Paths
<1>15. Owned(B)
  <2>1. ASSUME NEW s \in A.steps
        PROVE  /\ A.own[s] \in A.reg /\ s \in B.past[A.own[s]]
               /\ \A m \in A.reg : B.node[m] \in B.up[s] <=> m \in B.above[A.own[s]] \/ m = A.own[s]
    BY <1>1, <1>2, <1>3, <1>14 DEF Owned
  <2>2. QED  BY <1>1, <2>1 DEF Owned
<1>16. Settled(B)
  <2> SUFFICES ASSUME NEW j \in A.live, NEW m \in A.reg
               PROVE  A.node[m] \in B.up[Pos(B, j)] <=> m \in A.above[j] \/ m = j
    BY <1>1, <1>6 DEF Settled
  <2>1. A.node[m] \in A.up[Pos(A, j)] <=> m \in A.above[j] \/ m = j
    BY <1>2 DEF Settled
  <2>2. A.node[m] # f
    BY <1>2, <1>3 DEF Paths
  <2>3. QED  BY <1>3, <1>6, <1>7, <2>1, <2>2
<1>17. NextIsLast(B)
  <2> SUFFICES ASSUME NEW j \in A.live, j # k, A.next[j] # 0
               PROVE  /\ A.next[j] \in Nat /\ Pos(A, j) < A.next[j]
                      /\ \A s \in A.past[j] : s < A.next[j]
                      /\ LastIn(B.up, Pos(A, j), A.next[j])
    BY <1>1, <1>6 DEF NextIsLast
  <2>1. /\ A.next[j] \in Nat /\ Pos(A, j) < A.next[j] /\ \A s \in A.past[j] : s < A.next[j]
        /\ LastIn(A.up, Pos(A, j), A.next[j])
    BY <1>2 DEF NextIsLast
  <2>2. A.node[k] # Pos(A, j) /\ Pos(A, j) \in DOMAIN A.up
    BY <1>6
  <2>3. LastIn(B.up, Pos(A, j), A.next[j])
    BY <1>1, <1>2, <2>1, <2>2, LastInGrows
  <2>4. QED  BY <2>1, <2>3
<1>18. Pasts(B)
  BY <1>1, <1>2 DEF Pasts
<1>19. LastIn(A.up, A.node[k], f)
  BY <1>1, <1>2, LastInParent
<1>20. \A n \in DOMAIN A.up : n # A.node[k] =>
          /\ Apart(B.asy, B.up[n], B.up[f]) <=> Apart(A.asy, A.up[n], A.up[A.node[k]])
          /\ Apart(B.asy, B.up[f], B.up[n]) <=> Apart(A.asy, A.up[A.node[k]], A.up[n])
  BY <1>1, <1>2, <1>19, OrderOfNew
<1>21. Serial(B)
  <2> SUFFICES ASSUME NEW j \in A.live, NEW s \in A.steps
               PROVE  s \in A.past[j] <=> ~Apart(B.asy, B.up[s], B.up[Pos(B, j)]) /\ ~InRoot(B, j, s)
    BY <1>1, <1>6 DEF Serial
  <2>1. s \in A.past[j] <=> ~Apart(A.asy, A.up[s], A.up[Pos(A, j)]) /\ ~InRoot(A, j, s)
    BY <1>2 DEF Serial
  <2>2. InRoot(B, j, s) <=> InRoot(A, j, s)
    BY <1>8, <1>14
  <2>3. Apart(B.asy, B.up[s], B.up[Pos(B, j)]) <=> Apart(A.asy, A.up[s], A.up[Pos(A, j)])
    <3>1. CASE j = k
      BY <1>7, <1>14, <1>20, <3>1
    <3>2. CASE j # k
      BY <1>5, <1>6, <1>14, <3>2
    <3>3. QED  BY <3>1, <3>2
  <2>4. QED  BY <2>1, <2>2, <2>3
<1>22. Parallel(B)
  <2>1. ASSUME NEW i \in A.live, NEW j \in A.live, i # j
        PROVE  /\ Apart(B.asy, B.up[Pos(B, i)], B.up[Pos(B, j)]) <=> Apart(A.asy, A.up[Pos(A, i)], A.up[Pos(A, j)])
               /\ InRoot(A, i, Pos(A, j)) => InRoot(B, i, Pos(B, j))
    <3>1. CASE i = k
      BY <1>6, <1>7, <1>8, <1>9, <1>20, <2>1, <3>1
    <3>2. CASE j = k
      BY <1>6, <1>7, <1>8, <1>9, <1>20, <2>1, <3>2
    <3>3. CASE i # k /\ j # k
      BY <1>5, <1>6, <1>8, <3>3
    <3>4. QED  BY <3>1, <3>2, <3>3
  <2>2. QED  BY <1>1, <1>2, <2>1 DEF Parallel
<1>23. Recorded(B)
  BY <1>1, <1>2, <1>3, <1>5, <1>14 DEF Recorded
<1>24. \A d \in A.reg : \A s \in A.past[d] : s \in A.steps /\ s \in DOMAIN A.up
  BY <1>2, <1>14 DEF Pasts
<1>25. RootPasts(B)
  <2> SUFFICES ASSUME NEW j \in A.live, A.root[j] # 0, NEW d \in A.reg,
                      d = A.root[j] \/ A.root[j] \in A.above[d], NEW s \in A.past[d]
               PROVE  s \in A.past[j] \/ A.node[A.root[j]] \in B.up[s]
    BY <1>1, <1>6 DEF RootPasts
  <2>1. s \in A.past[j] \/ A.node[A.root[j]] \in A.up[s]
    BY <1>2 DEF RootPasts
  <2>2. QED  BY <1>3, <1>24, <2>1
<1>26. KidPasts(B)
  <2> SUFFICES ASSUME NEW j \in A.live, NEW d \in A.reg, j \in A.above[d], NEW s \in A.past[d]
               PROVE  s \in A.past[j] \/ Inside(B, j, s)
    BY <1>1, <1>6 DEF KidPasts
  <2>1. s \in A.past[j] \/ Inside(A, j, s)
    BY <1>2 DEF KidPasts
  <2>2. QED  BY <1>8, <1>9, <1>24, <2>1
<1>27. KidsInside(B)
  <2> SUFFICES ASSUME NEW i \in A.live, NEW j \in A.live, i \in A.above[j]
               PROVE  Inside(B, i, Pos(B, j))
    BY <1>1, <1>6 DEF KidsInside
  <2>1. Inside(A, i, Pos(A, j)) /\ i # k
    BY <1>2, <1>9 DEF KidsInside
  <2>2. QED  BY <1>6, <1>7, <1>8, <1>9, <2>1
<1>28. QED  BY <1>10, <1>11, <1>12, <1>13, <1>15, <1>16, <1>17, <1>18, <1>21, <1>22, <1>23, <1>25, <1>26, <1>27
            DEF Ordered

\* Task k has spawned task c, the root of a blocking call or a task of its implicit
\* FINISH, whose node is x.
TaskSpawned(A, B, k, c, x, isRoot) ==
    /\ k \in A.live /\ A.root[k] = 0 /\ c \notin A.reg /\ c # 0
    /\ Grows(A, B, Pos(A, k), x) /\ \A n \in DOMAIN A.up : n < x
    /\ IF isRoot THEN x \notin B.asy ELSE x \in B.asy /\ A.fin[k] # 0
    /\ B.steps = A.steps /\ B.own = A.own /\ B.before = A.before
    /\ B.live = A.live \cup {c} /\ B.reg = A.reg \cup {c}
    /\ \A j \in A.reg : B.node[j] = A.node[j] /\ B.above[j] = A.above[j] /\ B.past[j] = A.past[j]
    /\ B.node[c] = x /\ B.above[c] = A.above[k] \cup {k} /\ B.past[c] = A.past[k]
    /\ \A j \in A.live : /\ B.fin[j] = A.fin[j]
                         /\ B.root[j] = IF j = k /\ isRoot THEN c ELSE A.root[j]
                         /\ B.next[j] = IF j = k THEN 0 ELSE A.next[j]
    /\ B.fin[c] = 0 /\ B.root[c] = 0 /\ B.next[c] = 0

LEMMA SpawnOrdered ==
    ASSUME NEW A, NEW B, NEW k, NEW c, NEW x, NEW isRoot \in BOOLEAN, Ordered(A), TaskSpawned(A, B, k, c, x, isRoot)
    PROVE  Ordered(B)
<1> DEFINE a == Pos(A, k)
<1>1. /\ k \in A.live /\ A.root[k] = 0 /\ c \notin A.reg /\ c # 0
      /\ Grows(A, B, a, x) /\ \A n \in DOMAIN A.up : n < x
      /\ isRoot => x \notin B.asy
      /\ ~isRoot => x \in B.asy /\ A.fin[k] # 0
      /\ B.steps = A.steps /\ B.own = A.own /\ B.before = A.before
      /\ B.live = A.live \cup {c} /\ B.reg = A.reg \cup {c}
  BY DEF TaskSpawned
<1>2. /\ \A j \in A.reg : B.node[j] = A.node[j] /\ B.above[j] = A.above[j] /\ B.past[j] = A.past[j]
      /\ B.node[c] = x /\ B.above[c] = A.above[k] \cup {k} /\ B.past[c] = A.past[k]
      /\ \A j \in A.live : /\ B.fin[j] = A.fin[j]
                           /\ B.root[j] = IF j = k /\ isRoot THEN c ELSE A.root[j]
                           /\ B.next[j] = IF j = k THEN 0 ELSE A.next[j]
      /\ B.fin[c] = 0 /\ B.root[c] = 0 /\ B.next[c] = 0
  BY DEF TaskSpawned
<1>3. /\ Paths(A) /\ Finishes(A) /\ Roots(A) /\ Ancestors(A) /\ Owned(A) /\ Settled(A) /\ NextIsLast(A)
      /\ Pasts(A) /\ Serial(A) /\ Parallel(A) /\ Recorded(A)
      /\ RootPasts(A) /\ KidPasts(A) /\ KidsInside(A) /\ PathsUp(A.up)
  BY DEF Ordered, Paths
<1>4. /\ x \in Nat /\ x \notin DOMAIN A.up /\ x # 0 /\ x \notin A.steps
      /\ a < x /\ a \in DOMAIN A.up
      /\ DOMAIN B.up = DOMAIN A.up \cup {x} /\ B.up[x] = A.up[a] \cup {x}
      /\ \A n \in DOMAIN A.up : B.up[n] = A.up[n] /\ n # x /\ (n \in B.asy <=> n \in A.asy)
      /\ \A n \in B.asy : n = x \/ n \in A.asy
  BY <1>1, <1>3 DEF Grows, Paths, PathsUp
<1>5. PathsUp(B.up) /\ \A n \in DOMAIN A.up : x \notin A.up[n]
  BY <1>1, <1>3, PathsGrow
<1>6. \A m, n \in DOMAIN A.up : Apart(B.asy, B.up[m], B.up[n]) <=> Apart(A.asy, A.up[m], A.up[n])
  BY <1>1, <1>3, OrderStays
<1>7. ASSUME NEW j \in A.live
      PROVE  /\ j \in A.reg /\ A.node[j] \in DOMAIN A.up /\ Pos(A, j) \in DOMAIN A.up
             /\ A.root[j] # 0 => A.root[j] \in A.reg /\ A.root[j] # c
             /\ j # k => Pos(A, j) # a
             /\ A.node[j] = a => j = k
             /\ Pos(B, j) = Pos(A, j) /\ j # c
  <2>1. j \in A.reg /\ j # c
    BY <1>1, <1>3 DEF Paths
  <2>2. Pos(B, j) = Pos(A, j)
    BY <1>2, <2>1 DEF Pos
  <2>3. A.root[j] # 0 => A.root[j] \in A.reg /\ A.root[j] # c
    BY <1>1, <1>3 DEF Roots, RootAt
  <2>4. QED  BY <1>1, <1>3, <2>1, <2>2, <2>3, PosIs
<1>8. Pos(B, c) = x /\ Pos(B, k) = a /\ k \in A.reg
  BY <1>1, <1>2, <1>7 DEF Pos, a
<1>9. \A m \in A.reg : A.node[m] \in DOMAIN A.up
  BY <1>3 DEF Paths
<1> HIDE DEF a
<1>10. ASSUME NEW j \in A.live, NEW n \in DOMAIN A.up
       PROVE  /\ j # k => (InRoot(B, j, n) <=> InRoot(A, j, n))
              /\ ~InRoot(A, k, n) /\ ~InRoot(B, k, n)
              /\ Inside(A, j, n) => Inside(B, j, n)
  <2>1. /\ j # k => (InRoot(B, j, n) <=> InRoot(A, j, n))
        /\ ~InRoot(A, k, n)
    BY <1>1, <1>2, <1>4, <1>7 DEF InRoot
  <2>2. ~InRoot(B, k, n)
    BY <1>1, <1>2, <1>4, <1>5 DEF InRoot
  <2>3. Inside(A, j, n) => Inside(B, j, n)
    BY <1>2, <1>4, <2>1 DEF Inside
  <2>4. QED  BY <2>1, <2>2, <2>3
<1>11. ASSUME NEW j \in A.live, j # k
       PROVE  (InRoot(A, j, a) => InRoot(B, j, x)) /\ (Inside(A, j, a) => Inside(B, j, x))
  BY <1>2, <1>4, <1>7, <1>11 DEF InRoot, Inside
<1>12. isRoot => InRoot(B, k, x)
  BY <1>1, <1>2, <1>4 DEF InRoot
<1>13. Inside(B, k, x)
  <2>1. CASE A.fin[k] # 0
    <3>1. A.fin[k] = a /\ a \in A.up[a]
      BY <1>3, <1>4, <2>1 DEF Pos, PathsUp, a
    <3>2. QED  BY <1>1, <1>2, <1>4, <2>1, <3>1 DEF Inside
  <2>2. CASE A.fin[k] = 0
    BY <1>1, <1>2, <1>12, <2>2 DEF Inside
  <2>3. QED  BY <2>1, <2>2
<1>14. \A j \in A.live : \A n \in DOMAIN A.up : j # k => (Inside(B, j, n) <=> Inside(A, j, n))
  BY <1>2, <1>4, <1>10 DEF Inside
<1>15. Paths(B)
  <2>1. B.steps \subseteq DOMAIN B.up /\ B.asy \subseteq DOMAIN B.up /\ B.steps \cap B.asy = {}
    BY <1>1, <1>3, <1>4 DEF Paths
  <2>2. \A j \in B.reg : B.node[j] \in DOMAIN B.up \ B.steps
    BY <1>1, <1>2, <1>3, <1>4 DEF Paths
  <2>3. \A i, j \in B.reg : B.node[i] = B.node[j] => i = j
    BY <1>1, <1>2, <1>3, <1>4 DEF Paths
  <2>4. B.live \subseteq B.reg
    BY <1>1, <1>3 DEF Paths
  <2>5. QED  BY <1>5, <2>1, <2>2, <2>3, <2>4 DEF Paths
<1>16. Finishes(B)
  <2>1. ASSUME NEW j \in A.live, A.fin[j] # 0
        PROVE  LastIn(B.up, A.node[j], A.fin[j])
    <3>1. a # A.node[j]
      <4>1. a = A.node[j] => j = k
        BY <1>7
      <4>2. j = k => a = A.fin[j] /\ A.fin[j] # A.node[j]
        BY <1>3, <1>7, <2>1 DEF a, Pos, Finishes
      <4>3. QED  BY <4>1, <4>2
    <3>2. LastIn(A.up, A.node[j], A.fin[j]) /\ A.node[j] \in DOMAIN A.up
      BY <1>3, <1>7, <2>1 DEF Finishes
    <3>3. QED  BY <1>1, <1>3, <3>1, <3>2, LastInGrows
  <2>2. ASSUME NEW j \in A.live, A.fin[j] # 0
        PROVE  /\ A.fin[j] \in (DOMAIN B.up \ B.steps) \ B.asy
               /\ \A m \in A.reg : A.node[m] # A.fin[j]
               /\ x # A.fin[j]
               /\ B.up[A.fin[j]] = B.up[A.node[j]] \cup {A.fin[j]} /\ A.node[j] < A.fin[j]
               /\ \A i \in A.live : A.fin[i] = A.fin[j] => i = j
    BY <1>1, <1>3, <1>4, <1>7, <2>2 DEF Finishes
  <2>3. ASSUME NEW j \in B.live, B.fin[j] # 0
        PROVE  /\ B.fin[j] \in (DOMAIN B.up \ B.steps) \ B.asy
               /\ \A m \in B.reg : B.node[m] # B.fin[j]
               /\ \A i \in B.live : B.fin[i] = B.fin[j] => i = j
               /\ B.up[B.fin[j]] = B.up[B.node[j]] \cup {B.fin[j]} /\ B.node[j] < B.fin[j]
               /\ LastIn(B.up, B.node[j], B.fin[j])
    <3>1. j \in A.live /\ B.fin[j] = A.fin[j] /\ B.node[j] = A.node[j]
      BY <1>1, <1>2, <1>7, <2>3
    <3>2. \A i \in B.live : B.fin[i] = B.fin[j] => i = j
      BY <1>1, <1>2, <2>2, <2>3, <3>1
    <3>3. \A m \in B.reg : B.node[m] # B.fin[j]
      BY <1>1, <1>2, <2>2, <2>3, <3>1
    <3>4. QED  BY <2>1, <2>2, <2>3, <3>1, <3>2, <3>3
  <2>4. QED  BY <2>3 DEF Finishes
<1>17. Roots(B)
  <2>1. ASSUME NEW j \in A.live, j # k, NEW r, r = A.root[j], r # 0
        PROVE  RootAt(B, j, r)
    <3>1. RootAt(A, j, r) /\ r \in A.reg
      BY <1>3, <2>1 DEF Roots, RootAt
    <3>2. A.node[r] \in DOMAIN A.up
      BY <1>3, <3>1 DEF Paths
    <3>3. B.node[r] = A.node[r] /\ B.above[r] = A.above[r] /\ Pos(B, j) = Pos(A, j) /\ Pos(A, j) \in DOMAIN A.up
      BY <1>2, <1>7, <3>1
    <3>4. QED  BY <1>1, <1>2, <1>4, <2>1, <3>1, <3>2, <3>3 DEF RootAt
  <2>2. isRoot => RootAt(B, k, c)
    BY <1>1, <1>2, <1>4, <1>8 DEF RootAt
  <2>3. QED  BY <1>1, <1>2, <2>1, <2>2 DEF Roots
<1>18. Ancestors(B)
  BY <1>1, <1>2, <1>3, <1>8 DEF Ancestors
<1>19. \A s \in A.steps : s \in DOMAIN A.up /\ s # a
  BY <1>3, <1>4, <1>1, PosIs DEF Paths, a
<1>20. \A j \in A.reg : c \notin A.above[j] /\ c # j
  BY <1>1, <1>3 DEF Ancestors
<1>21. Owned(B)
  <2>1. ASSUME NEW s \in A.steps
        PROVE  /\ A.own[s] \in B.reg /\ s \in B.past[A.own[s]]
               /\ \A m \in B.reg : B.node[m] \in B.up[s] <=> m \in B.above[A.own[s]] \/ m = A.own[s]
    <3>1. /\ A.own[s] \in A.reg /\ s \in A.past[A.own[s]]
          /\ \A m \in A.reg : A.node[m] \in A.up[s] <=> m \in A.above[A.own[s]] \/ m = A.own[s]
      BY <1>3 DEF Owned
    <3>2. x \notin A.up[s] /\ B.up[s] = A.up[s]
      BY <1>4, <1>5, <1>19
    <3>3. QED  BY <1>1, <1>2, <1>20, <3>1, <3>2
  <2>2. QED  BY <1>1, <2>1 DEF Owned
<1>22. \A j \in A.live : \A m \in A.reg : A.node[m] \in A.up[Pos(A, j)] <=> m \in A.above[j] \/ m = j
  BY <1>3 DEF Settled
<1>23. Settled(B)
  <2>1. ASSUME NEW j \in A.live, NEW m \in B.reg
        PROVE  B.node[m] \in B.up[Pos(B, j)] <=> m \in B.above[j] \/ m = j
    <3>1. B.up[Pos(B, j)] = A.up[Pos(A, j)] /\ B.above[j] = A.above[j] /\ x \notin A.up[Pos(A, j)]
      BY <1>2, <1>4, <1>5, <1>7
    <3>2. QED  BY <1>1, <1>2, <1>7, <1>20, <1>22, <3>1
  <2>2. ASSUME NEW m \in B.reg
        PROVE  B.node[m] \in B.up[x] <=> m \in B.above[c] \/ m = c
    <3>1. CASE m = c
      BY <1>2, <1>4, <3>1
    <3>2. CASE m # c
      <4>1. m \in A.reg /\ B.node[m] = A.node[m] /\ A.node[m] # x
        BY <1>1, <1>2, <1>4, <1>9, <3>2
      <4>2. A.node[m] \in A.up[a] <=> m \in A.above[k] \/ m = k
        BY <1>1, <1>22, <4>1 DEF a
      <4>3. QED  BY <1>2, <1>4, <3>2, <4>1, <4>2
    <3>3. QED  BY <3>1, <3>2
  <2>3. QED  BY <1>1, <1>8, <2>1, <2>2 DEF Settled
<1>24. NextIsLast(B)
  <2> SUFFICES ASSUME NEW j \in A.live, j # k, A.next[j] # 0
               PROVE  /\ A.next[j] \in Nat /\ Pos(A, j) < A.next[j]
                      /\ \A s \in A.past[j] : s < A.next[j]
                      /\ LastIn(B.up, Pos(A, j), A.next[j])
    BY <1>1, <1>2, <1>7 DEF NextIsLast
  <2>1. /\ A.next[j] \in Nat /\ Pos(A, j) < A.next[j] /\ \A s \in A.past[j] : s < A.next[j]
        /\ LastIn(A.up, Pos(A, j), A.next[j])
    BY <1>3 DEF NextIsLast
  <2>2. a # Pos(A, j) /\ Pos(A, j) \in DOMAIN A.up
    BY <1>7
  <2>3. LastIn(B.up, Pos(A, j), A.next[j])
    BY <1>1, <1>3, <2>1, <2>2, LastInGrows
  <2>4. QED  BY <2>1, <2>3
<1>25. Pasts(B)
  BY <1>1, <1>2, <1>3, <1>8 DEF Pasts
<1>26. LastIn(A.up, a, x)
  BY <1>1, <1>3, LastInParent
<1>27. \A n \in DOMAIN A.up : n # a =>
          /\ Apart(B.asy, B.up[n], B.up[x]) <=> Apart(A.asy, A.up[n], A.up[a])
          /\ Apart(B.asy, B.up[x], B.up[n]) <=> Apart(A.asy, A.up[a], A.up[n])
  BY <1>1, <1>3, <1>26, OrderOfNew
<1>28. \A j \in A.live : \A s \in A.steps :
          s \in A.past[j] <=> ~Apart(A.asy, A.up[s], A.up[Pos(A, j)]) /\ ~InRoot(A, j, s)
  BY <1>3 DEF Serial
<1>29. Serial(B)
  <2>1. ASSUME NEW j \in A.live, NEW s \in A.steps
        PROVE  s \in B.past[j] <=> ~Apart(B.asy, B.up[s], B.up[Pos(B, j)]) /\ ~InRoot(B, j, s)
    <3>1. InRoot(B, j, s) <=> InRoot(A, j, s)
      BY <1>10, <1>19
    <3>2. Apart(B.asy, B.up[s], B.up[Pos(B, j)]) <=> Apart(A.asy, A.up[s], A.up[Pos(A, j)])
      BY <1>6, <1>7, <1>19
    <3>3. B.past[j] = A.past[j]
      BY <1>2, <1>7
    <3>4. QED  BY <1>28, <3>1, <3>2, <3>3
  <2>2. ASSUME NEW s \in A.steps
        PROVE  s \in B.past[c] <=> ~Apart(B.asy, B.up[s], B.up[x]) /\ ~InRoot(B, c, s)
    <3>1. ~InRoot(B, c, s) /\ ~InRoot(A, k, s)
      BY <1>1, <1>2 DEF InRoot
    <3>2. Apart(B.asy, B.up[s], B.up[x]) <=> Apart(A.asy, A.up[s], A.up[a])
      BY <1>19, <1>27
    <3>3. QED  BY <1>1, <1>2, <1>28, <3>1, <3>2 DEF a
  <2>3. QED  BY <1>1, <1>8, <2>1, <2>2 DEF Serial
<1>30. Parallel(B)
  <2> DEFINE P(i, j) == \/ Apart(B.asy, B.up[Pos(B, i)], B.up[Pos(B, j)])
                        \/ InRoot(B, i, Pos(B, j)) \/ InRoot(B, j, Pos(B, i))
  <2>1. ASSUME NEW i \in A.live, NEW j \in A.live, i # j
        PROVE  P(i, j)
    <3>1. \/ Apart(A.asy, A.up[Pos(A, i)], A.up[Pos(A, j)])
          \/ InRoot(A, i, Pos(A, j)) \/ InRoot(A, j, Pos(A, i))
      BY <1>3, <2>1 DEF Parallel
    <3>2. /\ Pos(B, i) = Pos(A, i) /\ Pos(A, i) \in DOMAIN A.up
          /\ Pos(B, j) = Pos(A, j) /\ Pos(A, j) \in DOMAIN A.up
      BY <1>7
    <3>3. /\ InRoot(A, i, Pos(A, j)) => InRoot(B, i, Pos(A, j))
          /\ InRoot(A, j, Pos(A, i)) => InRoot(B, j, Pos(A, i))
      BY <1>10, <3>2
    <3>4. QED  BY <1>6, <3>1, <3>2, <3>3
  <2>2. ASSUME NEW j \in A.live
        PROVE  P(c, j) /\ P(j, c)
    <3>1. CASE j = k
      BY <1>1, <1>3, <1>8, <1>12, <3>1, OrderOfParent
    <3>2. CASE j # k
      <4>1. Apart(A.asy, A.up[a], A.up[Pos(A, j)]) \/ InRoot(A, j, a)
        BY <1>1, <1>3, <1>7, <1>10, <3>2 DEF Parallel, a
      <4>2. Pos(B, j) = Pos(A, j) /\ Pos(A, j) \in DOMAIN A.up /\ Pos(A, j) # a
        BY <1>7, <3>2
      <4>3. InRoot(A, j, a) => InRoot(B, j, x)
        BY <1>11, <3>2
      <4>4. Apart(A.asy, A.up[a], A.up[Pos(A, j)]) =>
               Apart(B.asy, B.up[x], B.up[Pos(A, j)]) /\ Apart(B.asy, B.up[Pos(A, j)], B.up[x])
        BY <1>27, <4>2, ApartBothWays
      <4>5. QED  BY <1>8, <4>1, <4>2, <4>3, <4>4
    <3>3. QED  BY <3>1, <3>2
  <2>3. \A i, j \in B.live : i # j => P(i, j)
    <3> HIDE DEF P
    <3>1. QED  BY <1>1, <2>1, <2>2
  <2>4. QED  BY <2>3 DEF Parallel
<1>31. Recorded(B)
  BY <1>1, <1>3, <1>4, <1>6, <1>19 DEF Recorded
<1>32. \A d \in A.reg : \A s \in A.past[d] : s \in A.steps /\ s \in DOMAIN A.up
  BY <1>3, <1>19 DEF Pasts
<1>33. RootPasts(B)
  <2>1. ASSUME NEW j \in A.live, j # k, A.root[j] # 0, NEW d \in A.reg,
               d = A.root[j] \/ A.root[j] \in A.above[d], NEW s \in A.past[d]
        PROVE  s \in A.past[j] \/ A.node[A.root[j]] \in B.up[s]
    <3>1. s \in A.past[j] \/ A.node[A.root[j]] \in A.up[s]
      BY <1>3, <2>1 DEF RootPasts
    <3>2. QED  BY <1>4, <1>32, <3>1
  <2>2. ASSUME NEW j \in B.live, NEW r, r = B.root[j], r # 0, NEW d \in B.reg,
               d = r \/ r \in B.above[d], NEW s \in B.past[d]
        PROVE  s \in B.past[j] \/ B.node[r] \in B.up[s]
    <3>1. CASE j = k /\ isRoot
      <4>1. r = c
        BY <1>1, <1>2, <2>2, <3>1
      <4>2. d = c
        BY <1>1, <1>2, <1>8, <1>20, <2>2, <4>1
      <4>3. QED  BY <1>2, <1>8, <2>2, <3>1, <4>2
    <3>2. CASE ~(j = k /\ isRoot)
      <4>1. j \in A.live /\ j # k /\ r = A.root[j] /\ r \in A.reg /\ r # c /\ j \in A.reg
        BY <1>1, <1>2, <1>7, <2>2, <3>2
      <4>2. B.node[r] = A.node[r] /\ B.past[j] = A.past[j]
        BY <1>2, <4>1
      <4>3. CASE d # c
        <5>1. d \in A.reg /\ B.past[d] = A.past[d] /\ B.above[d] = A.above[d]
          BY <1>1, <1>2, <4>3
        <5>2. QED  BY <2>1, <2>2, <4>1, <4>2, <5>1
      <4>4. CASE d = c
        <5>1. k = A.root[j] \/ A.root[j] \in A.above[k]
          BY <1>2, <2>2, <4>1, <4>4
        <5>2. s \in A.past[k] /\ A.root[j] # 0
          BY <1>2, <2>2, <4>1, <4>4
        <5>3. QED  BY <1>8, <2>1, <4>1, <4>2, <5>1, <5>2
      <4>5. QED  BY <4>3, <4>4
    <3>3. QED  BY <3>1, <3>2
  <2>3. QED  BY <2>2 DEF RootPasts
<1>34. KidPasts(B)
  <2>1. ASSUME NEW j \in A.live, NEW d \in A.reg, j \in A.above[d], NEW s \in A.past[d]
        PROVE  s \in A.past[j] \/ Inside(B, j, s)
    BY <1>3, <1>10, <1>32, <2>1 DEF KidPasts
  <2>2. ASSUME NEW j \in B.live, NEW d \in B.reg, j \in B.above[d], NEW s \in B.past[d]
        PROVE  s \in B.past[j] \/ Inside(B, j, s)
    <3>1. CASE d # c
      <4>1. d \in A.reg /\ B.past[d] = A.past[d] /\ B.above[d] = A.above[d]
        BY <1>1, <1>2, <3>1
      <4>2. j \in A.live /\ B.past[j] = A.past[j]
        BY <1>1, <1>2, <1>7, <1>20, <2>2, <4>1
      <4>3. QED  BY <2>1, <2>2, <4>1, <4>2
    <3>2. CASE d = c
      <4>1. s \in A.past[k] /\ (j = k \/ j \in A.above[k])
        BY <1>2, <2>2, <3>2
      <4>2. j \in A.live /\ B.past[j] = A.past[j]
        BY <1>1, <1>2, <1>7, <1>8, <1>20, <2>2, <4>1
      <4>3. QED  BY <1>8, <2>1, <4>1, <4>2
    <3>3. QED  BY <3>1, <3>2
  <2>3. QED  BY <2>2 DEF KidPasts
<1>35. KidsInside(B)
  <2>1. ASSUME NEW i \in B.live, NEW j \in B.live, i \in B.above[j]
        PROVE  Inside(B, i, Pos(B, j))
    <3>1. CASE j # c
      <4>1. j \in A.live /\ i \in A.above[j] /\ i \in A.live
        BY <1>1, <1>2, <1>7, <1>20, <2>1, <3>1
      <4>2. Inside(A, i, Pos(A, j)) /\ Pos(A, j) \in DOMAIN A.up /\ Pos(B, j) = Pos(A, j)
        BY <1>3, <1>7, <4>1 DEF KidsInside
      <4>3. QED  BY <1>10, <4>1, <4>2
    <3>2. CASE j = c /\ i = k
      BY <1>8, <1>13, <3>2
    <3>3. CASE j = c /\ i # k
      <4>1. i \in A.above[k] /\ i \in A.live
        BY <1>1, <1>2, <1>8, <1>20, <2>1, <3>3
      <4>2. Inside(A, i, a)
        BY <1>1, <1>3, <4>1 DEF KidsInside, a
      <4>3. QED  BY <1>8, <1>11, <3>3, <4>1, <4>2
    <3>4. QED  BY <3>1, <3>2, <3>3
  <2>2. QED  BY <2>1 DEF KidsInside
<1>36. QED  BY <1>15, <1>16, <1>17, <1>18, <1>21, <1>23, <1>24, <1>25, <1>29, <1>30, <1>31, <1>33, <1>34, <1>35
            DEF Ordered

\* A node f that is no ASYNC comes next on the path to n after that to p.
LEMMA SerialBelow ==
    ASSUME NEW up, PathsUp(up), NEW W, NEW f \in DOMAIN up, f \notin W, NEW p \in DOMAIN up,
           up[f] = up[p] \cup {f}, p < f, NEW n \in DOMAIN up, f \in up[n]
    PROVE  ~Apart(W, up[n], up[p]) /\ up[p] \subseteq up[n]
<1>1. /\ \A m \in up[n] : m \in Nat
      /\ \A y : y \in up[f] <=> y \in up[n] /\ y <= f
      /\ \A y \in up[p] : y <= p /\ y \in Nat
      /\ p \in Nat /\ f \in Nat
  BY DEF PathsUp
<1>2. f \notin up[p]
  BY <1>1
<1>3. ASSUME Apart(W, up[n], up[p])
      PROVE  FALSE
  <2>1. PICK c \in W : c \in Diff(up[n], up[p]) /\ \A m \in Diff(up[n], up[p]) : c <= m
    BY <1>3 DEF Apart
  <2>2. f \in Diff(up[n], up[p])
    BY <1>2 DEF Diff
  <2>3. c <= f /\ c \in up[n] /\ c \notin up[p]
    BY <1>1, <2>1, <2>2 DEF Diff
  <2>4. c \in up[f]
    BY <1>1, <2>3
  <2>5. QED  BY <2>1, <2>3, <2>4
<1>4. QED  BY <1>1, <1>3

\* All that k has spawned has ended, and its implicit FINISH is closed.
KidsJoined(A, B, k) ==
    /\ k \in A.live /\ A.fin[k] # 0 /\ A.root[k] = 0
    /\ \A d \in A.reg : k \in A.above[d] => d \notin A.live
    /\ SameTree(A, B)
    /\ B.live = A.live /\ B.reg = A.reg
    /\ \A j \in A.reg : B.node[j] = A.node[j] /\ B.above[j] = A.above[j]
    /\ \A j \in A.reg : j # k => B.past[j] = A.past[j]
    /\ \A s : s \in B.past[k] <=> s \in A.past[k] \/ \E d \in A.reg : k \in A.above[d] /\ s \in A.past[d]
    /\ \A j \in A.live : /\ B.root[j] = A.root[j]
                         /\ B.fin[j] = IF j = k THEN 0 ELSE A.fin[j]
                         /\ B.next[j] = IF j = k THEN 0 ELSE A.next[j]

LEMMA KidsJoinedOrdered ==
    ASSUME NEW A, NEW B, NEW k, Ordered(A), KidsJoined(A, B, k)
    PROVE  Ordered(B)
<1> DEFINE f == A.fin[k]
           p == A.node[k]
<1>1. /\ k \in A.live /\ f # 0 /\ A.root[k] = 0
      /\ \A d \in A.reg : k \in A.above[d] => d \notin A.live
      /\ B.up = A.up /\ B.asy = A.asy /\ B.steps = A.steps /\ B.own = A.own /\ B.before = A.before
      /\ B.live = A.live /\ B.reg = A.reg
      /\ \A j \in A.reg : B.node[j] = A.node[j] /\ B.above[j] = A.above[j]
  BY DEF KidsJoined, SameTree
<1>2. /\ \A j \in A.reg : j # k => B.past[j] = A.past[j]
      /\ \A s : s \in B.past[k] <=> s \in A.past[k] \/ \E d \in A.reg : k \in A.above[d] /\ s \in A.past[d]
      /\ \A j \in A.live : /\ B.root[j] = A.root[j]
                           /\ B.fin[j] = IF j = k THEN 0 ELSE A.fin[j]
                           /\ B.next[j] = IF j = k THEN 0 ELSE A.next[j]
  BY DEF KidsJoined
<1>3. /\ Paths(A) /\ Finishes(A) /\ Roots(A) /\ Ancestors(A) /\ Owned(A) /\ Settled(A) /\ NextIsLast(A)
      /\ Pasts(A) /\ Serial(A) /\ Parallel(A) /\ Recorded(A)
      /\ RootPasts(A) /\ KidPasts(A) /\ KidsInside(A) /\ PathsUp(A.up)
  BY DEF Ordered, Paths
<1>4. ASSUME NEW j \in A.live
      PROVE  /\ j \in A.reg /\ A.node[j] \in DOMAIN A.up /\ Pos(A, j) \in DOMAIN A.up
             /\ A.root[j] # 0 => A.root[j] \in A.reg
             /\ j # k => Pos(A, j) # p /\ Pos(B, j) = Pos(A, j)
  <2>1. k \in A.reg /\ j \in A.reg
    BY <1>1, <1>3 DEF Paths
  <2>2. j # k => Pos(B, j) = Pos(A, j)
    BY <1>1, <1>2, <2>1 DEF Pos
  <2>3. QED  BY <1>3, <2>1, <2>2, PosIs DEF Roots, RootAt
<1>5. Pos(A, k) = f /\ Pos(B, k) = p /\ k \in A.reg
  BY <1>1, <1>2, <1>4 DEF Pos
<1>6. /\ f \in DOMAIN A.up /\ f \notin A.asy /\ p \in DOMAIN A.up
      /\ A.up[f] = A.up[p] \cup {f} /\ p < f /\ LastIn(A.up, p, f)
      /\ \A m \in A.reg : A.node[m] # f
      /\ \A j \in A.live : A.fin[j] = f => j = k
  BY <1>1, <1>3, <1>4 DEF Finishes
<1> HIDE DEF f, p
<1>7. f \in Nat /\ p \in Nat /\ f \notin A.up[p]
  BY <1>3, <1>6 DEF PathsUp
<1>8. \A j \in A.live : \A n :
         /\ InRoot(B, j, n) <=> InRoot(A, j, n)
         /\ j # k => (Inside(B, j, n) <=> Inside(A, j, n))
  BY <1>1, <1>2, <1>4 DEF InRoot, Inside
<1>9. ASSUME NEW j \in A.live
      PROVE  /\ InRoot(A, j, f) => InRoot(B, j, p)
             /\ j # k /\ Inside(A, j, f) => Inside(B, j, p)
  <2>1. InRoot(A, j, f) => InRoot(B, j, p)
    BY <1>1, <1>2, <1>4, <1>6 DEF InRoot
  <2>2. j # k /\ A.fin[j] # 0 /\ A.fin[j] \in A.up[f] => A.fin[j] \in A.up[p]
    BY <1>6
  <2>3. QED  BY <1>1, <1>2, <2>1, <2>2 DEF Inside
<1>10. Paths(B)
  BY <1>1, <1>3 DEF Paths
<1>11. Finishes(B)
  <2>1. ASSUME NEW j \in B.live, B.fin[j] # 0
        PROVE  /\ B.fin[j] \in (DOMAIN B.up \ B.steps) \ B.asy
               /\ \A m \in B.reg : B.node[m] # B.fin[j]
               /\ \A i \in B.live : B.fin[i] = B.fin[j] => i = j
               /\ B.up[B.fin[j]] = B.up[B.node[j]] \cup {B.fin[j]} /\ B.node[j] < B.fin[j]
               /\ LastIn(B.up, B.node[j], B.fin[j])
    <3>1. j # k /\ j \in A.live /\ B.fin[j] = A.fin[j] /\ B.node[j] = A.node[j]
      BY <1>1, <1>2, <1>4, <2>1
    <3>2. \A i \in B.live : B.fin[i] = B.fin[j] => i = j
      BY <1>1, <1>2, <1>3, <2>1, <3>1 DEF Finishes
    <3>3. QED  BY <1>1, <1>3, <2>1, <3>1, <3>2 DEF Finishes
  <2>2. QED  BY <2>1 DEF Finishes
<1>12. Roots(B)
  <2>1. ASSUME NEW j \in A.live, NEW r, r = A.root[j], r # 0
        PROVE  RootAt(B, j, r)
    <3>1. RootAt(A, j, r) /\ r \in A.reg /\ j # k
      BY <1>1, <1>3, <2>1 DEF Roots, RootAt
    <3>2. B.node[r] = A.node[r] /\ B.above[r] = A.above[r] /\ Pos(B, j) = Pos(A, j)
      BY <1>1, <1>4, <3>1
    <3>3. QED  BY <1>1, <1>2, <3>1, <3>2 DEF RootAt
  <2>2. QED  BY <1>1, <1>2, <2>1 DEF Roots
<1>13. Ancestors(B)
  BY <1>1, <1>3 DEF Ancestors
<1>14. \A d \in A.reg : \A s \in A.past[d] : s \in B.past[d] /\ s \in A.steps
  BY <1>2, <1>3 DEF Pasts
<1>15. Owned(B)
  <2>1. ASSUME NEW s \in A.steps
        PROVE  /\ A.own[s] \in A.reg /\ s \in B.past[A.own[s]]
               /\ \A m \in A.reg : B.node[m] \in B.up[s] <=> m \in B.above[A.own[s]] \/ m = A.own[s]
    BY <1>1, <1>3, <1>14 DEF Owned
  <2>2. QED  BY <1>1, <2>1 DEF Owned
<1>16. \A j \in A.live : \A m \in A.reg : A.node[m] \in A.up[Pos(A, j)] <=> m \in A.above[j] \/ m = j
  BY <1>3 DEF Settled
<1>17. Settled(B)
  <2> SUFFICES ASSUME NEW j \in A.live, NEW m \in A.reg
               PROVE  A.node[m] \in A.up[Pos(B, j)] <=> m \in A.above[j] \/ m = j
    BY <1>1, <1>4 DEF Settled
  <2>1. A.node[m] \in A.up[Pos(A, j)] <=> m \in A.above[j] \/ m = j
    BY <1>16
  <2>2. QED  BY <1>4, <1>5, <1>6, <2>1
<1>18. NextIsLast(B)
  BY <1>1, <1>2, <1>3, <1>4 DEF NextIsLast
<1>19. Pasts(B)
  <2>1. \A j \in A.reg : B.past[j] \subseteq A.steps
    BY <1>2, <1>5, <1>14
  <2>2. QED  BY <1>1, <1>3, <2>1 DEF Pasts
<1>20. \A s \in A.steps : s \in DOMAIN A.up /\ s # p
  BY <1>1, <1>3, <1>5 DEF Paths, p
<1>21. ASSUME NEW n \in DOMAIN A.up, n # p, f \notin A.up[n]
       PROVE  /\ Apart(A.asy, A.up[n], A.up[f]) <=> Apart(A.asy, A.up[n], A.up[p])
              /\ Apart(A.asy, A.up[f], A.up[n]) <=> Apart(A.asy, A.up[p], A.up[n])
  <2>1. p \in A.up[n] => \E c \in A.up[n] : p < c /\ c < f
    BY <1>6, <1>21 DEF LastIn
  <2>2. PICK up, W : up = A.up /\ W = A.asy
    OBVIOUS
  <2>3. Apart(W, up[n], up[p] \cup {f}) <=> Apart(W, up[n], up[p])
    <3>1. PathsUp(up) /\ n \in DOMAIN up /\ p \in DOMAIN up /\ f \notin up[n] /\ f \notin up[p]
      BY <1>3, <1>6, <1>7, <1>21, <2>2
    <3>2. p \in up[n] => \E c \in up[n] : p < c /\ c < f
      BY <2>1, <2>2
    <3>3. \A y : y # f => (y \in W <=> y \in W)
      OBVIOUS
    <3>4. QED  BY <1>6, <1>7, <1>21, <3>1, <3>2, <3>3, OrderKept
  <2>4. QED  BY <1>6, <2>2, <2>3, ApartBothWays
<1>22. ASSUME NEW s \in A.steps, p \in A.up[s]
       PROVE  s \in B.past[k]
  <2>1. k \in A.above[A.own[s]] \/ k = A.own[s]
    BY <1>3, <1>5, <1>22 DEF Owned, p
  <2>2. A.own[s] \in A.reg /\ s \in A.past[A.own[s]]
    BY <1>3 DEF Owned
  <2>3. QED  BY <1>2, <2>1, <2>2
<1>23. \A s : ~InRoot(A, k, s)
  BY <1>1 DEF InRoot
<1>24. ASSUME NEW s \in A.steps
       PROVE  s \in B.past[k] <=> ~Apart(A.asy, A.up[s], A.up[p])
  <2>1. CASE f \in A.up[s]
    <3>1. ~Apart(A.asy, A.up[s], A.up[p]) /\ A.up[p] \subseteq A.up[s]
      BY <1>3, <1>6, <1>20, <2>1, SerialBelow
    <3>2. p \in A.up[s]
      BY <1>3, <1>6, <3>1 DEF PathsUp
    <3>3. QED  BY <1>22, <3>1, <3>2
  <2>2. CASE f \notin A.up[s]
    <3>1. s \in A.past[k] <=> ~Apart(A.asy, A.up[s], A.up[f])
      BY <1>1, <1>3, <1>5, <1>23 DEF Serial
    <3>2. \A d \in A.reg : k \in A.above[d] /\ s \in A.past[d] => s \in A.past[k]
      BY <1>1, <1>3, <2>2 DEF KidPasts, Inside, f
    <3>3. QED  BY <1>2, <1>20, <1>21, <2>2, <3>1, <3>2
  <2>3. QED  BY <2>1, <2>2
<1>25. Serial(B)
  <2> SUFFICES ASSUME NEW j \in A.live, NEW s \in A.steps
               PROVE  s \in B.past[j] <=> ~Apart(A.asy, A.up[s], A.up[Pos(B, j)]) /\ ~InRoot(B, j, s)
    BY <1>1 DEF Serial
  <2>1. CASE j = k
    BY <1>5, <1>8, <1>23, <1>24, <2>1
  <2>2. CASE j # k
    BY <1>2, <1>3, <1>4, <1>8, <2>2 DEF Serial
  <2>3. QED  BY <2>1, <2>2
<1>26. Parallel(B)
  <2> DEFINE P(i, j) == \/ Apart(A.asy, A.up[Pos(B, i)], A.up[Pos(B, j)])
                        \/ InRoot(B, i, Pos(B, j)) \/ InRoot(B, j, Pos(B, i))
  <2>1. ASSUME NEW i \in A.live, NEW j \in A.live, i # j, i # k, j # k
        PROVE  P(i, j)
    BY <1>3, <1>4, <1>8, <2>1 DEF Parallel
  <2>2. ASSUME NEW j \in A.live, j # k
        PROVE  P(k, j) /\ P(j, k)
    <3>1. Apart(A.asy, A.up[f], A.up[Pos(A, j)]) \/ InRoot(A, j, f)
      BY <1>1, <1>3, <1>5, <1>23, <2>2 DEF Parallel
    <3>2. f \notin A.up[Pos(A, j)]
      <4>1. SUFFICES ASSUME f \in A.up[Pos(A, j)]
                     PROVE  FALSE
        OBVIOUS
      <4>2. A.up[p] \subseteq A.up[Pos(A, j)]
        BY <1>3, <1>4, <1>6, <4>1, SerialBelow
      <4>3. p \in A.up[Pos(A, j)]
        BY <1>3, <1>6, <4>2 DEF PathsUp
      <4>4. k \in A.above[j]
        BY <1>5, <1>16, <2>2, <4>3 DEF p
      <4>5. QED  BY <1>1, <1>4, <4>4
    <3>3. Pos(B, j) = Pos(A, j) /\ Pos(A, j) \in DOMAIN A.up /\ Pos(A, j) # p
      BY <1>4, <2>2
    <3>4. Apart(A.asy, A.up[f], A.up[Pos(A, j)]) => Apart(A.asy, A.up[p], A.up[Pos(A, j)])
      BY <1>21, <3>2, <3>3
    <3>5. InRoot(A, j, f) => InRoot(B, j, p)
      BY <1>9
    <3>6. QED  BY <1>5, <3>1, <3>3, <3>4, <3>5, ApartBothWays
  <2>3. \A i, j \in A.live : i # j => P(i, j)
    <3> HIDE DEF P
    <3>1. QED  BY <2>1, <2>2
  <2>4. QED  BY <1>1, <2>3 DEF Parallel
<1>27. Recorded(B)
  BY <1>1, <1>3 DEF Recorded
<1>28. ASSUME NEW s \in B.past[k]
       PROVE  s \in A.past[k] \/ \E d \in A.reg : s \in A.past[d] /\ A.above[k] \cup {k} \subseteq A.above[d]
  <2>1. \A d \in A.reg : k \in A.above[d] => A.above[k] \subseteq A.above[d]
    BY <1>3 DEF Ancestors
  <2>2. QED  BY <1>2, <2>1
<1>29. RootPasts(B)
  <2>1. ASSUME NEW j \in A.live, NEW r, r = A.root[j], r # 0, NEW d \in A.reg,
               d = r \/ r \in A.above[d], NEW s \in B.past[d]
        PROVE  s \in A.past[j] \/ A.node[r] \in A.up[s]
    <3>1. \A e \in A.reg : e = r \/ r \in A.above[e] =>
             \A y \in A.past[e] : y \in A.past[j] \/ A.node[r] \in A.up[y]
      BY <1>3, <2>1 DEF RootPasts
    <3>2. CASE d # k
      BY <1>2, <2>1, <3>1, <3>2
    <3>3. CASE d = k
      BY <1>28, <2>1, <3>1, <3>3
    <3>4. QED  BY <3>2, <3>3
  <2>2. ASSUME NEW j \in B.live, NEW r, r = B.root[j], r # 0, NEW d \in B.reg,
               d = r \/ r \in B.above[d], NEW s \in B.past[d]
        PROVE  s \in B.past[j] \/ B.node[r] \in B.up[s]
    <3>1. j \in A.live /\ j \in A.reg /\ r = A.root[j] /\ r \in A.reg /\ d \in A.reg
      BY <1>1, <1>2, <1>4, <2>2
    <3>2. s \in A.past[j] \/ A.node[r] \in A.up[s]
      BY <1>1, <2>1, <2>2, <3>1
    <3>3. QED  BY <1>1, <1>14, <3>1, <3>2
  <2>3. QED  BY <2>2 DEF RootPasts
<1>30. KidPasts(B)
  <2>1. ASSUME NEW j \in A.live, j # k, NEW d \in A.reg, j \in A.above[d], NEW s \in B.past[d]
        PROVE  s \in A.past[j] \/ Inside(A, j, s)
    <3>1. \A e \in A.reg : j \in A.above[e] => \A y \in A.past[e] : y \in A.past[j] \/ Inside(A, j, y)
      BY <1>3 DEF KidPasts
    <3>2. CASE d # k
      BY <1>2, <2>1, <3>1, <3>2
    <3>3. CASE d = k
      BY <1>28, <2>1, <3>1, <3>3
    <3>4. QED  BY <3>2, <3>3
  <2>2. ASSUME NEW d \in A.reg, k \in A.above[d], NEW s \in B.past[d]
        PROVE  s \in B.past[k]
    <3>1. d # k
      BY <1>1, <2>2
    <3>2. QED  BY <1>2, <2>2, <3>1
  <2>3. ASSUME NEW j \in B.live, NEW d \in B.reg, j \in B.above[d], NEW s \in B.past[d]
        PROVE  s \in B.past[j] \/ Inside(B, j, s)
    <3>1. j \in A.live /\ j \in A.reg /\ d \in A.reg /\ j \in A.above[d]
      BY <1>1, <1>4, <2>3
    <3>2. QED  BY <1>8, <1>14, <2>1, <2>2, <2>3, <3>1
  <2>4. QED  BY <2>3 DEF KidPasts
<1>31. KidsInside(B)
  <2> SUFFICES ASSUME NEW i \in A.live, NEW j \in A.live, i \in A.above[j]
               PROVE  Inside(B, i, Pos(B, j))
    BY <1>1, <1>4 DEF KidsInside
  <2>1. Inside(A, i, Pos(A, j)) /\ i # k
    BY <1>1, <1>3, <1>4 DEF KidsInside
  <2>2. QED  BY <1>4, <1>5, <1>8, <1>9, <2>1
<1>32. QED  BY <1>10, <1>11, <1>12, <1>13, <1>15, <1>17, <1>18, <1>19, <1>25, <1>26, <1>27, <1>29, <1>30, <1>31
            DEF Ordered

\* Of task d, its root task r or a task below that.
InScope(A, r, d) == d = r \/ r \in A.above[d]

\* The root task k has spawned has ended, and all below it.
RootJoined(A, B, k) ==
    /\ k \in A.live /\ A.root[k] # 0
    /\ \A d \in A.reg : InScope(A, A.root[k], d) => d \notin A.live
    /\ SameTree(A, B)
    /\ B.live = A.live /\ B.reg = A.reg
    /\ \A j \in A.reg : B.node[j] = A.node[j] /\ B.above[j] = A.above[j]
    /\ \A j \in A.reg : j # k => B.past[j] = A.past[j]
    /\ \A s : s \in B.past[k] <=>
                 s \in A.past[k] \/ \E d \in A.reg : InScope(A, A.root[k], d) /\ s \in A.past[d]
    /\ \A j \in A.live : /\ B.fin[j] = A.fin[j] /\ B.next[j] = A.next[j]
                         /\ B.root[j] = IF j = k THEN 0 ELSE A.root[j]

LEMMA RootJoinedOrdered ==
    ASSUME NEW A, NEW B, NEW k, Ordered(A), RootJoined(A, B, k)
    PROVE  Ordered(B)
<1> DEFINE r == A.root[k]
           f == A.node[r]
           p == Pos(A, k)
<1>1. /\ k \in A.live /\ r # 0
      /\ \A d \in A.reg : InScope(A, r, d) => d \notin A.live
      /\ B.up = A.up /\ B.asy = A.asy /\ B.steps = A.steps /\ B.own = A.own /\ B.before = A.before
      /\ B.live = A.live /\ B.reg = A.reg
      /\ \A j \in A.reg : B.node[j] = A.node[j] /\ B.above[j] = A.above[j]
  BY DEF RootJoined, SameTree
<1>2. /\ \A j \in A.reg : j # k => B.past[j] = A.past[j]
      /\ \A s : s \in B.past[k] <=> s \in A.past[k] \/ \E d \in A.reg : InScope(A, r, d) /\ s \in A.past[d]
      /\ \A j \in A.live : /\ B.fin[j] = A.fin[j] /\ B.next[j] = A.next[j]
                           /\ B.root[j] = IF j = k THEN 0 ELSE A.root[j]
  BY DEF RootJoined
<1>3. /\ Paths(A) /\ Finishes(A) /\ Roots(A) /\ Ancestors(A) /\ Owned(A) /\ Settled(A) /\ NextIsLast(A)
      /\ Pasts(A) /\ Serial(A) /\ Parallel(A) /\ Recorded(A)
      /\ RootPasts(A) /\ KidPasts(A) /\ KidsInside(A) /\ PathsUp(A.up)
  BY DEF Ordered, Paths
<1>4. ASSUME NEW j \in A.live
      PROVE  /\ j \in A.reg /\ A.node[j] \in DOMAIN A.up /\ Pos(A, j) \in DOMAIN A.up
             /\ A.root[j] # 0 => A.root[j] \in A.reg
             /\ Pos(B, j) = Pos(A, j)
  <2>1. j \in A.reg
    BY <1>3 DEF Paths
  <2>2. Pos(B, j) = Pos(A, j)
    BY <1>1, <1>2, <2>1 DEF Pos
  <2>3. QED  BY <1>3, <2>1, <2>2, PosIs DEF Roots, RootAt
<1>5. k \in A.reg /\ r \in A.reg /\ k \in A.above[r]
  BY <1>1, <1>3, <1>4 DEF Roots, RootAt
<1>6. /\ f \in DOMAIN A.up /\ f \notin A.asy /\ p \in DOMAIN A.up
      /\ A.up[f] = A.up[p] \cup {f} /\ p < f
  BY <1>1, <1>3, <1>4, <1>5 DEF Roots, RootAt, Paths
<1> HIDE DEF r, f, p
<1>7. /\ \A j \in A.live : j # k => \A n : /\ InRoot(B, j, n) <=> InRoot(A, j, n)
                                           /\ Inside(B, j, n) <=> Inside(A, j, n)
      /\ \A n : ~InRoot(B, k, n)
      /\ \A n : InRoot(A, k, n) <=> f \in A.up[n]
  BY <1>1, <1>2, <1>4 DEF InRoot, Inside, r, f
<1>8. Paths(B)
  BY <1>1, <1>3 DEF Paths
<1>9. Finishes(B)
  BY <1>1, <1>2, <1>3, <1>4 DEF Finishes
<1>10. Roots(B)
  <2>1. ASSUME NEW j \in A.live, j # k, NEW q, q = A.root[j], q # 0
        PROVE  RootAt(B, j, q)
    <3>1. RootAt(A, j, q) /\ q \in A.reg
      BY <1>3, <2>1 DEF Roots, RootAt
    <3>2. B.node[q] = A.node[q] /\ B.above[q] = A.above[q] /\ Pos(B, j) = Pos(A, j)
      BY <1>1, <1>4, <3>1
    <3>3. QED  BY <1>1, <1>2, <3>1, <3>2 DEF RootAt
  <2>2. QED  BY <1>1, <1>2, <2>1 DEF Roots
<1>11. Ancestors(B)
  BY <1>1, <1>3 DEF Ancestors
<1>12. \A d \in A.reg : \A s \in A.past[d] : s \in B.past[d] /\ s \in A.steps
  BY <1>2, <1>3 DEF Pasts
<1>13. Owned(B)
  <2>1. ASSUME NEW s \in A.steps
        PROVE  /\ A.own[s] \in A.reg /\ s \in B.past[A.own[s]]
               /\ \A m \in A.reg : B.node[m] \in B.up[s] <=> m \in B.above[A.own[s]] \/ m = A.own[s]
    BY <1>1, <1>3, <1>12 DEF Owned
  <2>2. QED  BY <1>1, <2>1 DEF Owned
<1>14. Settled(B)
  BY <1>1, <1>3, <1>4 DEF Settled
<1>15. NextIsLast(B)
  <2>1. \A j \in A.live : A.next[j] # 0 => j # k
    BY <1>1, <1>3 DEF Roots, RootAt, r
  <2>2. QED  BY <1>1, <1>2, <1>3, <1>4, <2>1 DEF NextIsLast
<1>16. Pasts(B)
  <2>1. \A j \in A.reg : B.past[j] \subseteq A.steps
    BY <1>2, <1>5, <1>12
  <2>2. QED  BY <1>1, <1>3, <2>1 DEF Pasts
<1>17. \A s \in A.steps : s \in DOMAIN A.up
  BY <1>3 DEF Paths
<1>18. ASSUME NEW s \in A.steps, f \in A.up[s]
       PROVE  s \in B.past[k]
  <2>1. r \in A.above[A.own[s]] \/ r = A.own[s]
    BY <1>3, <1>5, <1>18 DEF Owned, f
  <2>2. A.own[s] \in A.reg /\ s \in A.past[A.own[s]]
    BY <1>3 DEF Owned
  <2>3. QED  BY <1>2, <2>1, <2>2 DEF InScope
<1>19. ASSUME NEW s \in A.steps
       PROVE  s \in B.past[k] <=> ~Apart(A.asy, A.up[s], A.up[p])
  <2>1. CASE f \in A.up[s]
    <3>1. ~Apart(A.asy, A.up[s], A.up[p])
      BY <1>3, <1>6, <1>17, <2>1, SerialBelow
    <3>2. QED  BY <1>18, <2>1, <3>1
  <2>2. CASE f \notin A.up[s]
    <3>1. s \in A.past[k] <=> ~Apart(A.asy, A.up[s], A.up[p])
      BY <1>1, <1>3, <1>7, <2>2 DEF Serial, p
    <3>2. \A d \in A.reg : InScope(A, r, d) /\ s \in A.past[d] => s \in A.past[k]
      BY <1>1, <1>3, <2>2 DEF RootPasts, InScope, r, f
    <3>3. QED  BY <1>2, <3>1, <3>2
  <2>3. QED  BY <2>1, <2>2
<1>20. Serial(B)
  <2> SUFFICES ASSUME NEW j \in A.live, NEW s \in A.steps
               PROVE  s \in B.past[j] <=> ~Apart(A.asy, A.up[s], A.up[Pos(A, j)]) /\ ~InRoot(B, j, s)
    BY <1>1, <1>4 DEF Serial
  <2>1. CASE j = k
    BY <1>7, <1>19, <2>1 DEF p
  <2>2. CASE j # k
    BY <1>2, <1>3, <1>4, <1>7, <2>2 DEF Serial
  <2>3. QED  BY <2>1, <2>2
<1>21. ASSUME NEW j \in A.live
       PROVE  ~InRoot(A, k, Pos(A, j))
  <2>1. SUFFICES ASSUME f \in A.up[Pos(A, j)]
                 PROVE  FALSE
    BY <1>7
  <2>2. InScope(A, r, j)
    BY <1>3, <1>5, <2>1 DEF Settled, InScope, f
  <2>3. QED  BY <1>1, <1>4, <2>2
<1>22. Parallel(B)
  <2>1. ASSUME NEW i \in A.live, NEW j \in A.live, i # j
        PROVE  /\ \/ Apart(A.asy, A.up[Pos(A, i)], A.up[Pos(A, j)])
                  \/ InRoot(A, i, Pos(A, j)) \/ InRoot(A, j, Pos(A, i))
               /\ InRoot(A, i, Pos(A, j)) => InRoot(B, i, Pos(A, j))
               /\ InRoot(A, j, Pos(A, i)) => InRoot(B, j, Pos(A, i))
    BY <1>3, <1>7, <1>21, <2>1 DEF Parallel
  <2>2. QED  BY <1>1, <1>4, <2>1 DEF Parallel
<1>23. Recorded(B)
  BY <1>1, <1>3 DEF Recorded
<1>24. ASSUME NEW s \in B.past[k]
       PROVE  s \in A.past[k] \/ \E d \in A.reg : s \in A.past[d] /\ A.above[k] \cup {k} \subseteq A.above[d]
  <2>1. \A d \in A.reg : \A e \in A.above[d] : A.above[e] \subseteq A.above[d]
    BY <1>3 DEF Ancestors
  <2>2. \A d \in A.reg : InScope(A, r, d) => A.above[r] \subseteq A.above[d]
    BY <2>1 DEF InScope
  <2>3. \A d \in A.reg : InScope(A, r, d) => A.above[k] \cup {k} \subseteq A.above[d]
    BY <1>5, <2>1, <2>2
  <2>4. QED  BY <1>2, <2>3
<1>25. RootPasts(B)
  <2>1. ASSUME NEW j \in A.live, NEW q, q = A.root[j], q # 0, NEW d \in A.reg,
               d = q \/ q \in A.above[d], NEW s \in B.past[d]
        PROVE  s \in A.past[j] \/ A.node[q] \in A.up[s]
    <3>1. \A e \in A.reg : e = q \/ q \in A.above[e] =>
             \A y \in A.past[e] : y \in A.past[j] \/ A.node[q] \in A.up[y]
      BY <1>3, <2>1 DEF RootPasts
    <3>2. CASE d # k
      BY <1>2, <2>1, <3>1, <3>2
    <3>3. CASE d = k
      BY <1>24, <2>1, <3>1, <3>3
    <3>4. QED  BY <3>2, <3>3
  <2>2. ASSUME NEW j \in B.live, NEW q, q = B.root[j], q # 0, NEW d \in B.reg,
               d = q \/ q \in B.above[d], NEW s \in B.past[d]
        PROVE  s \in B.past[j] \/ B.node[q] \in B.up[s]
    <3>1. j \in A.live /\ j \in A.reg /\ q = A.root[j] /\ q \in A.reg /\ d \in A.reg
      BY <1>1, <1>2, <1>4, <2>2
    <3>2. s \in A.past[j] \/ A.node[q] \in A.up[s]
      BY <1>1, <2>1, <2>2, <3>1
    <3>3. QED  BY <1>1, <1>12, <3>1, <3>2
  <2>3. QED  BY <2>2 DEF RootPasts
<1>26. KidPasts(B)
  <2>1. ASSUME NEW j \in A.live, NEW d \in A.reg, j \in A.above[d], NEW s \in B.past[d]
        PROVE  s \in A.past[j] \/ Inside(A, j, s)
    <3>1. \A e \in A.reg : j \in A.above[e] => \A y \in A.past[e] : y \in A.past[j] \/ Inside(A, j, y)
      BY <1>3, <2>1 DEF KidPasts
    <3>2. CASE d # k
      BY <1>2, <2>1, <3>1, <3>2
    <3>3. CASE d = k
      BY <1>24, <2>1, <3>1, <3>3
    <3>4. QED  BY <3>2, <3>3
  <2>2. ASSUME NEW s \in A.steps, Inside(A, k, s)
        PROVE  s \in B.past[k] \/ Inside(B, k, s)
    <3>1. CASE A.fin[k] = 0
      BY <1>7, <1>18, <2>2, <3>1 DEF Inside
    <3>2. CASE A.fin[k] # 0
      BY <1>1, <1>2, <2>2, <3>2 DEF Inside
    <3>3. QED  BY <3>1, <3>2
  <2>3. ASSUME NEW j \in B.live, NEW d \in B.reg, j \in B.above[d], NEW s \in B.past[d]
        PROVE  s \in B.past[j] \/ Inside(B, j, s)
    <3>1. j \in A.live /\ j \in A.reg /\ d \in A.reg /\ j \in A.above[d]
      BY <1>1, <1>4, <2>3
    <3>2. s \in A.past[j] \/ Inside(A, j, s)
      BY <2>1, <2>3, <3>1
    <3>3. s \in A.steps
      BY <1>1, <1>16, <2>3 DEF Pasts
    <3>4. QED  BY <1>7, <1>12, <2>2, <3>1, <3>2, <3>3
  <2>4. QED  BY <2>3 DEF KidPasts
<1>27. KidsInside(B)
  <2> SUFFICES ASSUME NEW i \in A.live, NEW j \in A.live, i \in A.above[j]
               PROVE  Inside(B, i, Pos(A, j))
    BY <1>1, <1>4 DEF KidsInside
  <2>1. Inside(A, i, Pos(A, j))
    BY <1>3 DEF KidsInside
  <2>2. CASE i # k
    BY <1>7, <2>1, <2>2
  <2>3. CASE i = k
    <3>1. A.fin[k] # 0 /\ A.fin[k] \in A.up[Pos(A, j)]
      BY <1>21, <2>1, <2>3 DEF Inside
    <3>2. QED  BY <1>1, <1>2, <2>3, <3>1 DEF Inside
  <2>4. QED  BY <2>2, <2>3
<1>28. QED  BY <1>8, <1>9, <1>10, <1>11, <1>13, <1>14, <1>15, <1>16, <1>20, <1>22, <1>23, <1>25, <1>26, <1>27
            DEF Ordered

(******************************************************************************)
(* There is a tree, and there are tasks, as each of the steps leaves them.    *)
(******************************************************************************)

LEMMA StepExists ==
    ASSUME NEW A, Ordered(A), NEW k \in A.live, NEW x, A.root[k] = 0, A.next[k] = x, x # 0,
           x \notin DOMAIN A.up
    PROVE  \E B : StepDone(A, B, k, x) /\ Ordered(B)
<1> DEFINE B == [ up |-> [n \in DOMAIN A.up \cup {x} |-> IF n = x THEN A.up[Pos(A, k)] \cup {x} ELSE A.up[n]],
                  asy |-> A.asy, steps |-> A.steps \cup {x},
                  own |-> [s \in A.steps \cup {x} |-> IF s = x THEN k ELSE A.own[s]],
                  before |-> [s \in A.steps \cup {x} |-> IF s = x THEN A.past[k] ELSE A.before[s]],
                  past |-> [j \in A.reg |-> IF j = k THEN A.past[k] \cup {x} ELSE A.past[j]],
                  above |-> A.above, reg |-> A.reg, live |-> A.live, node |-> A.node,
                  fin |-> A.fin, root |-> A.root,
                  next |-> [j \in A.live |-> IF j = k THEN 0 ELSE A.next[j]] ]
<1>0. PICK C : C = B
  OBVIOUS
<1>1. /\ C.up = [n \in DOMAIN A.up \cup {x} |-> IF n = x THEN A.up[Pos(A, k)] \cup {x} ELSE A.up[n]]
      /\ C.asy = A.asy /\ C.steps = A.steps \cup {x}
      /\ C.own = [s \in A.steps \cup {x} |-> IF s = x THEN k ELSE A.own[s]]
      /\ C.before = [s \in A.steps \cup {x} |-> IF s = x THEN A.past[k] ELSE A.before[s]]
      /\ C.past = [j \in A.reg |-> IF j = k THEN A.past[k] \cup {x} ELSE A.past[j]]
      /\ C.above = A.above /\ C.reg = A.reg /\ C.live = A.live /\ C.node = A.node
      /\ C.fin = A.fin /\ C.root = A.root
      /\ C.next = [j \in A.live |-> IF j = k THEN 0 ELSE A.next[j]]
  BY <1>0
<1> HIDE DEF B
<1>2. Paths(A) /\ Finishes(A) /\ NextIsLast(A)
  BY DEF Ordered
<1>3. Pos(A, k) \in DOMAIN A.up /\ k \in A.reg
  BY <1>2, PosIs
<1>4. x \in Nat /\ Pos(A, k) < x
  BY <1>2 DEF NextIsLast
<1>5. A.steps \subseteq DOMAIN A.up
  BY <1>2 DEF Paths
<1>6. Grows(A, C, Pos(A, k), x)
  BY <1>1, <1>3, <1>4 DEF Grows
<1>7. /\ C.own[x] = k /\ C.before[x] = A.past[k]
      /\ \A s \in A.steps : C.own[s] = A.own[s] /\ C.before[s] = A.before[s]
  BY <1>1, <1>5
<1>8. /\ \A j \in A.reg : C.past[j] = IF j = k THEN A.past[k] \cup {x} ELSE A.past[j]
      /\ \A j \in A.live : C.next[j] = IF j = k THEN 0 ELSE A.next[j]
  BY <1>1
<1>9. SameFrames(A, C)
  BY <1>1 DEF SameFrames
<1>10. StepDone(A, C, k, x)
  BY <1>1, <1>6, <1>7, <1>8, <1>9 DEF StepDone
<1>11. QED  BY <1>10, StepOrdered

\* The tasks `live` may go on, next[j] being the id of the next step of task j.
MayGoOn(A, live, next) ==
    /\ live \subseteq A.live
    /\ \A j \in live : \/ next[j] \in {0, A.next[j]}
                       \/ A.root[j] = 0 /\ next[j] \in Nat /\ \A n \in DOMAIN A.up : n < next[j]

LEMMA GoOnExists ==
    ASSUME NEW A, Ordered(A), NEW live, NEW next, MayGoOn(A, live, next)
    PROVE  \E B : TasksGoOn(A, B) /\ Ordered(B) /\ B.live = live /\ B.next = next
<1>0. PICK B : B = [ up |-> A.up, asy |-> A.asy, steps |-> A.steps, own |-> A.own, before |-> A.before,
                     past |-> A.past, above |-> A.above, reg |-> A.reg, live |-> live, node |-> A.node,
                     fin |-> A.fin, root |-> A.root, next |-> next ]
  OBVIOUS
<1>1. /\ B.up = A.up /\ B.asy = A.asy /\ B.steps = A.steps /\ B.own = A.own /\ B.before = A.before
      /\ B.past = A.past /\ B.above = A.above /\ B.reg = A.reg /\ B.live = live /\ B.node = A.node
      /\ B.fin = A.fin /\ B.root = A.root /\ B.next = next
  BY <1>0
<1>2. TasksGoOn(A, B)
  BY <1>1 DEF TasksGoOn, MayGoOn, SameTree, SameFrames
<1>3. QED  BY <1>1, <1>2, GoOnOrdered

LEMMA OpenExists ==
    ASSUME NEW A, Ordered(A), NEW k \in A.live, A.fin[k] = 0, A.root[k] = 0,
           NEW f \in Nat, \A n \in DOMAIN A.up : n < f
    PROVE  \E B : FinishOpened(A, B, k, f) /\ Ordered(B)
<1>0. PICK B : B = [ up |-> [n \in DOMAIN A.up \cup {f} |-> IF n = f THEN A.up[A.node[k]] \cup {f} ELSE A.up[n]],
                     asy |-> A.asy, steps |-> A.steps, own |-> A.own, before |-> A.before,
                     past |-> A.past, above |-> A.above, reg |-> A.reg, live |-> A.live, node |-> A.node,
                     fin |-> [j \in A.live |-> IF j = k THEN f ELSE A.fin[j]], root |-> A.root,
                     next |-> [j \in A.live |-> IF j = k THEN 0 ELSE A.next[j]] ]
  OBVIOUS
<1>1. /\ B.up = [n \in DOMAIN A.up \cup {f} |-> IF n = f THEN A.up[A.node[k]] \cup {f} ELSE A.up[n]]
      /\ B.asy = A.asy /\ B.steps = A.steps /\ B.own = A.own /\ B.before = A.before
      /\ B.past = A.past /\ B.above = A.above /\ B.reg = A.reg /\ B.live = A.live /\ B.node = A.node
      /\ B.fin = [j \in A.live |-> IF j = k THEN f ELSE A.fin[j]] /\ B.root = A.root
      /\ B.next = [j \in A.live |-> IF j = k THEN 0 ELSE A.next[j]]
  BY <1>0
<1>2. Paths(A) /\ PathsUp(A.up)
  BY DEF Ordered, Paths
<1>3. k \in A.reg /\ A.node[k] \in DOMAIN A.up /\ DOMAIN A.up \subseteq Nat
  BY <1>2 DEF Paths, PathsUp
<1>4. f \notin DOMAIN A.up /\ A.node[k] < f
  <2>1. \A n \in DOMAIN A.up : n \in Nat /\ n < f
    BY <1>3
  <2>2. QED  BY <1>3, <2>1
<1>5. Grows(A, B, A.node[k], f)
  BY <1>1, <1>3, <1>4 DEF Grows
<1>6. \A j \in A.live : /\ B.fin[j] = IF j = k THEN f ELSE A.fin[j]
                        /\ B.next[j] = IF j = k THEN 0 ELSE A.next[j]
  BY <1>1
<1>7. FinishOpened(A, B, k, f)
  BY <1>1, <1>5, <1>6 DEF FinishOpened
<1>8. QED  BY <1>7, OpenOrdered

LEMMA SpawnExists ==
    ASSUME NEW A, Ordered(A), NEW k \in A.live, A.root[k] = 0, NEW c, c \notin A.reg, c # 0,
           NEW x \in Nat, \A n \in DOMAIN A.up : n < x, NEW isRoot \in BOOLEAN,
           isRoot \/ A.fin[k] # 0
    PROVE  \E B : TaskSpawned(A, B, k, c, x, isRoot) /\ Ordered(B)
<1>0. PICK B : B = [ up |-> [n \in DOMAIN A.up \cup {x} |-> IF n = x THEN A.up[Pos(A, k)] \cup {x} ELSE A.up[n]],
                     asy |-> IF isRoot THEN A.asy ELSE A.asy \cup {x},
                     steps |-> A.steps, own |-> A.own, before |-> A.before,
                     past |-> [j \in A.reg \cup {c} |-> IF j = c THEN A.past[k] ELSE A.past[j]],
                     above |-> [j \in A.reg \cup {c} |-> IF j = c THEN A.above[k] \cup {k} ELSE A.above[j]],
                     reg |-> A.reg \cup {c}, live |-> A.live \cup {c},
                     node |-> [j \in A.reg \cup {c} |-> IF j = c THEN x ELSE A.node[j]],
                     fin |-> [j \in A.live \cup {c} |-> IF j = c THEN 0 ELSE A.fin[j]],
                     root |-> [j \in A.live \cup {c} |->
                                 IF j = c THEN 0 ELSE IF j = k /\ isRoot THEN c ELSE A.root[j]],
                     next |-> [j \in A.live \cup {c} |-> IF j = c \/ j = k THEN 0 ELSE A.next[j]] ]
  OBVIOUS
<1>1. /\ B.up = [n \in DOMAIN A.up \cup {x} |-> IF n = x THEN A.up[Pos(A, k)] \cup {x} ELSE A.up[n]]
      /\ B.asy = IF isRoot THEN A.asy ELSE A.asy \cup {x}
      /\ B.steps = A.steps /\ B.own = A.own /\ B.before = A.before
      /\ B.reg = A.reg \cup {c} /\ B.live = A.live \cup {c}
  BY <1>0
<1>2. /\ B.past = [j \in A.reg \cup {c} |-> IF j = c THEN A.past[k] ELSE A.past[j]]
      /\ B.above = [j \in A.reg \cup {c} |-> IF j = c THEN A.above[k] \cup {k} ELSE A.above[j]]
      /\ B.node = [j \in A.reg \cup {c} |-> IF j = c THEN x ELSE A.node[j]]
      /\ B.fin = [j \in A.live \cup {c} |-> IF j = c THEN 0 ELSE A.fin[j]]
      /\ B.root = [j \in A.live \cup {c} |->
                     IF j = c THEN 0 ELSE IF j = k /\ isRoot THEN c ELSE A.root[j]]
      /\ B.next = [j \in A.live \cup {c} |-> IF j = c \/ j = k THEN 0 ELSE A.next[j]]
  BY <1>0
<1>3. Paths(A) /\ Finishes(A) /\ PathsUp(A.up)
  BY DEF Ordered, Paths
<1>4. Pos(A, k) \in DOMAIN A.up
  BY <1>3, PosIs
<1>5. DOMAIN A.up \subseteq Nat /\ A.asy \subseteq DOMAIN A.up /\ A.live \subseteq A.reg
  BY <1>3 DEF Paths, PathsUp
<1>6. x \notin DOMAIN A.up /\ Pos(A, k) < x
  <2>1. \A n \in DOMAIN A.up : n \in Nat /\ n < x
    BY <1>5
  <2>2. QED  BY <1>4, <2>1
<1>7. Grows(A, B, Pos(A, k), x)
  BY <1>1, <1>4, <1>6 DEF Grows
<1>8. IF isRoot THEN x \notin B.asy ELSE x \in B.asy /\ A.fin[k] # 0
  BY <1>1, <1>5, <1>6
<1>9. /\ \A j \in A.reg : B.node[j] = A.node[j] /\ B.above[j] = A.above[j] /\ B.past[j] = A.past[j]
      /\ B.node[c] = x /\ B.above[c] = A.above[k] \cup {k} /\ B.past[c] = A.past[k]
  BY <1>2
<1>10. /\ \A j \in A.live : /\ B.fin[j] = A.fin[j]
                            /\ B.root[j] = IF j = k /\ isRoot THEN c ELSE A.root[j]
                            /\ B.next[j] = IF j = k THEN 0 ELSE A.next[j]
       /\ B.fin[c] = 0 /\ B.root[c] = 0 /\ B.next[c] = 0
  BY <1>2, <1>5
<1>11. TaskSpawned(A, B, k, c, x, isRoot)
  BY <1>1, <1>7, <1>8, <1>9, <1>10 DEF TaskSpawned
<1>12. QED  BY <1>11, SpawnOrdered

LEMMA KidsJoinExists ==
    ASSUME NEW A, Ordered(A), NEW k \in A.live, A.fin[k] # 0, A.root[k] = 0,
           \A d \in A.reg : k \in A.above[d] => d \notin A.live,
           NEW p, \A s : s \in p <=> s \in A.past[k] \/ \E d \in A.reg : k \in A.above[d] /\ s \in A.past[d]
    PROVE  \E B : KidsJoined(A, B, k) /\ Ordered(B) /\ B.past[k] = p
<1>0. PICK B : B = [ up |-> A.up, asy |-> A.asy, steps |-> A.steps, own |-> A.own, before |-> A.before,
                     past |-> [j \in A.reg |-> IF j = k THEN p ELSE A.past[j]],
                     above |-> A.above, reg |-> A.reg, live |-> A.live, node |-> A.node,
                     fin |-> [j \in A.live |-> IF j = k THEN 0 ELSE A.fin[j]], root |-> A.root,
                     next |-> [j \in A.live |-> IF j = k THEN 0 ELSE A.next[j]] ]
  OBVIOUS
<1>1. /\ B.up = A.up /\ B.asy = A.asy /\ B.steps = A.steps /\ B.own = A.own /\ B.before = A.before
      /\ B.past = [j \in A.reg |-> IF j = k THEN p ELSE A.past[j]]
      /\ B.above = A.above /\ B.reg = A.reg /\ B.live = A.live /\ B.node = A.node
      /\ B.fin = [j \in A.live |-> IF j = k THEN 0 ELSE A.fin[j]] /\ B.root = A.root
      /\ B.next = [j \in A.live |-> IF j = k THEN 0 ELSE A.next[j]]
  BY <1>0
<1>2. k \in A.reg
  BY DEF Ordered, Paths
<1>3. B.past[k] = p /\ \A j \in A.reg : j # k => B.past[j] = A.past[j]
  BY <1>1, <1>2
<1>4. \A j \in A.live : /\ B.fin[j] = IF j = k THEN 0 ELSE A.fin[j]
                        /\ B.next[j] = IF j = k THEN 0 ELSE A.next[j]
  BY <1>1
<1>5. KidsJoined(A, B, k)
  BY <1>1, <1>3, <1>4 DEF KidsJoined, SameTree
<1>6. QED  BY <1>3, <1>5, KidsJoinedOrdered

LEMMA RootJoinExists ==
    ASSUME NEW A, Ordered(A), NEW k \in A.live, A.root[k] # 0,
           \A d \in A.reg : InScope(A, A.root[k], d) => d \notin A.live,
           NEW p, \A s : s \in p <=>
                     s \in A.past[k] \/ \E d \in A.reg : InScope(A, A.root[k], d) /\ s \in A.past[d]
    PROVE  \E B : RootJoined(A, B, k) /\ Ordered(B) /\ B.past[k] = p
<1>0. PICK B : B = [ up |-> A.up, asy |-> A.asy, steps |-> A.steps, own |-> A.own, before |-> A.before,
                     past |-> [j \in A.reg |-> IF j = k THEN p ELSE A.past[j]],
                     above |-> A.above, reg |-> A.reg, live |-> A.live, node |-> A.node,
                     fin |-> A.fin, root |-> [j \in A.live |-> IF j = k THEN 0 ELSE A.root[j]],
                     next |-> A.next ]
  OBVIOUS
<1>1. /\ B.up = A.up /\ B.asy = A.asy /\ B.steps = A.steps /\ B.own = A.own /\ B.before = A.before
      /\ B.past = [j \in A.reg |-> IF j = k THEN p ELSE A.past[j]]
      /\ B.above = A.above /\ B.reg = A.reg /\ B.live = A.live /\ B.node = A.node
      /\ B.fin = A.fin /\ B.root = [j \in A.live |-> IF j = k THEN 0 ELSE A.root[j]]
      /\ B.next = A.next
  BY <1>0
<1>2. k \in A.reg
  BY DEF Ordered, Paths
<1>3. B.past[k] = p /\ \A j \in A.reg : j # k => B.past[j] = A.past[j]
  BY <1>1, <1>2
<1>4. \A j \in A.live : B.root[j] = IF j = k THEN 0 ELSE A.root[j]
  BY <1>1
<1>5. RootJoined(A, B, k)
  BY <1>1, <1>3, <1>4 DEF RootJoined, SameTree
<1>6. QED  BY <1>3, <1>5, RootJoinedOrdered

(******************************************************************************)
(* The tree and the tasks of a state                                          *)
(******************************************************************************)

\* The paths are those of the entries E.
TreeOf(A, E) ==
    /\ DOMAIN A.up = {e.node_id : e \in E}
    /\ \A e \in E :
          /\ e.step_parent \in DOMAIN A.up \cup {0}
          /\ A.up[e.node_id] =
                (IF e.step_parent = 0 THEN {} ELSE A.up[e.step_parent]) \cup {e.node_id}
          /\ e.node_id \in A.asy <=> e.node_type = ASYNC

StepsOf(A, order) == A.steps = DOMAIN order /\ \A s \in A.steps : A.before[s] = order[s]

TasksOf(A, live, done, history, ancestors) ==
    /\ A.live = live /\ A.reg = live \cup done
    /\ \A k \in A.reg : A.past[k] = history[k] /\ A.above[k] = ancestors[k]

\* The frame's task has a step that is not logged yet.
Stepping(f, over) == (f.at = "run" /\ ~over) \/ (f.at = "captured" /\ f.op = "spawn")

\* The frame's task has handed a root task over, and not yet joined it.
InRootCall(f) == f.op = "root" /\ f.at \in {"captured", "wait"}

\* The task of frame f, whose nodes are on this stack.
SlotOf(A, f, stack, node, over) ==
    /\ A.node[f.task] = stack[f.base + 1]
    /\ A.fin[f.task] = IF f.young = "none" THEN 0 ELSE stack[f.base + 2]
    /\ A.root[f.task] = IF InRootCall(f) THEN f.kid ELSE 0
    /\ A.next[f.task] = IF Stepping(f, over) THEN node[stack[f.base + Height(f)]].child_id ELSE 0

FramesOf(A, fr, stacks, node, over) ==
    \A u \in Threads : \A i \in 1 .. Len(fr[u]) : SlotOf(A, fr[u][i], stacks[u], node, over)

MapOf(A, map, node) ==
    \A k \in DOMAIN map :
        A.node[k] = map[k] /\ A.fin[k] = 0 /\ A.root[k] = 0 /\ A.next[k] = node[map[k]].child_id

\* Tasks with a node that have not ended.
Live == {k \in Tasks : OnFrame(k)} \cup DOMAIN temp_cur_map

Linked(A) ==
    /\ TreeOf(A, Entries)
    /\ StepsOf(A, before)
    /\ TasksOf(A, Live, ended, past, above)
    /\ FramesOf(A, frames, cur_dpst_index, nodes, finished)
    /\ MapOf(A, temp_cur_map, nodes)

OInv == \E A : Linked(A) /\ Ordered(A)

(******************************************************************************)
(* What a step leaves as it was                                               *)
(******************************************************************************)

\* Task j is in B as it was in A.
SameSlot(A, B, j) ==
    B.node[j] = A.node[j] /\ B.fin[j] = A.fin[j] /\ B.root[j] = A.root[j] /\ B.next[j] = A.next[j]

LEMMA SlotStays ==
    ASSUME NEW A, NEW B, NEW f, NEW g, NEW s, NEW r, NEW node, NEW new, NEW over, NEW done,
           f.base \in Nat, SlotOf(A, f, s, node, over), SameSlot(A, B, f.task),
           g.task = f.task, g.base = f.base, g.young = f.young,
           InRootCall(g) <=> InRootCall(f), InRootCall(f) => g.kid = f.kid,
           Stepping(g, done) <=> Stepping(f, over),
           \A i \in 1 .. f.base + Height(f) : r[i] = s[i] /\ new[s[i]] = node[s[i]]
    PROVE  SlotOf(B, g, r, new, done)
<1>1. PICK b, h : b = f.base /\ h = f.base + Height(f)
  OBVIOUS
<1>2. b \in Nat /\ (f.young = "none" => h = b + 1) /\ (f.young # "none" => h = b + 2)
  BY <1>1 DEF Height
<1>3. /\ b + 1 \in 1 .. h /\ h \in 1 .. h
      /\ f.young # "none" => b + 2 \in 1 .. h
  BY <1>2
<1>4. /\ r[b + 1] = s[b + 1] /\ r[h] = s[h] /\ new[s[h]] = node[s[h]]
      /\ f.young # "none" => r[b + 2] = s[b + 2]
  BY <1>1, <1>3
<1>5. Height(g) = Height(f)
  BY DEF Height
<1>6. g.base + Height(g) = h /\ f.base + Height(f) = h /\ g.base = b
  BY <1>1, <1>5
<1>7. /\ A.node[f.task] = s[b + 1]
      /\ A.fin[f.task] = IF f.young = "none" THEN 0 ELSE s[b + 2]
      /\ A.root[f.task] = IF InRootCall(f) THEN f.kid ELSE 0
      /\ A.next[f.task] = IF Stepping(f, over) THEN node[s[h]].child_id ELSE 0
  BY <1>1, <1>6 DEF SlotOf
<1>8. /\ B.node[g.task] = r[b + 1]
      /\ B.fin[g.task] = IF g.young = "none" THEN 0 ELSE r[b + 2]
      /\ B.root[g.task] = IF InRootCall(g) THEN g.kid ELSE 0
      /\ B.next[g.task] = IF Stepping(g, done) THEN new[r[h]].child_id ELSE 0
  BY <1>4, <1>7 DEF SameSlot
<1>9. QED  BY <1>6, <1>8 DEF SlotOf

\* Thread t has done something in its top frame alone.
InTopAlone(t) ==
    /\ TouchesAbove(t, TopFrame(t).base)
    /\ finished' = finished
    /\ \A u \in Threads \ {t} : frames'[u] = frames[u]
    /\ \A i \in 1 .. Len(frames[t]) - 1 : frames'[t][i] = frames[t][i]

\* The frames other than the top one of thread t, which has changed nothing of
\* the nodes of its lower frames.
LEMMA OtherSlotsStay ==
    ASSUME TypeOK, NodeOwnership, SInv, OneFrameEach, NEW t \in Threads, frames[t] # <<>>,
           NEW A, NEW B, FramesOf(A, frames, cur_dpst_index, nodes, finished),
           A.live = Live, NEW k, k = TopFrame(t).task,
           \A j \in A.live : j # k => SameSlot(A, B, j),
           InTopAlone(t)
    PROVE  /\ \A u \in Threads \ {t} : \A i \in 1 .. Len(frames'[u]) :
                 SlotOf(B, frames'[u][i], cur_dpst_index'[u], nodes', finished')
           /\ \A i \in 1 .. Len(frames[t]) - 1 :
                 SlotOf(B, frames'[t][i], cur_dpst_index'[t], nodes', finished')
<1>0. /\ TouchesAbove(t, TopFrame(t).base)
      /\ finished' = finished
      /\ \A u \in Threads \ {t} : frames'[u] = frames[u]
      /\ \A i \in 1 .. Len(frames[t]) - 1 : frames'[t][i] = frames[t][i]
  BY DEF InTopAlone
<1> USE <1>0
<1>1. /\ TopFrame(t).base \in Nat /\ TopFrame(t).base <= Len(cur_dpst_index[t])
      /\ HeightOf(frames[t], Len(frames[t]) - 1) = TopFrame(t).base
      /\ Len(frames[t]) \in Nat \ {0} /\ TopFrame(t) = frames[t][Len(frames[t])]
  BY TopIsStacked, HeightRange, TopFrameTyped DEF TopFrame
<1>2. /\ \A u \in Threads \ {t} : \A i \in 1 .. Len(cur_dpst_index[u]) : Kept(cur_dpst_index[u][i])
      /\ \A i \in 1 .. TopFrame(t).base : Kept(cur_dpst_index[t][i])
  BY <1>1, KeptBelow
<1>3. ASSUME NEW u \in Threads, NEW i \in 1 .. Len(frames[u])
      PROVE  /\ frames[u][i] \in Frame /\ frames[u][i].base \in Nat /\ frames[u][i].task \in A.live
             /\ i \in DOMAIN frames[u] /\ Len(frames[u]) \in Nat
             /\ SlotOf(A, frames[u][i], cur_dpst_index[u], nodes, finished)
             /\ Placed(frames[u][i], cur_dpst_index[u]) /\ Contiguous(frames[u], cur_dpst_index[u])
  <2>1. frames[u] \in Seq(Frame) /\ i \in DOMAIN frames[u] /\ Len(frames[u]) \in Nat
    BY DEF TypeOK
  <2>2. frames[u][i] \in Frame
    BY <2>1
  <2>3. frames[u][i].base \in Nat /\ frames[u][i].task \in Tasks
    BY <2>2 DEF Frame
  <2>4. frames[u][i].task \in A.live
    BY <2>1, <2>3 DEF Live, OnFrame
  <2>5. QED  BY <2>1, <2>2, <2>3, <2>4 DEF FramesOf, SInv, Stacked
<1>4. ASSUME NEW u \in Threads \ {t}, NEW i \in 1 .. Len(frames'[u])
      PROVE  SlotOf(B, frames'[u][i], cur_dpst_index'[u], nodes', finished')
  <2>1. PICK f, s, r : f = frames[u][i] /\ s = cur_dpst_index[u] /\ r = cur_dpst_index'[u]
    OBVIOUS
  <2>2. frames'[u][i] = f /\ i \in 1 .. Len(frames[u]) /\ r = s
    BY <2>1 DEF TouchesAbove
  <2>3. /\ f.base \in Nat /\ f.task \in A.live /\ SlotOf(A, f, s, nodes, finished)
        /\ Placed(f, s) /\ i \in DOMAIN frames[u]
    BY <1>3, <2>1, <2>2
  <2>4. f.task # k
    <3>1. Len(frames[t]) \in DOMAIN frames[t]
      BY <1>1, <1>3
    <3>2. QED  BY <1>1, <2>1, <2>3, <3>1 DEF OneFrameEach
  <2>5. SameSlot(A, B, f.task)
    BY <2>3, <2>4
  <2>6. \A j \in 1 .. f.base + Height(f) : j \in 1 .. Len(s)
    <3>1. f.base + Height(f) <= Len(s) /\ Len(s) \in Nat
      BY <2>1, <2>3 DEF Placed, TypeOK, GraphTypeOK
    <3>2. Height(f) \in {1, 2}
      BY HeightRange
    <3>3. QED  BY <2>3, <3>1, <3>2
  <2>7. \A j \in 1 .. f.base + Height(f) : r[j] = s[j] /\ nodes'[s[j]] = nodes[s[j]]
    BY <1>2, <2>1, <2>2, <2>6 DEF Kept
  <2>8. Stepping(f, finished') <=> Stepping(f, finished)
    OBVIOUS
  <2>9. SlotOf(B, f, r, nodes', finished')
    BY <2>3, <2>5, <2>7, <2>8, SlotStays
  <2>10. QED  BY <2>1, <2>2, <2>9
<1>5. ASSUME NEW i \in 1 .. Len(frames[t]) - 1
      PROVE  SlotOf(B, frames'[t][i], cur_dpst_index'[t], nodes', finished')
  <2>1. PICK f, s, r, n : /\ f = frames[t][i] /\ s = cur_dpst_index[t] /\ r = cur_dpst_index'[t]
                          /\ n = Len(frames[t])
    OBVIOUS
  <2>2. /\ frames'[t][i] = f /\ i \in 1 .. n /\ n \in 1 .. n /\ i < n /\ i # n
    BY <1>1, <2>1
  <2>3. /\ f.base \in Nat /\ f.task \in A.live /\ SlotOf(A, f, s, nodes, finished)
        /\ Contiguous(frames[t], s) /\ i \in DOMAIN frames[t] /\ n \in DOMAIN frames[t]
    BY <1>3, <2>1, <2>2
  <2>4. f.task # k
    BY <1>1, <2>1, <2>2, <2>3 DEF OneFrameEach
  <2>5. SameSlot(A, B, f.task)
    BY <2>3, <2>4
  <2>6. f.base + Height(f) <= TopFrame(t).base
    BY <1>1, <2>1, <2>2, <2>3 DEF Contiguous
  <2>7. \A j \in 1 .. f.base + Height(f) : j \in 1 .. TopFrame(t).base
    <3>1. Height(f) \in {1, 2}
      BY HeightRange
    <3>2. QED  BY <1>1, <2>3, <2>6, <3>1
  <2>8. \A j \in 1 .. f.base + Height(f) : r[j] = s[j] /\ nodes'[s[j]] = nodes[s[j]]
    BY <1>2, <2>1, <2>7 DEF Kept, TouchesAbove
  <2>9. Stepping(f, finished') <=> Stepping(f, finished)
    OBVIOUS
  <2>10. SlotOf(B, f, r, nodes', finished')
    BY <2>3, <2>5, <2>8, <2>9, SlotStays
  <2>11. QED  BY <2>1, <2>2, <2>10
<1>6. QED  BY <1>4, <1>5

\* What waits in the map stays as it was.
LEMMA WaitingSlotsStay ==
    ASSUME TypeOK, NodeOwnership, SInv, NEW t \in Threads, frames[t] # <<>>,
           NEW A, NEW B, MapOf(A, temp_cur_map, nodes), A.live = Live, NEW k, k = TopFrame(t).task,
           k \notin DOMAIN temp_cur_map, \A j \in A.live : j # k => SameSlot(A, B, j),
           TouchesAbove(t, TopFrame(t).base)
    PROVE  \A j \in DOMAIN temp_cur_map :
              /\ B.node[j] = temp_cur_map[j] /\ B.fin[j] = 0 /\ B.root[j] = 0
              /\ B.next[j] = nodes'[temp_cur_map[j]].child_id
<1>1. TopFrame(t).base \in Nat /\ TopFrame(t).base <= Len(cur_dpst_index[t])
  BY TopIsStacked, HeightRange
<1>2. \A j \in DOMAIN temp_cur_map : Kept(temp_cur_map[j])
  BY <1>1, KeptBelow
<1>3. \A j \in DOMAIN temp_cur_map : j \in A.live /\ j # k
  BY DEF Live
<1>4. QED  BY <1>2, <1>3 DEF MapOf, SameSlot, Kept

\* The running task of a thread, and its place in the tree.
LEMMA TopSlot ==
    ASSUME CollectionAssumption, IInv, JInv, SInv, NEW A, Linked(A), NEW t \in Threads, frames[t] # <<>>,
           NEW f, f = TopFrame(t)
    PROVE  /\ f \in Frame /\ f.task \in A.live /\ f.task \in Live /\ f.task \in Tasks
           /\ f.task \notin DOMAIN temp_cur_map /\ f.task \notin ended
           /\ SlotOf(A, f, cur_dpst_index[t], nodes, finished)
           /\ Len(cur_dpst_index[t]) = f.base + Height(f) /\ f.base \in Nat
           /\ Pos(A, f.task) = Top(t) /\ Top(t) \in DOMAIN nodes /\ Top(t) \in Nat \ {0}
           /\ cur_dpst_index[t] # <<>>
           /\ A.fin[f.task] = 0 <=> f.young = "none"
           /\ A.root[f.task] = IF InRootCall(f) THEN f.kid ELSE 0
           /\ A.next[f.task] = IF Stepping(f, finished) THEN getCurStepId(t) ELSE 0
<1>0. TypeOK /\ TasksPlaced /\ NodeOwnership
  BY DEF IInv, JInv
<1>1. PICK s, n, h : s = cur_dpst_index[t] /\ n = Len(frames[t]) /\ h = f.base + Height(f)
  OBVIOUS
<1>2. /\ f \in Frame /\ f.base \in Nat /\ h = Len(s) /\ s \in Seq(Nat)
      /\ Placed(f, s)
  BY <1>0, <1>1, TopIsStacked DEF TypeOK, GraphTypeOK
<1>3. n \in 1 .. n /\ n \in DOMAIN frames[t] /\ f = frames[t][n]
  BY <1>0, <1>1, TopIsAFrame, TopFrameTyped
<1>4. SlotOf(A, f, s, nodes, finished)
  BY <1>1, <1>3 DEF Linked, FramesOf
<1>5. f.task \in Tasks /\ f.task \notin DOMAIN temp_cur_map /\ f.task \notin ended
  BY <1>0, RunningTask
<1>6. f.task \in Live
  BY <1>3, <1>5 DEF Live, OnFrame
<1>7. f.task \in A.live
  BY <1>6 DEF Linked, TasksOf
<1>8. /\ f.young = "none" => h = f.base + 1
      /\ f.young # "none" => h = f.base + 2
  BY <1>1 DEF Height
<1>9. s # <<>> /\ Top(t) = s[h]
  BY <1>1, <1>2, <1>8 DEF Top
<1>10. Top(t) \in DOMAIN nodes /\ Top(t) \in Nat
  BY <1>0, <1>1, <1>9, TopAllocated DEF TypeOK, NodeOwnership
<1>11. Top(t) # 0
  <2>1. 0 \notin DOMAIN nodes
    BY <1>0 DEF TypeOK, GraphTypeOK
  <2>2. QED  BY <1>10, <2>1
<1>12. /\ A.node[f.task] = s[f.base + 1]
       /\ A.fin[f.task] = IF f.young = "none" THEN 0 ELSE s[f.base + 2]
  BY <1>4 DEF SlotOf
<1>13. A.fin[f.task] = 0 <=> f.young = "none"
  BY <1>8, <1>9, <1>11, <1>12
<1>14. Pos(A, f.task) = Top(t)
  BY <1>8, <1>9, <1>12, <1>13 DEF Pos
<1>15. /\ A.root[f.task] = IF InRootCall(f) THEN f.kid ELSE 0
       /\ A.next[f.task] = IF Stepping(f, finished) THEN getCurStepId(t) ELSE 0
  BY <1>1, <1>4, <1>9 DEF SlotOf, getCurStepId
<1>16. QED  BY <1>1, <1>2, <1>4, <1>5, <1>6, <1>7, <1>9, <1>10, <1>11, <1>13, <1>14, <1>15

\* The top frame of a thread goes on as g.
LEMMA TopLinked ==
    ASSUME CollectionAssumption, IInv, IInv', JInv, SInv, NEW A, Linked(A),
           NEW t \in Threads, frames[t] # <<>>,
           NEW g \in Frame, SetTop(t, g), NEW k, k = TopFrame(t).task,
           TouchesAbove(t, TopFrame(t).base), finished' = finished,
           NEW B, \A j \in A.live : j # k => SameSlot(A, B, j),
           SlotOf(B, g, cur_dpst_index'[t], nodes', finished'),
           \A j \in DOMAIN temp_cur_map' :
              \/ j \in DOMAIN temp_cur_map /\ temp_cur_map'[j] = temp_cur_map[j]
              \/ /\ B.node[j] = temp_cur_map'[j] /\ B.fin[j] = 0 /\ B.root[j] = 0
                 /\ B.next[j] = nodes'[temp_cur_map'[j]].child_id
    PROVE  /\ FramesOf(B, frames', cur_dpst_index', nodes', finished')
           /\ MapOf(B, temp_cur_map', nodes')
<1>0. TypeOK /\ TypeOK' /\ NodeOwnership /\ TasksPlaced /\ OneFrameEach
  BY DEF IInv, JInv, TasksPlaced
<1>1. /\ \A u \in Threads \ {t} : frames'[u] = frames[u]
      /\ frames'[t] # <<>> /\ frames'[t][Len(frames'[t])] = g
      /\ Len(frames'[t]) = Len(frames[t]) /\ Len(frames[t]) \in Nat \ {0}
      /\ \A i \in 1 .. Len(frames[t]) - 1 : frames'[t][i] = frames[t][i]
  BY <1>0, TopSet, TopFrameTyped DEF TopFrame
<1>2. /\ FramesOf(A, frames, cur_dpst_index, nodes, finished) /\ A.live = Live
      /\ MapOf(A, temp_cur_map, nodes)
  BY DEF Linked, TasksOf
<1>3. /\ \A u \in Threads \ {t} : \A i \in 1 .. Len(frames'[u]) :
            SlotOf(B, frames'[u][i], cur_dpst_index'[u], nodes', finished')
      /\ \A i \in 1 .. Len(frames[t]) - 1 :
            SlotOf(B, frames'[t][i], cur_dpst_index'[t], nodes', finished')
  <2>1. InTopAlone(t)
    BY <1>1 DEF InTopAlone
  <2>2. FramesOf(A, frames, cur_dpst_index, nodes, finished) /\ A.live = Live
    BY <1>2
  <2>3. QED  BY <1>0, <2>1, <2>2, OtherSlotsStay
<1>4. \A i \in 1 .. Len(frames'[t]) : i \in 1 .. Len(frames[t]) - 1 \/ i = Len(frames'[t])
  BY <1>1
<1>5. \A i \in 1 .. Len(frames'[t]) : SlotOf(B, frames'[t][i], cur_dpst_index'[t], nodes', finished')
  BY <1>1, <1>3, <1>4
<1>6. FramesOf(B, frames', cur_dpst_index', nodes', finished')
  BY <1>3, <1>5 DEF FramesOf
<1>7. k \notin DOMAIN temp_cur_map
  BY <1>0, RunningTask
<1>8. \A j \in DOMAIN temp_cur_map :
              /\ B.node[j] = temp_cur_map[j] /\ B.fin[j] = 0 /\ B.root[j] = 0
              /\ B.next[j] = nodes'[temp_cur_map[j]].child_id
  BY <1>0, <1>2, <1>7, WaitingSlotsStay
<1>9. MapOf(B, temp_cur_map', nodes')
  BY <1>8 DEF MapOf
<1>10. QED  BY <1>6, <1>9

\* Entries join a thread's report.
LEMMA EntriesJoin ==
    ASSUME report \in [Threads -> Seq(LogEntry)], NEW t \in Threads,
           NEW es \in Seq(LogEntry), Log(t, es)
    PROVE  Entries' = Entries \cup {es[i] : i \in DOMAIN es}
<1>1. PICK a, b, n : a = report[t] /\ b = report'[t] /\ n = Len(a)
  OBVIOUS
<1>2. /\ b = a \o es /\ a \in Seq(LogEntry) /\ n \in Nat
      /\ DOMAIN a = 1 .. n /\ DOMAIN es = 1 .. Len(es) /\ Len(es) \in Nat
      /\ \A u \in Threads \ {t} : report'[u] = report[u]
  BY <1>1 DEF Log
<1>3. /\ DOMAIN b = 1 .. n + Len(es)
      /\ \A i \in 1 .. n : b[i] = a[i]
      /\ \A i \in 1 .. Len(es) : b[n + i] = es[i]
  BY <1>1, <1>2
<1>4. \A i \in DOMAIN b : i \in DOMAIN a \/ \E j \in DOMAIN es : i = n + j
  <2>1. ASSUME NEW i \in 1 .. n + Len(es), i \notin 1 .. n
        PROVE  i - n \in 1 .. Len(es) /\ i = n + (i - n)
    BY <1>2, <2>1
  <2>2. QED  BY <1>2, <1>3, <2>1
<1>5. /\ \A i \in DOMAIN a : i \in DOMAIN b /\ b[i] = a[i]
      /\ \A j \in DOMAIN es : n + j \in DOMAIN b /\ b[n + j] = es[j]
  BY <1>2, <1>3
<1>6. \A e : e \in Logged(t)' <=> e \in Logged(t) \/ \E j \in DOMAIN es : e = es[j]
  <2> SUFFICES ASSUME NEW e
               PROVE  e \in Logged(t)' <=> e \in Logged(t) \/ \E j \in DOMAIN es : e = es[j]
    OBVIOUS
  <2>1. e \in Logged(t)' <=> \E i \in DOMAIN b : e = b[i]
    BY <1>1 DEF Logged
  <2>2. e \in Logged(t) <=> \E i \in DOMAIN a : e = a[i]
    BY <1>1 DEF Logged
  <2>3. QED  BY <1>4, <1>5, <2>1, <2>2
<1>7. \A u \in Threads \ {t} : Logged(u)' = Logged(u)
  BY <1>2 DEF Logged
<1>8. /\ \A e : e \in Entries <=> \E u \in Threads : e \in Logged(u)
      /\ \A e : e \in Entries' <=> \E u \in Threads : e \in Logged(u)'
  BY DEF Entries
<1>9. \A e : e \in Entries' <=> e \in Entries \/ \E j \in DOMAIN es : e = es[j]
  BY <1>6, <1>7, <1>8
<1>10. QED  BY <1>9

LEMMA OneEntryJoins ==
    ASSUME report \in [Threads -> Seq(LogEntry)], NEW t \in Threads,
           NEW e \in LogEntry, Log(t, <<e>>)
    PROVE  Entries' = Entries \cup {e}
<1>1. PICK es : es = <<e>>
  OBVIOUS
<1>2. es \in Seq(LogEntry) /\ Log(t, es) /\ {es[i] : i \in DOMAIN es} = {e}
  BY <1>1
<1>3. QED  BY <1>2, EntriesJoin

LEMMA TwoEntriesJoin ==
    ASSUME report \in [Threads -> Seq(LogEntry)], NEW t \in Threads,
           NEW d \in LogEntry, NEW e \in LogEntry, Log(t, <<d, e>>)
    PROVE  Entries' = (Entries \cup {d}) \cup {e}
<1>1. PICK es : es = <<d, e>>
  OBVIOUS
<1>2. es \in Seq(LogEntry) /\ Log(t, es) /\ es[1] = d /\ es[2] = e /\ DOMAIN es = {1, 2}
  BY <1>1
<1>3. \A x : x \in {es[i] : i \in DOMAIN es} <=> x = d \/ x = e
  BY <1>2
<1>4. Entries' = Entries \cup {es[i] : i \in DOMAIN es}
  BY <1>2, EntriesJoin
<1>5. QED  BY <1>3, <1>4

\* An entry for the new node x joins the tree.
LEMMA TreeGrows ==
    ASSUME NEW A, NEW B, NEW E, TreeOf(A, E), NEW a, NEW x, Grows(A, B, a, x), PathsUp(A.up),
           NEW e, e.node_id = x, e.step_parent = a, x \in B.asy <=> e.node_type = ASYNC
    PROVE  TreeOf(B, E \cup {e})
<1>1. /\ a \in DOMAIN A.up /\ x \notin DOMAIN A.up /\ DOMAIN B.up = DOMAIN A.up \cup {x}
      /\ B.up[x] = A.up[a] \cup {x} /\ \A n \in DOMAIN A.up : B.up[n] = A.up[n]
      /\ \A y : y # x => (y \in B.asy <=> y \in A.asy)
  BY DEF Grows
<1>2. a # 0 /\ 0 \notin DOMAIN A.up
  BY <1>1 DEF PathsUp
<1>3. DOMAIN B.up = {d.node_id : d \in E \cup {e}}
  BY <1>1 DEF TreeOf
<1>4. ASSUME NEW d \in E
      PROVE  /\ d.step_parent \in DOMAIN B.up \cup {0}
             /\ B.up[d.node_id] =
                   (IF d.step_parent = 0 THEN {} ELSE B.up[d.step_parent]) \cup {d.node_id}
             /\ d.node_id \in B.asy <=> d.node_type = ASYNC
  <2>1. /\ d.step_parent \in DOMAIN A.up \cup {0} /\ d.node_id \in DOMAIN A.up
        /\ A.up[d.node_id] = (IF d.step_parent = 0 THEN {} ELSE A.up[d.step_parent]) \cup {d.node_id}
        /\ d.node_id \in A.asy <=> d.node_type = ASYNC
    BY DEF TreeOf
  <2>2. d.node_id # x
    BY <1>1, <2>1
  <2>3. QED  BY <1>1, <2>1, <2>2
<1>5. /\ e.step_parent \in DOMAIN B.up \cup {0}
      /\ B.up[e.node_id] =
             (IF e.step_parent = 0 THEN {} ELSE B.up[e.step_parent]) \cup {e.node_id}
      /\ e.node_id \in B.asy <=> e.node_type = ASYNC
  BY <1>1, <1>2
<1>6. QED  BY <1>3, <1>4, <1>5 DEF TreeOf

(******************************************************************************)
(* A step is logged                                                           *)
(******************************************************************************)

LEMMA LiveStays ==
    ASSUME SameTasks, DOMAIN temp_cur_map' = DOMAIN temp_cur_map
    PROVE  Live' = Live
<1>1. \A k : OnFrame(k)' <=> OnFrame(k)
  BY DEF SameTasks, OnFrame
<1>2. QED  BY <1>1 DEF Live

\* The tasks with a node have got their ids.
LEMMA RegHasId ==
    ASSUME CollectionAssumption, IInv, JInv, NEW A, Linked(A), NEW j \in A.reg
    PROVE  j \in 0 .. task_id_ctr /\ j \in Tasks /\ task_id_ctr \in Nat
<1>1. task_id_ctr \in Nat /\ task_id_ctr \in 0 .. MaxTasks /\ MaxTasks \in Nat
  BY DEF IInv, TypeOK, Tasks, CollectionAssumption
<1>2. j \in Live \/ j \in ended
  BY DEF Linked, TasksOf
<1>3. j \in 0 .. task_id_ctr
  <2>1. CASE j \in ended
    BY <1>1, <2>1 DEF JInv, TasksPlaced, EndedApart
  <2>2. CASE j \in DOMAIN temp_cur_map
    BY <1>1, <2>2 DEF IInv, HandOver
  <2>3. CASE OnFrame(j)
    BY <2>3 DEF OnFrame, JInv, TasksPlaced, FramesCurrent
  <2>4. QED  BY <1>2, <2>1, <2>2, <2>3 DEF Live
<1>4. QED  BY <1>1, <1>3 DEF Tasks

\* Every node there is has an id below the counter.
LEMMA BelowCounter ==
    ASSUME IInv, LInv, NEW A, Linked(A)
    PROVE  /\ DOMAIN A.up = LoggedIds
           /\ \A n \in DOMAIN A.up : n \in Nat /\ n < last_allocated_node
           /\ last_allocated_node \in Nat
<1>1. PICK last \in Nat : last = last_allocated_node
  BY DEF IInv, TypeOK, GraphTypeOK
<1>2. DOMAIN A.up = LoggedIds
  BY DEF Linked, TreeOf, LoggedIds
<1>3. LoggedIds \subseteq 1 .. last - 1
  BY <1>1 DEF LInv, IdsWait
<1>4. \A n \in 1 .. last - 1 : n \in Nat /\ n < last
  OBVIOUS
<1>5. QED  BY <1>1, <1>2, <1>3, <1>4

\* Thread t's task k has done its step: what B has of it.
StepTaken(A, B, k) ==
    /\ B.live = A.live /\ B.reg = A.reg
    /\ \A j \in A.reg : B.above[j] = A.above[j]
    /\ \A j \in A.live : j # k => SameSlot(A, B, j)
    /\ B.node[k] = A.node[k] /\ B.fin[k] = A.fin[k] /\ B.root[k] = 0 /\ B.next[k] = 0

LEMMA StepIsTaken ==
    ASSUME CollectionAssumption, IInv, JInv, LInv, SInv, NEW A, Linked(A), Ordered(A),
           NEW t \in Threads, At(t, "run"), ~finished, NEW k, k = TopFrame(t).task,
           Log(t, <<Entry(getCurStepId(t), getCurStepParent(t), STEP, 0)>>), StepHappens(t)
    PROVE  \E B : /\ Ordered(B) /\ StepTaken(A, B, k)
                  /\ TreeOf(B, Entries') /\ StepsOf(B, before')
                  /\ \A j \in A.reg : B.past[j] = past'[j]
<1>1. PICK f, x, e : /\ f = TopFrame(t) /\ x = getCurStepId(t)
                     /\ e = Entry(getCurStepId(t), getCurStepParent(t), STEP, 0)
  OBVIOUS
<1>2. frames[t] # <<>> /\ f.at = "run" /\ TypeOK /\ NodeOwnership
  BY <1>1 DEF At, IInv
<1>3. /\ k \in A.live /\ Pos(A, k) = Top(t) /\ Top(t) \in Nat \ {0} /\ cur_dpst_index[t] # <<>>
      /\ A.root[k] = 0 /\ A.next[k] = x /\ k \in Tasks
  <2>1. ~InRootCall(f) /\ Stepping(f, finished)
    BY <1>2 DEF InRootCall, Stepping
  <2>2. QED  BY <1>1, <1>2, <2>1, TopSlot
<1>4. x \notin LoggedIds /\ x \in Nat \ {0}
  <2>1. FreshStep(t)
    BY DEF FreshStep
  <2>2. Top(t) \in Fresh
    BY <2>1 DEF Fresh, FreshTops
  <2>3. x \in (1 .. last_allocated_node - 1) \ LoggedIds
    BY <1>1, <2>2 DEF LInv, IdsWait, getCurStepId
  <2>4. QED  BY <2>3
<1>5. DOMAIN A.up = LoggedIds
  BY BelowCounter
<1>6. PICK B : StepDone(A, B, k, x) /\ Ordered(B)
  <2>1. x # 0 /\ x \notin DOMAIN A.up
    BY <1>4, <1>5
  <2>2. QED  BY <1>3, <2>1, StepExists
<1>7. /\ Grows(A, B, Top(t), x) /\ B.asy = A.asy /\ B.steps = A.steps \cup {x}
      /\ B.before[x] = A.past[k] /\ \A s \in A.steps : B.before[s] = A.before[s]
      /\ \A j \in A.reg : B.past[j] = IF j = k THEN A.past[k] \cup {x} ELSE A.past[j]
      /\ B.live = A.live /\ B.reg = A.reg
      /\ \A j \in A.reg : B.node[j] = A.node[j] /\ B.above[j] = A.above[j]
      /\ \A j \in A.live : /\ B.fin[j] = A.fin[j] /\ B.root[j] = A.root[j]
                           /\ B.next[j] = IF j = k THEN 0 ELSE A.next[j]
  BY <1>3, <1>6 DEF StepDone, SameFrames
<1>8. A.live \subseteq A.reg /\ PathsUp(A.up) /\ A.asy \subseteq DOMAIN A.up /\ A.steps \subseteq DOMAIN A.up
  BY DEF Ordered, Paths
<1>9. StepTaken(A, B, k)
  BY <1>3, <1>7, <1>8 DEF StepTaken, SameSlot
<1>10. TreeOf(B, Entries')
  <2>1. e \in LogEntry /\ e.node_id = x /\ e.step_parent = Top(t) /\ e.node_type = STEP
    BY <1>1, <1>3, <1>4 DEF Entry, LogEntry, getCurStepParent
  <2>2. Entries' = Entries \cup {e}
    <3>1. report \in [Threads -> Seq(LogEntry)]
      BY <1>2 DEF TypeOK, GraphTypeOK
    <3>2. QED  BY <1>1, <2>1, <3>1, OneEntryJoins
  <2>3. x \notin B.asy /\ e.node_type # ASYNC
    BY <1>4, <1>5, <1>7, <1>8, <2>1 DEF STEP, ASYNC
  <2>4. TreeOf(A, Entries)
    BY DEF Linked
  <2>5. QED  BY <1>7, <1>8, <2>1, <2>2, <2>3, <2>4, TreeGrows
<1>11. /\ before' = [n \in DOMAIN before \cup {x} |-> IF n = x THEN past[k] ELSE before[n]]
       /\ past' = [past EXCEPT ![k] = @ \cup {x}]
  BY <1>1 DEF StepHappens
<1>12. k \in A.reg /\ \A j \in A.reg : A.past[j] = past[j] /\ j \in Tasks
  BY <1>3, <1>8, RegHasId DEF Linked, TasksOf
<1>13. StepsOf(B, before')
  <2>1. A.steps = DOMAIN before /\ \A s \in A.steps : A.before[s] = before[s] /\ s # x
    BY <1>4, <1>5, <1>8 DEF Linked, StepsOf
  <2>2. DOMAIN before' = DOMAIN before \cup {x} /\ before'[x] = past[k]
        /\ \A s \in DOMAIN before : s # x => before'[s] = before[s]
    BY <1>11
  <2>3. QED  BY <1>7, <1>12, <2>1, <2>2 DEF StepsOf
<1>14. \A j \in A.reg : B.past[j] = past'[j]
  <2>1. past \in [Tasks -> SUBSET Nat]
    BY <1>2 DEF TypeOK
  <2>2. \A j \in A.reg : past'[j] = IF j = k THEN past[k] \cup {x} ELSE past[j]
    BY <1>11, <1>12, <2>1
  <2>3. ASSUME NEW j \in A.reg
        PROVE  B.past[j] = past'[j]
    <3>1. /\ B.past[j] = IF j = k THEN A.past[k] \cup {x} ELSE A.past[j]
          /\ A.past[j] = past[j] /\ A.past[k] = past[k]
      BY <1>7, <1>12
    <3>2. past'[j] = IF j = k THEN past[k] \cup {x} ELSE past[j]
      BY <2>2
    <3>3. QED  BY <3>1, <3>2
  <2>4. QED  BY <2>3
<1>15. QED  BY <1>6, <1>9, <1>10, <1>13, <1>14

\* The hook that logs a step changes no node.
LEMMA GraphUntouchedAbove ==
    ASSUME IInv, SInv, NEW t \in Threads, frames[t] # <<>>, UNCHANGED <<nodes, cur_dpst_index>>
    PROVE  TouchesAbove(t, TopFrame(t).base)
<1>1. TopFrame(t).base \in Nat /\ TopFrame(t).base <= Len(cur_dpst_index[t])
  BY TopIsStacked, HeightRange DEF IInv
<1>2. QED  BY <1>1 DEF TouchesAbove, Kept

\* The task enters a call with which its step ends.
LEMMA StepEndsIn ==
    ASSUME CollectionAssumption, IInv, IInv', JInv, LInv, SInv, OInv,
           NEW t \in Threads, At(t, "run"), ~finished,
           Log(t, <<Entry(getCurStepId(t), getCurStepParent(t), STEP, 0)>>), StepHappens(t),
           NEW g \in Frame, SetTop(t, g), ~InRootCall(g), g.at \notin {"run", "captured"},
           g.task = TopFrame(t).task, g.base = TopFrame(t).base, g.young = TopFrame(t).young,
           UNCHANGED <<graph, ended, finished>>,
           \A j \in 0 .. task_id_ctr : above'[j] = above[j]
    PROVE  OInv'
<1>1. PICK A : Linked(A) /\ Ordered(A)
  BY DEF OInv
<1>2. PICK k, f : k = TopFrame(t).task /\ f = TopFrame(t)
  OBVIOUS
<1>3. PICK B : /\ Ordered(B) /\ StepTaken(A, B, k)
               /\ TreeOf(B, Entries') /\ StepsOf(B, before')
               /\ \A j \in A.reg : B.past[j] = past'[j]
  BY <1>1, <1>2, StepIsTaken
<1>4. frames[t] # <<>> /\ TypeOK /\ UNCHANGED <<nodes, cur_dpst_index, temp_cur_map>>
  BY DEF At, IInv, graph
<1>5. /\ SlotOf(A, f, cur_dpst_index[t], nodes, finished) /\ f.task = k
  BY <1>1, <1>2, <1>4, TopSlot
<1>6. SlotOf(B, g, cur_dpst_index'[t], nodes', finished')
  <2>1. ~Stepping(g, finished')
    BY DEF Stepping
  <2>2. g.task = k /\ g.base = f.base /\ g.young = f.young
    BY <1>2
  <2>3. A.node[k] = cur_dpst_index[t][f.base + 1]
        /\ A.fin[k] = IF f.young = "none" THEN 0 ELSE cur_dpst_index[t][f.base + 2]
    BY <1>5 DEF SlotOf
  <2>4. B.node[k] = A.node[k] /\ B.fin[k] = A.fin[k] /\ B.root[k] = 0 /\ B.next[k] = 0
    BY <1>3 DEF StepTaken
  <2>5. QED  BY <1>4, <2>1, <2>2, <2>3, <2>4 DEF SlotOf
<1>7. FramesOf(B, frames', cur_dpst_index', nodes', finished') /\ MapOf(B, temp_cur_map', nodes')
  <2>1. TouchesAbove(t, TopFrame(t).base)
    BY <1>4, GraphUntouchedAbove
  <2>2. \A j \in A.live : j # k => SameSlot(A, B, j)
    BY <1>3 DEF StepTaken
  <2>3. \A j \in DOMAIN temp_cur_map' : j \in DOMAIN temp_cur_map /\ temp_cur_map'[j] = temp_cur_map[j]
    BY <1>4
  <2>4. QED  BY <1>1, <1>2, <1>4, <1>6, <2>1, <2>2, <2>3, TopLinked
<1>8. TasksOf(B, Live', ended', past', above')
  <2>1. Live' = Live
    BY <1>4, TopSetKeepsTasks, LiveStays
  <2>2. A.live = Live /\ A.reg = Live \cup ended /\ \A j \in A.reg : A.above[j] = above[j]
    BY <1>1 DEF Linked, TasksOf
  <2>3. \A j \in A.reg : above'[j] = above[j]
    BY <1>1, RegHasId
  <2>4. QED  BY <1>3, <2>1, <2>2, <2>3 DEF TasksOf, StepTaken
<1>9. Linked(B)'
  BY <1>3, <1>7, <1>8 DEF Linked
<1>10. QED  BY <1>3, <1>9 DEF OInv

LEMMA SpawnEntryOrders ==
    ASSUME CollectionAssumption, IInv, IInv', JInv, LInv, SInv, OInv, NEW t \in Threads,
           NEW op \in {"spawn", "root", "both"}, SpawnEntry(t, op)
    PROVE  OInv'
<1>1. PICK f, g, kid : /\ f = TopFrame(t) /\ kid = task_id_ctr + 1
                       /\ g = [f EXCEPT !.at = "capture", !.op = op, !.kid = kid]
  OBVIOUS
<1>2. /\ At(t, "run") /\ ~finished /\ task_id_ctr < MaxTasks /\ StepHappens(t) /\ LogStep(t)
      /\ SetTop(t, g) /\ above' = [above EXCEPT ![kid] = above[f.task] \cup {f.task}]
      /\ UNCHANGED <<graph, pool, finished, nodeOf, ended>>
  BY <1>1 DEF SpawnEntry
<1>3. f \in Frame /\ task_id_ctr \in Nat /\ MaxTasks \in Nat /\ above \in [Tasks -> SUBSET Tasks]
  BY <1>1, <1>2, TopFrameTyped DEF At, IInv, TypeOK, Tasks, CollectionAssumption
<1>4. kid \in Tasks /\ \A j \in 0 .. task_id_ctr : j # kid /\ j \in Tasks
  BY <1>1, <1>2, <1>3 DEF Tasks
<1>5. /\ g \in Frame /\ g.at = "capture" /\ g.task = f.task /\ g.base = f.base /\ g.young = f.young
  BY <1>1, <1>3, <1>4 DEF Frame
<1>6. \A j \in 0 .. task_id_ctr : above'[j] = above[j]
  BY <1>2, <1>3, <1>4
<1>7. ~InRootCall(g) /\ g.at \notin {"run", "captured"}
  BY <1>5 DEF InRootCall
<1>8. Log(t, <<Entry(getCurStepId(t), getCurStepParent(t), STEP, 0)>>)
  BY <1>2 DEF LogStep
<1>9. QED  BY <1>1, <1>2, <1>5, <1>6, <1>7, <1>8, StepEndsIn

LEMMA WaitEntryOrders ==
    ASSUME CollectionAssumption, IInv, IInv', JInv, LInv, SInv, OInv, NEW t \in Threads, WaitEntry(t)
    PROVE  OInv'
<1>1. PICK f, g : f = TopFrame(t) /\ g = [f EXCEPT !.at = "wait", !.op = "wait"]
  OBVIOUS
<1>2. /\ At(t, "run") /\ ~finished /\ StepHappens(t) /\ LogStep(t) /\ SetTop(t, g)
      /\ UNCHANGED <<graph, task_id_ctr, pool, finished, nodeOf, above, ended>>
  BY <1>1 DEF WaitEntry
<1>3. f \in Frame
  BY <1>1, <1>2, TopFrameTyped DEF At, IInv
<1>4. /\ g \in Frame /\ g.at = "wait" /\ g.op = "wait"
      /\ g.task = f.task /\ g.base = f.base /\ g.young = f.young
  BY <1>1, <1>3 DEF Frame
<1>5. ~InRootCall(g) /\ g.at \notin {"run", "captured"} /\ \A j \in 0 .. task_id_ctr : above'[j] = above[j]
  BY <1>2, <1>4 DEF InRootCall
<1>6. Log(t, <<Entry(getCurStepId(t), getCurStepParent(t), STEP, 0)>>)
  BY <1>2 DEF LogStep
<1>7. QED  BY <1>1, <1>2, <1>4, <1>5, <1>6, StepEndsIn

LEMMA ExecEndOrders ==
    ASSUME CollectionAssumption, IInv, IInv', JInv, LInv, SInv, OInv, NEW t \in Threads, ExecEnd(t), ~finished
    PROVE  OInv'
<1>1. PICK A : Linked(A) /\ Ordered(A)
  BY DEF OInv
<1>2. PICK k : k = TopFrame(t).task
  OBVIOUS
<1>3. /\ At(t, "run") /\ StepHappens(t) /\ LogStep(t) /\ CaptureReturn(t)
      /\ frames' = [frames EXCEPT ![t] = Popped(@)] /\ ended' = ended \cup {k}
      /\ UNCHANGED <<task_id_ctr, pool, finished, nodeOf, above>>
  BY <1>2 DEF ExecEnd
<1>4. Log(t, <<Entry(getCurStepId(t), getCurStepParent(t), STEP, 0)>>)
  BY <1>3 DEF LogStep
<1>5. PICK B : /\ Ordered(B) /\ StepTaken(A, B, k)
               /\ TreeOf(B, Entries') /\ StepsOf(B, before')
               /\ \A j \in A.reg : B.past[j] = past'[j]
  BY <1>1, <1>2, <1>3, <1>4, StepIsTaken
<1>6. PICK C : TasksGoOn(B, C) /\ Ordered(C) /\ C.live = B.live \ {k} /\ C.next = B.next
  <2>1. PICK live, next : live = B.live \ {k} /\ next = B.next
    OBVIOUS
  <2>2. MayGoOn(B, live, next)
    BY <2>1 DEF MayGoOn
  <2>3. PICK D : TasksGoOn(B, D) /\ Ordered(D) /\ D.live = live /\ D.next = next
    BY <1>5, <2>2, GoOnExists
  <2>4. QED  BY <2>1, <2>3
<1>7. /\ C.reg = B.reg /\ C.up = B.up /\ C.asy = B.asy /\ C.steps = B.steps /\ C.before = B.before
      /\ \A j \in B.reg : C.node[j] = B.node[j] /\ C.above[j] = B.above[j] /\ C.past[j] = B.past[j]
      /\ \A j \in B.live : C.fin[j] = B.fin[j] /\ C.root[j] = B.root[j]
  BY <1>6 DEF TasksGoOn, SameTree, SameFrames
<1>8. /\ B.live = A.live /\ B.reg = A.reg /\ A.live \subseteq A.reg
      /\ \A j \in A.reg : B.above[j] = A.above[j]
      /\ \A j \in A.live : j # k => SameSlot(A, B, j)
  BY <1>1, <1>5 DEF StepTaken, Ordered, Paths
<1>9. \A j \in A.live : j # k => SameSlot(A, C, j)
  BY <1>6, <1>7, <1>8 DEF SameSlot
<1>10. /\ TypeOK /\ TypeOK' /\ NodeOwnership /\ TasksPlaced /\ OneFrameEach /\ FramesCurrent
       /\ frames[t] # <<>>
  BY <1>3 DEF IInv, JInv, TasksPlaced, At
<1>11. /\ TouchesAbove(t, TopFrame(t).base) /\ temp_cur_map' = temp_cur_map
  BY <1>3, <1>10, ReturnTouchesAbove
<1>12. /\ \A u \in Threads \ {t} : frames'[u] = frames[u]
       /\ Len(frames'[t]) = Len(frames[t]) - 1
       /\ \A i \in 1 .. Len(frames[t]) - 1 : frames'[t][i] = frames[t][i]
       /\ Len(frames[t]) \in Nat \ {0} /\ DOMAIN frames[t] = 1 .. Len(frames[t])
       /\ TopFrame(t) = frames[t][Len(frames[t])] /\ frames' \in [Threads -> Seq(Frame)]
  BY <1>3, <1>10, FramePopped, TopFrameTyped DEF TopFrame
<1>13. k \notin DOMAIN temp_cur_map /\ k \notin ended /\ k \in Tasks
  BY <1>2, <1>10, RunningTask
<1>14. /\ FramesOf(A, frames, cur_dpst_index, nodes, finished) /\ A.live = Live
       /\ MapOf(A, temp_cur_map, nodes)
  BY <1>1 DEF Linked, TasksOf
<1>15. FramesOf(C, frames', cur_dpst_index', nodes', finished')
  <2>1. /\ \A u \in Threads \ {t} : \A i \in 1 .. Len(frames'[u]) :
              SlotOf(C, frames'[u][i], cur_dpst_index'[u], nodes', finished')
        /\ \A i \in 1 .. Len(frames[t]) - 1 :
              SlotOf(C, frames'[t][i], cur_dpst_index'[t], nodes', finished')
    <3>1. finished' = finished
      BY <1>3
    <3>2. /\ TypeOK /\ NodeOwnership /\ OneFrameEach /\ frames[t] # <<>>
          /\ FramesOf(A, frames, cur_dpst_index, nodes, finished) /\ A.live = Live
          /\ TouchesAbove(t, TopFrame(t).base)
      BY <1>10, <1>11, <1>14
    <3>3. /\ \A u \in Threads \ {t} : frames'[u] = frames[u]
          /\ \A i \in 1 .. Len(frames[t]) - 1 : frames'[t][i] = frames[t][i]
      BY <1>12
    <3>4. InTopAlone(t)
      BY <3>1, <3>2, <3>3 DEF InTopAlone
    <3>5. QED  BY <1>2, <1>9, <3>2, <3>4, OtherSlotsStay
  <2>2. QED  BY <1>12, <2>1 DEF FramesOf
<1>16. MapOf(C, temp_cur_map', nodes')
  <2>1. \A j \in DOMAIN temp_cur_map :
              /\ C.node[j] = temp_cur_map[j] /\ C.fin[j] = 0 /\ C.root[j] = 0
              /\ C.next[j] = nodes'[temp_cur_map[j]].child_id
    BY <1>2, <1>9, <1>10, <1>11, <1>13, <1>14, WaitingSlotsStay
  <2>2. QED  BY <1>11, <2>1 DEF MapOf
<1>17. \A j : OnFrame(j)' <=> OnFrame(j) /\ j # k
  <2>1. ASSUME NEW j, OnFrame(j), j # k
        PROVE  OnFrame(j)'
    <3>0. PICK u \in Threads : \E i \in DOMAIN frames[u] : frames[u][i].task = j
      BY <2>1 DEF OnFrame
    <3>1. PICK i : i \in DOMAIN frames[u] /\ frames[u][i].task = j
      BY <3>0
    <3>2. CASE u # t
      BY <1>12, <3>1, <3>2 DEF OnFrame
    <3>3. CASE u = t
      <4>1. i # Len(frames[t])
        BY <1>2, <1>12, <2>1, <3>1, <3>3
      <4>2. i \in 1 .. Len(frames[t]) - 1
        BY <1>12, <3>1, <3>3, <4>1
      <4>3. frames'[t][i].task = j /\ DOMAIN frames'[t] = 1 .. Len(frames'[t])
        BY <1>12, <3>1, <3>3, <4>2
      <4>4. QED  BY <1>12, <4>2, <4>3 DEF OnFrame
    <3>4. QED  BY <3>2, <3>3
  <2>2. ASSUME NEW j, OnFrame(j)'
        PROVE  OnFrame(j) /\ j # k
    <3>1. PICK u \in Threads : \E i \in DOMAIN frames'[u] : frames'[u][i].task = j
      BY <2>2 DEF OnFrame
    <3>2. PICK i : i \in DOMAIN frames'[u] /\ frames'[u][i].task = j
      BY <3>1
    <3>3. i \in DOMAIN frames[u] /\ frames[u][i].task = j /\ (u = t => i # Len(frames[t]))
      <4>1. CASE u # t
        BY <1>12, <3>2, <4>1
      <4>2. CASE u = t
        <5>1. DOMAIN frames'[t] = 1 .. Len(frames'[t])
          BY <1>12
        <5>2. i \in 1 .. Len(frames[t]) - 1
          BY <1>12, <3>2, <4>2, <5>1
        <5>3. i \in 1 .. Len(frames[t]) /\ i # Len(frames[t])
          BY <1>12, <5>2
        <5>4. QED  BY <1>12, <3>2, <4>2, <5>2, <5>3
      <4>3. QED  BY <4>1, <4>2
    <3>4. j # k
      <4>1. Len(frames[t]) \in DOMAIN frames[t] /\ frames[t][Len(frames[t])].task = k
        BY <1>2, <1>12
      <4>2. QED  BY <1>10, <3>3, <4>1 DEF OneFrameEach
    <3>5. QED  BY <3>3, <3>4 DEF OnFrame
  <2>3. QED  BY <2>1, <2>2
<1>18. Live' = Live \ {k}
  BY <1>11, <1>13, <1>17 DEF Live
<1>19. TasksOf(C, Live', ended', past', above')
  <2>1. A.reg = Live \cup ended /\ \A j \in A.reg : A.above[j] = above[j]
    BY <1>1 DEF Linked, TasksOf
  <2>2. C.live = Live' /\ C.reg = A.reg
    BY <1>6, <1>7, <1>8, <1>14, <1>18
  <2>3. k \in Live
    BY <1>1, <1>2, <1>10, TopSlot
  <2>4. A.reg = Live' \cup ended'
    BY <1>3, <1>18, <2>1, <2>3
  <2>5. \A j \in C.reg : C.past[j] = past'[j] /\ C.above[j] = above'[j]
    BY <1>3, <1>5, <1>7, <1>8, <2>1, <2>2
  <2>6. QED  BY <2>2, <2>4, <2>5 DEF TasksOf
<1>20. TreeOf(C, Entries') /\ StepsOf(C, before')
  BY <1>5, <1>7 DEF TreeOf, StepsOf
<1>21. Linked(C)'
  BY <1>15, <1>16, <1>19, <1>20 DEF Linked
<1>22. QED  BY <1>6, <1>21 DEF OInv

\* After Fini main is in its last step's place, and no other task is left.
LEMMA FiniOrders ==
    ASSUME CollectionAssumption, IInv, IInv', JInv, JInv', LInv, SInv, OInv, Fini
    PROVE  OInv'
<1>1. PICK A : Linked(A) /\ Ordered(A)
  BY DEF OInv
<1>2. PICK k, f : k = TopFrame(Main).task /\ f = TopFrame(Main)
  OBVIOUS
<1>3. /\ At(Main, "run") /\ ~finished /\ StepHappens(Main) /\ LogStep(Main) /\ finished' = TRUE
      /\ UNCHANGED <<nodes, cur_dpst_index, temp_cur_map, task_id_ctr, frames, pool, nodeOf, above, ended>>
      /\ Main \in Threads
  BY DEF Fini, graph, Threads
<1>4. Log(Main, <<Entry(getCurStepId(Main), getCurStepParent(Main), STEP, 0)>>)
  BY <1>3 DEF LogStep
<1>5. PICK B : /\ Ordered(B) /\ StepTaken(A, B, k)
               /\ TreeOf(B, Entries') /\ StepsOf(B, before')
               /\ \A j \in A.reg : B.past[j] = past'[j]
  BY <1>1, <1>2, <1>3, <1>4, StepIsTaken
<1>6. /\ \A u \in Threads \ {Main} : frames[u] = <<>>
      /\ Len(frames[Main]) = 1
  BY <1>3 DEF JInv, AllJoined
<1>7. frames[Main] # <<>> /\ f = frames[Main][1] /\ f.at = "run"
  BY <1>2, <1>3, <1>6 DEF At, TopFrame
<1>8. SlotOf(A, f, cur_dpst_index[Main], nodes, finished) /\ f.task = k
  BY <1>1, <1>2, <1>3, <1>7, TopSlot
<1>9. SlotOf(B, f, cur_dpst_index'[Main], nodes', finished')
  <2>1. ~Stepping(f, finished') /\ ~InRootCall(f)
    BY <1>3, <1>7 DEF Stepping, InRootCall
  <2>2. A.node[k] = cur_dpst_index[Main][f.base + 1]
        /\ A.fin[k] = IF f.young = "none" THEN 0 ELSE cur_dpst_index[Main][f.base + 2]
    BY <1>8 DEF SlotOf
  <2>3. B.node[k] = A.node[k] /\ B.fin[k] = A.fin[k] /\ B.root[k] = 0 /\ B.next[k] = 0
    BY <1>5 DEF StepTaken
  <2>4. QED  BY <1>3, <1>8, <2>1, <2>2, <2>3 DEF SlotOf
<1>10. FramesOf(B, frames', cur_dpst_index', nodes', finished')
  <2>1. \A i \in 1 .. Len(frames'[Main]) : i = 1
    BY <1>3, <1>6
  <2>2. \A u \in Threads \ {Main} : \A i \in 1 .. Len(frames'[u]) : FALSE
    BY <1>3, <1>6
  <2>3. QED  BY <1>3, <1>7, <1>9, <2>1, <2>2 DEF FramesOf
<1>11. TypeOK /\ NodeOwnership /\ TasksPlaced
  BY DEF IInv, JInv
<1>12. MapOf(B, temp_cur_map', nodes')
  <2>1. TouchesAbove(Main, TopFrame(Main).base)
    BY <1>3, <1>7, GraphUntouchedAbove
  <2>2. k \notin DOMAIN temp_cur_map
    BY <1>2, <1>3, <1>7, <1>11, RunningTask
  <2>3. \A j \in A.live : j # k => SameSlot(A, B, j)
    BY <1>5 DEF StepTaken
  <2>4. MapOf(A, temp_cur_map, nodes) /\ A.live = Live
    BY <1>1 DEF Linked, TasksOf
  <2>5. \A j \in DOMAIN temp_cur_map :
              /\ B.node[j] = temp_cur_map[j] /\ B.fin[j] = 0 /\ B.root[j] = 0
              /\ B.next[j] = nodes'[temp_cur_map[j]].child_id
    <3>1. PICK t \in Threads : t = Main
      BY <1>3
    <3>2. frames[t] # <<>> /\ k = TopFrame(t).task /\ TouchesAbove(t, TopFrame(t).base)
      BY <1>2, <1>7, <2>1, <3>1
    <3>3. QED  BY <1>11, <2>2, <2>3, <2>4, <3>2, WaitingSlotsStay
  <2>6. QED  BY <1>3, <2>5 DEF MapOf
<1>13. TasksOf(B, Live', ended', past', above')
  <2>1. Live' = Live
    BY <1>3 DEF Live, OnFrame
  <2>2. A.live = Live /\ A.reg = Live \cup ended /\ \A j \in A.reg : A.above[j] = above[j]
    BY <1>1 DEF Linked, TasksOf
  <2>3. QED  BY <1>3, <1>5, <2>1, <2>2 DEF TasksOf, StepTaken
<1>14. Linked(B)'
  BY <1>5, <1>10, <1>12, <1>13 DEF Linked
<1>15. QED  BY <1>5, <1>14 DEF OInv

(******************************************************************************)
(* A task is spawned                                                          *)
(******************************************************************************)

\* Task k has spawned task c, with node x.  Its tasks go under f from now on;
\* nk is the id of its next step, 0 if it has none.
NewTask(A, B, k, c, x, f, isRoot, nk) ==
    /\ B.live = A.live \cup {c} /\ B.reg = A.reg \cup {c}
    /\ B.steps = A.steps /\ B.before = A.before
    /\ \A j \in A.reg : B.above[j] = A.above[j] /\ B.past[j] = A.past[j]
    /\ B.above[c] = A.above[k] \cup {k} /\ B.past[c] = A.past[k]
    /\ \A j \in A.live : j # k => SameSlot(A, B, j)
    /\ B.node[k] = A.node[k] /\ B.fin[k] = f /\ B.next[k] = nk
    /\ B.root[k] = IF isRoot THEN c ELSE 0
    /\ B.node[c] = x /\ B.fin[c] = 0 /\ B.root[c] = 0 /\ B.next[c] = x + 1

\* e is the entry for the new node of such a task.
MaySpawn(A, k, c, x, isRoot, nk, e) ==
    /\ k \in A.live /\ A.root[k] = 0 /\ c \notin A.reg /\ c # 0
    /\ x \in Nat /\ \A n \in DOMAIN A.up : n < x
    /\ isRoot \in BOOLEAN /\ (isRoot \/ A.fin[k] # 0)
    /\ nk = 0 \/ (~isRoot /\ nk \in Nat /\ x < nk)
    /\ e.node_id = x /\ e.step_parent = Pos(A, k)
    /\ e.node_type = IF isRoot THEN FINISH ELSE ASYNC

LEMMA NodeJoins ==
    ASSUME NEW A, Ordered(A), NEW E, TreeOf(A, E), NEW k, NEW c, NEW x, NEW isRoot, NEW nk, NEW e,
           MaySpawn(A, k, c, x, isRoot, nk, e)
    PROVE  \E B : Ordered(B) /\ NewTask(A, B, k, c, x, A.fin[k], isRoot, nk) /\ TreeOf(B, E \cup {e})
<1>0. /\ k \in A.live /\ A.root[k] = 0 /\ c \notin A.reg /\ c # 0
      /\ x \in Nat /\ \A n \in DOMAIN A.up : n < x
      /\ isRoot \in BOOLEAN /\ (isRoot \/ A.fin[k] # 0)
      /\ nk = 0 \/ (~isRoot /\ nk \in Nat /\ x < nk)
      /\ e.node_id = x /\ e.step_parent = Pos(A, k)
      /\ e.node_type = IF isRoot THEN FINISH ELSE ASYNC
  BY DEF MaySpawn
<1>1. PICK B : TaskSpawned(A, B, k, c, x, isRoot) /\ Ordered(B)
  BY <1>0, SpawnExists
<1>2. /\ Grows(A, B, Pos(A, k), x) /\ B.live = A.live \cup {c} /\ B.reg = A.reg \cup {c}
      /\ IF isRoot THEN x \notin B.asy ELSE x \in B.asy
      /\ B.steps = A.steps /\ B.before = A.before
      /\ \A j \in A.reg : B.node[j] = A.node[j] /\ B.above[j] = A.above[j] /\ B.past[j] = A.past[j]
      /\ B.node[c] = x /\ B.above[c] = A.above[k] \cup {k} /\ B.past[c] = A.past[k]
      /\ \A j \in A.live : /\ B.fin[j] = A.fin[j]
                           /\ B.root[j] = IF j = k /\ isRoot THEN c ELSE A.root[j]
                           /\ B.next[j] = IF j = k THEN 0 ELSE A.next[j]
      /\ B.fin[c] = 0 /\ B.root[c] = 0 /\ B.next[c] = 0
  BY <1>1 DEF TaskSpawned
<1>3. A.live \subseteq A.reg /\ PathsUp(A.up) /\ k # c /\ k \in A.reg /\ c \notin A.live
  BY <1>0 DEF Ordered, Paths
<1>4. PICK live, next : /\ live = B.live
                        /\ next = [j \in B.live |-> IF j = c THEN x + 1 ELSE IF j = k THEN nk ELSE B.next[j]]
  OBVIOUS
<1>5. /\ next[c] = x + 1 /\ next[k] = nk
      /\ \A j \in A.live : j # k => next[j] = A.next[j]
  BY <1>0, <1>2, <1>3, <1>4
<1>6. \A n \in DOMAIN B.up : n \in Nat /\ n < x + 1 /\ (nk # 0 => n < nk)
  <2>1. DOMAIN B.up = DOMAIN A.up \cup {x} /\ \A n \in DOMAIN A.up : n \in Nat /\ n < x
    BY <1>0, <1>2, <1>3 DEF Grows, PathsUp
  <2>2. QED  BY <1>0, <2>1
<1>7. MayGoOn(B, live, next)
  <2>1. ASSUME NEW j \in live
        PROVE  \/ next[j] \in {0, B.next[j]}
               \/ B.root[j] = 0 /\ next[j] \in Nat /\ \A n \in DOMAIN B.up : n < next[j]
    <3>1. CASE j = c
      BY <1>0, <1>2, <1>5, <1>6, <3>1
    <3>2. CASE j = k /\ nk # 0
      BY <1>0, <1>2, <1>5, <1>6, <3>2
    <3>3. CASE j = k /\ nk = 0
      BY <1>5, <3>3
    <3>4. CASE j # c /\ j # k
      BY <1>2, <1>4, <1>5, <3>4
    <3>5. QED  BY <3>1, <3>2, <3>3, <3>4
  <2>2. QED  BY <1>4, <2>1 DEF MayGoOn
<1>8. PICK C : TasksGoOn(B, C) /\ Ordered(C) /\ C.live = live /\ C.next = next
  BY <1>1, <1>7, GoOnExists
<1>9. /\ C.reg = B.reg /\ C.up = B.up /\ C.asy = B.asy /\ C.steps = B.steps /\ C.before = B.before
      /\ \A j \in B.reg : C.node[j] = B.node[j] /\ C.above[j] = B.above[j] /\ C.past[j] = B.past[j]
      /\ \A j \in B.live : C.fin[j] = B.fin[j] /\ C.root[j] = B.root[j]
  BY <1>8 DEF TasksGoOn, SameTree, SameFrames
<1>10. NewTask(A, C, k, c, x, A.fin[k], isRoot, nk)
  <2>1. \A j \in A.live : j # k => SameSlot(A, C, j)
    BY <1>0, <1>2, <1>3, <1>5, <1>8, <1>9 DEF SameSlot
  <2>2. /\ \A j \in A.reg : C.above[j] = A.above[j] /\ C.past[j] = A.past[j]
        /\ C.above[c] = A.above[k] \cup {k} /\ C.past[c] = A.past[k]
    BY <1>2, <1>9
  <2>3. /\ C.node[k] = A.node[k] /\ C.fin[k] = A.fin[k] /\ C.next[k] = nk
        /\ C.root[k] = IF isRoot THEN c ELSE 0
    BY <1>0, <1>2, <1>3, <1>5, <1>8, <1>9
  <2>4. C.node[c] = x /\ C.fin[c] = 0 /\ C.root[c] = 0 /\ C.next[c] = x + 1
    BY <1>2, <1>5, <1>8, <1>9
  <2>5. /\ C.live = A.live \cup {c} /\ C.reg = A.reg \cup {c}
        /\ C.steps = A.steps /\ C.before = A.before
    BY <1>2, <1>4, <1>8, <1>9
  <2>6. QED  BY <2>1, <2>2, <2>3, <2>4, <2>5 DEF NewTask
<1>11. TreeOf(C, E \cup {e})
  <2>1. Grows(A, C, Pos(A, k), x)
    BY <1>2, <1>9 DEF Grows
  <2>2. x \in C.asy <=> e.node_type = ASYNC
    BY <1>0, <1>2, <1>9 DEF ASYNC, FINISH
  <2>3. QED  BY <1>0, <1>3, <2>1, <2>2, TreeGrows
<1>12. QED  BY <1>8, <1>10, <1>11

\* The first of a task's spawns since it last waited opens a FINISH for itself
\* and those that follow.
LEMMA FinishAndNodeJoin ==
    ASSUME NEW A, Ordered(A), NEW E, TreeOf(A, E), NEW k \in A.live, A.fin[k] = 0, A.root[k] = 0,
           NEW c, c \notin A.reg, c # 0, NEW f \in Nat \ {0}, \A n \in DOMAIN A.up : n < f,
           NEW x \in Nat, f < x, NEW nk, nk = 0 \/ (nk \in Nat /\ x < nk),
           NEW d, d.node_id = f, d.step_parent = Pos(A, k), d.node_type = FINISH,
           NEW e, e.node_id = x, e.step_parent = f, e.node_type = ASYNC
    PROVE  \E B : Ordered(B) /\ NewTask(A, B, k, c, x, f, FALSE, nk) /\ TreeOf(B, (E \cup {d}) \cup {e})
<1>1. PICK B : FinishOpened(A, B, k, f) /\ Ordered(B)
  BY OpenExists
<1>2. /\ Grows(A, B, A.node[k], f) /\ B.asy = A.asy
      /\ B.steps = A.steps /\ B.before = A.before
      /\ \A j \in A.reg : B.past[j] = A.past[j]
      /\ B.live = A.live /\ B.reg = A.reg
      /\ \A j \in A.reg : B.node[j] = A.node[j] /\ B.above[j] = A.above[j]
      /\ \A j \in A.live : /\ B.root[j] = A.root[j]
                           /\ B.fin[j] = IF j = k THEN f ELSE A.fin[j]
                           /\ B.next[j] = IF j = k THEN 0 ELSE A.next[j]
  BY <1>1 DEF FinishOpened
<1>3. A.live \subseteq A.reg /\ PathsUp(A.up) /\ A.asy \subseteq DOMAIN A.up
  BY DEF Ordered, Paths
<1>4. Pos(A, k) = A.node[k] /\ Pos(B, k) = f /\ B.fin[k] = f /\ B.root[k] = 0
  BY <1>2 DEF Pos
<1>5. PICK D : D = E \cup {d}
  OBVIOUS
<1>6. TreeOf(B, D)
  <2>1. f \notin B.asy /\ d.node_type # ASYNC
    BY <1>2, <1>3 DEF Grows, ASYNC, FINISH
  <2>2. QED  BY <1>2, <1>3, <1>4, <1>5, <2>1, TreeGrows
<1>7. \A n \in DOMAIN B.up : n < x
  <2>1. DOMAIN B.up = DOMAIN A.up \cup {f} /\ \A n \in DOMAIN A.up : n \in Nat /\ n < f
    BY <1>2, <1>3 DEF Grows, PathsUp
  <2>2. QED  BY <2>1
<1>8. PICK C : Ordered(C) /\ NewTask(B, C, k, c, x, B.fin[k], FALSE, nk) /\ TreeOf(C, D \cup {e})
  <2>1. k \in B.live /\ c \notin B.reg /\ B.fin[k] # 0
    BY <1>2, <1>4
  <2>2. PICK no \in BOOLEAN : no = FALSE
    OBVIOUS
  <2>3. MaySpawn(B, k, c, x, no, nk, e)
    BY <1>4, <1>7, <2>1, <2>2 DEF MaySpawn
  <2>4. \E C : Ordered(C) /\ NewTask(B, C, k, c, x, B.fin[k], no, nk) /\ TreeOf(C, D \cup {e})
    BY <1>1, <1>6, <2>3, NodeJoins
  <2>5. QED  BY <2>2, <2>4
<1>9. NewTask(A, C, k, c, x, f, FALSE, nk)
  <2>1. /\ C.live = A.live \cup {c} /\ C.reg = A.reg \cup {c}
        /\ C.steps = A.steps /\ C.before = A.before
    BY <1>2, <1>8 DEF NewTask
  <2>2. \A j \in A.reg : C.above[j] = A.above[j] /\ C.past[j] = A.past[j]
    BY <1>2, <1>8 DEF NewTask
  <2>3. C.above[c] = A.above[k] \cup {k} /\ C.past[c] = A.past[k]
    BY <1>2, <1>3, <1>8 DEF NewTask
  <2>4. \A j \in A.live : j # k => SameSlot(A, C, j)
    BY <1>2, <1>3, <1>8 DEF NewTask, SameSlot
  <2>5. /\ C.node[k] = A.node[k] /\ C.fin[k] = f /\ C.next[k] = nk /\ C.root[k] = 0
        /\ C.node[c] = x /\ C.fin[c] = 0 /\ C.root[c] = 0 /\ C.next[c] = x + 1
    BY <1>2, <1>3, <1>4, <1>8 DEF NewTask
  <2>6. QED  BY <2>1, <2>2, <2>3, <2>4, <2>5 DEF NewTask
<1>10. QED  BY <1>5, <1>8, <1>9

\* The calls that leave the stack as it is, or push a node, leave the rest.
LEMMA MarkTouchesAbove ==
    ASSUME TypeOK, SInv, NEW t \in Threads, frames[t] # <<>>, NEW y, Marked(t, y),
           \/ cur_dpst_index' = cur_dpst_index
           \/ \E n : cur_dpst_index' = [cur_dpst_index EXCEPT ![t] = Append(@, n)]
    PROVE  TouchesAbove(t, TopFrame(t).base)
<1>1. PICK h, stack, next :
         h = TopFrame(t).base /\ stack = cur_dpst_index[t] /\ next = cur_dpst_index'[t]
  OBVIOUS
<1>2. /\ h \in Nat /\ Len(stack) \in Nat /\ Len(stack) = h + Height(TopFrame(t)) /\ stack \in Seq(Nat)
      /\ Height(TopFrame(t)) \in {1, 2}
  BY <1>1, TopIsStacked, HeightRange DEF TypeOK, GraphTypeOK
<1>3. Top(t) = stack[Len(stack)] /\ Len(stack) \in h + 1 .. Len(stack)
  BY <1>1, <1>2 DEF Top
<1>4. /\ \A u \in Threads \ {t} : cur_dpst_index'[u] = cur_dpst_index[u]
      /\ next = stack \/ \E n : next = Append(stack, n)
  BY <1>1 DEF TypeOK, GraphTypeOK
<1>5. h <= Len(next) /\ \A i \in 1 .. h : next[i] = stack[i]
  <2>1. CASE next = stack
    BY <1>2, <2>1
  <2>2. CASE \E n : next = Append(stack, n)
    <3>1. PICK n : next = Append(stack, n)
      BY <2>2
    <3>2. Len(next) = Len(stack) + 1 /\ \A i \in 1 .. Len(stack) : next[i] = stack[i]
      BY <1>2, <3>1
    <3>3. QED  BY <1>2, <3>2
  <2>3. QED  BY <1>4, <2>1, <2>2
<1>6. \A n \in DOMAIN nodes : n # stack[Len(stack)] => Kept(n)
  BY <1>3 DEF Marked
<1>7. QED  BY <1>1, <1>3, <1>4, <1>5, <1>6 DEF TouchesAbove

\* The task that thread t is spawning, and the one it has in hand.
LEMMA SpawnerPlace ==
    ASSUME CollectionAssumption, IInv, JInv, SInv, NEW A, Linked(A), NEW t \in Threads, At(t, "capture"),
           NEW f, f = TopFrame(t), NEW k, k = f.task, NEW c, c = f.kid
    PROVE  /\ frames[t] # <<>> /\ k \in A.live /\ A.root[k] = 0 /\ Pos(A, k) = Top(t)
           /\ A.fin[k] = 0 <=> f.young = "none"
           /\ c \notin A.reg /\ c # 0 /\ c \in Tasks /\ c \notin DOMAIN temp_cur_map
           /\ ~OnFrame(c) /\ c \notin ended
           /\ above[c] = above[k] \cup {k}
<1>1. frames[t] # <<>> /\ f.at = "capture"
  BY DEF At
<1>2. /\ k \in A.live /\ Pos(A, k) = Top(t) /\ (A.fin[k] = 0 <=> f.young = "none")
      /\ A.root[k] = IF InRootCall(f) THEN f.kid ELSE 0
  BY <1>1, TopSlot
<1>3. A.root[k] = 0
  BY <1>1, <1>2 DEF InRootCall
<1>4. task_id_ctr \in Nat /\ MaxTasks \in Nat /\ task_id_ctr \in 0 .. MaxTasks
  BY DEF IInv, TypeOK, Tasks, CollectionAssumption
<1>5. c \in (1 .. task_id_ctr) \ DOMAIN temp_cur_map
  BY DEF IInv, HandOver
<1>6. c \in Tasks /\ c # 0
  BY <1>4, <1>5 DEF Tasks
<1>7. c \notin ended /\ ~OnFrame(c)
  BY DEF JInv, TasksPlaced, NewTaskApart, OnFrame
<1>8. c \notin A.reg
  BY <1>5, <1>7 DEF Linked, TasksOf, Live
<1>9. above[c] = above[k] \cup {k}
  BY DEF JInv, Descent, Launching
<1>10. QED  BY <1>1, <1>2, <1>3, <1>5, <1>6, <1>7, <1>8, <1>9

\* The tree and the tasks once the call is made.
LEMMA NewTaskLinks ==
    ASSUME CollectionAssumption, IInv, IInv', JInv, SInv, NEW A, Linked(A), NEW t \in Threads, At(t, "capture"),
           NEW f, f = TopFrame(t), NEW k, k = f.task, NEW c, c = f.kid,
           NEW g \in Frame, SetTop(t, g), g.task = k,
           past' = [past EXCEPT ![c] = past[k]], UNCHANGED <<above, ended, finished, before>>,
           NEW B, Ordered(B), NEW x, NEW h, NEW isRoot, NEW nk, NewTask(A, B, k, c, x, h, isRoot, nk),
           TreeOf(B, Entries'),
           TouchesAbove(t, f.base), temp_cur_map' = Insert(temp_cur_map, c, x),
           nodes'[x].child_id = x + 1, SlotOf(B, g, cur_dpst_index'[t], nodes', finished')
    PROVE  OInv'
<1>0. TypeOK /\ TypeOK'
  BY DEF IInv
<1>1. /\ frames[t] # <<>> /\ c \notin A.reg /\ c \in Tasks /\ c \notin DOMAIN temp_cur_map
      /\ above[c] = above[k] \cup {k} /\ k \in A.live
  BY SpawnerPlace
<1>2. /\ B.live = A.live \cup {c} /\ B.reg = A.reg \cup {c}
      /\ B.steps = A.steps /\ B.before = A.before
      /\ \A j \in A.reg : B.above[j] = A.above[j] /\ B.past[j] = A.past[j]
      /\ B.above[c] = A.above[k] \cup {k} /\ B.past[c] = A.past[k]
      /\ \A j \in A.live : j # k => SameSlot(A, B, j)
      /\ B.node[c] = x /\ B.fin[c] = 0 /\ B.root[c] = 0 /\ B.next[c] = x + 1
  BY DEF NewTask
<1>3. /\ DOMAIN temp_cur_map' = DOMAIN temp_cur_map \cup {c} /\ temp_cur_map'[c] = x
      /\ \A j \in DOMAIN temp_cur_map : temp_cur_map'[j] = temp_cur_map[j]
  BY <1>1 DEF Insert
<1>4. FramesOf(B, frames', cur_dpst_index', nodes', finished') /\ MapOf(B, temp_cur_map', nodes')
  <2>1. \A j \in DOMAIN temp_cur_map' :
              \/ j \in DOMAIN temp_cur_map /\ temp_cur_map'[j] = temp_cur_map[j]
              \/ /\ B.node[j] = temp_cur_map'[j] /\ B.fin[j] = 0 /\ B.root[j] = 0
                 /\ B.next[j] = nodes'[temp_cur_map'[j]].child_id
    BY <1>2, <1>3
  <2>2. k = TopFrame(t).task /\ TouchesAbove(t, TopFrame(t).base) /\ finished' = finished
    OBVIOUS
  <2>3. QED  BY <1>1, <1>2, <2>1, <2>2, TopLinked
<1>5. Live' = Live \cup {c}
  <2>1. SameTasks
    BY <1>0, <1>1, TopSetKeepsTasks
  <2>2. \A j : OnFrame(j)' <=> OnFrame(j)
    BY <2>1 DEF SameTasks, OnFrame
  <2>3. QED  BY <1>1, <1>3, <2>2 DEF Live
<1>6. TasksOf(B, Live', ended', past', above')
  <2>1. /\ A.live = Live /\ A.reg = Live \cup ended
        /\ \A j \in A.reg : A.past[j] = past[j] /\ A.above[j] = above[j]
    BY DEF Linked, TasksOf
  <2>2. past \in [Tasks -> SUBSET Nat] /\ \A j \in A.reg : j \in Tasks
    BY <1>0, RegHasId DEF TypeOK
  <2>3. past'[c] = past[k] /\ \A j \in A.reg : past'[j] = past[j]
    BY <1>1, <2>2
  <2>4. B.live = Live' /\ B.reg = Live' \cup ended'
    BY <1>2, <1>5, <2>1
  <2>5. k \in A.reg
    BY <1>1, <2>1
  <2>6. \A j \in B.reg : B.past[j] = past'[j] /\ B.above[j] = above'[j]
    <3>1. above' = above /\ A.past[k] = past[k] /\ A.above[k] = above[k]
      BY <2>1, <2>5
    <3>2. B.past[c] = past'[c] /\ B.above[c] = above'[c]
      BY <1>1, <1>2, <2>3, <3>1
    <3>3. \A j \in A.reg : B.past[j] = past'[j] /\ B.above[j] = above'[j]
      BY <1>2, <2>1, <2>3, <3>1
    <3>4. QED  BY <1>2, <3>2, <3>3
  <2>7. QED  BY <2>4, <2>6 DEF TasksOf
<1>7. StepsOf(B, before')
  BY <1>2 DEF Linked, StepsOf
<1>8. Linked(B)'
  BY <1>4, <1>6, <1>7 DEF Linked
<1>9. QED  BY <1>8 DEF OInv

\* A call that puts the node of c under the node on top of the stack.
LEMMA NodeAdded ==
    ASSUME CollectionAssumption, IInv, IInv', JInv, LInv, SInv, NEW A, Linked(A), Ordered(A),
           NEW t \in Threads, At(t, "capture"),
           NEW f, f = TopFrame(t), NEW k, k = f.task, NEW c, c = f.kid,
           NEW g \in Frame, SetTop(t, g), g.task = k, g.base = f.base, g.kid = c, g.at = "captured",
           g.young = "none" <=> f.young = "none",
           past' = [past EXCEPT ![c] = past[k]], UNCHANGED <<above, ended, finished, before, cur_dpst_index>>,
           NEW x, x = last_allocated_node, temp_cur_map' = Insert(temp_cur_map, c, x),
           nodes'[x].child_id = x + 1, NEW y, Marked(t, y),
           NEW e \in LogEntry, Log(t, <<e>>), e.node_id = x, e.step_parent = Top(t),
           g.op = "root" => e.node_type = FINISH,
           g.op # "root" => e.node_type = ASYNC /\ f.young # "none",
           NEW nk, nk = IF g.op = "spawn" THEN nodes'[Top(t)].child_id ELSE 0,
           g.op = "spawn" => nk \in Nat /\ x < nk
    PROVE  OInv'
<1>0. TypeOK /\ TypeOK'
  BY DEF IInv
<1>1. /\ frames[t] # <<>> /\ c \notin A.reg /\ c # 0
      /\ k \in A.live /\ A.root[k] = 0 /\ Pos(A, k) = Top(t) /\ (A.fin[k] = 0 <=> f.young = "none")
  BY SpawnerPlace
<1>2. PICK isRoot \in BOOLEAN : isRoot <=> g.op = "root"
  OBVIOUS
<1>3. x \in Nat /\ \A n \in DOMAIN A.up : n < x
  BY BelowCounter
<1>4. TreeOf(A, Entries)
  BY DEF Linked
<1>5. Entries' = Entries \cup {e}
  <2>1. report \in [Threads -> Seq(LogEntry)]
    BY <1>0 DEF TypeOK, GraphTypeOK
  <2>2. QED  BY <2>1, OneEntryJoins
<1>6. PICK B : /\ Ordered(B) /\ NewTask(A, B, k, c, x, A.fin[k], isRoot, nk)
               /\ TreeOf(B, Entries \cup {e})
  <2>1. isRoot \/ A.fin[k] # 0
    BY <1>1, <1>2
  <2>2. nk = 0 \/ (~isRoot /\ nk \in Nat /\ x < nk)
    BY <1>2
  <2>3. e.node_type = IF isRoot THEN FINISH ELSE ASYNC
    BY <1>2
  <2>4. MaySpawn(A, k, c, x, isRoot, nk, e)
    BY <1>1, <1>3, <2>1, <2>2, <2>3 DEF MaySpawn
  <2>5. PICK E : E = Entries
    OBVIOUS
  <2>6. TreeOf(A, E)
    BY <1>4, <2>5
  <2>7. PICK B : /\ Ordered(B) /\ NewTask(A, B, k, c, x, A.fin[k], isRoot, nk)
                 /\ TreeOf(B, E \cup {e})
    BY <2>4, <2>6, NodeJoins
  <2>8. QED  BY <2>5, <2>7
<1>7. TouchesAbove(t, f.base)
  BY <1>0, <1>1, MarkTouchesAbove
<1>8. SlotOf(B, g, cur_dpst_index'[t], nodes', finished')
  <2>1. PICK s : s = cur_dpst_index[t]
    OBVIOUS
  <2>2. /\ SlotOf(A, f, s, nodes, finished) /\ Len(s) = f.base + Height(f)
    BY <1>1, <2>1, TopSlot
  <2>3. Height(g) = Height(f) /\ Top(t) = s[f.base + Height(f)] /\ cur_dpst_index'[t] = s
    BY <2>1, <2>2 DEF Height, Top
  <2>4. /\ A.node[k] = s[f.base + 1]
        /\ A.fin[k] = IF f.young = "none" THEN 0 ELSE s[f.base + 2]
    BY <2>2 DEF SlotOf
  <2>5. /\ B.node[k] = A.node[k] /\ B.fin[k] = A.fin[k] /\ B.next[k] = nk
        /\ B.root[k] = IF isRoot THEN c ELSE 0
    BY <1>6 DEF NewTask
  <2>6. B.root[g.task] = IF InRootCall(g) THEN g.kid ELSE 0
    BY <1>2, <2>5 DEF InRootCall
  <2>7. B.next[g.task] =
           IF Stepping(g, finished') THEN nodes'[s[g.base + Height(g)]].child_id ELSE 0
    BY <2>3, <2>5 DEF Stepping
  <2>8. QED  BY <2>3, <2>4, <2>5, <2>6, <2>7 DEF SlotOf
<1>9. TreeOf(B, Entries')
  BY <1>5, <1>6
<1>10. QED  BY <1>6, <1>7, <1>8, <1>9, NewTaskLinks

\* A call that puts a FINISH on the stack, and the node of c under it.
LEMMA FinishAndNodeAdded ==
    ASSUME CollectionAssumption, IInv, IInv', JInv, LInv, SInv, NEW A, Linked(A), Ordered(A),
           NEW t \in Threads, At(t, "capture"),
           NEW f, f = TopFrame(t), NEW k, k = f.task, NEW c, c = f.kid,
           NEW g \in Frame, SetTop(t, g), g.task = k, g.base = f.base, g.kid = c, g.at = "captured",
           f.young = "none", g.young = "spawned", g.op # "root",
           past' = [past EXCEPT ![c] = past[k]], UNCHANGED <<above, ended, finished, before>>,
           NEW fin, fin = last_allocated_node, cur_dpst_index' = [cur_dpst_index EXCEPT ![t] = Append(@, fin)],
           NEW x, x = fin + 1, temp_cur_map' = Insert(temp_cur_map, c, x),
           nodes'[x].child_id = x + 1, NEW y, Marked(t, y),
           NEW d \in LogEntry, d.node_id = fin, d.step_parent = Top(t), d.node_type = FINISH,
           NEW e \in LogEntry, e.node_id = x, e.step_parent = fin, e.node_type = ASYNC, Log(t, <<d, e>>),
           NEW nk, nk = IF g.op = "spawn" THEN nodes'[fin].child_id ELSE 0,
           g.op = "spawn" => nk \in Nat /\ x < nk
    PROVE  OInv'
<1>0. TypeOK /\ TypeOK'
  BY DEF IInv
<1>1. /\ frames[t] # <<>> /\ c \notin A.reg /\ c # 0
      /\ k \in A.live /\ A.root[k] = 0 /\ Pos(A, k) = Top(t) /\ A.fin[k] = 0
  BY SpawnerPlace
<1>2. /\ fin \in Nat \ {0} /\ \A n \in DOMAIN A.up : n < fin
      /\ x \in Nat /\ fin < x
  <2>1. fin \in Nat \ {0}
    BY <1>0 DEF TypeOK, GraphTypeOK
  <2>2. \A n \in DOMAIN A.up : n < fin
    BY BelowCounter
  <2>3. QED  BY <2>1, <2>2
<1>3. Entries' = (Entries \cup {d}) \cup {e}
  <2>1. report \in [Threads -> Seq(LogEntry)]
    BY <1>0 DEF TypeOK, GraphTypeOK
  <2>2. QED  BY <2>1, TwoEntriesJoin
<1>4. PICK B : /\ Ordered(B) /\ NewTask(A, B, k, c, x, fin, FALSE, nk)
               /\ TreeOf(B, (Entries \cup {d}) \cup {e})
  <2>1. nk = 0 \/ (nk \in Nat /\ x < nk)
    OBVIOUS
  <2>2. PICK E : E = Entries
    OBVIOUS
  <2>3. TreeOf(A, E)
    BY <2>2 DEF Linked
  <2>4. d.step_parent = Pos(A, k)
    BY <1>1
  <2>5. PICK B : /\ Ordered(B) /\ NewTask(A, B, k, c, x, fin, FALSE, nk)
                 /\ TreeOf(B, (E \cup {d}) \cup {e})
    BY <1>1, <1>2, <2>1, <2>3, <2>4, FinishAndNodeJoin
  <2>6. QED  BY <2>2, <2>5
<1>5. TouchesAbove(t, f.base)
  BY <1>0, <1>1, MarkTouchesAbove
<1>6. SlotOf(B, g, cur_dpst_index'[t], nodes', finished')
  <2>1. PICK s, r : s = cur_dpst_index[t] /\ r = cur_dpst_index'[t]
    OBVIOUS
  <2>2. /\ SlotOf(A, f, s, nodes, finished) /\ Len(s) = f.base + Height(f) /\ f.base \in Nat
    BY <1>1, <2>1, TopSlot
  <2>3. Height(g) = 2 /\ Height(f) = 1
    BY DEF Height
  <2>4. r = Append(s, fin) /\ s \in Seq(Nat)
    BY <1>0, <2>1 DEF TypeOK, GraphTypeOK
  <2>5. r[g.base + 1] = s[f.base + 1] /\ r[g.base + 2] = fin
    BY <1>2, <2>2, <2>3, <2>4
  <2>6. A.node[k] = s[f.base + 1]
    BY <2>2 DEF SlotOf
  <2>7. B.node[k] = A.node[k] /\ B.fin[k] = fin /\ B.next[k] = nk /\ B.root[k] = 0
    BY <1>4 DEF NewTask
  <2>8. ~InRootCall(g) /\ (Stepping(g, finished') <=> g.op = "spawn")
    BY DEF InRootCall, Stepping
  <2>9. QED  BY <2>1, <2>3, <2>5, <2>6, <2>7, <2>8 DEF SlotOf
<1>7. TreeOf(B, Entries')
  BY <1>3, <1>4
<1>8. PICK no : no = FALSE
  OBVIOUS
<1>9. NewTask(A, B, k, c, x, fin, no, nk)
  BY <1>4, <1>8
<1>10. QED  BY <1>4, <1>5, <1>6, <1>7, <1>9, NewTaskLinks

LEMMA AddAsyncOrders ==
    ASSUME CollectionAssumption, IInv, IInv', JInv, LInv, SInv, OInv, NEW t \in Threads, At(t, "capture"),
           NEW f, f = TopFrame(t), NEW k, k = f.task, NEW c, c = f.kid,
           NEW g \in Frame, SetTop(t, g), g.task = k, g.base = f.base, g.kid = c, g.at = "captured",
           g.young = "none" <=> f.young = "none", f.young # "none", g.op # "root",
           past' = [past EXCEPT ![c] = past[k]], UNCHANGED <<above, ended, finished, before>>,
           NEW site \in Nat, NEW step, NEW last, AddAsync(t, c, site, step, last),
           g.op = "spawn" => step \in Nat /\ last_allocated_node + 1 < step
    PROVE  OInv'
<1>0. TypeOK /\ NodeOwnership
  BY DEF IInv
<1>1. PICK A : Linked(A) /\ Ordered(A)
  BY DEF OInv
<1>2. PICK cur, x : cur = Top(t) /\ x = last_allocated_node
  OBVIOUS
<1>3. PICK node, e :
         /\ node = [young_ns_child |-> NO_TYPE, sync_finish_flag |-> FALSE, child_id |-> x + 1]
         /\ e = Entry(x, cur, ASYNC, site)
  OBVIOUS
<1>4. /\ frames[t] # <<>> /\ c \notin DOMAIN temp_cur_map
      /\ cur_dpst_index[t] # <<>> /\ cur \in Nat
  <2>1. frames[t] # <<>> /\ c \notin DOMAIN temp_cur_map
    BY <1>1, SpawnerPlace
  <2>2. cur_dpst_index[t] # <<>> /\ Top(t) \in Nat
    BY <1>1, <2>1, TopSlot
  <2>3. QED  BY <1>2, <2>1, <2>2
<1>5. /\ nodes' = Insert([nodes EXCEPT ![cur].child_id = step], x, node)
      /\ temp_cur_map' = Insert(temp_cur_map, c, x) /\ Log(t, <<e>>) /\ cur_dpst_index' = cur_dpst_index
  BY <1>2, <1>3 DEF AddAsync, Register
<1>6. PICK y : y = nodes[Top(t)].young_ns_child
  OBVIOUS
<1>7. Marked(t, y)
  <2>1. Marked(t, nodes[Top(t)].young_ns_child)
    BY <1>0, <1>4, AddAsyncMarks
  <2>2. QED  BY <1>6, <2>1 DEF Marked
<1>8. cur \in DOMAIN nodes /\ x \notin DOMAIN nodes /\ nodes[cur] \in AFTask /\ x \in Nat
  <2>1. cur \in DOMAIN nodes /\ nodes[cur] \in AFTask
    BY <1>0, <1>2, <1>4, TopAllocated DEF TypeOK, NodeOwnership
  <2>2. x \notin DOMAIN nodes /\ x \in Nat
    BY <1>0, <1>2 DEF TypeOK, GraphTypeOK
  <2>3. QED  BY <2>1, <2>2
<1>9. nodes'[x] = node /\ nodes'[x].child_id = x + 1
  BY <1>3, <1>5, <1>8 DEF Insert
<1>10. nodes'[Top(t)].child_id = step
  BY <1>2, <1>5, <1>8 DEF Insert, AFTask
<1>11. /\ e \in LogEntry /\ e.node_id = x /\ e.step_parent = Top(t) /\ e.node_type = ASYNC
  BY <1>2, <1>3, <1>4, <1>8 DEF Entry, LogEntry
<1>12. PICK nk : nk = IF g.op = "spawn" THEN nodes'[Top(t)].child_id ELSE 0
  OBVIOUS
<1>13. g.op = "spawn" => nk \in Nat /\ x < nk
  <2>1. g.op = "spawn" => step \in Nat /\ x + 1 < step
    BY <1>2
  <2>2. QED  BY <1>8, <1>10, <1>12, <2>1
<1>14. UNCHANGED <<above, ended, finished, before, cur_dpst_index>>
  BY <1>5
<1>15. QED  BY <1>1, <1>2, <1>5, <1>7, <1>9, <1>11, <1>12, <1>13, <1>14, NodeAdded

LEMMA SpawnAndWaitOrders ==
    ASSUME CollectionAssumption, IInv, IInv', JInv, LInv, SInv, OInv, NEW t \in Threads, At(t, "capture"),
           NEW f, f = TopFrame(t), NEW k, k = f.task, NEW c, c = f.kid,
           NEW g \in Frame, SetTop(t, g), g.task = k, g.base = f.base, g.kid = c, g.at = "captured",
           g.young = "none" <=> f.young = "none", g.op = "root",
           past' = [past EXCEPT ![c] = past[k]], UNCHANGED <<above, ended, finished, before>>,
           NEW site \in Nat, CaptureSpawnAndWait(t, c, site)
    PROVE  OInv'
<1>0. TypeOK /\ NodeOwnership
  BY DEF IInv
<1>1. PICK A : Linked(A) /\ Ordered(A)
  BY DEF OInv
<1>2. PICK cur, x : cur = Top(t) /\ x = last_allocated_node
  OBVIOUS
<1>3. PICK node, e :
         /\ node = [young_ns_child |-> NO_TYPE, sync_finish_flag |-> FALSE, child_id |-> x + 1]
         /\ e = Entry(x, cur, FINISH, site)
  OBVIOUS
<1>4. /\ frames[t] # <<>> /\ c \notin DOMAIN temp_cur_map
      /\ cur_dpst_index[t] # <<>> /\ cur \in Nat
  <2>1. frames[t] # <<>> /\ c \notin DOMAIN temp_cur_map
    BY <1>1, SpawnerPlace
  <2>2. cur_dpst_index[t] # <<>> /\ Top(t) \in Nat
    BY <1>1, <2>1, TopSlot
  <2>3. QED  BY <1>2, <2>1, <2>2
<1>5. /\ nodes' = Insert([nodes EXCEPT ![cur].young_ns_child = FINISH], x, node)
      /\ temp_cur_map' = Insert(temp_cur_map, c, x) /\ Log(t, <<e>>) /\ cur_dpst_index' = cur_dpst_index
  BY <1>2, <1>3 DEF CaptureSpawnAndWait, Register
<1>6. PICK y : y = FINISH
  OBVIOUS
<1>7. Marked(t, y)
  <2>1. Marked(t, FINISH)
    BY <1>0, <1>4, SpawnAndWaitMarks
  <2>2. QED  BY <1>6, <2>1
<1>8. x \notin DOMAIN nodes /\ x \in Nat
  BY <1>0, <1>2 DEF TypeOK, GraphTypeOK
<1>9. nodes'[x] = node /\ nodes'[x].child_id = x + 1
  BY <1>3, <1>5, <1>8 DEF Insert
<1>10. /\ e \in LogEntry /\ e.node_id = x /\ e.step_parent = Top(t) /\ e.node_type = FINISH
  BY <1>2, <1>3, <1>4, <1>8 DEF Entry, LogEntry
<1>11. PICK nk : nk = IF g.op = "spawn" THEN nodes'[Top(t)].child_id ELSE 0
  OBVIOUS
<1>12. UNCHANGED <<above, ended, finished, before, cur_dpst_index>>
  BY <1>5
<1>13. QED  BY <1>1, <1>2, <1>5, <1>7, <1>9, <1>10, <1>11, <1>12, NodeAdded

LEMMA AddFinishAndAsyncOrders ==
    ASSUME CollectionAssumption, IInv, IInv', JInv, LInv, SInv, OInv, NEW t \in Threads, At(t, "capture"),
           NEW f, f = TopFrame(t), NEW k, k = f.task, NEW c, c = f.kid,
           NEW g \in Frame, SetTop(t, g), g.task = k, g.base = f.base, g.kid = c, g.at = "captured",
           f.young = "none", g.young = "spawned", g.op # "root",
           past' = [past EXCEPT ![c] = past[k]], UNCHANGED <<above, ended, finished, before>>,
           NEW site \in Nat, NEW step, NEW last, AddFinishAndAsync(t, c, site, step, last),
           g.op = "spawn" => step \in Nat /\ last_allocated_node + 1 < step
    PROVE  OInv'
<1>0. TypeOK /\ NodeOwnership
  BY DEF IInv
<1>1. PICK A : Linked(A) /\ Ordered(A)
  BY DEF OInv
<1>2. PICK cur, fin : cur = Top(t) /\ fin = last_allocated_node
  OBVIOUS
<1>3. PICK x : x = fin + 1
  OBVIOUS
<1>4. PICK node, root, d, e :
         /\ node = [young_ns_child |-> NO_TYPE, sync_finish_flag |-> FALSE, child_id |-> x + 1]
         /\ root = [young_ns_child |-> ASYNC, sync_finish_flag |-> TRUE, child_id |-> step]
         /\ d = Entry(fin, cur, FINISH, 0) /\ e = Entry(x, fin, ASYNC, site)
  OBVIOUS
<1>5. /\ frames[t] # <<>> /\ c \notin DOMAIN temp_cur_map
      /\ cur_dpst_index[t] # <<>> /\ cur \in Nat
  <2>1. frames[t] # <<>> /\ c \notin DOMAIN temp_cur_map
    BY <1>1, SpawnerPlace
  <2>2. cur_dpst_index[t] # <<>> /\ Top(t) \in Nat
    BY <1>1, <2>1, TopSlot
  <2>3. QED  BY <1>2, <2>1, <2>2
<1>6. /\ nodes' = Insert(Insert([nodes EXCEPT ![cur].young_ns_child = FINISH], fin, root), x, node)
      /\ temp_cur_map' = Insert(temp_cur_map, c, x) /\ Log(t, <<d, e>>)
      /\ cur_dpst_index' = [cur_dpst_index EXCEPT ![t] = Append(@, fin)]
  BY <1>2, <1>3, <1>4 DEF AddFinishAndAsync, Register
<1>7. PICK y : y = FINISH
  OBVIOUS
<1>8. Marked(t, y)
  <2>1. Marked(t, FINISH)
    BY <1>0, <1>2, <1>5, AddFinishAndAsyncMarks
  <2>2. QED  BY <1>7, <2>1
<1>9. fin \notin DOMAIN nodes /\ x \notin DOMAIN nodes /\ fin \in Nat /\ x \in Nat /\ fin # x
  <2>1. fin \in Nat \ {0} /\ DOMAIN nodes \subseteq 1 .. fin - 1
    BY <1>0, <1>2 DEF TypeOK, GraphTypeOK
  <2>2. QED  BY <1>3, <2>1
<1>10. nodes'[x] = node /\ nodes'[x].child_id = x + 1
  BY <1>4, <1>6, <1>9 DEF Insert
<1>11. nodes'[fin] = root /\ nodes'[fin].child_id = step
  BY <1>4, <1>6, <1>9 DEF Insert
<1>12. /\ d \in LogEntry /\ d.node_id = fin /\ d.step_parent = Top(t) /\ d.node_type = FINISH
       /\ e \in LogEntry /\ e.node_id = x /\ e.step_parent = fin /\ e.node_type = ASYNC
  BY <1>2, <1>4, <1>5, <1>9 DEF Entry, LogEntry
<1>13. PICK nk : nk = IF g.op = "spawn" THEN nodes'[fin].child_id ELSE 0
  OBVIOUS
<1>14. g.op = "spawn" => nk \in Nat /\ x < nk
  <2>1. g.op = "spawn" => step \in Nat /\ fin + 1 < step
    BY <1>2
  <2>2. QED  BY <1>3, <1>11, <1>13, <2>1
<1>15. QED  BY <1>1, <1>2, <1>3, <1>6, <1>8, <1>10, <1>12, <1>13, <1>14, FinishAndNodeAdded

LEMMA SpawnsAddSteps ==
    ASSUME NEW t \in Threads, NEW k, NEW site, NEW op, last_allocated_node \in Nat,
           \/ op = "spawn" /\ CaptureSpawnOnly(t, k, site)
           \/ op = "both" /\ CaptureSpawnAndWaitForAll(t, k, site)
    PROVE  \E step, last :
              /\ \/ nodes[Top(t)].young_ns_child = ASYNC /\ AddAsync(t, k, site, step, last)
                 \/ nodes[Top(t)].young_ns_child # ASYNC /\ AddFinishAndAsync(t, k, site, step, last)
              /\ op = "spawn" => step \in Nat /\ last_allocated_node + 1 < step
<1>1. PICK child, none, two, three, four :
         /\ child = nodes[Top(t)].child_id /\ none = 0 /\ two = last_allocated_node + 2
         /\ three = last_allocated_node + 3 /\ four = last_allocated_node + 4
  OBVIOUS
<1>2. /\ two \in Nat /\ three \in Nat
      /\ last_allocated_node + 1 < two /\ last_allocated_node + 1 < three
  BY <1>1
<1>3. CASE op = "spawn" /\ CaptureSpawnOnly(t, k, site)
  <2>1. \/ nodes[Top(t)].young_ns_child = ASYNC /\ AddAsync(t, k, site, two, three)
        \/ nodes[Top(t)].young_ns_child # ASYNC /\ AddFinishAndAsync(t, k, site, three, four)
    BY <1>1, <1>3 DEF CaptureSpawnOnly, AddAsync, AddFinishAndAsync
  <2>2. QED  BY <1>2, <2>1
<1>4. CASE op = "both" /\ CaptureSpawnAndWaitForAll(t, k, site)
  <2>1. \/ nodes[Top(t)].young_ns_child = ASYNC /\ AddAsync(t, k, site, child, two)
        \/ nodes[Top(t)].young_ns_child # ASYNC /\ AddFinishAndAsync(t, k, site, none, three)
    BY <1>1, <1>4 DEF CaptureSpawnAndWaitForAll, AddAsync, AddFinishAndAsync
  <2>2. QED  BY <1>4, <2>1
<1>5. QED  BY <1>3, <1>4

LEMMA SpawnCaptureOrders ==
    ASSUME CollectionAssumption, IInv, IInv', JInv, LInv, SInv, OInv, NEW t \in Threads, SpawnCapture(t)
    PROVE  OInv'
<1>0. TypeOK /\ NodeOwnership
  BY DEF IInv
<1>1. PICK site \in SpawnSites \cup RootSites : SpawnCaptureAt(t, site)
  BY DEF SpawnCapture
<1>2. site \in Nat
  BY DEF CollectionAssumption
<1> DEFINE h == TopFrame(t)
           young == IF h.op # "root" THEN "spawned"
                    ELSE IF h.young = "none" THEN "none" ELSE "rooted"
<1>3. PICK f, g, k, c : /\ f = h /\ k = h.task /\ c = h.kid
                        /\ g = [h EXCEPT !.at = "captured", !.young = young]
  OBVIOUS
<1>4. /\ frames[t] # <<>> /\ f.at = "capture" /\ At(t, "capture") /\ SetTop(t, g)
      /\ past' = [past EXCEPT ![c] = past[k]] /\ UNCHANGED <<above, ended, finished, before>>
  BY <1>1, <1>3 DEF SpawnCaptureAt, At
<1>5. \/ f.op = "root" /\ CaptureSpawnAndWait(t, c, site)
      \/ f.op = "spawn" /\ CaptureSpawnOnly(t, c, site)
      \/ f.op = "both" /\ CaptureSpawnAndWaitForAll(t, c, site)
  <2>1. CASE h.op = "root" /\ CaptureSpawnAndWait(t, h.kid, site)
    <3>1. CaptureSpawnAndWait(t, c, site)
      BY <1>3, <2>1 DEF CaptureSpawnAndWait, Register
    <3>2. QED  BY <1>3, <2>1, <3>1
  <2>2. CASE h.op = "spawn" /\ CaptureSpawnOnly(t, h.kid, site)
    <3>1. CaptureSpawnOnly(t, c, site)
      BY <1>3, <2>2 DEF CaptureSpawnOnly, AddAsync, AddFinishAndAsync, Register
    <3>2. QED  BY <1>3, <2>2, <3>1
  <2>3. CASE h.op = "both" /\ CaptureSpawnAndWaitForAll(t, h.kid, site)
    <3>1. CaptureSpawnAndWaitForAll(t, c, site)
      BY <1>3, <2>3 DEF CaptureSpawnAndWaitForAll, AddAsync, AddFinishAndAsync, Register
    <3>2. QED  BY <1>3, <2>3, <3>1
  <2>4. QED  BY <1>1, <2>1, <2>2, <2>3 DEF SpawnCaptureAt
<1>6. f \in Frame /\ f.young \in {"none", "spawned", "rooted"}
  BY <1>0, <1>3, <1>4, TopFrameTyped DEF Frame
<1>7. /\ g \in Frame /\ g.at = "captured" /\ g.op = f.op /\ g.young = young
      /\ g.base = f.base /\ g.task = k /\ g.kid = c
  BY <1>3, <1>6 DEF Frame
<1>8. Habits(f) /\ Placed(f, cur_dpst_index[t]) /\ Len(cur_dpst_index[t]) = f.base + Height(f)
      /\ f.base \in Nat
  BY <1>0, <1>3, <1>4, TopIsStacked
<1>9. /\ f.young = "none" => PlainNode(Top(t))
      /\ f.young # "none" => ImplicitFinish(Top(t), f.young)
  BY <1>8 DEF Placed, Top, Height
<1>10. f = TopFrame(t) /\ k = f.task /\ c = f.kid
  BY <1>3
<1>11. last_allocated_node \in Nat
  BY <1>0 DEF TypeOK, GraphTypeOK
<1>12. CASE f.op = "root" /\ CaptureSpawnAndWait(t, c, site)
  <2>1. g.young = "none" <=> f.young = "none"
    BY <1>3, <1>7, <1>12
  <2>2. g.op = "root"
    BY <1>7, <1>12
  <2>3. QED  BY <1>2, <1>4, <1>7, <1>10, <1>12, <2>1, <2>2, SpawnAndWaitOrders
<1>13. CASE f.op # "root"
  <2>1. f.young # "rooted" /\ g.young = "spawned" /\ g.op # "root"
    BY <1>3, <1>4, <1>7, <1>8, <1>13 DEF Habits
  <2>2. PICK step, last :
              /\ \/ nodes[Top(t)].young_ns_child = ASYNC /\ AddAsync(t, c, site, step, last)
                 \/ nodes[Top(t)].young_ns_child # ASYNC /\ AddFinishAndAsync(t, c, site, step, last)
              /\ g.op = "spawn" => step \in Nat /\ last_allocated_node + 1 < step
    <3>1. PICK op : op = f.op
      OBVIOUS
    <3>2. \/ op = "spawn" /\ CaptureSpawnOnly(t, c, site)
          \/ op = "both" /\ CaptureSpawnAndWaitForAll(t, c, site)
      BY <1>5, <1>13, <3>1
    <3>3. \E step, last :
              /\ \/ nodes[Top(t)].young_ns_child = ASYNC /\ AddAsync(t, c, site, step, last)
                 \/ nodes[Top(t)].young_ns_child # ASYNC /\ AddFinishAndAsync(t, c, site, step, last)
              /\ op = "spawn" => step \in Nat /\ last_allocated_node + 1 < step
      BY <1>11, <3>2, SpawnsAddSteps
    <3>4. QED  BY <1>7, <3>1, <3>3
  <2>3. CASE nodes[Top(t)].young_ns_child = ASYNC /\ AddAsync(t, c, site, step, last)
    <3>1. f.young # "none"
      BY <1>9, <2>3 DEF PlainNode
    <3>2. g.young = "none" <=> f.young = "none"
      BY <2>1, <3>1
    <3>3. QED  BY <1>2, <1>4, <1>7, <1>10, <2>1, <2>2, <2>3, <3>1, <3>2, AddAsyncOrders
  <2>4. CASE nodes[Top(t)].young_ns_child # ASYNC /\ AddFinishAndAsync(t, c, site, step, last)
    <3>1. f.young = "none"
      BY <1>6, <1>9, <2>1, <2>4 DEF ImplicitFinish
    <3>2. QED  BY <1>2, <1>4, <1>7, <1>10, <2>1, <2>2, <2>4, <3>1, AddFinishAndAsyncOrders
  <2>5. QED  BY <2>2, <2>3, <2>4
<1>14. QED  BY <1>5, <1>12, <1>13

(******************************************************************************)
(* A join                                                                     *)
(******************************************************************************)

\* The tasks that task k waited for are in its past, which is p; its tasks go
\* under h from now on, and n is the id of its next step.
Joined(A, B, k, p, h, n) ==
    /\ B.live = A.live /\ B.reg = A.reg /\ SameTree(A, B)
    /\ \A j \in A.reg : B.above[j] = A.above[j] /\ B.past[j] = IF j = k THEN p ELSE A.past[j]
    /\ \A j \in A.live : j # k => SameSlot(A, B, j)
    /\ B.node[k] = A.node[k] /\ B.fin[k] = h /\ B.root[k] = 0 /\ B.next[k] = n

LEMMA NextGiven ==
    ASSUME NEW A, Ordered(A), NEW k \in A.live, A.root[k] = 0,
           NEW n \in Nat, \A m \in DOMAIN A.up : m < n
    PROVE  \E B : /\ TasksGoOn(A, B) /\ Ordered(B) /\ B.live = A.live /\ B.next[k] = n
                  /\ \A j \in A.live : j # k => B.next[j] = A.next[j]
<1>1. PICK live, next : live = A.live /\ next = [j \in A.live |-> IF j = k THEN n ELSE A.next[j]]
  OBVIOUS
<1>2. next[k] = n /\ \A j \in A.live : j # k => next[j] = A.next[j]
  BY <1>1
<1>3. MayGoOn(A, live, next)
  <2>1. ASSUME NEW j \in live
        PROVE  \/ next[j] \in {0, A.next[j]}
               \/ A.root[j] = 0 /\ next[j] \in Nat /\ \A m \in DOMAIN A.up : m < next[j]
    BY <1>1, <1>2
  <2>2. QED  BY <1>1, <2>1 DEF MayGoOn
<1>4. PICK B : TasksGoOn(A, B) /\ Ordered(B) /\ B.live = live /\ B.next = next
  BY <1>3, GoOnExists
<1>5. QED  BY <1>1, <1>2, <1>4

LEMMA KidsJoin ==
    ASSUME NEW A, Ordered(A), NEW k \in A.live, A.fin[k] # 0, A.root[k] = 0,
           \A d \in A.reg : k \in A.above[d] => d \notin A.live,
           NEW p, \A s : s \in p <=> s \in A.past[k] \/ \E d \in A.reg : k \in A.above[d] /\ s \in A.past[d],
           NEW n \in Nat, \A m \in DOMAIN A.up : m < n
    PROVE  \E B : Ordered(B) /\ Joined(A, B, k, p, 0, n)
<1>1. PICK B : KidsJoined(A, B, k) /\ Ordered(B) /\ B.past[k] = p
  BY KidsJoinExists
<1>2. /\ SameTree(A, B) /\ B.live = A.live /\ B.reg = A.reg
      /\ \A j \in A.reg : B.node[j] = A.node[j] /\ B.above[j] = A.above[j]
      /\ \A j \in A.reg : j # k => B.past[j] = A.past[j]
      /\ \A j \in A.live : /\ B.root[j] = A.root[j]
                           /\ B.fin[j] = IF j = k THEN 0 ELSE A.fin[j]
                           /\ B.next[j] = IF j = k THEN 0 ELSE A.next[j]
  BY <1>1 DEF KidsJoined
<1>3. A.live \subseteq A.reg
  BY DEF Ordered, Paths
<1>4. k \in B.live /\ B.root[k] = 0 /\ \A m \in DOMAIN B.up : m < n
  BY <1>2 DEF SameTree
<1>5. PICK C : /\ TasksGoOn(B, C) /\ Ordered(C) /\ C.live = B.live /\ C.next[k] = n
               /\ \A j \in B.live : j # k => C.next[j] = B.next[j]
  BY <1>1, <1>4, NextGiven
<1>6. /\ SameTree(B, C) /\ C.reg = B.reg
      /\ \A j \in B.reg : C.node[j] = B.node[j] /\ C.above[j] = B.above[j] /\ C.past[j] = B.past[j]
      /\ \A j \in B.live : C.fin[j] = B.fin[j] /\ C.root[j] = B.root[j]
  BY <1>5 DEF TasksGoOn, SameFrames
<1>7. SameTree(A, C)
  BY <1>2, <1>6 DEF SameTree
<1>8. \A j \in A.live : j # k => SameSlot(A, C, j)
  BY <1>2, <1>3, <1>5, <1>6 DEF SameSlot
<1>9. /\ C.node[k] = A.node[k] /\ C.fin[k] = 0 /\ C.root[k] = 0 /\ C.next[k] = n
  BY <1>2, <1>3, <1>5, <1>6
<1>10. \A j \in A.reg : C.above[j] = A.above[j] /\ C.past[j] = IF j = k THEN p ELSE A.past[j]
  BY <1>1, <1>2, <1>6
<1>11. Joined(A, C, k, p, 0, n)
  BY <1>2, <1>5, <1>6, <1>7, <1>8, <1>9, <1>10 DEF Joined
<1>12. QED  BY <1>5, <1>11

LEMMA RootJoins ==
    ASSUME NEW A, Ordered(A), NEW k \in A.live, A.root[k] # 0,
           \A d \in A.reg : InScope(A, A.root[k], d) => d \notin A.live,
           NEW p, \A s : s \in p <=>
                     s \in A.past[k] \/ \E d \in A.reg : InScope(A, A.root[k], d) /\ s \in A.past[d],
           NEW n \in Nat, \A m \in DOMAIN A.up : m < n
    PROVE  \E B : Ordered(B) /\ Joined(A, B, k, p, A.fin[k], n)
<1>1. PICK B : RootJoined(A, B, k) /\ Ordered(B) /\ B.past[k] = p
  BY RootJoinExists
<1>2. /\ SameTree(A, B) /\ B.live = A.live /\ B.reg = A.reg
      /\ \A j \in A.reg : B.node[j] = A.node[j] /\ B.above[j] = A.above[j]
      /\ \A j \in A.reg : j # k => B.past[j] = A.past[j]
      /\ \A j \in A.live : /\ B.fin[j] = A.fin[j] /\ B.next[j] = A.next[j]
                           /\ B.root[j] = IF j = k THEN 0 ELSE A.root[j]
  BY <1>1 DEF RootJoined
<1>3. A.live \subseteq A.reg
  BY DEF Ordered, Paths
<1>4. k \in B.live /\ B.root[k] = 0 /\ \A m \in DOMAIN B.up : m < n
  BY <1>2 DEF SameTree
<1>5. PICK C : /\ TasksGoOn(B, C) /\ Ordered(C) /\ C.live = B.live /\ C.next[k] = n
               /\ \A j \in B.live : j # k => C.next[j] = B.next[j]
  BY <1>1, <1>4, NextGiven
<1>6. /\ SameTree(B, C) /\ C.reg = B.reg
      /\ \A j \in B.reg : C.node[j] = B.node[j] /\ C.above[j] = B.above[j] /\ C.past[j] = B.past[j]
      /\ \A j \in B.live : C.fin[j] = B.fin[j] /\ C.root[j] = B.root[j]
  BY <1>5 DEF TasksGoOn, SameFrames
<1>7. SameTree(A, C)
  BY <1>2, <1>6 DEF SameTree
<1>8. \A j \in A.live : j # k => SameSlot(A, C, j)
  BY <1>2, <1>3, <1>5, <1>6 DEF SameSlot
<1>9. /\ C.node[k] = A.node[k] /\ C.fin[k] = A.fin[k] /\ C.root[k] = 0 /\ C.next[k] = n
  BY <1>2, <1>3, <1>5, <1>6
<1>10. \A j \in A.reg : C.above[j] = A.above[j] /\ C.past[j] = IF j = k THEN p ELSE A.past[j]
  BY <1>1, <1>2, <1>6
<1>11. Joined(A, C, k, p, A.fin[k], n)
  BY <1>2, <1>5, <1>6, <1>7, <1>8, <1>9, <1>10 DEF Joined
<1>12. QED  BY <1>5, <1>11

\* wait_for_all changes the nodes of its own task only.
LEMMA WaitOnlyTouchesAbove ==
    ASSUME TypeOK, NodeOwnership, SInv, NEW t \in Threads, frames[t] # <<>>,
           NEW f, f = TopFrame(t), f.young # "none", CaptureWaitOnly(t),
           NEW low, low = cur_dpst_index[t][f.base + 1]
    PROVE  /\ TouchesAbove(t, f.base) /\ temp_cur_map' = temp_cur_map
           /\ cur_dpst_index'[t][f.base + 1] = low
           /\ nodes'[low].child_id = last_allocated_node
<1>1. PICK h, stack, next : h = f.base /\ stack = cur_dpst_index[t] /\ next = cur_dpst_index'[t]
  OBVIOUS
<1>2. /\ h \in Nat /\ stack \in Seq(Nat) /\ Len(stack) = h + Height(f) /\ Placed(f, stack)
  BY <1>1, TopIsStacked DEF TypeOK, GraphTypeOK
<1>3. Height(f) = 2 /\ Len(stack) = h + 2 /\ Len(stack) - 1 = h + 1
  BY <1>2 DEF Height
<1>4. /\ Top(t) = stack[h + 2] /\ stack[Len(stack) - 1] = low /\ low = stack[h + 1] /\ PlainNode(low)
  BY <1>1, <1>2, <1>3 DEF Top, Placed
<1>5. PICK id, rest : id = last_allocated_node /\ rest = Erase(nodes, Top(t))
  OBVIOUS
<1>6. /\ cur_dpst_index' = [cur_dpst_index EXCEPT ![t] = Popped(@)]
      /\ nodes' = [rest EXCEPT ![low].child_id = id]
      /\ temp_cur_map' = temp_cur_map
  BY <1>1, <1>4, <1>5 DEF CaptureWaitOnly
<1>7. next = Popped(stack) /\ \A u \in Threads \ {t} : cur_dpst_index'[u] = cur_dpst_index[u]
  BY <1>1, <1>6 DEF TypeOK, GraphTypeOK
<1>8. Len(next) = h + 1 /\ \A i \in 1 .. h + 1 : next[i] = stack[i]
  <2>1. stack # <<>>
    BY <1>2, <1>3
  <2>2. Len(Popped(stack)) = Len(stack) - 1 /\ \A i \in 1 .. Len(stack) - 1 : Popped(stack)[i] = stack[i]
    BY <1>2, <2>1, PoppedStack
  <2>3. QED  BY <1>3, <1>7, <2>2
<1>9. low # stack[h + 2]
  <2>1. h + 1 \in DOMAIN stack /\ h + 2 \in DOMAIN stack /\ h + 1 # h + 2
    BY <1>2, <1>3
  <2>2. QED  BY <1>1, <1>4, <2>1 DEF NodeOwnership, OneOwner
<1>10. /\ DOMAIN rest = DOMAIN nodes \ {stack[h + 2]}
       /\ \A n \in DOMAIN rest : rest[n] = nodes[n]
  BY <1>4, <1>5 DEF Erase
<1>11. \A n \in DOMAIN nodes : n # low /\ n # stack[h + 2] => Kept(n)
  BY <1>6, <1>10 DEF Kept
<1>12. TouchesAbove(t, h)
  <2>1. /\ h + 1 \in h + 1 .. Len(stack) /\ h + 2 \in h + 1 .. Len(stack) /\ h <= Len(next)
        /\ \A i \in 1 .. h : i \in 1 .. h + 1
    BY <1>2, <1>3, <1>8
  <2>2. QED  BY <1>1, <1>4, <1>7, <1>8, <1>11, <2>1 DEF TouchesAbove
<1>13. nodes'[low].child_id = id
  <2>1. low \in DOMAIN nodes /\ nodes[low] \in AFTask
    BY <1>4 DEF PlainNode, TypeOK, GraphTypeOK
  <2>2. low \in DOMAIN rest /\ rest[low] = nodes[low]
    BY <1>9, <1>10, <2>1
  <2>3. nodes'[low] = [nodes[low] EXCEPT !.child_id = id]
    BY <1>6, <2>2
  <2>4. QED  BY <2>1, <2>3 DEF AFTask
<1>14. next[h + 1] = low
  BY <1>2, <1>4, <1>8
<1>15. QED  BY <1>1, <1>5, <1>6, <1>12, <1>13, <1>14

\* The tasks known with task k above them are its descendants.
LEMMA BelowTask ==
    ASSUME CollectionAssumption, IInv, JInv, NEW A, Linked(A), NEW k
    PROVE  /\ \A d \in A.reg : k \in A.above[d] <=> d \in Descendants(k)
           /\ \A d \in ended : /\ d \in A.reg /\ d \notin A.live /\ d # 0
                               /\ A.past[d] = past[d] /\ A.above[d] = above[d]
<1>1. /\ A.live = Live /\ A.reg = Live \cup ended
      /\ \A d \in A.reg : A.past[d] = past[d] /\ A.above[d] = above[d]
  BY DEF Linked, TasksOf
<1>2. ASSUME NEW d \in A.reg
      PROVE  k \in A.above[d] <=> d \in Descendants(k)
  <2>1. d \in 0 .. task_id_ctr /\ task_id_ctr \in Nat
    BY RegHasId
  <2>2. above[0] = {}
    BY DEF JInv, Descent, MainTask
  <2>3. CASE d = 0
    BY <1>1, <2>2, <2>3 DEF Descendants
  <2>4. CASE d # 0
    <3>1. d \in 1 .. task_id_ctr
      BY <2>1, <2>4
    <3>2. QED  BY <1>1, <3>1 DEF Descendants
  <2>5. QED  BY <2>3, <2>4
<1>3. ASSUME NEW d \in ended
      PROVE  d \notin Live /\ d # 0
  <2>1. d \in (1 .. task_id_ctr) \ DOMAIN temp_cur_map
    BY DEF JInv, TasksPlaced, EndedApart
  <2>2. ~OnFrame(d)
    BY DEF JInv, TasksPlaced, FramesCurrent, OnFrame
  <2>3. QED  BY <2>1, <2>2 DEF Live
<1>4. QED  BY <1>1, <1>2, <1>3

\* The past of the task after the join, and the rest of what it changes.
LEMMA JoinsPast ==
    ASSUME CollectionAssumption, IInv, JInv, LInv, SInv, NEW A, Linked(A), Ordered(A),
           NEW t \in Threads, At(t, "wait"), Awaited(t) \subseteq ended,
           NEW f, f = TopFrame(t), NEW k, k = f.task,
           NEW p, p = past[k] \cup UNION {past[d] : d \in Awaited(t)},
           f.op # "root" => f.young # "none"
    PROVE  \E B : /\ Ordered(B)
                  /\ Joined(A, B, k, p, IF f.op = "root" THEN A.fin[k] ELSE 0, last_allocated_node)
<1>1. frames[t] # <<>> /\ f.at = "wait"
  BY DEF At
<1>2. PICK n \in Nat : n = last_allocated_node
  BY BelowCounter
<1>3. \A m \in DOMAIN A.up : m < n
  BY <1>2, BelowCounter
<1>4. /\ k \in A.live /\ (A.fin[k] = 0 <=> f.young = "none")
      /\ A.root[k] = IF f.op = "root" THEN f.kid ELSE 0
  <2>1. InRootCall(f) <=> f.op = "root"
    BY <1>1 DEF InRootCall
  <2>2. QED  BY <1>1, <2>1, TopSlot
<1>5. k \in A.reg /\ A.past[k] = past[k]
  BY <1>4 DEF Linked, TasksOf
<1>6. \A d \in ended : /\ d \in A.reg /\ d \notin A.live /\ d # 0
                       /\ A.past[d] = past[d] /\ A.above[d] = above[d]
  BY BelowTask
<1>7. PICK W : W = Awaited(t)
  OBVIOUS
<1>8. /\ \A d \in W : d \in ended
      /\ \A s : s \in p <=> s \in A.past[k] \/ \E d \in W : s \in A.past[d]
  BY <1>5, <1>6, <1>7
<1>9. CASE f.op = "root"
  <2>1. PICK r : r = f.kid
    OBVIOUS
  <2>2. W = Descendants(r) \cup {r} /\ A.root[k] = r
    BY <1>4, <1>7, <1>9, <2>1 DEF Awaited
  <2>3. r \in ended /\ r # 0 /\ r \in A.reg
    BY <1>6, <1>8, <2>2
  <2>4. \A d : d \in W <=> d \in A.reg /\ InScope(A, r, d)
    <3>1. \A d \in A.reg : r \in A.above[d] <=> d \in Descendants(r)
      BY BelowTask
    <3>2. \A d \in W : d \in A.reg
      BY <1>6, <1>8
    <3>3. QED  BY <2>2, <3>1, <3>2 DEF InScope
  <2>5. \A d \in A.reg : InScope(A, A.root[k], d) => d \notin A.live
    BY <1>6, <1>8, <2>2, <2>4
  <2>6. \A s : s \in p <=>
            s \in A.past[k] \/ \E d \in A.reg : InScope(A, A.root[k], d) /\ s \in A.past[d]
    BY <1>8, <2>2, <2>4
  <2>7. A.root[k] # 0
    BY <2>2, <2>3
  <2>8. \E B : Ordered(B) /\ Joined(A, B, k, p, A.fin[k], n)
    BY <1>3, <1>4, <2>5, <2>6, <2>7, RootJoins
  <2>9. QED  BY <1>2, <1>9, <2>8
<1>10. CASE f.op # "root"
  <2>1. W = Descendants(k) /\ A.root[k] = 0 /\ A.fin[k] # 0
    BY <1>4, <1>7, <1>10 DEF Awaited
  <2>2. \A d : d \in W <=> d \in A.reg /\ k \in A.above[d]
    <3>1. \A d \in A.reg : k \in A.above[d] <=> d \in Descendants(k)
      BY BelowTask
    <3>2. \A d \in W : d \in A.reg
      BY <1>6, <1>8
    <3>3. QED  BY <2>1, <3>1, <3>2
  <2>3. \A d \in A.reg : k \in A.above[d] => d \notin A.live
    BY <1>6, <1>8, <2>2
  <2>4. \A s : s \in p <=> s \in A.past[k] \/ \E d \in A.reg : k \in A.above[d] /\ s \in A.past[d]
    BY <1>8, <2>2
  <2>5. \E B : Ordered(B) /\ Joined(A, B, k, p, 0, n)
    BY <1>3, <1>4, <2>1, <2>3, <2>4, KidsJoin
  <2>6. QED  BY <1>2, <1>10, <2>5
<1>11. QED  BY <1>9, <1>10

LEMMA JoinOrders ==
    ASSUME CollectionAssumption, IInv, IInv', JInv, LInv, SInv, OInv, NEW t \in Threads, Join(t)
    PROVE  OInv'
<1>0. TypeOK /\ TypeOK' /\ NodeOwnership /\ AllJoined
  BY DEF IInv, JInv
<1>1. PICK A : Linked(A) /\ Ordered(A)
  BY DEF OInv
<1> DEFINE h == TopFrame(t)
           young == IF h.op = "root" THEN h.young ELSE "none"
<1>2. PICK f, g, k : /\ f = h /\ k = h.task
                     /\ g = [h EXCEPT !.at = "run", !.op = "none", !.kid = h.task, !.young = young]
  OBVIOUS
<1>3. PICK p : p = past[k] \cup UNION {past[d] : d \in Awaited(t)}
  OBVIOUS
<1>4. /\ At(t, "wait") /\ frames[t] # <<>> /\ f.at = "wait" /\ SetTop(t, g)
      /\ Awaited(t) \subseteq ended
      /\ IF f.op = "root" THEN CaptureWait(t) ELSE CaptureWaitOnly(t)
      /\ past' = [past EXCEPT ![k] = p]
      /\ UNCHANGED <<report, task_id_ctr, finished, above, ended, before>>
  BY <1>2, <1>3 DEF Join, At
<1>5. ~finished
  <2>1. ~At(t, "run")
    BY <1>2, <1>4 DEF At
  <2>2. QED  BY <1>0, <1>4, <2>1, NotFinished
<1>6. f \in Frame
  BY <1>0, <1>2, <1>4, TopFrameTyped
<1>7. /\ g \in Frame /\ g.at = "run" /\ g.op = "none" /\ g.base = f.base /\ g.task = k
      /\ g.young = IF f.op = "root" THEN f.young ELSE "none"
  BY <1>2, <1>6 DEF Frame
<1>8. f.op # "root" => f.young # "none"
  <2>1. Habits(f)
    BY <1>0, <1>2, <1>4, TopIsStacked
  <2>2. QED  BY <1>4, <2>1 DEF Habits
<1>9. PICK n, fin : n = last_allocated_node /\ fin = IF f.op = "root" THEN A.fin[k] ELSE 0
  OBVIOUS
<1>10. PICK B : Ordered(B) /\ Joined(A, B, k, p, fin, n)
  <2>1. \E B : /\ Ordered(B)
               /\ Joined(A, B, k, p, IF f.op = "root" THEN A.fin[k] ELSE 0, last_allocated_node)
    BY <1>1, <1>2, <1>3, <1>4, <1>8, JoinsPast
  <2>2. QED  BY <1>9, <2>1
<1>11. /\ B.live = A.live /\ B.reg = A.reg /\ SameTree(A, B)
       /\ \A j \in A.reg : B.above[j] = A.above[j] /\ B.past[j] = IF j = k THEN p ELSE A.past[j]
       /\ \A j \in A.live : j # k => SameSlot(A, B, j)
       /\ B.node[k] = A.node[k] /\ B.fin[k] = fin /\ B.root[k] = 0 /\ B.next[k] = n
  BY <1>10 DEF Joined
<1>12. PICK s : s = cur_dpst_index[t]
  OBVIOUS
<1>13. /\ SlotOf(A, f, s, nodes, finished) /\ Len(s) = f.base + Height(f) /\ f.base \in Nat
       /\ Top(t) = s[f.base + Height(f)]
  <2>1. SlotOf(A, f, s, nodes, finished) /\ Len(s) = f.base + Height(f) /\ f.base \in Nat
    BY <1>1, <1>2, <1>4, <1>12, TopSlot
  <2>2. QED  BY <1>12, <2>1 DEF Top
<1>14. /\ A.node[k] = s[f.base + 1]
       /\ A.fin[k] = IF f.young = "none" THEN 0 ELSE s[f.base + 2]
  BY <1>2, <1>13 DEF SlotOf
<1>15. Stepping(g, finished') /\ ~InRootCall(g)
  BY <1>4, <1>5, <1>7 DEF Stepping, InRootCall
<1>16. /\ TouchesAbove(t, f.base) /\ temp_cur_map' = temp_cur_map
       /\ SlotOf(B, g, cur_dpst_index'[t], nodes', finished')
  <2>1. CASE f.op = "root"
    <3>1. CaptureWait(t)
      BY <1>4, <2>1
    <3>2. PICK y : y = nodes[Top(t)].young_ns_child
      OBVIOUS
    <3>3. cur_dpst_index' = cur_dpst_index /\ Marked(t, y)
      <4>1. cur_dpst_index' = cur_dpst_index /\ Marked(t, nodes[Top(t)].young_ns_child)
        BY <1>0, <3>1, WaitMarks
      <4>2. QED  BY <3>2, <4>1 DEF Marked
    <3>4. TouchesAbove(t, TopFrame(t).base)
      BY <1>0, <1>4, <3>3, MarkTouchesAbove
    <3>5. nodes'[Top(t)].child_id = n /\ temp_cur_map' = temp_cur_map
      <4>1. Top(t) \in DOMAIN nodes /\ nodes[Top(t)] \in AFTask
        BY <1>0, <3>1, TopAllocated DEF TypeOK, NodeOwnership, CaptureWait
      <4>2. QED  BY <1>9, <3>1, <4>1 DEF CaptureWait, AFTask
    <3>6. Height(g) = Height(f) /\ g.young = f.young /\ cur_dpst_index'[t] = s /\ fin = A.fin[k]
      BY <1>7, <1>9, <1>12, <2>1, <3>3 DEF Height
    <3>7. SlotOf(B, g, s, nodes', finished')
      BY <1>7, <1>11, <1>13, <1>14, <1>15, <3>5, <3>6 DEF SlotOf
    <3>8. QED  BY <1>2, <3>4, <3>5, <3>6, <3>7
  <2>2. CASE f.op # "root"
    <3>1. CaptureWaitOnly(t) /\ f.young # "none" /\ g.young = "none" /\ fin = 0
      BY <1>4, <1>7, <1>8, <1>9, <2>2
    <3>2. PICK low, r : low = s[f.base + 1] /\ r = cur_dpst_index'[t]
      OBVIOUS
    <3>3. /\ TouchesAbove(t, f.base) /\ temp_cur_map' = temp_cur_map
          /\ r[f.base + 1] = low /\ nodes'[low].child_id = n
      <4>1. low = cur_dpst_index[t][f.base + 1]
        BY <1>12, <3>2
      <4>2. /\ TouchesAbove(t, f.base) /\ temp_cur_map' = temp_cur_map
            /\ cur_dpst_index'[t][f.base + 1] = low
            /\ nodes'[low].child_id = last_allocated_node
        BY <1>0, <1>2, <1>4, <3>1, <4>1, WaitOnlyTouchesAbove
      <4>3. QED  BY <1>9, <3>2, <4>2
    <3>4. Height(g) = 1
      BY <3>1 DEF Height
    <3>5. SlotOf(B, g, r, nodes', finished')
      BY <1>7, <1>11, <1>14, <1>15, <3>1, <3>2, <3>3, <3>4 DEF SlotOf
    <3>6. QED  BY <3>2, <3>3, <3>5
  <2>3. QED  BY <2>1, <2>2
<1>17. FramesOf(B, frames', cur_dpst_index', nodes', finished') /\ MapOf(B, temp_cur_map', nodes')
  <2>1. \A j \in DOMAIN temp_cur_map' : j \in DOMAIN temp_cur_map /\ temp_cur_map'[j] = temp_cur_map[j]
    BY <1>16
  <2>2. k = TopFrame(t).task /\ TouchesAbove(t, TopFrame(t).base) /\ finished' = finished
    BY <1>2, <1>4, <1>16
  <2>3. QED  BY <1>1, <1>4, <1>7, <1>11, <1>16, <2>1, <2>2, TopLinked
<1>18. TasksOf(B, Live', ended', past', above')
  <2>1. Live' = Live
    <3>1. g.task = TopFrame(t).task /\ DOMAIN temp_cur_map' = DOMAIN temp_cur_map
      BY <1>2, <1>7, <1>16
    <3>2. SameTasks
      BY <1>0, <1>4, <1>7, <3>1, TopSetKeepsTasks
    <3>3. QED  BY <3>1, <3>2, LiveStays
  <2>2. /\ A.live = Live /\ A.reg = Live \cup ended
        /\ \A j \in A.reg : A.past[j] = past[j] /\ A.above[j] = above[j]
    BY <1>1 DEF Linked, TasksOf
  <2>3. past \in [Tasks -> SUBSET Nat] /\ \A j \in A.reg : j \in Tasks
    BY <1>0, <1>1, RegHasId DEF TypeOK
  <2>4. \A j \in A.reg : past'[j] = IF j = k THEN p ELSE past[j]
    BY <1>4, <2>3
  <2>5. \A j \in A.reg : B.past[j] = past'[j] /\ B.above[j] = above'[j]
    BY <1>4, <1>11, <2>2, <2>4
  <2>6. QED  BY <1>4, <1>11, <2>1, <2>2, <2>5 DEF TasksOf
<1>19. TreeOf(B, Entries') /\ StepsOf(B, before')
  <2>1. Entries' = Entries /\ before' = before
    BY <1>4 DEF Entries, Logged
  <2>2. QED  BY <1>1, <1>11, <2>1 DEF Linked, TreeOf, StepsOf, SameTree
<1>20. Linked(B)'
  BY <1>17, <1>18, <1>19 DEF Linked
<1>21. QED  BY <1>10, <1>20 DEF OInv

(******************************************************************************)
(* A spawn returns; a task begins                                             *)
(******************************************************************************)

\* Frame f goes on as g, in the same call or past a point that no node tells of.
GoesOn(f, g) ==
    /\ g.task = f.task /\ g.base = f.base /\ g.young = f.young
    /\ InRootCall(g) <=> InRootCall(f)
    /\ InRootCall(f) => g.kid = f.kid
    /\ Stepping(g, finished) <=> Stepping(f, finished)

LEMMA SpawnExitOrders ==
    ASSUME CollectionAssumption, IInv, IInv', JInv, LInv, SInv, OInv, NEW t \in Threads, SpawnExit(t)
    PROVE  OInv'
<1>0. TypeOK /\ NodeOwnership /\ AllJoined
  BY DEF IInv, JInv
<1>1. PICK A : Linked(A) /\ Ordered(A)
  BY DEF OInv
<1>2. PICK f, g : f = TopFrame(t) /\ g = [f EXCEPT !.at = "run", !.op = "none", !.kid = f.task]
  OBVIOUS
<1>3. /\ At(t, "captured") /\ frames[t] # <<>> /\ f.at = "captured" /\ f.op = "spawn" /\ SetTop(t, g)
      /\ UNCHANGED <<nodes, cur_dpst_index, temp_cur_map, report, finished, above, ended, past, before>>
  BY <1>2 DEF SpawnExit, At, graph, program
<1>4. f \in Frame
  BY <1>0, <1>2, <1>3, TopFrameTyped
<1>5. /\ g \in Frame /\ g.at = "run" /\ g.op = "none"
      /\ g.task = f.task /\ g.base = f.base /\ g.young = f.young
  BY <1>2, <1>4 DEF Frame
<1>6. ~finished
  <2>1. ~At(t, "run")
    BY <1>2, <1>3 DEF At
  <2>2. QED  BY <1>0, <1>3, <2>1, NotFinished
<1>7. PICK s : s = cur_dpst_index[t]
  OBVIOUS
<1>8. SlotOf(A, f, s, nodes, finished) /\ f.base \in Nat
  BY <1>1, <1>2, <1>3, <1>7, TopSlot
<1>9. SlotOf(A, g, s, nodes', finished')
  <2>1. SameSlot(A, A, f.task)
    BY DEF SameSlot
  <2>2. ~InRootCall(g) /\ ~InRootCall(f)
    BY <1>3, <1>5 DEF InRootCall
  <2>3. Stepping(g, finished') /\ Stepping(f, finished)
    BY <1>3, <1>5, <1>6 DEF Stepping
  <2>4. \A i \in 1 .. f.base + Height(f) : s[i] = s[i] /\ nodes'[s[i]] = nodes[s[i]]
    BY <1>3
  <2>5. QED  BY <1>5, <1>8, <2>1, <2>2, <2>3, <2>4, SlotStays
<1>10. FramesOf(A, frames', cur_dpst_index', nodes', finished') /\ MapOf(A, temp_cur_map', nodes')
  <2>1. TouchesAbove(t, TopFrame(t).base)
    BY <1>3, GraphUntouchedAbove
  <2>2. \A j \in A.live : j # f.task => SameSlot(A, A, j)
    BY DEF SameSlot
  <2>3. \A j \in DOMAIN temp_cur_map' : j \in DOMAIN temp_cur_map /\ temp_cur_map'[j] = temp_cur_map[j]
    BY <1>3
  <2>4. SlotOf(A, g, cur_dpst_index'[t], nodes', finished')
    BY <1>3, <1>7, <1>9
  <2>5. PICK k : k = TopFrame(t).task
    OBVIOUS
  <2>6. \A j \in A.live : j # k => SameSlot(A, A, j)
    BY <1>2, <2>2, <2>5
  <2>7. finished' = finished
    BY <1>3
  <2>8. QED  BY <1>1, <1>3, <1>5, <2>1, <2>3, <2>4, <2>5, <2>6, <2>7, TopLinked
<1>11. TasksOf(A, Live', ended', past', above')
  <2>1. g.task = TopFrame(t).task /\ DOMAIN temp_cur_map' = DOMAIN temp_cur_map
    BY <1>2, <1>3, <1>5
  <2>2. SameTasks
    BY <1>0, <1>3, <1>5, <2>1, TopSetKeepsTasks
  <2>3. Live' = Live
    BY <2>1, <2>2, LiveStays
  <2>4. QED  BY <1>1, <1>3, <2>3 DEF Linked, TasksOf
<1>12. TreeOf(A, Entries') /\ StepsOf(A, before')
  BY <1>1, <1>3 DEF Linked, Entries, Logged
<1>13. Linked(A)'
  BY <1>10, <1>11, <1>12 DEF Linked
<1>14. QED  BY <1>1, <1>13 DEF OInv

\* A task begins on thread t, whose other frames are s.
LEMMA BeginOrders ==
    ASSUME CollectionAssumption, IInv, IInv', JInv, SInv, OInv, NEW t \in Threads, ~finished,
           NEW k \in DOMAIN temp_cur_map, k \in Tasks, NEW s \in Seq(Frame), Len(s) = Len(frames[t]),
           \A i \in 1 .. Len(s) : GoesOn(frames[t][i], s[i]),
           frames' = [frames EXCEPT ![t] = Append(s, NewFrame(k, Len(cur_dpst_index[t])))],
           Begin(t, k)
    PROVE  OInv'
<1>0. TypeOK /\ TypeOK' /\ NodeOwnership
  BY DEF IInv
<1>1. PICK A : Linked(A) /\ Ordered(A)
  BY DEF OInv
<1>2. PICK n, stack, next, new :
         n = Len(frames[t]) /\ stack = cur_dpst_index[t] /\ next = cur_dpst_index'[t]
         /\ new = temp_cur_map[k]
  OBVIOUS
<1>3. stack \in Seq(Nat) /\ Len(stack) \in Nat /\ n \in Nat
  BY <1>0, <1>2 DEF TypeOK, GraphTypeOK
<1>4. PICK g : g = NewFrame(k, Len(stack))
  OBVIOUS
<1>5. /\ g \in Frame /\ g.task = k /\ g.base = Len(stack) /\ g.young = "none" /\ g.at = "run" /\ g.op = "none"
  BY <1>3, <1>4 DEF NewFrame, Frame
<1>6. /\ \A u \in Threads \ {t} : frames'[u] = frames[u]
      /\ Len(frames'[t]) = n + 1 /\ frames'[t][n + 1] = g
      /\ \A i \in 1 .. n : frames'[t][i] = s[i]
  <2>1. /\ \A u \in Threads \ {t} : frames'[u] = frames[u]
        /\ TopFrame(t)' = g /\ Len(frames'[t]) = Len(s) + 1
        /\ \A i \in 1 .. Len(s) : frames'[t][i] = s[i]
    BY <1>0, <1>2, <1>4, <1>5, FramePushed, ZenonT(60)
  <2>2. QED  BY <1>2, <2>1 DEF TopFrame
<1>7. /\ nodes' = nodes /\ temp_cur_map' = Erase(temp_cur_map, k)
      /\ cur_dpst_index' = [cur_dpst_index EXCEPT ![t] = Append(@, new)]
      /\ UNCHANGED <<report, finished, above, ended, past, before>>
  BY <1>2 DEF Begin, CaptureExecute
<1>8. next = Append(stack, new) /\ \A u \in Threads \ {t} : cur_dpst_index'[u] = cur_dpst_index[u]
  BY <1>0, <1>2, <1>7 DEF TypeOK, GraphTypeOK
<1>9. /\ next[Len(stack) + 1] = new
      /\ \A i \in 1 .. Len(stack) : next[i] = stack[i]
  BY <1>3, <1>8
<1>10. \A u \in Threads : \A i \in 1 .. Len(cur_dpst_index[u]) : cur_dpst_index'[u][i] = cur_dpst_index[u][i]
  BY <1>2, <1>8, <1>9
<1>11. ASSUME NEW u \in Threads, NEW i \in 1 .. Len(frames[u]), NEW h, GoesOn(frames[u][i], h)
       PROVE  SlotOf(A, h, cur_dpst_index'[u], nodes', finished')
  <2>1. PICK f, p, r : f = frames[u][i] /\ p = cur_dpst_index[u] /\ r = cur_dpst_index'[u]
    OBVIOUS
  <2>2. /\ f \in Frame /\ f.base \in Nat
    <3>1. frames[u] \in Seq(Frame) /\ i \in DOMAIN frames[u]
      BY <1>0 DEF TypeOK
    <3>2. f \in Frame
      BY <2>1, <3>1
    <3>3. QED  BY <3>2 DEF Frame
  <2>3. f.base + Height(f) <= Len(p) /\ Len(p) \in Nat
    <3>1. Placed(f, p)
      BY <2>1 DEF SInv, Stacked
    <3>2. QED  BY <1>0, <2>1, <3>1 DEF Placed, TypeOK, GraphTypeOK
  <2>4. \A j \in 1 .. f.base + Height(f) : j \in 1 .. Len(p)
    <3>1. Height(f) \in {1, 2}
      BY HeightRange
    <3>2. QED  BY <2>2, <2>3, <3>1
  <2>5. \A j \in 1 .. f.base + Height(f) : r[j] = p[j] /\ nodes'[p[j]] = nodes[p[j]]
    BY <1>7, <1>10, <2>1, <2>4
  <2>6. /\ h.task = f.task /\ h.base = f.base /\ h.young = f.young
        /\ InRootCall(h) <=> InRootCall(f)
        /\ InRootCall(f) => h.kid = f.kid
    BY <1>11, <2>1 DEF GoesOn
  <2>7. Stepping(h, finished') <=> Stepping(f, finished)
    BY <1>7, <1>11, <2>1 DEF GoesOn
  <2>8. SlotOf(A, f, p, nodes, finished) /\ SameSlot(A, A, f.task)
    BY <1>1, <2>1 DEF Linked, FramesOf, SameSlot
  <2>9. SlotOf(A, h, r, nodes', finished')
    BY <2>2, <2>5, <2>6, <2>7, <2>8, SlotStays
  <2>10. QED  BY <2>1, <2>9
<1>12. SlotOf(A, g, next, nodes', finished')
  <2>1. A.node[k] = new /\ A.fin[k] = 0 /\ A.root[k] = 0 /\ A.next[k] = nodes[new].child_id
    BY <1>1, <1>2 DEF Linked, MapOf
  <2>2. Height(g) = 1 /\ ~InRootCall(g) /\ Stepping(g, finished')
    BY <1>5, <1>7 DEF Height, InRootCall, Stepping
  <2>3. next[g.base + 1] = new /\ next[g.base + Height(g)] = new /\ nodes'[new] = nodes[new]
    BY <1>5, <1>7, <1>9, <2>2
  <2>4. QED  BY <1>5, <2>1, <2>2, <2>3 DEF SlotOf
<1>13. FramesOf(A, frames', cur_dpst_index', nodes', finished')
  <2>1. ASSUME NEW u \in Threads \ {t}, NEW i \in 1 .. Len(frames'[u])
        PROVE  SlotOf(A, frames'[u][i], cur_dpst_index'[u], nodes', finished')
    <3>1. PICK h : h = frames'[u][i]
      OBVIOUS
    <3>2. i \in 1 .. Len(frames[u]) /\ GoesOn(frames[u][i], h)
      BY <1>6, <3>1 DEF GoesOn
    <3>3. QED  BY <1>11, <3>1, <3>2
  <2>2. ASSUME NEW i \in 1 .. n
        PROVE  SlotOf(A, frames'[t][i], cur_dpst_index'[t], nodes', finished')
    <3>1. PICK h : h = s[i]
      OBVIOUS
    <3>2. i \in 1 .. Len(frames[t]) /\ GoesOn(frames[t][i], h) /\ frames'[t][i] = h
      BY <1>2, <1>6, <3>1
    <3>3. QED  BY <1>11, <3>2
  <2>3. \A i \in 1 .. Len(frames'[t]) : i \in 1 .. n \/ i = n + 1
    BY <1>3, <1>6
  <2>4. SlotOf(A, frames'[t][n + 1], cur_dpst_index'[t], nodes', finished')
    BY <1>2, <1>6, <1>12
  <2>5. \A i \in 1 .. Len(frames'[t]) : SlotOf(A, frames'[t][i], cur_dpst_index'[t], nodes', finished')
    BY <2>2, <2>3, <2>4
  <2>6. QED  BY <2>1, <2>5 DEF FramesOf
<1>14. /\ DOMAIN temp_cur_map' = DOMAIN temp_cur_map \ {k}
       /\ \A j \in DOMAIN temp_cur_map \ {k} : temp_cur_map'[j] = temp_cur_map[j]
  BY <1>7, Erased
<1>15. MapOf(A, temp_cur_map', nodes')
  BY <1>1, <1>7, <1>14 DEF Linked, MapOf
<1>16. Live' = Live
  <2>1. \A i \in 1 .. Len(s) : s[i].task = frames[t][i].task
    BY DEF GoesOn
  <2>2. \A j : OnFrame(j)' <=> OnFrame(j) \/ j = k
    BY <1>0, <2>1, OnFrameAfterPush
  <2>3. \A j : j \in Live' <=> j \in Live
    BY <1>14, <2>2 DEF Live
  <2>4. QED  BY <2>3
<1>17. TasksOf(A, Live', ended', past', above')
  BY <1>1, <1>7, <1>16 DEF Linked, TasksOf
<1>18. TreeOf(A, Entries') /\ StepsOf(A, before')
  BY <1>1, <1>7 DEF Linked, Entries, Logged
<1>19. Linked(A)'
  BY <1>13, <1>15, <1>17, <1>18 DEF Linked
<1>20. QED  BY <1>1, <1>19 DEF OInv

LEMMA TakeTaskOrders ==
    ASSUME CollectionAssumption, IInv, IInv', JInv, SInv, OInv,
           NEW t \in Threads, NEW k \in Tasks, TakeTask(t, k)
    PROVE  OInv'
<1>1. /\ k \in DOMAIN temp_cur_map
      /\ frames' = [frames EXCEPT ![t] =
                      Append(frames[t], NewFrame(k, Len(cur_dpst_index[t])))]
      /\ Begin(t, k)
  BY DEF TakeTask, IInv, HandOver
<1>2. frames[t] \in Seq(Frame)
  BY DEF IInv, TypeOK
<1>3. \A i \in 1 .. Len(frames[t]) : GoesOn(frames[t][i], frames[t][i])
  BY DEF GoesOn
<1>4. ~finished
  BY <1>1, MapEmptyAfterFini DEF IInv
<1>5. QED  BY <1>1, <1>2, <1>3, <1>4, BeginOrders

LEMMA RunChildOrders ==
    ASSUME CollectionAssumption, IInv, IInv', JInv, SInv, OInv, NEW t \in Threads, RunChild(t)
    PROVE  OInv'
<1> DEFINE f == TopFrame(t)
           g == [f EXCEPT !.at = "wait"]
           s == WithTop(t, g)
<1>1. PICK k : k = f.kid
  OBVIOUS
<1>2. /\ frames[t] # <<>> /\ f.at = "captured" /\ f.op \in {"root", "both"}
      /\ frames' = [frames EXCEPT ![t] = Append(s, NewFrame(k, Len(cur_dpst_index[t])))]
      /\ Begin(t, k) /\ At(t, "captured")
  <2>1. Begin(t, k)
    BY <1>1 DEF RunChild, Begin, CaptureExecute
  <2>2. QED  BY <1>1, <2>1 DEF RunChild, At
<1>3. k \in DOMAIN temp_cur_map /\ k \in Tasks
  BY <1>1, <1>2 DEF IInv, HandOver, TypeOK
<1>4. /\ f \in Frame /\ frames[t] \in Seq(Frame)
      /\ Len(frames[t]) \in Nat \ {0} /\ DOMAIN frames[t] = 1 .. Len(frames[t])
  BY <1>2, TopFrameTyped DEF IInv
<1>5. /\ g \in Frame /\ g.at = "wait" /\ g.op = f.op /\ g.young = f.young /\ g.kid = f.kid
      /\ g.base = f.base /\ g.task = f.task
  BY <1>4 DEF Frame
<1> HIDE DEF g
<1>6. /\ s \in Seq(Frame) /\ Len(s) = Len(frames[t])
      /\ s[Len(frames[t])] = g
      /\ \A i \in 1 .. Len(frames[t]) - 1 : s[i] = frames[t][i]
  BY <1>4, <1>5, ExceptSeq DEF WithTop
<1> HIDE DEF s
<1>7. \A i \in 1 .. Len(s) : i = Len(frames[t]) \/ i \in 1 .. Len(frames[t]) - 1
  BY <1>4, <1>6
<1>8. GoesOn(f, g)
  <2>1. InRootCall(g) <=> InRootCall(f)
    BY <1>2, <1>5 DEF InRootCall
  <2>2. ~Stepping(g, finished) /\ ~Stepping(f, finished)
    BY <1>2, <1>5 DEF Stepping
  <2>3. QED  BY <1>5, <2>1, <2>2 DEF GoesOn
<1>9. \A i \in 1 .. Len(s) : GoesOn(frames[t][i], s[i])
  <2>1. \A i \in 1 .. Len(frames[t]) - 1 : GoesOn(frames[t][i], s[i])
    BY <1>6 DEF GoesOn
  <2>2. GoesOn(frames[t][Len(frames[t])], s[Len(frames[t])])
    BY <1>6, <1>8 DEF TopFrame
  <2>3. QED  BY <1>7, <2>1, <2>2
<1>10. ~finished
  BY <1>3, MapEmptyAfterFini DEF IInv
<1>11. QED  BY <1>2, <1>3, <1>6, <1>9, <1>10, BeginOrders

(******************************************************************************)
(* The invariant                                                              *)
(******************************************************************************)

\* The head of the tree is main's node, and its first step is to be the second.
LEMMA StartOrdered ==
    ASSUME NEW A, A.up = [n \in {1} |-> {1}], A.asy = {}, A.steps = {}, A.reg = {0}, A.live = {0},
           A.node[0] = 1, A.fin[0] = 0, A.root[0] = 0, A.next[0] = 2,
           A.past[0] = {}, A.above[0] = {}
    PROVE  Ordered(A)
<1>1. DOMAIN A.up = {1} /\ A.up[1] = {1}
  OBVIOUS
<1>2. PathsUp(A.up)
  BY <1>1 DEF PathsUp
<1>3. Paths(A)
  BY <1>1, <1>2 DEF Paths
<1>4. Pos(A, 0) = 1
  BY DEF Pos
<1>5. Finishes(A) /\ Roots(A) /\ Ancestors(A) /\ Owned(A)
  BY DEF Finishes, Roots, Ancestors, Owned
<1>6. Settled(A)
  BY <1>1, <1>4 DEF Settled
<1>7. NextIsLast(A)
  <2>1. LastIn(A.up, 1, 2)
    BY <1>1 DEF LastIn
  <2>2. QED  BY <1>4, <2>1 DEF NextIsLast
<1>8. Pasts(A) /\ Serial(A) /\ Parallel(A) /\ Recorded(A)
  BY DEF Pasts, Serial, Parallel, Recorded
<1>9. RootPasts(A) /\ KidPasts(A) /\ KidsInside(A)
  BY DEF RootPasts, KidPasts, KidsInside
<1>10. QED  BY <1>3, <1>5, <1>6, <1>7, <1>8, <1>9 DEF Ordered

LEMMA InitOrders ==
    ASSUME CollectionAssumption, MainAssumption, Init
    PROVE  OInv
<1> DEFINE m == NewFrame(MainTask, 0)
<1>1. /\ frames = [t \in Threads |-> IF t = Main THEN <<m>> ELSE <<>>] /\ Main \in Threads
      /\ cur_dpst_index = [t \in Threads |-> IF t = Main THEN <<1>> ELSE <<>>]
      /\ DOMAIN temp_cur_map = {} /\ DOMAIN nodes = {1} /\ nodes[1].child_id = 2
      /\ report = [t \in Threads |-> IF t = Main THEN <<Entry(1, 0, FINISH, 0)>> ELSE <<>>]
      /\ ~finished /\ ended = {} /\ DOMAIN before = {}
      /\ past[0] = {} /\ above[0] = {} /\ 0 \in Tasks
  BY DEF Init, GraphInit, Threads, Tasks, MainTask, CollectionAssumption
<1>2. m.at = "run" /\ m.op = "none" /\ m.base = 0 /\ m.young = "none" /\ m.task = 0
  BY DEF NewFrame, MainTask
<1> HIDE DEF m
<1>3. PICK A : A = [ up |-> [n \in {1} |-> {1}], asy |-> {}, steps |-> {}, own |-> [s \in {} |-> 0],
                     before |-> [s \in {} |-> {}], past |-> [k \in {0} |-> {}], above |-> [k \in {0} |-> {}],
                     reg |-> {0}, live |-> {0}, node |-> [k \in {0} |-> 1], fin |-> [k \in {0} |-> 0],
                     root |-> [k \in {0} |-> 0], next |-> [k \in {0} |-> 2] ]
  OBVIOUS
<1>4. /\ A.up = [n \in {1} |-> {1}] /\ A.asy = {} /\ A.steps = {} /\ A.reg = {0} /\ A.live = {0}
      /\ A.node[0] = 1 /\ A.fin[0] = 0 /\ A.root[0] = 0 /\ A.next[0] = 2
      /\ A.past[0] = {} /\ A.above[0] = {}
  BY <1>3
<1>5. Ordered(A)
  BY <1>4, StartOrdered
<1>6. TreeOf(A, Entries)
  <2>1. PICK e : e = Entry(1, 0, FINISH, 0)
    OBVIOUS
  <2>2. e.node_id = 1 /\ e.step_parent = 0 /\ e.node_type # ASYNC
    BY <2>1 DEF Entry, FINISH, ASYNC
  <2>3. \A x : x \in Entries <=> x = e
    <3>1. report[Main] = <<e>> /\ \A t \in Threads \ {Main} : report[t] = <<>>
      BY <1>1, <2>1
    <3>2. /\ DOMAIN report[Main] = {1} /\ report[Main][1] = e
          /\ \A t \in Threads \ {Main} : DOMAIN report[t] = {}
      BY <3>1
    <3>3. /\ \A x : x \in Logged(Main) <=> x = e
          /\ \A t \in Threads \ {Main} : \A x : x \notin Logged(t)
      BY <3>2 DEF Logged
    <3>4. QED  BY <1>1, <3>3 DEF Entries
  <2>4. Entries = {e}
    BY <2>3
  <2>5. QED  BY <1>4, <2>2, <2>4 DEF TreeOf
<1>7. StepsOf(A, before)
  BY <1>1, <1>4 DEF StepsOf
<1>8. TasksOf(A, Live, ended, past, above)
  <2>1. \A k : OnFrame(k) <=> k = 0
    <3>1. frames[Main] = <<m>> /\ \A t \in Threads \ {Main} : frames[t] = <<>>
      BY <1>1
    <3>2. /\ DOMAIN frames[Main] = {1} /\ frames[Main][1].task = 0
          /\ \A t \in Threads \ {Main} : DOMAIN frames[t] = {}
      BY <1>2, <3>1
    <3>3. QED  BY <1>1, <3>2 DEF OnFrame
  <2>2. \A k : k \in Live <=> k = 0
    BY <1>1, <2>1 DEF Live
  <2>3. Live = {0}
    BY <2>2
  <2>4. QED  BY <1>1, <1>4, <2>3 DEF TasksOf
<1>9. FramesOf(A, frames, cur_dpst_index, nodes, finished)
  <2>1. ASSUME NEW u \in Threads, NEW i \in 1 .. Len(frames[u])
        PROVE  u = Main /\ frames[u][i] = m /\ cur_dpst_index[u] = <<1>>
    <3>1. u = Main
      BY <1>1
    <3>2. frames[u] = <<m>> /\ cur_dpst_index[u] = <<1>>
      BY <1>1, <3>1
    <3>3. i = 1
      BY <3>2
    <3>4. QED  BY <3>1, <3>2, <3>3
  <2>2. SlotOf(A, m, <<1>>, nodes, finished)
    <3>1. Height(m) = 1 /\ ~InRootCall(m) /\ Stepping(m, finished)
      BY <1>1, <1>2 DEF Height, InRootCall, Stepping
    <3>2. QED  BY <1>1, <1>2, <1>4, <3>1 DEF SlotOf
  <2>3. QED  BY <2>1, <2>2 DEF FramesOf
<1>10. MapOf(A, temp_cur_map, nodes)
  BY <1>1 DEF MapOf
<1>11. QED  BY <1>5, <1>6, <1>7, <1>8, <1>9, <1>10 DEF OInv, Linked

LEMMA OrdersStay ==
    ASSUME OInv, UNCHANGED vars
    PROVE  OInv'
<1>1. PICK A : Linked(A) /\ Ordered(A)
  BY DEF OInv
<1>2. /\ nodes' = nodes /\ cur_dpst_index' = cur_dpst_index /\ temp_cur_map' = temp_cur_map
      /\ report' = report /\ frames' = frames /\ finished' = finished
      /\ above' = above /\ ended' = ended /\ past' = past /\ before' = before
  BY DEF vars, graph, scheduler, program
<1>3. Entries' = Entries /\ Live' = Live
  BY <1>2 DEF Entries, Logged, Live, OnFrame
<1>4. Linked(A)'
  BY <1>1, <1>2, <1>3 DEF Linked
<1>5. QED  BY <1>1, <1>4 DEF OInv

LEMMA NextOrders ==
    ASSUME CollectionAssumption, IInv, IInv', JInv, JInv', LInv, SInv, OInv, [Next]_vars
    PROVE  OInv'
<1>1. ASSUME NEW t \in Threads, ThreadStep(t)
      PROVE  OInv'
  <2>1. ASSUME NEW op \in {"spawn", "root", "both"}, SpawnEntry(t, op)
        PROVE  OInv'
    BY <2>1, SpawnEntryOrders
  <2>2. CASE SpawnCapture(t)
    BY <2>2, SpawnCaptureOrders
  <2>3. CASE SpawnExit(t)
    BY <2>3, SpawnExitOrders
  <2>4. CASE WaitEntry(t)
    BY <2>4, WaitEntryOrders
  <2>5. CASE Join(t)
    BY <2>5, JoinOrders
  <2>6. ASSUME NEW k \in Tasks, TakeTask(t, k)
        PROVE  OInv'
    BY <2>6, TakeTaskOrders
  <2>7. CASE RunChild(t)
    BY <2>7, RunChildOrders
  <2>8. CASE ExecEnd(t)
    <3>1. frames[t] # <<>> /\ TopFrame(t).task # MainTask /\ TypeOK /\ TasksPlaced /\ MainJoins /\ AllJoined
      BY <2>8 DEF ExecEnd, At, IInv, JInv
    <3>2. ~finished
      <4>1. SUFFICES ASSUME finished
                     PROVE  FALSE
        OBVIOUS
      <4>2. t = Main /\ Len(frames[Main]) = 1
        BY <3>1, <4>1 DEF AllJoined
      <4>3. TopFrame(t) = frames[Main][1]
        BY <4>2 DEF TopFrame
      <4>4. frames[Main][1].task = MainTask
        BY <3>1, <4>2 DEF TasksPlaced, MainAtBottom
      <4>5. QED  BY <3>1, <4>3, <4>4
    <3>3. QED  BY <2>8, <3>2, ExecEndOrders
  <2>9. QED  BY <1>1, <2>1, <2>2, <2>3, <2>4, <2>5, <2>6, <2>7, <2>8 DEF ThreadStep
<1>2. CASE Fini
  BY <1>2, FiniOrders
<1>3. CASE UNCHANGED vars
  BY <1>3, OrdersStay
<1>4. QED  BY <1>1, <1>2, <1>3 DEF Next, Terminated

\* In every state the nodes logged so far have the steps so far in the order in
\* which the program did them, and the stacks of the threads and the map place
\* each task where its next nodes will be in that order too.
THEOREM OrderRecorded == ASSUME ~EmptyWaits, ~SpawnsAfterRoots PROVE Spec => []OInv
<1>1. Init => OInv
  BY InitOrders, CollectionAssumption, MainAssumption
<1>2. IInv /\ IInv' /\ JInv /\ JInv' /\ LInv /\ SInv /\ OInv /\ [Next]_vars => OInv'
  BY NextOrders, CollectionAssumption
<1>3. QED  BY <1>1, <1>2, Invariance, Placement, IdsAccountedFor, StacksKept, PTL DEF Spec

(******************************************************************************)
(* The tree that is left at the end                                           *)
(******************************************************************************)

LEMMA LeastExists ==
    ASSUME NEW S \in SUBSET Nat, S # {}
    PROVE  \E x \in S : \A y \in S : x <= y
<1> DEFINE R == OpToRel(<, Nat)
<1>1. PICK x \in S : \A y \in S : <<y, x>> \notin R
  <2>1. IsWellFoundedOn(R, Nat)
    BY NatLessThanWellFounded
  <2> HIDE DEF R
  <2>2. QED  BY <2>1, WFMin
<1>2. ASSUME NEW y \in S
      PROVE  x <= y
  <2>1. x \in Nat /\ y \in Nat
    OBVIOUS
  <2>2. ~(y < x)
    BY <1>1, <2>1 DEF R, OpToRel
  <2>3. QED  BY <2>1, <2>2
<1>3. QED  BY <1>2

\* f is the function that PathTo(tree, n) is defined by.
IsPathTo(f, tree, n) ==
    f = [m \in 0 .. n |-> IF m = 0 THEN {} ELSE f[EntryOf(tree, m).step_parent] \cup {m}]

LEMMA EntryFound ==
    ASSUME NEW A, NEW E, TreeOf(A, E), NEW m \in DOMAIN A.up
    PROVE  EntryOf(E, m) \in E /\ EntryOf(E, m).node_id = m
  BY DEF TreeOf, EntryOf

\* In a tree without gaps, PathTo is the path of A.
LEMMA PathIsUp ==
    ASSUME NEW A, NEW E, TreeOf(A, E), PathsUp(A.up), NEW last \in Nat, DOMAIN A.up = 1 .. last,
           \A e \in E : e.step_parent < e.node_id, NEW n \in DOMAIN A.up
    PROVE  PathTo(E, n) = A.up[n]
<1>1. ASSUME NEW m \in 1 .. n
      PROVE  /\ EntryOf(E, m).step_parent \in 0 .. n /\ EntryOf(E, m).step_parent < m
             /\ A.up[m] = (IF EntryOf(E, m).step_parent = 0 THEN {} ELSE A.up[EntryOf(E, m).step_parent])
                             \cup {m}
  <2>1. PICK e : e = EntryOf(E, m)
    OBVIOUS
  <2>2. m \in DOMAIN A.up /\ m \in Nat /\ n \in Nat
    OBVIOUS
  <2>3. e \in E /\ e.node_id = m
    BY <2>1, <2>2, EntryFound
  <2>4. /\ e.step_parent \in DOMAIN A.up \cup {0} /\ e.step_parent < m
        /\ A.up[m] = (IF e.step_parent = 0 THEN {} ELSE A.up[e.step_parent]) \cup {m}
    BY <2>3 DEF TreeOf
  <2>5. e.step_parent \in Nat
    BY <2>4
  <2>6. e.step_parent \in 0 .. n
    BY <2>2, <2>4, <2>5
  <2>7. QED  BY <2>1, <2>4, <2>6
<1>2. n \in Nat /\ \A m \in 0 .. n : m # 0 => m \in 1 .. n
  OBVIOUS
<1>3. \E f : IsPathTo(f, E, n)
  <2> DEFINE f == [m \in 0 .. n |-> IF m = 0 THEN {} ELSE A.up[m]]
  <2>1. \A m \in 0 .. n : f[m] = IF m = 0 THEN {} ELSE A.up[m]
    OBVIOUS
  <2>2. f = [m \in 0 .. n |-> f[m]]
    OBVIOUS
  <2> HIDE DEF f
  <2>3. \A m \in 0 .. n : f[m] = IF m = 0 THEN {} ELSE f[EntryOf(E, m).step_parent] \cup {m}
    BY <1>1, <1>2, <2>1
  <2>4. IsPathTo(f, E, n)
    BY <2>2, <2>3 DEF IsPathTo
  <2>5. QED  BY <2>4
<1>4. ASSUME NEW f, IsPathTo(f, E, n)
      PROVE  f[n] = A.up[n]
  <2>1. \A m \in 0 .. n : f[m] = IF m = 0 THEN {} ELSE f[EntryOf(E, m).step_parent] \cup {m}
    BY <1>4 DEF IsPathTo
  <2> DEFINE S == {m \in 1 .. n : f[m] # A.up[m]}
  <2>2. ASSUME S # {}
        PROVE  FALSE
    <3>1. S \in SUBSET Nat
      OBVIOUS
    <3> HIDE DEF S
    <3>2. PICK m \in S : \A y \in S : m <= y
      BY <2>2, <3>1, LeastExists
    <3>3. m \in 1 .. n /\ m \in 0 .. n /\ m # 0 /\ f[m] # A.up[m] /\ m \in Nat
      BY <3>2 DEF S
    <3>4. PICK p : p = EntryOf(E, m).step_parent
      OBVIOUS
    <3>5. /\ p \in 0 .. n /\ p < m
          /\ A.up[m] = (IF p = 0 THEN {} ELSE A.up[p]) \cup {m}
      BY <1>1, <3>3, <3>4
    <3>6. f[m] = f[p] \cup {m}
      BY <2>1, <3>3, <3>4
    <3>7. f[p] = IF p = 0 THEN {} ELSE A.up[p]
      <4>1. CASE p = 0
        BY <2>1, <3>5, <4>1
      <4>2. CASE p # 0
        <5>1. p \in 1 .. n /\ ~(m <= p)
          BY <3>3, <3>5, <4>2
        <5>2. p \notin S
          BY <3>2, <5>1
        <5>3. QED  BY <4>2, <5>1, <5>2 DEF S
      <4>3. QED  BY <4>1, <4>2
    <3>8. QED  BY <3>3, <3>5, <3>6, <3>7
  <2>3. n \in 1 .. n
    BY <1>2
  <2>4. QED  BY <2>2, <2>3
<1>5. PICK f : f = CHOOSE h : IsPathTo(h, E, n)
  OBVIOUS
<1>6. IsPathTo(f, E, n)
  BY <1>3, <1>5
<1>7. PathTo(E, n) = f[n]
  BY <1>5 DEF PathTo, IsPathTo
<1>8. QED  BY <1>4, <1>6, <1>7

\* What the analysis takes for parallel is what is apart.
LEMMA ParallelIsApart ==
    ASSUME NEW A, NEW E, TreeOf(A, E), PathsUp(A.up), NEW m \in DOMAIN A.up, NEW n \in DOMAIN A.up, m < n
    PROVE  MayRunInParallel(E, A.up[m], A.up[n]) <=> Apart(A.asy, A.up[m], A.up[n])
<1>1. PICK p, q : p = A.up[m] /\ q = A.up[n]
  OBVIOUS
<1>2. /\ p \subseteq DOMAIN A.up /\ q \subseteq DOMAIN A.up /\ DOMAIN A.up \subseteq Nat
      /\ n \in q /\ \A x \in p : x <= m
  BY <1>1 DEF PathsUp
<1>3. n \notin p
  <2>1. m \in Nat /\ n \in Nat /\ ~(n <= m)
    BY <1>2
  <2>2. QED  BY <1>2, <2>1
<1>4. PICK D : D = (p \cup q) \ (p \cap q)
  OBVIOUS
<1>5. D = Diff(p, q) /\ D \in SUBSET Nat /\ D # {} /\ D \subseteq DOMAIN A.up
  BY <1>2, <1>3, <1>4 DEF Diff
<1>6. \E x \in D : \A y \in D : x <= y
  BY <1>5, LeastExists
<1>7. PICK left : left = CHOOSE x \in D : \A y \in D : x <= y
  OBVIOUS
<1>8. left \in D /\ \A y \in D : left <= y
  BY <1>6, <1>7
<1>9. Apart(A.asy, p, q) <=> left \in A.asy
  <2>1. ASSUME NEW c \in D, \A y \in D : c <= y
        PROVE  c = left
    <3>1. c <= left /\ left <= c /\ c \in Nat /\ left \in Nat
      BY <1>5, <1>8, <2>1
    <3>2. QED  BY <3>1
  <2>2. QED  BY <1>5, <1>8, <2>1 DEF Apart
<1>10. MayRunInParallel(E, p, q) <=> EntryOf(E, left).node_type = ASYNC
  BY <1>4, <1>7 DEF MayRunInParallel
<1>11. left \in A.asy <=> EntryOf(E, left).node_type = ASYNC
  <2>1. left \in DOMAIN A.up
    BY <1>5, <1>8
  <2>2. EntryOf(E, left) \in E /\ EntryOf(E, left).node_id = left
    BY <2>1, EntryFound
  <2>3. QED  BY <2>2 DEF TreeOf
<1>12. QED  BY <1>1, <1>9, <1>10, <1>11

\* The tree that Fini leaves has two steps in series, the smaller id first, if
\* and only if the program did one after the other by its spawns and joins: the
\* nodes that the Capture calls and the hooks create, each on its own thread and
\* from its own stack, are the program's own order, for any tree of tasks, any
\* number of threads and any schedule.
THEOREM TreeOrdersProgram ==
    ASSUME ~EmptyWaits, ~SpawnsAfterRoots
    PROVE  Spec => []TreeIsProgramOrder
<1>1. IInv /\ LInv /\ OInv /\ LogComplete => TreeIsProgramOrder
  <2> SUFFICES ASSUME IInv, LInv, OInv, LogComplete, finished,
                      NEW s \in DOMAIN before, NEW r \in DOMAIN before, s < r
               PROVE  /\ s \notin before[r]
                            <=> MayRunInParallel(Entries, PathTo(Entries, s), PathTo(Entries, r))
                      /\ r \notin before[s]
    BY DEF TreeIsProgramOrder
  <2>1. PICK A : Linked(A) /\ Ordered(A)
    BY DEF OInv
  <2>2. PICK E : E = Entries
    OBVIOUS
  <2>3. /\ TreeOf(A, E) /\ A.steps = DOMAIN before /\ \A x \in A.steps : A.before[x] = before[x]
        /\ PathsUp(A.up) /\ A.steps \subseteq DOMAIN A.up /\ Recorded(A)
    BY <2>1, <2>2 DEF Linked, StepsOf, Ordered, Paths
  <2>4. PICK last \in Nat : DOMAIN A.up = 1 .. last
    <3>1. DOMAIN A.up = LoggedIds
      BY <2>2, <2>3 DEF TreeOf, LoggedIds
    <3>2. DOMAIN A.up = 1 .. last_allocated_node - 1 /\ last_allocated_node \in Nat
      BY <3>1 DEF LogComplete, IInv, TypeOK, GraphTypeOK
    <3>3. PICK n \in Nat : n = last_allocated_node
      BY <3>2
    <3>4. CASE n = 0
      <4>1. DOMAIN A.up = {}
        BY <3>2, <3>3, <3>4
      <4>2. QED  BY <2>3, <4>1
    <3>5. CASE n # 0
      <4>1. n - 1 \in Nat
        BY <3>5
      <4>2. QED  BY <3>2, <3>3, <4>1
    <3>6. QED  BY <3>4, <3>5
  <2>5. \A e \in E : e.step_parent < e.node_id
    BY <2>2 DEF LInv, IdsUnique
  <2>6. s \in DOMAIN A.up /\ r \in DOMAIN A.up
    BY <2>3
  <2>7. PathTo(E, s) = A.up[s] /\ PathTo(E, r) = A.up[r]
    BY <2>3, <2>4, <2>5, <2>6, PathIsUp
  <2>8. MayRunInParallel(E, A.up[s], A.up[r]) <=> Apart(A.asy, A.up[s], A.up[r])
    BY <2>3, <2>6, ParallelIsApart
  <2>9. s \in A.before[r] <=> ~Apart(A.asy, A.up[s], A.up[r])
    BY <2>3 DEF Recorded
  <2>10. r \notin A.before[s]
    BY <2>3 DEF Recorded
  <2>11. QED  BY <2>2, <2>3, <2>7, <2>8, <2>9, <2>10
<1>2. QED  BY <1>1, Invariance, IdsAccountedFor, OrderRecorded, CompleteLog, PTL

================================================================================
