------------------------- MODULE CollectionTree_proofs -------------------------
(******************************************************************************)
(* The tree in the reports, for any number of workers and tasks and for every *)
(* program: its ids are handed out once, each reaches a report at most once,  *)
(* and after Fini all have.                                                   *)
(*                                                                            *)
(* An id is handed out before it is logged: a step's id waits as the child_id *)
(* of a node until the step ends.  The child_id of a node is such an id only  *)
(* while the node is fresh: on top of the stack of a thread that is in a step *)
(* or about to be, or in temp_cur_map.  In all other nodes it is an old id,   *)
(* logged before, or the 0 of a FINISH whose parent waits at once.            *)
(*                                                                            *)
(* The second half is about the stacks the tree is recorded from: that a      *)
(* thread has the nodes of the tasks it is in on its stack, for the programs  *)
(* that wait only when they have something to wait for.                       *)
(******************************************************************************)
EXTENDS Collection_proofs

\* Thread t is in a step that will be logged, or in the exit of a spawn that
\* gave it its next one.
FreshStep(t) ==
    \/ At(t, "run") /\ ~finished
    \/ At(t, "captured") /\ TopFrame(t).op = "spawn"

FreshTops(S) == {Top(t) : t \in {u \in S : FreshStep(u)}}

InMap == {temp_cur_map[k] : k \in DOMAIN temp_cur_map}

Fresh == FreshTops(Threads) \cup InMap

\* In the nodes F, the child_ids wait to be logged: each is above its node's own
\* id and in one node only, and with the ids L logged they are all the ids below
\* next.
IdsWait(F, node, L, next) ==
    /\ \A n \in F : node[n].child_id \in (1 .. next - 1) \ L /\ n < node[n].child_id
    /\ \A m, n \in F : node[m].child_id = node[n].child_id => m = n
    /\ L \subseteq 1 .. next - 1
    /\ \A i \in 1 .. next - 1 : i \in L \/ \E n \in F : node[n].child_id = i

FreshHaveNodes ==
    \A t \in Threads : FreshStep(t) => cur_dpst_index[t] # <<>>

LInv ==
    /\ FreshHaveNodes
    /\ IdsWait(Fresh, nodes, LoggedIds, last_allocated_node)
    /\ IdsUnique

(******************************************************************************)
(* Ids                                                                        *)
(******************************************************************************)

\* A step is logged.
LEMMA IdIsLogged ==
    ASSUME NEW F, NEW node, NEW L, NEW next, IdsWait(F, node, L, next), NEW n \in F
    PROVE  IdsWait(F \ {n}, node, L \cup {node[n].child_id}, next)
  BY DEF IdsWait

\* Only the child_ids of fresh nodes matter.
LEMMA IdsKept ==
    ASSUME NEW F, NEW node, NEW L, NEW next, IdsWait(F, node, L, next),
           NEW new, \A n \in F : new[n].child_id = node[n].child_id
    PROVE  IdsWait(F, new, L, next)
  BY DEF IdsWait

\* Ids are handed out, to the nodes A and, logged at once, as M.
LEMMA IdsHandedOut ==
    ASSUME NEW F, NEW node, NEW L, NEW next \in Nat, IdsWait(F, node, L, next),
           NEW A, NEW M, NEW last \in Nat, next <= last,
           \A n \in A : node[n].child_id \in (next .. last - 1) \ M /\ n < node[n].child_id,
           \A m, n \in A : node[m].child_id = node[n].child_id => m = n,
           M \subseteq next .. last - 1, next > 0,
           \A i \in next .. last - 1 : i \in M \/ \E n \in A : node[n].child_id = i
    PROVE  IdsWait(F \cup A, node, L \cup M, last)
<1>1. /\ \A i \in 1 .. last - 1 : i \in 1 .. next - 1 \/ i \in next .. last - 1
      /\ \A i \in 1 .. next - 1 : i \notin next .. last - 1 /\ i \in 1 .. last - 1
      /\ \A i \in next .. last - 1 : i \in 1 .. last - 1
  OBVIOUS
<1>2. \A n \in F \cup A : node[n].child_id \in (1 .. last - 1) \ (L \cup M) /\ n < node[n].child_id
  BY <1>1 DEF IdsWait
<1>3. \A m, n \in F \cup A : node[m].child_id = node[n].child_id => m = n
  BY <1>1 DEF IdsWait
<1>4. L \cup M \subseteq 1 .. last - 1
  BY <1>1 DEF IdsWait
<1>5. \A i \in 1 .. last - 1 : i \in L \cup M \/ \E n \in F \cup A : node[n].child_id = i
  BY <1>1 DEF IdsWait
<1>6. QED  BY <1>2, <1>3, <1>4, <1>5 DEF IdsWait

\* Entries with new ids join a thread's report.
LEMMA LogKeepsUnique ==
    ASSUME report \in [Threads -> Seq(LogEntry)], IdsUnique, NEW t \in Threads,
           NEW es \in Seq(LogEntry), Log(t, es),
           last_allocated_node \in Nat, last_allocated_node' \in Nat,
           last_allocated_node <= last_allocated_node',
           \A i \in DOMAIN es : /\ es[i].node_id \notin LoggedIds
                                /\ es[i].step_parent < es[i].node_id
                                /\ es[i].node_id < last_allocated_node',
           \A i, j \in DOMAIN es : es[i].node_id = es[j].node_id => i = j
    PROVE  IdsUnique' /\ LoggedIds' = LoggedIds \cup {es[i].node_id : i \in DOMAIN es}
<1> DEFINE a == report[t]
           n == Len(a)
           b == report'[t]
<1>1. /\ b = a \o es /\ a \in Seq(LogEntry) /\ n \in Nat
      /\ DOMAIN a = 1 .. n /\ DOMAIN es = 1 .. Len(es) /\ Len(es) \in Nat
      /\ \A u \in Threads \ {t} : report'[u] = report[u]
  BY DEF Log
<1>2. /\ DOMAIN b = 1 .. n + Len(es)
      /\ \A i \in 1 .. n : b[i] = a[i]
      /\ \A i \in 1 .. Len(es) : b[n + i] = es[i]
  BY <1>1
<1>3. \A i \in DOMAIN b : i \in DOMAIN a \/ \E j \in DOMAIN es : i = n + j
  <2>1. ASSUME NEW i \in 1 .. n + Len(es), i \notin 1 .. n
        PROVE  i - n \in 1 .. Len(es) /\ i = n + (i - n)
    BY <1>1, <2>1
  <2>2. QED  BY <1>1, <1>2, <2>1
<1>4. /\ \A i \in DOMAIN a : i \in DOMAIN b /\ b[i] = a[i]
      /\ \A j \in DOMAIN es : n + j \in DOMAIN b /\ b[n + j] = es[j]
  BY <1>1, <1>2
<1>5. \A i \in DOMAIN a : a[i].node_id \in LoggedIds
  BY DEF LoggedIds, Entries, Logged
<1>6. \A i, j \in DOMAIN b : b[i].node_id = b[j].node_id => i = j
  <2> SUFFICES ASSUME NEW i \in DOMAIN b, NEW j \in DOMAIN b, b[i].node_id = b[j].node_id
               PROVE  i = j
    OBVIOUS
  <2> HIDE DEF a, b, n
  <2>1. CASE i \in DOMAIN a /\ j \in DOMAIN a
    BY <1>4, <2>1 DEF IdsUnique, a
  <2>2. CASE i \in DOMAIN a /\ j \notin DOMAIN a
    BY <1>3, <1>4, <1>5, <2>2
  <2>3. CASE i \notin DOMAIN a /\ j \in DOMAIN a
    BY <1>3, <1>4, <1>5, <2>3
  <2>4. CASE i \notin DOMAIN a /\ j \notin DOMAIN a
    <3>1. PICK p \in DOMAIN es : i = n + p
      BY <1>3, <2>4
    <3>2. PICK q \in DOMAIN es : j = n + q
      BY <1>3, <2>4
    <3>3. QED  BY <1>4, <3>1, <3>2
  <2>5. QED  BY <2>1, <2>2, <2>3, <2>4
<1>7. \A e : e \in Logged(t)' <=> e \in Logged(t) \/ \E j \in DOMAIN es : e = es[j]
  <2> SUFFICES ASSUME NEW e
               PROVE  e \in Logged(t)' <=> e \in Logged(t) \/ \E j \in DOMAIN es : e = es[j]
    OBVIOUS
  <2>1. e \in Logged(t)' <=> \E i \in DOMAIN b : e = b[i]
    BY DEF Logged
  <2>2. e \in Logged(t) <=> \E i \in DOMAIN a : e = a[i]
    BY DEF Logged
  <2> HIDE DEF a, b, n
  <2>3. QED  BY <1>3, <1>4, <2>1, <2>2
<1>8. \A u \in Threads \ {t} : Logged(u)' = Logged(u)
  BY <1>1 DEF Logged
<1>9. /\ \A u \in Threads : \A e \in Logged(u) : e \in Entries /\ e.node_id \in LoggedIds
      /\ \A e \in Entries : \E u \in Threads : e \in Logged(u)
      /\ \A e \in Entries' : \E u \in Threads : e \in Logged(u)'
      /\ \A u \in Threads : \A e \in Logged(u)' : e \in Entries'
  BY DEF Entries, LoggedIds
<1> HIDE DEF a, b, n
<1>10. \A e : e \in Entries' <=> e \in Entries \/ \E j \in DOMAIN es : e = es[j]
  <2> SUFFICES ASSUME NEW e
               PROVE  e \in Entries' <=> e \in Entries \/ \E j \in DOMAIN es : e = es[j]
    OBVIOUS
  <2>1. e \in Entries' <=> \E u \in Threads : e \in Logged(u)'
    BY <1>9
  <2>2. e \in Entries <=> \E u \in Threads : e \in Logged(u)
    BY <1>9
  <2>3. \A u \in Threads : u # t => (e \in Logged(u)' <=> e \in Logged(u))
    BY <1>8
  <2>4. e \in Logged(t)' <=> e \in Logged(t) \/ \E j \in DOMAIN es : e = es[j]
    BY <1>7
  <2>5. QED  BY <2>1, <2>2, <2>3, <2>4
<1>11. LoggedIds' = LoggedIds \cup {es[i].node_id : i \in DOMAIN es}
  <2>1. \A x : x \in LoggedIds' <=> \E e \in Entries' : x = e.node_id
    BY DEF LoggedIds
  <2>2. \A x : x \in LoggedIds <=> \E e \in Entries : x = e.node_id
    BY DEF LoggedIds
  <2>3. \A x : x \in LoggedIds' <=> x \in LoggedIds \/ \E i \in DOMAIN es : x = es[i].node_id
    BY <1>10, <2>1, <2>2
  <2>4. QED  BY <2>3
<1>12. ASSUME NEW u \in Threads, NEW w \in Threads,
              NEW e \in Logged(u)', NEW f \in Logged(w)', e.node_id = f.node_id
       PROVE  u = w
  <2>1. CASE u = t /\ w = t
    BY <2>1
  <2>2. CASE u # t /\ w # t
    BY <1>8, <1>12, <2>2 DEF IdsUnique
  <2>3. CASE u = t /\ w # t
    <3>1. f \in Logged(w) /\ f.node_id \in LoggedIds
      BY <1>8, <1>9, <1>12, <2>3
    <3>2. e \in Logged(t)
      BY <1>7, <1>12, <2>3, <3>1
    <3>3. QED  BY <1>12, <2>3, <3>1, <3>2 DEF IdsUnique
  <2>4. CASE u # t /\ w = t
    <3>1. e \in Logged(u) /\ e.node_id \in LoggedIds
      BY <1>8, <1>9, <1>12, <2>4
    <3>2. f \in Logged(t)
      BY <1>7, <1>12, <2>4, <3>1
    <3>3. QED  BY <1>12, <2>4, <3>1, <3>2 DEF IdsUnique
  <2>5. QED  BY <2>1, <2>2, <2>3, <2>4
<1>13. ASSUME NEW e \in Entries'
       PROVE  e.step_parent < e.node_id /\ e.node_id < last_allocated_node'
  <2>1. CASE e \in Entries
    <3>1. e.step_parent < e.node_id /\ e.node_id < last_allocated_node
      BY <2>1 DEF IdsUnique
    <3>2. e.node_id \in Nat
      <4>1. PICK u \in Threads : e \in Logged(u)
        BY <1>9, <2>1
      <4>2. PICK i \in DOMAIN report[u] : e = report[u][i]
        BY <4>1 DEF Logged
      <4>3. e \in LogEntry
        BY <4>2
      <4>4. QED  BY <4>3 DEF LogEntry
    <3>3. QED  BY <3>1, <3>2
  <2>2. CASE \E j \in DOMAIN es : e = es[j]
    BY <2>2
  <2>3. QED  BY <1>10, <1>13, <2>1, <2>2
<1>14. \A u \in Threads : \A i, j \in DOMAIN report'[u] :
          report'[u][i].node_id = report'[u][j].node_id => i = j
  BY <1>1, <1>6 DEF IdsUnique, b
<1>15. IdsUnique'
  BY <1>12, <1>13, <1>14 DEF IdsUnique
<1>16. QED  BY <1>11, <1>15

(******************************************************************************)
(* Which nodes are fresh                                                      *)
(******************************************************************************)

\* The fresh nodes that are not thread t's.
FreshElsewhere(t) == FreshTops(Threads \ {t}) \cup InMap

LEMMA FreshHere ==
    ASSUME NEW t \in Threads
    PROVE  /\ FreshStep(t) => Fresh = FreshElsewhere(t) \cup {Top(t)}
           /\ ~FreshStep(t) => Fresh = FreshElsewhere(t)
<1>1. \A n : n \in Fresh <=> n \in InMap \/ \E u \in Threads : FreshStep(u) /\ n = Top(u)
  BY DEF Fresh, FreshTops
<1>2. \A n : n \in FreshElsewhere(t) <=>
                n \in InMap \/ \E u \in Threads \ {t} : FreshStep(u) /\ n = Top(u)
  BY DEF FreshElsewhere, FreshTops
<1>3. QED  BY <1>1, <1>2

LEMMA FreshHereNext ==
    ASSUME NEW t \in Threads
    PROVE  /\ FreshStep(t)' => Fresh' = FreshElsewhere(t)' \cup {Top(t)'}
           /\ ~FreshStep(t)' => Fresh' = FreshElsewhere(t)'
<1>1. \A n : n \in Fresh' <=> n \in InMap' \/ \E u \in Threads : FreshStep(u)' /\ n = Top(u)'
  BY DEF Fresh, FreshTops
<1>2. \A n : n \in FreshElsewhere(t)' <=>
                n \in InMap' \/ \E u \in Threads \ {t} : FreshStep(u)' /\ n = Top(u)'
  BY DEF FreshElsewhere, FreshTops
<1>3. QED  BY <1>1, <1>2

\* They are allocated, and on no place of t's stack.
LEMMA FreshElsewhereOwned ==
    ASSUME IInv, FreshHaveNodes, NEW t \in Threads, NEW n \in FreshElsewhere(t)
    PROVE  /\ n \in DOMAIN nodes
           /\ \A i \in DOMAIN cur_dpst_index[t] : cur_dpst_index[t][i] # n
<1>0. TypeOK /\ NodeOwnership /\ GraphTypeOK
  BY DEF IInv, TypeOK
<1>1. CASE n \in InMap
  <2>1. PICK k \in DOMAIN temp_cur_map : n = temp_cur_map[k]
    BY <1>1 DEF InMap
  <2>2. QED  BY <1>0, <2>1 DEF NodeOwnership, NoDangling, OneOwner
<1>2. CASE n \in FreshTops(Threads \ {t})
  <2>1. PICK u \in Threads \ {t} : FreshStep(u) /\ n = Top(u)
    BY <1>2 DEF FreshTops
  <2>2. cur_dpst_index[u] # <<>>
    BY <2>1 DEF FreshHaveNodes
  <2>3. Top(u) \in DOMAIN nodes /\ Len(cur_dpst_index[u]) \in DOMAIN cur_dpst_index[u]
    BY <1>0, <2>1, <2>2, TopAllocated DEF NodeOwnership
  <2>4. QED  BY <1>0, <2>1, <2>3 DEF NodeOwnership, OneOwner, Top
<1>3. QED  BY <1>1, <1>2 DEF FreshElsewhere

\* Every other thread is where it was.
OthersStay(t) ==
    /\ \A u \in Threads \ {t} : frames'[u] = frames[u] /\ cur_dpst_index'[u] = cur_dpst_index[u]
    /\ finished' = finished \/ \A u \in Threads \ {t} : frames[u] = <<>>

LEMMA FreshTopsStay ==
    ASSUME NEW t \in Threads, OthersStay(t)
    PROVE  FreshTops(Threads \ {t})' = FreshTops(Threads \ {t})
<1>1. \A u \in Threads \ {t} : (FreshStep(u)' <=> FreshStep(u)) /\ Top(u)' = Top(u)
  BY DEF OthersStay, FreshStep, At, TopFrame, Top
<1>2. \A n : n \in FreshTops(Threads \ {t})' <=>
                \E u \in Threads \ {t} : FreshStep(u)' /\ n = Top(u)'
  BY DEF FreshTops
<1>3. \A n : n \in FreshTops(Threads \ {t}) <=>
                \E u \in Threads \ {t} : FreshStep(u) /\ n = Top(u)
  BY DEF FreshTops
<1>4. QED  BY <1>1, <1>2, <1>3

LEMMA FreshHaveNodesStay ==
    ASSUME FreshHaveNodes, NEW t \in Threads, OthersStay(t),
           FreshStep(t)' => cur_dpst_index'[t] # <<>>
    PROVE  FreshHaveNodes'
<1>1. \A u \in Threads \ {t} : (FreshStep(u)' <=> FreshStep(u)) /\ cur_dpst_index'[u] = cur_dpst_index[u]
  BY DEF OthersStay, FreshStep, At, TopFrame
<1>2. QED  BY <1>1 DEF FreshHaveNodes

\* A thread leaves its step and logs it.
LEMMA StepIsLogged ==
    ASSUME IInv, IInv', LInv, NEW t \in Threads, FreshStep(t), ~FreshStep(t)', OthersStay(t),
           Log(t, <<Entry(getCurStepId(t), getCurStepParent(t), STEP, 0)>>),
           UNCHANGED <<temp_cur_map, last_allocated_node>>,
           \A n \in FreshElsewhere(t) : nodes'[n] = nodes[n]
    PROVE  LInv'
<1>0. TypeOK /\ NodeOwnership /\ GraphTypeOK /\ TypeOK'
  BY DEF IInv, TypeOK
<1>1. cur_dpst_index[t] # <<>>
  BY DEF LInv, FreshHaveNodes
<1> DEFINE e == Entry(getCurStepId(t), getCurStepParent(t), STEP, 0)
<1>2. PICK F, x, nd, L, m, id :
         /\ F = FreshElsewhere(t) /\ x = Top(t) /\ nd = nodes /\ L = LoggedIds
         /\ m = last_allocated_node /\ id = getCurStepId(t)
  OBVIOUS
<1>3. id = nd[x].child_id
  BY <1>2 DEF getCurStepId
<1>4. Fresh = F \cup {x} /\ x \notin F
  <2>1. Len(cur_dpst_index[t]) \in DOMAIN cur_dpst_index[t]
    BY <1>0, <1>1, TopAllocated DEF NodeOwnership
  <2>2. \A n \in F : n # x
    BY <1>2, <2>1, FreshElsewhereOwned DEF LInv, Top
  <2>3. Fresh = F \cup {x}
    BY <1>2, FreshHere
  <2>4. QED  BY <2>2, <2>3
<1>5. IdsWait(F \cup {x}, nd, L, m)
  BY <1>2, <1>4 DEF LInv
<1>6. IdsWait(F, nd, L \cup {id}, m)
  <2>1. (F \cup {x}) \ {x} = F
    BY <1>4
  <2>2. IdsWait((F \cup {x}) \ {x}, nd, L \cup {nd[x].child_id}, m)
    BY <1>5, IdIsLogged
  <2>3. QED  BY <1>3, <2>1, <2>2
<1>7. id \in (1 .. m - 1) \ L /\ x < id /\ m \in Nat
  BY <1>0, <1>2, <1>3, <1>5 DEF IdsWait, GraphTypeOK
<1>8. /\ e \in LogEntry /\ e.node_id = id /\ e.step_parent = x
      /\ <<e>> \in Seq(LogEntry) /\ DOMAIN <<e>> = {1} /\ <<e>>[1] = e
  <2>1. getCurStepId(t) \in Nat /\ getCurStepParent(t) \in Nat
    BY <1>0, <1>1, TopAllocated DEF NodeOwnership
  <2>2. e \in LogEntry /\ e.node_id = id /\ e.step_parent = x
    BY <1>2, <2>1 DEF Entry, LogEntry, getCurStepParent
  <2> HIDE DEF e
  <2>3. QED  BY <2>2
<1> HIDE DEF e
<1>9. IdsUnique' /\ LoggedIds' = LoggedIds \cup {id}
  <2>1. PICK es : es = <<e>>
    OBVIOUS
  <2>2. /\ es \in Seq(LogEntry) /\ Log(t, es)
        /\ \A i \in DOMAIN es : /\ es[i].node_id \notin LoggedIds
                                /\ es[i].step_parent < es[i].node_id
                                /\ es[i].node_id < last_allocated_node'
        /\ \A i, j \in DOMAIN es : es[i].node_id = es[j].node_id => i = j
    BY <1>2, <1>7, <1>8, <2>1 DEF e
  <2>3. /\ last_allocated_node \in Nat /\ last_allocated_node' \in Nat
        /\ last_allocated_node <= last_allocated_node'
        /\ report \in [Threads -> Seq(LogEntry)]
    BY <1>0 DEF GraphTypeOK
  <2>4. IdsUnique' /\ LoggedIds' = LoggedIds \cup {es[i].node_id : i \in DOMAIN es}
    BY <2>2, <2>3, LogKeepsUnique DEF LInv
  <2>5. {es[i].node_id : i \in DOMAIN es} = {id}
    BY <1>8, <2>1
  <2>6. QED  BY <2>4, <2>5
<1>10. Fresh' = F
  <2>1. FreshElsewhere(t)' = F
    BY <1>2, FreshTopsStay DEF FreshElsewhere, InMap
  <2>2. QED  BY <2>1, FreshHereNext
<1>11. IdsWait(F, nodes', L \cup {id}, m)
  <2>1. PICK new : new = nodes'
    OBVIOUS
  <2>2. \A n \in F : new[n].child_id = nd[n].child_id
    BY <1>2, <2>1
  <2>3. IdsWait(F, new, L \cup {id}, m)
    BY <1>6, <2>2, IdsKept
  <2>4. QED  BY <2>1, <2>3
<1>12. IdsWait(Fresh, nodes, LoggedIds, last_allocated_node)'
  BY <1>2, <1>9, <1>10, <1>11
<1>13. FreshHaveNodes'
  BY FreshHaveNodesStay DEF LInv
<1>14. QED  BY <1>9, <1>12, <1>13 DEF LInv

(******************************************************************************)
(* Spawns and joins hand out ids                                              *)
(******************************************************************************)

\* The ids from last_allocated_node on are handed out: to the nodes A, which
\* become fresh, and as M to entries that are logged at once.
HandsOut(A, M) ==
    LET ids == last_allocated_node .. last_allocated_node' - 1
    IN  /\ last_allocated_node <= last_allocated_node'
        /\ Fresh' = Fresh \cup A
        /\ \A n \in Fresh : nodes'[n].child_id = nodes[n].child_id
        /\ M \subseteq ids
        /\ \A n \in A : nodes'[n].child_id \in ids \ M /\ n < nodes'[n].child_id
        /\ \A m, n \in A : nodes'[m].child_id = nodes'[n].child_id => m = n
        /\ \A i \in ids : i \in M \/ \E n \in A : nodes'[n].child_id = i

\* The entries have the ids M, each one of its own, and parents with smaller ids.
EntriesOf(es, M) ==
    /\ es \in Seq(LogEntry)
    /\ M = {es[i].node_id : i \in DOMAIN es}
    /\ \A i \in DOMAIN es : es[i].step_parent < es[i].node_id
    /\ \A i, j \in DOMAIN es : es[i].node_id = es[j].node_id => i = j

LEMMA IdsAreHandedOut ==
    ASSUME IInv, IInv', LInv, NEW t \in Threads, OthersStay(t),
           FreshStep(t)' => cur_dpst_index'[t] # <<>>,
           NEW es, NEW A, NEW M, EntriesOf(es, M), HandsOut(A, M), Log(t, es)
    PROVE  LInv'
<1>0. TypeOK /\ TypeOK'
  BY DEF IInv
<1>1. PICK F, nd, new, L, m, last :
         /\ F = Fresh /\ nd = nodes /\ new = nodes' /\ L = LoggedIds
         /\ m = last_allocated_node /\ last = last_allocated_node'
  OBVIOUS
<1>2. IdsWait(F, nd, L, m)
  BY <1>1 DEF LInv
<1>3. m \in Nat /\ m > 0 /\ last \in Nat /\ m <= last
  BY <1>0, <1>1 DEF TypeOK, GraphTypeOK, HandsOut
<1>4. IdsWait(F, new, L, m)
  <2>1. \A n \in F : new[n].child_id = nd[n].child_id
    BY <1>1 DEF HandsOut
  <2>2. QED  BY <1>2, <2>1, IdsKept
<1>5. IdsWait(F \cup A, new, L \cup M, last)
  <2>1. /\ \A n \in A : new[n].child_id \in (m .. last - 1) \ M /\ n < new[n].child_id
        /\ \A j, n \in A : new[j].child_id = new[n].child_id => j = n
        /\ M \subseteq m .. last - 1
        /\ \A i \in m .. last - 1 : i \in M \/ \E n \in A : new[n].child_id = i
    BY <1>1 DEF HandsOut
  <2>2. QED  BY <1>3, <1>4, <2>1, IdsHandedOut
<1>6. IdsUnique' /\ LoggedIds' = L \cup M
  <2>1. \A i \in DOMAIN es : es[i].node_id \in m .. last - 1
    BY <1>1 DEF HandsOut, EntriesOf
  <2>2. \A i \in DOMAIN es : es[i].node_id \notin LoggedIds
    BY <1>1, <1>2, <1>3, <2>1 DEF IdsWait
  <2>3. \A i \in DOMAIN es : es[i].node_id < last_allocated_node'
    BY <1>1, <1>3, <2>1
  <2>4. last_allocated_node \in Nat /\ last_allocated_node' \in Nat /\ report \in [Threads -> Seq(LogEntry)]
    BY <1>0 DEF TypeOK, GraphTypeOK
  <2>5. /\ IdsUnique /\ es \in Seq(LogEntry) /\ last_allocated_node <= last_allocated_node'
        /\ \A i \in DOMAIN es : /\ es[i].node_id \notin LoggedIds
                                /\ es[i].step_parent < es[i].node_id
                                /\ es[i].node_id < last_allocated_node'
        /\ \A i, j \in DOMAIN es : es[i].node_id = es[j].node_id => i = j
    BY <2>2, <2>3 DEF LInv, HandsOut, EntriesOf
  <2>6. IdsUnique' /\ LoggedIds' = LoggedIds \cup {es[i].node_id : i \in DOMAIN es}
    BY <2>4, <2>5, LogKeepsUnique
  <2>7. QED  BY <1>1, <2>6 DEF EntriesOf
<1>7. IdsWait(Fresh, nodes, LoggedIds, last_allocated_node)'
  BY <1>1, <1>5, <1>6 DEF HandsOut
<1>8. FreshHaveNodes'
  BY FreshHaveNodesStay DEF LInv
<1>9. QED  BY <1>6, <1>7, <1>8 DEF LInv

LEMMA MapGrows ==
    ASSUME NEW k, k \notin DOMAIN temp_cur_map, NEW n, Register(k, n)
    PROVE  InMap' = InMap \cup {n}
<1>1. /\ DOMAIN temp_cur_map' = DOMAIN temp_cur_map \cup {k} /\ temp_cur_map'[k] = n
      /\ \A j \in DOMAIN temp_cur_map : temp_cur_map'[j] = temp_cur_map[j]
  BY DEF Register, Insert
<1>2. \A x : x \in InMap' <=> \E j \in DOMAIN temp_cur_map' : x = temp_cur_map'[j]
  BY DEF InMap
<1>3. \A x : x \in InMap <=> \E j \in DOMAIN temp_cur_map : x = temp_cur_map[j]
  BY DEF InMap
<1>4. QED  BY <1>1, <1>2, <1>3

\* Fresh nodes before and after thread t has registered node n.
LEMMA FreshGrows ==
    ASSUME NEW t \in Threads, ~FreshStep(t), OthersStay(t),
           NEW k, k \notin DOMAIN temp_cur_map, NEW n, Register(k, n)
    PROVE  /\ FreshElsewhere(t) = Fresh
           /\ FreshStep(t)' => Fresh' = Fresh \cup {n, Top(t)'}
           /\ ~FreshStep(t)' => Fresh' = Fresh \cup {n}
<1>1. InMap' = InMap \cup {n}
  BY MapGrows
<1>2. FreshElsewhere(t)' = FreshElsewhere(t) \cup {n}
  BY <1>1, FreshTopsStay DEF FreshElsewhere
<1>3. FreshElsewhere(t) = Fresh
  BY FreshHere
<1>4. /\ FreshStep(t)' => Fresh' = FreshElsewhere(t)' \cup {Top(t)'}
      /\ ~FreshStep(t)' => Fresh' = FreshElsewhere(t)'
  BY FreshHereNext
<1>5. QED  BY <1>2, <1>3, <1>4

LEMMA AddAsyncGivesIds ==
    ASSUME IInv, IInv', LInv, NEW t \in Threads, ~FreshStep(t), OthersStay(t),
           cur_dpst_index[t] # <<>>,
           NEW k, k \notin DOMAIN temp_cur_map, NEW site \in Nat, NEW step, NEW last,
           AddAsync(t, k, site, step, last),
           \/ FreshStep(t)' /\ step = last_allocated_node + 2 /\ last = last_allocated_node + 3
           \/ ~FreshStep(t)' /\ last = last_allocated_node + 2
    PROVE  LInv'
<1>0. TypeOK /\ NodeOwnership /\ GraphTypeOK
  BY DEF IInv, TypeOK
<1>1. PICK cur, new : cur = Top(t) /\ new = last_allocated_node
  OBVIOUS
<1>2. /\ cur \in DOMAIN nodes /\ cur \in Nat /\ nodes[cur] \in AFTask
      /\ Len(cur_dpst_index[t]) \in DOMAIN cur_dpst_index[t]
  BY <1>0, <1>1, TopAllocated DEF NodeOwnership
<1>3. new \in Nat /\ new > 0 /\ \A n \in DOMAIN nodes : n \in Nat /\ n < new
  BY <1>0, <1>1 DEF GraphTypeOK
<1>4. /\ nodes' = Insert([nodes EXCEPT ![cur].child_id = step], new,
                         [young_ns_child |-> NO_TYPE, sync_finish_flag |-> FALSE,
                          child_id |-> new + 1])
      /\ last_allocated_node' = last /\ Register(k, new)
      /\ Log(t, <<Entry(new, cur, ASYNC, site)>>)
      /\ cur_dpst_index' = cur_dpst_index /\ Top(t)' = cur
  BY <1>1 DEF AddAsync, Top
<1>5. /\ nodes'[new].child_id = new + 1 /\ nodes'[cur].child_id = step
      /\ \A n \in DOMAIN nodes \ {cur} : nodes'[n] = nodes[n]
  BY <1>2, <1>3, <1>4 DEF Insert, AFTask
<1>6. /\ FreshElsewhere(t) = Fresh
      /\ FreshStep(t)' => Fresh' = Fresh \cup {new, cur}
      /\ ~FreshStep(t)' => Fresh' = Fresh \cup {new}
  BY <1>4, FreshGrows
<1>7. \A n \in Fresh : n \in DOMAIN nodes \ {cur}
  BY <1>1, <1>2, <1>6, FreshElsewhereOwned DEF LInv, Top
<1>8. PICK es : es = <<Entry(new, cur, ASYNC, site)>>
  OBVIOUS
<1>9. Entry(new, cur, ASYNC, site) \in LogEntry
  BY <1>2, <1>3 DEF Entry, LogEntry
<1>10. /\ es \in Seq(LogEntry) /\ DOMAIN es = {1} /\ es[1].node_id = new /\ es[1].step_parent = cur
       /\ Log(t, es)
  BY <1>4, <1>8, <1>9 DEF Entry
<1>11. EntriesOf(es, {new})
  BY <1>2, <1>3, <1>10 DEF EntriesOf
<1>12. /\ \A n \in Fresh : nodes'[n].child_id = nodes[n].child_id
       /\ cur_dpst_index'[t] # <<>>
  BY <1>4, <1>5, <1>7
<1>13. CASE FreshStep(t)'
  <2>1. /\ new .. new + 2 = {new, new + 1, new + 2} /\ new + 3 - 1 = new + 2
        /\ last_allocated_node' = new + 3 /\ step = new + 2
    BY <1>1, <1>3, <1>4, <1>13
  <2>2. HandsOut({new, cur}, {new})
    BY <1>1, <1>2, <1>3, <1>5, <1>6, <1>12, <1>13, <2>1 DEF HandsOut
  <2>3. QED  BY <1>10, <1>11, <1>12, <2>2, IdsAreHandedOut
<1>14. CASE ~FreshStep(t)'
  <2>1. /\ new .. new + 1 = {new, new + 1} /\ new + 2 - 1 = new + 1
        /\ last_allocated_node' = new + 2
    BY <1>1, <1>3, <1>4, <1>14
  <2>2. HandsOut({new}, {new})
    BY <1>1, <1>2, <1>3, <1>5, <1>6, <1>12, <1>14, <2>1 DEF HandsOut
  <2>3. QED  BY <1>10, <1>11, <1>12, <2>2, IdsAreHandedOut
<1>15. QED  BY <1>13, <1>14

LEMMA AddFinishAndAsyncGivesIds ==
    ASSUME IInv, IInv', LInv, NEW t \in Threads, ~FreshStep(t), OthersStay(t),
           cur_dpst_index[t] # <<>>,
           NEW k, k \notin DOMAIN temp_cur_map, NEW site \in Nat, NEW step, NEW last,
           AddFinishAndAsync(t, k, site, step, last),
           \/ FreshStep(t)' /\ step = last_allocated_node + 3 /\ last = last_allocated_node + 4
           \/ ~FreshStep(t)' /\ last = last_allocated_node + 3
    PROVE  LInv'
<1>0. TypeOK /\ NodeOwnership /\ GraphTypeOK
  BY DEF IInv, TypeOK
<1>1. PICK cur, fin, new : cur = Top(t) /\ fin = last_allocated_node /\ new = last_allocated_node + 1
  OBVIOUS
<1>2. /\ cur \in DOMAIN nodes /\ cur \in Nat /\ nodes[cur] \in AFTask
      /\ Len(cur_dpst_index[t]) \in DOMAIN cur_dpst_index[t]
  BY <1>0, <1>1, TopAllocated DEF NodeOwnership
<1>3. /\ fin \in Nat /\ fin > 0 /\ new = fin + 1 /\ \A n \in DOMAIN nodes : n \in Nat /\ n < fin
  BY <1>0, <1>1 DEF GraphTypeOK
<1>4. /\ nodes' = Insert(Insert([nodes EXCEPT ![cur].young_ns_child = FINISH],
                                fin, [young_ns_child |-> ASYNC, sync_finish_flag |-> TRUE,
                                      child_id |-> step]),
                         new, [young_ns_child |-> NO_TYPE, sync_finish_flag |-> FALSE,
                               child_id |-> new + 1])
      /\ last_allocated_node' = last /\ Register(k, new)
      /\ Log(t, <<Entry(fin, cur, FINISH, 0), Entry(new, fin, ASYNC, site)>>)
      /\ cur_dpst_index' = [cur_dpst_index EXCEPT ![t] = Append(@, fin)]
  BY <1>1 DEF AddFinishAndAsync
<1>5. /\ nodes'[new].child_id = new + 1 /\ nodes'[fin].child_id = step
      /\ \A n \in DOMAIN nodes \ {cur} : nodes'[n] = nodes[n]
  BY <1>2, <1>3, <1>4 DEF Insert, AFTask
<1>6. Top(t)' = fin /\ cur_dpst_index'[t] # <<>>
  <2>1. cur_dpst_index'[t] = Append(cur_dpst_index[t], fin) /\ cur_dpst_index[t] \in Seq(Nat)
    BY <1>0, <1>4 DEF GraphTypeOK
  <2>2. QED  BY <1>3, <2>1 DEF Top
<1>7. /\ FreshElsewhere(t) = Fresh
      /\ FreshStep(t)' => Fresh' = Fresh \cup {new, fin}
      /\ ~FreshStep(t)' => Fresh' = Fresh \cup {new}
  BY <1>4, <1>6, FreshGrows
<1>8. \A n \in Fresh : n \in DOMAIN nodes \ {cur}
  BY <1>1, <1>2, <1>7, FreshElsewhereOwned DEF LInv, Top
<1>9. PICK es : es = <<Entry(fin, cur, FINISH, 0), Entry(new, fin, ASYNC, site)>>
  OBVIOUS
<1>10. Entry(fin, cur, FINISH, 0) \in LogEntry /\ Entry(new, fin, ASYNC, site) \in LogEntry
  BY <1>2, <1>3 DEF Entry, LogEntry
<1>11. /\ es \in Seq(LogEntry) /\ DOMAIN es = {1, 2} /\ Log(t, es)
       /\ es[1].node_id = fin /\ es[1].step_parent = cur
       /\ es[2].node_id = new /\ es[2].step_parent = fin
  BY <1>4, <1>9, <1>10 DEF Entry
<1>12. EntriesOf(es, {fin, new})
  <2>1. {fin, new} = {es[i].node_id : i \in DOMAIN es}
    BY <1>11
  <2>2. QED  BY <1>2, <1>3, <1>11, <2>1 DEF EntriesOf
<1>13. \A n \in Fresh : nodes'[n].child_id = nodes[n].child_id
  BY <1>5, <1>8
<1>14. CASE FreshStep(t)'
  <2>1. /\ fin .. fin + 3 = {fin, fin + 1, fin + 2, fin + 3} /\ fin + 4 - 1 = fin + 3
        /\ last_allocated_node' = fin + 4 /\ step = fin + 3
    BY <1>1, <1>3, <1>4, <1>14
  <2>2. HandsOut({new, fin}, {fin, new})
    BY <1>1, <1>3, <1>5, <1>7, <1>13, <1>14, <2>1 DEF HandsOut
  <2>3. QED  BY <1>6, <1>11, <1>12, <2>2, IdsAreHandedOut
<1>15. CASE ~FreshStep(t)'
  <2>1. /\ fin .. fin + 2 = {fin, fin + 1, fin + 2} /\ fin + 3 - 1 = fin + 2
        /\ last_allocated_node' = fin + 3
    BY <1>1, <1>3, <1>4, <1>15
  <2>2. HandsOut({new}, {fin, new})
    BY <1>1, <1>3, <1>5, <1>7, <1>13, <1>15, <2>1 DEF HandsOut
  <2>3. QED  BY <1>6, <1>11, <1>12, <2>2, IdsAreHandedOut
<1>16. QED  BY <1>14, <1>15

LEMMA SpawnAndWaitGivesIds ==
    ASSUME IInv, IInv', LInv, NEW t \in Threads, ~FreshStep(t), ~FreshStep(t)', OthersStay(t),
           NEW k, k \notin DOMAIN temp_cur_map, NEW site \in Nat, CaptureSpawnAndWait(t, k, site)
    PROVE  LInv'
<1>0. TypeOK /\ NodeOwnership /\ GraphTypeOK
  BY DEF IInv, TypeOK
<1>1. PICK cur, fin : cur = Top(t) /\ fin = last_allocated_node
  OBVIOUS
<1>2. cur_dpst_index[t] # <<>>
  BY DEF CaptureSpawnAndWait
<1>3. /\ cur \in DOMAIN nodes /\ cur \in Nat /\ nodes[cur] \in AFTask
      /\ Len(cur_dpst_index[t]) \in DOMAIN cur_dpst_index[t]
  BY <1>0, <1>1, <1>2, TopAllocated DEF NodeOwnership
<1>4. fin \in Nat /\ fin > 0 /\ \A n \in DOMAIN nodes : n \in Nat /\ n < fin
  BY <1>0, <1>1 DEF GraphTypeOK
<1>5. /\ nodes' = Insert([nodes EXCEPT ![cur].young_ns_child = FINISH],
                         fin, [young_ns_child |-> NO_TYPE, sync_finish_flag |-> FALSE,
                               child_id |-> fin + 1])
      /\ last_allocated_node' = fin + 2 /\ Register(k, fin)
      /\ Log(t, <<Entry(fin, cur, FINISH, site)>>)
      /\ cur_dpst_index' = cur_dpst_index
  BY <1>1 DEF CaptureSpawnAndWait
<1>6. /\ nodes'[fin].child_id = fin + 1
      /\ \A n \in DOMAIN nodes \ {cur} : nodes'[n] = nodes[n]
  BY <1>3, <1>4, <1>5 DEF Insert, AFTask
<1>7. FreshElsewhere(t) = Fresh /\ Fresh' = Fresh \cup {fin}
  BY <1>5, FreshGrows
<1>8. \A n \in Fresh : n \in DOMAIN nodes \ {cur}
  BY <1>1, <1>3, <1>7, FreshElsewhereOwned DEF LInv, Top
<1>9. PICK es : es = <<Entry(fin, cur, FINISH, site)>>
  OBVIOUS
<1>10. Entry(fin, cur, FINISH, site) \in LogEntry
  BY <1>3, <1>4 DEF Entry, LogEntry
<1>11. /\ es \in Seq(LogEntry) /\ DOMAIN es = {1} /\ Log(t, es)
       /\ es[1].node_id = fin /\ es[1].step_parent = cur
  BY <1>5, <1>9, <1>10 DEF Entry
<1>12. EntriesOf(es, {fin})
  BY <1>3, <1>4, <1>11 DEF EntriesOf
<1>13. \A n \in Fresh : nodes'[n].child_id = nodes[n].child_id
  BY <1>6, <1>8
<1>14. fin .. fin + 1 = {fin, fin + 1} /\ fin + 2 - 1 = fin + 1
  BY <1>4
<1>15. HandsOut({fin}, {fin})
  <2>1. last_allocated_node' = fin + 2 /\ fin < fin + 1 /\ fin <= fin + 2 /\ fin # fin + 1
    BY <1>4, <1>5
  <2>2. QED  BY <1>1, <1>6, <1>7, <1>13, <1>14, <2>1 DEF HandsOut
<1>16. QED  BY <1>11, <1>12, <1>15, IdsAreHandedOut

\* After a join the thread goes on with a new step, whatever node is on top.
LEMMA JoinGivesId ==
    ASSUME IInv, IInv', LInv, NEW t \in Threads, ~FreshStep(t), FreshStep(t)', OthersStay(t),
           CaptureWait(t) \/ CaptureWaitOnly(t), report' = report
    PROVE  LInv'
<1>0. TypeOK /\ NodeOwnership /\ GraphTypeOK
  BY DEF IInv, TypeOK
<1>1. cur_dpst_index[t] \in Seq(Nat) /\ cur_dpst_index[t] # <<>>
  BY <1>0 DEF GraphTypeOK, CaptureWait, CaptureWaitOnly
<1>2. /\ Top(t) \in DOMAIN nodes
      /\ Len(cur_dpst_index[t]) \in DOMAIN cur_dpst_index[t]
  BY <1>0, <1>1, TopAllocated DEF NodeOwnership
<1>3. PICK m : m = last_allocated_node
  OBVIOUS
<1>4. /\ m \in Nat /\ m > 0 /\ \A n \in DOMAIN nodes : n \in Nat /\ n < m /\ nodes[n] \in AFTask
      /\ last_allocated_node' = m + 1 /\ temp_cur_map' = temp_cur_map
  BY <1>0, <1>3 DEF GraphTypeOK, CaptureWait, CaptureWaitOnly
<1>5. PICK b \in DOMAIN nodes :
         /\ \E i \in DOMAIN cur_dpst_index[t] : cur_dpst_index[t][i] = b
         /\ cur_dpst_index'[t] # <<>> /\ Top(t)' = b
         /\ nodes'[b].child_id = m
         /\ \A n \in DOMAIN nodes : n = b \/ nodes'[n] = nodes[n] \/ n = Top(t)
  <2>1. CASE CaptureWait(t)
    <3>1. /\ nodes' = [nodes EXCEPT ![Top(t)].child_id = m] /\ cur_dpst_index' = cur_dpst_index
      BY <1>3, <2>1 DEF CaptureWait
    <3>2. Top(t)' = Top(t)
      BY <3>1 DEF Top
    <3>3. nodes'[Top(t)].child_id = m
      BY <1>2, <1>4, <3>1 DEF AFTask
    <3>4. QED  BY <1>1, <1>2, <3>1, <3>2, <3>3 DEF Top
  <2>2. CASE CaptureWaitOnly(t)
    <3> DEFINE s == cur_dpst_index[t]
               b == s[Len(s) - 1]
    <3>1. /\ Len(s) > 1 /\ cur_dpst_index' = [cur_dpst_index EXCEPT ![t] = Popped(@)]
          /\ nodes' = [Erase(nodes, Top(t)) EXCEPT ![b].child_id = m]
      BY <1>3, <2>2 DEF CaptureWaitOnly
    <3>2. Len(s) - 1 \in DOMAIN s /\ Len(s) \in DOMAIN s /\ Len(s) - 1 # Len(s) /\ Len(s) - 1 \in 1 .. Len(s) - 1
      BY <1>1, <3>1
    <3>3. b \in DOMAIN nodes /\ b # Top(t)
      BY <1>0, <3>2 DEF NodeOwnership, NoDangling, OneOwner, Top
    <3>4. cur_dpst_index'[t] = Popped(s)
      BY <1>0, <3>1 DEF GraphTypeOK
    <3>5. Len(Popped(s)) = Len(s) - 1 /\ \A i \in 1 .. Len(s) - 1 : Popped(s)[i] = s[i]
      BY <1>1, PoppedStack
    <3>6. cur_dpst_index'[t] # <<>> /\ Top(t)' = b
      BY <3>1, <3>2, <3>4, <3>5 DEF Top
    <3>7. /\ nodes'[b].child_id = m
          /\ \A n \in DOMAIN nodes : n = b \/ nodes'[n] = nodes[n] \/ n = Top(t)
      <4>1. /\ DOMAIN Erase(nodes, Top(t)) = DOMAIN nodes \ {Top(t)}
            /\ \A x \in DOMAIN nodes \ {Top(t)} : Erase(nodes, Top(t))[x] = nodes[x]
        BY Erased
      <4> DEFINE e == Erase(nodes, Top(t))
      <4>2. b \in DOMAIN e /\ e[b] \in AFTask /\ nodes' = [e EXCEPT ![b].child_id = m]
        BY <1>4, <3>1, <3>3, <4>1
      <4>3. \A n \in DOMAIN e : n # b => e[n] = nodes[n]
        BY <4>1
      <4>4. \A n \in DOMAIN nodes : n \in DOMAIN e \/ n = Top(t)
        BY <4>1
      <4> HIDE DEF e, b
      <4>5. nodes'[b].child_id = m
        BY <4>2 DEF AFTask
      <4>6. \A n \in DOMAIN e : n # b => nodes'[n] = e[n]
        BY <4>2
      <4>7. QED  BY <4>3, <4>4, <4>5, <4>6
    <3>8. QED  BY <3>2, <3>3, <3>6, <3>7
  <2>3. QED  BY <2>1, <2>2
<1>6. FreshElsewhere(t) = Fresh
  BY FreshHere
<1>7. \A n \in Fresh : n \in DOMAIN nodes /\ n # b /\ n # Top(t)
  BY <1>2, <1>5, <1>6, FreshElsewhereOwned DEF LInv, Top
<1>8. \A n \in Fresh : nodes'[n].child_id = nodes[n].child_id
  BY <1>5, <1>7
<1>9. Fresh' = Fresh \cup {b}
  <2>1. FreshElsewhere(t)' = FreshElsewhere(t)
    BY <1>4, FreshTopsStay DEF FreshElsewhere, InMap
  <2>2. QED  BY <1>5, <1>6, <2>1, FreshHereNext
<1>10. PICK es : es = <<>>
  OBVIOUS
<1>11. EntriesOf(es, {}) /\ Log(t, es)
  <2>1. EntriesOf(es, {})
    BY <1>10 DEF EntriesOf
  <2>2. report[t] \o es = report[t]
    BY <1>0, <1>10 DEF GraphTypeOK
  <2>3. report = [report EXCEPT ![t] = report[t]]
    BY <1>0 DEF GraphTypeOK
  <2>4. QED  BY <2>1, <2>2, <2>3 DEF Log
<1>12. HandsOut({b}, {})
  <2>1. m .. m = {m} /\ m + 1 - 1 = m
    BY <1>4
  <2>2. QED  BY <1>3, <1>4, <1>5, <1>8, <1>9, <2>1 DEF HandsOut
<1>13. QED  BY <1>5, <1>11, <1>12, IdsAreHandedOut

(******************************************************************************)
(* The actions                                                                *)
(******************************************************************************)

LEMMA IdsStay ==
    ASSUME LInv, Fresh' = Fresh, FreshHaveNodes', UNCHANGED <<nodes, last_allocated_node, report>>
    PROVE  LInv'
<1>1. IdsUnique' /\ LoggedIds' = LoggedIds
  BY DEF LInv, IdsUnique, LoggedIds, Entries, Logged
<1>2. IdsWait(Fresh, nodes, LoggedIds, last_allocated_node)'
  BY <1>1 DEF LInv, IdsWait
<1>3. QED  BY <1>1, <1>2 DEF LInv

\* After SetTop, whether the thread is in a step shows in its new frame.
LEMMA FreshAfterSet ==
    ASSUME TypeOK, NEW t \in Threads, frames[t] # <<>>, NEW g \in Frame, SetTop(t, g),
           finished' = finished
    PROVE  /\ \A u \in Threads \ {t} : frames'[u] = frames[u]
           /\ FreshStep(t)' <=> \/ g.at = "run" /\ ~finished
                                \/ g.at = "captured" /\ g.op = "spawn"
<1>1. /\ \A u \in Threads \ {t} : frames'[u] = frames[u]
      /\ frames'[t] # <<>> /\ TopFrame(t)' = g
  BY TopSet
<1>2. QED  BY <1>1 DEF FreshStep, At

LEMMA SpawnEntryLogs ==
    ASSUME CollectionAssumption, IInv, IInv', LInv, NEW t \in Threads,
           NEW op \in {"spawn", "root", "both"}, SpawnEntry(t, op)
    PROVE  LInv'
<1> DEFINE f == TopFrame(t)
           k == task_id_ctr + 1
           g == [f EXCEPT !.at = "capture", !.op = op, !.kid = k]
<1>0. TypeOK
  BY DEF IInv
<1>1. /\ frames[t] # <<>> /\ f.at = "run" /\ ~finished /\ SetTop(t, g) /\ task_id_ctr < MaxTasks
      /\ Log(t, <<Entry(getCurStepId(t), getCurStepParent(t), STEP, 0)>>)
      /\ UNCHANGED <<graph, finished>>
  BY DEF SpawnEntry, At, LogStep
<1>2. f \in Frame /\ k \in Tasks
  BY <1>0, <1>1, TopFrameTyped DEF TypeOK, Tasks, CollectionAssumption
<1>3. g \in Frame /\ g.at = "capture"
  BY <1>2 DEF Frame
<1>4. FreshStep(t)
  BY <1>1 DEF FreshStep, At
<1> HIDE DEF g
<1>5. ~FreshStep(t)' /\ OthersStay(t)
  BY <1>0, <1>1, <1>3, FreshAfterSet DEF OthersStay, graph
<1>6. UNCHANGED <<temp_cur_map, last_allocated_node>> /\ nodes' = nodes
  BY <1>1 DEF graph
<1>7. QED  BY <1>1, <1>4, <1>5, <1>6, StepIsLogged

LEMMA WaitEntryLogs ==
    ASSUME IInv, IInv', LInv, NEW t \in Threads, WaitEntry(t)
    PROVE  LInv'
<1> DEFINE f == TopFrame(t)
           g == [f EXCEPT !.at = "wait", !.op = "wait"]
<1>0. TypeOK
  BY DEF IInv
<1>1. /\ frames[t] # <<>> /\ f.at = "run" /\ ~finished /\ SetTop(t, g)
      /\ Log(t, <<Entry(getCurStepId(t), getCurStepParent(t), STEP, 0)>>)
      /\ UNCHANGED <<graph, finished>>
  BY DEF WaitEntry, At, LogStep
<1>2. f \in Frame
  BY <1>0, <1>1, TopFrameTyped
<1>3. g \in Frame /\ g.at = "wait"
  BY <1>2 DEF Frame
<1>4. FreshStep(t)
  BY <1>1 DEF FreshStep, At
<1> HIDE DEF g
<1>5. ~FreshStep(t)' /\ OthersStay(t)
  BY <1>0, <1>1, <1>3, FreshAfterSet DEF OthersStay, graph
<1>6. UNCHANGED <<temp_cur_map, last_allocated_node>> /\ nodes' = nodes
  BY <1>1 DEF graph
<1>7. QED  BY <1>1, <1>4, <1>5, <1>6, StepIsLogged

LEMMA ExecEndLogs ==
    ASSUME IInv, IInv', JInv, LInv, NEW t \in Threads, ExecEnd(t)
    PROVE  LInv'
<1>0. TypeOK /\ TypeOK' /\ NodeOwnership /\ HandOver /\ TasksPlaced /\ AllJoined
  BY DEF IInv, JInv
<1>1. /\ frames[t] # <<>> /\ At(t, "run") /\ TopFrame(t).task # MainTask
      /\ Log(t, <<Entry(getCurStepId(t), getCurStepParent(t), STEP, 0)>>)
      /\ CaptureReturn(t) /\ finished' = finished
      /\ frames' = [frames EXCEPT ![t] = Popped(@)]
  BY DEF ExecEnd, LogStep, At
<1>2. ~finished
  <2>1. SUFFICES ASSUME finished
                 PROVE  FALSE
    OBVIOUS
  <2>2. t = Main /\ Len(frames[Main]) = 1
    BY <1>0, <1>1, <2>1 DEF AllJoined
  <2>3. QED  BY <1>0, <1>1, <2>2 DEF TasksPlaced, MainAtBottom, TopFrame
<1>3. FreshStep(t)
  BY <1>1, <1>2 DEF FreshStep
<1>4. /\ \A u \in Threads \ {t} : frames'[u] = frames[u]
      /\ Len(frames'[t]) = Len(frames[t]) - 1
      /\ \A i \in 1 .. Len(frames[t]) - 1 : frames'[t][i] = frames[t][i]
  BY <1>0, <1>1, FramePopped
<1>5. ~FreshStep(t)'
  <2>1. frames'[t] \in Seq(Frame) /\ Len(frames[t]) \in Nat \ {0}
    BY <1>0, <1>1, TopFrameTyped DEF TypeOK
  <2>2. frames'[t] # <<>> => Len(frames[t]) - 1 \in 1 .. Len(frames[t]) - 1
    BY <1>4, <2>1
  <2>3. frames'[t] # <<>> => TopFrame(t)'.at = "wait"
    BY <1>0, <1>4, <2>2 DEF TopFrame, HandOver
  <2>4. QED  BY <2>3 DEF FreshStep, At
<1>6. /\ UNCHANGED <<temp_cur_map, last_allocated_node>>
      /\ \A u \in Threads \ {t} : cur_dpst_index'[u] = cur_dpst_index[u]
  BY <1>0 , <1>1 DEF CaptureReturn, TypeOK, GraphTypeOK
<1>7. OthersStay(t)
  BY <1>1, <1>4, <1>6 DEF OthersStay
<1>8. ASSUME NEW n \in FreshElsewhere(t)
      PROVE  nodes'[n] = nodes[n]
  <2>1. n \in DOMAIN nodes /\ \A i \in DOMAIN cur_dpst_index[t] : cur_dpst_index[t][i] # n
    BY <1>8, FreshElsewhereOwned DEF LInv
  <2>2. /\ cur_dpst_index[t] \in Seq(Nat) /\ cur_dpst_index[t] # <<>>
        /\ Len(cur_dpst_index[t]) \in DOMAIN cur_dpst_index[t]
        /\ Len(cur_dpst_index[t]) > 1 => Len(cur_dpst_index[t]) - 1 \in DOMAIN cur_dpst_index[t]
    BY <1>0, <1>1 DEF CaptureReturn, TypeOK, GraphTypeOK
  <2>3. /\ Top(t) # n
        /\ Len(cur_dpst_index[t]) > 1 => cur_dpst_index[t][Len(cur_dpst_index[t]) - 1] # n
    BY <2>1, <2>2 DEF Top
  <2>4. QED  BY <1>1, <2>1, <2>3 DEF CaptureReturn, Erase
<1>9. QED  BY <1>1, <1>3, <1>5, <1>6, <1>7, <1>8, StepIsLogged

LEMMA FiniLogs ==
    ASSUME IInv, IInv', JInv', LInv, Fini
    PROVE  LInv'
<1>1. /\ At(Main, "run") /\ ~finished /\ finished'
      /\ Log(Main, <<Entry(getCurStepId(Main), getCurStepParent(Main), STEP, 0)>>)
      /\ UNCHANGED <<graph, frames>>
  BY DEF Fini, LogStep
<1>2. Main \in Threads /\ FreshStep(Main)
  BY <1>1 DEF FreshStep, Threads
<1>3. ~FreshStep(Main)'
  BY <1>1 DEF FreshStep, At, TopFrame
<1>4. \A u \in Threads \ {Main} : frames[u] = <<>>
  BY <1>1 DEF JInv, AllJoined
<1>5. OthersStay(Main)
  BY <1>1, <1>4 DEF OthersStay, graph
<1>6. UNCHANGED <<temp_cur_map, last_allocated_node>> /\ nodes' = nodes
  BY <1>1 DEF graph
<1>7. QED  BY <1>1, <1>2, <1>3, <1>5, <1>6, StepIsLogged

LEMMA SpawnCaptureLogs ==
    ASSUME CollectionAssumption, IInv, IInv', LInv, NEW t \in Threads, SpawnCapture(t)
    PROVE  LInv'
<1>0. TypeOK /\ HandOver
  BY DEF IInv
<1>1. PICK site \in SpawnSites \cup RootSites : SpawnCaptureAt(t, site)
  BY DEF SpawnCapture
<1> DEFINE f == TopFrame(t)
           young == IF f.op # "root" THEN "spawned"
                    ELSE IF f.young = "none" THEN "none" ELSE "rooted"
           g == [f EXCEPT !.at = "captured", !.young = young]
<1>2. PICK k : k = f.kid
  OBVIOUS
<1>3. /\ frames[t] # <<>> /\ f.at = "capture" /\ At(t, "capture") /\ SetTop(t, g) /\ finished' = finished
      /\ \/ f.op = "spawn" /\ CaptureSpawnOnly(t, k, site)
         \/ f.op = "root" /\ CaptureSpawnAndWait(t, k, site)
         \/ f.op = "both" /\ CaptureSpawnAndWaitForAll(t, k, site)
  <2>1. \/ f.op = "spawn" /\ CaptureSpawnOnly(t, f.kid, site)
        \/ f.op = "root" /\ CaptureSpawnAndWait(t, f.kid, site)
        \/ f.op = "both" /\ CaptureSpawnAndWaitForAll(t, f.kid, site)
    BY <1>1 DEF SpawnCaptureAt
  <2>2. frames[t] # <<>> /\ f.at = "capture" /\ At(t, "capture") /\ SetTop(t, g) /\ finished' = finished
    BY <1>1 DEF SpawnCaptureAt, At
  <2>3. CASE f.op = "spawn" /\ CaptureSpawnOnly(t, f.kid, site)
    <3>1. CaptureSpawnOnly(t, k, site)
      BY <1>2, <2>3 DEF CaptureSpawnOnly, AddAsync, AddFinishAndAsync, Register
    <3>2. QED  BY <2>2, <2>3, <3>1
  <2>4. CASE f.op = "root" /\ CaptureSpawnAndWait(t, f.kid, site)
    <3>1. CaptureSpawnAndWait(t, k, site)
      BY <1>2, <2>4 DEF CaptureSpawnAndWait, Register
    <3>2. QED  BY <2>2, <2>4, <3>1
  <2>5. CASE f.op = "both" /\ CaptureSpawnAndWaitForAll(t, f.kid, site)
    <3>1. CaptureSpawnAndWaitForAll(t, k, site)
      BY <1>2, <2>5 DEF CaptureSpawnAndWaitForAll, AddAsync, AddFinishAndAsync, Register
    <3>2. QED  BY <2>2, <2>5, <3>1
  <2>6. QED  BY <2>1, <2>3, <2>4, <2>5
<1>4. f \in Frame /\ site \in Nat /\ k \notin DOMAIN temp_cur_map
  BY <1>0, <1>2, <1>3, TopFrameTyped DEF CollectionAssumption, HandOver
<1>5. g \in Frame /\ g.at = "captured" /\ g.op = f.op
  BY <1>4 DEF Frame
<1>6. ~FreshStep(t)
  BY <1>3 DEF FreshStep, At
<1> HIDE DEF g
<1>7. /\ \A u \in Threads \ {t} : frames'[u] = frames[u]
      /\ FreshStep(t)' <=> f.op = "spawn"
  BY <1>0, <1>3, <1>5, FreshAfterSet
<1>8. \A u \in Threads \ {t} : cur_dpst_index'[u] = cur_dpst_index[u]
  BY <1>0, <1>3 DEF CaptureSpawnOnly, CaptureSpawnAndWait, CaptureSpawnAndWaitForAll,
                    AddAsync, AddFinishAndAsync, TypeOK, GraphTypeOK
<1>9. OthersStay(t)
  BY <1>3, <1>7, <1>8 DEF OthersStay
<1> DEFINE m == last_allocated_node
<1>10. CASE f.op = "spawn" /\ CaptureSpawnOnly(t, k, site)
  <2>1. PICK step, last, longer :
           /\ step = m + 2 /\ last = m + 3 /\ longer = m + 4
           /\ cur_dpst_index[t] # <<>>
           /\ \/ AddAsync(t, k, site, step, last)
              \/ AddFinishAndAsync(t, k, site, last, longer)
    <3>1. PICK step, last, longer : step = m + 2 /\ last = m + 3 /\ longer = m + 4
      OBVIOUS
    <3>2. CASE AddAsync(t, k, site, m + 2, m + 3)
      <4>1. AddAsync(t, k, site, step, last)
        BY <3>1, <3>2 DEF AddAsync
      <4>2. QED  BY <1>10, <3>1, <4>1 DEF CaptureSpawnOnly
    <3>3. CASE AddFinishAndAsync(t, k, site, m + 3, m + 4)
      <4>1. AddFinishAndAsync(t, k, site, last, longer)
        BY <3>1, <3>3 DEF AddFinishAndAsync
      <4>2. QED  BY <1>10, <3>1, <4>1 DEF CaptureSpawnOnly
    <3>4. QED  BY <1>10, <3>2, <3>3 DEF CaptureSpawnOnly
  <2>2. FreshStep(t)'
    BY <1>7, <1>10
  <2>3. CASE AddAsync(t, k, site, step, last)
    BY <1>4, <1>6, <1>9, <2>1, <2>2, <2>3, AddAsyncGivesIds
  <2>4. CASE AddFinishAndAsync(t, k, site, last, longer)
    BY <1>4, <1>6, <1>9, <2>1, <2>2, <2>4, AddFinishAndAsyncGivesIds
  <2>5. QED  BY <2>1, <2>3, <2>4
<1>11. CASE f.op = "root" /\ CaptureSpawnAndWait(t, k, site)
  <2>1. ~FreshStep(t)'
    BY <1>7, <1>11
  <2>2. QED  BY <1>4, <1>6, <1>9, <1>11, <2>1, SpawnAndWaitGivesIds
<1>12. CASE f.op = "both" /\ CaptureSpawnAndWaitForAll(t, k, site)
  <2>1. PICK step, last, longer :
           /\ last = m + 2 /\ longer = m + 3
           /\ cur_dpst_index[t] # <<>>
           /\ \/ AddAsync(t, k, site, step, last)
              \/ AddFinishAndAsync(t, k, site, step, longer)
    <3>1. PICK step, none, last, longer :
             step = nodes[Top(t)].child_id /\ none = 0 /\ last = m + 2 /\ longer = m + 3
      OBVIOUS
    <3>2. CASE AddAsync(t, k, site, nodes[Top(t)].child_id, m + 2)
      <4>1. AddAsync(t, k, site, step, last)
        BY <3>1, <3>2 DEF AddAsync
      <4>2. QED  BY <1>12, <3>1, <4>1 DEF CaptureSpawnAndWaitForAll
    <3>3. CASE AddFinishAndAsync(t, k, site, 0, m + 3)
      <4>1. AddFinishAndAsync(t, k, site, none, longer)
        BY <3>1, <3>3 DEF AddFinishAndAsync
      <4>2. QED  BY <1>12, <3>1, <4>1 DEF CaptureSpawnAndWaitForAll
    <3>4. QED  BY <1>12, <3>2, <3>3 DEF CaptureSpawnAndWaitForAll
  <2>2. ~FreshStep(t)'
    BY <1>7, <1>12
  <2>3. CASE AddAsync(t, k, site, step, last)
    BY <1>4, <1>6, <1>9, <2>1, <2>2, <2>3, AddAsyncGivesIds
  <2>4. CASE AddFinishAndAsync(t, k, site, step, longer)
    BY <1>4, <1>6, <1>9, <2>1, <2>2, <2>4, AddFinishAndAsyncGivesIds
  <2>5. QED  BY <2>1, <2>3, <2>4
<1>13. QED  BY <1>3, <1>10, <1>11, <1>12

LEMMA SpawnExitLogs ==
    ASSUME IInv, IInv', JInv, LInv, NEW t \in Threads, SpawnExit(t)
    PROVE  LInv'
<1> DEFINE f == TopFrame(t)
           g == [f EXCEPT !.at = "run", !.op = "none", !.kid = f.task]
<1>0. TypeOK
  BY DEF IInv
<1>1. /\ frames[t] # <<>> /\ At(t, "captured") /\ f.op = "spawn" /\ f.at = "captured" /\ SetTop(t, g)
      /\ UNCHANGED <<graph, report, finished>>
  BY DEF SpawnExit, At
<1>2. ~finished
  BY <1>1, NotFinished DEF JInv, At
<1>3. f \in Frame
  BY <1>0, <1>1, TopFrameTyped
<1>4. g \in Frame /\ g.at = "run"
  BY <1>3 DEF Frame
<1>5. FreshStep(t)
  BY <1>1 DEF FreshStep
<1> HIDE DEF g
<1>6. /\ \A u \in Threads \ {t} : frames'[u] = frames[u]
      /\ FreshStep(t)'
  BY <1>0, <1>1, <1>2, <1>4, FreshAfterSet
<1>7. /\ OthersStay(t) /\ temp_cur_map' = temp_cur_map /\ Top(t)' = Top(t)
      /\ cur_dpst_index'[t] = cur_dpst_index[t]
  BY <1>1, <1>6 DEF OthersStay, graph, Top
<1>8. Fresh' = Fresh
  <2>1. FreshElsewhere(t)' = FreshElsewhere(t)
    BY <1>7, FreshTopsStay DEF FreshElsewhere, InMap
  <2>2. QED  BY <1>5, <1>6, <1>7, <2>1, FreshHere, FreshHereNext
<1>9. FreshHaveNodes'
  BY <1>5, <1>7, FreshHaveNodesStay DEF LInv, FreshHaveNodes
<1>10. QED  BY <1>1, <1>8, <1>9, IdsStay DEF graph

LEMMA JoinLogs ==
    ASSUME IInv, IInv', JInv, LInv, NEW t \in Threads, Join(t)
    PROVE  LInv'
<1> DEFINE f == TopFrame(t)
           g == [f EXCEPT !.at = "run", !.op = "none", !.kid = f.task,
                          !.young = IF f.op = "root" THEN f.young ELSE "none"]
<1>0. TypeOK
  BY DEF IInv
<1>1. /\ frames[t] # <<>> /\ f.at = "wait" /\ SetTop(t, g)
      /\ CaptureWait(t) \/ CaptureWaitOnly(t)
      /\ UNCHANGED <<report, finished>>
  BY DEF Join, At
<1>2. ~finished
  BY <1>1, NotFinished DEF JInv, At
<1>3. f \in Frame
  BY <1>0, <1>1, TopFrameTyped
<1>4. g \in Frame /\ g.at = "run"
  BY <1>3 DEF Frame
<1>5. ~FreshStep(t)
  BY <1>1 DEF FreshStep, At
<1> HIDE DEF g
<1>6. /\ \A u \in Threads \ {t} : frames'[u] = frames[u]
      /\ FreshStep(t)'
  BY <1>0, <1>1, <1>2, <1>4, FreshAfterSet
<1>7. \A u \in Threads \ {t} : cur_dpst_index'[u] = cur_dpst_index[u]
  BY <1>0, <1>1 DEF CaptureWait, CaptureWaitOnly, TypeOK, GraphTypeOK
<1>8. OthersStay(t)
  BY <1>1, <1>6, <1>7 DEF OthersStay
<1>9. QED  BY <1>1, <1>5, <1>6, <1>8, JoinGivesId

\* A task that begins takes its node's first step with it.
LEMMA BeginKeepsIds ==
    ASSUME IInv, IInv', LInv, NEW t \in Threads, ~FreshStep(t), ~finished,
           NEW k \in DOMAIN temp_cur_map, k \in Tasks, NEW s \in Seq(Frame),
           frames' = [frames EXCEPT ![t] = Append(s, NewFrame(k, Len(cur_dpst_index[t])))],
           Begin(t, k)
    PROVE  LInv'
<1>0. TypeOK /\ GraphTypeOK
  BY DEF IInv, TypeOK
<1>1. PICK n : n = temp_cur_map[k]
  OBVIOUS
<1>2. /\ temp_cur_map' = Erase(temp_cur_map, k)
      /\ cur_dpst_index' = [cur_dpst_index EXCEPT ![t] = Append(@, n)]
      /\ UNCHANGED <<nodes, last_allocated_node, report, finished>>
  BY <1>1 DEF Begin, CaptureExecute
<1>3. /\ \A u \in Threads \ {t} : frames'[u] = frames[u]
      /\ TopFrame(t)' = NewFrame(k, Len(cur_dpst_index[t]))
      /\ Len(frames'[t]) = Len(s) + 1 /\ frames' \in [Threads -> Seq(Frame)]
  BY <1>0, FrameBegins
<1>4. FreshStep(t)'
  <2>1. TopFrame(t)'.at = "run"
    BY <1>3 DEF NewFrame
  <2>2. frames'[t] # <<>>
    BY <1>3
  <2>3. QED  BY <1>2, <2>1, <2>2 DEF FreshStep, At
<1>5. /\ \A u \in Threads \ {t} : cur_dpst_index'[u] = cur_dpst_index[u]
      /\ cur_dpst_index'[t] # <<>> /\ Top(t)' = n
  <2>1. n \in Nat
    BY <1>0, <1>1 DEF GraphTypeOK
  <2>2. cur_dpst_index'[t] = Append(cur_dpst_index[t], n) /\ cur_dpst_index[t] \in Seq(Nat)
    BY <1>0, <1>2 DEF GraphTypeOK
  <2>3. cur_dpst_index'[t] # <<>> /\ Top(t)' = n
    BY <2>1, <2>2 DEF Top
  <2>4. QED  BY <1>0, <1>2, <2>3 DEF GraphTypeOK
<1>6. OthersStay(t)
  BY <1>2, <1>3, <1>5 DEF OthersStay
<1>7. InMap = InMap' \cup {n}
  <2>1. /\ DOMAIN temp_cur_map' = DOMAIN temp_cur_map \ {k}
        /\ \A j \in DOMAIN temp_cur_map \ {k} : temp_cur_map'[j] = temp_cur_map[j]
    BY <1>2, Erased
  <2>2. \A x : x \in InMap' <=> \E j \in DOMAIN temp_cur_map' : x = temp_cur_map'[j]
    BY DEF InMap
  <2>3. \A x : x \in InMap <=> \E j \in DOMAIN temp_cur_map : x = temp_cur_map[j]
    BY DEF InMap
  <2>4. QED  BY <1>1, <2>1, <2>2, <2>3
<1>8. Fresh' = Fresh
  <2>1. FreshTops(Threads \ {t})' = FreshTops(Threads \ {t})
    BY <1>6, FreshTopsStay
  <2>2. Fresh' = FreshTops(Threads \ {t})' \cup InMap' \cup {n}
    BY <1>4, <1>5, FreshHereNext DEF FreshElsewhere
  <2>3. Fresh = FreshTops(Threads \ {t}) \cup InMap
    BY FreshHere DEF FreshElsewhere
  <2>4. QED  BY <1>7, <2>1, <2>2, <2>3
<1>9. FreshHaveNodes'
  BY <1>5, <1>6, FreshHaveNodesStay DEF LInv
<1>10. QED  BY <1>2, <1>8, <1>9, IdsStay

\* After Fini no task waits in the map.
LEMMA MapEmptyAfterFini ==
    ASSUME HandOver, JInv, finished
    PROVE  DOMAIN temp_cur_map = {} /\ InMap = {}
<1>1. DOMAIN temp_cur_map = {}
  BY DEF HandOver, JInv, AllJoined, TasksPlaced, EndedApart
<1>2. QED  BY <1>1 DEF InMap

LEMMA TakeTaskLogs ==
    ASSUME IInv, IInv', JInv, LInv, NEW t \in Threads, NEW k \in Tasks, TakeTask(t, k)
    PROVE  LInv'
<1>1. /\ k \in DOMAIN temp_cur_map
      /\ frames' = [frames EXCEPT ![t] =
                      Append(frames[t], NewFrame(k, Len(cur_dpst_index[t])))]
      /\ Begin(t, k)
  BY DEF TakeTask, IInv, HandOver
<1>2. frames[t] \in Seq(Frame)
  BY DEF IInv, TypeOK
<1>3. ~FreshStep(t)
  BY DEF TakeTask, FreshStep, At
<1>4. ~finished
  BY <1>1, MapEmptyAfterFini DEF IInv
<1>5. QED  BY <1>1, <1>2, <1>3, <1>4, BeginKeepsIds

LEMMA RunChildLogs ==
    ASSUME IInv, IInv', JInv, LInv, NEW t \in Threads, RunChild(t)
    PROVE  LInv'
<1> DEFINE f == TopFrame(t)
           s == WithTop(t, [f EXCEPT !.at = "wait"])
<1>1. PICK k : k = f.kid
  OBVIOUS
<1>2. /\ frames[t] # <<>> /\ f.at = "captured" /\ At(t, "captured") /\ f.op \in {"root", "both"}
      /\ frames' = [frames EXCEPT ![t] = Append(s, NewFrame(k, Len(cur_dpst_index[t])))]
      /\ Begin(t, k)
  <2>1. Begin(t, k)
    BY <1>1 DEF RunChild, Begin, CaptureExecute
  <2>2. QED  BY <1>1, <2>1 DEF RunChild, At
<1>3. k \in DOMAIN temp_cur_map /\ k \in Tasks
  BY <1>1, <1>2 DEF IInv, HandOver, TypeOK
<1>4. /\ f \in Frame /\ frames[t] \in Seq(Frame)
      /\ Len(frames[t]) \in Nat \ {0} /\ DOMAIN frames[t] = 1 .. Len(frames[t])
  BY <1>2, TopFrameTyped DEF IInv
<1>5. s \in Seq(Frame)
  <2>1. [f EXCEPT !.at = "wait"] \in Frame
    BY <1>4 DEF Frame
  <2>2. QED  BY <1>4, <2>1, ExceptSeq DEF WithTop
<1>6. ~FreshStep(t)
  BY <1>2 DEF FreshStep, At
<1>7. ~finished
  BY <1>3, MapEmptyAfterFini DEF IInv
<1> HIDE DEF s
<1>8. QED  BY <1>2, <1>3, <1>5, <1>6, <1>7, BeginKeepsIds

LEMMA InitLogs ==
    ASSUME CollectionAssumption, MainAssumption, Init
    PROVE  LInv
<1> DEFINE m == NewFrame(MainTask, 0)
           e == Entry(1, 0, FINISH, 0)
<1>1. /\ frames = [t \in Threads |-> IF t = Main THEN <<m>> ELSE <<>>] /\ Main \in Threads
      /\ cur_dpst_index = [t \in Threads |-> IF t = Main THEN <<1>> ELSE <<>>]
      /\ report = [t \in Threads |-> IF t = Main THEN <<e>> ELSE <<>>]
      /\ ~finished /\ DOMAIN temp_cur_map = {} /\ last_allocated_node = 3
      /\ nodes[1].child_id = 2
  BY DEF Init, GraphInit, Threads
<1>2. m.at = "run" /\ e.node_id = 1 /\ e.step_parent = 0
  BY DEF NewFrame, Entry
<1> HIDE DEF m, e
<1>3. \A t \in Threads : FreshStep(t) <=> t = Main
  BY <1>1, <1>2 DEF FreshStep, At, TopFrame
<1>4. Top(Main) = 1 /\ cur_dpst_index[Main] # <<>>
  BY <1>1 DEF Top
<1>5. InMap = {}
  BY <1>1 DEF InMap
<1>6. Fresh = {1}
  BY <1>1, <1>3, <1>4, <1>5 DEF Fresh, FreshTops
<1>7. FreshHaveNodes
  BY <1>3, <1>4 DEF FreshHaveNodes
<1>8. /\ DOMAIN report[Main] = {1} /\ report[Main][1] = e
      /\ \A t \in Threads \ {Main} : DOMAIN report[t] = {}
  BY <1>1
<1>9. Logged(Main) = {e} /\ \A t \in Threads \ {Main} : Logged(t) = {}
  BY <1>8 DEF Logged
<1>10. Entries = {e}
  <2>1. \A x : x \in Entries <=> \E t \in Threads : x \in Logged(t)
    BY DEF Entries
  <2>2. QED  BY <1>1, <1>9, <2>1
<1>11. LoggedIds = {1}
  BY <1>2, <1>10 DEF LoggedIds
<1>12. IdsUnique
  BY <1>1, <1>2, <1>8, <1>9, <1>10 DEF IdsUnique
<1>13. 1 .. 3 - 1 = {1, 2}
  OBVIOUS
<1>14. IdsWait(Fresh, nodes, LoggedIds, last_allocated_node)
  BY <1>1, <1>6, <1>11, <1>13 DEF IdsWait
<1>15. QED  BY <1>7, <1>12, <1>14 DEF LInv

LEMMA NextLogs ==
    ASSUME CollectionAssumption, IInv, IInv', JInv, JInv', LInv, [Next]_vars
    PROVE  LInv'
<1>1. ASSUME NEW t \in Threads, ThreadStep(t)
      PROVE  LInv'
  <2>1. ASSUME NEW op \in {"spawn", "root", "both"}, SpawnEntry(t, op)
        PROVE  LInv'
    BY <2>1, SpawnEntryLogs
  <2>2. CASE SpawnCapture(t)
    BY <2>2, SpawnCaptureLogs
  <2>3. CASE SpawnExit(t)
    BY <2>3, SpawnExitLogs
  <2>4. CASE WaitEntry(t)
    BY <2>4, WaitEntryLogs
  <2>5. CASE Join(t)
    BY <2>5, JoinLogs
  <2>6. ASSUME NEW k \in Tasks, TakeTask(t, k)
        PROVE  LInv'
    BY <2>6, TakeTaskLogs
  <2>7. CASE RunChild(t)
    BY <2>7, RunChildLogs
  <2>8. CASE ExecEnd(t)
    BY <2>8, ExecEndLogs
  <2>9. QED  BY <1>1, <2>1, <2>2, <2>3, <2>4, <2>5, <2>6, <2>7, <2>8 DEF ThreadStep
<1>2. CASE Fini
  BY <1>2, FiniLogs
<1>3. CASE UNCHANGED vars
  <2>1. UNCHANGED <<nodes, cur_dpst_index, temp_cur_map, last_allocated_node, report, frames, finished>>
    BY <1>3 DEF vars, graph, scheduler
  <2>2. \A t \in Threads : (FreshStep(t)' <=> FreshStep(t)) /\ Top(t)' = Top(t)
    BY <2>1 DEF FreshStep, At, TopFrame, Top
  <2>3. \A n : n \in Fresh' <=> n \in InMap' \/ \E u \in Threads : FreshStep(u)' /\ n = Top(u)'
    BY DEF Fresh, FreshTops
  <2>4. \A n : n \in Fresh <=> n \in InMap \/ \E u \in Threads : FreshStep(u) /\ n = Top(u)
    BY DEF Fresh, FreshTops
  <2>5. InMap' = InMap
    BY <2>1 DEF InMap
  <2>6. Fresh' = Fresh
    BY <2>2, <2>3, <2>4, <2>5
  <2>7. FreshHaveNodes'
    BY <2>1, <2>2 DEF LInv, FreshHaveNodes
  <2>8. QED  BY <2>1, <2>6, <2>7, IdsStay
<1>4. QED  BY <1>1, <1>2, <1>3 DEF Next, Terminated

\* In every state the ids that have been handed out are those that have been
\* logged and those that wait in a fresh node, each in one place.
THEOREM IdsAccountedFor == Spec => []LInv
<1>1. Init => LInv
  BY InitLogs, CollectionAssumption, MainAssumption
<1>2. IInv /\ IInv' /\ JInv /\ JInv' /\ LInv /\ [Next]_vars => LInv'
  BY NextLogs, CollectionAssumption
<1>3. QED  BY <1>1, <1>2, Invariance, Placement, PTL DEF Spec

\* create_node's ids and the steps' ids come from one counter, and no id is
\* logged twice, though a step's id is drawn long before it is logged.
THEOREM UniqueIds == Spec => []IdsUnique
<1>1. LInv => IdsUnique
  BY DEF LInv
<1>2. QED  BY <1>1, IdsAccountedFor, PTL

\* After Fini no id is missing from the reports, so the analysis, which takes
\* their number for the largest, finds every one.
THEOREM CompleteLog == Spec => []LogComplete
<1>1. IInv /\ JInv /\ LInv => LogComplete
  <2> SUFFICES ASSUME IInv, JInv, LInv, finished
               PROVE  LoggedIds = 1 .. last_allocated_node - 1
    BY DEF LogComplete
  <2>1. InMap = {}
    BY MapEmptyAfterFini DEF IInv
  <2>2. \A t \in Threads : ~FreshStep(t)
    BY DEF FreshStep, JInv, AllJoined, At
  <2>3. Fresh = {}
    BY <2>1, <2>2 DEF Fresh, FreshTops
  <2>4. QED  BY <2>3 DEF LInv, IdsWait
<1>2. QED  BY <1>1, Invariance, Placement, IdsAccountedFor, PTL

(******************************************************************************)
(* The stack of a thread.                                                     *)
(*                                                                            *)
(* What a Capture call does to the stack depends on two flags of the top      *)
(* node, so the invariant says what they are: young_ns_child is ASYNC in the  *)
(* implicit FINISH of a task that may go on spawning and in no task's node,   *)
(* and sync_finish_flag is set in the implicit FINISH and nowhere else.       *)
(******************************************************************************)

Height(f) == IF f.young = "none" THEN 1 ELSE 2

PlainNode(n) ==
    n \in DOMAIN nodes /\ ~nodes[n].sync_finish_flag /\ nodes[n].young_ns_child # ASYNC

ImplicitFinish(n, young) ==
    /\ n \in DOMAIN nodes /\ nodes[n].sync_finish_flag
    /\ young = "spawned" => nodes[n].young_ns_child = ASYNC
    /\ young = "rooted" => nodes[n].young_ns_child # ASYNC

\* The nodes of frame f are on the stack, from its base up.
Placed(f, stack) ==
    /\ f.base + Height(f) <= Len(stack)
    /\ stack[f.base + 1] = nodeOf[f.task]
    /\ PlainNode(stack[f.base + 1])
    /\ f.young # "none" => ImplicitFinish(stack[f.base + 2], f.young)

\* Without spawns after roots and empty waits: a Capture call finds the FINISH
\* it can put an ASYNC node under, and a wait one it can take down.
Habits(f) ==
    /\ f.at = "capture" /\ f.op # "root" => f.young # "rooted"
    /\ f.at \in {"captured", "wait"} /\ f.op # "root" => f.young # "none"

\* The nodes of a thread's frames, one after the other, are its stack.
Contiguous(s, stack) ==
    /\ s = <<>> => stack = <<>>
    /\ s # <<>> => s[1].base = 0 /\ s[Len(s)].base + Height(s[Len(s)]) = Len(stack)
    /\ \A i \in 1 .. Len(s) - 1 : s[i + 1].base = s[i].base + Height(s[i])
    /\ \A i, j \in 1 .. Len(s) : i < j => s[i].base + Height(s[i]) <= s[j].base

Stacked(t) ==
    /\ Contiguous(frames[t], cur_dpst_index[t])
    /\ \A i \in 1 .. Len(frames[t]) : Placed(frames[t][i], cur_dpst_index[t]) /\ Habits(frames[t][i])

WaitingArePlainNodes == \A k \in DOMAIN temp_cur_map : PlainNode(temp_cur_map[k])

SInv == (\A t \in Threads : Stacked(t)) /\ WaitingArePlainNodes

\* Node n is as it was.
Kept(n) == n \in DOMAIN nodes' /\ nodes'[n] = nodes[n]

LEMMA HeightRange ==
    ASSUME NEW f
    PROVE  Height(f) \in {1, 2} /\ (Height(f) = 2 <=> f.young # "none")
  BY DEF Height

LEMMA KeepsPlace ==
    ASSUME NEW s, NEW r, NEW f \in Frame, NEW g \in Frame, Placed(f, s),
           g.base = f.base, g.task = f.task, g.young = f.young,
           Len(r) \in Nat, f.base + Height(f) <= Len(r),
           \A i \in 1 .. f.base + Height(f) : r[i] = s[i] /\ (s[i] \in DOMAIN nodes => Kept(s[i])),
           nodeOf'[f.task] = nodeOf[f.task]
    PROVE  Placed(g, r)'
<1>1. f.base \in Nat /\ Height(f) \in {1, 2} /\ (Height(f) = 2 <=> f.young # "none") /\ Height(g) = Height(f)
  BY HeightRange DEF Frame, Height
<1>2. f.base + 1 \in 1 .. f.base + Height(f) /\ (f.young # "none" => f.base + 2 \in 1 .. f.base + Height(f))
  BY <1>1
<1>3. r[f.base + 1] = s[f.base + 1] /\ PlainNode(s[f.base + 1]) /\ Kept(s[f.base + 1])
  BY <1>2 DEF Placed, PlainNode
<1>4. f.young # "none" =>
         r[f.base + 2] = s[f.base + 2] /\ ImplicitFinish(s[f.base + 2], f.young) /\ Kept(s[f.base + 2])
  BY <1>2 DEF Placed, ImplicitFinish
<1>5. PlainNode(r[f.base + 1])'
  BY <1>3 DEF PlainNode, Kept
<1>6. f.young # "none" => ImplicitFinish(r[f.base + 2], f.young)'
  BY <1>4 DEF ImplicitFinish, Kept
<1>7. r[g.base + 1] = nodeOf'[g.task]
  BY <1>3 DEF Placed
<1>8. g.base + Height(g) <= Len(r)
  BY <1>1
<1>9. QED  BY <1>5, <1>6, <1>7, <1>8 DEF Placed, Height

\* The frame goes on with its nodes.
Resembles(f, g) == g.base = f.base /\ g.task = f.task /\ g.young = f.young /\ Habits(g)

\* The height of the lowest n frames of a thread.
HeightOf(s, n) == IF n = 0 THEN 0 ELSE s[n].base + Height(s[n])

\* Thread t keeps n frames and the nodes of them, and has another frame on top
\* of them or not.
KeepsLower(t, n) ==
    LET h == HeightOf(frames[t], n)
    IN  /\ \A i \in 1 .. n : Resembles(frames[t][i], frames'[t][i])
        /\ h <= Len(cur_dpst_index'[t])
        /\ \A i \in 1 .. h : /\ cur_dpst_index'[t][i] = cur_dpst_index[t][i]
                             /\ cur_dpst_index[t][i] \in DOMAIN nodes => Kept(cur_dpst_index[t][i])

OthersKeep(t) ==
    \A u \in Threads \ {t} :
        /\ frames'[u] = frames[u] /\ cur_dpst_index'[u] = cur_dpst_index[u]
        /\ \A i \in 1 .. Len(cur_dpst_index[u]) :
              cur_dpst_index[u][i] \in DOMAIN nodes => Kept(cur_dpst_index[u][i])

NodesOfTasksKept == \A u \in Threads : \A i \in 1 .. Len(frames[u]) :
                        nodeOf'[frames[u][i].task] = nodeOf[frames[u][i].task]

LEMMA OthersStacked ==
    ASSUME TypeOK, NEW t \in Threads, OthersKeep(t), NodesOfTasksKept,
           NEW u \in Threads \ {t}, Stacked(u)
    PROVE  Stacked(u)'
<1>1. PICK fr, s : fr = frames[u] /\ s = cur_dpst_index[u]
  OBVIOUS
<1>2. /\ fr = frames'[u] /\ s = cur_dpst_index'[u]
      /\ \A i \in 1 .. Len(s) : s[i] \in DOMAIN nodes => Kept(s[i])
  BY <1>1 DEF OthersKeep
<1>3. /\ fr \in Seq(Frame) /\ s \in Seq(Nat) /\ Len(s) \in Nat
  BY <1>1 DEF TypeOK, GraphTypeOK
<1>4. /\ Contiguous(fr, s)
      /\ \A i \in 1 .. Len(fr) : Placed(fr[i], s) /\ Habits(fr[i])
  BY <1>1 DEF Stacked
<1>5. ASSUME NEW i \in 1 .. Len(fr)
      PROVE  Placed(fr[i], s)'
  <2>1. PICK f \in Frame : f = fr[i]
    BY <1>3
  <2>2. Placed(f, s) /\ nodeOf'[f.task] = nodeOf[f.task]
    BY <1>1, <1>4, <2>1 DEF NodesOfTasksKept
  <2>3. f.base + Height(f) <= Len(s) /\ f.base \in Nat /\ Height(f) \in Nat
    BY <2>2, HeightRange DEF Placed, Frame
  <2>4. \A j \in 1 .. f.base + Height(f) : s[j] = s[j] /\ (s[j] \in DOMAIN nodes => Kept(s[j]))
    BY <1>2, <1>3, <2>3, SMTT(60)
  <2>5. Placed(f, s)'
    BY <1>3, <2>2, <2>3, <2>4, KeepsPlace
  <2>6. QED  BY <2>1, <2>5
<1>6. Contiguous(frames[u], cur_dpst_index[u])'
  BY <1>2, <1>4
<1>7. \A i \in 1 .. Len(fr) : Placed(fr[i], s)' /\ Habits(fr[i])
  BY <1>4, <1>5
<1>8. QED  BY <1>2, <1>6, <1>7 DEF Stacked

LEMMA LowerStacked ==
    ASSUME TypeOK, TypeOK', NEW t \in Threads, NodesOfTasksKept, Stacked(t),
           NEW n \in Nat, n <= Len(frames[t]), n <= Len(frames'[t]), KeepsLower(t, n),
           NEW i \in 1 .. n
    PROVE  /\ Placed(frames[t][i], cur_dpst_index[t])'
           /\ Habits(frames'[t][i])
           /\ frames'[t][i].base = frames[t][i].base
           /\ Height(frames'[t][i]) = Height(frames[t][i])
           /\ frames[t][i].base + Height(frames[t][i]) <= HeightOf(frames[t], n)
<1>1. PICK fr, s, next, r :
         fr = frames[t] /\ s = cur_dpst_index[t] /\ next = frames'[t] /\ r = cur_dpst_index'[t]
  OBVIOUS
<1>2. /\ fr \in Seq(Frame) /\ s \in Seq(Nat) /\ next \in Seq(Frame) /\ r \in Seq(Nat)
      /\ Len(fr) \in Nat /\ Len(next) \in Nat /\ Len(r) \in Nat
      /\ i \in 1 .. Len(fr) /\ i \in 1 .. Len(next) /\ n \in 1 .. Len(fr)
  BY <1>1 DEF TypeOK, GraphTypeOK
<1>3. PICK f \in Frame, g \in Frame : f = fr[i] /\ g = next[i]
  BY <1>2
<1>4. PICK h : h = HeightOf(fr, n)
  OBVIOUS
<1>5. /\ Resembles(f, g) /\ h <= Len(r)
      /\ \A j \in 1 .. h : r[j] = s[j] /\ (s[j] \in DOMAIN nodes => Kept(s[j]))
  BY <1>1, <1>3, <1>4 DEF KeepsLower
<1>6. Placed(f, s) /\ nodeOf'[f.task] = nodeOf[f.task]
  BY <1>1, <1>2, <1>3 DEF Stacked, NodesOfTasksKept
<1>7. f.base \in Nat /\ Height(f) \in Nat /\ Height(g) = Height(f)
  BY <1>5, HeightRange DEF Frame, Resembles, Height
<1>8. PICK top \in Frame : top = fr[n]
  BY <1>2
<1>9. h = top.base + Height(top) /\ h \in Nat /\ top.base \in Nat /\ Height(top) \in Nat
  <2>1. n # 0
    BY <1>2
  <2>2. h = top.base + Height(top)
    BY <1>4, <1>8, <2>1 DEF HeightOf
  <2>3. top.base \in Nat /\ Height(top) \in Nat
    BY HeightRange DEF Frame
  <2>4. QED  BY <2>2, <2>3
<1>10. f.base + Height(f) <= h
  <2>1. CASE i = n
    BY <1>3, <1>7, <1>8, <1>9, <2>1
  <2>2. CASE i # n
    <3>1. i < n
      BY <2>2
    <3>2. f.base + Height(f) <= top.base
      BY <1>1, <1>2, <1>3, <1>8, <3>1 DEF Stacked, Contiguous
    <3>3. QED  BY <1>7, <1>9, <3>2
  <2>3. QED  BY <2>1, <2>2
<1>11. \A j \in 1 .. f.base + Height(f) : r[j] = s[j] /\ (s[j] \in DOMAIN nodes => Kept(s[j]))
  <2>1. \A j \in 1 .. f.base + Height(f) : j \in 1 .. h
    BY <1>7, <1>9, <1>10
  <2>2. QED  BY <1>5, <2>1
<1>12. Placed(g, r)'
  <2>1. g.base = f.base /\ g.task = f.task /\ g.young = f.young /\ f.base + Height(f) <= Len(r)
    BY <1>2, <1>5, <1>7, <1>9, <1>10 DEF Resembles
  <2>2. QED  BY <1>2, <1>6, <1>11, <2>1, KeepsPlace
<1>13. QED  BY <1>1, <1>3, <1>4, <1>5, <1>7, <1>10, <1>12 DEF Resembles

\* The nodes of the frames a thread keeps are a stack of their own.
LEMMA HeightOfLower ==
    ASSUME TypeOK, NEW t \in Threads, Stacked(t), NEW n \in Nat, n <= Len(frames[t])
    PROVE  HeightOf(frames[t], n) \in Nat /\ (n > 0 => HeightOf(frames[t], n) > 0)
<1>1. frames[t] \in Seq(Frame)
  BY DEF TypeOK
<1>2. CASE n = 0
  BY <1>2 DEF HeightOf
<1>3. CASE n # 0
  <2>1. PICK f \in Frame : f = frames[t][n]
    BY <1>1, <1>3
  <2>2. HeightOf(frames[t], n) = f.base + Height(f)
    BY <1>3, <2>1 DEF HeightOf
  <2>3. f.base \in Nat /\ Height(f) \in Nat /\ Height(f) > 0
    BY HeightRange DEF Frame
  <2>4. QED  BY <2>2, <2>3
<1>4. QED  BY <1>2, <1>3

\* The thread keeps n frames, and has a new one on top of them.
LEMMA TopStacked ==
    ASSUME TypeOK, TypeOK', NEW t \in Threads, NodesOfTasksKept, Stacked(t),
           NEW n \in Nat, n <= Len(frames[t]), KeepsLower(t, n),
           Len(frames'[t]) = n + 1,
           NEW g \in Frame, frames'[t][n + 1] = g, Habits(g),
           g.base = HeightOf(frames[t], n),
           Len(cur_dpst_index'[t]) = g.base + Height(g),
           Placed(g, cur_dpst_index[t])'
    PROVE  Stacked(t)'
<1>1. PICK fr, next, r :
         fr = frames[t] /\ next = frames'[t] /\ r = cur_dpst_index'[t]
  OBVIOUS
<1>2. /\ fr \in Seq(Frame) /\ next \in Seq(Frame) /\ r \in Seq(Nat)
      /\ Len(fr) \in Nat /\ Len(next) = n + 1 /\ next[n + 1] = g
  BY <1>1 DEF TypeOK, GraphTypeOK
<1>3. PICK h \in Nat : h = HeightOf(fr, n)
  BY <1>1, HeightOfLower
<1>4. \A i \in 1 .. n : /\ Placed(next[i], r)' /\ Habits(next[i])
                        /\ next[i].base = fr[i].base
                        /\ Height(next[i]) = Height(fr[i])
                        /\ fr[i].base + Height(fr[i]) <= h
  <2>1. n <= Len(frames[t]) /\ n <= Len(frames'[t])
    BY <1>1, <1>2
  <2>2. QED  BY <1>1, <1>3, <2>1, LowerStacked
<1>5. \A i \in 1 .. n + 1 : i \in 1 .. n \/ i = n + 1
  OBVIOUS
<1>6. \A i \in 1 .. Len(next) : Placed(next[i], r)' /\ Habits(next[i])
  BY <1>1, <1>2, <1>4, <1>5
<1>7. Contiguous(fr, cur_dpst_index[t])
  BY <1>1 DEF Stacked
<1>8. next # <<>> /\ next[Len(next)] = g /\ g.base = h /\ g.base + Height(g) = Len(r)
  BY <1>1, <1>2, <1>3
<1>9. next[1].base = 0
  <2>1. CASE n = 0
    BY <1>2, <1>3, <1>8, <2>1 DEF HeightOf
  <2>2. CASE n # 0
    <3>1. 1 \in 1 .. n /\ fr # <<>>
      BY <1>1, <1>2, <2>2
    <3>2. QED  BY <1>4, <1>7, <3>1 DEF Contiguous
  <2>3. QED  BY <2>1, <2>2
<1>10. ASSUME NEW i \in 1 .. Len(next) - 1
       PROVE  next[i + 1].base = next[i].base + Height(next[i])
  <2>1. i \in 1 .. n
    BY <1>2
  <2>2. CASE i = n
    <3>1. h = fr[n].base + Height(fr[n])
      BY <1>3, <2>1, <2>2 DEF HeightOf
    <3>2. QED  BY <1>2, <1>4, <1>8, <2>1, <2>2, <3>1
  <2>3. CASE i # n
    <3>1. i + 1 \in 1 .. n /\ i \in 1 .. Len(fr) - 1
      BY <1>1, <1>2, <2>1, <2>3
    <3>2. fr[i + 1].base = fr[i].base + Height(fr[i])
      BY <1>7, <3>1 DEF Contiguous
    <3>3. QED  BY <1>4, <2>1, <3>1, <3>2
  <2>4. QED  BY <2>2, <2>3
<1>11. ASSUME NEW i \in 1 .. Len(next), NEW j \in 1 .. Len(next), i < j
       PROVE  next[i].base + Height(next[i]) <= next[j].base
  <2>1. i \in 1 .. n
    BY <1>2, <1>11
  <2>2. CASE j = n + 1
    BY <1>2, <1>4, <1>8, <2>1, <2>2
  <2>3. CASE j # n + 1
    <3>1. j \in 1 .. n /\ i \in 1 .. Len(fr) /\ j \in 1 .. Len(fr)
      BY <1>1, <1>2, <2>1, <2>3
    <3>2. fr[i].base + Height(fr[i]) <= fr[j].base
      BY <1>7, <1>11, <3>1 DEF Contiguous
    <3>3. QED  BY <1>4, <2>1, <3>1, <3>2
  <2>4. QED  BY <2>2, <2>3
<1>12. Contiguous(next, r)
  BY <1>8, <1>9, <1>10, <1>11 DEF Contiguous
<1>13. Contiguous(frames[t], cur_dpst_index[t])'
  BY <1>1, <1>12
<1>14. QED  BY <1>1, <1>6, <1>13 DEF Stacked

\* The thread leaves its top frame, and the nodes of it go.
LEMMA TopLeft ==
    ASSUME TypeOK, TypeOK', NEW t \in Threads, NodesOfTasksKept, Stacked(t),
           NEW n \in Nat, n <= Len(frames[t]), KeepsLower(t, n),
           Len(frames'[t]) = n, Len(cur_dpst_index'[t]) = HeightOf(frames[t], n)
    PROVE  Stacked(t)'
<1>1. PICK fr, next, r :
         fr = frames[t] /\ next = frames'[t] /\ r = cur_dpst_index'[t]
  OBVIOUS
<1>2. /\ fr \in Seq(Frame) /\ next \in Seq(Frame) /\ r \in Seq(Nat)
      /\ Len(fr) \in Nat /\ Len(next) = n
  BY <1>1 DEF TypeOK, GraphTypeOK
<1>3. PICK h \in Nat : h = HeightOf(fr, n) /\ Len(r) = h
  BY <1>1, HeightOfLower
<1>4. \A i \in 1 .. n : /\ Placed(next[i], r)' /\ Habits(next[i])
                        /\ next[i].base = fr[i].base
                        /\ Height(next[i]) = Height(fr[i])
  <2>1. n <= Len(frames[t]) /\ n <= Len(frames'[t])
    BY <1>1, <1>2
  <2>2. QED  BY <1>1, <1>3, <2>1, LowerStacked
<1>5. Contiguous(fr, cur_dpst_index[t])
  BY <1>1 DEF Stacked
<1>6. next = <<>> => r = <<>>
  BY <1>2, <1>3 DEF HeightOf
<1>7. next # <<>> => next[1].base = 0 /\ next[Len(next)].base + Height(next[Len(next)]) = Len(r)
  <2> SUFFICES ASSUME next # <<>>
               PROVE  next[1].base = 0 /\ next[n].base + Height(next[n]) = Len(r)
    BY <1>2
  <2>1. n # 0 /\ 1 \in 1 .. n /\ n \in 1 .. n /\ fr # <<>>
    BY <1>1, <1>2
  <2>2. h = fr[n].base + Height(fr[n])
    BY <1>3, <2>1 DEF HeightOf
  <2>3. QED  BY <1>3, <1>4, <1>5, <2>1, <2>2 DEF Contiguous
<1>8. \A i \in 1 .. Len(next) - 1 : next[i + 1].base = next[i].base + Height(next[i])
  <2>1. \A i \in 1 .. n - 1 : i \in 1 .. n /\ i + 1 \in 1 .. n /\ i \in 1 .. Len(fr) - 1
    BY <1>1, <1>2
  <2>2. QED  BY <1>2, <1>4, <1>5, <2>1 DEF Contiguous
<1>9. \A i, j \in 1 .. Len(next) : i < j => next[i].base + Height(next[i]) <= next[j].base
  <2>1. \A i \in 1 .. n : i \in 1 .. Len(fr)
    BY <1>1, <1>2
  <2>2. QED  BY <1>2, <1>4, <1>5, <2>1 DEF Contiguous
<1>10. Contiguous(next, r)
  BY <1>6, <1>7, <1>8, <1>9 DEF Contiguous
<1>11. Contiguous(frames[t], cur_dpst_index[t])'
  BY <1>1, <1>10
<1>12. \A i \in 1 .. Len(next) : Placed(next[i], r)' /\ Habits(next[i])
  BY <1>2, <1>4
<1>13. QED  BY <1>1, <1>11, <1>12 DEF Stacked

(******************************************************************************)
(* What a Capture call leaves alone                                           *)
(******************************************************************************)

\* Thread t changes its own stack above height h only, and no node of the rest.
TouchesAbove(t, h) ==
    /\ \A u \in Threads \ {t} : cur_dpst_index'[u] = cur_dpst_index[u]
    /\ h <= Len(cur_dpst_index'[t])
    /\ \A i \in 1 .. h : cur_dpst_index'[t][i] = cur_dpst_index[t][i]
    /\ \A n \in DOMAIN nodes :
          (\A i \in h + 1 .. Len(cur_dpst_index[t]) : cur_dpst_index[t][i] # n) => Kept(n)

LEMMA KeptBelow ==
    ASSUME TypeOK, NodeOwnership, NEW t \in Threads, NEW h \in Nat, h <= Len(cur_dpst_index[t]),
           TouchesAbove(t, h)
    PROVE  /\ \A u \in Threads \ {t} : \A i \in 1 .. Len(cur_dpst_index[u]) : Kept(cur_dpst_index[u][i])
           /\ \A i \in 1 .. h : Kept(cur_dpst_index[t][i])
           /\ \A k \in DOMAIN temp_cur_map : Kept(temp_cur_map[k])
<1>1. \A u \in Threads : DOMAIN cur_dpst_index[u] = 1 .. Len(cur_dpst_index[u])
                         /\ Len(cur_dpst_index[u]) \in Nat
  BY DEF TypeOK, GraphTypeOK
<1>2. \A i \in h + 1 .. Len(cur_dpst_index[t]) : i \in DOMAIN cur_dpst_index[t]
  BY <1>1
<1>3. ASSUME NEW u \in Threads \ {t}, NEW j \in 1 .. Len(cur_dpst_index[u])
      PROVE  Kept(cur_dpst_index[u][j])
  <2>1. cur_dpst_index[u][j] \in DOMAIN nodes
    BY <1>1 DEF NodeOwnership, NoDangling
  <2>2. \A i \in h + 1 .. Len(cur_dpst_index[t]) : cur_dpst_index[t][i] # cur_dpst_index[u][j]
    BY <1>1, <1>2 DEF NodeOwnership, OneOwner
  <2>3. QED  BY <2>1, <2>2 DEF TouchesAbove
<1>4. ASSUME NEW j \in 1 .. h
      PROVE  Kept(cur_dpst_index[t][j])
  <2>1. j \in 1 .. Len(cur_dpst_index[t])
    BY <1>1
  <2>2. cur_dpst_index[t][j] \in DOMAIN nodes
    BY <1>1, <2>1 DEF NodeOwnership, NoDangling
  <2>3. \A i \in h + 1 .. Len(cur_dpst_index[t]) : i # j
    OBVIOUS
  <2>4. \A i \in h + 1 .. Len(cur_dpst_index[t]) : cur_dpst_index[t][i] # cur_dpst_index[t][j]
    BY <1>1, <1>2, <2>1, <2>3 DEF NodeOwnership, OneOwner
  <2>5. QED  BY <2>2, <2>4 DEF TouchesAbove
<1>5. ASSUME NEW k \in DOMAIN temp_cur_map
      PROVE  Kept(temp_cur_map[k])
  <2>1. temp_cur_map[k] \in DOMAIN nodes
    BY DEF NodeOwnership, NoDangling
  <2>2. \A i \in h + 1 .. Len(cur_dpst_index[t]) : cur_dpst_index[t][i] # temp_cur_map[k]
    BY <1>2 DEF NodeOwnership, OneOwner
  <2>3. QED  BY <2>1, <2>2 DEF TouchesAbove
<1>6. QED  BY <1>3, <1>4, <1>5

LEMMA OthersKept ==
    ASSUME TypeOK, NodeOwnership, NEW t \in Threads, NEW h \in Nat, h <= Len(cur_dpst_index[t]),
           TouchesAbove(t, h), \A u \in Threads \ {t} : frames'[u] = frames[u]
    PROVE  OthersKeep(t)
<1>1. \A u \in Threads \ {t} : \A i \in 1 .. Len(cur_dpst_index[u]) : Kept(cur_dpst_index[u][i])
  BY KeptBelow
<1>2. QED  BY <1>1 DEF OthersKeep, TouchesAbove

\* What waits in the map stays a task's node, and so does what joins it.
LEMMA WaitingStay ==
    ASSUME TypeOK, NodeOwnership, SInv, NEW t \in Threads, NEW h \in Nat,
           h <= Len(cur_dpst_index[t]), TouchesAbove(t, h),
           \A k \in DOMAIN temp_cur_map' :
               \/ k \in DOMAIN temp_cur_map /\ temp_cur_map'[k] = temp_cur_map[k]
               \/ PlainNode(temp_cur_map[k])'
    PROVE  WaitingArePlainNodes'
<1>1. \A k \in DOMAIN temp_cur_map : Kept(temp_cur_map[k])
  BY KeptBelow
<1>2. \A k \in DOMAIN temp_cur_map : PlainNode(temp_cur_map[k])
  BY DEF SInv, WaitingArePlainNodes
<1>3. ASSUME NEW k \in DOMAIN temp_cur_map'
      PROVE  PlainNode(temp_cur_map[k])'
  <2>1. CASE k \in DOMAIN temp_cur_map /\ temp_cur_map'[k] = temp_cur_map[k]
    BY <1>1, <1>2, <2>1 DEF PlainNode, Kept
  <2>2. QED  BY <1>3, <2>1
<1>4. QED  BY <1>3 DEF WaitingArePlainNodes

\* The top frame of a thread.
LEMMA TopIsStacked ==
    ASSUME TypeOK, SInv, NEW t \in Threads, frames[t] # <<>>
    PROVE  LET f == TopFrame(t)
               h == Len(cur_dpst_index[t])
           IN  /\ f \in Frame /\ f.base \in Nat /\ h \in Nat /\ h = f.base + Height(f)
               /\ Placed(f, cur_dpst_index[t]) /\ Habits(f)
               /\ HeightOf(frames[t], Len(frames[t]) - 1) = f.base
<1>1. /\ TopFrame(t) \in Frame /\ frames[t] \in Seq(Frame)
      /\ Len(frames[t]) \in Nat \ {0} /\ Len(frames[t]) \in 1 .. Len(frames[t])
      /\ TopFrame(t) = frames[t][Len(frames[t])]
  BY TopFrameTyped DEF TopFrame
<1>2. Contiguous(frames[t], cur_dpst_index[t]) /\ Placed(TopFrame(t), cur_dpst_index[t]) /\ Habits(TopFrame(t))
  BY <1>1 DEF SInv, Stacked
<1>3. TopFrame(t).base + Height(TopFrame(t)) = Len(cur_dpst_index[t])
  BY <1>1, <1>2 DEF Contiguous
<1>4. TopFrame(t).base \in Nat /\ Len(cur_dpst_index[t]) \in Nat
  BY <1>1, SMTT(60) DEF Frame, TypeOK, GraphTypeOK
<1>5. HeightOf(frames[t], Len(frames[t]) - 1) = TopFrame(t).base
  <2>1. CASE Len(frames[t]) = 1
    BY <1>1, <1>2, <2>1 DEF Contiguous, HeightOf
  <2>2. CASE Len(frames[t]) # 1
    <3>1. /\ Len(frames[t]) - 1 \in 1 .. Len(frames[t]) - 1
          /\ Len(frames[t]) - 1 # 0 /\ Len(frames[t]) - 1 + 1 = Len(frames[t])
      <4>1. \A n \in Nat \ {0} : n # 1 => n - 1 \in 1 .. n - 1 /\ n - 1 # 0 /\ n - 1 + 1 = n
        OBVIOUS
      <4>2. QED  BY <1>1, <2>2, <4>1
    <3>2. frames[t][Len(frames[t]) - 1 + 1].base =
             frames[t][Len(frames[t]) - 1].base + Height(frames[t][Len(frames[t]) - 1])
      BY <1>2, <3>1 DEF Contiguous
    <3>3. QED  BY <1>1, <3>1, <3>2 DEF HeightOf
  <2>3. QED  BY <2>1, <2>2
<1>6. QED  BY <1>1, <1>2, <1>3, <1>4, <1>5

\* The frames below the top one wait, so their habits do not change.
LEMMA LowerKept ==
    ASSUME TypeOK, TypeOK', NodeOwnership, SInv, NEW t \in Threads, frames[t] # <<>>,
           TouchesAbove(t, TopFrame(t).base),
           \A i \in 1 .. Len(frames[t]) - 1 : frames'[t][i] = frames[t][i]
    PROVE  KeepsLower(t, Len(frames[t]) - 1)
<1>1. /\ TopFrame(t).base \in Nat /\ TopFrame(t).base <= Len(cur_dpst_index[t])
      /\ HeightOf(frames[t], Len(frames[t]) - 1) = TopFrame(t).base
  BY TopIsStacked, HeightRange
<1>2. \A i \in 1 .. TopFrame(t).base : Kept(cur_dpst_index[t][i])
  BY <1>1, KeptBelow
<1>3. \A i \in 1 .. Len(frames[t]) - 1 : i \in 1 .. Len(frames[t])
  BY TopFrameTyped
<1>4. \A i \in 1 .. Len(frames[t]) - 1 : Resembles(frames[t][i], frames'[t][i])
  BY <1>3 DEF Resembles, SInv, Stacked
<1>5. QED  BY <1>1, <1>2, <1>4 DEF KeepsLower, TouchesAbove

LEMMA TopGoesOn ==
    ASSUME TypeOK, TypeOK', NodeOwnership, SInv, NEW t \in Threads, frames[t] # <<>>,
           NEW g \in Frame, SetTop(t, g), g.base = TopFrame(t).base, Habits(g), nodeOf' = nodeOf,
           TouchesAbove(t, TopFrame(t).base), WaitingArePlainNodes',
           Len(cur_dpst_index'[t]) = g.base + Height(g), Placed(g, cur_dpst_index[t])'
    PROVE  SInv'
<1>1. /\ \A u \in Threads \ {t} : frames'[u] = frames[u]
      /\ Len(frames'[t]) = Len(frames[t]) /\ TopFrame(t)' = g
      /\ \A i \in 1 .. Len(frames[t]) - 1 : frames'[t][i] = frames[t][i]
  BY TopSet
<1>2. /\ TopFrame(t).base \in Nat /\ TopFrame(t).base <= Len(cur_dpst_index[t])
      /\ HeightOf(frames[t], Len(frames[t]) - 1) = TopFrame(t).base
  BY TopIsStacked, HeightRange
<1>3. OthersKeep(t)
  BY <1>1, <1>2, OthersKept
<1>4. KeepsLower(t, Len(frames[t]) - 1)
  BY <1>1, LowerKept
<1>5. NodesOfTasksKept
  BY DEF NodesOfTasksKept
<1>6. Len(frames[t]) \in Nat \ {0}
  BY TopFrameTyped
<1>7. PICK n \in Nat : n = Len(frames[t]) - 1
  <2>1. Len(frames[t]) - 1 \in Nat
    BY <1>6
  <2>2. QED  BY <2>1
<1>8. /\ n <= Len(frames[t]) /\ KeepsLower(t, n) /\ Len(frames'[t]) = n + 1
      /\ frames'[t][n + 1] = g /\ g.base = HeightOf(frames[t], n)
  BY <1>1, <1>2, <1>4, <1>6, <1>7 DEF TopFrame
<1>9. Stacked(t)'
  BY <1>5, <1>8, TopStacked DEF SInv
<1>10. \A u \in Threads \ {t} : Stacked(u)'
  BY <1>3, <1>5, OthersStacked DEF SInv
<1>11. QED  BY <1>9, <1>10 DEF SInv

(******************************************************************************)
(* The actions                                                                *)
(******************************************************************************)

\* A hook that changes no node.
LEMMA GraphStill ==
    ASSUME TypeOK, TypeOK', NodeOwnership, SInv, NEW t \in Threads, frames[t] # <<>>,
           NEW g \in Frame, SetTop(t, g), Resembles(TopFrame(t), g), UNCHANGED <<graph, nodeOf>>
    PROVE  SInv'
<1> DEFINE f == TopFrame(t)
<1>1. /\ f \in Frame /\ f.base \in Nat /\ Len(cur_dpst_index[t]) \in Nat
      /\ Len(cur_dpst_index[t]) = f.base + Height(f) /\ Placed(f, cur_dpst_index[t])
  BY TopIsStacked
<1>2. Height(f) \in {1, 2}
  BY HeightRange
<1>3. UNCHANGED <<nodes, cur_dpst_index, temp_cur_map>>
  BY DEF graph
<1>4. TouchesAbove(t, f.base)
  BY <1>1, <1>2, <1>3 DEF TouchesAbove, Kept
<1>5. WaitingArePlainNodes'
  BY <1>3 DEF SInv, WaitingArePlainNodes, PlainNode
<1>6. PICK s : s = cur_dpst_index[t]
  OBVIOUS
<1>7. PICK old \in Frame : old = f
  BY <1>1
<1>8. g.base = f.base /\ g.task = f.task /\ g.young = f.young /\ Habits(g)
  BY DEF Resembles
<1>9. Placed(g, s)'
  <2>1. Placed(old, s) /\ Len(s) \in Nat /\ old.base + Height(old) <= Len(s) /\ nodeOf'[old.task] = nodeOf[old.task]
    BY <1>1, <1>2, <1>6, <1>7
  <2>2. \A i \in 1 .. old.base + Height(old) : s[i] = s[i] /\ (s[i] \in DOMAIN nodes => Kept(s[i]))
    BY <1>3 DEF Kept
  <2>3. g.base = old.base /\ g.task = old.task /\ g.young = old.young
    BY <1>7, <1>8
  <2>4. QED  BY <2>1, <2>2, <2>3, KeepsPlace
<1>10. Placed(g, cur_dpst_index[t])'
  BY <1>3, <1>6, <1>9
<1>11. Len(cur_dpst_index'[t]) = g.base + Height(g)
  BY <1>1, <1>3, <1>8 DEF Height
<1>12. QED  BY <1>4, <1>5, <1>8, <1>10, <1>11, TopGoesOn

LEMMA SpawnEntryStacks ==
    ASSUME CollectionAssumption, ~SpawnsAfterRoots, IInv, IInv', SInv, NEW t \in Threads,
           NEW op \in {"spawn", "root", "both"}, SpawnEntry(t, op)
    PROVE  SInv'
<1> DEFINE f == TopFrame(t)
           k == task_id_ctr + 1
           g == [f EXCEPT !.at = "capture", !.op = op, !.kid = k]
<1>0. TypeOK /\ TypeOK' /\ NodeOwnership
  BY DEF IInv
<1>1. /\ frames[t] # <<>> /\ SetTop(t, g) /\ task_id_ctr < MaxTasks
      /\ op # "root" => f.young # "rooted"
      /\ UNCHANGED <<graph, nodeOf>>
  BY DEF SpawnEntry, At
<1>2. f \in Frame /\ k \in Tasks
  BY <1>0, <1>1, TopFrameTyped, SMTT(60) DEF TypeOK, Tasks, CollectionAssumption
<1>3. /\ g \in Frame /\ g.base = f.base /\ g.task = f.task /\ g.young = f.young
      /\ g.at = "capture" /\ g.op = op
  BY <1>2 DEF Frame
<1> HIDE DEF g
<1>4. Resembles(f, g)
  BY <1>1, <1>3 DEF Resembles, Habits
<1>5. QED  BY <1>0, <1>1, <1>3, <1>4, GraphStill

LEMMA SpawnExitStacks ==
    ASSUME IInv, IInv', SInv, NEW t \in Threads, SpawnExit(t)
    PROVE  SInv'
<1> DEFINE f == TopFrame(t)
           g == [f EXCEPT !.at = "run", !.op = "none", !.kid = f.task]
<1>0. TypeOK /\ TypeOK' /\ NodeOwnership
  BY DEF IInv
<1>1. frames[t] # <<>> /\ SetTop(t, g) /\ UNCHANGED <<graph, nodeOf>>
  BY DEF SpawnExit, At, program
<1>2. f \in Frame
  BY <1>0, <1>1, TopFrameTyped
<1>3. g \in Frame /\ g.base = f.base /\ g.task = f.task /\ g.young = f.young /\ g.at = "run"
  BY <1>2 DEF Frame
<1> HIDE DEF g
<1>4. Resembles(f, g)
  BY <1>3 DEF Resembles, Habits
<1>5. QED  BY <1>0, <1>1, <1>3, <1>4, GraphStill

LEMMA WaitEntryStacks ==
    ASSUME ~EmptyWaits, IInv, IInv', SInv, NEW t \in Threads, WaitEntry(t)
    PROVE  SInv'
<1> DEFINE f == TopFrame(t)
           g == [f EXCEPT !.at = "wait", !.op = "wait"]
<1>0. TypeOK /\ TypeOK' /\ NodeOwnership
  BY DEF IInv
<1>1. frames[t] # <<>> /\ SetTop(t, g) /\ f.young # "none" /\ UNCHANGED <<graph, nodeOf>>
  BY DEF WaitEntry, At
<1>2. f \in Frame
  BY <1>0, <1>1, TopFrameTyped
<1>3. g \in Frame /\ g.base = f.base /\ g.task = f.task /\ g.young = f.young /\ g.at = "wait"
  BY <1>2 DEF Frame
<1> HIDE DEF g
<1>4. Resembles(f, g)
  BY <1>1, <1>3 DEF Resembles, Habits
<1>5. QED  BY <1>0, <1>1, <1>3, <1>4, GraphStill

\* The end of a task takes the nodes of its frame off the stack, and no others.
LEMMA ReturnTouchesAbove ==
    ASSUME TypeOK, NodeOwnership, SInv, NEW t \in Threads, frames[t] # <<>>, CaptureReturn(t)
    PROVE  /\ TouchesAbove(t, TopFrame(t).base)
           /\ Len(cur_dpst_index'[t]) = TopFrame(t).base
           /\ temp_cur_map' = temp_cur_map
<1>1. PICK f, h, stack : f = TopFrame(t) /\ h = f.base /\ stack = cur_dpst_index[t]
  OBVIOUS
<1>2. /\ h \in Nat /\ Len(stack) = h + Height(f) /\ Placed(f, stack) /\ stack \in Seq(Nat)
      /\ Len(stack) \in Nat
  BY <1>1, TopIsStacked DEF TypeOK, GraphTypeOK
<1>3. Height(f) \in {1, 2} /\ (Height(f) = 2 <=> f.young # "none")
  BY HeightRange
<1>4. PlainNode(stack[h + 1]) /\ (f.young # "none" => ImplicitFinish(stack[h + 2], f.young))
  BY <1>1, <1>2 DEF Placed
<1>5. /\ nodes[Top(t)].sync_finish_flag <=> f.young # "none"
      /\ Top(t) = stack[Len(stack)]
  BY <1>1, <1>2, <1>3, <1>4 DEF Top, PlainNode, ImplicitFinish
<1>6. TouchesAbove(t, h) /\ Len(cur_dpst_index'[t]) = h /\ temp_cur_map' = temp_cur_map
  <2>1. CASE f.young = "none"
    <3>1. Len(stack) = h + 1
      BY <1>2, <1>3, <2>1
    <3>2. cur_dpst_index' = [cur_dpst_index EXCEPT ![t] = Popped(@)] /\ nodes' = Erase(nodes, Top(t))
          /\ temp_cur_map' = temp_cur_map
      BY <1>5, <2>1 DEF CaptureReturn
    <3>3. cur_dpst_index'[t] = Popped(stack) /\ \A u \in Threads \ {t} : cur_dpst_index'[u] = cur_dpst_index[u]
      BY <1>1, <3>2 DEF TypeOK, GraphTypeOK
    <3>4. stack # <<>> /\ Len(stack) - 1 = h
      BY <1>2, <3>1
    <3>5. Len(Popped(stack)) = h /\ \A i \in 1 .. h : Popped(stack)[i] = stack[i]
      BY <1>2, <3>4, PoppedStack
    <3>6. h + 1 \in h + 1 .. Len(stack) /\ Top(t) = stack[h + 1]
      BY <1>2, <1>5, <3>1
    <3>7. \A n \in DOMAIN nodes : n # Top(t) => Kept(n)
      BY <3>2 DEF Erase, Kept
    <3>8. QED  BY <1>1, <1>2, <3>2, <3>3, <3>5, <3>6, <3>7 DEF TouchesAbove
  <2>2. CASE f.young # "none"
    <3>1. Len(stack) = h + 2
      BY <1>2, <1>3, <2>2
    <3>2. /\ cur_dpst_index' = [cur_dpst_index EXCEPT ![t] = Popped(Popped(@))]
          /\ nodes' = Erase(Erase(nodes, Top(t)), stack[Len(stack) - 1])
          /\ temp_cur_map' = temp_cur_map
      BY <1>1, <1>5, <2>2 DEF CaptureReturn
    <3>3. /\ cur_dpst_index'[t] = Popped(Popped(stack))
          /\ \A u \in Threads \ {t} : cur_dpst_index'[u] = cur_dpst_index[u]
      BY <1>1, <3>2 DEF TypeOK, GraphTypeOK
    <3>4. stack # <<>> /\ Len(stack) - 1 = h + 1 /\ h + 1 - 1 = h /\ \A i \in 1 .. h : i \in 1 .. h + 1
      BY <1>2, <3>1
    <3>5. /\ Popped(stack) \in Seq(Nat) /\ Len(Popped(stack)) = h + 1
          /\ \A i \in 1 .. h + 1 : Popped(stack)[i] = stack[i]
      BY <1>2, <3>4, PoppedStack
    <3>6. Popped(stack) # <<>>
      BY <1>2, <3>5
    <3>7. Len(Popped(Popped(stack))) = h /\ \A i \in 1 .. h : Popped(Popped(stack))[i] = stack[i]
      <4>1. PICK p : p = Popped(stack)
        OBVIOUS
      <4>2. p \in Seq(Nat) /\ p # <<>> /\ Len(p) = h + 1
        BY <3>5, <3>6, <4>1
      <4>3. Len(Popped(p)) = Len(p) - 1 /\ \A i \in 1 .. Len(p) - 1 : Popped(p)[i] = p[i]
        BY <4>2, PoppedStack
      <4>4. Len(p) - 1 = h
        BY <1>2, <3>4, <4>2
      <4>5. Len(Popped(p)) = h /\ \A i \in 1 .. h : Popped(p)[i] = p[i]
        BY <4>3, <4>4
      <4>6. \A i \in 1 .. h : p[i] = stack[i]
        BY <3>4, <3>5, <4>1
      <4>7. QED  BY <4>1, <4>5, <4>6
    <3>8. /\ h + 1 \in h + 1 .. Len(stack) /\ stack[Len(stack) - 1] = stack[h + 1]
          /\ h + 2 \in h + 1 .. Len(stack) /\ Top(t) = stack[h + 2]
      BY <1>2, <1>5, <3>1, <3>4
    <3>9. \A n \in DOMAIN nodes : n # Top(t) /\ n # stack[Len(stack) - 1] => Kept(n)
      BY <3>2 DEF Erase, Kept
    <3>10. \A n \in DOMAIN nodes : (\A i \in h + 1 .. Len(stack) : stack[i] # n) => Kept(n)
      BY <3>8, <3>9
    <3>11. h <= Len(cur_dpst_index'[t]) /\ \A i \in 1 .. h : cur_dpst_index'[t][i] = stack[i]
      BY <1>2, <3>3, <3>7
    <3>12. QED  BY <1>1, <3>2, <3>3, <3>7, <3>10, <3>11 DEF TouchesAbove
  <2>3. QED  BY <2>1, <2>2
<1>7. QED  BY <1>1, <1>6

LEMMA ExecEndStacks ==
    ASSUME IInv, IInv', SInv, NEW t \in Threads, ExecEnd(t)
    PROVE  SInv'
<1> DEFINE f == TopFrame(t)
<1>0. TypeOK /\ TypeOK' /\ NodeOwnership
  BY DEF IInv
<1>1. /\ frames[t] # <<>> /\ CaptureReturn(t) /\ nodeOf' = nodeOf
      /\ frames' = [frames EXCEPT ![t] = Popped(@)]
  BY DEF ExecEnd, At
<1>2. /\ \A u \in Threads \ {t} : frames'[u] = frames[u]
      /\ Len(frames'[t]) = Len(frames[t]) - 1
      /\ \A i \in 1 .. Len(frames[t]) - 1 : frames'[t][i] = frames[t][i]
  BY <1>0, <1>1, FramePopped
<1>3. PICK h, stack : h = f.base /\ stack = cur_dpst_index[t]
  OBVIOUS
<1>4. /\ h \in Nat /\ Len(stack) = h + Height(f) /\ Placed(f, stack) /\ stack \in Seq(Nat)
      /\ HeightOf(frames[t], Len(frames[t]) - 1) = h /\ Len(stack) \in Nat
  BY <1>0, <1>1, <1>3, TopIsStacked DEF TypeOK, GraphTypeOK
<1>5. Height(f) \in {1, 2}
  BY HeightRange
<1>6. TouchesAbove(t, h) /\ Len(cur_dpst_index'[t]) = h /\ temp_cur_map' = temp_cur_map
  BY <1>0, <1>1, <1>3, ReturnTouchesAbove
<1>7. h <= Len(cur_dpst_index[t])
  BY <1>3, <1>4, <1>5
<1>8. WaitingArePlainNodes'
  BY <1>0, <1>4, <1>6, <1>7, WaitingStay
<1>9. OthersKeep(t)
  BY <1>0, <1>2, <1>4, <1>6, <1>7, OthersKept
<1>10. NodesOfTasksKept
  BY <1>1 DEF NodesOfTasksKept
<1>11. PICK n \in Nat : n = Len(frames[t]) - 1
  <2>1. Len(frames[t]) \in Nat \ {0}
    BY <1>0, <1>1, TopFrameTyped
  <2>2. Len(frames[t]) - 1 \in Nat
    BY <2>1
  <2>3. QED  BY <2>2
<1>12. /\ n <= Len(frames[t]) /\ KeepsLower(t, n)
       /\ Len(frames'[t]) = n /\ Len(cur_dpst_index'[t]) = HeightOf(frames[t], n)
  <2>1. KeepsLower(t, Len(frames[t]) - 1)
    BY <1>0, <1>1, <1>2, <1>3, <1>6, LowerKept
  <2>2. Len(frames[t]) \in Nat
    BY <1>0, <1>1, TopFrameTyped
  <2>3. QED  BY <1>2, <1>4, <1>6, <1>11, <2>1, <2>2
<1>13. Stacked(t)'
  BY <1>0, <1>10, <1>12, TopLeft DEF SInv
<1>14. \A u \in Threads \ {t} : Stacked(u)'
  BY <1>0, <1>9, <1>10, OthersStacked DEF SInv
<1>15. QED  BY <1>8, <1>13, <1>14 DEF SInv

\* A call on the top node of thread t leaves y for its young_ns_child, and
\* touches no other node there is.
Marked(t, y) ==
    /\ \A n \in DOMAIN nodes : n # Top(t) => Kept(n)
    /\ Top(t) \in DOMAIN nodes'
    /\ nodes'[Top(t)].sync_finish_flag = nodes[Top(t)].sync_finish_flag
    /\ nodes'[Top(t)].young_ns_child = y

\* What comes to temp_cur_map is a task's node.
TasksJoinMap ==
    \A k \in DOMAIN temp_cur_map' :
        \/ k \in DOMAIN temp_cur_map /\ temp_cur_map'[k] = temp_cur_map[k]
        \/ PlainNode(temp_cur_map[k])'

\* The stack stays as it is, and so does the kind of every node on it.
LEMMA MarkedTopStacks ==
    ASSUME TypeOK, TypeOK', NodeOwnership, SInv, NEW t \in Threads, frames[t] # <<>>,
           NEW g \in Frame, SetTop(t, g), Habits(g), nodeOf' = nodeOf,
           g.base = TopFrame(t).base, g.task = TopFrame(t).task,
           cur_dpst_index' = cur_dpst_index, NEW y, Marked(t, y), TasksJoinMap,
           g.young = "none" <=> TopFrame(t).young = "none",
           g.young = "spawned" => y = ASYNC,
           g.young # "spawned" => y # ASYNC
    PROVE  SInv'
<1>1. PICK f, h, stack : f = TopFrame(t) /\ h = f.base /\ stack = cur_dpst_index[t]
  OBVIOUS
<1>2. /\ f \in Frame /\ h \in Nat /\ Len(stack) \in Nat /\ Len(stack) = h + Height(f)
      /\ Placed(f, stack)
  BY <1>1, TopIsStacked
<1>3. Height(f) \in {1, 2} /\ (Height(f) = 2 <=> f.young # "none") /\ Height(g) = Height(f)
  BY <1>1, HeightRange DEF Height
<1>4. Top(t) = stack[Len(stack)]
  BY <1>1 DEF Top
<1>5. /\ PlainNode(stack[h + 1]) /\ stack[h + 1] = nodeOf[f.task]
      /\ f.young # "none" => ImplicitFinish(stack[h + 2], f.young)
  BY <1>1, <1>2 DEF Placed
<1>6. \A n \in DOMAIN nodes : n # stack[Len(stack)] => Kept(n)
  BY <1>4 DEF Marked
<1>7. TouchesAbove(t, h)
  <2>1. Len(stack) \in h + 1 .. Len(stack) /\ h <= Len(stack)
    BY <1>2, <1>3
  <2>2. QED  BY <1>1, <1>6, <2>1 DEF TouchesAbove
<1>8. WaitingArePlainNodes'
  <2>1. h <= Len(stack)
    BY <1>2, <1>3
  <2>2. QED  BY <1>1, <1>2, <1>7, <2>1, WaitingStay DEF TasksJoinMap
<1>9. PlainNode(stack[h + 1])'
  <2>1. CASE f.young = "none"
    <3>1. stack[h + 1] = Top(t) /\ y # ASYNC
      BY <1>1, <1>2, <1>3, <1>4, <2>1
    <3>2. QED  BY <1>5, <3>1 DEF PlainNode, Marked
  <2>2. CASE f.young # "none"
    <3>1. h + 1 \in 1 .. Len(stack) /\ Len(stack) \in 1 .. Len(stack) /\ h + 1 # Len(stack)
      BY <1>2, <1>3, <2>2
    <3>2. DOMAIN stack = 1 .. Len(stack)
      BY <1>1 DEF TypeOK, GraphTypeOK
    <3>3. stack[h + 1] # stack[Len(stack)]
      BY <1>1, <3>1, <3>2 DEF NodeOwnership, OneOwner
    <3>4. Kept(stack[h + 1])
      BY <1>5, <1>6, <3>3 DEF PlainNode
    <3>5. QED  BY <1>5, <3>4 DEF PlainNode, Kept
  <2>3. QED  BY <2>1, <2>2
<1>10. g.young # "none" => ImplicitFinish(stack[h + 2], g.young)'
  <2> SUFFICES ASSUME g.young # "none" PROVE ImplicitFinish(stack[h + 2], g.young)'
    OBVIOUS
  <2>1. stack[h + 2] = Top(t) /\ nodes[Top(t)].sync_finish_flag
    BY <1>1, <1>2, <1>3, <1>4, <1>5 DEF ImplicitFinish
  <2>2. QED  BY <2>1 DEF ImplicitFinish, Marked
<1>11. Placed(g, stack)'
  <2>1. g.base + Height(g) <= Len(stack) /\ g.base = h /\ stack[h + 1] = nodeOf'[g.task]
    BY <1>1, <1>2, <1>3, <1>5
  <2>2. QED  BY <1>9, <1>10, <2>1 DEF Placed, Height
<1>12. Placed(g, cur_dpst_index[t])' /\ Len(cur_dpst_index'[t]) = g.base + Height(g)
  BY <1>1, <1>2, <1>3, <1>11
<1>13. TouchesAbove(t, TopFrame(t).base)
  BY <1>1, <1>7
<1>14. QED  BY <1>8, <1>12, <1>13, TopGoesOn

LEMMA AddAsyncMarks ==
    ASSUME TypeOK, NodeOwnership, NEW t \in Threads, cur_dpst_index[t] # <<>>,
           NEW k, k \notin DOMAIN temp_cur_map,
           NEW site, NEW step, NEW last, AddAsync(t, k, site, step, last)
    PROVE  /\ cur_dpst_index' = cur_dpst_index
           /\ Marked(t, nodes[Top(t)].young_ns_child) /\ TasksJoinMap
<1>1. PICK cur, new : cur = Top(t) /\ new = last_allocated_node
  OBVIOUS
<1>2. PICK node : node = [young_ns_child |-> NO_TYPE, sync_finish_flag |-> FALSE, child_id |-> new + 1]
  OBVIOUS
<1>3. /\ nodes' = Insert([nodes EXCEPT ![cur].child_id = step], new, node)
      /\ temp_cur_map' = Insert(temp_cur_map, k, new) /\ cur_dpst_index' = cur_dpst_index
  BY <1>1, <1>2 DEF AddAsync, Register
<1>4. cur \in DOMAIN nodes /\ new \notin DOMAIN nodes /\ nodes[cur] \in AFTask
  <2>1. cur \in DOMAIN nodes /\ nodes[cur] \in AFTask
    BY <1>1, TopAllocated DEF TypeOK, NodeOwnership
  <2>2. new \notin DOMAIN nodes
    BY <1>1 DEF TypeOK, GraphTypeOK
  <2>3. QED  BY <2>1, <2>2
<1>5. Marked(t, nodes[Top(t)].young_ns_child)
  BY <1>1, <1>3, <1>4 DEF Marked, Kept, Insert, AFTask
<1>6. PlainNode(new)'
  <2>1. new \in DOMAIN nodes' /\ nodes'[new] = node
    BY <1>3, <1>4 DEF Insert
  <2>2. QED  BY <1>2, <2>1 DEF PlainNode, NO_TYPE, ASYNC
<1>7. TasksJoinMap
  BY <1>3, <1>6 DEF TasksJoinMap, Insert
<1>8. QED  BY <1>3, <1>5, <1>7

LEMMA AddFinishAndAsyncMarks ==
    ASSUME TypeOK, NodeOwnership, NEW t \in Threads, cur_dpst_index[t] # <<>>,
           NEW k, k \notin DOMAIN temp_cur_map,
           NEW site, NEW step, NEW last, AddFinishAndAsync(t, k, site, step, last),
           NEW fin, fin = last_allocated_node
    PROVE  /\ cur_dpst_index' = [cur_dpst_index EXCEPT ![t] = Append(@, fin)]
           /\ Marked(t, FINISH) /\ TasksJoinMap /\ ImplicitFinish(fin, "spawned")'
<1>1. PICK cur, new : cur = Top(t) /\ new = last_allocated_node + 1
  OBVIOUS
<1>2. PICK node, root :
         /\ node = [young_ns_child |-> NO_TYPE, sync_finish_flag |-> FALSE, child_id |-> new + 1]
         /\ root = [young_ns_child |-> ASYNC, sync_finish_flag |-> TRUE, child_id |-> step]
  OBVIOUS
<1>3. /\ nodes' = Insert(Insert([nodes EXCEPT ![cur].young_ns_child = FINISH], fin, root), new, node)
      /\ temp_cur_map' = Insert(temp_cur_map, k, new)
      /\ cur_dpst_index' = [cur_dpst_index EXCEPT ![t] = Append(@, fin)]
  BY <1>1, <1>2 DEF AddFinishAndAsync, Register
<1>4. /\ cur \in DOMAIN nodes /\ nodes[cur] \in AFTask
      /\ fin \notin DOMAIN nodes /\ new \notin DOMAIN nodes /\ fin # new
  <2>1. cur \in DOMAIN nodes /\ nodes[cur] \in AFTask
    BY <1>1, TopAllocated DEF TypeOK, NodeOwnership
  <2>2. \A n \in Nat \ {0} : n \notin 1 .. n - 1 /\ n + 1 \notin 1 .. n - 1 /\ n # n + 1
    OBVIOUS
  <2>3. fin \notin DOMAIN nodes /\ new \notin DOMAIN nodes /\ fin # new
    BY <1>1, <2>2 DEF TypeOK, GraphTypeOK
  <2>4. QED  BY <2>1, <2>3
<1>5. Marked(t, FINISH)
  BY <1>1, <1>3, <1>4 DEF Marked, Kept, Insert, AFTask
<1>6. PlainNode(new)'
  <2>1. new \in DOMAIN nodes' /\ nodes'[new] = node
    BY <1>3, <1>4 DEF Insert
  <2>2. QED  BY <1>2, <2>1 DEF PlainNode, NO_TYPE, ASYNC
<1>7. ImplicitFinish(fin, "spawned")'
  <2>1. fin \in DOMAIN nodes' /\ nodes'[fin] = root
    BY <1>3, <1>4 DEF Insert
  <2>2. QED  BY <1>2, <2>1 DEF ImplicitFinish
<1>8. TasksJoinMap
  BY <1>3, <1>6 DEF TasksJoinMap, Insert
<1>9. QED  BY <1>3, <1>5, <1>7, <1>8

LEMMA SpawnAndWaitMarks ==
    ASSUME TypeOK, NodeOwnership, NEW t \in Threads, NEW k, k \notin DOMAIN temp_cur_map,
           NEW site, CaptureSpawnAndWait(t, k, site)
    PROVE  cur_dpst_index' = cur_dpst_index /\ Marked(t, FINISH) /\ TasksJoinMap
<1>1. PICK cur, fin : cur = Top(t) /\ fin = last_allocated_node
  OBVIOUS
<1>2. PICK node : node = [young_ns_child |-> NO_TYPE, sync_finish_flag |-> FALSE, child_id |-> fin + 1]
  OBVIOUS
<1>3. /\ nodes' = Insert([nodes EXCEPT ![cur].young_ns_child = FINISH], fin, node)
      /\ temp_cur_map' = Insert(temp_cur_map, k, fin) /\ cur_dpst_index' = cur_dpst_index
      /\ cur_dpst_index[t] # <<>>
  BY <1>1, <1>2 DEF CaptureSpawnAndWait, Register
<1>4. cur \in DOMAIN nodes /\ fin \notin DOMAIN nodes /\ nodes[cur] \in AFTask
  <2>1. cur \in DOMAIN nodes /\ nodes[cur] \in AFTask
    BY <1>1, <1>3, TopAllocated DEF TypeOK, NodeOwnership
  <2>2. fin \notin DOMAIN nodes
    BY <1>1 DEF TypeOK, GraphTypeOK
  <2>3. QED  BY <2>1, <2>2
<1>5. Marked(t, FINISH)
  BY <1>1, <1>3, <1>4 DEF Marked, Kept, Insert, AFTask
<1>6. PlainNode(fin)'
  <2>1. fin \in DOMAIN nodes' /\ nodes'[fin] = node
    BY <1>3, <1>4 DEF Insert
  <2>2. QED  BY <1>2, <2>1 DEF PlainNode, NO_TYPE, ASYNC
<1>7. TasksJoinMap
  BY <1>3, <1>6 DEF TasksJoinMap, Insert
<1>8. QED  BY <1>3, <1>5, <1>7

\* A spawn by a task that has no implicit FINISH on the stack puts one there.
LEMMA FinishStacks ==
    ASSUME TypeOK, TypeOK', NodeOwnership, SInv, NEW t \in Threads, frames[t] # <<>>,
           NEW g \in Frame, SetTop(t, g), Habits(g), nodeOf' = nodeOf,
           g.base = TopFrame(t).base, g.task = TopFrame(t).task,
           TopFrame(t).young = "none", g.young = "spawned",
           NEW fin, cur_dpst_index' = [cur_dpst_index EXCEPT ![t] = Append(@, fin)],
           Marked(t, FINISH), TasksJoinMap, ImplicitFinish(fin, "spawned")'
    PROVE  SInv'
<1>1. PICK f, h, stack, next :
         f = TopFrame(t) /\ h = f.base /\ stack = cur_dpst_index[t] /\ next = cur_dpst_index'[t]
  OBVIOUS
<1>2. /\ f \in Frame /\ h \in Nat /\ stack \in Seq(Nat) /\ Len(stack) = h + Height(f)
      /\ Placed(f, stack)
  BY <1>1, TopIsStacked DEF TypeOK, GraphTypeOK
<1>3. Height(f) = 1 /\ Height(g) = 2 /\ Len(stack) = h + 1
  BY <1>1, <1>2 DEF Height
<1>4. Top(t) = stack[h + 1] /\ PlainNode(stack[h + 1]) /\ stack[h + 1] = nodeOf[f.task]
  BY <1>1, <1>2, <1>3 DEF Top, Placed
<1>5. /\ next = Append(stack, fin) /\ \A u \in Threads \ {t} : cur_dpst_index'[u] = cur_dpst_index[u]
      /\ next \in Seq(Nat)
  BY <1>1 DEF TypeOK, GraphTypeOK
<1>6. /\ Len(next) = h + 2 /\ next[h + 2] = fin
      /\ \A i \in 1 .. h + 1 : next[i] = stack[i]
  BY <1>2, <1>3, <1>5
<1>7. \A n \in DOMAIN nodes : n # stack[h + 1] => Kept(n)
  BY <1>4 DEF Marked
<1>8. TouchesAbove(t, h)
  <2>1. h + 1 \in h + 1 .. Len(stack) /\ h <= Len(next) /\ \A i \in 1 .. h : i \in 1 .. h + 1
    BY <1>2, <1>3, <1>6
  <2>2. QED  BY <1>1, <1>5, <1>6, <1>7, <2>1 DEF TouchesAbove
<1>9. WaitingArePlainNodes'
  <2>1. h <= Len(stack)
    BY <1>2, <1>3
  <2>2. QED  BY <1>1, <1>2, <1>8, <2>1, WaitingStay DEF TasksJoinMap
<1>10. PlainNode(next[h + 1])' /\ next[h + 1] = nodeOf'[g.task]
  <2>1. next[h + 1] = stack[h + 1] /\ FINISH # ASYNC
    BY <1>2, <1>6 DEF FINISH, ASYNC
  <2>2. QED  BY <1>1, <1>4, <2>1 DEF PlainNode, Marked
<1>11. Placed(g, next)'
  <2>1. g.base + Height(g) <= Len(next) /\ g.base = h
    BY <1>1, <1>2, <1>3, <1>6
  <2>2. ImplicitFinish(next[h + 2], g.young)'
    BY <1>6
  <2>3. QED  BY <1>10, <2>1, <2>2 DEF Placed, Height
<1>12. Placed(g, cur_dpst_index[t])' /\ Len(cur_dpst_index'[t]) = g.base + Height(g)
  BY <1>1, <1>3, <1>6, <1>11
<1>13. TouchesAbove(t, TopFrame(t).base)
  BY <1>1, <1>8
<1>14. QED  BY <1>9, <1>12, <1>13, TopGoesOn

\* CaptureSpawnOnly and CaptureSpawnAndWaitForAll, as far as the stack goes.
Adds(t, k, site) ==
    \E step, last :
        \/ nodes[Top(t)].young_ns_child = ASYNC /\ AddAsync(t, k, site, step, last)
        \/ nodes[Top(t)].young_ns_child # ASYNC /\ AddFinishAndAsync(t, k, site, step, last)

LEMMA SpawnsAdd ==
    ASSUME NEW t \in Threads, NEW k, NEW site,
           CaptureSpawnOnly(t, k, site) \/ CaptureSpawnAndWaitForAll(t, k, site)
    PROVE  Adds(t, k, site) /\ cur_dpst_index[t] # <<>>
<1>1. PICK child, none, two, three, four :
         /\ child = nodes[Top(t)].child_id /\ none = 0 /\ two = last_allocated_node + 2
         /\ three = last_allocated_node + 3 /\ four = last_allocated_node + 4
  OBVIOUS
<1>2. CASE CaptureSpawnOnly(t, k, site)
  <2>1. \/ nodes[Top(t)].young_ns_child = ASYNC /\ AddAsync(t, k, site, two, three)
        \/ nodes[Top(t)].young_ns_child # ASYNC /\ AddFinishAndAsync(t, k, site, three, four)
    BY <1>1, <1>2 DEF CaptureSpawnOnly, AddAsync, AddFinishAndAsync
  <2>2. QED  BY <1>2, <2>1 DEF Adds, CaptureSpawnOnly
<1>3. CASE CaptureSpawnAndWaitForAll(t, k, site)
  <2>1. \/ nodes[Top(t)].young_ns_child = ASYNC /\ AddAsync(t, k, site, child, two)
        \/ nodes[Top(t)].young_ns_child # ASYNC /\ AddFinishAndAsync(t, k, site, none, three)
    BY <1>1, <1>3 DEF CaptureSpawnAndWaitForAll, AddAsync, AddFinishAndAsync
  <2>2. QED  BY <1>3, <2>1 DEF Adds, CaptureSpawnAndWaitForAll
<1>4. QED  BY <1>2, <1>3

LEMMA SpawnCaptureStacks ==
    ASSUME IInv, IInv', SInv, NEW t \in Threads, SpawnCapture(t)
    PROVE  SInv'
<1>0. TypeOK /\ TypeOK' /\ NodeOwnership /\ HandOver
  BY DEF IInv
<1>1. PICK site \in SpawnSites \cup RootSites : SpawnCaptureAt(t, site)
  BY DEF SpawnCapture
<1> DEFINE f == TopFrame(t)
           young == IF f.op # "root" THEN "spawned"
                    ELSE IF f.young = "none" THEN "none" ELSE "rooted"
           g == [f EXCEPT !.at = "captured", !.young = young]
<1>2. PICK k : k = f.kid
  OBVIOUS
<1>3. /\ frames[t] # <<>> /\ f.at = "capture" /\ At(t, "capture") /\ SetTop(t, g) /\ nodeOf' = nodeOf
  BY <1>1 DEF SpawnCaptureAt, At
<1>4. \/ f.op = "root" /\ CaptureSpawnAndWait(t, k, site)
      \/ f.op # "root" /\ Adds(t, k, site) /\ cur_dpst_index[t] # <<>>
  <2>1. CASE f.op = "root" /\ CaptureSpawnAndWait(t, f.kid, site)
    <3>1. CaptureSpawnAndWait(t, k, site)
      BY <1>2, <2>1 DEF CaptureSpawnAndWait, Register
    <3>2. QED  BY <2>1, <3>1
  <2>2. CASE f.op = "spawn" /\ CaptureSpawnOnly(t, f.kid, site)
    <3>1. CaptureSpawnOnly(t, k, site)
      BY <1>2, <2>2 DEF CaptureSpawnOnly, AddAsync, AddFinishAndAsync, Register
    <3>2. QED  BY <2>2, <3>1, SpawnsAdd
  <2>3. CASE f.op = "both" /\ CaptureSpawnAndWaitForAll(t, f.kid, site)
    <3>1. CaptureSpawnAndWaitForAll(t, k, site)
      BY <1>2, <2>3 DEF CaptureSpawnAndWaitForAll, AddAsync, AddFinishAndAsync, Register
    <3>2. QED  BY <2>3, <3>1, SpawnsAdd
  <2>4. QED  BY <1>1, <2>1, <2>2, <2>3 DEF SpawnCaptureAt
<1>5. f \in Frame /\ k \notin DOMAIN temp_cur_map
  BY <1>0, <1>2, <1>3, TopFrameTyped DEF HandOver
<1>6. /\ g \in Frame /\ g.at = "captured" /\ g.op = f.op /\ g.young = young
      /\ g.base = f.base /\ g.task = f.task
  BY <1>5 DEF Frame
<1>7. Habits(g)
  BY <1>6 DEF Habits
<1>8. Habits(f) /\ Placed(f, cur_dpst_index[t]) /\ Len(cur_dpst_index[t]) = f.base + Height(f)
      /\ f.base \in Nat
  BY <1>0, <1>3, TopIsStacked
<1>9. /\ f.young = "none" => PlainNode(Top(t))
      /\ f.young # "none" => ImplicitFinish(Top(t), f.young)
  BY <1>8 DEF Placed, Top, Height
<1> HIDE DEF g
<1>10. CASE f.op = "root" /\ CaptureSpawnAndWait(t, k, site)
  <2>1. cur_dpst_index' = cur_dpst_index /\ Marked(t, FINISH) /\ TasksJoinMap
    BY <1>0, <1>5, <1>10, SpawnAndWaitMarks
  <2>2. /\ g.young = "none" <=> f.young = "none"
        /\ g.young = "spawned" => FINISH = ASYNC
        /\ g.young # "spawned" => FINISH # ASYNC
    BY <1>6, <1>10 DEF FINISH, ASYNC
  <2>3. QED  BY <1>0, <1>3, <1>6, <1>7, <2>1, <2>2, MarkedTopStacks
<1>11. CASE f.op # "root" /\ Adds(t, k, site) /\ cur_dpst_index[t] # <<>>
  <2>1. f.young # "rooted" /\ g.young = "spawned" /\ f.young \in {"none", "spawned", "rooted"}
    BY <1>3, <1>5, <1>6, <1>8, <1>11 DEF Habits, Frame
  <2>2. PICK step, last :
           \/ nodes[Top(t)].young_ns_child = ASYNC /\ AddAsync(t, k, site, step, last)
           \/ nodes[Top(t)].young_ns_child # ASYNC /\ AddFinishAndAsync(t, k, site, step, last)
    BY <1>11 DEF Adds
  <2>3. CASE nodes[Top(t)].young_ns_child = ASYNC /\ AddAsync(t, k, site, step, last)
    <3>1. PICK y : y = nodes[Top(t)].young_ns_child
      OBVIOUS
    <3>2. cur_dpst_index' = cur_dpst_index /\ Marked(t, nodes[Top(t)].young_ns_child) /\ TasksJoinMap
      BY <1>0, <1>5, <1>11, <2>3, AddAsyncMarks
    <3>3. Marked(t, y) /\ y = ASYNC
      BY <2>3, <3>1, <3>2 DEF Marked
    <3>4. f.young # "none"
      BY <1>9, <2>3 DEF PlainNode
    <3>5. /\ g.young = "none" <=> f.young = "none"
          /\ g.young = "spawned" => y = ASYNC
          /\ g.young # "spawned" => y # ASYNC
      BY <2>1, <3>3, <3>4
    <3>6. QED  BY <1>0, <1>3, <1>6, <1>7, <3>2, <3>3, <3>5, MarkedTopStacks
  <2>4. CASE nodes[Top(t)].young_ns_child # ASYNC /\ AddFinishAndAsync(t, k, site, step, last)
    <3>1. PICK fin : fin = last_allocated_node
      OBVIOUS
    <3>2. /\ cur_dpst_index' = [cur_dpst_index EXCEPT ![t] = Append(@, fin)]
          /\ Marked(t, FINISH) /\ TasksJoinMap /\ ImplicitFinish(fin, "spawned")'
      BY <1>0, <1>5, <1>11, <2>4, <3>1, AddFinishAndAsyncMarks
    <3>3. f.young = "none"
      BY <1>9, <2>1, <2>4 DEF ImplicitFinish
    <3>4. QED  BY <1>0, <1>3, <1>6, <1>7, <2>1, <3>2, <3>3, FinishStacks
  <2>5. QED  BY <2>2, <2>3, <2>4
<1>12. QED  BY <1>4, <1>10, <1>11

\* wait_for_all takes the implicit FINISH down, and gives the task a new step.
LEMMA WaitOnlyStacks ==
    ASSUME TypeOK, TypeOK', NodeOwnership, SInv, NEW t \in Threads, frames[t] # <<>>,
           NEW g \in Frame, SetTop(t, g), Habits(g), nodeOf' = nodeOf,
           g.base = TopFrame(t).base, g.task = TopFrame(t).task,
           TopFrame(t).young # "none", g.young = "none", CaptureWaitOnly(t)
    PROVE  SInv'
<1>1. PICK f, h, stack, next :
         f = TopFrame(t) /\ h = f.base /\ stack = cur_dpst_index[t] /\ next = cur_dpst_index'[t]
  OBVIOUS
<1>2. /\ f \in Frame /\ h \in Nat /\ stack \in Seq(Nat) /\ Len(stack) = h + Height(f)
      /\ Placed(f, stack)
  BY <1>1, TopIsStacked DEF TypeOK, GraphTypeOK
<1>3. Height(f) = 2 /\ Height(g) = 1 /\ Len(stack) = h + 2 /\ Len(stack) - 1 = h + 1
  BY <1>1, <1>2 DEF Height
<1>4. /\ Top(t) = stack[h + 2] /\ stack[Len(stack) - 1] = stack[h + 1]
      /\ PlainNode(stack[h + 1]) /\ stack[h + 1] = nodeOf[f.task]
  BY <1>1, <1>2, <1>3 DEF Top, Placed
<1>5. PICK id, rest : id = last_allocated_node /\ rest = Erase(nodes, Top(t))
  OBVIOUS
<1>6. /\ cur_dpst_index' = [cur_dpst_index EXCEPT ![t] = Popped(@)]
      /\ nodes' = [rest EXCEPT ![stack[h + 1]].child_id = id]
      /\ temp_cur_map' = temp_cur_map
  BY <1>1, <1>4, <1>5 DEF CaptureWaitOnly
<1>7. /\ next = Popped(stack) /\ \A u \in Threads \ {t} : cur_dpst_index'[u] = cur_dpst_index[u]
  BY <1>1, <1>6 DEF TypeOK, GraphTypeOK
<1>8. Len(next) = h + 1 /\ \A i \in 1 .. h + 1 : next[i] = stack[i]
  <2>1. stack # <<>>
    BY <1>2, <1>3
  <2>2. Len(Popped(stack)) = Len(stack) - 1 /\ \A i \in 1 .. Len(stack) - 1 : Popped(stack)[i] = stack[i]
    BY <1>2, <2>1, PoppedStack
  <2>3. QED  BY <1>3, <1>7, <2>2
<1>9. stack[h + 1] # stack[h + 2]
  <2>1. h + 1 \in DOMAIN stack /\ h + 2 \in DOMAIN stack /\ h + 1 # h + 2
    BY <1>2, <1>3
  <2>2. QED  BY <1>1, <2>1 DEF NodeOwnership, OneOwner
<1>10. /\ DOMAIN rest = DOMAIN nodes \ {stack[h + 2]}
       /\ \A n \in DOMAIN rest : rest[n] = nodes[n]
  BY <1>4, <1>5 DEF Erase
<1>11. \A n \in DOMAIN nodes : n # stack[h + 1] /\ n # stack[h + 2] => Kept(n)
  BY <1>6, <1>10 DEF Kept
<1>12. PlainNode(stack[h + 1])'
  <2>1. stack[h + 1] \in DOMAIN nodes /\ nodes[stack[h + 1]] \in AFTask
    BY <1>4 DEF PlainNode, TypeOK, GraphTypeOK
  <2>2. stack[h + 1] \in DOMAIN rest /\ rest[stack[h + 1]] = nodes[stack[h + 1]]
    BY <1>9, <1>10, <2>1
  <2>3. /\ stack[h + 1] \in DOMAIN nodes'
        /\ nodes'[stack[h + 1]] = [nodes[stack[h + 1]] EXCEPT !.child_id = id]
    BY <1>6, <2>2
  <2>4. QED  BY <1>4, <2>1, <2>3 DEF PlainNode, AFTask
<1>13. TouchesAbove(t, h)
  <2>1. /\ h + 1 \in h + 1 .. Len(stack) /\ h + 2 \in h + 1 .. Len(stack) /\ h <= Len(next)
        /\ \A i \in 1 .. h : i \in 1 .. h + 1
    BY <1>2, <1>3, <1>8
  <2>2. QED  BY <1>1, <1>7, <1>8, <1>11, <2>1 DEF TouchesAbove
<1>14. WaitingArePlainNodes'
  <2>1. h <= Len(stack)
    BY <1>2, <1>3
  <2>2. QED  BY <1>1, <1>2, <1>6, <1>13, <2>1, WaitingStay
<1>15. Placed(g, next)'
  <2>1. /\ g.base + Height(g) <= Len(next) /\ g.base = h
        /\ next[h + 1] = stack[h + 1] /\ next[h + 1] = nodeOf'[g.task]
    BY <1>1, <1>2, <1>3, <1>4, <1>8, SMTT(60)
  <2>2. PlainNode(next[g.base + 1])'
    BY <1>12, <2>1
  <2>3. QED  BY <2>1, <2>2 DEF Placed, Height
<1>16. Placed(g, cur_dpst_index[t])' /\ Len(cur_dpst_index'[t]) = g.base + Height(g)
  BY <1>1, <1>3, <1>8, <1>15
<1>17. TouchesAbove(t, TopFrame(t).base)
  BY <1>1, <1>13
<1>18. QED  BY <1>14, <1>16, <1>17, TopGoesOn

LEMMA WaitMarks ==
    ASSUME TypeOK, NodeOwnership, NEW t \in Threads, CaptureWait(t)
    PROVE  /\ cur_dpst_index' = cur_dpst_index
           /\ Marked(t, nodes[Top(t)].young_ns_child) /\ TasksJoinMap
<1>1. PICK id, cur : id = last_allocated_node /\ cur = Top(t)
  OBVIOUS
<1>2. /\ nodes' = [nodes EXCEPT ![cur].child_id = id] /\ cur_dpst_index[t] # <<>>
      /\ UNCHANGED <<cur_dpst_index, temp_cur_map>>
  BY <1>1 DEF CaptureWait
<1>3. cur \in DOMAIN nodes /\ nodes[cur] \in AFTask
  BY <1>1, <1>2, TopAllocated DEF TypeOK, NodeOwnership
<1>4. Marked(t, nodes[Top(t)].young_ns_child)
  BY <1>1, <1>2, <1>3 DEF Marked, Kept, AFTask
<1>5. QED  BY <1>2, <1>4 DEF TasksJoinMap

LEMMA JoinStacks ==
    ASSUME IInv, IInv', SInv, NEW t \in Threads, Join(t)
    PROVE  SInv'
<1>0. TypeOK /\ TypeOK' /\ NodeOwnership
  BY DEF IInv
<1> DEFINE f == TopFrame(t)
           young == IF f.op = "root" THEN f.young ELSE "none"
           g == [f EXCEPT !.at = "run", !.op = "none", !.kid = f.task, !.young = young]
<1>1. /\ frames[t] # <<>> /\ f.at = "wait" /\ SetTop(t, g) /\ nodeOf' = nodeOf
      /\ IF f.op = "root" THEN CaptureWait(t) ELSE CaptureWaitOnly(t)
  BY DEF Join, At
<1>2. f \in Frame
  BY <1>0, <1>1, TopFrameTyped
<1>3. /\ g \in Frame /\ g.at = "run" /\ g.young = young
      /\ g.base = f.base /\ g.task = f.task
  BY <1>2 DEF Frame
<1>4. Habits(g)
  BY <1>3 DEF Habits
<1>5. Habits(f) /\ Placed(f, cur_dpst_index[t]) /\ Len(cur_dpst_index[t]) = f.base + Height(f)
      /\ f.base \in Nat
  BY <1>0, <1>1, TopIsStacked
<1> HIDE DEF g
<1>6. CASE f.op = "root"
  <2>1. PICK y : y = nodes[Top(t)].young_ns_child
    OBVIOUS
  <2>2. /\ cur_dpst_index' = cur_dpst_index /\ Marked(t, nodes[Top(t)].young_ns_child)
        /\ TasksJoinMap
    BY <1>0, <1>1, <1>6, WaitMarks
  <2>3. Marked(t, y)
    BY <2>1, <2>2 DEF Marked
  <2>4. /\ f.young = "none" => PlainNode(Top(t))
        /\ f.young # "none" => ImplicitFinish(Top(t), f.young)
    BY <1>5 DEF Placed, Top, Height
  <2>5. f.young \in {"none", "spawned", "rooted"} /\ g.young = f.young
    BY <1>2, <1>3, <1>6 DEF Frame
  <2>6. g.young = "spawned" => y = ASYNC
    BY <2>1, <2>4, <2>5 DEF ImplicitFinish
  <2>7. g.young # "spawned" => y # ASYNC
    BY <2>1, <2>4, <2>5 DEF ImplicitFinish, PlainNode
  <2>8. g.young = "none" <=> f.young = "none"
    BY <2>5
  <2>9. QED  BY <1>0, <1>1, <1>3, <1>4, <2>2, <2>3, <2>6, <2>7, <2>8, MarkedTopStacks
<1>7. CASE f.op # "root"
  <2>1. f.young # "none" /\ g.young = "none" /\ CaptureWaitOnly(t)
    BY <1>1, <1>3, <1>5, <1>7 DEF Habits
  <2>2. QED  BY <1>0, <1>1, <1>3, <1>4, <2>1, WaitOnlyStacks
<1>8. QED  BY <1>6, <1>7

\* A task begins on thread t, whose other frames are s: what they were, but
\* that a spawn which runs its task itself is blocked from now on.
LEMMA BeginStacks ==
    ASSUME IInv, IInv', JInv, SInv, NEW t \in Threads,
           NEW k \in DOMAIN temp_cur_map, k \in Tasks, NEW s \in Seq(Frame), Len(s) = Len(frames[t]),
           \A i \in 1 .. Len(s) : Resembles(frames[t][i], s[i]),
           frames' = [frames EXCEPT ![t] = Append(s, NewFrame(k, Len(cur_dpst_index[t])))],
           Begin(t, k)
    PROVE  SInv'
<1>0. TypeOK /\ TypeOK' /\ NodeOwnership /\ FramesCurrent
  BY DEF IInv, JInv, TasksPlaced
<1>1. PICK n, stack, next, new :
         n = Len(frames[t]) /\ stack = cur_dpst_index[t] /\ next = cur_dpst_index'[t]
         /\ new = temp_cur_map[k]
  OBVIOUS
<1>2. stack \in Seq(Nat) /\ next \in Seq(Nat) /\ Len(stack) \in Nat /\ n \in Nat
  BY <1>0, <1>1 DEF TypeOK, GraphTypeOK
<1>3. PICK g : g = NewFrame(k, Len(stack))
  OBVIOUS
<1>4. /\ g \in Frame /\ g.task = k /\ g.base = Len(stack) /\ g.young = "none" /\ g.at = "run"
  BY <1>2, <1>3 DEF NewFrame, Frame
<1>5. Habits(g) /\ Height(g) = 1
  BY <1>4 DEF Habits, Height
<1>6. /\ \A u \in Threads \ {t} : frames'[u] = frames[u]
      /\ Len(frames'[t]) = n + 1 /\ frames'[t][n + 1] = g
      /\ \A i \in 1 .. n : frames'[t][i] = s[i]
  <2>1. /\ \A u \in Threads \ {t} : frames'[u] = frames[u]
        /\ TopFrame(t)' = g /\ Len(frames'[t]) = Len(s) + 1
        /\ \A i \in 1 .. Len(s) : frames'[t][i] = s[i]
    BY <1>0, <1>1, <1>3, <1>4, FramePushed, ZenonT(60)
  <2>2. QED  BY <1>1, <2>1 DEF TopFrame
<1>7. /\ nodes' = nodes /\ temp_cur_map' = Erase(temp_cur_map, k)
      /\ cur_dpst_index' = [cur_dpst_index EXCEPT ![t] = Append(@, new)]
      /\ nodeOf' = [nodeOf EXCEPT ![k] = new]
  BY <1>1 DEF Begin, CaptureExecute
<1>8. next = Append(stack, new) /\ \A u \in Threads \ {t} : cur_dpst_index'[u] = cur_dpst_index[u]
  BY <1>0, <1>1, <1>7 DEF TypeOK, GraphTypeOK
<1>9. /\ Len(next) = Len(stack) + 1 /\ next[Len(stack) + 1] = new
      /\ \A i \in 1 .. Len(stack) : next[i] = stack[i]
  BY <1>2, <1>8
<1>10. \A m \in DOMAIN nodes : Kept(m)
  BY <1>7 DEF Kept
<1>11. NodesOfTasksKept
  <2>1. \A u \in Threads : \A i \in 1 .. Len(frames[u]) : i \in DOMAIN frames[u]
    BY <1>0 DEF TypeOK
  <2>2. \A u \in Threads : \A i \in 1 .. Len(frames[u]) : frames[u][i].task # k
    BY <1>0, <2>1 DEF FramesCurrent
  <2>3. QED  BY <1>7, <2>2 DEF NodesOfTasksKept
<1>12. WaitingArePlainNodes'
  BY <1>7 DEF SInv, WaitingArePlainNodes, PlainNode, Erase
<1>13. OthersKeep(t)
  BY <1>6, <1>8, <1>10 DEF OthersKeep
<1>14. HeightOf(frames[t], n) = Len(stack)
  <2>1. CASE n = 0
    <3>1. frames[t] = <<>>
      <4>1. frames[t] \in Seq(Frame) /\ Len(frames[t]) = 0
        BY <1>0, <1>1, <2>1 DEF TypeOK
      <4>2. QED  BY <4>1, EmptySeq
    <3>2. stack = <<>>
      BY <1>1, <3>1 DEF SInv, Stacked, Contiguous
    <3>3. QED  BY <2>1, <3>2 DEF HeightOf
  <2>2. CASE n # 0
    <3>1. frames[t] # <<>>
      BY <1>1, <2>2
    <3>2. QED  BY <1>1, <2>2, <3>1 DEF SInv, Stacked, Contiguous, HeightOf
  <2>3. QED  BY <2>1, <2>2
<1>15. KeepsLower(t, n)
  <2>1. \A i \in 1 .. n : Resembles(frames[t][i], frames'[t][i])
    BY <1>1, <1>6
  <2>2. Len(stack) <= Len(next)
    BY <1>2, <1>9
  <2>3. QED  BY <1>1, <1>9, <1>10, <1>14, <2>1, <2>2 DEF KeepsLower
<1>16. Placed(g, next)'
  <2>1. PlainNode(new)'
    BY <1>1, <1>7 DEF SInv, WaitingArePlainNodes, PlainNode
  <2>2. nodeOf'[k] = new
    BY <1>0, <1>7 DEF TypeOK
  <2>3. QED  BY <1>2, <1>4, <1>5, <1>9, <2>1, <2>2 DEF Placed, Height
<1>17. Stacked(t)'
  <2>1. /\ n <= Len(frames[t]) /\ g.base = HeightOf(frames[t], n) /\ Stacked(t)
        /\ Len(cur_dpst_index'[t]) = g.base + Height(g) /\ Placed(g, cur_dpst_index[t])'
    BY <1>1, <1>2, <1>4, <1>5, <1>9, <1>14, <1>16 DEF SInv
  <2>2. QED  BY <1>0, <1>2, <1>4, <1>5, <1>6, <1>11, <1>15, <2>1, TopStacked
<1>18. \A u \in Threads \ {t} : Stacked(u)'
  BY <1>0, <1>11, <1>13, OthersStacked DEF SInv
<1>19. QED  BY <1>12, <1>17, <1>18 DEF SInv

LEMMA TakeTaskStacks ==
    ASSUME IInv, IInv', JInv, SInv, NEW t \in Threads, NEW k \in Tasks, TakeTask(t, k)
    PROVE  SInv'
<1>1. /\ k \in DOMAIN temp_cur_map
      /\ frames' = [frames EXCEPT ![t] =
                      Append(frames[t], NewFrame(k, Len(cur_dpst_index[t])))]
      /\ Begin(t, k)
  BY DEF TakeTask, IInv, HandOver
<1>2. frames[t] \in Seq(Frame)
  BY DEF IInv, TypeOK
<1>3. \A i \in 1 .. Len(frames[t]) : Resembles(frames[t][i], frames[t][i])
  BY DEF Resembles, SInv, Stacked
<1>4. QED  BY <1>1, <1>2, <1>3, BeginStacks

LEMMA RunChildStacks ==
    ASSUME IInv, IInv', JInv, SInv, NEW t \in Threads, RunChild(t)
    PROVE  SInv'
<1> DEFINE f == TopFrame(t)
           g == [f EXCEPT !.at = "wait"]
           s == WithTop(t, g)
<1>1. PICK k : k = f.kid
  OBVIOUS
<1>2. /\ frames[t] # <<>> /\ f.at = "captured" /\ At(t, "captured")
      /\ frames' = [frames EXCEPT ![t] = Append(s, NewFrame(k, Len(cur_dpst_index[t])))]
      /\ Begin(t, k)
  <2>1. Begin(t, k)
    BY <1>1 DEF RunChild, Begin, CaptureExecute
  <2>2. QED  BY <1>1, <2>1 DEF RunChild, At
<1>3. k \in DOMAIN temp_cur_map /\ k \in Tasks
  BY <1>1, <1>2 DEF IInv, HandOver, TypeOK
<1>4. /\ f \in Frame /\ frames[t] \in Seq(Frame)
      /\ Len(frames[t]) \in Nat \ {0} /\ DOMAIN frames[t] = 1 .. Len(frames[t])
  BY <1>2, TopFrameTyped DEF IInv
<1>5. /\ g \in Frame /\ g.at = "wait" /\ g.op = f.op /\ g.young = f.young
      /\ g.base = f.base /\ g.task = f.task
  BY <1>4 DEF Frame
<1> HIDE DEF g
<1>6. /\ s \in Seq(Frame) /\ Len(s) = Len(frames[t])
      /\ s[Len(frames[t])] = g
      /\ \A i \in 1 .. Len(frames[t]) - 1 : s[i] = frames[t][i]
  BY <1>4, <1>5, ExceptSeq DEF WithTop
<1> HIDE DEF s
<1>7. \A i \in 1 .. Len(s) : i \in 1 .. Len(frames[t]) /\ (i = Len(frames[t]) \/ i \in 1 .. Len(frames[t]) - 1)
  BY <1>4, <1>6
<1>8. \A i \in 1 .. Len(frames[t]) : Habits(frames[t][i])
  BY DEF SInv, Stacked
<1>9. Resembles(f, g)
  <2>1. Len(frames[t]) \in 1 .. Len(frames[t])
    BY <1>4
  <2>2. Habits(f)
    BY <1>8, <2>1 DEF TopFrame
  <2>3. QED  BY <1>2, <1>5, <2>2 DEF Resembles, Habits
<1>10. \A i \in 1 .. Len(s) : Resembles(frames[t][i], s[i])
  BY <1>6, <1>7, <1>8, <1>9 DEF TopFrame, Resembles
<1>11. QED  BY <1>2, <1>3, <1>6, <1>10, BeginStacks

\* Nothing the invariant is about changes.
LEMMA StacksStay ==
    ASSUME SInv, UNCHANGED <<nodes, cur_dpst_index, temp_cur_map, frames, nodeOf>>
    PROVE  SInv'
  BY ZenonT(60) DEF SInv, Stacked, Placed, PlainNode, ImplicitFinish, WaitingArePlainNodes

LEMMA InitStacks ==
    ASSUME CollectionAssumption, MainAssumption, Init
    PROVE  SInv
<1> DEFINE m == NewFrame(MainTask, 0)
<1>1. /\ frames = [t \in Threads |-> IF t = Main THEN <<m>> ELSE <<>>] /\ Main \in Threads
      /\ cur_dpst_index = [t \in Threads |-> IF t = Main THEN <<1>> ELSE <<>>]
      /\ DOMAIN temp_cur_map = {} /\ nodeOf[MainTask] = 1 /\ DOMAIN nodes = {1}
      /\ nodes[1] = [young_ns_child |-> NO_TYPE, sync_finish_flag |-> FALSE, child_id |-> 2]
  BY DEF Init, GraphInit, Threads, Tasks, MainTask, CollectionAssumption
<1>2. m.at = "run" /\ m.base = 0 /\ m.young = "none" /\ m.task = MainTask
  BY DEF NewFrame
<1> HIDE DEF m
<1>3. PlainNode(1)
  BY <1>1 DEF PlainNode, NO_TYPE, ASYNC
<1>4. Height(m) = 1 /\ Habits(m)
  BY <1>2 DEF Height, Habits
<1>5. Placed(m, <<1>>)
  BY <1>1, <1>2, <1>3, <1>4 DEF Placed
<1>6. Contiguous(<<m>>, <<1>>)
  BY <1>2, <1>4 DEF Contiguous
<1>7. Stacked(Main)
  BY <1>1, <1>4, <1>5, <1>6 DEF Stacked
<1>8. ASSUME NEW t \in Threads \ {Main}
      PROVE  Stacked(t)
  BY <1>1 DEF Stacked, Contiguous
<1>9. QED  BY <1>1, <1>7, <1>8 DEF SInv, WaitingArePlainNodes

LEMMA NextStacks ==
    ASSUME CollectionAssumption, ~EmptyWaits, ~SpawnsAfterRoots,
           IInv, IInv', JInv, SInv, [Next]_vars
    PROVE  SInv'
<1>1. ASSUME NEW t \in Threads, ThreadStep(t)
      PROVE  SInv'
  <2>1. ASSUME NEW op \in {"spawn", "root", "both"}, SpawnEntry(t, op)
        PROVE  SInv'
    BY <2>1, SpawnEntryStacks
  <2>2. CASE SpawnCapture(t)
    BY <2>2, SpawnCaptureStacks
  <2>3. CASE SpawnExit(t)
    BY <2>3, SpawnExitStacks
  <2>4. CASE WaitEntry(t)
    BY <2>4, WaitEntryStacks
  <2>5. CASE Join(t)
    BY <2>5, JoinStacks
  <2>6. ASSUME NEW k \in Tasks, TakeTask(t, k)
        PROVE  SInv'
    BY <2>6, TakeTaskStacks
  <2>7. CASE RunChild(t)
    BY <2>7, RunChildStacks
  <2>8. CASE ExecEnd(t)
    BY <2>8, ExecEndStacks
  <2>9. QED  BY <1>1, <2>1, <2>2, <2>3, <2>4, <2>5, <2>6, <2>7, <2>8 DEF ThreadStep
<1>2. CASE Fini
  BY <1>2, StacksStay DEF Fini, graph
<1>3. CASE UNCHANGED vars
  BY <1>3, StacksStay DEF vars, graph, scheduler, program
<1>4. QED  BY <1>1, <1>2, <1>3 DEF Next, Terminated

\* In a program that has something to wait for whenever it waits, and spawns no
\* more after a spawn_root_and_wait that found spawned children, every Capture
\* call and hook finds the nodes of its own task on top of the stack.
THEOREM StacksKept == ASSUME ~EmptyWaits, ~SpawnsAfterRoots PROVE Spec => []SInv
<1>1. Init => SInv
  BY InitStacks, CollectionAssumption, MainAssumption
<1>2. IInv /\ IInv' /\ JInv /\ SInv /\ [Next]_vars => SInv'
  BY NextStacks, CollectionAssumption
<1>3. QED  BY <1>1, <1>2, Invariance, Placement, PTL DEF Spec

\* A thread's stack is the nodes of the tasks it is in, so the work of a step
\* is charged to the task that did it, whatever the thread ran while it waited.
THEOREM WorkInPlace == ASSUME ~EmptyWaits, ~SpawnsAfterRoots PROVE Spec => []StackMatchesTasks
<1>1. IInv /\ SInv => StackMatchesTasks
  <2> SUFFICES ASSUME IInv, SInv, NEW t \in Threads
               PROVE  LET stack == cur_dpst_index[t]
                          limit(i) == IF i = Len(frames[t]) THEN Len(stack) ELSE frames[t][i + 1].base
                          Implicit(n) == n \in DOMAIN nodes /\ nodes[n].sync_finish_flag
                      IN  /\ frames[t] = <<>> => stack = <<>>
                          /\ \A i \in DOMAIN frames[t] :
                                LET f == frames[t][i]
                                    height == IF f.young = "none" THEN 1 ELSE 2
                                IN  /\ limit(i) = f.base + height
                                    /\ limit(i) <= Len(stack)
                                    /\ stack[f.base + 1] = nodeOf[f.task]
                                    /\ ~Implicit(stack[f.base + 1])
                                    /\ height = 2 => Implicit(stack[f.base + 2])
    BY DEF StackMatchesTasks
  <2>1. PICK s, stack : s = frames[t] /\ stack = cur_dpst_index[t]
    OBVIOUS
  <2>2. s \in Seq(Frame) /\ DOMAIN s = 1 .. Len(s) /\ Len(s) \in Nat
    BY <2>1 DEF IInv, TypeOK
  <2>3. Contiguous(s, stack) /\ \A i \in 1 .. Len(s) : Placed(s[i], stack)
    BY <2>1 DEF SInv, Stacked
  <2>4. ASSUME NEW i \in DOMAIN s
        PROVE  /\ (IF i = Len(s) THEN Len(stack) ELSE s[i + 1].base) = s[i].base + Height(s[i])
               /\ s[i].base + Height(s[i]) <= Len(stack)
               /\ stack[s[i].base + 1] = nodeOf[s[i].task]
               /\ PlainNode(stack[s[i].base + 1])
               /\ s[i].young # "none" => ImplicitFinish(stack[s[i].base + 2], s[i].young)
    <3>1. (IF i = Len(s) THEN Len(stack) ELSE s[i + 1].base) = s[i].base + Height(s[i])
      <4>1. CASE i = Len(s)
        BY <2>2, <2>3, <4>1 DEF Contiguous
      <4>2. CASE i # Len(s)
        <5>1. i \in 1 .. Len(s) - 1
          BY <2>2, <4>2
        <5>2. QED  BY <2>3, <4>2, <5>1 DEF Contiguous
      <4>3. QED  BY <4>1, <4>2
    <3>2. Placed(s[i], stack)
      BY <2>2, <2>3
    <3>3. QED  BY <3>1, <3>2 DEF Placed
  <2>5. s = <<>> => stack = <<>>
    BY <2>3 DEF Contiguous
  <2>6. ASSUME NEW i \in DOMAIN frames[t]
        PROVE  LET limit == IF i = Len(frames[t]) THEN Len(cur_dpst_index[t]) ELSE frames[t][i + 1].base
                   f == frames[t][i]
                   height == IF f.young = "none" THEN 1 ELSE 2
                   chain == cur_dpst_index[t]
               IN  /\ limit = f.base + height
                   /\ limit <= Len(chain)
                   /\ chain[f.base + 1] = nodeOf[f.task]
                   /\ ~(chain[f.base + 1] \in DOMAIN nodes /\ nodes[chain[f.base + 1]].sync_finish_flag)
                   /\ height = 2 => /\ chain[f.base + 2] \in DOMAIN nodes
                                    /\ nodes[chain[f.base + 2]].sync_finish_flag
    <3>1. PICK f, h, limit : /\ f = s[i] /\ h = Height(f)
                             /\ limit = IF i = Len(s) THEN Len(stack) ELSE s[i + 1].base
      OBVIOUS
    <3>2. /\ limit = f.base + h /\ limit <= Len(stack) /\ stack[f.base + 1] = nodeOf[f.task]
          /\ PlainNode(stack[f.base + 1])
          /\ f.young # "none" => ImplicitFinish(stack[f.base + 2], f.young)
      BY <2>1, <2>4, <3>1
    <3>3. h = IF f.young = "none" THEN 1 ELSE 2
      BY <3>1 DEF Height
    <3>4. ~(stack[f.base + 1] \in DOMAIN nodes /\ nodes[stack[f.base + 1]].sync_finish_flag)
      BY <3>2 DEF PlainNode
    <3>5. h = 2 => stack[f.base + 2] \in DOMAIN nodes /\ nodes[stack[f.base + 2]].sync_finish_flag
      BY <3>2, <3>3 DEF ImplicitFinish
    <3>6. QED  BY <2>1, <3>1, <3>2, <3>3, <3>4, <3>5
  <2>7. QED  BY <2>1, <2>5, <2>6
<1>2. QED  BY <1>1, Invariance, StacksKept, PTL

================================================================================
