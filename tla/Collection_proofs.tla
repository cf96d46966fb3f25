--------------------------- MODULE Collection_proofs ---------------------------
(******************************************************************************)
(* Invariants of the collection phase for any number of workers and tasks and *)
(* for every program, the ones with the habits that break StackMatchesTasks   *)
(* included.                                                                  *)
(*                                                                            *)
(* First the type of the state, the ownership of the nodes and the hand-over  *)
(* of tasks, proved together (IInv).  A Capture call needs a node on top of   *)
(* the stack that is still allocated (ownership) and, when it registers a     *)
(* task, an id that is not in the map yet (hand-over); the hand-over needs    *)
(* that a thread blocked in a join is not in the middle of a spawn call.      *)
(*                                                                            *)
(* Then what a step leaves alone: a Capture method writes and deletes only    *)
(* nodes its thread has on its stack, and creates ones that nobody has; that  *)
(* these are not on another thread's stack is NodeOwnership.                  *)
(*                                                                            *)
(* Last, where the tasks are (JInv).  A task is on one frame of one thread at *)
(* most, and one that has ended or waits in temp_cur_map is on none; every    *)
(* task descends from main; and main is past its spawns only when everything  *)
(* below it has ended.  So Fini finds the other threads outside the program,  *)
(* which is what CountsOnlySteps needs, and no task is begun a second time,   *)
(* which is what the refinement of TaskRuntime needs.                         *)
(******************************************************************************)
EXTENDS Collection, SequenceTheorems, TLAPS

(******************************************************************************)
(* What each call of AFTaskGraph preserves, whatever the state it is made in: *)
(* the type of the graph and the ownership of its nodes.                      *)
(******************************************************************************)

\* A popped stack keeps the elements below its top.
LEMMA PoppedStack ==
    ASSUME NEW S, NEW s \in Seq(S), s # <<>>
    PROVE  /\ Popped(s) \in Seq(S)
           /\ Len(Popped(s)) = Len(s) - 1
           /\ DOMAIN Popped(s) = 1 .. Len(s) - 1
           /\ \A i \in 1 .. Len(s) - 1 : Popped(s)[i] = s[i]
<1> DEFINE n == Len(s) - 1
<1>1. n \in Nat /\ \A i \in 1 .. n : s[i] \in S
  OBVIOUS
<1> HIDE DEF n
<1>2. /\ SubSeq(s, 1, n) \in Seq(S)
      /\ Len(SubSeq(s, 1, n)) = IF 1 <= n THEN n - 1 + 1 ELSE 0
      /\ \A i \in 1 .. n - 1 + 1 : SubSeq(s, 1, n)[i] = s[1 + i - 1]
  BY <1>1, SubSeqProperties
<1>3. /\ SubSeq(s, 1, n) \in Seq(S)
      /\ Len(SubSeq(s, 1, n)) = n
      /\ \A i \in 1 .. n : SubSeq(s, 1, n)[i] = s[i]
  BY <1>1, <1>2
<1>4. /\ SubSeq(s, 1, Len(s) - 1) \in Seq(S)
      /\ Len(SubSeq(s, 1, Len(s) - 1)) = Len(s) - 1
      /\ \A i \in 1 .. Len(s) - 1 : SubSeq(s, 1, Len(s) - 1)[i] = s[i]
  BY <1>3 DEF n
<1>5. DOMAIN SubSeq(s, 1, Len(s) - 1) = 1 .. Len(s) - 1
  BY <1>4, LenProperties
<1>6. QED  BY <1>4, <1>5 DEF Popped

\* Insert adds at most one key and changes no other entry.
LEMMA Inserted ==
    ASSUME NEW map, NEW key, NEW value
    PROVE  /\ DOMAIN Insert(map, key, value) = DOMAIN map \cup {key}
           /\ \A x \in DOMAIN map : Insert(map, key, value)[x] = map[x]
           /\ key \notin DOMAIN map => Insert(map, key, value)[key] = value
  BY DEF Insert

LEMMA Erased ==
    ASSUME NEW map, NEW key
    PROVE  /\ DOMAIN Erase(map, key) = DOMAIN map \ {key}
           /\ \A x \in DOMAIN map \ {key} : Erase(map, key)[x] = map[x]
  BY DEF Erase

\* The top of a non-empty stack is an allocated node.
LEMMA TopAllocated ==
    ASSUME GraphTypeOK, NoDangling, NEW t \in Threads, cur_dpst_index[t] # <<>>
    PROVE  /\ Top(t) \in DOMAIN nodes
           /\ Top(t) \in Nat
           /\ Len(cur_dpst_index[t]) \in DOMAIN cur_dpst_index[t]
           /\ nodes[Top(t)] \in AFTask
           /\ getCurStepId(t) \in Nat
           /\ getCurStepParent(t) \in Nat
  BY DEF GraphTypeOK, NoDangling, Top, AFTask, getCurStepId, getCurStepParent

\* Entries join a thread's log without spoiling its type.
LEMMA LogTyped ==
    ASSUME report \in [Threads -> Seq(LogEntry)], NEW t \in Threads,
           NEW entries \in Seq(LogEntry), Log(t, entries)
    PROVE  report' \in [Threads -> Seq(LogEntry)]
  BY DEF Log

(******************************************************************************)
(* Ownership under the moves a pointer can make.                              *)
(******************************************************************************)

\* A new node gets its pointer in temp_cur_map.
LEMMA OwnershipRegister ==
    ASSUME GraphTypeOK, NodeOwnership,
           NEW k, k \notin DOMAIN temp_cur_map, NEW n, n \notin DOMAIN nodes,
           temp_cur_map' = Insert(temp_cur_map, k, n),
           DOMAIN nodes' = DOMAIN nodes \cup {n},
           cur_dpst_index' = cur_dpst_index
    PROVE  NodeOwnership'
<1>1. /\ DOMAIN temp_cur_map' = DOMAIN temp_cur_map \cup {k}
      /\ temp_cur_map'[k] = n
      /\ \A j \in DOMAIN temp_cur_map : temp_cur_map'[j] = temp_cur_map[j]
  BY DEF Insert
<1>2. NoDangling'
  BY <1>1 DEF NodeOwnership, NoDangling
<1>3. OneOwner'
  BY <1>1 DEF NodeOwnership, OneOwner, NoDangling
<1>4. NoLeak'
  BY <1>1 DEF NodeOwnership, NoLeak
<1>5. QED  BY <1>2, <1>3, <1>4 DEF NodeOwnership

\* A thread pushes an allocated node to which no stack has a pointer.
LEMMA Pushed ==
    ASSUME GraphTypeOK, NEW t \in Threads, NEW n \in Nat,
           cur_dpst_index' = [cur_dpst_index EXCEPT ![t] = Append(@, n)]
    PROVE  /\ cur_dpst_index' \in [Threads -> Seq(Nat)]
           /\ \A u \in Threads \ {t} : cur_dpst_index'[u] = cur_dpst_index[u]
           /\ DOMAIN cur_dpst_index'[t] = DOMAIN cur_dpst_index[t] \cup {Len(cur_dpst_index[t]) + 1}
           /\ Len(cur_dpst_index[t]) + 1 \notin DOMAIN cur_dpst_index[t]
           /\ \A i \in DOMAIN cur_dpst_index[t] : cur_dpst_index'[t][i] = cur_dpst_index[t][i]
           /\ cur_dpst_index'[t][Len(cur_dpst_index[t]) + 1] = n
<1>1. cur_dpst_index[t] \in Seq(Nat) /\ cur_dpst_index'[t] = Append(cur_dpst_index[t], n)
  BY DEF GraphTypeOK
<1>2. QED  BY <1>1, AppendProperties, LenProperties DEF GraphTypeOK

\* Two new nodes, one pushed and one put in temp_cur_map.
LEMMA OwnershipPushAndRegister ==
    ASSUME GraphTypeOK, NodeOwnership, NEW t \in Threads,
           NEW k, k \notin DOMAIN temp_cur_map,
           NEW f \in Nat, NEW n \in Nat, f \notin DOMAIN nodes, n \notin DOMAIN nodes, f # n,
           temp_cur_map' = Insert(temp_cur_map, k, n),
           DOMAIN nodes' = DOMAIN nodes \cup {f, n},
           cur_dpst_index' = [cur_dpst_index EXCEPT ![t] = Append(@, f)]
    PROVE  NodeOwnership'
<1>1. /\ DOMAIN temp_cur_map' = DOMAIN temp_cur_map \cup {k}
      /\ temp_cur_map'[k] = n
      /\ \A j \in DOMAIN temp_cur_map : temp_cur_map'[j] = temp_cur_map[j]
  BY DEF Insert
<1> DEFINE top == Len(cur_dpst_index[t]) + 1
<1>2. /\ \A u \in Threads \ {t} : cur_dpst_index'[u] = cur_dpst_index[u]
      /\ DOMAIN cur_dpst_index'[t] = DOMAIN cur_dpst_index[t] \cup {top}
      /\ top \notin DOMAIN cur_dpst_index[t]
      /\ \A i \in DOMAIN cur_dpst_index[t] : cur_dpst_index'[t][i] = cur_dpst_index[t][i]
      /\ cur_dpst_index'[t][top] = f
  BY Pushed
<1> HIDE DEF top
<1>3. NoDangling'
  BY <1>1, <1>2 DEF NodeOwnership, NoDangling
<1>4. OneOwner'
  BY <1>1, <1>2 DEF NodeOwnership, OneOwner, NoDangling
<1>5. NoLeak'
  BY <1>1, <1>2 DEF NodeOwnership, NoLeak
<1>6. QED  BY <1>3, <1>4, <1>5 DEF NodeOwnership

\* The pointer to a node moves from temp_cur_map to a stack.
LEMMA OwnershipMove ==
    ASSUME GraphTypeOK, NodeOwnership, NEW t \in Threads, NEW k \in DOMAIN temp_cur_map,
           temp_cur_map' = Erase(temp_cur_map, k),
           DOMAIN nodes' = DOMAIN nodes,
           cur_dpst_index' = [cur_dpst_index EXCEPT ![t] = Append(@, temp_cur_map[k])]
    PROVE  NodeOwnership'
<1>1. /\ DOMAIN temp_cur_map' = DOMAIN temp_cur_map \ {k}
      /\ \A j \in DOMAIN temp_cur_map \ {k} : temp_cur_map'[j] = temp_cur_map[j]
  BY Erased
<1> DEFINE top == Len(cur_dpst_index[t]) + 1
<1>2. /\ \A u \in Threads \ {t} : cur_dpst_index'[u] = cur_dpst_index[u]
      /\ DOMAIN cur_dpst_index'[t] = DOMAIN cur_dpst_index[t] \cup {top}
      /\ top \notin DOMAIN cur_dpst_index[t]
      /\ \A i \in DOMAIN cur_dpst_index[t] : cur_dpst_index'[t][i] = cur_dpst_index[t][i]
      /\ cur_dpst_index'[t][top] = temp_cur_map[k]
  <2>1. temp_cur_map[k] \in Nat
    BY DEF GraphTypeOK
  <2>2. QED  BY <2>1, Pushed
<1> HIDE DEF top
<1>3. NoDangling'
  BY <1>1, <1>2 DEF NodeOwnership, NoDangling
<1>4. OneOwner'
  BY <1>1, <1>2 DEF NodeOwnership, OneOwner, NoDangling
<1>5. NoLeak'
  BY <1>1, <1>2 DEF NodeOwnership, NoLeak
<1>6. QED  BY <1>3, <1>4, <1>5 DEF NodeOwnership

\* A thread cuts its stack at height h and deletes the nodes above.
LEMMA OwnershipCut ==
    ASSUME GraphTypeOK, NodeOwnership, NEW t \in Threads,
           NEW h \in Nat, h <= Len(cur_dpst_index[t]),
           NEW s \in Seq(Nat), DOMAIN s = 1 .. h,
           \A i \in 1 .. h : s[i] = cur_dpst_index[t][i],
           cur_dpst_index' = [cur_dpst_index EXCEPT ![t] = s],
           temp_cur_map' = temp_cur_map,
           DOMAIN nodes' = DOMAIN nodes \
               {cur_dpst_index[t][i] : i \in h + 1 .. Len(cur_dpst_index[t])}
    PROVE  NodeOwnership'
<1>1. /\ cur_dpst_index'[t] = s
      /\ \A u \in Threads \ {t} : cur_dpst_index'[u] = cur_dpst_index[u]
      /\ DOMAIN cur_dpst_index[t] = 1 .. Len(cur_dpst_index[t])
      /\ Len(cur_dpst_index[t]) \in Nat
  BY DEF GraphTypeOK
<1>2. NoDangling'
  BY <1>1 DEF NodeOwnership, NoDangling, OneOwner
<1>3. OneOwner'
  BY <1>1 DEF NodeOwnership, OneOwner
<1>4. NoLeak'
  BY <1>1 DEF NodeOwnership, NoLeak
<1>5. QED  BY <1>2, <1>3, <1>4 DEF NodeOwnership

(******************************************************************************)
(* Every call preserves the graph invariants.                                 *)
(******************************************************************************)

LEMMA AddAsyncPreserves ==
    ASSUME GraphTypeOK, NodeOwnership, NEW t \in Threads, cur_dpst_index[t] # <<>>,
           NEW k, k \notin DOMAIN temp_cur_map, NEW site \in Nat, NEW step \in Nat, NEW last \in Nat,
           last > last_allocated_node, AddAsync(t, k, site, step, last)
    PROVE  GraphTypeOK' /\ NodeOwnership'
<1> DEFINE cur == Top(t)
           new == last_allocated_node
           rec == [young_ns_child |-> NO_TYPE, sync_finish_flag |-> FALSE, child_id |-> new + 1]
<1>1. /\ nodes' = Insert([nodes EXCEPT ![cur].child_id = step], new, rec)
      /\ last_allocated_node' = last
      /\ temp_cur_map' = Insert(temp_cur_map, k, new)
      /\ Log(t, <<Entry(new, cur, ASYNC, site)>>)
      /\ cur_dpst_index' = cur_dpst_index
  BY DEF AddAsync, Register
<1>2. /\ cur \in DOMAIN nodes /\ cur \in Nat /\ nodes[cur] \in AFTask
      /\ new \in Nat /\ new \notin DOMAIN nodes
      /\ rec \in AFTask
  <2>1. cur \in DOMAIN nodes /\ cur \in Nat /\ nodes[cur] \in AFTask
    BY TopAllocated DEF NodeOwnership
  <2>2. /\ last_allocated_node \in Nat
        /\ DOMAIN nodes \subseteq 1 .. last_allocated_node - 1
    BY DEF GraphTypeOK
  <2>3. new \in Nat /\ new \notin DOMAIN nodes
    BY <2>2
  <2>4. rec \in AFTask
    BY <2>2 DEF AFTask
  <2>5. QED  BY <2>1, <2>3, <2>4
<1> HIDE DEF cur, new, rec
<1>3. /\ DOMAIN nodes' = DOMAIN nodes \cup {new}
      /\ nodes' \in [DOMAIN nodes' -> AFTask]
  <2>1. [nodes EXCEPT ![cur].child_id = step] \in [DOMAIN nodes -> AFTask]
    BY <1>2 DEF GraphTypeOK, AFTask
  <2>2. QED  BY <2>1, <1>1, <1>2 DEF Insert
<1>4. NodeOwnership'
  BY <1>1, <1>2, <1>3, OwnershipRegister
<1>5. report' \in [Threads -> Seq(LogEntry)]
  <2>1. <<Entry(new, cur, ASYNC, site)>> \in Seq(LogEntry)
    BY <1>2 DEF Entry, LogEntry, ASYNC
  <2>2. QED  BY <2>1, <1>1, LogTyped DEF GraphTypeOK
<1>6. temp_cur_map' \in [DOMAIN temp_cur_map' -> Nat]
  BY <1>1, <1>2 DEF Insert, GraphTypeOK
<1>7. /\ last_allocated_node' \in Nat \ {0}
      /\ DOMAIN nodes' \subseteq 1 .. last_allocated_node' - 1
  <2>1. /\ DOMAIN nodes \subseteq 1 .. last_allocated_node - 1
        /\ last_allocated_node \in Nat \ {0}
        /\ new = last_allocated_node
    BY DEF GraphTypeOK, new
  <2>2. 1 .. last_allocated_node \subseteq 1 .. last - 1
    BY <2>1
  <2>3. QED  BY <1>1, <1>3, <2>1, <2>2
<1>8. QED  BY <1>1, <1>3, <1>4, <1>5, <1>6, <1>7 DEF GraphTypeOK

LEMMA AddFinishAndAsyncPreserves ==
    ASSUME GraphTypeOK, NodeOwnership, NEW t \in Threads, cur_dpst_index[t] # <<>>,
           NEW k, k \notin DOMAIN temp_cur_map, NEW site \in Nat, NEW step \in Nat, NEW last \in Nat,
           last > last_allocated_node + 1, AddFinishAndAsync(t, k, site, step, last)
    PROVE  GraphTypeOK' /\ NodeOwnership'
<1> DEFINE cur == Top(t)
           fin == last_allocated_node
           new == last_allocated_node + 1
           finish == [young_ns_child |-> ASYNC, sync_finish_flag |-> TRUE, child_id |-> step]
           async == [young_ns_child |-> NO_TYPE, sync_finish_flag |-> FALSE, child_id |-> new + 1]
           old == [nodes EXCEPT ![cur].young_ns_child = FINISH]
<1>1. /\ nodes' = Insert(Insert(old, fin, finish), new, async)
      /\ last_allocated_node' = last
      /\ temp_cur_map' = Insert(temp_cur_map, k, new)
      /\ cur_dpst_index' = [cur_dpst_index EXCEPT ![t] = Append(@, fin)]
      /\ Log(t, <<Entry(fin, cur, FINISH, 0), Entry(new, fin, ASYNC, site)>>)
  BY DEF AddFinishAndAsync, Register
<1>2. /\ cur \in DOMAIN nodes /\ cur \in Nat /\ nodes[cur] \in AFTask
      /\ fin \in Nat /\ new \in Nat /\ fin # new
      /\ fin \notin DOMAIN nodes /\ new \notin DOMAIN nodes
      /\ finish \in AFTask /\ async \in AFTask
  <2>1. cur \in DOMAIN nodes /\ cur \in Nat /\ nodes[cur] \in AFTask
    BY TopAllocated DEF NodeOwnership
  <2>2. /\ last_allocated_node \in Nat
        /\ DOMAIN nodes \subseteq 1 .. last_allocated_node - 1
    BY DEF GraphTypeOK
  <2>3. /\ fin \in Nat /\ new \in Nat /\ fin # new
        /\ fin \notin DOMAIN nodes /\ new \notin DOMAIN nodes
    BY <2>2
  <2>4. finish \in AFTask /\ async \in AFTask
    BY <2>2 DEF AFTask
  <2>5. QED  BY <2>1, <2>3, <2>4
<1>3. old \in [DOMAIN nodes -> AFTask]
  BY <1>2 DEF GraphTypeOK, AFTask
<1> HIDE DEF cur, fin, new, finish, async, old
<1>4. /\ DOMAIN nodes' = DOMAIN nodes \cup {fin, new}
      /\ nodes' \in [DOMAIN nodes' -> AFTask]
  BY <1>1, <1>2, <1>3 DEF Insert
<1>5. NodeOwnership'
  BY <1>1, <1>2, <1>4, OwnershipPushAndRegister
<1>6. report' \in [Threads -> Seq(LogEntry)]
  <2>1. <<Entry(fin, cur, FINISH, 0), Entry(new, fin, ASYNC, site)>> \in Seq(LogEntry)
    BY <1>2 DEF Entry, LogEntry, ASYNC, FINISH
  <2>2. QED  BY <2>1, <1>1, LogTyped DEF GraphTypeOK
<1>7. temp_cur_map' \in [DOMAIN temp_cur_map' -> Nat]
  BY <1>1, <1>2 DEF Insert, GraphTypeOK
<1>8. /\ last_allocated_node' \in Nat \ {0}
      /\ DOMAIN nodes' \subseteq 1 .. last_allocated_node' - 1
  <2>1. /\ DOMAIN nodes \subseteq 1 .. last_allocated_node - 1
        /\ last_allocated_node \in Nat \ {0}
        /\ fin = last_allocated_node /\ new = last_allocated_node + 1
    BY DEF GraphTypeOK, fin, new
  <2>2. 1 .. last_allocated_node + 1 \subseteq 1 .. last - 1
    BY <2>1
  <2>3. QED  BY <1>1, <1>4, <2>1, <2>2
<1>9. cur_dpst_index' \in [Threads -> Seq(Nat)]
  BY <1>1, <1>2, Pushed
<1>10. QED  BY <1>4, <1>5, <1>6, <1>7, <1>8, <1>9 DEF GraphTypeOK

LEMMA CaptureSpawnOnlyPreserves ==
    ASSUME GraphTypeOK, NodeOwnership, NEW t \in Threads,
           NEW k, k \notin DOMAIN temp_cur_map, NEW site \in Nat, CaptureSpawnOnly(t, k, site)
    PROVE  GraphTypeOK' /\ NodeOwnership'
<1>1. /\ cur_dpst_index[t] # <<>> /\ last_allocated_node \in Nat
      /\ last_allocated_node + 2 \in Nat
      /\ last_allocated_node + 3 \in Nat /\ last_allocated_node + 3 > last_allocated_node
      /\ last_allocated_node + 4 \in Nat /\ last_allocated_node + 4 > last_allocated_node + 1
  BY DEF CaptureSpawnOnly, GraphTypeOK
<1>2. CASE AddAsync(t, k, site, last_allocated_node + 2, last_allocated_node + 3)
  BY <1>1, <1>2, AddAsyncPreserves
<1>3. CASE AddFinishAndAsync(t, k, site, last_allocated_node + 3, last_allocated_node + 4)
  BY <1>1, <1>3, AddFinishAndAsyncPreserves
<1>4. QED  BY <1>2, <1>3 DEF CaptureSpawnOnly

LEMMA CaptureSpawnAndWaitForAllPreserves ==
    ASSUME GraphTypeOK, NodeOwnership, NEW t \in Threads,
           NEW k, k \notin DOMAIN temp_cur_map, NEW site \in Nat, CaptureSpawnAndWaitForAll(t, k, site)
    PROVE  GraphTypeOK' /\ NodeOwnership'
<1>1. /\ cur_dpst_index[t] # <<>> /\ last_allocated_node \in Nat
      /\ last_allocated_node + 2 \in Nat /\ last_allocated_node + 2 > last_allocated_node
      /\ last_allocated_node + 3 \in Nat /\ last_allocated_node + 3 > last_allocated_node + 1
  BY DEF CaptureSpawnAndWaitForAll, GraphTypeOK
<1>2. nodes[Top(t)].child_id \in Nat
  BY <1>1, TopAllocated DEF NodeOwnership, getCurStepId
<1>3. CASE AddAsync(t, k, site, nodes[Top(t)].child_id, last_allocated_node + 2)
  BY <1>1, <1>2, <1>3, AddAsyncPreserves
<1>4. CASE AddFinishAndAsync(t, k, site, 0, last_allocated_node + 3)
  BY <1>1, <1>4, AddFinishAndAsyncPreserves
<1>5. QED  BY <1>3, <1>4 DEF CaptureSpawnAndWaitForAll

LEMMA CaptureSpawnAndWaitPreserves ==
    ASSUME GraphTypeOK, NodeOwnership, NEW t \in Threads,
           NEW k, k \notin DOMAIN temp_cur_map, NEW site \in Nat, CaptureSpawnAndWait(t, k, site)
    PROVE  GraphTypeOK' /\ NodeOwnership'
<1> DEFINE cur == Top(t)
           fin == last_allocated_node
           rec == [young_ns_child |-> NO_TYPE, sync_finish_flag |-> FALSE, child_id |-> fin + 1]
           old == [nodes EXCEPT ![cur].young_ns_child = FINISH]
<1>1. /\ nodes' = Insert(old, fin, rec)
      /\ last_allocated_node' = last_allocated_node + 2
      /\ temp_cur_map' = Insert(temp_cur_map, k, fin)
      /\ cur_dpst_index' = cur_dpst_index
      /\ Log(t, <<Entry(fin, cur, FINISH, site)>>)
  BY DEF CaptureSpawnAndWait, Register
<1>2. /\ cur \in DOMAIN nodes /\ cur \in Nat /\ nodes[cur] \in AFTask
      /\ fin \in Nat /\ fin \notin DOMAIN nodes
      /\ rec \in AFTask
  <2>1. cur \in DOMAIN nodes /\ cur \in Nat /\ nodes[cur] \in AFTask
    BY TopAllocated DEF NodeOwnership, CaptureSpawnAndWait
  <2>2. /\ last_allocated_node \in Nat
        /\ DOMAIN nodes \subseteq 1 .. last_allocated_node - 1
    BY DEF GraphTypeOK
  <2>3. fin \in Nat /\ fin \notin DOMAIN nodes
    BY <2>2
  <2>4. rec \in AFTask
    BY <2>2 DEF AFTask
  <2>5. QED  BY <2>1, <2>3, <2>4
<1>3. old \in [DOMAIN nodes -> AFTask]
  BY <1>2 DEF GraphTypeOK, AFTask
<1> HIDE DEF cur, fin, rec, old
<1>4. /\ DOMAIN nodes' = DOMAIN nodes \cup {fin}
      /\ nodes' \in [DOMAIN nodes' -> AFTask]
  BY <1>1, <1>2, <1>3 DEF Insert
<1>5. NodeOwnership'
  BY <1>1, <1>2, <1>4, OwnershipRegister
<1>6. report' \in [Threads -> Seq(LogEntry)]
  <2>1. <<Entry(fin, cur, FINISH, site)>> \in Seq(LogEntry)
    BY <1>2 DEF Entry, LogEntry, FINISH
  <2>2. QED  BY <2>1, <1>1, LogTyped DEF GraphTypeOK
<1>7. temp_cur_map' \in [DOMAIN temp_cur_map' -> Nat]
  BY <1>1, <1>2 DEF Insert, GraphTypeOK
<1>8. /\ last_allocated_node' \in Nat \ {0}
      /\ DOMAIN nodes' \subseteq 1 .. last_allocated_node' - 1
  BY <1>1, <1>2, <1>4 DEF GraphTypeOK, fin
<1>9. QED  BY <1>1, <1>4, <1>5, <1>6, <1>7, <1>8 DEF GraphTypeOK

(* The remaining calls log nothing; the caller says what becomes of report.   *)

LEMMA CaptureExecutePreserves ==
    ASSUME GraphTypeOK, NodeOwnership, NEW t \in Threads, NEW k, CaptureExecute(t, k),
           report' \in [Threads -> Seq(LogEntry)]
    PROVE  GraphTypeOK' /\ NodeOwnership'
<1>1. /\ k \in DOMAIN temp_cur_map
      /\ temp_cur_map' = Erase(temp_cur_map, k)
      /\ cur_dpst_index' = [cur_dpst_index EXCEPT ![t] = Append(@, temp_cur_map[k])]
      /\ nodes' = nodes /\ last_allocated_node' = last_allocated_node
  BY DEF CaptureExecute
<1>2. NodeOwnership'
  BY <1>1, OwnershipMove
<1>3. cur_dpst_index' \in [Threads -> Seq(Nat)]
  <2>1. temp_cur_map[k] \in Nat
    BY <1>1 DEF GraphTypeOK
  <2>2. QED  BY <1>1, <2>1, Pushed
<1>4. temp_cur_map' \in [DOMAIN temp_cur_map' -> Nat]
  BY <1>1 DEF Erase, GraphTypeOK
<1>5. QED  BY <1>1, <1>2, <1>3, <1>4 DEF GraphTypeOK

LEMMA CaptureReturnPreserves ==
    ASSUME GraphTypeOK, NodeOwnership, NEW t \in Threads, CaptureReturn(t),
           report' \in [Threads -> Seq(LogEntry)]
    PROVE  GraphTypeOK' /\ NodeOwnership'
<1> DEFINE stack == cur_dpst_index[t]
<1>1. /\ stack # <<>>
      /\ temp_cur_map' = temp_cur_map /\ last_allocated_node' = last_allocated_node
  BY DEF CaptureReturn
<1>2. stack \in Seq(Nat) /\ Len(stack) \in Nat \ {0} /\ DOMAIN stack = 1 .. Len(stack)
  BY <1>1 DEF GraphTypeOK
<1>3. /\ Popped(stack) \in Seq(Nat)
      /\ Len(Popped(stack)) = Len(stack) - 1
      /\ DOMAIN Popped(stack) = 1 .. Len(stack) - 1
      /\ \A i \in 1 .. Len(stack) - 1 : Popped(stack)[i] = stack[i]
  BY <1>1, <1>2, PoppedStack
<1>4. CASE /\ cur_dpst_index' = [cur_dpst_index EXCEPT ![t] = Popped(@)]
           /\ nodes' = Erase(nodes, Top(t))
  <2>1. /\ DOMAIN nodes' = DOMAIN nodes \ {Top(t)}
        /\ nodes' \in [DOMAIN nodes' -> AFTask]
    BY <1>4 DEF Erase, GraphTypeOK
  <2>2. {stack[i] : i \in (Len(stack) - 1) + 1 .. Len(stack)} = {Top(t)}
    BY <1>2 DEF Top
  <2>3. NodeOwnership'
    <3>1. /\ Len(stack) - 1 \in Nat /\ Len(stack) - 1 <= Len(stack)
          /\ cur_dpst_index' = [cur_dpst_index EXCEPT ![t] = Popped(stack)]
      BY <1>2, <1>4
    <3>2. QED  BY <1>1, <1>3, <2>1, <2>2, <3>1, OwnershipCut
  <2>4. cur_dpst_index' \in [Threads -> Seq(Nat)]
    BY <1>3, <1>4 DEF GraphTypeOK
  <2>5. QED  BY <1>1, <2>1, <2>3, <2>4 DEF GraphTypeOK
<1>5. CASE /\ Len(stack) > 1
           /\ cur_dpst_index' = [cur_dpst_index EXCEPT ![t] = Popped(Popped(@))]
           /\ nodes' = Erase(Erase(nodes, Top(t)), stack[Len(stack) - 1])
  <2> DEFINE rest == Popped(Popped(stack))
  <2>1. /\ rest \in Seq(Nat)
        /\ DOMAIN rest = 1 .. Len(stack) - 2
        /\ \A i \in 1 .. Len(stack) - 2 : rest[i] = stack[i]
    <3>1. Popped(stack) # <<>>
      BY <1>2, <1>3, <1>5
    <3>2. /\ rest \in Seq(Nat)
          /\ DOMAIN rest = 1 .. Len(Popped(stack)) - 1
          /\ \A i \in 1 .. Len(Popped(stack)) - 1 : rest[i] = Popped(stack)[i]
      BY <1>3, <3>1, PoppedStack
    <3>3. Len(Popped(stack)) - 1 = Len(stack) - 2
      BY <1>2, <1>3
    <3>4. \A i \in 1 .. Len(stack) - 2 : i \in 1 .. Len(stack) - 1
      BY <1>2
    <3>5. QED  BY <1>3, <3>2, <3>3, <3>4
  <2> HIDE DEF rest
  <2>2. /\ DOMAIN nodes' = DOMAIN nodes \ {Top(t), stack[Len(stack) - 1]}
        /\ nodes' \in [DOMAIN nodes' -> AFTask]
    BY <1>5 DEF Erase, GraphTypeOK
  <2>3. {stack[i] : i \in (Len(stack) - 2) + 1 .. Len(stack)} = {Top(t), stack[Len(stack) - 1]}
    <3>1. \A i : i \in (Len(stack) - 2) + 1 .. Len(stack) <=> i \in {Len(stack), Len(stack) - 1}
      BY <1>2, <1>5
    <3>2. QED  BY <3>1 DEF Top
  <2>4. NodeOwnership'
    <3>1. /\ Len(stack) - 2 \in Nat /\ Len(stack) - 2 <= Len(stack)
          /\ cur_dpst_index' = [cur_dpst_index EXCEPT ![t] = rest]
      BY <1>2, <1>5 DEF rest
    <3>2. QED  BY <1>1, <2>1, <2>2, <2>3, <3>1, OwnershipCut
  <2>5. cur_dpst_index' \in [Threads -> Seq(Nat)]
    BY <1>5, <2>1 DEF GraphTypeOK, rest
  <2>6. QED  BY <1>1, <2>2, <2>4, <2>5 DEF GraphTypeOK
<1>6. QED  BY <1>4, <1>5 DEF CaptureReturn

LEMMA CaptureWaitPreserves ==
    ASSUME GraphTypeOK, NodeOwnership, NEW t \in Threads, CaptureWait(t),
           report' \in [Threads -> Seq(LogEntry)]
    PROVE  GraphTypeOK' /\ NodeOwnership'
<1>1. /\ cur_dpst_index[t] # <<>>
      /\ nodes' = [nodes EXCEPT ![Top(t)].child_id = last_allocated_node]
      /\ last_allocated_node' = last_allocated_node + 1
      /\ cur_dpst_index' = cur_dpst_index /\ temp_cur_map' = temp_cur_map
  BY DEF CaptureWait
<1>2. Top(t) \in DOMAIN nodes /\ nodes[Top(t)] \in AFTask
  BY <1>1, TopAllocated DEF NodeOwnership
<1>3. /\ DOMAIN nodes' = DOMAIN nodes
      /\ nodes' \in [DOMAIN nodes' -> AFTask]
  BY <1>1, <1>2 DEF GraphTypeOK, AFTask
<1>4. NodeOwnership'
  BY <1>1, <1>3 DEF NodeOwnership, NoDangling, OneOwner, NoLeak
<1>5. /\ last_allocated_node' \in Nat \ {0}
      /\ DOMAIN nodes' \subseteq 1 .. last_allocated_node' - 1
  BY <1>1, <1>3 DEF GraphTypeOK
<1>6. QED  BY <1>1, <1>3, <1>4, <1>5 DEF GraphTypeOK

LEMMA CaptureWaitOnlyPreserves ==
    ASSUME GraphTypeOK, NodeOwnership, NEW t \in Threads, CaptureWaitOnly(t),
           report' \in [Threads -> Seq(LogEntry)]
    PROVE  GraphTypeOK' /\ NodeOwnership'
<1> DEFINE stack == cur_dpst_index[t]
           below == stack[Len(stack) - 1]
<1>1. /\ Len(stack) > 1
      /\ cur_dpst_index' = [cur_dpst_index EXCEPT ![t] = Popped(stack)]
      /\ nodes' = [Erase(nodes, Top(t)) EXCEPT ![below].child_id = last_allocated_node]
      /\ last_allocated_node' = last_allocated_node + 1
      /\ temp_cur_map' = temp_cur_map
  BY DEF CaptureWaitOnly
<1>2. /\ stack \in Seq(Nat) /\ Len(stack) \in Nat \ {0} /\ DOMAIN stack = 1 .. Len(stack)
      /\ stack # <<>>
      /\ Len(stack) - 1 \in DOMAIN stack /\ Len(stack) \in DOMAIN stack
      /\ Len(stack) - 1 # Len(stack)
  BY <1>1 DEF GraphTypeOK
<1>3. /\ Popped(stack) \in Seq(Nat)
      /\ DOMAIN Popped(stack) = 1 .. Len(stack) - 1
      /\ \A i \in 1 .. Len(stack) - 1 : Popped(stack)[i] = stack[i]
  BY <1>2, PoppedStack
<1>4. below \in DOMAIN nodes /\ below # Top(t)
  BY <1>2 DEF NodeOwnership, NoDangling, OneOwner, Top
<1>5. /\ DOMAIN nodes' = DOMAIN nodes \ {Top(t)}
      /\ nodes' \in [DOMAIN nodes' -> AFTask]
  <2>1. Erase(nodes, Top(t)) \in [DOMAIN nodes \ {Top(t)} -> AFTask]
    BY DEF Erase, GraphTypeOK
  <2>2. last_allocated_node \in Nat
    BY DEF GraphTypeOK
  <2>3. QED  BY <1>1, <1>4, <2>1, <2>2 DEF AFTask
<1>6. NodeOwnership'
  <2>1. {stack[i] : i \in (Len(stack) - 1) + 1 .. Len(stack)} = {Top(t)}
    BY <1>2 DEF Top
  <2>2. Len(stack) - 1 \in Nat /\ Len(stack) - 1 <= Len(stack)
    BY <1>2
  <2>3. QED  BY <1>1, <1>3, <1>5, <2>1, <2>2, OwnershipCut
<1>7. /\ last_allocated_node' \in Nat \ {0}
      /\ DOMAIN nodes' \subseteq 1 .. last_allocated_node' - 1
  BY <1>1, <1>5 DEF GraphTypeOK
<1>8. cur_dpst_index' \in [Threads -> Seq(Nat)]
  BY <1>1, <1>3 DEF GraphTypeOK
<1>9. QED  BY <1>1, <1>5, <1>6, <1>7, <1>8 DEF GraphTypeOK

(******************************************************************************)
(* The invariant                                                              *)
(******************************************************************************)

IInv == TypeOK /\ NodeOwnership /\ HandOver

(******************************************************************************)
(* Frames                                                                     *)
(******************************************************************************)

\* The frame of a running task.
LEMMA TopFrameTyped ==
    ASSUME TypeOK, NEW t \in Threads, frames[t] # <<>>
    PROVE  /\ TopFrame(t) \in Frame
           /\ frames[t] \in Seq(Frame)
           /\ Len(frames[t]) \in Nat \ {0}
           /\ DOMAIN frames[t] = 1 .. Len(frames[t])
  BY DEF TypeOK, TopFrame

\* What SetTop leaves alone.
LEMMA TopSet ==
    ASSUME TypeOK, NEW t \in Threads, frames[t] # <<>>, NEW f \in Frame, SetTop(t, f)
    PROVE  /\ frames' \in [Threads -> Seq(Frame)]
           /\ \A u \in Threads \ {t} : frames'[u] = frames[u]
           /\ frames'[t] # <<>>
           /\ TopFrame(t)' = f
           /\ Len(frames'[t]) = Len(frames[t])
           /\ \A i \in 1 .. Len(frames[t]) - 1 : frames'[t][i] = frames[t][i]
<1>1. /\ frames[t] \in Seq(Frame)
      /\ Len(frames[t]) \in Nat \ {0}
      /\ DOMAIN frames[t] = 1 .. Len(frames[t])
  BY TopFrameTyped
<1> DEFINE new == WithTop(t, f)
<1>2. new = [frames[t] EXCEPT ![Len(frames[t])] = f]
  BY DEF WithTop
<1>3. /\ new \in Seq(Frame)
      /\ Len(new) = Len(frames[t])
      /\ new[Len(frames[t])] = f
      /\ \A i \in 1 .. Len(frames[t]) - 1 : new[i] = frames[t][i]
  BY <1>1, <1>2, ExceptSeq
<1> HIDE DEF new
<1>4. /\ frames' \in [Threads -> Seq(Frame)]
      /\ frames'[t] = new
      /\ \A u \in Threads \ {t} : frames'[u] = frames[u]
  BY <1>3 DEF SetTop, TypeOK, new
<1>5. new # <<>>
  BY <1>1, <1>3
<1>6. QED  BY <1>1, <1>3, <1>4, <1>5 DEF TopFrame

\* A task begins on a thread, whose other frames are s.
LEMMA FramePushed ==
    ASSUME TypeOK, NEW t \in Threads, NEW s \in Seq(Frame), NEW f \in Frame,
           frames' = [frames EXCEPT ![t] = Append(s, f)]
    PROVE  /\ frames' \in [Threads -> Seq(Frame)]
           /\ \A u \in Threads \ {t} : frames'[u] = frames[u]
           /\ TopFrame(t)' = f
           /\ Len(frames'[t]) = Len(s) + 1
           /\ \A i \in 1 .. Len(s) : frames'[t][i] = s[i]
<1>1. /\ Append(s, f) \in Seq(Frame)
      /\ Len(Append(s, f)) = Len(s) + 1
      /\ Append(s, f)[Len(s) + 1] = f
      /\ \A i \in 1 .. Len(s) : Append(s, f)[i] = s[i]
  BY AppendProperties
<1>2. /\ frames' \in [Threads -> Seq(Frame)]
      /\ frames'[t] = Append(s, f)
      /\ \A u \in Threads \ {t} : frames'[u] = frames[u]
  BY <1>1 DEF TypeOK
<1>3. QED  BY <1>1, <1>2 DEF TopFrame

\* A task ends on a thread.
LEMMA FramePopped ==
    ASSUME TypeOK, NEW t \in Threads, frames[t] # <<>>,
           frames' = [frames EXCEPT ![t] = Popped(@)]
    PROVE  /\ frames' \in [Threads -> Seq(Frame)]
           /\ \A u \in Threads \ {t} : frames'[u] = frames[u]
           /\ Len(frames'[t]) = Len(frames[t]) - 1
           /\ \A i \in 1 .. Len(frames[t]) - 1 : frames'[t][i] = frames[t][i]
<1>1. /\ frames' = [frames EXCEPT ![t] = Popped(frames[t])]
      /\ frames \in [Threads -> Seq(Frame)]
  BY DEF TypeOK
<1>2. /\ Popped(frames[t]) \in Seq(Frame)
      /\ Len(Popped(frames[t])) = Len(frames[t]) - 1
      /\ \A i \in 1 .. Len(frames[t]) - 1 : Popped(frames[t])[i] = frames[t][i]
  BY <1>1, PoppedStack
<1>3. QED  BY <1>1, <1>2

(******************************************************************************)
(* The entry hooks                                                            *)
(******************************************************************************)

LEMMA LogStepTyped ==
    ASSUME TypeOK, NodeOwnership, NEW t \in Threads, LogStep(t)
    PROVE  /\ report' \in [Threads -> Seq(LogEntry)]
           /\ counting' \in [Threads -> BOOLEAN]
           /\ getCurStepId(t) \in Nat
<1>1. getCurStepId(t) \in Nat /\ getCurStepParent(t) \in Nat
  BY TopAllocated DEF LogStep, TypeOK, NodeOwnership
<1>2. <<Entry(getCurStepId(t), getCurStepParent(t), STEP, 0)>> \in Seq(LogEntry)
  BY <1>1 DEF Entry, LogEntry, STEP
<1>3. report \in [Threads -> Seq(LogEntry)] /\ counting \in [Threads -> BOOLEAN]
  BY DEF TypeOK, GraphTypeOK
<1>4. report' \in [Threads -> Seq(LogEntry)]
  BY <1>2, <1>3, LogTyped DEF LogStep
<1>5. QED  BY <1>1, <1>3, <1>4 DEF LogStep

LEMMA StepHappensTyped ==
    ASSUME TypeOK, NEW t \in Threads, frames[t] # <<>>,
           getCurStepId(t) \in Nat, StepHappens(t)
    PROVE  /\ past' \in [Tasks -> SUBSET Nat]
           /\ DOMAIN before' \subseteq Nat
           /\ before' \in [DOMAIN before' -> SUBSET Nat]
<1>1. TopFrame(t).task \in Tasks
  BY TopFrameTyped DEF Frame
<1>2. /\ past' = [past EXCEPT ![TopFrame(t).task] = @ \cup {getCurStepId(t)}]
      /\ before' = [n \in DOMAIN before \cup {getCurStepId(t)} |->
                      IF n = getCurStepId(t) THEN past[TopFrame(t).task] ELSE before[n]]
  BY DEF StepHappens
<1>3. /\ past \in [Tasks -> SUBSET Nat]
      /\ DOMAIN before \subseteq Nat
      /\ before \in [DOMAIN before -> SUBSET Nat]
  BY DEF TypeOK
<1>4. QED  BY <1>1, <1>2, <1>3

LEMMA GraphUnchanged ==
    ASSUME GraphTypeOK, NodeOwnership, UNCHANGED graph,
           report' \in [Threads -> Seq(LogEntry)]
    PROVE  GraphTypeOK' /\ NodeOwnership'
  BY DEF graph, GraphTypeOK, NodeOwnership, NoDangling, OneOwner, NoLeak

\* A step that changes only the top frame of one thread leaves the others waiting.
LEMMA LowerFramesWait ==
    ASSUME HandOver, NEW t \in Threads,
           \A u \in Threads \ {t} : frames'[u] = frames[u],
           Len(frames'[t]) = Len(frames[t]),
           \A i \in 1 .. Len(frames[t]) - 1 : frames'[t][i] = frames[t][i]
    PROVE  \A u \in Threads : \A i \in 1 .. Len(frames'[u]) - 1 : frames'[u][i].at = "wait"
<1>1. \A u \in Threads : \A i \in 1 .. Len(frames[u]) - 1 : frames[u][i].at = "wait"
  BY DEF HandOver
<1>2. \A i \in 1 .. Len(frames'[t]) - 1 : frames'[t][i].at = "wait"
  BY <1>1
<1>3. QED  BY <1>1, <1>2

\* A step that hands nothing over, and after which its thread is not in a spawn.
LEMMA HandOverUnchanged ==
    ASSUME HandOver, NEW t \in Threads, UNCHANGED <<task_id_ctr, temp_cur_map, pool>>,
           \A u \in Threads \ {t} : frames'[u] = frames[u],
           ~Launching(t)',
           \A i \in 1 .. Len(frames'[t]) - 1 : frames'[t][i].at = "wait"
    PROVE  HandOver'
<1>1. ASSUME NEW u \in Threads \ {t}
      PROVE  /\ At(u, "capture")' <=> At(u, "capture")
             /\ At(u, "captured")' <=> At(u, "captured")
             /\ Launching(u)' <=> Launching(u)
             /\ TopFrame(u)' = TopFrame(u)
  BY DEF Launching, At, TopFrame
<1>2. ~At(t, "capture")' /\ ~At(t, "captured")' /\ ~Launching(t)'
  BY DEF Launching
<1>3. /\ pool' \subseteq DOMAIN temp_cur_map' /\ DOMAIN temp_cur_map' \subseteq 1 .. task_id_ctr'
  BY DEF HandOver
<1>4. \A u \in Threads : At(u, "capture")' =>
         TopFrame(u).kid' \in (1 .. task_id_ctr') \ DOMAIN temp_cur_map'
  BY <1>1, <1>2 DEF HandOver
<1>5. \A u \in Threads : At(u, "captured")' =>
         TopFrame(u).kid' \in DOMAIN temp_cur_map' \ pool'
  BY <1>1, <1>2 DEF HandOver
<1>6. \A u, v \in Threads : u # v /\ Launching(u)' /\ Launching(v)' =>
         TopFrame(u).kid' # TopFrame(v).kid'
  BY <1>1, <1>2 DEF HandOver
<1>7. \A u \in Threads : \A i \in 1 .. Len(frames'[u]) - 1 : frames'[u][i].at = "wait"
  BY DEF HandOver
<1>8. QED  BY <1>3, <1>4, <1>5, <1>6, <1>7 DEF HandOver

(******************************************************************************)
(* Each action preserves the three invariants.                                *)
(******************************************************************************)

LEMMA SpawnEntryPreserves ==
    ASSUME CollectionAssumption, IInv, NEW t \in Threads, NEW op \in {"spawn", "root", "both"},
           SpawnEntry(t, op)
    PROVE  IInv'
<1> DEFINE f == TopFrame(t)
           k == task_id_ctr + 1
           g == [f EXCEPT !.at = "capture", !.op = op, !.kid = k]
<1>1. /\ frames[t] # <<>> /\ f.at = "run"
      /\ task_id_ctr < MaxTasks /\ task_id_ctr' = k
      /\ LogStep(t) /\ StepHappens(t) /\ SetTop(t, g)
      /\ above' = [above EXCEPT ![k] = above[f.task] \cup {f.task}]
      /\ UNCHANGED <<graph, pool, finished, nodeOf, ended>>
  BY DEF SpawnEntry, At
<1>2. /\ f \in Frame /\ k \in Tasks /\ k \in Nat
      /\ task_id_ctr \in Nat /\ MainTask \in Tasks
  BY <1>1, TopFrameTyped DEF IInv, TypeOK, CollectionAssumption, Tasks, MainTask
<1>3. g \in Frame /\ g.at = "capture" /\ g.kid = k
  BY <1>2 DEF Frame
<1> HIDE DEF g
<1>4. /\ frames' \in [Threads -> Seq(Frame)]
      /\ \A u \in Threads \ {t} : frames'[u] = frames[u]
      /\ TopFrame(t)' = g
      /\ Len(frames'[t]) = Len(frames[t])
      /\ \A i \in 1 .. Len(frames[t]) - 1 : frames'[t][i] = frames[t][i]
  BY <1>1, <1>3, TopSet DEF IInv
<1>5. /\ report' \in [Threads -> Seq(LogEntry)]
      /\ counting' \in [Threads -> BOOLEAN]
      /\ getCurStepId(t) \in Nat
  BY <1>1, LogStepTyped DEF IInv
<1>6. /\ past' \in [Tasks -> SUBSET Nat]
      /\ DOMAIN before' \subseteq Nat
      /\ before' \in [DOMAIN before' -> SUBSET Nat]
  BY <1>1, <1>5, StepHappensTyped DEF IInv
<1>7. GraphTypeOK' /\ NodeOwnership'
  BY <1>1, <1>5, GraphUnchanged DEF IInv, TypeOK
<1>8. above' \in [Tasks -> SUBSET Tasks]
  BY <1>1, <1>2 DEF IInv, TypeOK, Frame
<1>9. TypeOK'
  BY <1>1, <1>2, <1>4, <1>5, <1>6, <1>7, <1>8 DEF IInv, TypeOK, graph
<1>10. HandOver'
  <2>1. /\ temp_cur_map' = temp_cur_map /\ pool' = pool
        /\ 1 .. task_id_ctr' = (1 .. task_id_ctr) \cup {k} /\ k \notin 1 .. task_id_ctr
    BY <1>1, <1>2 DEF graph
  <2>2. \A u \in Threads \ {t} : Launching(u) => TopFrame(u).kid \in 1 .. task_id_ctr
    BY DEF IInv, HandOver, Launching
  <2>3. \A u \in Threads \ {t} : /\ TopFrame(u)' = TopFrame(u)
                                 /\ \A w : At(u, w)' <=> At(u, w)
                                 /\ Launching(u)' <=> Launching(u)
    BY <1>4 DEF TopFrame, At, Launching
  <2>4. TopFrame(t)'.kid = k /\ ~At(t, "captured")'
    BY <1>3, <1>4 DEF At
  <2>5. \A u \in Threads : \A i \in 1 .. Len(frames'[u]) - 1 : frames'[u][i].at = "wait"
    BY <1>4, LowerFramesWait DEF IInv
  <2>6. \A u \in Threads : At(u, "capture")' =>
           TopFrame(u)'.kid \in (1 .. task_id_ctr') \ DOMAIN temp_cur_map'
    BY <2>1, <2>3, <2>4 DEF IInv, HandOver
  <2>7. \A u \in Threads : At(u, "captured")' =>
           TopFrame(u)'.kid \in DOMAIN temp_cur_map' \ pool'
    BY <2>1, <2>3, <2>4 DEF IInv, HandOver
  <2>8. \A u, v \in Threads : u # v /\ Launching(u)' /\ Launching(v)' =>
           TopFrame(u)'.kid # TopFrame(v)'.kid
    BY <2>1, <2>2, <2>3, <2>4 DEF IInv, HandOver
  <2>9. QED  BY <2>1, <2>5, <2>6, <2>7, <2>8 DEF IInv, HandOver
<1>11. QED  BY <1>7, <1>9, <1>10 DEF IInv

\* Each Capture call registers exactly the task it is given.
LEMMA CaptureRegisters ==
    ASSUME NEW t \in Threads, NEW k, NEW site,
           \/ CaptureSpawnOnly(t, k, site)
           \/ CaptureSpawnAndWait(t, k, site)
           \/ CaptureSpawnAndWaitForAll(t, k, site)
    PROVE  DOMAIN temp_cur_map' = DOMAIN temp_cur_map \cup {k}
<1>1. \E n : Register(k, n)
  <2>1. CASE CaptureSpawnOnly(t, k, site)
    BY <2>1 DEF CaptureSpawnOnly, AddAsync, AddFinishAndAsync
  <2>2. CASE CaptureSpawnAndWait(t, k, site)
    BY <2>2 DEF CaptureSpawnAndWait
  <2>3. CASE CaptureSpawnAndWaitForAll(t, k, site)
    BY <2>3 DEF CaptureSpawnAndWaitForAll, AddAsync, AddFinishAndAsync
  <2>4. QED  BY <2>1, <2>2, <2>3
<1>2. QED  BY <1>1 DEF Register, Insert

LEMMA SpawnCapturePreserves ==
    ASSUME CollectionAssumption, IInv, NEW t \in Threads, SpawnCapture(t)
    PROVE  IInv'
<1> DEFINE f == TopFrame(t)
           young == IF f.op # "root" THEN "spawned"
                    ELSE IF f.young = "none" THEN "none" ELSE "rooted"
           g == [f EXCEPT !.at = "captured", !.young = young]
<1>1. /\ frames[t] # <<>> /\ f.at = "capture" /\ At(t, "capture")
      /\ past' = [past EXCEPT ![f.kid] = past[f.task]]
      /\ UNCHANGED <<task_id_ctr, pool, counting, finished, nodeOf, above, ended, before>>
  BY DEF SpawnCapture, SpawnCaptureAt, At
<1>2. SetTop(t, g)
  BY DEF SpawnCapture, SpawnCaptureAt
<1> PICK site \in Nat : \/ CaptureSpawnOnly(t, f.kid, site)
                       \/ CaptureSpawnAndWait(t, f.kid, site)
                       \/ CaptureSpawnAndWaitForAll(t, f.kid, site)
  BY DEF SpawnCapture, SpawnCaptureAt, CollectionAssumption
<1>3. /\ f \in Frame
      /\ f.kid \in 1 .. task_id_ctr /\ f.kid \notin DOMAIN temp_cur_map
  BY <1>1, TopFrameTyped DEF IInv, HandOver
<1>4. g \in Frame /\ g.at = "captured" /\ g.kid = f.kid
  BY <1>3 DEF Frame
<1> HIDE DEF g
<1>5. /\ frames' \in [Threads -> Seq(Frame)]
      /\ \A u \in Threads \ {t} : frames'[u] = frames[u]
      /\ TopFrame(t)' = g
      /\ Len(frames'[t]) = Len(frames[t])
      /\ \A i \in 1 .. Len(frames[t]) - 1 : frames'[t][i] = frames[t][i]
  BY <1>1, <1>2, <1>4, TopSet DEF IInv
<1>6. GraphTypeOK' /\ NodeOwnership'
  BY <1>1, <1>3, CaptureSpawnOnlyPreserves, CaptureSpawnAndWaitPreserves,
     CaptureSpawnAndWaitForAllPreserves DEF IInv, TypeOK
<1>7. DOMAIN temp_cur_map' = DOMAIN temp_cur_map \cup {f.kid}
  BY <1>1, CaptureRegisters
<1>8. past' \in [Tasks -> SUBSET Nat]
  BY <1>1, <1>3 DEF IInv, TypeOK, Frame
<1>9. TypeOK'
  BY <1>1, <1>3, <1>5, <1>6, <1>7, <1>8 DEF IInv, TypeOK, Frame
<1>10. HandOver'
  <2>1. \A u \in Threads \ {t} : /\ TopFrame(u)' = TopFrame(u)
                                 /\ \A w : At(u, w)' <=> At(u, w)
                                 /\ Launching(u)' <=> Launching(u)
    BY <1>5 DEF TopFrame, At, Launching
  <2>2. TopFrame(t)'.kid = f.kid /\ ~At(t, "capture")' /\ Launching(t)
    BY <1>1, <1>4, <1>5 DEF At, Launching
  <2>3. f.kid \notin pool
    BY <1>3 DEF IInv, HandOver
  <2>4. \A u \in Threads \ {t} : Launching(u) => TopFrame(u).kid # f.kid
    BY <2>2 DEF IInv, HandOver
  <2>5. \A u \in Threads : \A i \in 1 .. Len(frames'[u]) - 1 : frames'[u][i].at = "wait"
    BY <1>5, LowerFramesWait DEF IInv
  <2>6. \A u \in Threads : At(u, "capture")' =>
           TopFrame(u)'.kid \in (1 .. task_id_ctr') \ DOMAIN temp_cur_map'
    BY <1>1, <1>7, <2>1, <2>2, <2>4 DEF IInv, HandOver, Launching
  <2>7. \A u \in Threads : At(u, "captured")' =>
           TopFrame(u)'.kid \in DOMAIN temp_cur_map' \ pool'
    BY <1>1, <1>7, <2>1, <2>2, <2>3 DEF IInv, HandOver
  <2>8. \A u, v \in Threads : u # v /\ Launching(u)' /\ Launching(v)' =>
           TopFrame(u)'.kid # TopFrame(v)'.kid
    BY <2>1, <2>2, <2>4 DEF IInv, HandOver
  <2>9. QED  BY <1>1, <1>3, <1>7, <2>5, <2>6, <2>7, <2>8 DEF IInv, HandOver
<1>11. QED  BY <1>6, <1>9, <1>10 DEF IInv

LEMMA SpawnExitPreserves ==
    ASSUME IInv, NEW t \in Threads, SpawnExit(t)
    PROVE  IInv'
<1> DEFINE f == TopFrame(t)
           g == [f EXCEPT !.at = "run", !.op = "none", !.kid = f.task]
<1>1. /\ frames[t] # <<>> /\ At(t, "captured")
      /\ pool' = pool \cup {f.kid}
      /\ counting' = [counting EXCEPT ![t] = TRUE]
      /\ SetTop(t, g)
      /\ UNCHANGED <<graph, report, task_id_ctr, finished, program>>
  BY DEF SpawnExit, At, StartCount
<1>2. f \in Frame /\ f.kid \in DOMAIN temp_cur_map
  BY <1>1, TopFrameTyped DEF IInv, HandOver
<1>3. g \in Frame /\ g.at = "run"
  BY <1>2 DEF Frame
<1> HIDE DEF g
<1>4. /\ frames' \in [Threads -> Seq(Frame)]
      /\ \A u \in Threads \ {t} : frames'[u] = frames[u]
      /\ TopFrame(t)' = g
      /\ Len(frames'[t]) = Len(frames[t])
      /\ \A i \in 1 .. Len(frames[t]) - 1 : frames'[t][i] = frames[t][i]
  BY <1>1, <1>3, TopSet DEF IInv
<1>5. GraphTypeOK' /\ NodeOwnership'
  BY <1>1, GraphUnchanged DEF IInv, TypeOK, GraphTypeOK
<1>6. TypeOK'
  BY <1>1, <1>2, <1>4, <1>5 DEF IInv, TypeOK, Frame, graph, program
<1>7. HandOver'
  <2>1. \A u \in Threads \ {t} : /\ TopFrame(u)' = TopFrame(u)
                                 /\ \A w : At(u, w)' <=> At(u, w)
                                 /\ Launching(u)' <=> Launching(u)
    BY <1>4 DEF TopFrame, At, Launching
  <2>2. ~Launching(t)' /\ Launching(t)
    BY <1>1, <1>3, <1>4 DEF At, Launching
  <2>3. \A u \in Threads \ {t} : Launching(u) => TopFrame(u).kid # f.kid
    BY <2>2 DEF IInv, HandOver
  <2>4. \A u \in Threads : \A i \in 1 .. Len(frames'[u]) - 1 : frames'[u][i].at = "wait"
    BY <1>4, LowerFramesWait DEF IInv
  <2>5. temp_cur_map' = temp_cur_map /\ task_id_ctr' = task_id_ctr
    BY <1>1 DEF graph
  <2>6. \A u \in Threads : At(u, "captured")' =>
           TopFrame(u)'.kid \in DOMAIN temp_cur_map' \ pool'
    BY <1>1, <2>1, <2>2, <2>3, <2>5 DEF IInv, HandOver, Launching
  <2>7. \A u \in Threads : At(u, "capture")' =>
           TopFrame(u)'.kid \in (1 .. task_id_ctr') \ DOMAIN temp_cur_map'
    BY <2>1, <2>2, <2>5 DEF IInv, HandOver, Launching
  <2>8. \A u, v \in Threads : u # v /\ Launching(u)' /\ Launching(v)' =>
           TopFrame(u)'.kid # TopFrame(v)'.kid
    BY <2>1, <2>2 DEF IInv, HandOver
  <2>9. QED  BY <1>1, <1>2, <2>4, <2>5, <2>6, <2>7, <2>8 DEF IInv, HandOver
<1>8. QED  BY <1>5, <1>6, <1>7 DEF IInv

LEMMA WaitEntryPreserves ==
    ASSUME IInv, NEW t \in Threads, WaitEntry(t)
    PROVE  IInv'
<1> DEFINE f == TopFrame(t)
           g == [f EXCEPT !.at = "wait", !.op = "wait"]
<1>1. /\ frames[t] # <<>> /\ LogStep(t) /\ StepHappens(t) /\ SetTop(t, g)
      /\ UNCHANGED <<graph, task_id_ctr, pool, finished, nodeOf, above, ended>>
  BY DEF WaitEntry, At
<1>2. f \in Frame
  BY <1>1, TopFrameTyped DEF IInv
<1>3. g \in Frame /\ g.at = "wait"
  BY <1>2 DEF Frame
<1> HIDE DEF g
<1>4. /\ frames' \in [Threads -> Seq(Frame)]
      /\ \A u \in Threads \ {t} : frames'[u] = frames[u]
      /\ TopFrame(t)' = g
      /\ Len(frames'[t]) = Len(frames[t])
      /\ \A i \in 1 .. Len(frames[t]) - 1 : frames'[t][i] = frames[t][i]
  BY <1>1, <1>3, TopSet DEF IInv
<1>5. /\ report' \in [Threads -> Seq(LogEntry)]
      /\ counting' \in [Threads -> BOOLEAN]
      /\ getCurStepId(t) \in Nat
  BY <1>1, LogStepTyped DEF IInv
<1>6. /\ past' \in [Tasks -> SUBSET Nat]
      /\ DOMAIN before' \subseteq Nat
      /\ before' \in [DOMAIN before' -> SUBSET Nat]
  BY <1>1, <1>5, StepHappensTyped DEF IInv
<1>7. GraphTypeOK' /\ NodeOwnership'
  BY <1>1, <1>5, GraphUnchanged DEF IInv, TypeOK
<1>8. TypeOK'
  BY <1>1, <1>4, <1>5, <1>6, <1>7 DEF IInv, TypeOK, graph
<1>9. HandOver'
  <2>1. ~Launching(t)'
    BY <1>3, <1>4 DEF Launching, At
  <2>2. \A i \in 1 .. Len(frames'[t]) - 1 : frames'[t][i].at = "wait"
    BY <1>4, LowerFramesWait DEF IInv
  <2>3. UNCHANGED <<task_id_ctr, temp_cur_map, pool>>
    BY <1>1 DEF graph
  <2>4. QED  BY <1>4, <2>1, <2>2, <2>3, HandOverUnchanged DEF IInv
<1>10. QED  BY <1>7, <1>8, <1>9 DEF IInv

LEMMA JoinPreserves ==
    ASSUME CollectionAssumption, IInv, NEW t \in Threads, Join(t)
    PROVE  IInv'
<1> DEFINE f == TopFrame(t)
           young == IF f.op = "root" THEN f.young ELSE "none"
           g == [f EXCEPT !.at = "run", !.op = "none", !.kid = f.task, !.young = young]
<1>1. /\ frames[t] # <<>>
      /\ CaptureWait(t) \/ CaptureWaitOnly(t)
      /\ counting' = [counting EXCEPT ![t] = TRUE]
      /\ past' = [past EXCEPT ![f.task] = @ \cup UNION {past[d] : d \in Awaited(t)}]
      /\ UNCHANGED <<report, task_id_ctr, pool, finished, nodeOf, above, ended, before>>
  BY DEF Join, At, StartCount
<1>2. SetTop(t, g)
  BY DEF Join
<1>3. f \in Frame
  BY <1>1, TopFrameTyped DEF IInv
<1>4. g \in Frame /\ g.at = "run"
  BY <1>3 DEF Frame
<1> HIDE DEF g
<1>5. /\ frames' \in [Threads -> Seq(Frame)]
      /\ \A u \in Threads \ {t} : frames'[u] = frames[u]
      /\ TopFrame(t)' = g
      /\ Len(frames'[t]) = Len(frames[t])
      /\ \A i \in 1 .. Len(frames[t]) - 1 : frames'[t][i] = frames[t][i]
  BY <1>1, <1>2, <1>4, TopSet DEF IInv
<1>6. GraphTypeOK' /\ NodeOwnership'
  <2>1. report' \in [Threads -> Seq(LogEntry)]
    BY <1>1 DEF IInv, TypeOK, GraphTypeOK
  <2>2. QED  BY <1>1, <2>1, CaptureWaitPreserves, CaptureWaitOnlyPreserves DEF IInv, TypeOK
<1>7. temp_cur_map' = temp_cur_map
  BY <1>1 DEF CaptureWait, CaptureWaitOnly
<1>8. past' \in [Tasks -> SUBSET Nat]
  <2>1. Awaited(t) \subseteq Tasks
    <3>1. 1 .. task_id_ctr \subseteq Tasks
      BY DEF CollectionAssumption, Tasks, IInv, TypeOK
    <3>2. \A k : Descendants(k) \subseteq Tasks
      BY <3>1 DEF Descendants
    <3>3. QED  BY <1>3, <3>2 DEF Frame, Awaited
  <2>2. \A d \in Awaited(t) : past[d] \subseteq Nat
    BY <2>1 DEF IInv, TypeOK
  <2>3. UNION {past[d] : d \in Awaited(t)} \subseteq Nat
    BY <2>2
  <2>4. QED  BY <1>1, <1>3, <2>3 DEF IInv, TypeOK, Frame
<1>9. TypeOK'
  BY <1>1, <1>5, <1>6, <1>7, <1>8 DEF IInv, TypeOK
<1>10. HandOver'
  <2>1. ~Launching(t)'
    BY <1>4, <1>5 DEF Launching, At
  <2>2. \A i \in 1 .. Len(frames'[t]) - 1 : frames'[t][i].at = "wait"
    BY <1>5, LowerFramesWait DEF IInv
  <2>3. QED  BY <1>1, <1>5, <1>7, <2>1, <2>2, HandOverUnchanged DEF IInv
<1>11. QED  BY <1>6, <1>9, <1>10 DEF IInv

\* Task k, which no other thread holds, begins on thread t above the frames s.
LEMMA BeginPreserves ==
    ASSUME IInv, NEW t \in Threads, NEW k \in DOMAIN temp_cur_map,
           NEW s \in Seq(Frame), \A i \in 1 .. Len(s) : s[i].at = "wait",
           frames' = [frames EXCEPT ![t] = Append(s, NewFrame(k, Len(cur_dpst_index[t])))],
           pool' = pool \ {k},
           \A u \in Threads \ {t} : At(u, "captured") => TopFrame(u).kid # k,
           Begin(t, k)
    PROVE  IInv'
<1> DEFINE g == NewFrame(k, Len(cur_dpst_index[t]))
<1>1. /\ CaptureExecute(t, k)
      /\ counting' = [counting EXCEPT ![t] = TRUE]
      /\ nodeOf' = [nodeOf EXCEPT ![k] = temp_cur_map[k]]
      /\ UNCHANGED <<report, task_id_ctr, finished, above, ended, past, before>>
  BY DEF Begin, StartCount
<1>2. k \in Tasks /\ Len(cur_dpst_index[t]) \in Nat /\ temp_cur_map[k] \in Nat
  BY DEF IInv, TypeOK, GraphTypeOK
<1>3. g \in Frame /\ g.at = "run"
  BY <1>2 DEF NewFrame, Frame
<1> HIDE DEF g
<1>4. /\ frames' \in [Threads -> Seq(Frame)]
      /\ \A u \in Threads \ {t} : frames'[u] = frames[u]
      /\ TopFrame(t)' = g
      /\ Len(frames'[t]) = Len(s) + 1
      /\ \A i \in 1 .. Len(s) : frames'[t][i] = s[i]
  <2>1. frames' = [frames EXCEPT ![t] = Append(s, g)]
    BY DEF g
  <2>2. QED  BY <1>3, <2>1, FramePushed DEF IInv
<1>5. GraphTypeOK' /\ NodeOwnership'
  <2>1. report' \in [Threads -> Seq(LogEntry)]
    BY <1>1 DEF IInv, TypeOK, GraphTypeOK
  <2>2. QED  BY <1>1, <2>1, CaptureExecutePreserves DEF IInv, TypeOK
<1>6. DOMAIN temp_cur_map' = DOMAIN temp_cur_map \ {k}
  BY <1>1 DEF CaptureExecute, Erase
<1>7. TypeOK'
  BY <1>1, <1>2, <1>4, <1>5, <1>6 DEF IInv, TypeOK
<1>8. HandOver'
  <2>1. \A u \in Threads \ {t} : /\ TopFrame(u)' = TopFrame(u)
                                 /\ \A w : At(u, w)' <=> At(u, w)
                                 /\ Launching(u)' <=> Launching(u)
    BY <1>4 DEF TopFrame, At, Launching
  <2>2. ~Launching(t)'
    BY <1>3, <1>4 DEF At, Launching
  <2>3. \A u \in Threads : \A i \in 1 .. Len(frames'[u]) - 1 : frames'[u][i].at = "wait"
    <3>1. Len(s) \in Nat /\ Len(frames'[t]) - 1 = Len(s)
      BY <1>4
    <3>2. QED  BY <1>4, <3>1 DEF IInv, HandOver
  <2>4. \A u \in Threads : At(u, "captured")' =>
           TopFrame(u)'.kid \in DOMAIN temp_cur_map' \ pool'
    BY <1>6, <2>1, <2>2 DEF IInv, HandOver, Launching
  <2>5. \A u \in Threads : At(u, "capture")' =>
           TopFrame(u)'.kid \in (1 .. task_id_ctr') \ DOMAIN temp_cur_map'
    BY <1>1, <1>6, <2>1, <2>2 DEF IInv, HandOver, Launching
  <2>6. \A u, v \in Threads : u # v /\ Launching(u)' /\ Launching(v)' =>
           TopFrame(u)'.kid # TopFrame(v)'.kid
    BY <2>1, <2>2 DEF IInv, HandOver
  <2>7. QED  BY <1>1, <1>6, <2>3, <2>4, <2>5, <2>6 DEF IInv, HandOver
<1>9. QED  BY <1>5, <1>7, <1>8 DEF IInv

LEMMA TakeTaskPreserves ==
    ASSUME IInv, NEW t \in Threads, NEW k \in Tasks, TakeTask(t, k)
    PROVE  IInv'
<1>1. /\ k \in pool
      /\ frames[t] = <<>> \/ At(t, "wait")
      /\ pool' = pool \ {k}
      /\ frames' = [frames EXCEPT ![t] =
                      Append(frames[t], NewFrame(k, Len(cur_dpst_index[t])))]
      /\ Begin(t, k)
  BY DEF TakeTask
<1>2. /\ k \in DOMAIN temp_cur_map
      /\ \A u \in Threads \ {t} : At(u, "captured") => TopFrame(u).kid # k
  BY <1>1 DEF IInv, HandOver
<1>3. frames[t] \in Seq(Frame) /\ Len(frames[t]) \in Nat
  BY DEF IInv, TypeOK
<1>4. \A i \in 1 .. Len(frames[t]) : frames[t][i].at = "wait"
  <2>1. CASE frames[t] = <<>>
    BY <2>1
  <2>2. CASE At(t, "wait")
    <3>1. \A i \in 1 .. Len(frames[t]) : i = Len(frames[t]) \/ i \in 1 .. Len(frames[t]) - 1
      BY <1>3
    <3>2. QED  BY <2>2, <3>1 DEF At, TopFrame, IInv, HandOver
  <2>3. QED  BY <1>1, <2>1, <2>2
<1>5. QED  BY <1>1, <1>2, <1>3, <1>4, BeginPreserves

LEMMA RunChildPreserves ==
    ASSUME IInv, NEW t \in Threads, RunChild(t)
    PROVE  IInv'
<1> DEFINE f == TopFrame(t)
           s == WithTop(t, [f EXCEPT !.at = "wait"])
<1>1. /\ frames[t] # <<>> /\ At(t, "captured")
      /\ frames' = [frames EXCEPT ![t] = Append(s, NewFrame(f.kid, Len(cur_dpst_index[t])))]
      /\ pool' = pool
      /\ Begin(t, f.kid)
  BY DEF RunChild, At
<1>2. /\ f.kid \in DOMAIN temp_cur_map /\ f.kid \notin pool
      /\ \A u \in Threads \ {t} : At(u, "captured") => TopFrame(u).kid # f.kid
  BY <1>1 DEF IInv, HandOver, Launching
<1>3. s \in Seq(Frame) /\ \A i \in 1 .. Len(s) : s[i].at = "wait"
  <2>1. /\ f \in Frame /\ frames[t] \in Seq(Frame)
        /\ Len(frames[t]) \in Nat \ {0} /\ DOMAIN frames[t] = 1 .. Len(frames[t])
    BY <1>1, TopFrameTyped DEF IInv
  <2>2. [f EXCEPT !.at = "wait"] \in Frame /\ [f EXCEPT !.at = "wait"].at = "wait"
    BY <2>1 DEF Frame
  <2>3. /\ s \in Seq(Frame) /\ Len(s) = Len(frames[t])
        /\ s[Len(frames[t])].at = "wait"
        /\ \A i \in 1 .. Len(frames[t]) - 1 : s[i] = frames[t][i]
    BY <2>1, <2>2, ExceptSeq DEF WithTop
  <2>4. \A i \in 1 .. Len(frames[t]) : i = Len(frames[t]) \/ i \in 1 .. Len(frames[t]) - 1
    BY <2>1
  <2>5. QED  BY <2>3, <2>4 DEF IInv, HandOver
<1> HIDE DEF s
<1>4. pool' = pool \ {f.kid}
  BY <1>1, <1>2
<1>5. QED  BY <1>1, <1>2, <1>3, <1>4, BeginPreserves

LEMMA ExecEndPreserves ==
    ASSUME IInv, NEW t \in Threads, ExecEnd(t)
    PROVE  IInv'
<1> DEFINE f == TopFrame(t)
<1>1. /\ frames[t] # <<>> /\ LogStep(t) /\ StepHappens(t) /\ CaptureReturn(t)
      /\ frames' = [frames EXCEPT ![t] = Popped(@)]
      /\ ended' = ended \cup {f.task}
      /\ UNCHANGED <<task_id_ctr, pool, finished, nodeOf, above>>
  BY DEF ExecEnd, At
<1>2. f.task \in Tasks /\ Len(frames[t]) \in Nat \ {0}
  BY <1>1, TopFrameTyped DEF IInv, Frame
<1>3. /\ frames' \in [Threads -> Seq(Frame)]
      /\ \A u \in Threads \ {t} : frames'[u] = frames[u]
      /\ Len(frames'[t]) = Len(frames[t]) - 1
      /\ \A i \in 1 .. Len(frames[t]) - 1 : frames'[t][i] = frames[t][i]
  BY <1>1, FramePopped DEF IInv
<1>4. /\ report' \in [Threads -> Seq(LogEntry)]
      /\ counting' \in [Threads -> BOOLEAN]
      /\ getCurStepId(t) \in Nat
  BY <1>1, LogStepTyped DEF IInv
<1>5. /\ past' \in [Tasks -> SUBSET Nat]
      /\ DOMAIN before' \subseteq Nat
      /\ before' \in [DOMAIN before' -> SUBSET Nat]
  BY <1>1, <1>4, StepHappensTyped DEF IInv
<1>6. GraphTypeOK' /\ NodeOwnership'
  BY <1>1, <1>4, CaptureReturnPreserves DEF IInv, TypeOK
<1>7. temp_cur_map' = temp_cur_map
  BY <1>1 DEF CaptureReturn
<1>8. TypeOK'
  BY <1>1, <1>2, <1>3, <1>4, <1>5, <1>6, <1>7 DEF IInv, TypeOK
<1>9. HandOver'
  <2>1. \A i \in 1 .. Len(frames'[t]) : frames'[t][i].at = "wait"
    BY <1>3 DEF IInv, HandOver
  <2>2. ~Launching(t)'
    <3>1. ASSUME frames'[t] # <<>>
          PROVE  Len(frames'[t]) \in 1 .. Len(frames'[t])
      <4>1. frames'[t] \in Seq(Frame)
        BY <1>3
      <4>2. QED  BY <3>1, <4>1
    <3>2. QED  BY <2>1, <3>1 DEF Launching, At, TopFrame
  <2>3. \A i \in 1 .. Len(frames'[t]) - 1 : frames'[t][i].at = "wait"
    <3>1. \A i \in 1 .. Len(frames'[t]) - 1 : i \in 1 .. Len(frames'[t])
      BY <1>2, <1>3
    <3>2. QED  BY <2>1, <3>1
  <2>4. QED  BY <1>1, <1>3, <1>7, <2>2, <2>3, HandOverUnchanged DEF IInv
<1>10. QED  BY <1>6, <1>8, <1>9 DEF IInv

LEMMA FiniPreserves ==
    ASSUME IInv, Fini
    PROVE  IInv'
<1>1. /\ Main \in Threads
      /\ frames[Main] # <<>> /\ At(Main, "run")
      /\ LogStep(Main) /\ StepHappens(Main) /\ finished' = TRUE
      /\ UNCHANGED <<graph, task_id_ctr, frames, pool, nodeOf, above, ended>>
  BY DEF Fini, At, Threads
<1>2. /\ report' \in [Threads -> Seq(LogEntry)]
      /\ counting' \in [Threads -> BOOLEAN]
      /\ getCurStepId(Main) \in Nat
  BY <1>1, LogStepTyped DEF IInv
<1>3. /\ past' \in [Tasks -> SUBSET Nat]
      /\ DOMAIN before' \subseteq Nat
      /\ before' \in [DOMAIN before' -> SUBSET Nat]
  BY <1>1, <1>2, StepHappensTyped DEF IInv
<1>4. GraphTypeOK' /\ NodeOwnership'
  BY <1>1, <1>2, GraphUnchanged DEF IInv, TypeOK
<1>5. TypeOK'
  BY <1>1, <1>2, <1>3, <1>4 DEF IInv, TypeOK, graph
<1>6. HandOver'
  <2>1. UNCHANGED <<task_id_ctr, temp_cur_map, pool, frames>>
    BY <1>1 DEF graph
  <2>2. QED  BY <2>1 DEF IInv, HandOver, Launching, At, TopFrame
<1>7. QED  BY <1>4, <1>5, <1>6 DEF IInv

(******************************************************************************)
(* The theorems                                                               *)
(******************************************************************************)

LEMMA InitSatisfies ==
    ASSUME CollectionAssumption, MainAssumption, Init
    PROVE  IInv
<1>1. MainTask \in Tasks
  BY DEF CollectionAssumption, MainTask, Tasks
<1>2. GraphTypeOK
  <2>1. nodes \in [{1} -> AFTask] /\ DOMAIN nodes = {1}
    BY DEF Init, GraphInit, AFTask
  <2>2. cur_dpst_index \in [Threads -> Seq(Nat)]
    BY DEF Init, GraphInit
  <2>3. report \in [Threads -> Seq(LogEntry)]
    <3>1. <<Entry(1, 0, FINISH, 0)>> \in Seq(LogEntry)
      BY DEF Entry, LogEntry, FINISH
    <3>2. QED  BY <3>1 DEF Init, GraphInit
  <2>4. temp_cur_map \in [DOMAIN temp_cur_map -> Nat] /\ last_allocated_node = 3
    BY DEF Init, GraphInit
  <2>5. {1} \subseteq 1 .. 3 - 1
    OBVIOUS
  <2>6. QED  BY <2>1, <2>2, <2>3, <2>4, <2>5 DEF GraphTypeOK
<1>3. NodeOwnership
  <2>1. /\ \A t \in Threads : \A i \in DOMAIN cur_dpst_index[t] :
              t = Main /\ i = 1 /\ cur_dpst_index[t][i] = 1
        /\ 1 \in DOMAIN cur_dpst_index[Main] /\ cur_dpst_index[Main][1] = 1
        /\ Main \in Threads
        /\ DOMAIN temp_cur_map = {} /\ DOMAIN nodes = {1}
    BY DEF Init, GraphInit, Threads
  <2>2. QED  BY <2>1 DEF NodeOwnership, NoDangling, OneOwner, NoLeak
<1>4. TypeOK
  <2>1. frames \in [Threads -> Seq(Frame)]
    <3>1. NewFrame(MainTask, 0) \in Frame
      BY <1>1 DEF NewFrame, Frame
    <3>2. <<NewFrame(MainTask, 0)>> \in Seq(Frame)
      BY <3>1
    <3>3. QED  BY <3>2 DEF Init
  <2>2. /\ task_id_ctr \in Tasks /\ pool \subseteq Tasks /\ finished \in BOOLEAN
        /\ counting \in [Threads -> BOOLEAN]
        /\ nodeOf \in [Tasks -> Nat] /\ above \in [Tasks -> SUBSET Tasks]
        /\ ended \subseteq Tasks /\ past \in [Tasks -> SUBSET Nat]
        /\ DOMAIN before \subseteq Nat /\ before \in [DOMAIN before -> SUBSET Nat]
    BY <1>1 DEF Init, MainTask
  <2>3. DOMAIN temp_cur_map \subseteq Tasks
    BY DEF Init, GraphInit
  <2>4. QED  BY <1>2, <2>1, <2>2, <2>3 DEF TypeOK
<1>5. HandOver
  <2>1. /\ \A t \in Threads : frames[t] = <<>> \/ frames[t] = <<NewFrame(MainTask, 0)>>
        /\ pool = {} /\ DOMAIN temp_cur_map = {}
    BY DEF Init, GraphInit
  <2>2. \A t \in Threads : ~Launching(t)
    BY <2>1 DEF Launching, At, TopFrame, NewFrame
  <2>3. \A t \in Threads : 1 .. Len(frames[t]) - 1 = {}
    <3>1. ASSUME NEW t \in Threads
          PROVE  1 .. Len(frames[t]) - 1 = {}
      <4>1. CASE Len(frames[t]) = 0
        BY <4>1
      <4>2. CASE Len(frames[t]) = 1
        BY <4>2
      <4>3. \A x : Len(<<x>>) = 1 /\ Len(<<>>) = 0
        OBVIOUS
      <4>4. frames[t] = <<>> \/ frames[t] = <<NewFrame(MainTask, 0)>>
        BY <2>1
      <4>5. QED  BY <4>1, <4>2, <4>3, <4>4
    <3>2. QED  BY <3>1
  <2>4. QED  BY <2>1, <2>2, <2>3 DEF HandOver, Launching
<1>6. QED  BY <1>3, <1>4, <1>5 DEF IInv

LEMMA NextPreserves ==
    ASSUME CollectionAssumption, IInv, [Next]_vars
    PROVE  IInv'
<1>1. ASSUME NEW t \in Threads, ThreadStep(t)
      PROVE  IInv'
  <2>1. ASSUME NEW op \in {"spawn", "root", "both"}, SpawnEntry(t, op)
        PROVE  IInv'
    BY <2>1, SpawnEntryPreserves
  <2>2. CASE SpawnCapture(t)
    BY <2>2, SpawnCapturePreserves
  <2>3. CASE SpawnExit(t)
    BY <2>3, SpawnExitPreserves
  <2>4. CASE WaitEntry(t)
    BY <2>4, WaitEntryPreserves
  <2>5. CASE Join(t)
    BY <2>5, JoinPreserves
  <2>6. ASSUME NEW k \in Tasks, TakeTask(t, k)
        PROVE  IInv'
    BY <2>6, TakeTaskPreserves
  <2>7. CASE RunChild(t)
    BY <2>7, RunChildPreserves
  <2>8. CASE ExecEnd(t)
    BY <2>8, ExecEndPreserves
  <2>9. QED  BY <1>1, <2>1, <2>2, <2>3, <2>4, <2>5, <2>6, <2>7, <2>8 DEF ThreadStep
<1>2. CASE Fini
  BY <1>2, FiniPreserves
<1>3. CASE UNCHANGED vars
  <2>1. /\ UNCHANGED graph /\ UNCHANGED report /\ UNCHANGED scheduler /\ UNCHANGED program
    BY <1>3 DEF vars
  <2>2. GraphTypeOK' /\ NodeOwnership'
    BY <2>1, GraphUnchanged DEF IInv, TypeOK, GraphTypeOK
  <2>3. TypeOK'
    BY <2>1, <2>2 DEF IInv, TypeOK, graph, scheduler, program
  <2>4. HandOver'
    BY <2>1 DEF IInv, HandOver, Launching, At, TopFrame, graph, scheduler
  <2>5. QED  BY <2>2, <2>3, <2>4 DEF IInv
<1>4. QED  BY <1>1, <1>2, <1>3 DEF Next, Terminated

\* The three invariants hold throughout every run of the collection phase.
THEOREM Invariance == Spec => []IInv
<1>1. Init => IInv
  BY InitSatisfies, CollectionAssumption, MainAssumption
<1>2. IInv /\ [Next]_vars => IInv'
  BY NextPreserves, CollectionAssumption
<1>3. QED  BY <1>1, <1>2, PTL DEF Spec

\* Type correctness of AFTaskGraph's data and of the scheduler that drives it.
THEOREM TypeCorrect == Spec => []TypeOK
<1>1. IInv => TypeOK
  BY DEF IInv
<1>2. QED  BY <1>1, Invariance, PTL

\* Each AFTask has one pointer to it, on a stack or in temp_cur_map: no node is
\* leaked, none is used after CaptureReturn or CaptureWaitOnly deletes it, and
\* getCurStepId and CaptureReturn, which take no lock, race with nobody.
THEOREM NodesOwned == Spec => []NodeOwnership
<1>1. IInv => NodeOwnership
  BY DEF IInv
<1>2. QED  BY <1>1, Invariance, PTL

\* A task is in one hand from ++task_id_ctr to CaptureExecute, and its node is
\* in temp_cur_map when a thread begins it: at(taskId) never throws.
THEOREM TasksHandedOver == Spec => []HandOver
<1>1. IInv => HandOver
  BY DEF IInv
<1>2. QED  BY <1>1, Invariance, PTL

(******************************************************************************)
(* What a step leaves alone                                                   *)
(******************************************************************************)

\* Thread t changes no stack but its own, and no node that is not on it.
TouchesOwnNodes(t) ==
    /\ \A u \in Threads \ {t} : cur_dpst_index'[u] = cur_dpst_index[u]
    /\ \A n \in DOMAIN nodes :
          (\A i \in DOMAIN cur_dpst_index[t] : cur_dpst_index[t][i] # n) =>
              n \in DOMAIN nodes' /\ nodes'[n] = nodes[n]

\* What is on a stack is in DOMAIN nodes, and on no other stack.
LEMMA OwnNodesSuffice ==
    ASSUME NodeOwnership, NEW t \in Threads, TouchesOwnNodes(t), frames'[t] # frames[t]
    PROVE  \A u \in Threads : frames'[u] = frames[u] =>
              /\ cur_dpst_index'[u] = cur_dpst_index[u]
              /\ \A i \in DOMAIN cur_dpst_index[u] :
                    LET n == cur_dpst_index[u][i]
                    IN  n \in DOMAIN nodes' /\ nodes'[n] = nodes[n]
<1> SUFFICES ASSUME NEW u \in Threads, frames'[u] = frames[u]
             PROVE  /\ cur_dpst_index'[u] = cur_dpst_index[u]
                    /\ \A i \in DOMAIN cur_dpst_index[u] :
                          /\ cur_dpst_index[u][i] \in DOMAIN nodes'
                          /\ nodes'[cur_dpst_index[u][i]] = nodes[cur_dpst_index[u][i]]
  OBVIOUS
<1>1. u # t
  OBVIOUS
<1>2. \A i \in DOMAIN cur_dpst_index[u] :
         /\ cur_dpst_index[u][i] \in DOMAIN nodes
         /\ \A j \in DOMAIN cur_dpst_index[t] : cur_dpst_index[t][j] # cur_dpst_index[u][i]
  BY <1>1 DEF NodeOwnership, NoDangling, OneOwner
<1>3. QED  BY <1>1, <1>2 DEF TouchesOwnNodes

LEMMA SpawnTouchesOwnNodes ==
    ASSUME TypeOK, NodeOwnership, NEW t \in Threads, NEW k, NEW site,
           \/ CaptureSpawnOnly(t, k, site)
           \/ CaptureSpawnAndWait(t, k, site)
           \/ CaptureSpawnAndWaitForAll(t, k, site)
    PROVE  TouchesOwnNodes(t)
<1> DEFINE cur == Top(t)
<1>1. cur_dpst_index[t] # <<>>
  BY DEF CaptureSpawnOnly, CaptureSpawnAndWait, CaptureSpawnAndWaitForAll
<1>2. /\ cur \in DOMAIN nodes
      /\ Len(cur_dpst_index[t]) \in DOMAIN cur_dpst_index[t]
  BY <1>1, TopAllocated DEF TypeOK, NodeOwnership
<1>3. ASSUME NEW step, NEW last, AddAsync(t, k, site, step, last)
      PROVE  TouchesOwnNodes(t)
  BY <1>2, <1>3 DEF AddAsync, Insert, TouchesOwnNodes, Top
<1>4. ASSUME NEW step, NEW last, AddFinishAndAsync(t, k, site, step, last)
      PROVE  TouchesOwnNodes(t)
  BY <1>2, <1>4 DEF AddFinishAndAsync, Insert, TouchesOwnNodes, Top, TypeOK, GraphTypeOK
<1>5. CASE CaptureSpawnOnly(t, k, site)
  BY <1>3, <1>4, <1>5 DEF CaptureSpawnOnly
<1>6. CASE CaptureSpawnAndWaitForAll(t, k, site)
  BY <1>3, <1>4, <1>6 DEF CaptureSpawnAndWaitForAll
<1>7. CASE CaptureSpawnAndWait(t, k, site)
  BY <1>2, <1>7 DEF CaptureSpawnAndWait, Insert, TouchesOwnNodes, Top
<1>8. QED  BY <1>5, <1>6, <1>7

LEMMA ExecuteTouchesOwnNodes ==
    ASSUME TypeOK, NEW t \in Threads, NEW k, CaptureExecute(t, k)
    PROVE  TouchesOwnNodes(t)
  BY DEF CaptureExecute, TouchesOwnNodes, TypeOK, GraphTypeOK

LEMMA ReturnTouchesOwnNodes ==
    ASSUME TypeOK, NEW t \in Threads, CaptureReturn(t)
    PROVE  TouchesOwnNodes(t)
<1>1. /\ Len(cur_dpst_index[t]) \in DOMAIN cur_dpst_index[t]
      /\ Len(cur_dpst_index[t]) > 1 => Len(cur_dpst_index[t]) - 1 \in DOMAIN cur_dpst_index[t]
      /\ cur_dpst_index \in [Threads -> Seq(Nat)]
  BY DEF CaptureReturn, TypeOK, GraphTypeOK
<1>2. CASE ~nodes[Top(t)].sync_finish_flag
  BY <1>1, <1>2 DEF CaptureReturn, TouchesOwnNodes, Erase, Top
<1>3. CASE nodes[Top(t)].sync_finish_flag
  BY <1>1, <1>3 DEF CaptureReturn, TouchesOwnNodes, Erase, Top
<1>4. QED  BY <1>2, <1>3

LEMMA WaitTouchesOwnNodes ==
    ASSUME TypeOK, NEW t \in Threads, CaptureWait(t) \/ CaptureWaitOnly(t)
    PROVE  TouchesOwnNodes(t)
<1>1. /\ Len(cur_dpst_index[t]) \in DOMAIN cur_dpst_index[t]
      /\ Len(cur_dpst_index[t]) > 1 => Len(cur_dpst_index[t]) - 1 \in DOMAIN cur_dpst_index[t]
      /\ cur_dpst_index \in [Threads -> Seq(Nat)]
  BY DEF CaptureWait, CaptureWaitOnly, TypeOK, GraphTypeOK
<1>2. CASE CaptureWait(t)
  BY <1>1, <1>2 DEF CaptureWait, TouchesOwnNodes, Top
<1>3. CASE CaptureWaitOnly(t)
  BY <1>1, <1>3 DEF CaptureWaitOnly, TouchesOwnNodes, Erase, Top
<1>4. QED  BY <1>2, <1>3

(******************************************************************************)
(* The thread of a step that touches nodes can be told by its frames.         *)
(******************************************************************************)

\* What OthersNodesUntouched says of one step.
Untouched ==
    \A t \in Threads : frames'[t] = frames[t] =>
        /\ cur_dpst_index'[t] = cur_dpst_index[t]
        /\ \A i \in DOMAIN cur_dpst_index[t] :
              LET n == cur_dpst_index[t][i]
              IN  n \in DOMAIN nodes' /\ nodes'[n] = nodes[n]

LEMMA GraphUntouched ==
    ASSUME NodeOwnership, UNCHANGED graph
    PROVE  Untouched
  BY DEF Untouched, graph, NodeOwnership, NoDangling

LEMMA ThreadStepTouches ==
    ASSUME CollectionAssumption, IInv, NEW t \in Threads, ThreadStep(t)
    PROVE  Untouched
<1>1. /\ TypeOK /\ NodeOwnership
      /\ frames \in [Threads -> Seq(Frame)]
  BY DEF IInv, TypeOK
<1>2. ASSUME TouchesOwnNodes(t), frames'[t] # frames[t]
      PROVE  Untouched
  BY <1>1, <1>2, OwnNodesSuffice DEF Untouched
<1>3. ASSUME NEW f \in Frame, frames[t] # <<>>, SetTop(t, f), f.at # TopFrame(t).at
      PROVE  frames'[t] # frames[t]
  BY <1>1, <1>3, TopSet DEF TopFrame
<1>4. ASSUME NEW s \in Seq(Frame), NEW f \in Frame, Len(s) = Len(frames[t]),
             frames' = [frames EXCEPT ![t] = Append(s, f)]
      PROVE  frames'[t] # frames[t]
  <2>1. Len(frames'[t]) = Len(s) + 1
    BY <1>1, <1>4, FramePushed
  <2>2. Len(s) \in Nat /\ Len(s) = Len(frames[t])
    BY <1>4
  <2>3. Len(frames'[t]) # Len(frames[t])
    BY <2>1, <2>2
  <2>4. QED  BY <2>3
<1>5. CASE \E op \in {"spawn", "root", "both"} : SpawnEntry(t, op)
  BY <1>1, <1>5, GraphUntouched DEF SpawnEntry
<1>6. CASE SpawnCapture(t)
  <2> DEFINE f == TopFrame(t)
             young == IF f.op # "root" THEN "spawned"
                      ELSE IF f.young = "none" THEN "none" ELSE "rooted"
             g == [f EXCEPT !.at = "captured", !.young = young]
  <2>1. /\ frames[t] # <<>> /\ f.at = "capture" /\ SetTop(t, g)
        /\ \E site : \/ CaptureSpawnOnly(t, f.kid, site)
                     \/ CaptureSpawnAndWait(t, f.kid, site)
                     \/ CaptureSpawnAndWaitForAll(t, f.kid, site)
    BY <1>6 DEF SpawnCapture, SpawnCaptureAt, At
  <2>2. g \in Frame /\ g.at # f.at
    BY <1>1, <2>1, TopFrameTyped DEF Frame
  <2>3. frames'[t] # frames[t]
    BY <1>3, <2>1, <2>2
  <2>4. TouchesOwnNodes(t)
    BY <1>1, <2>1, SpawnTouchesOwnNodes
  <2>5. QED  BY <1>2, <2>3, <2>4
<1>7. CASE SpawnExit(t)
  BY <1>1, <1>7, GraphUntouched DEF SpawnExit
<1>8. CASE WaitEntry(t)
  BY <1>1, <1>8, GraphUntouched DEF WaitEntry
<1>9. CASE Join(t)
  <2> DEFINE f == TopFrame(t)
             g == [f EXCEPT !.at = "run", !.op = "none", !.kid = f.task,
                            !.young = IF f.op = "root" THEN @ ELSE "none"]
  <2>1. /\ frames[t] # <<>> /\ f.at = "wait" /\ SetTop(t, g)
        /\ CaptureWait(t) \/ CaptureWaitOnly(t)
    BY <1>9 DEF Join, At
  <2>2. g \in Frame /\ g.at # f.at
    BY <1>1, <2>1, TopFrameTyped DEF Frame
  <2>3. frames'[t] # frames[t]
    BY <1>3, <2>1, <2>2
  <2>4. TouchesOwnNodes(t)
    BY <1>1, <2>1, WaitTouchesOwnNodes
  <2>5. QED  BY <1>2, <2>3, <2>4
<1>10. CASE \E k \in Tasks : TakeTask(t, k)
  <2> PICK k \in Tasks : TakeTask(t, k)
    BY <1>10
  <2>1. Len(cur_dpst_index[t]) \in Nat /\ frames[t] \in Seq(Frame)
    BY <1>1 DEF TypeOK, GraphTypeOK
  <2>2. NewFrame(k, Len(cur_dpst_index[t])) \in Frame
    BY <2>1 DEF NewFrame, Frame
  <2>3. frames'[t] # frames[t]
    BY <1>4, <2>1, <2>2 DEF TakeTask
  <2>4. TouchesOwnNodes(t)
    BY <1>1, ExecuteTouchesOwnNodes DEF TakeTask, Begin
  <2>5. QED  BY <1>2, <2>3, <2>4
<1>11. CASE RunChild(t)
  <2> DEFINE f == TopFrame(t)
             s == WithTop(t, [f EXCEPT !.at = "wait"])
  <2>1. /\ frames[t] # <<>>
        /\ frames' = [frames EXCEPT ![t] = Append(s, NewFrame(f.kid, Len(cur_dpst_index[t])))]
        /\ CaptureExecute(t, f.kid)
    BY <1>11 DEF RunChild, At, Begin
  <2>2. /\ f \in Frame /\ frames[t] \in Seq(Frame)
        /\ Len(frames[t]) \in Nat \ {0} /\ DOMAIN frames[t] = 1 .. Len(frames[t])
    BY <1>1, <2>1, TopFrameTyped
  <2>3. NewFrame(f.kid, Len(cur_dpst_index[t])) \in Frame
    <3>1. Len(cur_dpst_index[t]) \in Nat
      BY <1>1 DEF TypeOK, GraphTypeOK
    <3>2. QED  BY <2>2, <3>1 DEF NewFrame, Frame
  <2>4. [f EXCEPT !.at = "wait"] \in Frame
    BY <2>2 DEF Frame
  <2>5. s \in Seq(Frame) /\ Len(s) = Len(frames[t])
    BY <2>2, <2>4, ExceptSeq DEF WithTop
  <2> HIDE DEF s
  <2>6. frames'[t] # frames[t]
    BY <1>4, <2>1, <2>3, <2>5
  <2>7. TouchesOwnNodes(t)
    BY <1>1, <2>1, ExecuteTouchesOwnNodes
  <2>8. QED  BY <1>2, <2>6, <2>7
<1>12. CASE ExecEnd(t)
  <2>1. /\ frames[t] # <<>> /\ CaptureReturn(t)
        /\ frames' = [frames EXCEPT ![t] = Popped(@)]
    BY <1>12 DEF ExecEnd, At
  <2>2. Len(frames'[t]) = Len(frames[t]) - 1 /\ Len(frames[t]) \in Nat
    BY <1>1, <2>1, FramePopped, TopFrameTyped
  <2>3. TouchesOwnNodes(t)
    BY <1>1, <2>1, ReturnTouchesOwnNodes
  <2>4. QED  BY <1>2, <2>2, <2>3
<1>13. QED
  BY <1>5, <1>6, <1>7, <1>8, <1>9, <1>10, <1>11, <1>12 DEF ThreadStep

\* No step of one thread touches the nodes on another thread's stack: what the
\* unlocked getCurStepId, getCurStepParent and CaptureReturn rely on.
THEOREM OthersUntouched == Spec => OthersNodesUntouched
<1>1. CollectionAssumption /\ IInv /\ [Next]_vars => [Untouched]_vars
  <2> SUFFICES ASSUME CollectionAssumption, IInv, Next
               PROVE  Untouched \/ UNCHANGED vars
    OBVIOUS
  <2>1. ASSUME NEW t \in Threads, ThreadStep(t)
        PROVE  Untouched
    BY <2>1, ThreadStepTouches
  <2>2. CASE Fini
    BY <2>2, GraphUntouched DEF Fini, IInv
  <2>3. CASE Terminated
    BY <2>3 DEF Terminated
  <2>4. QED  BY <2>1, <2>2, <2>3 DEF Next
<1>2. IInv /\ [Next]_vars => [Untouched]_vars
  BY <1>1, CollectionAssumption
<1>3. Spec => [][Untouched]_vars
  BY <1>2, Invariance, PTL DEF Spec
<1>4. QED  BY <1>3 DEF OthersNodesUntouched, Untouched

(******************************************************************************)
(* Where the tasks are                                                        *)
(******************************************************************************)

\* Main is in the main function, from the start to the end.
MainAtBottom == frames[Main] # <<>> /\ frames[Main][1].task = MainTask

\* No task is begun twice.
OneFrameEach ==
    \A t, u \in Threads : \A i \in DOMAIN frames[t], j \in DOMAIN frames[u] :
        frames[t][i].task = frames[u][j].task => t = u /\ i = j

\* A task that a thread is in has an id, and has neither ended nor yet to begin.
FramesCurrent ==
    \A t \in Threads : \A i \in DOMAIN frames[t] :
        frames[t][i].task \in (0 .. task_id_ctr) \ (ended \cup DOMAIN temp_cur_map)

\* An id fresh from ++task_id_ctr is nowhere else.
NewTaskApart ==
    \A u \in Threads : At(u, "capture") =>
        /\ TopFrame(u).kid \notin ended
        /\ \A t \in Threads : \A i \in DOMAIN frames[t] : frames[t][i].task # TopFrame(u).kid

EndedApart == ended \subseteq (1 .. task_id_ctr) \ DOMAIN temp_cur_map

TasksPlaced == MainAtBottom /\ OneFrameEach /\ FramesCurrent /\ NewTaskApart /\ EndedApart

\* Every task descends from main, and from the task that is spawning it.
Descent ==
    /\ above[MainTask] = {}
    /\ \A k \in 1 .. task_id_ctr : MainTask \in above[k]
    /\ \A t \in Threads : Launching(t) =>
          above[TopFrame(t).kid] = above[TopFrame(t).task] \cup {TopFrame(t).task}

\* The frame is in a spawn that its young does not show yet, or will never show.
InSpawn(f) == f.at = "capture" \/ (f.at # "run" /\ f.op = "root")

\* Main's frame shows no spawn only if all tasks have ended, those of the spawn
\* it is in excepted.
MainJoins ==
    LET f == frames[Main][1]
    IN  f.young = "none" => \A d \in 1 .. task_id_ctr :
            d \in ended \/ (InSpawn(f) /\ (d = f.kid \/ f.kid \in above[d]))

\* After Fini there is nothing left that could run.
AllJoined ==
    finished => /\ 1 .. task_id_ctr \subseteq ended
                /\ \A t \in Threads \ {Main} : frames[t] = <<>>
                /\ Len(frames[Main]) = 1 /\ At(Main, "run")

JInv == TasksPlaced /\ Descent /\ MainJoins /\ AllJoined

(******************************************************************************)
(* Frames                                                                     *)
(******************************************************************************)

\* Each thread is in the tasks it was in.
SameTasks ==
    \A u \in Threads : /\ DOMAIN frames'[u] = DOMAIN frames[u]
                       /\ \A i \in DOMAIN frames[u] : frames'[u][i].task = frames[u][i].task

LEMMA TopSetKeepsTasks ==
    ASSUME TypeOK, NEW t \in Threads, frames[t] # <<>>,
           NEW f \in Frame, f.task = TopFrame(t).task, SetTop(t, f)
    PROVE  SameTasks
<1>1. /\ frames' \in [Threads -> Seq(Frame)]
      /\ \A u \in Threads \ {t} : frames'[u] = frames[u]
      /\ TopFrame(t)' = f
      /\ Len(frames'[t]) = Len(frames[t])
      /\ \A i \in 1 .. Len(frames[t]) - 1 : frames'[t][i] = frames[t][i]
  BY TopSet
<1>2. /\ Len(frames[t]) \in Nat \ {0}
      /\ DOMAIN frames[t] = 1 .. Len(frames[t])
  BY TopFrameTyped
<1>3. DOMAIN frames'[t] = DOMAIN frames[t]
  BY <1>1, <1>2
<1>4. \A i \in DOMAIN frames[t] : i = Len(frames[t]) \/ i \in 1 .. Len(frames[t]) - 1
  BY <1>2
<1>5. frames'[t][Len(frames[t])].task = frames[t][Len(frames[t])].task
  BY <1>1 DEF TopFrame
<1>6. \A i \in DOMAIN frames[t] : frames'[t][i].task = frames[t][i].task
  BY <1>1, <1>4, <1>5
<1>7. QED  BY <1>1, <1>3, <1>6 DEF SameTasks

\* The top frame of a thread is one of its frames.
LEMMA TopIsAFrame ==
    ASSUME TypeOK, NEW t \in Threads, frames[t] # <<>>
    PROVE  Len(frames[t]) \in DOMAIN frames[t] /\ TopFrame(t) = frames[t][Len(frames[t])]
  BY TopFrameTyped DEF TopFrame

\* The running task of a thread is current, and the caller of a new task is not it.
LEMMA RunningTask ==
    ASSUME CollectionAssumption, TypeOK, TasksPlaced, NEW t \in Threads, frames[t] # <<>>
    PROVE  /\ TopFrame(t).task \in 0 .. task_id_ctr
           /\ TopFrame(t).task \in Tasks
           /\ TopFrame(t).task \notin ended
           /\ TopFrame(t).task \notin DOMAIN temp_cur_map
           /\ TopFrame(t).task = MainTask => t = Main /\ Len(frames[t]) = 1
<1>1. Len(frames[t]) \in DOMAIN frames[t] /\ TopFrame(t) = frames[t][Len(frames[t])]
  BY TopIsAFrame
<1>2. 1 \in DOMAIN frames[Main] /\ Main \in Threads
  <2>1. frames[Main] # <<>> /\ Main \in Threads
    BY DEF TasksPlaced, MainAtBottom, Threads
  <2>2. Len(frames[Main]) \in Nat \ {0} /\ DOMAIN frames[Main] = 1 .. Len(frames[Main])
    BY <2>1, TopFrameTyped
  <2>3. QED  BY <2>1, <2>2
<1>3. TopFrame(t).task = MainTask => t = Main /\ Len(frames[t]) = 1
  <2>1. \A i \in DOMAIN frames[t] : frames[t][i].task = frames[Main][1].task => t = Main /\ i = 1
    BY <1>2 DEF TasksPlaced, OneFrameEach
  <2>2. QED  BY <1>1, <2>1 DEF TasksPlaced, MainAtBottom
<1>4. TopFrame(t).task \in Tasks
  BY TopFrameTyped DEF Frame
<1>5. QED  BY <1>1, <1>3, <1>4 DEF TasksPlaced, FramesCurrent

\* The steps that move no task from one place to another.
LEMMA PlacedStays ==
    ASSUME TasksPlaced, SameTasks, NEW t \in Threads,
           UNCHANGED <<ended, task_id_ctr>>, DOMAIN temp_cur_map' = DOMAIN temp_cur_map,
           \A u \in Threads \ {t} : frames'[u] = frames[u],
           TypeOK, TypeOK',
           ~At(t, "capture")'
    PROVE  TasksPlaced'
<1>1. MainAtBottom'
  <2>1. Main \in Threads
    BY DEF Threads
  <2>2. 1 \in DOMAIN frames[Main]
    <3>1. Len(frames[Main]) \in Nat \ {0} /\ DOMAIN frames[Main] = 1 .. Len(frames[Main])
      BY <2>1, TopFrameTyped DEF TasksPlaced, MainAtBottom
    <3>2. QED  BY <3>1
  <2>3. frames'[Main] # <<>>
    BY <2>1, <2>2 DEF SameTasks
  <2>4. QED  BY <2>1, <2>2, <2>3 DEF TasksPlaced, MainAtBottom, SameTasks
<1>2. OneFrameEach'
  BY DEF TasksPlaced, OneFrameEach, SameTasks
<1>3. FramesCurrent'
  BY DEF TasksPlaced, FramesCurrent, SameTasks
<1>4. NewTaskApart'
  BY DEF TasksPlaced, NewTaskApart, SameTasks, At, TopFrame
<1>5. EndedApart'
  BY DEF TasksPlaced, EndedApart
<1>6. QED  BY <1>1, <1>2, <1>3, <1>4, <1>5 DEF TasksPlaced

\* A step of a thread that is not in main itself leaves main's own frame alone.
LEMMA MainFrameStays ==
    ASSUME TypeOK, TasksPlaced, NEW t \in Threads, frames[t] # <<>>,
           TopFrame(t).task # MainTask,
           \A u \in Threads \ {t} : frames'[u] = frames[u],
           \A i \in 1 .. Len(frames[t]) - 1 : frames'[t][i] = frames[t][i]
    PROVE  frames'[Main][1] = frames[Main][1] /\ (t = Main => Len(frames[t]) > 1)
<1>1. CASE t # Main
  BY <1>1 DEF Threads
<1>2. CASE t = Main
  <2>1. Len(frames[Main]) # 1
    BY <1>2 DEF TasksPlaced, MainAtBottom, TopFrame
  <2>2. Len(frames[Main]) \in Nat \ {0}
    BY <1>2, TopFrameTyped
  <2>3. \A n \in Nat \ {0} : n # 1 => 1 \in 1 .. n - 1 /\ n > 1
    OBVIOUS
  <2>4. QED  BY <1>2, <2>1, <2>2, <2>3
<1>3. QED  BY <1>1, <1>2

\* The step of a thread that is not in the program's code is not one after Fini.
LEMMA NotFinished ==
    ASSUME AllJoined, NEW t \in Threads, frames[t] # <<>>, ~At(t, "run")
    PROVE  ~finished
  BY DEF AllJoined

LEMMA SpawnEntryPlaces ==
    ASSUME CollectionAssumption, IInv, IInv', JInv, NEW t \in Threads,
           NEW op \in {"spawn", "root", "both"}, SpawnEntry(t, op)
    PROVE  JInv'
<1> DEFINE f == TopFrame(t)
           k == task_id_ctr + 1
           g == [f EXCEPT !.at = "capture", !.op = op, !.kid = k]
<1>0. TypeOK /\ TypeOK' /\ TasksPlaced /\ Descent /\ MainJoins /\ AllJoined /\ HandOver
  BY DEF IInv, JInv
<1>1. /\ frames[t] # <<>> /\ f.at = "run" /\ ~finished
      /\ task_id_ctr < MaxTasks /\ task_id_ctr' = k /\ SetTop(t, g)
      /\ above' = [above EXCEPT ![k] = above[f.task] \cup {f.task}]
      /\ UNCHANGED <<temp_cur_map, finished, ended>>
  BY DEF SpawnEntry, At, graph
<1>2. /\ f \in Frame /\ k \in Tasks /\ k \in Nat
      /\ task_id_ctr \in Nat /\ MainTask \in Tasks /\ k \notin 0 .. task_id_ctr
      /\ 0 .. k = (0 .. task_id_ctr) \cup {k} /\ 1 .. k = (1 .. task_id_ctr) \cup {k}
  <2>1. f \in Frame
    BY <1>0, <1>1, TopFrameTyped
  <2>2. k \in Tasks /\ MainTask \in Tasks /\ task_id_ctr \in Nat
    BY <1>0, <1>1 DEF TypeOK, CollectionAssumption, Tasks, MainTask
  <2>3. \A n \in Nat : /\ 0 .. n + 1 = (0 .. n) \cup {n + 1} /\ 1 .. n + 1 = (1 .. n) \cup {n + 1}
                       /\ n + 1 \notin 0 .. n /\ n + 1 \in Nat
    OBVIOUS
  <2>4. QED  BY <2>1, <2>2, <2>3
<1>3. g \in Frame /\ g.at = "capture" /\ g.kid = k /\ g.task = f.task /\ g.young = f.young
  BY <1>2 DEF Frame
<1>4. f.task \in 0 .. task_id_ctr /\ f.task \in Tasks /\ f.task \notin ended
      /\ (f.task = MainTask => t = Main /\ Len(frames[t]) = 1)
  BY <1>0, <1>1, RunningTask
<1> HIDE DEF g
<1>5. SameTasks
  BY <1>0, <1>1, <1>3, TopSetKeepsTasks
<1>6. /\ \A u \in Threads \ {t} : frames'[u] = frames[u]
      /\ TopFrame(t)' = g
      /\ frames'[t] # <<>>
      /\ Len(frames'[t]) = Len(frames[t])
      /\ \A i \in 1 .. Len(frames[t]) - 1 : frames'[t][i] = frames[t][i]
  BY <1>0, <1>1, <1>3, TopSet
<1>7. TasksPlaced'
  <2>1. MainAtBottom'
    BY <1>0, <1>5, <1>6 DEF TasksPlaced, MainAtBottom, SameTasks, Threads, TypeOK
  <2>2. OneFrameEach'
    BY <1>0, <1>5 DEF TasksPlaced, OneFrameEach, SameTasks
  <2>3. FramesCurrent'
    BY <1>0, <1>1, <1>2, <1>5 DEF TasksPlaced, FramesCurrent, SameTasks
  <2>4. EndedApart'
    BY <1>0, <1>1, <1>2 DEF TasksPlaced, EndedApart
  <2>5. k \notin ended
    BY <1>0, <1>2 DEF TasksPlaced, EndedApart
  <2>6. NewTaskApart'
    <3>1. \A u \in Threads : \A i \in DOMAIN frames[u] : frames[u][i].task # k
      BY <1>0, <1>2 DEF TasksPlaced, FramesCurrent
    <3>2. ASSUME NEW u \in Threads, At(u, "capture")'
          PROVE  (u = t /\ TopFrame(u)'.kid = k)
                 \/ (u # t /\ At(u, "capture") /\ TopFrame(u)' = TopFrame(u))
      BY <1>3, <1>6, <3>2 DEF At, TopFrame
    <3>3. QED  BY <1>0, <1>1, <1>5, <2>5, <3>1, <3>2 DEF TasksPlaced, NewTaskApart, SameTasks
  <2>7. QED  BY <2>1, <2>2, <2>3, <2>4, <2>6 DEF TasksPlaced
<1>8. Descent'
  <2>1. above \in [Tasks -> SUBSET Tasks] /\ above'[k] = above[f.task] \cup {f.task}
        /\ \A j \in Tasks : j # k => above'[j] = above[j]
    BY <1>0, <1>1, <1>2 DEF TypeOK
  <2>2. above'[MainTask] = {}
    BY <1>0, <1>2, <2>1 DEF Descent, MainTask
  <2>3. MainTask \in above'[k]
    <3>1. f.task = MainTask \/ f.task \in 1 .. task_id_ctr
      BY <1>2, <1>4 DEF MainTask
    <3>2. QED  BY <1>0, <2>1, <3>1 DEF Descent
  <2>4. \A j \in 1 .. k : MainTask \in above'[j]
    <3>1. \A j \in 1 .. task_id_ctr : j # k /\ j \in Tasks
      BY <1>0, <1>2 DEF TypeOK, Tasks
    <3>2. QED  BY <1>0, <1>2, <2>1, <2>3, <3>1 DEF Descent
  <2>5. ASSUME NEW u \in Threads, Launching(u)'
        PROVE  above'[TopFrame(u)'.kid] = above'[TopFrame(u)'.task] \cup {TopFrame(u)'.task}
    <3>1. CASE u = t
      <4>1. TopFrame(u)' = g /\ f.task # k
        BY <1>2, <1>4, <1>6, <3>1
      <4>2. QED  BY <1>3, <1>4, <2>1, <4>1
    <3>2. CASE u # t
      <4>1. Launching(u) /\ TopFrame(u)' = TopFrame(u) /\ frames[u] # <<>>
        BY <1>6, <2>5, <3>2 DEF Launching, At, TopFrame
      <4>2. TopFrame(u).kid \in 1 .. task_id_ctr
        BY <1>0, <4>1 DEF HandOver, Launching
      <4>3. TopFrame(u).task \in 0 .. task_id_ctr /\ TopFrame(u).task \in Tasks
        BY <1>0, <4>1, RunningTask
      <4>4. TopFrame(u).kid # k /\ TopFrame(u).task # k /\ TopFrame(u).kid \in Tasks
        BY <1>0, <1>2, <4>1, <4>2, <4>3, TopFrameTyped DEF Frame
      <4>5. QED  BY <1>0, <2>1, <4>1, <4>3, <4>4 DEF Descent
    <3>3. QED  BY <3>1, <3>2
  <2>6. QED  BY <1>1, <2>2, <2>4, <2>5 DEF Descent
<1>9. MainJoins'
  <2> DEFINE m == frames[Main][1]
  <2>0. above'[k] = above[f.task] \cup {f.task} /\ \A j \in 1 .. task_id_ctr : above'[j] = above[j]
    <3>1. \A j \in 1 .. task_id_ctr : j # k /\ j \in Tasks
      BY <1>0, <1>2 DEF TypeOK, Tasks
    <3>2. QED  BY <1>0, <1>1, <1>2, <3>1 DEF TypeOK
  <2>1. CASE f.task = MainTask
    <3>1. m = f /\ frames'[Main][1] = g
      BY <1>4, <1>6, <2>1 DEF TopFrame
    <3>2. m.young = "none" => \A d \in 1 .. task_id_ctr : d \in ended
      BY <1>0, <1>1, <3>1 DEF MainJoins, InSpawn
    <3>3. QED  BY <1>1, <1>2, <1>3, <3>1, <3>2 DEF MainJoins, InSpawn
  <2>2. CASE f.task # MainTask
    <3>1. f.task \in 1 .. task_id_ctr
      BY <1>2, <1>4, <2>2 DEF MainTask
    <3>2. frames'[Main][1] = m
      BY <1>0, <1>1, <1>6, <2>2, MainFrameStays
    <3>3. m.young = "none" => InSpawn(m) /\ (f.task = m.kid \/ m.kid \in above[f.task])
      BY <1>0, <1>4, <3>1 DEF MainJoins
    <3>4. m.young = "none" => InSpawn(m) /\ m.kid \in above'[k]
      BY <2>0, <3>3
    <3>5. QED  BY <1>0, <1>1, <1>2, <2>0, <3>2, <3>4 DEF MainJoins
  <2>3. QED  BY <2>1, <2>2
<1>10. AllJoined'
  BY <1>1 DEF AllJoined
<1>11. QED  BY <1>7, <1>8, <1>9, <1>10 DEF JInv

\* The Capture call of a spawn: the new task goes into temp_cur_map.
LEMMA SpawnCapturePlaces ==
    ASSUME IInv, IInv', JInv, CollectionAssumption, NEW t \in Threads, SpawnCapture(t)
    PROVE  JInv'
<1> DEFINE f == TopFrame(t)
           young == IF f.op # "root" THEN "spawned"
                    ELSE IF f.young = "none" THEN "none" ELSE "rooted"
           g == [f EXCEPT !.at = "captured", !.young = young]
<1>0. TypeOK /\ TypeOK' /\ TasksPlaced /\ Descent /\ MainJoins /\ AllJoined /\ HandOver
  BY DEF IInv, JInv
<1>1. /\ frames[t] # <<>> /\ f.at = "capture" /\ At(t, "capture") /\ ~At(t, "run")
      /\ SetTop(t, g)
      /\ UNCHANGED <<task_id_ctr, finished, above, ended>>
      /\ \E site : \/ CaptureSpawnOnly(t, f.kid, site)
                   \/ CaptureSpawnAndWait(t, f.kid, site)
                   \/ CaptureSpawnAndWaitForAll(t, f.kid, site)
  BY DEF SpawnCapture, SpawnCaptureAt, At
<1>2. f \in Frame
  BY <1>0, <1>1, TopFrameTyped
<1>3. /\ g \in Frame /\ g.at = "captured" /\ g.kid = f.kid /\ g.task = f.task /\ g.op = f.op
      /\ g.young = "none" => f.op = "root" /\ f.young = "none"
  BY <1>2 DEF Frame
<1>4. DOMAIN temp_cur_map' = DOMAIN temp_cur_map \cup {f.kid}
  BY <1>1, CaptureRegisters
<1> HIDE DEF g
<1>5. SameTasks
  BY <1>0, <1>1, <1>3, TopSetKeepsTasks
<1>6. /\ \A u \in Threads \ {t} : frames'[u] = frames[u]
      /\ TopFrame(t)' = g
      /\ frames'[t] # <<>>
      /\ Len(frames'[t]) = Len(frames[t])
      /\ \A i \in 1 .. Len(frames[t]) - 1 : frames'[t][i] = frames[t][i]
  BY <1>0, <1>1, <1>3, TopSet
<1>7. ~finished
  BY <1>0, <1>1, NotFinished
<1>8. TasksPlaced'
  <2>1. MainAtBottom'
    BY <1>0, <1>5, <1>6 DEF TasksPlaced, MainAtBottom, SameTasks, Threads, TypeOK
  <2>2. OneFrameEach'
    BY <1>0, <1>5 DEF TasksPlaced, OneFrameEach, SameTasks
  <2>3. FramesCurrent'
    BY <1>0, <1>1, <1>4, <1>5 DEF TasksPlaced, FramesCurrent, NewTaskApart, SameTasks
  <2>4. EndedApart'
    BY <1>0, <1>1, <1>4 DEF TasksPlaced, EndedApart, NewTaskApart
  <2>5. ASSUME NEW u \in Threads, At(u, "capture")'
        PROVE  At(u, "capture") /\ TopFrame(u)' = TopFrame(u)
    BY <1>3, <1>6, <2>5 DEF At, TopFrame
  <2>6. NewTaskApart'
    BY <1>0, <1>1, <1>5, <2>5 DEF TasksPlaced, NewTaskApart, SameTasks
  <2>7. QED  BY <2>1, <2>2, <2>3, <2>4, <2>6 DEF TasksPlaced
<1>9. Descent'
  <2>1. ASSUME NEW u \in Threads, Launching(u)'
        PROVE  /\ Launching(u) /\ TopFrame(u)'.kid = TopFrame(u).kid
               /\ TopFrame(u)'.task = TopFrame(u).task
    BY <1>1, <1>3, <1>6, <2>1 DEF Launching, At, TopFrame
  <2>2. QED  BY <1>0, <1>1, <2>1 DEF Descent
<1>10. MainJoins'
  <2>1. CASE f.task = MainTask
    <3>1. frames[Main][1] = f /\ frames'[Main][1] = g
      <4>1. t = Main /\ Len(frames[t]) = 1
        BY <1>0, <1>1, <2>1, RunningTask
      <4>2. QED  BY <1>6, <4>1 DEF TopFrame
    <3>2. QED  BY <1>0, <1>1, <1>3, <3>1 DEF MainJoins, InSpawn
  <2>2. CASE f.task # MainTask
    <3>1. frames'[Main][1] = frames[Main][1]
      BY <1>0, <1>1, <1>6, <2>2, MainFrameStays
    <3>2. QED  BY <1>0, <1>1, <3>1 DEF MainJoins
  <2>3. QED  BY <2>1, <2>2
<1>11. AllJoined'
  BY <1>1, <1>7 DEF AllJoined
<1>12. QED  BY <1>8, <1>9, <1>10, <1>11 DEF JInv

\* A thread's innermost task goes on at another point, and no task moves.
LEMMA TaskGoesOnPlaces ==
    ASSUME IInv, IInv', JInv, CollectionAssumption, NEW t \in Threads, frames[t] # <<>>,
           NEW g \in Frame, SetTop(t, g), g.task = TopFrame(t).task,
           g.at \notin {"capture", "captured"}, ~finished,
           UNCHANGED <<task_id_ctr, finished, above, ended, temp_cur_map>>,
           g.task = MainTask /\ g.young = "none" => 1 .. task_id_ctr \subseteq ended
    PROVE  JInv'
<1>0. TypeOK /\ TypeOK' /\ TasksPlaced /\ Descent /\ MainJoins /\ AllJoined /\ HandOver
  BY DEF IInv, JInv
<1>1. SameTasks
  BY <1>0, TopSetKeepsTasks
<1>2. /\ \A u \in Threads \ {t} : frames'[u] = frames[u]
      /\ TopFrame(t)' = g
      /\ frames'[t] # <<>>
      /\ Len(frames'[t]) = Len(frames[t])
      /\ \A i \in 1 .. Len(frames[t]) - 1 : frames'[t][i] = frames[t][i]
  BY <1>0, TopSet
<1>3. TasksPlaced'
  <2>1. ~At(t, "capture")'
    BY <1>2 DEF At
  <2>2. QED  BY <1>0, <1>1, <1>2, <2>1, PlacedStays
<1>4. Descent'
  <2>1. ASSUME NEW u \in Threads, Launching(u)'
        PROVE  Launching(u) /\ TopFrame(u)' = TopFrame(u)
    BY <1>2, <2>1 DEF Launching, At, TopFrame
  <2>2. QED  BY <1>0, <2>1 DEF Descent
<1>5. MainJoins'
  <2>1. CASE g.task = MainTask
    <3>1. frames'[Main][1] = g
      <4>1. t = Main /\ Len(frames[t]) = 1
        BY <1>0, <2>1, RunningTask
      <4>2. QED  BY <1>2, <4>1 DEF TopFrame
    <3>2. QED  BY <2>1, <3>1 DEF MainJoins
  <2>2. CASE g.task # MainTask
    <3>1. frames'[Main][1] = frames[Main][1]
      BY <1>0, <1>2, <2>2, MainFrameStays
    <3>2. QED  BY <1>0, <3>1 DEF MainJoins
  <2>3. QED  BY <2>1, <2>2
<1>6. AllJoined'
  BY DEF AllJoined
<1>7. QED  BY <1>3, <1>4, <1>5, <1>6 DEF JInv

\* What MainJoins says of the thread that is in main.
LEMMA MainJoinsHere ==
    ASSUME JInv, TypeOK, CollectionAssumption, NEW t \in Threads, frames[t] # <<>>,
           TopFrame(t).task = MainTask, TopFrame(t).young = "none"
    PROVE  \A d \in 1 .. task_id_ctr :
              \/ d \in ended
              \/ InSpawn(TopFrame(t)) /\ (d = TopFrame(t).kid \/ TopFrame(t).kid \in above[d])
<1>1. t = Main /\ Len(frames[t]) = 1
  BY RunningTask DEF JInv
<1>2. QED  BY <1>1 DEF JInv, MainJoins, TopFrame

LEMMA SpawnExitPlaces ==
    ASSUME IInv, IInv', JInv, CollectionAssumption, NEW t \in Threads, SpawnExit(t)
    PROVE  JInv'
<1> DEFINE f == TopFrame(t)
           g == [f EXCEPT !.at = "run", !.op = "none", !.kid = f.task]
<1>1. /\ frames[t] # <<>> /\ f.at = "captured" /\ f.op = "spawn" /\ ~At(t, "run")
      /\ SetTop(t, g)
      /\ UNCHANGED <<task_id_ctr, finished, above, ended, temp_cur_map>>
  BY DEF SpawnExit, At, graph, program
<1>2. f \in Frame /\ TypeOK
  BY <1>1, TopFrameTyped DEF IInv
<1>3. g \in Frame /\ g.at = "run" /\ g.task = f.task /\ g.young = f.young
  BY <1>2 DEF Frame
<1> HIDE DEF g
<1>4. ~finished
  BY <1>1, NotFinished DEF JInv
<1>5. f.task = MainTask /\ f.young = "none" => 1 .. task_id_ctr \subseteq ended
  BY <1>1, <1>2, MainJoinsHere DEF InSpawn
<1>6. QED  BY <1>1, <1>3, <1>4, <1>5, TaskGoesOnPlaces

LEMMA WaitEntryPlaces ==
    ASSUME IInv, IInv', JInv, CollectionAssumption, NEW t \in Threads, WaitEntry(t)
    PROVE  JInv'
<1> DEFINE f == TopFrame(t)
           g == [f EXCEPT !.at = "wait", !.op = "wait"]
<1>1. /\ frames[t] # <<>> /\ f.at = "run" /\ ~finished
      /\ SetTop(t, g)
      /\ UNCHANGED <<task_id_ctr, finished, above, ended, temp_cur_map>>
  BY DEF WaitEntry, At, graph, StepHappens
<1>2. f \in Frame /\ TypeOK
  BY <1>1, TopFrameTyped DEF IInv
<1>3. g \in Frame /\ g.at = "wait" /\ g.task = f.task /\ g.young = f.young
  BY <1>2 DEF Frame
<1> HIDE DEF g
<1>4. f.task = MainTask /\ f.young = "none" => 1 .. task_id_ctr \subseteq ended
  BY <1>1, <1>2, MainJoinsHere DEF InSpawn
<1>5. QED  BY <1>1, <1>3, <1>4, TaskGoesOnPlaces

LEMMA JoinPlaces ==
    ASSUME IInv, IInv', JInv, CollectionAssumption, NEW t \in Threads, Join(t)
    PROVE  JInv'
<1> DEFINE f == TopFrame(t)
           young == IF f.op = "root" THEN f.young ELSE "none"
           g == [f EXCEPT !.at = "run", !.op = "none", !.kid = f.task, !.young = young]
<1>1. /\ frames[t] # <<>> /\ f.at = "wait" /\ ~At(t, "run") /\ Awaited(t) \subseteq ended
      /\ UNCHANGED <<task_id_ctr, finished, above, ended>>
      /\ CaptureWait(t) \/ CaptureWaitOnly(t)
  BY DEF Join, At
<1>2. SetTop(t, g)
  BY DEF Join
<1>3. f \in Frame /\ TypeOK
  BY <1>1, TopFrameTyped DEF IInv
<1>4. /\ g \in Frame /\ g.at = "run" /\ g.task = f.task
      /\ f.op = "root" => g.young = f.young
  BY <1>3 DEF Frame
<1> HIDE DEF g
<1>5. ~finished
  BY <1>1, NotFinished DEF JInv
<1>6. temp_cur_map' = temp_cur_map
  BY <1>1 DEF CaptureWait, CaptureWaitOnly
<1>7. f.task = MainTask /\ g.young = "none" => 1 .. task_id_ctr \subseteq ended
  <2>1. CASE f.op = "root"
    <3>1. \A d \in 1 .. task_id_ctr : d = f.kid \/ f.kid \in above[d] => d \in ended
      BY <1>1, <2>1 DEF Awaited, Descendants
    <3>2. QED  BY <1>1, <1>3, <1>4, <2>1, <3>1, MainJoinsHere
  <2>2. CASE f.op # "root"
    BY <1>1, <2>2 DEF Awaited, Descendants, JInv, Descent
  <2>3. QED  BY <2>1, <2>2
<1>8. QED  BY <1>1, <1>2, <1>4, <1>5, <1>6, <1>7, TaskGoesOnPlaces

\* The frame of a task that begins.
LEMMA FrameBegins ==
    ASSUME TypeOK, NEW t \in Threads, NEW k \in Tasks, NEW s \in Seq(Frame),
           frames' = [frames EXCEPT ![t] = Append(s, NewFrame(k, Len(cur_dpst_index[t])))]
    PROVE  /\ frames' \in [Threads -> Seq(Frame)]
           /\ \A u \in Threads \ {t} : frames'[u] = frames[u]
           /\ TopFrame(t)' = NewFrame(k, Len(cur_dpst_index[t]))
           /\ Len(frames'[t]) = Len(s) + 1
           /\ \A i \in 1 .. Len(s) : frames'[t][i] = s[i]
<1>1. Len(cur_dpst_index[t]) \in Nat
  BY DEF TypeOK, GraphTypeOK
<1>2. NewFrame(k, Len(cur_dpst_index[t])) \in Frame
  BY <1>1 DEF NewFrame, Frame
<1>3. QED  BY <1>2, FramePushed

\* Frame h is frame f, but for what a call it makes changes in it.
Continues(f, h) ==
    h.task = f.task /\ h.kid = f.kid /\ h.young = f.young /\ (InSpawn(f) <=> InSpawn(h))

\* A task begins on thread t, whose other frames are s: what they were, but
\* that a spawn which runs its task itself is blocked from now on.
LEMMA BeginPlaces ==
    ASSUME IInv, IInv', JInv, CollectionAssumption, NEW t \in Threads,
           NEW k \in DOMAIN temp_cur_map, NEW s \in Seq(Frame), Len(s) = Len(frames[t]),
           \A i \in 1 .. Len(s) : Continues(frames[t][i], s[i]),
           frames' = [frames EXCEPT ![t] = Append(s, NewFrame(k, Len(cur_dpst_index[t])))],
           Begin(t, k)
    PROVE  JInv'
<1> DEFINE g == NewFrame(k, Len(cur_dpst_index[t]))
<1>0. TypeOK /\ TypeOK' /\ TasksPlaced /\ Descent /\ MainJoins /\ AllJoined /\ HandOver
  BY DEF IInv, JInv
<1>1. /\ DOMAIN temp_cur_map' = DOMAIN temp_cur_map \ {k}
      /\ UNCHANGED <<task_id_ctr, finished, above, ended>>
  BY DEF Begin, CaptureExecute, Erase
<1>2. k \in 1 .. task_id_ctr /\ k \in Tasks /\ k # MainTask
  <2>1. k \in 1 .. task_id_ctr /\ k \in Tasks
    BY <1>0 DEF HandOver, TypeOK
  <2>2. 0 \notin 1 .. task_id_ctr
    OBVIOUS
  <2>3. QED  BY <2>1, <2>2 DEF MainTask
<1>3. g \in Frame /\ g.at = "run" /\ g.task = k
  <2>1. Len(cur_dpst_index[t]) \in Nat
    BY <1>0 DEF TypeOK, GraphTypeOK
  <2>2. QED  BY <1>2, <2>1 DEF NewFrame, Frame
<1> HIDE DEF g
<1>5. /\ frames' \in [Threads -> Seq(Frame)]
      /\ \A u \in Threads \ {t} : frames'[u] = frames[u]
      /\ TopFrame(t)' = g
      /\ Len(frames'[t]) = Len(s) + 1
      /\ \A i \in 1 .. Len(s) : frames'[t][i] = s[i]
  BY <1>0, <1>2, FrameBegins, ZenonT(60) DEF g
<1> DEFINE top == Len(s) + 1
<1>6. /\ DOMAIN frames[t] = 1 .. Len(s) /\ Len(s) \in Nat
      /\ DOMAIN frames'[t] = 1 .. top
      /\ frames'[t][top] = g
      /\ \A i \in 1 .. top : i = top \/ i \in 1 .. Len(s)
      /\ frames'[t] # <<>>
  <2>1. frames[t] \in Seq(Frame) /\ frames'[t] \in Seq(Frame)
    BY <1>0 DEF TypeOK
  <2>2. Len(s) \in Nat /\ DOMAIN frames[t] = 1 .. Len(s) /\ DOMAIN frames'[t] = 1 .. top
    BY <1>5, <2>1
  <2>3. QED  BY <1>5, <2>2 DEF TopFrame
<1> HIDE DEF top
<1>7. \A i \in 1 .. Len(s) : Continues(frames[t][i], frames'[t][i])
  BY <1>5
\* Every frame of the new state is the new one, or one of the same task before.
<1>8. \A u \in Threads : \A i \in DOMAIN frames'[u] :
         \/ u = t /\ i = top /\ frames'[u][i].task = k
         \/ i \in DOMAIN frames[u] /\ frames'[u][i].task = frames[u][i].task
  <2>1. \A i \in DOMAIN frames'[t] :
           \/ i = top /\ frames'[t][i].task = k
           \/ i \in DOMAIN frames[t] /\ frames'[t][i].task = frames[t][i].task
    <3>1. \A i \in 1 .. Len(s) : frames'[t][i].task = frames[t][i].task
      BY <1>7 DEF Continues
    <3>2. QED  BY <1>3, <1>6, <3>1
  <2>2. QED  BY <1>5, <2>1
<1>9. \A u \in Threads : \A i \in DOMAIN frames[u] : frames[u][i].task # k
  BY <1>0 DEF TasksPlaced, FramesCurrent
<1>10. \A u \in Threads : At(u, "capture")' =>
          At(u, "capture") /\ TopFrame(u)' = TopFrame(u) /\ TopFrame(u).kid # k
  BY <1>0, <1>3, <1>5 DEF At, TopFrame, HandOver
<1>11. 1 \in DOMAIN frames[Main] /\ Main \in Threads
  <2>1. frames[Main] # <<>> /\ Main \in Threads
    BY <1>0 DEF TasksPlaced, MainAtBottom, Threads
  <2>2. QED  BY <1>0, <2>1, TopFrameTyped
<1>12. TasksPlaced'
  <2>1. MainAtBottom'
    BY <1>0, <1>5, <1>6, <1>7, <1>11 DEF TasksPlaced, MainAtBottom, Continues
  <2>2. OneFrameEach'
    BY <1>0, <1>8, <1>9 DEF TasksPlaced, OneFrameEach
  <2>3. FramesCurrent'
    <3>1. k \in 0 .. task_id_ctr /\ k \notin ended
      BY <1>0, <1>2 DEF TasksPlaced, EndedApart
    <3>2. QED  BY <1>0, <1>1, <1>8, <3>1 DEF TasksPlaced, FramesCurrent
  <2>4. NewTaskApart'
    BY <1>0, <1>1, <1>8, <1>10 DEF TasksPlaced, NewTaskApart
  <2>5. EndedApart'
    BY <1>0, <1>1 DEF TasksPlaced, EndedApart
  <2>6. QED  BY <2>1, <2>2, <2>3, <2>4, <2>5 DEF TasksPlaced
<1>13. Descent'
  <2>1. ASSUME NEW u \in Threads, Launching(u)'
        PROVE  Launching(u) /\ TopFrame(u)' = TopFrame(u)
    BY <1>3, <1>5, <2>1 DEF Launching, At, TopFrame
  <2>2. QED  BY <1>0, <1>1, <2>1 DEF Descent
<1>14. MainJoins'
  <2>1. /\ frames'[Main][1].kid = frames[Main][1].kid
        /\ frames'[Main][1].young = frames[Main][1].young
        /\ InSpawn(frames[Main][1]) <=> InSpawn(frames'[Main][1])
    BY <1>5, <1>6, <1>7, <1>11 DEF Continues
  <2>2. QED  BY <1>0, <1>1, <2>1 DEF MainJoins, InSpawn
<1>15. ~finished
  BY <1>0, <1>2 DEF AllJoined, TasksPlaced, EndedApart
<1>16. AllJoined'
  BY <1>1, <1>15 DEF AllJoined
<1>17. QED  BY <1>12, <1>13, <1>14, <1>16 DEF JInv

LEMMA TakeTaskPlaces ==
    ASSUME IInv, IInv', JInv, CollectionAssumption, NEW t \in Threads, NEW k \in Tasks,
           TakeTask(t, k)
    PROVE  JInv'
<1>1. /\ k \in DOMAIN temp_cur_map
      /\ frames' = [frames EXCEPT ![t] =
                      Append(frames[t], NewFrame(k, Len(cur_dpst_index[t])))]
      /\ Begin(t, k)
  BY DEF TakeTask, IInv, HandOver
<1>2. frames[t] \in Seq(Frame)
  BY DEF IInv, TypeOK
<1>3. \A i \in 1 .. Len(frames[t]) : Continues(frames[t][i], frames[t][i])
  BY DEF Continues
<1>4. QED  BY <1>1, <1>2, <1>3, BeginPlaces

LEMMA RunChildPlaces ==
    ASSUME IInv, IInv', JInv, CollectionAssumption, NEW t \in Threads, RunChild(t)
    PROVE  JInv'
<1> DEFINE f == TopFrame(t)
           s == WithTop(t, [f EXCEPT !.at = "wait"])
<1>1. /\ frames[t] # <<>> /\ f.at = "captured" /\ At(t, "captured")
      /\ frames' = [frames EXCEPT ![t] = Append(s, NewFrame(f.kid, Len(cur_dpst_index[t])))]
      /\ Begin(t, f.kid)
  BY DEF RunChild, At
<1>2. f.kid \in DOMAIN temp_cur_map
  BY <1>1 DEF IInv, HandOver
<1>3. /\ f \in Frame /\ frames[t] \in Seq(Frame)
      /\ Len(frames[t]) \in Nat \ {0} /\ DOMAIN frames[t] = 1 .. Len(frames[t])
  BY <1>1, TopFrameTyped DEF IInv
<1>4. /\ s \in Seq(Frame) /\ Len(s) = Len(frames[t])
      /\ s[Len(frames[t])] = [f EXCEPT !.at = "wait"]
      /\ \A i \in 1 .. Len(frames[t]) - 1 : s[i] = frames[t][i]
  <2>1. [f EXCEPT !.at = "wait"] \in Frame
    BY <1>3 DEF Frame
  <2>2. QED  BY <1>3, <2>1, ExceptSeq DEF WithTop
<1> HIDE DEF s
<1>5. \A i \in 1 .. Len(s) : i = Len(frames[t]) \/ i \in 1 .. Len(frames[t]) - 1
  BY <1>3, <1>4
<1>6. Continues(f, [f EXCEPT !.at = "wait"])
  BY <1>1, <1>3 DEF Continues, InSpawn, Frame
<1>7. \A i \in 1 .. Len(s) : Continues(frames[t][i], s[i])
  BY <1>4, <1>5, <1>6 DEF TopFrame, Continues
<1>8. QED  BY <1>1, <1>2, <1>4, <1>7, BeginPlaces

LEMMA ExecEndPlaces ==
    ASSUME IInv, IInv', JInv, CollectionAssumption, NEW t \in Threads, ExecEnd(t)
    PROVE  JInv'
<1> DEFINE f == TopFrame(t)
<1>0. TypeOK /\ TypeOK' /\ TasksPlaced /\ Descent /\ MainJoins /\ AllJoined /\ HandOver
  BY DEF IInv, JInv
<1>1. /\ frames[t] # <<>> /\ f.at = "run" /\ f.task # MainTask
      /\ frames' = [frames EXCEPT ![t] = Popped(@)]
      /\ ended' = ended \cup {f.task}
      /\ UNCHANGED <<task_id_ctr, finished, above, temp_cur_map>>
  BY DEF ExecEnd, At, StepHappens, CaptureReturn
<1>2. /\ \A u \in Threads \ {t} : frames'[u] = frames[u]
      /\ Len(frames'[t]) = Len(frames[t]) - 1
      /\ \A i \in 1 .. Len(frames[t]) - 1 : frames'[t][i] = frames[t][i]
  BY <1>0, <1>1, FramePopped
<1>3. /\ Len(frames[t]) \in Nat \ {0} /\ DOMAIN frames[t] = 1 .. Len(frames[t])
      /\ DOMAIN frames'[t] = 1 .. Len(frames[t]) - 1
      /\ Len(frames[t]) \in DOMAIN frames[t] /\ f = frames[t][Len(frames[t])]
      /\ \A i \in 1 .. Len(frames[t]) - 1 : i \in DOMAIN frames[t] /\ i # Len(frames[t])
  <2>1. Len(frames[t]) \in Nat \ {0} /\ DOMAIN frames[t] = 1 .. Len(frames[t])
    BY <1>0, <1>1, TopFrameTyped
  <2>2. DOMAIN frames'[t] = 1 .. Len(frames'[t])
    BY <1>0 DEF TypeOK
  <2>3. QED  BY <1>2, <2>1, <2>2 DEF TopFrame
<1>4. f.task \in 1 .. task_id_ctr /\ f.task \notin DOMAIN temp_cur_map /\ f.task \notin ended
  <2>1. f.task \in 0 .. task_id_ctr /\ f.task \notin DOMAIN temp_cur_map /\ f.task \notin ended
    BY <1>0, <1>1, RunningTask
  <2>2. QED  BY <1>1, <2>1 DEF MainTask
<1>5. frames'[Main][1] = frames[Main][1] /\ (t = Main => Len(frames[t]) > 1)
  BY <1>0, <1>1, <1>2, MainFrameStays
<1>6. \A u \in Threads : \A i \in DOMAIN frames'[u] :
         i \in DOMAIN frames[u] /\ frames'[u][i] = frames[u][i] /\ frames[u][i].task # f.task
  <2>1. \A u \in Threads : \A i \in DOMAIN frames[u] :
           frames[u][i].task = f.task => u = t /\ i = Len(frames[t])
    BY <1>0, <1>3 DEF TasksPlaced, OneFrameEach
  <2>2. \A i \in DOMAIN frames'[t] :
           i \in DOMAIN frames[t] /\ frames'[t][i] = frames[t][i] /\ frames[t][i].task # f.task
    BY <1>2, <1>3, <2>1
  <2>3. QED  BY <1>2, <2>1, <2>2
<1>7. ~At(t, "capture")' /\ ~At(t, "captured")' /\ ~Launching(t)'
  <2>1. ASSUME frames'[t] # <<>>
        PROVE  TopFrame(t)'.at = "wait"
    <3>1. frames'[t] \in Seq(Frame)
      BY <1>0 DEF TypeOK
    <3>2. Len(frames'[t]) \in DOMAIN frames'[t]
      BY <2>1, <3>1
    <3>3. Len(frames'[t]) \in 1 .. Len(frames[t]) - 1
      BY <1>3, <3>2
    <3>4. frames[t][Len(frames'[t])].at = "wait"
      BY <1>0, <3>3 DEF HandOver
    <3>5. QED  BY <1>2, <3>3, <3>4 DEF TopFrame
  <2>2. QED  BY <2>1 DEF At, Launching
<1>8. TasksPlaced'
  <2>1. MainAtBottom'
    <3>1. t = Main => frames'[t] # <<>>
      BY <1>2, <1>3, <1>5
    <3>2. QED  BY <1>0, <1>2, <1>5, <3>1 DEF TasksPlaced, MainAtBottom, Threads
  <2>2. OneFrameEach'
    BY <1>0, <1>6 DEF TasksPlaced, OneFrameEach
  <2>3. FramesCurrent'
    BY <1>0, <1>1, <1>6 DEF TasksPlaced, FramesCurrent
  <2>4. ASSUME NEW u \in Threads, At(u, "capture")'
        PROVE  At(u, "capture") /\ TopFrame(u)' = TopFrame(u)
    BY <1>2, <1>7, <2>4 DEF At, TopFrame
  <2>5. NewTaskApart'
    <3>1. \A u \in Threads : At(u, "capture") => TopFrame(u).kid # f.task
      BY <1>0, <1>3 DEF TasksPlaced, NewTaskApart
    <3>2. QED  BY <1>0, <1>1, <1>6, <2>4, <3>1 DEF TasksPlaced, NewTaskApart
  <2>6. EndedApart'
    BY <1>0, <1>1, <1>4 DEF TasksPlaced, EndedApart
  <2>7. QED  BY <2>1, <2>2, <2>3, <2>5, <2>6 DEF TasksPlaced
<1>9. Descent'
  <2>1. ASSUME NEW u \in Threads, Launching(u)'
        PROVE  Launching(u) /\ TopFrame(u)' = TopFrame(u)
    BY <1>2, <1>7, <2>1 DEF Launching, At, TopFrame
  <2>2. QED  BY <1>0, <1>1, <2>1 DEF Descent
<1>10. MainJoins'
  BY <1>0, <1>1, <1>5 DEF MainJoins
<1>11. ~finished
  BY <1>0, <1>4 DEF AllJoined
<1>12. AllJoined'
  BY <1>1, <1>11 DEF AllJoined
<1>13. QED  BY <1>8, <1>9, <1>10, <1>12 DEF JInv

\* Main reaches Fini only when every task has ended, and so every worker is idle.
LEMMA FiniPlaces ==
    ASSUME IInv, IInv', JInv, CollectionAssumption, Fini
    PROVE  JInv'
<1>0. TypeOK /\ TypeOK' /\ TasksPlaced /\ Descent /\ MainJoins /\ AllJoined /\ Main \in Threads
  BY DEF IInv, JInv, Threads
<1>1. /\ frames[Main] # <<>> /\ At(Main, "run") /\ TopFrame(Main).at = "run"
      /\ TopFrame(Main).task = MainTask /\ TopFrame(Main).young = "none"
      /\ finished' = TRUE
      /\ UNCHANGED <<task_id_ctr, frames, above, ended, temp_cur_map>>
  BY DEF Fini, At, graph, StepHappens
<1>2. TasksPlaced' /\ Descent' /\ MainJoins'
  BY <1>0, <1>1 DEF TasksPlaced, MainAtBottom, OneFrameEach, FramesCurrent, NewTaskApart,
     EndedApart, Descent, MainJoins, At, TopFrame, Launching
<1>3. 1 .. task_id_ctr \subseteq ended
  BY <1>0, <1>1, MainJoinsHere DEF InSpawn, JInv
<1>4. Len(frames[Main]) = 1
  BY <1>0, <1>1, RunningTask
<1>5. ASSUME NEW t \in Threads \ {Main}, frames[t] # <<>>
      PROVE  FALSE
  <2>1. TopFrame(t).task \in 0 .. task_id_ctr /\ TopFrame(t).task \notin ended
        /\ TopFrame(t).task # MainTask
    BY <1>0, <1>5, RunningTask
  <2>2. QED  BY <1>3, <2>1 DEF MainTask
<1>6. At(Main, "run")'
  BY <1>1 DEF At, TopFrame
<1>7. AllJoined'
  BY <1>1, <1>3, <1>4, <1>5, <1>6 DEF AllJoined
<1>8. QED  BY <1>2, <1>7 DEF JInv

LEMMA InitPlaces ==
    ASSUME CollectionAssumption, MainAssumption, Init
    PROVE  JInv
<1> DEFINE m == NewFrame(MainTask, 0)
<1>1. /\ frames = [t \in Threads |-> IF t = Main THEN <<m>> ELSE <<>>] /\ Main \in Threads
      /\ task_id_ctr = 0 /\ ~finished /\ ended = {} /\ DOMAIN temp_cur_map = {}
      /\ above = [k \in Tasks |-> {}] /\ MainTask \in Tasks /\ 1 .. 0 = {}
  BY DEF Init, GraphInit, Threads, MainTask, Tasks, CollectionAssumption
<1>2. m.task = 0 /\ m.at = "run"
  BY DEF NewFrame, MainTask
<1> HIDE DEF m
<1>3. \A t \in Threads : \A i \in DOMAIN frames[t] : t = Main /\ i = 1 /\ frames[t][i] = m
  BY <1>1
<1>4. frames[Main] # <<>> /\ frames[Main][1] = m
  BY <1>1
<1>5. \A t \in Threads : ~At(t, "capture") /\ ~At(t, "captured")
  BY <1>1, <1>2 DEF At, TopFrame
<1>6. TasksPlaced
  BY <1>1, <1>2, <1>3, <1>4, <1>5 DEF TasksPlaced, MainAtBottom, OneFrameEach, FramesCurrent,
     NewTaskApart, EndedApart, MainTask
<1>7. Descent
  BY <1>1, <1>5 DEF Descent, Launching
<1>8. MainJoins
  BY <1>1 DEF MainJoins
<1>9. AllJoined
  BY <1>1 DEF AllJoined
<1>10. QED  BY <1>6, <1>7, <1>8, <1>9 DEF JInv

LEMMA NextPlaces ==
    ASSUME CollectionAssumption, IInv, IInv', JInv, [Next]_vars
    PROVE  JInv'
<1>1. ASSUME NEW t \in Threads, ThreadStep(t)
      PROVE  JInv'
  <2>1. ASSUME NEW op \in {"spawn", "root", "both"}, SpawnEntry(t, op)
        PROVE  JInv'
    BY <2>1, SpawnEntryPlaces
  <2>2. CASE SpawnCapture(t)
    BY <2>2, SpawnCapturePlaces
  <2>3. CASE SpawnExit(t)
    BY <2>3, SpawnExitPlaces
  <2>4. CASE WaitEntry(t)
    BY <2>4, WaitEntryPlaces
  <2>5. CASE Join(t)
    BY <2>5, JoinPlaces
  <2>6. ASSUME NEW k \in Tasks, TakeTask(t, k)
        PROVE  JInv'
    BY <2>6, TakeTaskPlaces
  <2>7. CASE RunChild(t)
    BY <2>7, RunChildPlaces
  <2>8. CASE ExecEnd(t)
    BY <2>8, ExecEndPlaces
  <2>9. QED  BY <1>1, <2>1, <2>2, <2>3, <2>4, <2>5, <2>6, <2>7, <2>8 DEF ThreadStep
<1>2. CASE Fini
  BY <1>2, FiniPlaces
<1>3. CASE UNCHANGED vars
  <2>1. UNCHANGED <<frames, task_id_ctr, finished, ended, above, temp_cur_map>>
    BY <1>3 DEF vars, scheduler, program, graph
  <2>2. TasksPlaced' /\ Descent' /\ MainJoins' /\ AllJoined'
    BY <2>1 DEF JInv, TasksPlaced, MainAtBottom, OneFrameEach, FramesCurrent, NewTaskApart,
       EndedApart, Descent, MainJoins, AllJoined, At, TopFrame, Launching
  <2>3. QED  BY <2>2 DEF JInv
<1>4. QED  BY <1>1, <1>2, <1>3 DEF Next, Terminated

\* Tasks are where the program's order has them, throughout every run.
THEOREM Placement == Spec => []JInv
<1>1. Init => JInv
  BY InitPlaces, CollectionAssumption, MainAssumption
<1>2. IInv /\ IInv' /\ JInv /\ [Next]_vars => JInv'
  BY NextPlaces, CollectionAssumption
<1>3. QED  BY <1>1, <1>2, Invariance, PTL DEF Spec

(******************************************************************************)
(* Cycle counters                                                             *)
(******************************************************************************)

\* One thread starts or stops its counter.
LEMMA CountsHere ==
    ASSUME TypeOK, CountsOnlySteps, NEW t \in Threads, NEW b \in BOOLEAN,
           counting' = [counting EXCEPT ![t] = b], finished' = finished,
           \A u \in Threads \ {t} : frames'[u] = frames[u],
           b <=> At(t, "run")' /\ ~finished
    PROVE  CountsOnlySteps'
  BY DEF TypeOK, CountsOnlySteps, At, TopFrame

\* A step with which a thread stays outside program code.
LEMMA CountsStay ==
    ASSUME TypeOK, CountsOnlySteps, NEW t \in Threads, UNCHANGED <<counting, finished>>,
           \A u \in Threads \ {t} : frames'[u] = frames[u],
           ~At(t, "run"), ~At(t, "run")'
    PROVE  CountsOnlySteps'
  BY DEF TypeOK, CountsOnlySteps, At, TopFrame

\* Where a SetTop leaves its thread.
LEMMA AtAfterSet ==
    ASSUME TypeOK, NEW t \in Threads, frames[t] # <<>>, NEW g \in Frame, SetTop(t, g)
    PROVE  /\ \A u \in Threads \ {t} : frames'[u] = frames[u]
           /\ At(t, "run")' <=> g.at = "run"
<1>1. /\ frames' \in [Threads -> Seq(Frame)]
      /\ \A u \in Threads \ {t} : frames'[u] = frames[u]
      /\ frames'[t] # <<>>
      /\ TopFrame(t)' = g
      /\ Len(frames'[t]) = Len(frames[t])
      /\ \A i \in 1 .. Len(frames[t]) - 1 : frames'[t][i] = frames[t][i]
  BY TopSet
<1>2. QED  BY <1>1 DEF At

LEMMA BeginCounts ==
    ASSUME TypeOK, CountsOnlySteps, JInv', NEW t \in Threads, NEW k \in Tasks,
           NEW s \in Seq(Frame), Begin(t, k), JInv,
           frames' = [frames EXCEPT ![t] = Append(s, NewFrame(k, Len(cur_dpst_index[t])))],
           ~finished
    PROVE  CountsOnlySteps'
<1>1. /\ frames' \in [Threads -> Seq(Frame)]
      /\ \A u \in Threads \ {t} : frames'[u] = frames[u]
      /\ TopFrame(t)' = NewFrame(k, Len(cur_dpst_index[t]))
      /\ Len(frames'[t]) = Len(s) + 1
      /\ \A i \in 1 .. Len(s) : frames'[t][i] = s[i]
  BY FrameBegins, ZenonT(60)
<1>2. frames'[t] # <<>>
  <2>1. Len(s) \in Nat
    OBVIOUS
  <2>2. QED  BY <1>1, <2>1
<1>3. At(t, "run")'
  BY <1>1, <1>2 DEF At, NewFrame
<1>4. counting' = [counting EXCEPT ![t] = TRUE] /\ finished' = finished
  BY DEF Begin, StartCount
<1>5. QED  BY <1>1, <1>3, <1>4, CountsHere

LEMMA ThreadStepCounts ==
    ASSUME CollectionAssumption, IInv, IInv', JInv, JInv', CountsOnlySteps,
           NEW t \in Threads, ThreadStep(t)
    PROVE  CountsOnlySteps'
<1> DEFINE f == TopFrame(t)
<1>0. TypeOK /\ TypeOK' /\ AllJoined /\ HandOver /\ TasksPlaced
  BY DEF IInv, JInv
<1>1. ASSUME frames[t] # <<>>
      PROVE  f \in Frame
  BY <1>0, <1>1, TopFrameTyped
<1>2. ASSUME NEW op \in {"spawn", "root", "both"}, SpawnEntry(t, op)
      PROVE  CountsOnlySteps'
  <2> DEFINE g == [f EXCEPT !.at = "capture", !.op = op, !.kid = task_id_ctr + 1]
  <2>1. /\ frames[t] # <<>> /\ SetTop(t, g) /\ finished' = finished
        /\ counting' = [counting EXCEPT ![t] = FALSE] /\ task_id_ctr + 1 = task_id_ctr'
    BY <1>2 DEF SpawnEntry, At, LogStep
  <2>2. g \in Frame /\ g.at = "capture"
    BY <1>0, <1>1, <2>1 DEF Frame, TypeOK
  <2> HIDE DEF g
  <2>3. QED  BY <1>0, <2>1, <2>2, AtAfterSet, CountsHere
<1>3. CASE SpawnCapture(t)
  <2> DEFINE young == IF f.op # "root" THEN "spawned"
                      ELSE IF f.young = "none" THEN "none" ELSE "rooted"
             g == [f EXCEPT !.at = "captured", !.young = young]
  <2>1. /\ frames[t] # <<>> /\ f.at = "capture" /\ SetTop(t, g)
        /\ UNCHANGED <<counting, finished>>
    BY <1>3 DEF SpawnCapture, SpawnCaptureAt, At
  <2>2. g \in Frame /\ g.at = "captured"
    BY <1>1, <2>1 DEF Frame
  <2> HIDE DEF g
  <2>3. ~At(t, "run")
    BY <2>1 DEF At
  <2>4. QED  BY <1>0, <2>1, <2>2, <2>3, AtAfterSet, CountsStay
<1>4. CASE SpawnExit(t)
  <2> DEFINE g == [f EXCEPT !.at = "run", !.op = "none", !.kid = f.task]
  <2>1. /\ frames[t] # <<>> /\ f.at = "captured" /\ SetTop(t, g) /\ finished' = finished
        /\ counting' = [counting EXCEPT ![t] = TRUE] /\ ~At(t, "run")
    BY <1>4 DEF SpawnExit, At, StartCount
  <2>2. g \in Frame /\ g.at = "run" /\ ~finished
    BY <1>0, <1>1, <2>1, NotFinished DEF Frame
  <2> HIDE DEF g
  <2>3. QED  BY <1>0, <2>1, <2>2, AtAfterSet, CountsHere
<1>5. CASE WaitEntry(t)
  <2> DEFINE g == [f EXCEPT !.at = "wait", !.op = "wait"]
  <2>1. /\ frames[t] # <<>> /\ SetTop(t, g) /\ finished' = finished
        /\ counting' = [counting EXCEPT ![t] = FALSE]
    BY <1>5 DEF WaitEntry, At, LogStep
  <2>2. g \in Frame /\ g.at = "wait"
    BY <1>1, <2>1 DEF Frame
  <2> HIDE DEF g
  <2>3. QED  BY <1>0, <2>1, <2>2, AtAfterSet, CountsHere
<1>6. CASE Join(t)
  <2> DEFINE young == IF f.op = "root" THEN f.young ELSE "none"
             g == [f EXCEPT !.at = "run", !.op = "none", !.kid = f.task, !.young = young]
  <2>1. /\ frames[t] # <<>> /\ f.at = "wait" /\ SetTop(t, g) /\ finished' = finished
        /\ counting' = [counting EXCEPT ![t] = TRUE] /\ ~At(t, "run")
    BY <1>6 DEF Join, At, StartCount
  <2>2. g \in Frame /\ g.at = "run" /\ ~finished
    BY <1>0, <1>1, <2>1, NotFinished DEF Frame
  <2> HIDE DEF g
  <2>3. QED  BY <1>0, <2>1, <2>2, AtAfterSet, CountsHere
<1>7. ASSUME NEW k \in Tasks, TakeTask(t, k)
      PROVE  CountsOnlySteps'
  <2>1. k \in DOMAIN temp_cur_map
    BY <1>0, <1>7 DEF TakeTask, HandOver
  <2>2. ~finished
    BY <1>0, <2>1 DEF AllJoined, HandOver, TasksPlaced, EndedApart
  <2>3. frames[t] \in Seq(Frame)
    BY <1>0 DEF TypeOK
  <2>4. frames' = [frames EXCEPT ![t] = Append(frames[t], NewFrame(k, Len(cur_dpst_index[t])))]
        /\ Begin(t, k)
    BY <1>7 DEF TakeTask
  <2>5. QED  BY <1>0, <2>2, <2>3, <2>4, BeginCounts
<1>8. CASE RunChild(t)
  <2> DEFINE s == WithTop(t, [f EXCEPT !.at = "wait"])
  <2>1. /\ frames[t] # <<>> /\ f.at = "captured" /\ ~At(t, "run")
        /\ frames' = [frames EXCEPT ![t] = Append(s, NewFrame(f.kid, Len(cur_dpst_index[t])))]
        /\ Begin(t, f.kid)
    BY <1>8 DEF RunChild, At
  <2>2. f.kid \in Tasks /\ s \in Seq(Frame)
    <3>1. /\ f \in Frame /\ frames[t] \in Seq(Frame)
          /\ Len(frames[t]) \in Nat \ {0} /\ DOMAIN frames[t] = 1 .. Len(frames[t])
      BY <1>0, <2>1, TopFrameTyped
    <3>2. [f EXCEPT !.at = "wait"] \in Frame /\ f.kid \in Tasks
      BY <3>1 DEF Frame
    <3>3. QED  BY <3>1, <3>2, ExceptSeq DEF WithTop
  <2> HIDE DEF s
  <2>3. ~finished
    BY <1>0, <2>1, NotFinished
  <2>4. QED  BY <1>0, <2>1, <2>2, <2>3, BeginCounts
<1>9. CASE ExecEnd(t)
  <2>1. /\ frames[t] # <<>> /\ f.at = "run" /\ f.task # MainTask
        /\ frames' = [frames EXCEPT ![t] = Popped(@)]
        /\ counting' = [counting EXCEPT ![t] = FALSE] /\ finished' = finished
    BY <1>9 DEF ExecEnd, At, LogStep
  <2>2. /\ frames' \in [Threads -> Seq(Frame)]
        /\ \A u \in Threads \ {t} : frames'[u] = frames[u]
        /\ Len(frames'[t]) = Len(frames[t]) - 1
        /\ \A i \in 1 .. Len(frames[t]) - 1 : frames'[t][i] = frames[t][i]
    BY <1>0, <2>1, FramePopped
  <2>3. ~At(t, "run")'
    <3>1. ASSUME frames'[t] # <<>>
          PROVE  TopFrame(t)'.at = "wait"
      <4>1. frames'[t] \in Seq(Frame)
        BY <1>0 DEF TypeOK
      <4>2. Len(frames'[t]) \in 1 .. Len(frames'[t])
        BY <3>1, <4>1
      <4>3. Len(frames'[t]) \in 1 .. Len(frames[t]) - 1
        BY <2>2, <4>2
      <4>4. frames[t][Len(frames'[t])].at = "wait"
        BY <1>0, <4>3 DEF HandOver
      <4>5. QED  BY <2>2, <4>3, <4>4 DEF TopFrame
    <3>2. QED  BY <3>1 DEF At
  <2>4. QED  BY <1>0, <2>1, <2>2, <2>3, CountsHere
<1>10. QED  BY <1>2, <1>3, <1>4, <1>5, <1>6, <1>7, <1>8, <1>9 DEF ThreadStep

\* A thread's cycle counter runs exactly while it executes program code: from
\* __exec_begin__ or the exit of a t_debug_task call to the next entry hook, and
\* on no thread once Fini has stopped main's.
THEOREM CountersExact == Spec => []CountsOnlySteps
<1>1. Init => CountsOnlySteps
  <2> SUFFICES ASSUME Init
               PROVE  CountsOnlySteps
    OBVIOUS
  <2>1. \A t \in Threads : At(t, "run") <=> t = Main
    BY DEF Init, At, TopFrame, NewFrame
  <2>2. QED  BY <2>1 DEF Init, CountsOnlySteps
<1>2. CollectionAssumption /\ IInv /\ IInv' /\ JInv /\ JInv' /\ CountsOnlySteps /\ [Next]_vars
         => CountsOnlySteps'
  <2> SUFFICES ASSUME CollectionAssumption, IInv, IInv', JInv, JInv', CountsOnlySteps, [Next]_vars
               PROVE  CountsOnlySteps'
    OBVIOUS
  <2>1. ASSUME NEW t \in Threads, ThreadStep(t)
        PROVE  CountsOnlySteps'
    BY <2>1, ThreadStepCounts
  <2>2. CASE Fini
    <3>1. /\ frames' = frames /\ finished' = TRUE
          /\ counting' = [counting EXCEPT ![Main] = FALSE] /\ Main \in Threads
      BY <2>2 DEF Fini, LogStep, Threads
    <3>2. \A t \in Threads \ {Main} : frames[t] = <<>>
      BY <3>1 DEF JInv, AllJoined
    <3>3. QED  BY <3>1, <3>2 DEF CountsOnlySteps, At, IInv, TypeOK
  <2>3. CASE UNCHANGED vars
    BY <2>3 DEF CountsOnlySteps, At, TopFrame, vars, scheduler
  <2>4. QED  BY <2>1, <2>2, <2>3 DEF Next, Terminated
<1>3. QED  BY <1>1, <1>2, Invariance, Placement, CollectionAssumption, PTL DEF Spec

(******************************************************************************)
(* Collection implements TaskRuntime.                                         *)
(******************************************************************************)

\* The stacks and the ancestors of TaskRuntime, as Runtime substitutes them.
levels == [t \in Threads |-> [i \in DOMAIN frames[t] |-> Level(frames[t][i])]]
known == [k \in Tasks |-> IF HandedOver(k) THEN above[k] ELSE {}]

Levels == [task : Tasks, blocked : BOOLEAN, scope : Tasks]

LEMMA LevelTyped ==
    ASSUME NEW f \in Frame
    PROVE  Level(f) \in Levels /\ Level(f).task = f.task /\ (Level(f).blocked <=> f.at = "wait")
  BY DEF Level, Levels, Frame

LEMMA LevelsTyped ==
    ASSUME TypeOK, NEW t \in Threads
    PROVE  /\ levels[t] \in Seq(Levels)
           /\ Len(levels[t]) = Len(frames[t]) /\ DOMAIN levels[t] = DOMAIN frames[t]
           /\ \A i \in DOMAIN frames[t] : levels[t][i] = Level(frames[t][i])
           /\ levels[t] # <<>> <=> frames[t] # <<>>
           /\ frames[t] # <<>> => Runtime!Last(levels[t]) = Level(TopFrame(t))
<1>1. frames[t] \in Seq(Frame) /\ DOMAIN frames[t] = 1 .. Len(frames[t]) /\ Len(frames[t]) \in Nat
  BY DEF TypeOK
<1>2. \A i \in 1 .. Len(frames[t]) : Level(frames[t][i]) \in Levels
  BY <1>1, LevelTyped
<1> DEFINE s == [i \in 1 .. Len(frames[t]) |-> Level(frames[t][i])]
<1>3. levels[t] = s
  BY <1>1 DEF levels
<1>4. s \in Seq(Levels) /\ Len(s) = Len(frames[t])
  BY <1>1, <1>2
<1>5. frames[t] # <<>> => Len(frames[t]) \in 1 .. Len(frames[t])
  BY <1>1
<1>6. levels[t] # <<>> <=> frames[t] # <<>>
  BY <1>1, <1>3, <1>4
<1>7. frames[t] # <<>> => Runtime!Last(levels[t]) = Level(TopFrame(t))
  BY <1>3, <1>4, <1>5 DEF Runtime!Last, TopFrame
<1>8. QED  BY <1>1, <1>3, <1>4, <1>6, <1>7

\* Two sequences over a set that agree everywhere.
LEMMA SameSequence ==
    ASSUME NEW S, NEW a \in Seq(S), NEW b \in Seq(S), Len(a) = Len(b),
           \A i \in 1 .. Len(a) : a[i] = b[i]
    PROVE  a = b
<1>1. a = [i \in 1 .. Len(a) |-> a[i]] /\ b = [i \in 1 .. Len(b) |-> b[i]]
  OBVIOUS
<1>2. QED  BY <1>1

\* The top of a stack replaced.
LEMMA TopReplaced ==
    ASSUME NEW S, NEW s \in Seq(S), s # <<>>, NEW x \in S
    PROVE  /\ Runtime!WithTop(s, x) \in Seq(S)
           /\ Len(Runtime!WithTop(s, x)) = Len(s)
           /\ Runtime!WithTop(s, x)[Len(s)] = x
           /\ \A i \in 1 .. Len(s) - 1 : Runtime!WithTop(s, x)[i] = s[i]
<1> DEFINE p == Popped(s)
<1>1. /\ p \in Seq(S) /\ Len(p) = Len(s) - 1
      /\ \A i \in 1 .. Len(s) - 1 : p[i] = s[i]
  BY PoppedStack
<1>2. Runtime!Front(s) = p
  BY DEF Runtime!Front, Popped
<1> HIDE DEF p
<1>3. /\ Append(p, x) \in Seq(S) /\ Len(Append(p, x)) = Len(p) + 1
      /\ Append(p, x)[Len(p) + 1] = x
      /\ \A i \in 1 .. Len(p) : Append(p, x)[i] = p[i]
  BY <1>1, AppendProperties
<1>4. Len(s) \in Nat
  OBVIOUS
<1>5. Len(p) + 1 = Len(s)
  BY <1>1, <1>4
<1>6. QED  BY <1>1, <1>2, <1>3, <1>5 DEF Runtime!WithTop

LEMMA LevelsPrimed ==
    ASSUME TypeOK', NEW t \in Threads
    PROVE  /\ levels'[t] \in Seq(Levels)
           /\ Len(levels'[t]) = Len(frames'[t])
           /\ \A i \in DOMAIN frames'[t] : levels'[t][i] = Level(frames'[t][i])
<1>1. /\ frames'[t] \in Seq(Frame)
      /\ DOMAIN frames'[t] = 1 .. Len(frames'[t]) /\ Len(frames'[t]) \in Nat
  BY DEF TypeOK
<1>2. \A i \in 1 .. Len(frames'[t]) : Level(frames'[t][i]) \in Levels
  BY <1>1, LevelTyped
<1> DEFINE s == [i \in 1 .. Len(frames'[t]) |-> Level(frames'[t][i])]
<1>3. levels'[t] = s
  BY <1>1 DEF levels
<1>4. s \in Seq(Levels) /\ Len(s) = Len(frames'[t])
  BY <1>1, <1>2
<1>5. QED  BY <1>1, <1>3, <1>4

\* The stacks of the other threads are theirs; t's is s.
LEMMA LevelsElsewhere ==
    ASSUME TypeOK, TypeOK', NEW t \in Threads, \A u \in Threads \ {t} : frames'[u] = frames[u],
           NEW s, levels'[t] = s
    PROVE  levels' = [levels EXCEPT ![t] = s]
<1>1. \A u \in Threads \ {t} : levels'[u] = levels[u]
  BY DEF levels
<1>2. DOMAIN levels = Threads /\ DOMAIN levels' = Threads
      /\ levels = [u \in Threads |-> levels[u]] /\ levels' = [u \in Threads |-> levels'[u]]
  BY DEF levels
<1>3. QED  BY <1>1, <1>2

LEMMA LevelsAfterSet ==
    ASSUME TypeOK, TypeOK', NEW t \in Threads, frames[t] # <<>>, NEW g \in Frame, SetTop(t, g)
    PROVE  levels' = [levels EXCEPT ![t] = Runtime!WithTop(levels[t], Level(g))]
<1>1. /\ frames' \in [Threads -> Seq(Frame)]
      /\ \A u \in Threads \ {t} : frames'[u] = frames[u]
      /\ frames'[t] # <<>>
      /\ TopFrame(t)' = g
      /\ Len(frames'[t]) = Len(frames[t])
      /\ \A i \in 1 .. Len(frames[t]) - 1 : frames'[t][i] = frames[t][i]
  BY TopSet
<1>2. /\ levels[t] \in Seq(Levels) /\ levels[t] # <<>>
      /\ Len(levels[t]) = Len(frames[t]) /\ DOMAIN levels[t] = DOMAIN frames[t]
      /\ \A i \in DOMAIN frames[t] : levels[t][i] = Level(frames[t][i])
  BY LevelsTyped
<1>3. /\ levels'[t] \in Seq(Levels)
      /\ Len(levels'[t]) = Len(frames'[t])
      /\ \A i \in DOMAIN frames'[t] : levels'[t][i] = Level(frames'[t][i])
  BY LevelsPrimed
<1>4. Level(g) \in Levels
  BY LevelTyped
<1> DEFINE a == levels[t]
           x == Level(g)
           w == Runtime!WithTop(a, x)
<1>5. /\ w \in Seq(Levels) /\ Len(w) = Len(levels[t])
      /\ w[Len(levels[t])] = Level(g)
      /\ \A i \in 1 .. Len(levels[t]) - 1 : w[i] = levels[t][i]
  <2>1. a \in Seq(Levels) /\ a # <<>> /\ x \in Levels
    BY <1>2, <1>4
  <2> HIDE DEF a, x
  <2>2. /\ w \in Seq(Levels) /\ Len(w) = Len(a)
        /\ w[Len(a)] = x
        /\ \A i \in 1 .. Len(a) - 1 : w[i] = a[i]
    BY <2>1, TopReplaced
  <2>3. QED  BY <2>2 DEF a, x
<1> HIDE DEF w
<1>6. \A i \in 1 .. Len(w) : levels'[t][i] = w[i]
  <2>1. /\ DOMAIN frames[t] = 1 .. Len(w) /\ DOMAIN frames'[t] = 1 .. Len(w)
        /\ Len(w) = Len(frames[t]) /\ Len(w) \in Nat \ {0}
    BY <1>1, <1>2, <1>5, TopFrameTyped DEF TypeOK
  <2>2. ASSUME NEW i \in 1 .. Len(w) - 1
        PROVE  levels'[t][i] = w[i]
    <3>1. i \in 1 .. Len(w)
      BY <2>1
    <3>2. QED  BY <1>1, <1>2, <1>3, <1>5, <2>1, <3>1
  <2>3. levels'[t][Len(w)] = w[Len(w)]
    BY <1>1, <1>2, <1>3, <1>5, <2>1 DEF TopFrame
  <2>4. \A i \in 1 .. Len(w) : i = Len(w) \/ i \in 1 .. Len(w) - 1
    BY <2>1
  <2>5. QED  BY <2>2, <2>3, <2>4
<1>7. levels'[t] = w
  BY <1>1, <1>2, <1>3, <1>5, <1>6, SameSequence
<1>8. QED  BY <1>1, <1>7, LevelsElsewhere DEF w

\* A task is pushed on a thread whose other levels are s.
LEMMA LevelsAfterPush ==
    ASSUME TypeOK, TypeOK', NEW t \in Threads, NEW k \in Tasks, NEW s \in Seq(Frame),
           frames' = [frames EXCEPT ![t] = Append(s, NewFrame(k, Len(cur_dpst_index[t])))],
           NEW low \in Seq(Levels), Len(low) = Len(s),
           \A i \in 1 .. Len(s) : low[i] = Level(s[i])
    PROVE  levels' = [levels EXCEPT ![t] = Append(low, Runtime!Running(k))]
<1>1. /\ frames' \in [Threads -> Seq(Frame)]
      /\ \A u \in Threads \ {t} : frames'[u] = frames[u]
      /\ TopFrame(t)' = NewFrame(k, Len(cur_dpst_index[t]))
      /\ Len(frames'[t]) = Len(s) + 1
      /\ \A i \in 1 .. Len(s) : frames'[t][i] = s[i]
  BY FrameBegins, ZenonT(60)
<1>2. /\ levels'[t] \in Seq(Levels)
      /\ Len(levels'[t]) = Len(frames'[t])
      /\ \A i \in DOMAIN frames'[t] : levels'[t][i] = Level(frames'[t][i])
  BY LevelsPrimed
<1>3. /\ Level(NewFrame(k, Len(cur_dpst_index[t]))) = Runtime!Running(k)
      /\ Runtime!Running(k) \in Levels
  BY DEF Level, NewFrame, Runtime!Running, Runtime!Level, Levels
<1> DEFINE r == Runtime!Running(k)
           w == Append(low, r)
<1> HIDE DEF r
<1>4. /\ w \in Seq(Levels) /\ Len(w) = Len(low) + 1
      /\ w[Len(low) + 1] = r
      /\ \A i \in 1 .. Len(low) : w[i] = low[i]
  BY <1>3, AppendProperties DEF r
<1> HIDE DEF w
<1>5. \A i \in 1 .. Len(w) : levels'[t][i] = w[i]
  <2>1. /\ Len(s) \in Nat /\ Len(w) = Len(s) + 1 /\ DOMAIN frames'[t] = 1 .. Len(s) + 1
    BY <1>1, <1>4 DEF TypeOK
  <2>2. ASSUME NEW i \in 1 .. Len(s)
        PROVE  levels'[t][i] = w[i]
    <3>1. i \in 1 .. Len(s) + 1
      BY <2>1
    <3>2. QED  BY <1>1, <1>2, <1>4, <2>1, <3>1
  <2>3. levels'[t][Len(s) + 1] = w[Len(s) + 1]
    <3>1. Len(s) + 1 \in DOMAIN frames'[t]
      BY <2>1
    <3>2. levels'[t][Len(s) + 1] = Level(TopFrame(t)')
      BY <1>1, <1>2, <3>1 DEF TopFrame
    <3>3. QED  BY <1>1, <1>3, <1>4, <3>2 DEF r
  <2>4. \A i \in 1 .. Len(w) : i = Len(s) + 1 \/ i \in 1 .. Len(s)
    BY <2>1
  <2>5. QED  BY <2>2, <2>3, <2>4
<1>6. levels'[t] = w
  BY <1>1, <1>2, <1>4, <1>5, SameSequence
<1>7. QED  BY <1>1, <1>6, LevelsElsewhere DEF w, r

LEMMA LevelsAfterPop ==
    ASSUME TypeOK, TypeOK', NEW t \in Threads, frames[t] # <<>>,
           frames' = [frames EXCEPT ![t] = Popped(@)]
    PROVE  levels' = [levels EXCEPT ![t] = Runtime!Front(levels[t])]
<1>1. /\ frames' \in [Threads -> Seq(Frame)]
      /\ \A u \in Threads \ {t} : frames'[u] = frames[u]
      /\ Len(frames'[t]) = Len(frames[t]) - 1
      /\ \A i \in 1 .. Len(frames[t]) - 1 : frames'[t][i] = frames[t][i]
  BY FramePopped
<1>2. /\ levels[t] \in Seq(Levels) /\ levels[t] # <<>>
      /\ Len(levels[t]) = Len(frames[t]) /\ DOMAIN levels[t] = DOMAIN frames[t]
      /\ \A i \in DOMAIN frames[t] : levels[t][i] = Level(frames[t][i])
  BY LevelsTyped
<1>3. /\ levels'[t] \in Seq(Levels)
      /\ Len(levels'[t]) = Len(frames'[t])
      /\ \A i \in DOMAIN frames'[t] : levels'[t][i] = Level(frames'[t][i])
  BY LevelsPrimed
<1> DEFINE w == Popped(levels[t])
<1>4. /\ w \in Seq(Levels) /\ Len(w) = Len(levels[t]) - 1
      /\ \A i \in 1 .. Len(levels[t]) - 1 : w[i] = levels[t][i]
  BY <1>2, PoppedStack
<1>5. Runtime!Front(levels[t]) = w
  BY DEF Runtime!Front, Popped
<1> HIDE DEF w
<1>6. \A i \in 1 .. Len(w) : levels'[t][i] = w[i]
  <2>1. /\ Len(frames[t]) \in Nat \ {0} /\ DOMAIN frames[t] = 1 .. Len(frames[t])
        /\ DOMAIN frames'[t] = 1 .. Len(w) /\ Len(w) = Len(frames[t]) - 1
    BY <1>1, <1>2, <1>4, TopFrameTyped DEF TypeOK
  <2>2. ASSUME NEW i \in 1 .. Len(w)
        PROVE  i \in DOMAIN frames[t]
    BY <2>1
  <2>3. QED  BY <1>1, <1>2, <1>3, <1>4, <2>1, <2>2
<1>7. levels'[t] = w
  BY <1>1, <1>2, <1>3, <1>4, <1>6, SameSequence
<1>8. QED  BY <1>1, <1>5, <1>7, LevelsElsewhere


\* A call that is not yet, or no longer, blocking leaves the level as it was.
LEMMA LevelsStay ==
    ASSUME TypeOK, TypeOK', NEW t \in Threads, frames[t] # <<>>, NEW g \in Frame, SetTop(t, g),
           Level(g) = Level(TopFrame(t))
    PROVE  levels' = levels
<1>1. levels' = [levels EXCEPT ![t] = Runtime!WithTop(levels[t], Level(g))]
  BY LevelsAfterSet
<1>2. /\ levels[t] \in Seq(Levels) /\ levels[t] # <<>>
      /\ Runtime!Last(levels[t]) = Level(TopFrame(t))
  BY LevelsTyped
<1> DEFINE a == levels[t]
           x == Level(g)
           w == Runtime!WithTop(a, x)
<1>3. /\ w \in Seq(Levels) /\ Len(w) = Len(a)
      /\ w[Len(a)] = x
      /\ \A i \in 1 .. Len(a) - 1 : w[i] = a[i]
  <2>1. a \in Seq(Levels) /\ a # <<>> /\ x \in Levels
    BY <1>2, LevelTyped
  <2> HIDE DEF a, x
  <2>2. QED  BY <2>1, TopReplaced
<1>4. x = a[Len(a)] /\ a \in Seq(Levels) /\ a # <<>>
  BY <1>2 DEF Runtime!Last
<1> HIDE DEF a, x, w
<1>5. \A i \in 1 .. Len(a) : i = Len(a) \/ i \in 1 .. Len(a) - 1
  BY <1>4
<1>6. w = a
  <2>1. \A i \in 1 .. Len(w) : w[i] = a[i]
    BY <1>3, <1>4, <1>5
  <2>2. QED  BY <1>3, <1>4, <2>1, SameSequence
<1>7. levels' = [levels EXCEPT ![t] = levels[t]]
  BY <1>1, <1>6 DEF a, x, w
<1>8. QED  BY <1>7 DEF levels

(******************************************************************************)
(* Which tasks TaskRuntime knows.                                             *)
(******************************************************************************)

OnFrame(k) == \E t \in Threads : \E i \in DOMAIN frames[t] : frames[t][i].task = k

LEMMA KnownStays ==
    ASSUME \A k \in Tasks : HandedOver(k)' <=> HandedOver(k),
           \A k \in Tasks : HandedOver(k) => above'[k] = above[k]
    PROVE  known' = known
  BY DEF known

LEMMA KnownGrows ==
    ASSUME above' = above, NEW j \in Tasks,
           \A k \in Tasks : HandedOver(k)' <=> HandedOver(k) \/ k = j
    PROVE  known' = [known EXCEPT ![j] = above[j]]
<1>1. \A k \in Tasks : known'[k] = [known EXCEPT ![j] = above[j]][k]
  BY DEF known
<1>2. QED  BY <1>1 DEF known

LEMMA HandedOverStays ==
    ASSUME SameTasks, UNCHANGED <<pool, ended>>, NEW k
    PROVE  HandedOver(k)' <=> HandedOver(k)
  BY DEF SameTasks, HandedOver

\* A running task is known, and TaskRuntime has its ancestors right.
LEMMA RunningIsKnown ==
    ASSUME CollectionAssumption, TypeOK, TasksPlaced, NEW t \in Threads, frames[t] # <<>>
    PROVE  /\ HandedOver(TopFrame(t).task)
           /\ known[TopFrame(t).task] = above[TopFrame(t).task]
           /\ Runtime!Below(TopFrame(t).task) = above[TopFrame(t).task] \cup {TopFrame(t).task}
<1>1. Len(frames[t]) \in DOMAIN frames[t] /\ TopFrame(t) = frames[t][Len(frames[t])]
  BY TopIsAFrame
<1>2. HandedOver(TopFrame(t).task)
  BY <1>1 DEF HandedOver
<1>3. TopFrame(t).task \in Tasks
  BY RunningTask
<1>4. known[TopFrame(t).task] = above[TopFrame(t).task]
  BY <1>2, <1>3 DEF known
<1>5. Runtime!Below(TopFrame(t).task) = known[TopFrame(t).task] \cup {TopFrame(t).task}
  BY DEF Runtime!Below, known
<1>6. QED  BY <1>2, <1>4, <1>5

\* A task that is being spawned is not known yet.
LEMMA KidIsUnused ==
    ASSUME CollectionAssumption, IInv, JInv, NEW t \in Threads, At(t, "captured")
    PROVE  /\ TopFrame(t).kid \in Runtime!Unused
           /\ TopFrame(t).kid \in Tasks /\ TopFrame(t).kid # MainTask
           /\ ~HandedOver(TopFrame(t).kid)
           /\ above[TopFrame(t).kid] = Runtime!Below(TopFrame(t).task)
<1> DEFINE k == TopFrame(t).kid
<1>0. TypeOK /\ HandOver /\ TasksPlaced /\ Descent /\ frames[t] # <<>> /\ Launching(t)
  BY DEF IInv, JInv, At, Launching
<1>1. k \in DOMAIN temp_cur_map \ pool
  BY <1>0 DEF HandOver
<1>2. k \in 1 .. task_id_ctr /\ k \in Tasks
  BY <1>0, <1>1 DEF HandOver, TypeOK
<1>3. k # MainTask
  <2>1. 0 \notin 1 .. task_id_ctr
    OBVIOUS
  <2>2. QED  BY <1>2, <2>1 DEF MainTask
<1>4. k \notin ended /\ \A u \in Threads : \A i \in DOMAIN frames[u] : frames[u][i].task # k
  BY <1>0, <1>1 DEF TasksPlaced, EndedApart, FramesCurrent
<1>5. ~HandedOver(k)
  BY <1>1, <1>4 DEF HandedOver
<1>6. \A u \in Threads : \A i \in DOMAIN levels[u] : levels[u][i].task # k
  BY <1>4 DEF levels, Level
<1>7. k \in Runtime!Unused
  BY <1>1, <1>2, <1>3, <1>4, <1>6 DEF Runtime!Unused, levels
<1>8. above[k] = Runtime!Below(TopFrame(t).task)
  BY <1>0, RunningIsKnown DEF Descent
<1>9. QED  BY <1>2, <1>3, <1>5, <1>7, <1>8


(******************************************************************************)
(* Each action is a step of TaskRuntime, or none.                             *)
(******************************************************************************)

LEMMA RuntimeStutters ==
    ASSUME UNCHANGED <<pool, ended>>, levels' = levels, known' = known
    PROVE  UNCHANGED Runtime!vars
  BY DEF Runtime!vars, levels, known

LEMMA RunsOrWaits ==
    ASSUME TypeOK, NEW t \in Threads, frames[t] # <<>>
    PROVE  /\ levels[t] # <<>>
           /\ Runtime!Last(levels[t]).task = TopFrame(t).task
           /\ Runtime!Last(levels[t]) = Level(TopFrame(t))
           /\ TopFrame(t).at # "wait" => Runtime!Executes(t)
           /\ TopFrame(t).at = "wait" => Runtime!Last(levels[t]).blocked
<1>1. levels[t] # <<>> /\ Runtime!Last(levels[t]) = Level(TopFrame(t))
  BY LevelsTyped
<1>2. TopFrame(t) \in Frame
  BY TopFrameTyped
<1>3. /\ Level(TopFrame(t)).task = TopFrame(t).task
      /\ (Level(TopFrame(t)).blocked <=> TopFrame(t).at = "wait")
  BY <1>2, LevelTyped
<1>4. TopFrame(t).at # "wait" => levels[t] # <<>> /\ ~Runtime!Last(levels[t]).blocked
  BY <1>1, <1>3
<1>5. TopFrame(t).at # "wait" => Runtime!Executes(t)
  BY <1>4 DEF Runtime!Executes, levels
<1>6. QED  BY <1>1, <1>3, <1>5

LEMMA SpawnEntryRefines ==
    ASSUME CollectionAssumption, IInv, IInv', JInv, JInv', NEW t \in Threads,
           NEW op \in {"spawn", "root", "both"}, SpawnEntry(t, op)
    PROVE  UNCHANGED Runtime!vars
<1> DEFINE f == TopFrame(t)
           k == task_id_ctr + 1
           g == [f EXCEPT !.at = "capture", !.op = op, !.kid = k]
<1>0. TypeOK /\ TypeOK' /\ TasksPlaced /\ HandOver
  BY DEF IInv, JInv
<1>1. /\ frames[t] # <<>> /\ f.at = "run" /\ task_id_ctr' = k /\ SetTop(t, g)
      /\ above' = [above EXCEPT ![k] = above[f.task] \cup {f.task}]
      /\ UNCHANGED <<pool, ended>>
  BY DEF SpawnEntry, At
<1>2. f \in Frame /\ k \in Tasks
  BY <1>0, <1>1, TopFrameTyped DEF TypeOK
<1>3. g \in Frame /\ g.at = "capture" /\ g.task = f.task
  BY <1>2 DEF Frame
<1>4. Level(g) = Level(f)
  BY <1>1, <1>3 DEF Level
<1> HIDE DEF g
<1>5. levels' = levels
  BY <1>0, <1>1, <1>3, <1>4, LevelsStay
<1>6. SameTasks
  BY <1>0, <1>1, <1>3, TopSetKeepsTasks
<1>7. ~HandedOver(k)
  <2>1. task_id_ctr \in Nat /\ k \notin 0 .. task_id_ctr /\ k \notin 1 .. task_id_ctr
    BY <1>0 DEF TypeOK, Tasks
  <2>2. QED  BY <1>0, <2>1 DEF HandedOver, HandOver, TasksPlaced, EndedApart, FramesCurrent
<1>8. \A j \in Tasks : HandedOver(j)' <=> HandedOver(j)
  BY <1>1, <1>6, HandedOverStays
<1>9. known' = known
  <2>1. \A j \in Tasks : HandedOver(j) => above'[j] = above[j]
    BY <1>0, <1>1, <1>7 DEF TypeOK
  <2>2. QED  BY <1>8, <2>1, KnownStays
<1>10. QED  BY <1>1, <1>5, <1>9, RuntimeStutters

\* A step in which no task moves and none is registered.
LEMMA KnownInPlace ==
    ASSUME TypeOK, NEW t \in Threads, frames[t] # <<>>, NEW g \in Frame, g.task = TopFrame(t).task,
           SetTop(t, g), UNCHANGED <<pool, ended, above>>
    PROVE  known' = known
<1>1. SameTasks
  BY TopSetKeepsTasks
<1>2. \A j \in Tasks : HandedOver(j)' <=> HandedOver(j)
  BY <1>1, HandedOverStays
<1>3. QED  BY <1>2, KnownStays

LEMMA SpawnCaptureRefines ==
    ASSUME CollectionAssumption, IInv, IInv', NEW t \in Threads, SpawnCapture(t)
    PROVE  UNCHANGED Runtime!vars
<1> DEFINE f == TopFrame(t)
           young == IF f.op # "root" THEN "spawned"
                    ELSE IF f.young = "none" THEN "none" ELSE "rooted"
           g == [f EXCEPT !.at = "captured", !.young = young]
<1>0. TypeOK /\ TypeOK'
  BY DEF IInv
<1>1. frames[t] # <<>> /\ f.at = "capture" /\ SetTop(t, g) /\ UNCHANGED <<pool, ended, above>>
  BY DEF SpawnCapture, SpawnCaptureAt, At
<1>2. f \in Frame
  BY <1>0, <1>1, TopFrameTyped
<1>3. g \in Frame /\ g.at = "captured" /\ g.task = f.task
  BY <1>2 DEF Frame
<1>4. Level(g) = Level(f)
  BY <1>1, <1>3 DEF Level
<1> HIDE DEF g
<1>5. levels' = levels
  BY <1>0, <1>1, <1>3, <1>4, LevelsStay
<1>6. known' = known
  BY <1>0, <1>1, <1>3, KnownInPlace
<1>7. QED  BY <1>1, <1>5, <1>6, RuntimeStutters

LEMMA SpawnExitRefines ==
    ASSUME CollectionAssumption, IInv, IInv', JInv, NEW t \in Threads, SpawnExit(t)
    PROVE  \E K \in SUBSET Runtime!Unused : Runtime!Spawn(t, K)
<1> DEFINE f == TopFrame(t)
           g == [f EXCEPT !.at = "run", !.op = "none", !.kid = f.task]
<1>0. TypeOK /\ TypeOK' /\ TasksPlaced
  BY DEF IInv, JInv
<1>1. /\ frames[t] # <<>> /\ At(t, "captured") /\ f.at = "captured" /\ SetTop(t, g)
      /\ pool' = pool \cup {f.kid} /\ UNCHANGED <<ended, above>>
  BY DEF SpawnExit, At, program
<1>2. f \in Frame
  BY <1>0, <1>1, TopFrameTyped
<1>3. g \in Frame /\ g.at = "run" /\ g.task = f.task
  BY <1>2 DEF Frame
<1>4. Level(g) = Level(f)
  BY <1>1, <1>3 DEF Level
<1> HIDE DEF g
<1>5. levels' = levels
  BY <1>0, <1>1, <1>3, <1>4, LevelsStay
<1>6. /\ f.kid \in Runtime!Unused /\ f.kid \in Tasks
      /\ above[f.kid] = Runtime!Below(f.task)
  BY <1>1, KidIsUnused
<1>7. SameTasks
  BY <1>0, <1>1, <1>3, TopSetKeepsTasks
<1>8. \A k \in Tasks : HandedOver(k)' <=> HandedOver(k) \/ k = f.kid
  BY <1>1, <1>7 DEF SameTasks, HandedOver
<1>9. known' = [known EXCEPT ![f.kid] = above[f.kid]]
  BY <1>1, <1>6, <1>8, KnownGrows
<1>10. known' = [k \in Tasks |-> IF k \in {f.kid} THEN Runtime!Below(Runtime!Last(levels[t]).task)
                                  ELSE known[k]]
  <2>1. Runtime!Last(levels[t]).task = f.task
    BY <1>0, <1>1, RunsOrWaits
  <2>2. QED  BY <1>6, <1>9, <2>1 DEF known
<1>11. Runtime!Executes(t)
  BY <1>0, <1>1, RunsOrWaits
<1>12. PICK K \in SUBSET Runtime!Unused : K = {f.kid}
  BY <1>6
<1>13. Runtime!Spawn(t, K)
  BY <1>1, <1>5, <1>10, <1>11, <1>12 DEF Runtime!Spawn, levels, known
<1>14. QED  BY <1>13

LEMMA WaitEntryRefines ==
    ASSUME CollectionAssumption, IInv, IInv', NEW t \in Threads, WaitEntry(t)
    PROVE  Runtime!Wait(t)
<1> DEFINE f == TopFrame(t)
           g == [f EXCEPT !.at = "wait", !.op = "wait"]
<1>0. TypeOK /\ TypeOK'
  BY DEF IInv
<1>1. /\ frames[t] # <<>> /\ f.at = "run" /\ SetTop(t, g) /\ UNCHANGED <<pool, ended, above>>
  BY DEF WaitEntry, At
<1>2. f \in Frame
  BY <1>0, <1>1, TopFrameTyped
<1>3. g \in Frame /\ g.at = "wait" /\ g.op = "wait" /\ g.task = f.task
  BY <1>2 DEF Frame
<1> HIDE DEF g
<1>4. Level(g) = Runtime!Level(f.task, TRUE, f.task)
  BY <1>3 DEF Level, Runtime!Level
<1>5. levels' = [levels EXCEPT ![t] = Runtime!WithTop(levels[t], Level(g))]
  BY <1>0, <1>1, <1>3, LevelsAfterSet
<1>6. known' = known
  BY <1>0, <1>1, <1>3, KnownInPlace
<1>7. Runtime!Executes(t) /\ Runtime!Last(levels[t]).task = f.task
  BY <1>0, <1>1, RunsOrWaits
<1>8. levels' = [levels EXCEPT ![t] = Runtime!WithTop(@, Runtime!Level(f.task, TRUE, f.task))]
  BY <1>4, <1>5
<1>9. QED  BY <1>1, <1>6, <1>7, <1>8 DEF Runtime!Wait, levels, known

LEMMA KnownHasId ==
    ASSUME IInv, JInv, NEW k, HandedOver(k)
    PROVE  k \in 0 .. task_id_ctr
<1>1. 1 .. task_id_ctr \subseteq 0 .. task_id_ctr
  OBVIOUS
<1>2. pool \subseteq 1 .. task_id_ctr /\ ended \subseteq 1 .. task_id_ctr
  BY DEF IInv, HandOver, JInv, TasksPlaced, EndedApart
<1>3. \A t \in Threads : \A i \in DOMAIN frames[t] : frames[t][i].task \in 0 .. task_id_ctr
  BY DEF JInv, TasksPlaced, FramesCurrent
<1>4. QED  BY <1>1, <1>2, <1>3 DEF HandedOver

LEMMA JoinRefines ==
    ASSUME CollectionAssumption, IInv, IInv', JInv, NEW t \in Threads, Join(t)
    PROVE  Runtime!Join(t)
<1> DEFINE f == TopFrame(t)
           young == IF f.op = "root" THEN f.young ELSE "none"
           g == [f EXCEPT !.at = "run", !.op = "none", !.kid = f.task, !.young = young]
<1>0. TypeOK /\ TypeOK' /\ TasksPlaced /\ Descent /\ HandOver
  BY DEF IInv, JInv
<1>1. /\ frames[t] # <<>> /\ f.at = "wait" /\ Awaited(t) \subseteq ended
      /\ UNCHANGED <<pool, ended, above>>
  BY DEF Join, At
<1>2. SetTop(t, g)
  BY DEF Join
<1>3. f \in Frame
  BY <1>0, <1>1, TopFrameTyped
<1>4. g \in Frame /\ g.at = "run" /\ g.task = f.task
  BY <1>3 DEF Frame
<1> HIDE DEF g
<1>5. Level(g) = Runtime!Running(f.task)
  BY <1>4 DEF Level, Runtime!Running, Runtime!Level
<1>6. levels' = [levels EXCEPT ![t] = Runtime!WithTop(levels[t], Level(g))]
  BY <1>0, <1>1, <1>2, <1>4, LevelsAfterSet
<1>7. known' = known
  BY <1>0, <1>1, <1>2, <1>4, KnownInPlace
<1>8. /\ levels[t] # <<>> /\ Runtime!Last(levels[t]).blocked
      /\ Runtime!Last(levels[t]) = Level(f) /\ Runtime!Last(levels[t]).task = f.task
  BY <1>0, <1>1, RunsOrWaits
<1>9. ASSUME NEW k \in Tasks \ {f.task}, Level(f).scope \in known[k] \cup {k}
      PROVE  k \in ended
  <2>1. CASE f.op = "root"
    <3>1. Level(f).scope = f.kid
      BY <1>1, <2>1 DEF Level
    <3>2. CASE f.kid = k
      BY <1>1, <2>1, <3>2 DEF Awaited
    <3>3. CASE f.kid \in known[k]
      <4>1. HandedOver(k) /\ f.kid \in above[k]
        BY <3>3 DEF known
      <4>2. k \in 1 .. task_id_ctr
        <5>1. k \in 0 .. task_id_ctr
          BY <4>1, KnownHasId
        <5>2. k # MainTask
          BY <1>0, <4>1 DEF Descent
        <5>3. QED  BY <5>1, <5>2 DEF MainTask
      <4>3. QED  BY <1>1, <2>1, <4>1, <4>2 DEF Awaited, Descendants
    <3>4. QED  BY <1>9, <3>1, <3>2, <3>3
  <2>2. CASE f.op # "root"
    <3>1. Level(f).scope = f.task
      BY <2>2 DEF Level
    <3>2. f.task \in known[k]
      BY <1>9, <3>1
    <3>3. HandedOver(k) /\ f.task \in above[k]
      BY <3>2 DEF known
    <3>4. k \in 1 .. task_id_ctr
      <4>1. k \in 0 .. task_id_ctr
        BY <3>3, KnownHasId
      <4>2. k # MainTask
        BY <1>0, <3>3 DEF Descent
      <4>3. QED  BY <4>1, <4>2 DEF MainTask
    <3>5. QED  BY <1>1, <2>2, <3>3, <3>4 DEF Awaited, Descendants
  <2>3. QED  BY <2>1, <2>2
<1>10. Runtime!Awaited(Runtime!Last(levels[t])) \subseteq ended
  <2>1. \A x : Runtime!Awaited(x) = {k \in Tasks \ {x.task} : x.scope \in known[k] \cup {k}}
    BY DEF Runtime!Awaited, known
  <2>2. QED  BY <1>8, <1>9, <2>1
<1>11. levels' = [levels EXCEPT ![t] = Runtime!WithTop(@, Runtime!Running(Runtime!Last(@).task))]
  BY <1>5, <1>6, <1>8
<1>12. QED  BY <1>1, <1>7, <1>8, <1>10, <1>11 DEF Runtime!Join, levels, known


\* What is on a frame after a task has begun above the frames s.
LEMMA OnFrameAfterPush ==
    ASSUME TypeOK, TypeOK', NEW t \in Threads, NEW k \in Tasks, NEW s \in Seq(Frame),
           frames' = [frames EXCEPT ![t] = Append(s, NewFrame(k, Len(cur_dpst_index[t])))],
           Len(s) = Len(frames[t]), \A i \in 1 .. Len(s) : s[i].task = frames[t][i].task
    PROVE  \A j : OnFrame(j)' <=> OnFrame(j) \/ j = k
<1>1. /\ frames' \in [Threads -> Seq(Frame)]
      /\ \A u \in Threads \ {t} : frames'[u] = frames[u]
      /\ TopFrame(t)' = NewFrame(k, Len(cur_dpst_index[t]))
      /\ Len(frames'[t]) = Len(s) + 1
      /\ \A i \in 1 .. Len(s) : frames'[t][i] = s[i]
  BY FrameBegins, ZenonT(60)
<1>2. /\ Len(s) \in Nat /\ DOMAIN frames[t] = 1 .. Len(s) /\ DOMAIN frames'[t] = 1 .. Len(s) + 1
      /\ \A i \in 1 .. Len(s) + 1 : i = Len(s) + 1 \/ i \in 1 .. Len(s)
      /\ \A i \in 1 .. Len(s) : i \in 1 .. Len(s) + 1
      /\ Len(s) + 1 \in 1 .. Len(s) + 1
  <2>1. frames[t] \in Seq(Frame) /\ frames'[t] \in Seq(Frame) /\ Len(s) \in Nat
    BY DEF TypeOK
  <2>2. DOMAIN frames[t] = 1 .. Len(s) /\ DOMAIN frames'[t] = 1 .. Len(s) + 1
    BY <1>1, <2>1
  <2>3. QED  BY <2>1, <2>2
<1>3. frames'[t][Len(s) + 1].task = k
  BY <1>1 DEF TopFrame, NewFrame
<1>4. \A i \in 1 .. Len(s) : frames'[t][i].task = frames[t][i].task
  BY <1>1
<1>5. ASSUME NEW j, OnFrame(j)'
      PROVE  OnFrame(j) \/ j = k
  <2>1. PICK u \in Threads : \E i \in DOMAIN frames'[u] : frames'[u][i].task = j
    BY <1>5 DEF OnFrame
  <2>2. PICK i \in DOMAIN frames'[u] : frames'[u][i].task = j
    BY <2>1
  <2>3. CASE u = t
    BY <1>2, <1>3, <1>4, <2>2, <2>3 DEF OnFrame
  <2>4. CASE u # t
    BY <1>1, <2>2, <2>4 DEF OnFrame
  <2>5. QED  BY <2>3, <2>4
<1>6. OnFrame(k)'
  BY <1>2, <1>3 DEF OnFrame
<1>7. ASSUME NEW j, OnFrame(j)
      PROVE  OnFrame(j)'
  <2>1. PICK u \in Threads : \E i \in DOMAIN frames[u] : frames[u][i].task = j
    BY <1>7 DEF OnFrame
  <2>2. PICK i \in DOMAIN frames[u] : frames[u][i].task = j
    BY <2>1
  <2>3. i \in DOMAIN frames'[u] /\ frames'[u][i].task = j
    <3>1. CASE u = t
      BY <1>2, <1>4, <2>2, <3>1
    <3>2. CASE u # t
      BY <1>1, <2>2, <3>2
    <3>3. QED  BY <3>1, <3>2
  <2>4. QED  BY <2>3 DEF OnFrame
<1>8. QED  BY <1>5, <1>6, <1>7

LEMMA TakeTaskRefines ==
    ASSUME CollectionAssumption, IInv, IInv', JInv, NEW t \in Threads, NEW k \in Tasks, TakeTask(t, k)
    PROVE  k \in pool /\ Runtime!Take(t, k)
<1>0. TypeOK /\ TypeOK'
  BY DEF IInv
<1>1. /\ k \in pool /\ pool' = pool \ {k}
      /\ frames[t] = <<>> \/ At(t, "wait")
      /\ frames' = [frames EXCEPT ![t] = Append(frames[t], NewFrame(k, Len(cur_dpst_index[t])))]
      /\ UNCHANGED <<ended, above>>
  BY DEF TakeTask, Begin
<1>2. frames[t] \in Seq(Frame) /\ DOMAIN frames[t] = 1 .. Len(frames[t])
  BY <1>0 DEF TypeOK
<1>3. /\ levels[t] \in Seq(Levels) /\ Len(levels[t]) = Len(frames[t])
      /\ \A i \in 1 .. Len(frames[t]) : levels[t][i] = Level(frames[t][i])
      /\ levels[t] # <<>> <=> frames[t] # <<>>
  BY <1>0, <1>2, LevelsTyped
<1>4. levels' = [levels EXCEPT ![t] = Append(levels[t], Runtime!Running(k))]
  <2> DEFINE low == levels[t]
             s == frames[t]
  <2>1. /\ s \in Seq(Frame) /\ low \in Seq(Levels) /\ Len(low) = Len(s)
        /\ \A i \in 1 .. Len(s) : low[i] = Level(s[i])
        /\ frames' = [frames EXCEPT ![t] = Append(s, NewFrame(k, Len(cur_dpst_index[t])))]
    BY <1>1, <1>2, <1>3
  <2> HIDE DEF low, s
  <2>2. levels' = [levels EXCEPT ![t] = Append(low, Runtime!Running(k))]
    BY <1>0, <2>1, LevelsAfterPush
  <2>3. QED  BY <2>2 DEF low
<1>5. \A j \in Tasks : HandedOver(j)' <=> HandedOver(j)
  <2>1. \A j : OnFrame(j)' <=> OnFrame(j) \/ j = k
    BY <1>0, <1>1, <1>2, OnFrameAfterPush
  <2>2. \A j : HandedOver(j) <=> j \in pool \cup ended \/ OnFrame(j)
    BY DEF HandedOver, OnFrame
  <2>3. \A j : HandedOver(j)' <=> j \in pool' \cup ended' \/ OnFrame(j)'
    BY DEF HandedOver, OnFrame
  <2>4. QED  BY <1>1, <2>1, <2>2, <2>3
<1>6. known' = known
  BY <1>1, <1>5, KnownStays
<1>7. levels[t] = <<>> \/ Runtime!Last(levels[t]).blocked
  BY <1>0, <1>1, <1>3, RunsOrWaits DEF At
<1>8. QED  BY <1>1, <1>4, <1>6, <1>7 DEF Runtime!Take, Runtime!Available, levels, known

LEMMA RunChildRefines ==
    ASSUME CollectionAssumption, IInv, IInv', JInv, NEW t \in Threads, RunChild(t)
    PROVE  \E k \in Runtime!Unused : \E scope \in Tasks : Runtime!Call(t, k, scope)
<1> DEFINE f == TopFrame(t)
           g == [f EXCEPT !.at = "wait"]
           s == WithTop(t, g)
           scope == IF f.op = "root" THEN f.kid ELSE f.task
           low == Runtime!WithTop(levels[t], Runtime!Level(f.task, TRUE, scope))
<1>0. TypeOK /\ TypeOK' /\ TasksPlaced
  BY DEF IInv, JInv
<1>1. /\ frames[t] # <<>> /\ f.at = "captured" /\ At(t, "captured")
      /\ frames' = [frames EXCEPT ![t] = Append(s, NewFrame(f.kid, Len(cur_dpst_index[t])))]
      /\ UNCHANGED <<pool, ended, above>>
  BY DEF RunChild, At, Begin
<1>2. /\ f \in Frame /\ frames[t] \in Seq(Frame)
      /\ Len(frames[t]) \in Nat \ {0} /\ DOMAIN frames[t] = 1 .. Len(frames[t])
  BY <1>0, <1>1, TopFrameTyped
<1>3. /\ g \in Frame /\ g.task = f.task /\ g.at = "wait" /\ g.op = f.op /\ g.kid = f.kid
      /\ f.kid \in Tasks /\ f.task \in Tasks
  BY <1>2 DEF Frame
<1> HIDE DEF g
<1>4. /\ s \in Seq(Frame) /\ Len(s) = Len(frames[t])
      /\ s[Len(frames[t])] = g
      /\ \A i \in 1 .. Len(frames[t]) - 1 : s[i] = frames[t][i]
  BY <1>2, <1>3, ExceptSeq DEF WithTop
<1> HIDE DEF s
<1>5. \A i \in 1 .. Len(s) : i = Len(frames[t]) \/ i \in 1 .. Len(frames[t]) - 1
  BY <1>2, <1>4
<1>6. Level(g) = Runtime!Level(f.task, TRUE, scope) /\ scope \in Tasks
  BY <1>3 DEF Level, Runtime!Level
<1> HIDE DEF scope
<1>7. /\ levels[t] \in Seq(Levels) /\ Len(levels[t]) = Len(frames[t]) /\ levels[t] # <<>>
      /\ \A i \in 1 .. Len(frames[t]) : levels[t][i] = Level(frames[t][i])
  BY <1>0, <1>1, <1>2, LevelsTyped
<1>8. /\ low \in Seq(Levels) /\ Len(low) = Len(s)
      /\ \A i \in 1 .. Len(s) : low[i] = Level(s[i])
  <2>1. PICK a, x : a = levels[t] /\ x = Runtime!Level(f.task, TRUE, scope)
    OBVIOUS
  <2>2. a \in Seq(Levels) /\ a # <<>> /\ x \in Levels /\ x = Level(g) /\ Len(a) = Len(frames[t])
        /\ \A i \in 1 .. Len(frames[t]) : a[i] = Level(frames[t][i])
    BY <1>3, <1>6, <1>7, <2>1, LevelTyped
  <2>3. low = Runtime!WithTop(a, x)
    BY <2>1
  <2>4. a \in Seq(Levels) /\ a # <<>> /\ x \in Levels
    BY <2>2
  <2> HIDE DEF low, f
  <2>5. /\ Runtime!WithTop(a, x) \in Seq(Levels) /\ Len(Runtime!WithTop(a, x)) = Len(a)
        /\ Runtime!WithTop(a, x)[Len(a)] = x
        /\ \A i \in 1 .. Len(a) - 1 : Runtime!WithTop(a, x)[i] = a[i]
    BY <2>4, TopReplaced
  <2>6. \A i \in 1 .. Len(frames[t]) - 1 : i \in 1 .. Len(frames[t])
    BY <1>2
  <2>7. QED  BY <1>4, <1>5, <2>2, <2>3, <2>5, <2>6
<1>9. levels' = [levels EXCEPT ![t] = Append(low, Runtime!Running(f.kid))]
  <2> HIDE DEF low
  <2> DEFINE k == f.kid
  <2>1. k \in Tasks /\ frames' = [frames EXCEPT ![t] = Append(s, NewFrame(k, Len(cur_dpst_index[t])))]
    BY <1>1, <1>3
  <2> HIDE DEF k
  <2>2. levels' = [levels EXCEPT ![t] = Append(low, Runtime!Running(k))]
    BY <1>0, <1>4, <1>8, <2>1, LevelsAfterPush
  <2>3. QED  BY <2>2 DEF k
<1>10. /\ f.kid \in Runtime!Unused
       /\ above[f.kid] = Runtime!Below(f.task)
  BY <1>1, KidIsUnused
<1>11. \A j \in Tasks : HandedOver(j)' <=> HandedOver(j) \/ j = f.kid
  <2>1. \A j : OnFrame(j)' <=> OnFrame(j) \/ j = f.kid
    <3>1. \A i \in 1 .. Len(s) : s[i].task = frames[t][i].task
      BY <1>3, <1>4, <1>5 DEF TopFrame
    <3>2. QED  BY <1>0, <1>1, <1>3, <1>4, <3>1, OnFrameAfterPush
  <2>2. \A j : HandedOver(j) <=> j \in pool \cup ended \/ OnFrame(j)
    BY DEF HandedOver, OnFrame
  <2>3. \A j : HandedOver(j)' <=> j \in pool' \cup ended' \/ OnFrame(j)'
    BY DEF HandedOver, OnFrame
  <2>4. QED  BY <1>1, <2>1, <2>2, <2>3
<1>12. known' = [known EXCEPT ![f.kid] = above[f.kid]]
  BY <1>1, <1>3, <1>11, KnownGrows
<1>13. Runtime!Executes(t) /\ Runtime!Last(levels[t]).task = f.task
  BY <1>0, <1>1, RunsOrWaits
<1>14. scope \in {f.kid, f.task}
  BY DEF scope
<1>15. known' = [known EXCEPT ![f.kid] = Runtime!Below(f.task)]
  BY <1>10, <1>12
<1>16. levels' = [levels EXCEPT ![t] =
                    Append(Runtime!WithTop(@, Runtime!Level(f.task, TRUE, scope)), Runtime!Running(f.kid))]
  BY <1>9
<1>17. PICK k, c, sc \in Tasks : k = f.kid /\ c = f.task /\ sc = scope
  BY <1>3, <1>6
<1>18. Runtime!Call(t, k, sc)
  <2>1. /\ sc \in {k, c} /\ UNCHANGED <<pool, ended>>
        /\ known' = [known EXCEPT ![k] = Runtime!Below(c)]
        /\ levels' = [levels EXCEPT ![t] =
                    Append(Runtime!WithTop(@, Runtime!Level(c, TRUE, sc)), Runtime!Running(k))]
        /\ Runtime!Executes(t) /\ Runtime!Last(levels[t]).task = c
    BY <1>1, <1>13, <1>14, <1>15, <1>16, <1>17
  <2>2. QED  BY <2>1 DEF Runtime!Call, levels, known
<1>19. k \in Runtime!Unused
  BY <1>10, <1>17
<1>20. QED  BY <1>18, <1>19

LEMMA ExecEndRefines ==
    ASSUME CollectionAssumption, IInv, IInv', JInv, NEW t \in Threads, ExecEnd(t)
    PROVE  Runtime!End(t)
<1> DEFINE f == TopFrame(t)
<1>0. TypeOK /\ TypeOK' /\ TasksPlaced
  BY DEF IInv, JInv
<1>1. /\ frames[t] # <<>> /\ f.at = "run" /\ f.task # MainTask
      /\ frames' = [frames EXCEPT ![t] = Popped(@)]
      /\ ended' = ended \cup {f.task}
      /\ UNCHANGED <<pool, above>>
  BY DEF ExecEnd, At, StepHappens
<1>2. /\ \A u \in Threads \ {t} : frames'[u] = frames[u]
      /\ Len(frames'[t]) = Len(frames[t]) - 1
      /\ \A i \in 1 .. Len(frames[t]) - 1 : frames'[t][i] = frames[t][i]
  BY <1>0, <1>1, FramePopped
<1>3. /\ Len(frames[t]) \in Nat \ {0} /\ DOMAIN frames[t] = 1 .. Len(frames[t])
      /\ DOMAIN frames'[t] = 1 .. Len(frames[t]) - 1
      /\ Len(frames[t]) \in DOMAIN frames[t] /\ f = frames[t][Len(frames[t])]
      /\ \A i \in 1 .. Len(frames[t]) - 1 : i \in DOMAIN frames[t]
      /\ \A i \in DOMAIN frames[t] : i = Len(frames[t]) \/ i \in 1 .. Len(frames[t]) - 1
  <2>1. Len(frames[t]) \in Nat \ {0} /\ DOMAIN frames[t] = 1 .. Len(frames[t])
    BY <1>0, <1>1, TopFrameTyped
  <2>2. DOMAIN frames'[t] = 1 .. Len(frames'[t])
    BY <1>0 DEF TypeOK
  <2>3. QED  BY <1>2, <2>1, <2>2 DEF TopFrame
<1>4. levels' = [levels EXCEPT ![t] = Runtime!Front(@)]
  BY <1>0, <1>1, LevelsAfterPop
<1>5. \A j \in Tasks : HandedOver(j)' <=> HandedOver(j)
  <2>1. ASSUME NEW j, OnFrame(j)'
        PROVE  OnFrame(j)
    <3>1. \A u \in Threads : \A i \in DOMAIN frames'[u] :
             i \in DOMAIN frames[u] /\ frames'[u][i] = frames[u][i]
      BY <1>2, <1>3
    <3>2. QED  BY <2>1, <3>1 DEF OnFrame
  <2>2. ASSUME NEW j, OnFrame(j), j # f.task
        PROVE  OnFrame(j)'
    <3>1. \A u \in Threads : \A i \in DOMAIN frames[u] :
             \/ u = t /\ frames[u][i].task = f.task
             \/ i \in DOMAIN frames'[u] /\ frames'[u][i] = frames[u][i]
      BY <1>2, <1>3
    <3>2. QED  BY <2>2, <3>1 DEF OnFrame
  <2>3. OnFrame(f.task)
    BY <1>3 DEF OnFrame
  <2>4. \A j : HandedOver(j) <=> j \in pool \cup ended \/ OnFrame(j)
    BY DEF HandedOver, OnFrame
  <2>5. \A j : HandedOver(j)' <=> j \in pool' \cup ended' \/ OnFrame(j)'
    BY DEF HandedOver, OnFrame
  <2>6. QED  BY <1>1, <2>1, <2>2, <2>3, <2>4, <2>5
<1>6. known' = known
  BY <1>1, <1>5, KnownStays
<1>7. Runtime!Executes(t) /\ Runtime!Last(levels[t]).task = f.task
  BY <1>0, <1>1, RunsOrWaits
<1>8. QED  BY <1>1, <1>4, <1>6, <1>7 DEF Runtime!End, levels, known

LEMMA NextRefines ==
    ASSUME CollectionAssumption, IInv, IInv', JInv, JInv', [Next]_vars
    PROVE  Runtime!Next \/ UNCHANGED Runtime!vars
<1>1. ASSUME NEW t \in Threads, ThreadStep(t)
      PROVE  Runtime!Next \/ UNCHANGED Runtime!vars
  <2>1. ASSUME NEW op \in {"spawn", "root", "both"}, SpawnEntry(t, op)
        PROVE  UNCHANGED Runtime!vars
    BY <2>1, SpawnEntryRefines
  <2>2. CASE SpawnCapture(t)
    BY <2>2, SpawnCaptureRefines
  <2>3. CASE SpawnExit(t)
    BY <2>3, SpawnExitRefines DEF Runtime!Next
  <2>4. CASE WaitEntry(t)
    BY <2>4, WaitEntryRefines DEF Runtime!Next
  <2>5. CASE Join(t)
    BY <2>5, JoinRefines DEF Runtime!Next
  <2>6. ASSUME NEW k \in Tasks, TakeTask(t, k)
        PROVE  Runtime!Next
    BY <2>6, TakeTaskRefines DEF Runtime!Next
  <2>7. CASE RunChild(t)
    BY <2>7, RunChildRefines DEF Runtime!Next
  <2>8. CASE ExecEnd(t)
    BY <2>8, ExecEndRefines DEF Runtime!Next
  <2>9. QED  BY <1>1, <2>1, <2>2, <2>3, <2>4, <2>5, <2>6, <2>7, <2>8 DEF ThreadStep
<1>2. CASE Fini \/ UNCHANGED vars
  <2>1. UNCHANGED <<pool, ended, frames, above>>
    BY <1>2 DEF Fini, vars, scheduler, program
  <2>2. QED  BY <2>1 DEF Runtime!vars, HandedOver, Level
<1>3. QED  BY <1>1, <1>2 DEF Next, Terminated

\* The hooks of the collection phase are called in an order in which TBB may
\* execute the program: each task begins once, on top of what its thread waits
\* for, and a join is captured when the tasks it awaits have ended.
THEOREM Refinement == Spec => ImplementsRuntime
<1>1. Init => Runtime!Init
  <2> SUFFICES ASSUME Init
               PROVE  Runtime!Init
    OBVIOUS
  <2>1. \A t \in Threads : levels[t] = IF t = Main THEN <<Runtime!Running(MainTask)>> ELSE <<>>
    <3> SUFFICES ASSUME NEW t \in Threads
                 PROVE  levels[t] = IF t = Main THEN <<Runtime!Running(MainTask)>> ELSE <<>>
      OBVIOUS
    <3>1. frames[t] = IF t = Main THEN <<NewFrame(MainTask, 0)>> ELSE <<>>
      BY DEF Init
    <3>2. levels[t] = [i \in DOMAIN frames[t] |-> Level(frames[t][i])]
      BY DEF levels
    <3>3. Level(NewFrame(MainTask, 0)) = Runtime!Running(MainTask)
      BY DEF Level, NewFrame, Runtime!Running, Runtime!Level
    <3>4. \A x : DOMAIN <<x>> = 1 .. 1 /\ <<x>>[1] = x /\ \A i \in 1 .. 1 : i = 1
      OBVIOUS
    <3>5. CASE t = Main
      <4> DEFINE m == NewFrame(MainTask, 0)
                 r == Runtime!Running(MainTask)
      <4>1. levels[t] = [i \in DOMAIN <<m>> |-> Level(<<m>>[i])] /\ Level(m) = r
        BY <3>1, <3>2, <3>3, <3>5
      <4> HIDE DEF m, r
      <4>2. levels[t] = [i \in 1 .. 1 |-> r]
        BY <4>1, <3>4
      <4>3. <<r>> = [i \in 1 .. 1 |-> r]
        OBVIOUS
      <4>4. levels[t] = <<r>>
        BY <4>2, <4>3
      <4>5. QED  BY <3>5, <4>4 DEF r
    <3>6. CASE t # Main
      <4>1. frames[t] = <<>>
        BY <3>1, <3>6
      <4>2. levels[t] = <<>>
        BY <3>2, <4>1
      <4>3. QED  BY <3>6, <4>2
    <3>7. QED  BY <3>5, <3>6
  <2>2. levels = [t \in Threads |-> IF t = Main THEN <<Runtime!Running(MainTask)>> ELSE <<>>]
    BY <2>1 DEF levels
  <2>3. known = [k \in Tasks |-> {}]
    BY DEF Init, known
  <2>4. pool = {} /\ ended = {}
    BY DEF Init
  <2>5. QED  BY <2>2, <2>3, <2>4 DEF Runtime!Init, levels, known
<1>2. IInv /\ IInv' /\ JInv /\ JInv' /\ [Next]_vars => [Runtime!Next]_(Runtime!vars)
  BY NextRefines, CollectionAssumption
<1>3. QED  BY <1>1, <1>2, Invariance, Placement, PTL DEF Spec, ImplementsRuntime, Runtime!Spec

================================================================================
