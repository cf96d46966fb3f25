------------------------------ MODULE AFTaskGraph ------------------------------
(******************************************************************************)
(* The dynamic program structure tree (DPST) as the collection phase builds   *)
(* it: class AFTaskGraph, with the AFTask nodes it allocates, the stack of    *)
(* nodes it keeps per thread and the map that carries a node from the         *)
(* spawning thread to the executing one.                                      *)
(*                                                                            *)
(* Every Capture operator below is one call of the method of that name.  The  *)
(* methods but CaptureReturn hold the graph lock from their first statement   *)
(* to their last, and CaptureReturn touches its own thread's stack only, so a *)
(* call is one step.  The operators state the next value of the four graph    *)
(* variables and of report; Collection decides when a thread makes the call.  *)
(*                                                                            *)
(* `site` is the return address of the spawn, 0 when the caller gives no file *)
(* or line; CaptureSetTaskId decides that and passes the call on.             *)
(*                                                                            *)
(* An AFTask pointer is the node_id of its node: create_node never returns    *)
(* the same id twice.  `delete` removes the id from DOMAIN nodes.             *)
(* A call whose stack accesses would be undefined (top() of an empty stack)   *)
(* is not enabled; StackMatchesTasks of Collection shows when it cannot arise. *)
(******************************************************************************)
EXTENDS NodeTypes, Sequences, FiniteSets

CONSTANTS
    Main,      \* the thread that runs main, the first to call get_cur_tid
    Workers    \* the TBB worker threads

ASSUME MainAssumption == Main \notin Workers

Threads == {Main} \cup Workers

VARIABLES
    nodes,                \* the allocated AFTask objects, by node_id
    cur_dpst_index,       \* per thread, its stack of AFTask pointers
    temp_cur_map,         \* task id -> node of a task not yet executing
    last_allocated_node,  \* the next id to hand out
    report                \* per thread, the entries it has passed to Task_Logger

graph == <<nodes, cur_dpst_index, temp_cur_map, last_allocated_node>>

AFTask == [ young_ns_child : {NO_TYPE, ASYNC, FINISH},
            sync_finish_flag : BOOLEAN,
            child_id : Nat ]

LogEntry == [ node_id : Nat, step_parent : Nat, node_type : {ASYNC, FINISH, STEP},
              ret_addr : Nat ]

(******************************************************************************)
(* Helpers                                                                    *)
(******************************************************************************)

\* std::unordered_map::insert: an entry that is already there stays as it is.
Insert(map, key, value) ==
    [x \in DOMAIN map \cup {key} |-> IF x \in DOMAIN map THEN map[x] ELSE value]

Erase(map, key) == [x \in DOMAIN map \ {key} |-> map[x]]

Top(t) == cur_dpst_index[t][Len(cur_dpst_index[t])]

Popped(stack) == SubSeq(stack, 1, Len(stack) - 1)

Entry(id, parent, type, site) ==
    [node_id |-> id, step_parent |-> parent, node_type |-> type, ret_addr |-> site]

\* Task_Logger::log, seen from its callers: the entry joins the thread's file.
Log(t, entries) == report' = [report EXCEPT ![t] = @ \o entries]

getCurStepParent(t) == Top(t)
getCurStepId(t)     == nodes[Top(t)].child_id

(******************************************************************************)
(* The constructor: the head FINISH node is 1, on the stack of thread 0; its  *)
(* first step is 2.                                                           *)
(******************************************************************************)
GraphInit ==
    /\ nodes = [n \in {1} |->
                  [young_ns_child |-> NO_TYPE, sync_finish_flag |-> FALSE, child_id |-> 2]]
    /\ cur_dpst_index = [t \in Threads |-> IF t = Main THEN <<1>> ELSE <<>>]
    /\ temp_cur_map = [k \in {} |-> 0]
    /\ last_allocated_node = 3
    /\ report = [t \in Threads |->
                   IF t = Main THEN <<Entry(1, 0, FINISH, 0)>> ELSE <<>>]

(******************************************************************************)
(* The spawning side                                                          *)
(*                                                                            *)
(* Operators with an underscore in their name are mutants: the definition     *)
(* they are named after with one slip, for which TLC must find a property     *)
(* violated.  The specification does not use them.                            *)
(******************************************************************************)

\* The node waits in temp_cur_map until its task begins.
Register_Dropped(k, n) == UNCHANGED temp_cur_map
Register(k, n) == temp_cur_map' = Insert(temp_cur_map, k, n)

\* A task spawned while the implicit FINISH of its parent is on top: its ASYNC
\* node goes under that FINISH.  `step` is the id given to the step with which
\* the parent continues, `last` the counter after the call.
AddAsync(t, k, site, step, last) ==
    LET cur == Top(t)
        new == last_allocated_node
    IN  /\ nodes' = Insert([nodes EXCEPT ![cur].child_id = step],
                           new, [young_ns_child |-> NO_TYPE,
                                 sync_finish_flag |-> FALSE,
                                 child_id |-> new + 1])
        /\ last_allocated_node' = last
        /\ Register(k, new)
        /\ Log(t, <<Entry(new, cur, ASYNC, site)>>)
        /\ UNCHANGED cur_dpst_index

\* Any other spawn opens an implicit FINISH under the top node, pushes it, and
\* puts the ASYNC node under it.
AddFinishAndAsync(t, k, site, step, last) ==
    LET cur == Top(t)
        fin == last_allocated_node
        new == last_allocated_node + 1
    IN  /\ nodes' = Insert(Insert([nodes EXCEPT ![cur].young_ns_child = FINISH],
                                  fin, [young_ns_child |-> ASYNC,
                                        sync_finish_flag |-> TRUE,
                                        child_id |-> step]),
                           new, [young_ns_child |-> NO_TYPE,
                                 sync_finish_flag |-> FALSE,
                                 child_id |-> new + 1])
        /\ last_allocated_node' = last
        /\ Register(k, new)
        /\ cur_dpst_index' = [cur_dpst_index EXCEPT ![t] = Append(@, fin)]
        /\ Log(t, <<Entry(fin, cur, FINISH, 0), Entry(new, fin, ASYNC, site)>>)

CaptureSpawnOnly_ShortByOne(t, k, site) ==
    /\ cur_dpst_index[t] # <<>>
    /\ \/ /\ nodes[Top(t)].young_ns_child = ASYNC
          /\ AddAsync(t, k, site, last_allocated_node + 2, last_allocated_node + 2)
       \/ /\ nodes[Top(t)].young_ns_child # ASYNC
          /\ AddFinishAndAsync(t, k, site, last_allocated_node + 3, last_allocated_node + 4)

CaptureSpawnOnly(t, k, site) ==
    /\ cur_dpst_index[t] # <<>>
    /\ \/ /\ nodes[Top(t)].young_ns_child = ASYNC
          /\ AddAsync(t, k, site, last_allocated_node + 2, last_allocated_node + 3)
       \/ /\ nodes[Top(t)].young_ns_child # ASYNC
          /\ AddFinishAndAsync(t, k, site, last_allocated_node + 3, last_allocated_node + 4)

CaptureSpawnAndWaitForAll_AlwaysFinish(t, k, site) ==
    /\ cur_dpst_index[t] # <<>>
    /\ AddFinishAndAsync(t, k, site, 0, last_allocated_node + 3)

CaptureSpawnAndWaitForAll_NewStep(t, k, site) == CaptureSpawnOnly(t, k, site)

\* As CaptureSpawnOnly, but the parent waits at once: it gets no next step, so
\* the FINISH keeps the child_id it had, 0 in a new one.
CaptureSpawnAndWaitForAll(t, k, site) ==
    /\ cur_dpst_index[t] # <<>>
    /\ \/ /\ nodes[Top(t)].young_ns_child = ASYNC
          /\ AddAsync(t, k, site, nodes[Top(t)].child_id, last_allocated_node + 2)
       \/ /\ nodes[Top(t)].young_ns_child # ASYNC
          /\ AddFinishAndAsync(t, k, site, 0, last_allocated_node + 3)

CaptureSpawnAndWait_LostUpdate(t, k, site) ==
    LET cur == Top(t)
        fin == last_allocated_node
    IN  /\ cur_dpst_index[t] # <<>>
        /\ nodes' = Insert([nodes EXCEPT ![cur].young_ns_child = FINISH],
                           fin, [young_ns_child |-> NO_TYPE,
                                 sync_finish_flag |-> FALSE,
                                 child_id |-> fin + 1])
        /\ Register(k, fin)
        /\ Log(t, <<Entry(fin, cur, FINISH, site)>>)
        /\ UNCHANGED <<cur_dpst_index, last_allocated_node>>

\* spawn_root_and_wait: the root task is a FINISH node of its own, not pushed.
CaptureSpawnAndWait(t, k, site) ==
    LET cur == Top(t)
        fin == last_allocated_node
    IN  /\ cur_dpst_index[t] # <<>>
        /\ nodes' = Insert([nodes EXCEPT ![cur].young_ns_child = FINISH],
                           fin, [young_ns_child |-> NO_TYPE,
                                 sync_finish_flag |-> FALSE,
                                 child_id |-> fin + 1])
        /\ last_allocated_node' = last_allocated_node + 2
        /\ Register(k, fin)
        /\ Log(t, <<Entry(fin, cur, FINISH, site)>>)
        /\ UNCHANGED cur_dpst_index

(******************************************************************************)
(* The executing side                                                         *)
(******************************************************************************)

CaptureExecute_ClearsMap(t, k) ==
    /\ k \in DOMAIN temp_cur_map
    /\ temp_cur_map' = [j \in {} |-> 0]
    /\ cur_dpst_index' = [cur_dpst_index EXCEPT ![t] = Append(@, temp_cur_map[k])]
    /\ UNCHANGED <<nodes, last_allocated_node>>

\* temp_cur_map.at(taskId) throws when the entry is not there.
CaptureExecute(t, k) ==
    /\ k \in DOMAIN temp_cur_map
    /\ temp_cur_map' = Erase(temp_cur_map, k)
    /\ cur_dpst_index' = [cur_dpst_index EXCEPT ![t] = Append(@, temp_cur_map[k])]
    /\ UNCHANGED <<nodes, last_allocated_node>>

CaptureReturn_LeaksNode(t) ==
    LET stack == cur_dpst_index[t]
    IN  /\ IF nodes[Top(t)].sync_finish_flag
           THEN cur_dpst_index' = [cur_dpst_index EXCEPT ![t] = Popped(Popped(@))]
           ELSE cur_dpst_index' = [cur_dpst_index EXCEPT ![t] = Popped(@)]
        /\ nodes' = Erase(nodes, Top(t))
        /\ UNCHANGED <<temp_cur_map, last_allocated_node>>

\* The end of a task: its node goes, and before it the implicit FINISH of tasks
\* it spawned and did not wait for.
CaptureReturn(t) ==
    LET stack == cur_dpst_index[t]
    IN  /\ stack # <<>>
        /\ \/ /\ ~nodes[Top(t)].sync_finish_flag
              /\ cur_dpst_index' = [cur_dpst_index EXCEPT ![t] = Popped(@)]
              /\ nodes' = Erase(nodes, Top(t))
           \/ /\ nodes[Top(t)].sync_finish_flag
              /\ Len(stack) > 1
              /\ cur_dpst_index' = [cur_dpst_index EXCEPT ![t] = Popped(Popped(@))]
              /\ nodes' = Erase(Erase(nodes, Top(t)), stack[Len(stack) - 1])
        /\ UNCHANGED <<temp_cur_map, last_allocated_node>>

CaptureWait_StepIsYoungest(t) ==
    /\ nodes' = [nodes EXCEPT ![Top(t)] = [@ EXCEPT !.child_id = last_allocated_node,
                                                    !.young_ns_child = STEP]]
    /\ last_allocated_node' = last_allocated_node + 1
    /\ UNCHANGED <<cur_dpst_index, temp_cur_map>>

\* After spawn_root_and_wait: a new step under the same node.
CaptureWait(t) ==
    /\ cur_dpst_index[t] # <<>>
    /\ nodes' = [nodes EXCEPT ![Top(t)].child_id = last_allocated_node]
    /\ last_allocated_node' = last_allocated_node + 1
    /\ UNCHANGED <<cur_dpst_index, temp_cur_map>>

CaptureWaitOnly_NoPop(t) == CaptureWait(t)

\* After wait_for_all and spawn_and_wait_for_all: the top node is taken to be
\* the implicit FINISH and deleted; the one below it gets a new step.
CaptureWaitOnly(t) ==
    LET stack == cur_dpst_index[t]
        below == stack[Len(stack) - 1]
    IN  /\ Len(stack) > 1
        /\ cur_dpst_index' = [cur_dpst_index EXCEPT ![t] = Popped(@)]
        /\ nodes' = [Erase(nodes, Top(t)) EXCEPT ![below].child_id = last_allocated_node]
        /\ last_allocated_node' = last_allocated_node + 1
        /\ UNCHANGED temp_cur_map

(******************************************************************************)
(* Invariants of the graph, whatever calls are made                           *)
(******************************************************************************)

(* Type correctness; a node's id is one that create_node has handed out.      *)
GraphTypeOK ==
    /\ last_allocated_node \in Nat \ {0}
    /\ DOMAIN nodes \subseteq 1 .. last_allocated_node - 1
    /\ nodes \in [DOMAIN nodes -> AFTask]
    /\ cur_dpst_index \in [Threads -> Seq(Nat)]
    /\ temp_cur_map \in [DOMAIN temp_cur_map -> Nat]
    /\ report \in [Threads -> Seq(LogEntry)]

\* No pointer on a stack or in the map is to a deleted node.
NoDangling ==
    /\ \A t \in Threads : \A i \in DOMAIN cur_dpst_index[t] : cur_dpst_index[t][i] \in DOMAIN nodes
    /\ \A k \in DOMAIN temp_cur_map : temp_cur_map[k] \in DOMAIN nodes

\* No two pointers are to the same node.
OneOwner ==
    /\ \A t, u \in Threads : \A i \in DOMAIN cur_dpst_index[t], j \in DOMAIN cur_dpst_index[u] :
          cur_dpst_index[t][i] = cur_dpst_index[u][j] => t = u /\ i = j
    /\ \A k, j \in DOMAIN temp_cur_map : temp_cur_map[k] = temp_cur_map[j] => k = j
    /\ \A t \in Threads : \A i \in DOMAIN cur_dpst_index[t] :
          \A k \in DOMAIN temp_cur_map : cur_dpst_index[t][i] # temp_cur_map[k]

\* Every allocated node has a pointer to it.
NoLeak ==
    \A n \in DOMAIN nodes :
        \/ \E t \in Threads : \E i \in DOMAIN cur_dpst_index[t] : cur_dpst_index[t][i] = n
        \/ \E k \in DOMAIN temp_cur_map : temp_cur_map[k] = n

(* An AFTask is held by one pointer: a place on one thread's stack or one     *)
(* entry of temp_cur_map.  So nothing is leaked or used after its delete, and *)
(* the unlocked getCurStepId, getCurStepParent and CaptureReturn race with    *)
(* nobody.                                                                    *)
NodeOwnership == NoDangling /\ OneOwner /\ NoLeak

(******************************************************************************)
(* The tree the reports describe, as the analysis phase will read it          *)
(******************************************************************************)
Logged(t) == {report[t][i] : i \in DOMAIN report[t]}

Entries == UNION {Logged(t) : t \in Threads}

LoggedIds == {e.node_id : e \in Entries}

EntryOf(tree, n) == CHOOSE e \in tree : e.node_id = n

\* The nodes on the path from the head to n, n included, in a set of entries
\* with one entry per id and every parent's id below its child's.
PathTo(tree, n) ==
    LET path[m \in 0 .. n] ==
            IF m = 0 THEN {} ELSE path[EntryOf(tree, m).step_parent] \cup {m}
    IN  path[n]

\* Two steps may run in parallel, as the tree has it: the child of their lowest
\* common ancestor that leads to the left one is an ASYNC node.  p and q are
\* the paths to them.
MayRunInParallel(tree, p, q) ==
    LET least(S) == CHOOSE n \in S : \A m \in S : n <= m
        left == least((p \cup q) \ (p \cap q))
    IN  EntryOf(tree, left).node_type = ASYNC

================================================================================
