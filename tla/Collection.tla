------------------------------ MODULE Collection -------------------------------
(******************************************************************************)
(* The collection phase at work: TBB worker threads run an instrumented task  *)
(* program, every t_debug_task call and every __exec_begin__/__exec_end__     *)
(* hook goes to AFTaskGraph and Task_Profiler, and main ends with Fini.       *)
(*                                                                            *)
(* The program is any tree of at most MaxTasks tasks over the operations of   *)
(* t_debug_task.  Three constants say which habits it may have:               *)
(*   EmptyWaits       a task may call wait_for_all with nothing to wait for   *)
(*   SpawnsAfterRoots a task with spawned, not yet awaited children may call  *)
(*                    spawn_root_and_wait and then spawn again                *)
(*   UnjoinedReturns  a task may return without waiting for its children,     *)
(*                    whose completion then counts for its ancestors, as the  *)
(*                    continuation tasks of parallel_for arrange              *)
(*                                                                            *)
(* The scheduler (external, from how t_debug_task uses tbb::task): a spawned  *)
(* task may be taken by any thread that is idle or waiting in a join, which   *)
(* runs it on top of the waiting task; the task of a blocking spawn is run    *)
(* first and by the spawning thread; a join ends when the tasks waited for,   *)
(* and their descendants, have ended.                                         *)
(*                                                                            *)
(* Steps are cut where another thread can act: the entry hook with the new    *)
(* task id, the locked Capture call, the hand-over to the scheduler, and the  *)
(* locked Capture call after a join are separate.                             *)
(******************************************************************************)
EXTENDS AFTaskGraph

CONSTANTS
    MaxTasks,
    SpawnSites, RootSites,  \* the call sites of spawns, and of spawn_root_and_wait
    EmptyWaits, SpawnsAfterRoots, UnjoinedReturns

ASSUME CollectionAssumption ==
    /\ MaxTasks \in Nat
    /\ SpawnSites \subseteq Nat /\ RootSites \subseteq Nat
    /\ {EmptyWaits, SpawnsAfterRoots, UnjoinedReturns} \subseteq BOOLEAN

\* Task 0 is the main function; the others are numbered by task_id_ctr.
MainTask == 0
Tasks == 0 .. MaxTasks

VARIABLES
    task_id_ctr,  \* the task ids handed out so far
    frames,       \* per thread, its tasks begun and not ended, innermost last
    pool,         \* tasks spawned and not yet taken by a thread
    counting,     \* per thread, whether its cycle counter is running
    finished,     \* Fini has written the reports
    \* What the program does, independently of the recording of it:
    nodeOf,       \* the AFTask node CaptureExecute gave each task
    above,        \* the proper ancestors of each task
    ended,        \* tasks that have ended
    past,         \* per task, the steps that happened before its present point
    before        \* per step, the steps that happened before it

program == <<nodeOf, above, ended, past, before>>
scheduler == <<task_id_ctr, frames, pool, counting, finished>>
vars == <<graph, report, scheduler, program>>

(* A frame: a task on a thread.  at says where it is; op and kid which call   *)
(* it is in and for which task; young what its spawns since the last wait     *)
(* have left on the stack; base how many nodes were below its own.            *)
Frame == [ task : Tasks, kid : Tasks, base : Nat,
           at : {"run", "capture", "captured", "wait"},
           op : {"none", "spawn", "root", "both", "wait"},
           young : {"none", "spawned", "rooted"} ]

NewFrame(k, base) ==
    [task |-> k, kid |-> k, base |-> base, at |-> "run", op |-> "none", young |-> "none"]

TopFrame(t) == frames[t][Len(frames[t])]

\* Thread t is in its innermost task, at this point.
At(t, where) == frames[t] # <<>> /\ TopFrame(t).at = where

\* Thread t is in a spawn call and still holds the new task.
Launching(t) == At(t, "capture") \/ At(t, "captured")

WithTop(t, frame) == [frames[t] EXCEPT ![Len(frames[t])] = frame]

SetTop(t, frame) == frames' = [frames EXCEPT ![t] = WithTop(t, frame)]

Descendants(k) == {d \in 1 .. task_id_ctr : k \in above[d]}

(******************************************************************************)
(* The entry hooks: TP_CaptureSpawn_Entry, TP_CaptureWait_Entry and           *)
(* TP_CaptureReturn stop the counter and log the step it measured.            *)
(******************************************************************************)
LogStep_KeepsCounting(t) ==
    /\ cur_dpst_index[t] # <<>>
    /\ Log(t, <<Entry(getCurStepId(t), getCurStepParent(t), STEP, 0)>>)
    /\ UNCHANGED counting

LogStep(t) ==
    /\ cur_dpst_index[t] # <<>>
    /\ Log(t, <<Entry(getCurStepId(t), getCurStepParent(t), STEP, 0)>>)
    /\ counting' = [counting EXCEPT ![t] = FALSE]

\* The same moment in the program: the step joins its task's past.
StepHappens(t) ==
    LET k == TopFrame(t).task
        s == getCurStepId(t)
    IN  /\ before' = [n \in DOMAIN before \cup {s} |-> IF n = s THEN past[k] ELSE before[n]]
        /\ past' = [past EXCEPT ![k] = @ \cup {s}]

StartCount(t) == counting' = [counting EXCEPT ![t] = TRUE]

(******************************************************************************)
(* t_debug_task                                                               *)
(******************************************************************************)

\* spawn, spawn_root_and_wait and spawn_and_wait_for_all begin alike: the entry
\* hook, then ++task_id_ctr.
SpawnEntry(t, op) ==
    LET f == TopFrame(t)
        k == task_id_ctr + 1
    IN  /\ At(t, "run") /\ ~finished
        /\ task_id_ctr < MaxTasks
        /\ op # "root" => SpawnsAfterRoots \/ f.young # "rooted"
        /\ LogStep(t)
        /\ StepHappens(t)
        /\ task_id_ctr' = k
        /\ SetTop(t, [f EXCEPT !.at = "capture", !.op = op, !.kid = k])
        /\ above' = [above EXCEPT ![k] = above[f.task] \cup {f.task}]
        /\ UNCHANGED <<graph, pool, finished, nodeOf, ended>>

\* CaptureSetTaskId; the child begins with the past its parent has now.
SpawnCaptureAt(t, site) ==
    LET f == TopFrame(t)
    IN  /\ At(t, "capture")
        /\ \/ f.op = "spawn" /\ site \in SpawnSites /\ CaptureSpawnOnly(t, f.kid, site)
           \/ f.op = "root" /\ site \in RootSites /\ CaptureSpawnAndWait(t, f.kid, site)
           \/ f.op = "both" /\ site \in SpawnSites /\ CaptureSpawnAndWaitForAll(t, f.kid, site)
        /\ past' = [past EXCEPT ![f.kid] = past[f.task]]
        /\ SetTop(t, [f EXCEPT !.at = "captured",
                               !.young = IF f.op # "root" THEN "spawned"
                                         ELSE IF @ = "none" THEN "none" ELSE "rooted"])
        /\ UNCHANGED <<task_id_ctr, pool, counting, finished, nodeOf, above, ended, before>>

SpawnCapture(t) == \E site \in SpawnSites \cup RootSites : SpawnCaptureAt(t, site)

\* task::spawn, then TP_CaptureSpawn_Exit.
SpawnExit(t) ==
    LET f == TopFrame(t)
    IN  /\ At(t, "captured") /\ f.op = "spawn"
        /\ pool' = pool \cup {f.kid}
        /\ StartCount(t)
        /\ SetTop(t, [f EXCEPT !.at = "run", !.op = "none", !.kid = f.task])
        /\ UNCHANGED <<graph, report, task_id_ctr, finished, program>>

\* wait_for_all up to the blocking call.
WaitEntry(t) ==
    LET f == TopFrame(t)
    IN  /\ At(t, "run") /\ ~finished
        /\ EmptyWaits \/ f.young # "none"
        /\ LogStep(t)
        /\ StepHappens(t)
        /\ SetTop(t, [f EXCEPT !.at = "wait", !.op = "wait"])
        /\ UNCHANGED <<graph, task_id_ctr, pool, finished, nodeOf, above, ended>>

\* The rest of a blocking call, once the tasks it waits for have ended: for
\* spawn_root_and_wait the root task, for the others all the task's children.
Awaited(t) ==
    LET f == TopFrame(t)
    IN  IF f.op = "root" THEN Descendants(f.kid) \cup {f.kid} ELSE Descendants(f.task)

Join(t) ==
    LET f == TopFrame(t)
    IN  /\ At(t, "wait")
        /\ Awaited(t) \subseteq ended
        /\ IF f.op = "root" THEN CaptureWait(t) ELSE CaptureWaitOnly(t)
        /\ StartCount(t)
        /\ past' = [past EXCEPT ![f.task] = @ \cup UNION {past[d] : d \in Awaited(t)}]
        /\ SetTop(t, [f EXCEPT !.at = "run", !.op = "none", !.kid = f.task,
                               !.young = IF f.op = "root" THEN @ ELSE "none"])
        /\ UNCHANGED <<report, task_id_ctr, pool, finished, nodeOf, above, ended, before>>

(******************************************************************************)
(* exec_calls: a task begins and ends on a thread                             *)
(******************************************************************************)

\* __exec_begin__, called first thing by the task's execute method.
Begin(t, k) ==
    /\ CaptureExecute(t, k)
    /\ StartCount(t)
    /\ nodeOf' = [nodeOf EXCEPT ![k] = temp_cur_map[k]]
    /\ UNCHANGED <<report, task_id_ctr, finished, above, ended, past, before>>

\* A thread that is idle, or blocked in a join, takes a spawned task.
TakeTask(t, k) ==
    /\ k \in pool
    /\ frames[t] = <<>> \/ At(t, "wait")
    /\ pool' = pool \ {k}
    /\ frames' = [frames EXCEPT ![t] = Append(@, NewFrame(k, Len(cur_dpst_index[t])))]
    /\ Begin(t, k)

\* spawn_root_and_wait with task::spawn for task::spawn_root_and_wait.
RunChild_Spawns(t) ==
    LET f == TopFrame(t)
    IN  /\ At(t, "captured") /\ f.op \in {"root", "both"}
        /\ SetTop(t, [f EXCEPT !.at = "wait"])
        /\ pool' = pool \cup {f.kid}
        /\ UNCHANGED <<graph, report, task_id_ctr, counting, finished, program>>

\* A blocking spawn runs its task at once.
RunChild(t) ==
    LET f == TopFrame(t)
    IN  /\ At(t, "captured") /\ f.op \in {"root", "both"}
        /\ frames' = [frames EXCEPT ![t] = Append(WithTop(t, [f EXCEPT !.at = "wait"]),
                                      NewFrame(f.kid, Len(cur_dpst_index[t])))]
        /\ UNCHANGED pool
        /\ Begin(t, f.kid)

\* __exec_end__, last in the task's execute method.
ExecEnd(t) ==
    LET f == TopFrame(t)
    IN  /\ At(t, "run") /\ f.task # MainTask
        /\ UnjoinedReturns \/ f.young = "none"
        /\ LogStep(t)
        /\ StepHappens(t)
        /\ CaptureReturn(t)
        /\ frames' = [frames EXCEPT ![t] = Popped(@)]
        /\ ended' = ended \cup {f.task}
        /\ UNCHANGED <<task_id_ctr, pool, finished, nodeOf, above>>

\* Fini, called by main when it has joined every task.
Fini ==
    /\ At(Main, "run") /\ TopFrame(Main).task = MainTask /\ ~finished
    /\ TopFrame(Main).young = "none"
    /\ LogStep(Main)
    /\ StepHappens(Main)
    /\ finished' = TRUE
    /\ UNCHANGED <<graph, task_id_ctr, frames, pool, nodeOf, above, ended>>

(******************************************************************************)
(* The specification                                                          *)
(******************************************************************************)

\* After TD_Activate, called by main.
Init ==
    /\ GraphInit
    /\ task_id_ctr = 0
    /\ frames = [t \in Threads |-> IF t = Main THEN <<NewFrame(MainTask, 0)>> ELSE <<>>]
    /\ pool = {}
    /\ counting = [t \in Threads |-> t = Main]
    /\ finished = FALSE
    /\ nodeOf = [k \in Tasks |-> IF k = MainTask THEN 1 ELSE 0]
    /\ above = [k \in Tasks |-> {}]
    /\ ended = {}
    /\ past = [k \in Tasks |-> {}]
    /\ before = [s \in {} |-> {}]

\* The end of the run, so that a deadlock is a thread stuck for any other reason.
Terminated == finished /\ UNCHANGED vars

ThreadStep(t) ==
    \/ \E op \in {"spawn", "root", "both"} : SpawnEntry(t, op)
    \/ SpawnCapture(t)
    \/ SpawnExit(t)
    \/ WaitEntry(t)
    \/ Join(t)
    \/ \E k \in Tasks : TakeTask(t, k)
    \/ RunChild(t)
    \/ ExecEnd(t)

Next ==
    \/ \E t \in Threads : ThreadStep(t)
    \/ Fini
    \/ Terminated

Spec == Init /\ [][Next]_vars

(******************************************************************************)
(* Properties                                                                 *)
(******************************************************************************)

(* Type correctness of the state of AFTaskGraph and of its environment.       *)
TypeOK ==
    /\ GraphTypeOK
    /\ DOMAIN temp_cur_map \subseteq Tasks
    /\ task_id_ctr \in Tasks
    /\ frames \in [Threads -> Seq(Frame)]
    /\ pool \subseteq Tasks
    /\ counting \in [Threads -> BOOLEAN]
    /\ finished \in BOOLEAN
    /\ nodeOf \in [Tasks -> Nat]
    /\ above \in [Tasks -> SUBSET Tasks]
    /\ ended \subseteq Tasks
    /\ past \in [Tasks -> SUBSET Nat]
    /\ DOMAIN before \subseteq Nat
    /\ before \in [DOMAIN before -> SUBSET Nat]

(* The hand-over of a task, from ++task_id_ctr to CaptureExecute: its id is   *)
(* with one spawning thread, then in the pool, and the map has its node from  *)
(* the Capture call on.  So insert() never meets an old entry of the id, and  *)
(* temp_cur_map.at(taskId) in CaptureExecute never throws, whether the task   *)
(* comes from the scheduler or is the child of a blocking spawn.              *)
HandOver ==
    /\ pool \subseteq DOMAIN temp_cur_map
    /\ DOMAIN temp_cur_map \subseteq 1 .. task_id_ctr
    /\ \A t \in Threads : At(t, "capture") =>
          TopFrame(t).kid \in (1 .. task_id_ctr) \ DOMAIN temp_cur_map
    /\ \A t \in Threads : At(t, "captured") =>
          TopFrame(t).kid \in DOMAIN temp_cur_map \ pool
    /\ \A t, u \in Threads : t # u /\ Launching(t) /\ Launching(u) =>
          TopFrame(t).kid # TopFrame(u).kid
    /\ \A t \in Threads : \A i \in 1 .. Len(frames[t]) - 1 : frames[t][i].at = "wait"

(* Work is charged to the right place: the stack of a thread is, from the     *)
(* bottom, the node of each task it is in, followed by one implicit FINISH if *)
(* the task has spawned since it last waited.  getCurStepId then belongs to   *)
(* the running task, whatever the thread executed while it was waiting.       *)
StackMatchesTasks ==
    \A t \in Threads :
        LET stack == cur_dpst_index[t]
            limit(i) == IF i = Len(frames[t]) THEN Len(stack) ELSE frames[t][i + 1].base
            Implicit(n) == n \in DOMAIN nodes /\ nodes[n].sync_finish_flag
        IN  /\ frames[t] = <<>> => stack = <<>>
            /\ \A i \in DOMAIN frames[t] :
                  LET f == frames[t][i]
                      height == IF f.young = "none" THEN 1 ELSE 2
                  IN  /\ limit(i) = f.base + height
                      /\ limit(i) <= Len(stack)
                      /\ stack[f.base + 1] = nodeOf[f.task]
                      /\ ~Implicit(stack[f.base + 1])
                      /\ height = 2 => Implicit(stack[f.base + 2])

(* The cycle counter of a thread runs exactly while it executes program code, *)
(* so no cycle is counted in two steps and none is counted while the thread   *)
(* is in the runtime or in the profiler.                                      *)
CountsOnlySteps ==
    \A t \in Threads : counting[t] <=> At(t, "run") /\ ~finished

(* Each id reaches the reports at most once, and its parent's id is smaller.  *)
IdsUnique ==
    /\ \A t \in Threads : \A i, j \in DOMAIN report[t] :
           report[t][i].node_id = report[t][j].node_id => i = j
    /\ \A t, u \in Threads : \A e \in Logged(t), f \in Logged(u) :
           e.node_id = f.node_id => t = u
    /\ \A e \in Entries : e.step_parent < e.node_id /\ e.node_id < last_allocated_node

(* initialize_task of the analysis phase takes the number of lines it read    *)
(* for the largest node id, and calculateRecurse visits every id up to it:    *)
(* when Fini has run, the ids in the reports are 1 .. n for the n lines.      *)
LogComplete ==
    finished => LoggedIds = 1 .. last_allocated_node - 1

(* The tree that Fini leaves records the program's own order: of two steps,   *)
(* one happened before the other by spawning and joining if and only if the   *)
(* tree has them in series, and then the smaller id is the earlier step.  The *)
(* parallelism computed from the tree rests on this.                          *)
TreeIsProgramOrder ==
    finished =>
        LET tree == Entries
        IN  \A s \in DOMAIN before :
                LET p == PathTo(tree, s)
                IN  \A r \in {x \in DOMAIN before : s < x} :
                        /\ s \notin before[r] <=> MayRunInParallel(tree, p, PathTo(tree, r))
                        /\ r \notin before[s]

(* No thread's step touches the nodes on another thread's stack.              *)
OthersNodesUntouched ==
    [][\A t \in Threads : frames'[t] = frames[t] =>
          /\ cur_dpst_index'[t] = cur_dpst_index[t]
          /\ \A i \in DOMAIN cur_dpst_index[t] :
                LET n == cur_dpst_index[t][i]
                IN  n \in DOMAIN nodes' /\ nodes'[n] = nodes[n]]_vars

(* The hooks are called in no other order than TaskRuntime has the tasks in:  *)
(* what Collection takes for the scheduler is what Scheduler implements.      *)
HandedOver(k) ==
    \/ k \in pool \cup ended
    \/ \E t \in Threads : \E i \in DOMAIN frames[t] : frames[t][i].task = k

Level(f) == [ task |-> f.task, blocked |-> f.at = "wait",
              scope |-> IF f.at = "wait" /\ f.op = "root" THEN f.kid ELSE f.task ]

Runtime == INSTANCE TaskRuntime WITH
    stack <- [t \in Threads |-> [i \in DOMAIN frames[t] |-> Level(frames[t][i])]],
    above <- [k \in Tasks |-> IF HandedOver(k) THEN above[k] ELSE {}]

ImplementsRuntime == Runtime!Spec

================================================================================
