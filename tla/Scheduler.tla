------------------------------- MODULE Scheduler -------------------------------
(******************************************************************************)
(* TBB's work-stealing scheduler running a task program: the dispatch loop of *)
(* custom_scheduler over the task pools of TaskPool.                          *)
(*                                                                            *)
(* A program is a tree of tasks, with a style for each: how the task spawns   *)
(* and awaits its children, in the ways t_debug_task and parallel_for do.     *)
(*   wait    spawn each, wait_for_all                                         *)
(*   list    spawn all as a task_list, wait_for_all                           *)
(*   both    spawn all but the last, spawn_and_wait_for_all(last)             *)
(*   root    spawn_root_and_wait(child), for one child after the other        *)
(*   split   for each child allocate a continuation of the task (a flag_task) *)
(*           that becomes the parent of both; spawn the child; do not wait    *)
(* Aux(c) is the task object that child c brings with it besides its own: the *)
(* dummy of spawn_root_and_wait, or the flag_task.                            *)
(*                                                                            *)
(* The master's slot is always occupied.  A worker has a slot of its own; it  *)
(* enters and, when it looks for work at the outermost level, leaves the      *)
(* arena when it pleases: Workers models what makes it do so.                 *)
(*                                                                            *)
(* Left out: enqueue, affinity, priorities, cancellation and exceptions,      *)
(* recycling.  A step of a thread holds at most one access to what other      *)
(* threads change; program code and the thread's own state go along with it.  *)
(******************************************************************************)
EXTENDS TaskPool, FiniteSets

CONSTANTS
    Main,
    N,          \* the tasks are 1 .. N, the main function is 0
    Programs    \* what may be run: records with the fields kids and style

Workers == Threads \ {Main}
Tasks == 0 .. N
MainTask == 0

\* Task objects: the tasks, and Aux of each but the main function.
Aux(k) == N + k
Objects == 0 .. 2 * N

Styles == {"wait", "list", "both", "root", "split"}

ASSUME SchedulerAssumption ==
    /\ Main \in Threads
    /\ N \in Nat
    /\ Programs \subseteq [kids : [Tasks -> Seq(1 .. N)], style : [Tasks -> Styles]]
    /\ \A p \in Programs : p.style[MainTask] # "split"

\* A task object is allocated once and launched once.
ASSUME ProgramsAreTrees ==
    \A p \in Programs : \A j, k \in Tasks :
        \A i \in DOMAIN p.kids[j], l \in DOMAIN p.kids[k] :
            p.kids[j][i] = p.kids[k][l] => j = k /\ i = l

VARIABLES
    program,    \* the program of this run
    done,       \* per task, how many children it has launched, plus 1 once it has waited
    parent,     \* per task object, the parent that its completion is told
    ref_count,  \* per task object
    loops,      \* per thread, its nested dispatch loops, innermost last
    pc,         \* per thread, where it is in the innermost
    victim,     \* per thread, the slot it has locked
    ended       \* the tasks whose execute method has returned

dispatch == <<done, parent, ref_count, ended>>
vars == <<slots, program, dispatch, loops, pc, victim>>

(* A dispatch loop: local_wait_for_all(waits, ...), with the task object it   *)
(* executes.  The outermost loop of a worker waits for nothing that happens;  *)
(* the main function is run by none, but has a level of its own.              *)
Loop(waits, task) == [waits |-> waits, task |-> task]

Inner(t) == Last(loops[t])

SetTask(t, k) == loops' = [loops EXCEPT ![t] = Append(Front(@), Loop(Last(@).waits, k))]

Goto(t, where) == pc' = [pc EXCEPT ![t] = where]

At(t, where) == pc[t] = where

(******************************************************************************)
(* Task code                                                                  *)
(******************************************************************************)
Kids(k) == program.kids[k]
Style(k) == program.style[k]

\* The task thread t executes, and the child it launches next.
Current(t) == Inner(t).task
NextKid(t) == Kids(Current(t))[done[Current(t)] + 1]

Executes(t) == At(t, "run") /\ Current(t) \in Tasks

Launched(k, n) == done' = [done EXCEPT ![k] = @ + n]

\* The children the next spawn call hands over; none if the next call is another.
Spawns(k) ==
    LET left == Len(Kids(k)) - done[k]
    IN  CASE Style(k) = "list" /\ left > 0 -> Reverse(Kids(k))
          [] \/ Style(k) \in {"wait", "split"} /\ left > 0
             \/ Style(k) = "both" /\ left > 1 -> <<Kids(k)[done[k] + 1]>>
          [] OTHER -> <<>>

SpawnParents_WithoutWait(k, c) ==
    IF Style(k) = "split"
    THEN /\ parent' = [parent EXCEPT ![c] = Aux(c), ![k] = Aux(c), ![Aux(c)] = parent[k]]
         /\ ref_count' = [ref_count EXCEPT ![Aux(c)] = 2]
    ELSE IF done[k] = 0
    THEN /\ parent' = [p \in Objects |-> IF p \in Range(Kids(k)) THEN k ELSE parent[p]]
         /\ ref_count' = [ref_count EXCEPT ![k] = Len(Kids(k))]
    ELSE UNCHANGED <<parent, ref_count>>

SpawnParents_KeepsParent(k, c) ==
    IF Style(k) = "split"
    THEN /\ parent' = [parent EXCEPT ![c] = Aux(c), ![Aux(c)] = parent[k]]
         /\ ref_count' = [ref_count EXCEPT ![Aux(c)] = 2]
    ELSE IF done[k] = 0
    THEN /\ parent' = [p \in Objects |-> IF p \in Range(Kids(k)) THEN k ELSE parent[p]]
         /\ ref_count' = [ref_count EXCEPT ![k] = Len(Kids(k)) + 1]
    ELSE UNCHANGED <<parent, ref_count>>

\* What the task sets up before it launches child c: before the first, all of
\* them and the count; for a split, the flag_task that takes its own place.
SpawnParents(k, c) ==
    IF Style(k) = "split"
    THEN /\ parent' = [parent EXCEPT ![c] = Aux(c), ![k] = Aux(c), ![Aux(c)] = parent[k]]
         /\ ref_count' = [ref_count EXCEPT ![Aux(c)] = 2]
    ELSE IF done[k] = 0
    THEN /\ parent' = [p \in Objects |-> IF p \in Range(Kids(k)) THEN k ELSE parent[p]]
         /\ ref_count' = [ref_count EXCEPT ![k] = Len(Kids(k)) + 1]
    ELSE UNCHANGED <<parent, ref_count>>

\* local_spawn, when the tasks do not fit ...
MakeRoom(t) ==
    /\ Executes(t)
    /\ Spawns(Current(t)) # <<>>
    /\ prepare_task_pool(t, Len(Spawns(Current(t))))
    /\ UNCHANGED <<program, dispatch, loops, pc, victim>>

\* ... and when they do.
local_spawn(t) ==
    LET k == Current(t)
    IN  /\ Executes(t)
        /\ Spawns(k) # <<>>
        /\ commit_spawned_tasks(t, Spawns(k))
        /\ SpawnParents(k, NextKid(t))
        /\ Launched(k, Len(Spawns(k)))
        /\ UNCHANGED <<program, ended, loops, pc, victim>>

\* spawn_and_wait_for_all of the last child.
local_wait_for_all_WithChild(t) ==
    LET k == Current(t)
        c == NextKid(t)
    IN  /\ Executes(t)
        /\ Style(k) = "both" /\ done[k] + 1 = Len(Kids(k))
        /\ SpawnParents(k, c)
        /\ loops' = [loops EXCEPT ![t] = Append(@, Loop(k, c))]
        /\ Launched(k, 1)
        /\ UNCHANGED <<slots, program, ended, pc, victim>>

\* spawn_root_and_wait: the dummy counts the root task and the wait.
local_spawn_root_and_wait(t) ==
    LET k == Current(t)
        c == NextKid(t)
    IN  /\ Executes(t)
        /\ Style(k) = "root" /\ done[k] < Len(Kids(k))
        /\ parent' = [parent EXCEPT ![c] = Aux(c)]
        /\ ref_count' = [ref_count EXCEPT ![Aux(c)] = 2]
        /\ loops' = [loops EXCEPT ![t] = Append(@, Loop(Aux(c), c))]
        /\ Launched(k, 1)
        /\ UNCHANGED <<slots, program, ended, pc, victim>>

\* wait_for_all.
local_wait_for_all(t) ==
    LET k == Current(t)
    IN  /\ Executes(t)
        /\ Style(k) \in {"wait", "list"} /\ Kids(k) # <<>> /\ done[k] = Len(Kids(k))
        /\ loops' = [loops EXCEPT ![t] = Append(@, Loop(k, NoTask))]
        /\ Goto(t, "look")
        /\ UNCHANGED <<slots, program, dispatch, victim>>

\* The task has nothing left to do but return.
Complete(k) ==
    done[k] = Len(Kids(k)) + IF Style(k) \in {"root", "split"} \/ Kids(k) = <<>> THEN 0 ELSE 1

(******************************************************************************)
(* The dispatch loop                                                          *)
(******************************************************************************)

Return_NoBypass(t) ==
    LET k == Current(t)
        p == parent[k]
    IN  /\ At(t, "run") /\ k # MainTask
        /\ k \in Tasks => Complete(k)
        /\ ended' = ended \cup ({k} \cap Tasks)
        /\ ref_count' = [ref_count EXCEPT ![p] = @ - 1]
        /\ SetTask(t, NoTask)
        /\ Goto(t, "look")
        /\ UNCHANGED <<slots, program, done, parent, victim>>

(* execute returns, and tally_completion_of_predecessor: the parent whose     *)
(* count falls to 0 is executed next, without going through a pool.           *)
Return(t) ==
    LET k == Current(t)
        p == parent[k]
        bypass == ref_count[p] = 1
    IN  /\ At(t, "run") /\ k # MainTask
        /\ k \in Tasks => Complete(k)
        /\ ended' = ended \cup ({k} \cap Tasks)
        /\ ref_count' = [ref_count EXCEPT ![p] = @ - 1]
        /\ SetTask(t, IF bypass THEN p ELSE NoTask)
        /\ Goto(t, IF bypass THEN "run" ELSE "look")
        /\ UNCHANGED <<slots, program, done, parent, victim>>

\* The loop ends when only the wait itself is left in the count.
Joined(t) == Inner(t).waits \in Objects /\ ref_count[Inner(t).waits] = 1

EndLoop(t) ==
    LET p == Inner(t).waits
    IN  /\ pc[t] \in {"look", "steal"}
        /\ Joined(t)
        /\ ref_count' = [ref_count EXCEPT ![p] = 0]
        /\ done' = IF p \in Tasks THEN [done EXCEPT ![p] = @ + 1] ELSE done
        /\ loops' = [loops EXCEPT ![t] = Front(@)]
        /\ Goto(t, "run")
        /\ UNCHANGED <<slots, program, parent, victim, ended>>

\* get_task, in its three parts.
LookInPool(t) ==
    /\ At(t, "look") /\ ~Joined(t)
    /\ LowerTail(t)
    /\ Goto(t, "get")
    /\ UNCHANGED <<program, dispatch, loops, victim>>

GetTask(t) ==
    /\ At(t, "get")
    /\ TakeOwn(t)
    /\ SetTask(t, OwnTask(t))
    /\ Goto(t, "run")
    /\ UNCHANGED <<program, dispatch, victim>>

SeekLock(t) ==
    /\ At(t, "get") /\ ~Undisputed(t)
    /\ Goto(t, "lock")
    /\ UNCHANGED <<slots, program, dispatch, loops, victim>>

GetTaskLocked(t) ==
    /\ At(t, "lock")
    /\ Arbitrate(t)
    /\ SetTask(t, Arbitrated(t))
    /\ Goto(t, IF Arbitrated(t) = NoTask THEN "steal" ELSE "run")
    /\ UNCHANGED <<program, dispatch, victim>>

\* A thread whose slot is not published has no task in it.
LookElsewhere(t) ==
    /\ At(t, "look") /\ ~Joined(t)
    /\ ~in_arena(t)
    /\ Goto(t, "steal")
    /\ UNCHANGED <<slots, program, dispatch, loops, victim>>

\* receive_or_steal_task: one attempt at slot v, if it is published.
Steal(t, v) ==
    /\ At(t, "steal") /\ ~Joined(t)
    /\ v # t
    /\ RaiseHead(v)
    /\ victim' = [victim EXCEPT ![t] = v]
    /\ Goto(t, "raid")
    /\ UNCHANGED <<program, dispatch, loops>>

StealFails(t) ==
    /\ At(t, "raid")
    /\ BackOff(victim[t])
    /\ Goto(t, "steal")
    /\ UNCHANGED <<program, dispatch, loops, victim>>

StealSucceeds(t) ==
    /\ At(t, "raid")
    /\ TakeStolen(victim[t])
    /\ SetTask(t, StolenTask(victim[t]))
    /\ Goto(t, "run")
    /\ UNCHANGED <<program, dispatch, victim>>

\* arena::process begins, and ends.
EnterArena(w) ==
    /\ At(w, "away")
    /\ loops' = [loops EXCEPT ![w] = <<Loop(NoTask, NoTask)>>]
    /\ Goto(w, "steal")
    /\ UNCHANGED <<slots, program, dispatch, victim>>

LeaveArena(w) ==
    /\ At(w, "steal") /\ Len(loops[w]) = 1
    /\ loops' = [loops EXCEPT ![w] = <<>>]
    /\ Goto(w, "away")
    /\ UNCHANGED <<slots, program, dispatch, victim>>

(******************************************************************************)
(* The specification                                                          *)
(******************************************************************************)
Init ==
    /\ PoolInit
    /\ program \in Programs
    /\ done = [k \in Tasks |-> 0]
    /\ parent = [p \in Objects |-> NoTask]
    /\ ref_count = [p \in Objects |-> 0]
    /\ loops = [t \in Threads |-> IF t = Main THEN <<Loop(NoTask, MainTask)>> ELSE <<>>]
    /\ pc = [t \in Threads |-> IF t = Main THEN "run" ELSE "away"]
    /\ victim = [t \in Threads |-> t]
    /\ ended = {}

ThreadStep(t) ==
    \/ MakeRoom(t) \/ local_spawn(t)
    \/ local_wait_for_all_WithChild(t) \/ local_spawn_root_and_wait(t) \/ local_wait_for_all(t)
    \/ Return(t) \/ EndLoop(t)
    \/ LookInPool(t) \/ GetTask(t) \/ SeekLock(t) \/ GetTaskLocked(t)
    \/ LookElsewhere(t)
    \/ (\E v \in Threads : Steal(t, v)) \/ StealFails(t) \/ StealSucceeds(t)

MainDone == At(Main, "run") /\ Len(loops[Main]) = 1 /\ Complete(MainTask)

Terminated == MainDone /\ UNCHANGED vars

Next ==
    \/ \E t \in Threads : ThreadStep(t)
    \/ \E w \in Workers : EnterArena(w) \/ LeaveArena(w)
    \/ Terminated

Spec == Init /\ [][Next]_vars

(* Threads are scheduled fairly, and so is a spinning owner that waits for    *)
(* the lock of its own slot: a thief pauses between two attempts, for longer  *)
(* each time (atomic_backoff, PauseTime), and holds the lock for two steps.   *)
(* A worker need not come.                                                    *)
Fairness ==
    \A t \in Threads :
        /\ WF_vars(ThreadStep(t))
        /\ SF_vars(MakeRoom(t))
        /\ SF_vars(GetTaskLocked(t))

FairSpec == Spec /\ Fairness

(******************************************************************************)
(* Properties                                                                 *)
(******************************************************************************)

(* Type correctness.  The tail of the owner that looks into an empty deque is *)
(* -1 for a while.                                                            *)
TypeOK ==
    /\ \A t \in Threads :
          /\ slots[t].task_pool \in {"empty", "locked", "open"}
          /\ slots[t].head \in Nat
          /\ slots[t].tail \in Nat \cup {-1}
          /\ slots[t].cells \in Seq(Tasks \cup {NoTask})
          /\ pc[t] \in {"away", "run", "look", "get", "lock", "steal", "raid"}
          /\ victim[t] \in Threads
          /\ \A i \in DOMAIN loops[t] :
                loops[t][i] \in [waits : Objects \cup {NoTask}, task : Objects \cup {NoTask}]
    /\ program \in Programs
    /\ done \in [Tasks -> 0 .. N + 1]
    /\ parent \in [Objects -> Objects \cup {NoTask}]
    /\ ref_count \in [Objects -> 0 .. N + 1]
    /\ ended \subseteq Tasks

HasLaunched(k, c) == \E i \in DOMAIN Kids(k) : i <= done[k] /\ Kids(k)[i] = c

IsLaunched(c) == \E k \in Tasks : HasLaunched(k, c)

IsExecuting(p) == \E t \in Threads : \E i \in DOMAIN loops[t] : loops[t][i].task = p

\* Tasks that have been spawned and have not begun.
Waiting == {c \in Tasks : IsLaunched(c) /\ c \notin ended /\ ~IsExecuting(c)}

(* The cells of slot t that hold a task: between head and tail, corrected for *)
(* what a thief and the owner have announced and not yet decided.             *)
Window(t) ==
    LET raided == \E u \in Threads : At(u, "raid") /\ victim[u] = t
        first == slots[t].head - IF raided THEN 1 ELSE 0
        last == slots[t].tail - IF pc[t] \in {"get", "lock"} THEN 0 ELSE 1
    IN  {i + 1 : i \in first .. last}

(* Through every overlap of spawning, taking, stealing, relocating, growing   *)
(* and resetting, each waiting task is in one cell of one slot and no other   *)
(* cell in use holds anything: no task is lost, none is taken twice.          *)
EachTaskInOneCell ==
    LET places == UNION {{<<t, i>> : i \in Window(t)} : t \in Threads}
        content(place) == slots[place[1]].cells[place[2]]
    IN  /\ \A place \in places : place[2] \in DOMAIN slots[place[1]].cells
        /\ {content(place) : place \in places} = Waiting
        /\ \A p, q \in places : content(p) = content(q) => p = q

(* The assertion of get_task: when the owner has the lock and no task, the    *)
(* slot is empty, whatever the thieves that were there meanwhile have done.   *)
Arbitration ==
    \A t \in Threads : At(t, "lock") /\ Unlocked(t) /\ ~Undisputed(t) =>
        slots[t].head = slots[t].tail + 1

(* A thread that goes stealing, and so a worker that leaves the arena, has    *)
(* left nothing in its slot (asserted in local_wait_for_all and               *)
(* arena::process): a slot's next owner finds it reset.                       *)
LeavesEmptySlot ==
    \A t \in Threads : pc[t] \in {"steal", "raid", "away"} =>
        /\ ~in_arena(t)
        /\ slots[t].head = 0 /\ slots[t].tail = 0

(* A reference count is the children that have still to be told, plus one     *)
(* while a wait on them is to come or under way; so a join is neither too     *)
(* early nor left waiting, and a flag_task is executed once.                  *)
CountsAreRight ==
    LET Untold(q) == IF q \in Tasks THEN q \notin ended
                     ELSE ref_count[q] > 0 \/ IsExecuting(q)
        MustWait(k) == /\ k \in Tasks /\ Style(k) \notin {"root", "split"}
                       /\ done[k] \in 1 .. Len(Kids(k))
        Awaited(p) == \E t \in Threads : \E i \in DOMAIN loops[t] : loops[t][i].waits = p
    IN  \A p \in Objects :
            ref_count[p] = Cardinality({q \in Objects : parent[q] = p /\ Untold(q)})
                           + IF MustWait(p) \/ Awaited(p) THEN 1 ELSE 0

(* The state as TaskRuntime sees it: a thread's stack is the tasks its        *)
(* dispatch loops execute, and a loop above a task is its join.               *)
IsKid(c) == \E k \in Tasks : \E i \in DOMAIN Kids(k) : Kids(k)[i] = c

Creator(c) == CHOOSE k \in Tasks : \E i \in DOMAIN Kids(k) : Kids(k)[i] = c

Ancestors ==
    LET f[c \in Tasks] == IF IsKid(c) THEN f[Creator(c)] \cup {Creator(c)} ELSE {}
    IN  f

RuntimeStack(t) ==
    LET levels == loops[t]
        Scope(i) == LET p == levels[i + 1].waits IN IF p \in Tasks THEN p ELSE p - N
        height == IF levels = <<>> THEN 0
                  ELSE Len(levels) - IF Last(levels).task \in Tasks THEN 0 ELSE 1
    IN  [i \in 1 .. height |->
            [task |-> levels[i].task,
             blocked |-> i < Len(levels),
             scope |-> IF i < Len(levels) THEN Scope(i) ELSE levels[i].task]]

Runtime == INSTANCE TaskRuntime WITH
    pool <- Waiting,
    stack <- [t \in Threads |-> RuntimeStack(t)],
    above <- [c \in Tasks |-> IF c # MainTask /\ IsLaunched(c) THEN Ancestors[c] ELSE {}]

(* The deque protocol, the reference counts and the bypass of the dispatch    *)
(* loop add up to what t_debug_task and TaskProf's hooks rely on: each        *)
(* spawned task is executed once, on top of a join, and no join returns while *)
(* a task in its scope, at any depth, has yet to end.                         *)
ImplementsRuntime == Runtime!Spec

(* The main function gets to its end whatever the workers do: what they took  *)
(* they finish, what they left in their slots is found.                       *)
RunEnds == <>MainDone

================================================================================
