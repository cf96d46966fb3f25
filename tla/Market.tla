-------------------------------- MODULE Market ---------------------------------
(******************************************************************************)
(* How workers come to an arena and leave it: the pool state of the arena,    *)
(* the demand that the market derives from it, the server's threads           *)
(* (PrivateServer), and the end of all three.                                 *)
(*                                                                            *)
(*   A thread that spawns into an arena which is not "full" marks it so; if   *)
(*   it was "empty" the thread raises the demand.  A worker that finds no     *)
(*   work takes a snapshot: it marks the arena busy, looks into every pool,   *)
(*   and if nobody has marked it full meanwhile, marks it empty and lowers    *)
(*   the demand.  Who leaves an arena without threads and demand destroys it, *)
(*   who gives back the last reference to the market closes the server, and   *)
(*   the last thread out of the server destroys that and the market.          *)
(*                                                                            *)
(* There is one master and one arena, as in a TaskProf program, with a slot   *)
(* for every thread.  A pool is reduced to its number of tasks (TaskPool has  *)
(* the pool, and Scheduler what a thread does in the arena); the main program *)
(* spawns, takes tasks while it waits, and leaves when all have ended.        *)
(* Left out: enqueue, priorities (all tasks have the normal one),             *)
(* observers, and a master that waits for its workers to terminate.           *)
(******************************************************************************)
EXTENDS PrivateServer, FiniteSetsExt

CONSTANT MaxSpawns  \* bounds the program

ASSUME MarketAssumption ==
    /\ MaxSpawns \in Nat
    /\ {"empty", "full"} \cap Workers = {}

VARIABLES
    my_pool_state,              \* "empty", "full", or who takes a snapshot
    tasks,                      \* per slot, the tasks that can be seen in it
    my_references,              \* 1 for the master, 2 for every worker
    my_num_workers_requested,
    my_num_workers_allotted,
    workers_requested,          \* of the market's priority level
    freed,                      \* the arena has been
    market_ref_count,
    spawned, unfinished,        \* tasks, in all and not ended
    unfenced                    \* slots with a task whose spawner had read the
                                \* pool state before the task could be seen

demand == <<my_num_workers_requested, my_num_workers_allotted, workers_requested>>
lifetime == <<my_references, freed, market_ref_count>>
work == <<tasks, spawned, unfinished, unfenced>>
vars == <<server, pc, local, my_pool_state, demand, lifetime, work>>

my_max_num_workers == my_n_thread

num_workers_active == my_references \div 2

theMarket == market_ref_count > 0

Smaller(a, b) == IF a < b THEN a ELSE b

\* The lock of the list of arenas is held for reading between two steps.
Readers == {w \in Workers : At(w, "admit")}

(******************************************************************************)
(* The program                                                                *)
(******************************************************************************)
Running(t) == pc[t] \in {"main", "execute"}

MaySpawn(t) == Running(t) /\ spawned < MaxSpawns

NewTask == spawned' = spawned + 1 /\ unfinished' = unfinished + 1

\* local_spawn of a task that is seen before advertise_new_work looks ...
Spawn(t) ==
    /\ MaySpawn(t)
    /\ NewTask
    /\ tasks' = [tasks EXCEPT ![t] = @ + 1]
    /\ Call(t, "advertise", 0, pc[t])
    /\ UNCHANGED <<server, my_pool_state, demand, lifetime, unfenced>>

\* ... or, without a fence, only after it has looked.
SpawnUnfenced(t) ==
    /\ MaySpawn(t)
    /\ NewTask
    /\ Goto(t, "store")
    /\ local' = [local EXCEPT ![t].seen = my_pool_state, ![t].ret = pc[t]]
    /\ UNCHANGED <<server, my_pool_state, demand, lifetime, tasks, unfenced>>

Store(t) ==
    /\ At(t, "store")
    /\ tasks' = [tasks EXCEPT ![t] = @ + 1]
    /\ unfenced' = unfenced \cup {t}
    /\ Goto(t, IF local[t].seen = "full" THEN local[t].ret ELSE "mark")
    /\ UNCHANGED <<server, local, my_pool_state, demand, lifetime, spawned, unfinished>>

\* Thread t takes a task from slot s.
TakeFrom(s) ==
    /\ tasks[s] > 0
    /\ tasks' = [tasks EXCEPT ![s] = @ - 1]
    /\ unfenced' = IF tasks[s] = 1 THEN unfenced \ {s} ELSE unfenced

\* The master, waiting, executes a task.
MasterTakes ==
    /\ At(Main, "main")
    /\ \E s \in Threads : TakeFrom(s)
    /\ unfinished' = unfinished - 1
    /\ UNCHANGED <<server, pc, local, my_pool_state, demand, lifetime, spawned>>

\* A worker finds one in the stealing loop, and ends it.
WorkerTakes(w) ==
    /\ At(w, "arena")
    /\ \E s \in Threads : TakeFrom(s)
    /\ Goto(w, "execute")
    /\ UNCHANGED <<server, local, my_pool_state, demand, lifetime, spawned, unfinished>>

EndTask(w) ==
    /\ At(w, "execute")
    /\ unfinished' = unfinished - 1
    /\ Goto(w, "arena")
    /\ UNCHANGED <<server, local, my_pool_state, demand, lifetime, tasks, spawned, unfenced>>

(******************************************************************************)
(* arena::advertise_new_work                                                  *)
(******************************************************************************)
Advertise(t) ==
    /\ At(t, "advertise")
    /\ IF my_pool_state = "full" THEN Goto(t, local[t].ret) /\ UNCHANGED local
       ELSE Goto(t, "mark") /\ local' = [local EXCEPT ![t].seen = my_pool_state]
    /\ UNCHANGED <<server, my_pool_state, demand, lifetime, work>>

\* Who takes the state from a snapshot raises the demand, too.
MarkFull_AlwaysResponsible(t) ==
    LET seen == local[t].seen
        responsible == my_pool_state = seen
    IN  /\ At(t, "mark")
        /\ my_pool_state' = IF responsible THEN "full" ELSE my_pool_state
        /\ IF responsible THEN Goto(t, "adjust") /\ SetN(t, my_max_num_workers)
           ELSE Goto(t, local[t].ret) /\ UNCHANGED local
        /\ UNCHANGED <<server, demand, lifetime, work>>

\* The first compare_and_swap, of what was seen.
MarkFull(t) ==
    LET seen == local[t].seen
        responsible == my_pool_state = "empty"
    IN  /\ At(t, "mark")
        /\ my_pool_state' = IF my_pool_state = seen THEN "full" ELSE my_pool_state
        /\ IF ~responsible THEN Goto(t, local[t].ret) /\ UNCHANGED local
           ELSE IF seen = "empty" THEN Goto(t, "adjust") /\ SetN(t, my_max_num_workers)
           ELSE Goto(t, "mark_empty") /\ UNCHANGED local
        /\ UNCHANGED <<server, demand, lifetime, work>>

\* The second, when a snapshot has ended in between.
MarkEmptyFull(t) ==
    /\ At(t, "mark_empty")
    /\ IF my_pool_state = "empty"
       THEN my_pool_state' = "full" /\ Goto(t, "adjust") /\ SetN(t, my_max_num_workers)
       ELSE Goto(t, local[t].ret) /\ UNCHANGED <<my_pool_state, local>>
    /\ UNCHANGED <<server, demand, lifetime, work>>

(******************************************************************************)
(* arena::is_out_of_work                                                      *)
(******************************************************************************)
SnapshotBegins(w) ==
    /\ At(w, "arena")
    /\ IF my_pool_state = "full"
       THEN my_pool_state' = w /\ Goto(w, "scan") /\ SetN(w, 0)
       ELSE /\ my_pool_state = "empty" /\ Goto(w, "loop_end")
            /\ UNCHANGED <<my_pool_state, local>>
    /\ UNCHANGED <<server, demand, lifetime, work>>

\* The slots in the order of their indices: the master's is 0.
Slot(k) == IF k = 0 THEN Main ELSE my_thread_array[k]

Scan(w) ==
    LET k == local[w].n
    IN  /\ At(w, "scan") /\ k <= my_n_thread
        /\ IF tasks[Slot(k)] > 0
           THEN Goto(w, "undo") /\ UNCHANGED local
           ELSE IF my_pool_state # w THEN Goto(w, "arena") /\ UNCHANGED local
           ELSE SetN(w, k + 1) /\ UNCHANGED pc
        /\ UNCHANGED <<server, my_pool_state, demand, lifetime, work>>

UndoSnapshot(w) ==
    /\ At(w, "undo")
    /\ my_pool_state' = IF my_pool_state = w THEN "full" ELSE my_pool_state
    /\ Goto(w, "arena")
    /\ UNCHANGED <<server, local, demand, lifetime, work>>

\* It stores "empty" without comparing.
SnapshotEnds_Stores(w) ==
    /\ At(w, "scan") /\ local[w].n > my_n_thread
    /\ my_pool_state' = "empty"
    /\ Call(w, "adjust", -my_max_num_workers, "loop_end")
    /\ UNCHANGED <<server, demand, lifetime, work>>

\* It leaves the demand to whoever raised it.
SnapshotEnds_KeepsDemand(w) ==
    /\ At(w, "scan") /\ local[w].n > my_n_thread
    /\ IF my_pool_state = w
       THEN my_pool_state' = "empty" /\ Goto(w, "loop_end") /\ UNCHANGED local
       ELSE Goto(w, "arena") /\ UNCHANGED <<my_pool_state, local>>
    /\ UNCHANGED <<server, demand, lifetime, work>>

SnapshotEnds(w) ==
    /\ At(w, "scan") /\ local[w].n > my_n_thread
    /\ IF my_pool_state = w
       THEN my_pool_state' = "empty" /\ Call(w, "adjust", -my_max_num_workers, "loop_end")
       ELSE Goto(w, "arena") /\ UNCHANGED <<my_pool_state, local>>
    /\ UNCHANGED <<server, demand, lifetime, work>>

(******************************************************************************)
(* market::adjust_demand, up to the call of adjust_job_count_estimate         *)
(******************************************************************************)
adjust_demand(t) ==
    LET prev == my_num_workers_requested
        requested == prev + local[t].n
        delta == CASE requested <= 0 /\ prev > 0  -> -prev
                   [] requested <= 0 /\ prev <= 0 -> 0
                   [] requested > 0 /\ prev < 0   -> requested
                   [] OTHER                       -> local[t].n
    IN  /\ At(t, "adjust") /\ Readers = {}
        /\ my_num_workers_requested' = requested
        /\ workers_requested' = workers_requested + delta
        /\ my_num_workers_allotted' =
              IF requested <= 0 THEN 0 ELSE Smaller(requested, my_max_num_workers)
        /\ SetN(t, delta)
        /\ Goto(t, IF delta = 0 THEN local[t].ret ELSE "estimate")
        /\ UNCHANGED <<server, my_pool_state, lifetime, work>>

(******************************************************************************)
(* market::process and arena::process                                         *)
(******************************************************************************)

\* arena_in_need: without the lock, is there any demand; and with it, reading,
\* has the arena fewer workers than it is allotted?
SeekArena(w) ==
    /\ \/ At(w, "process") /\ Goto(w, IF workers_requested > 0 THEN "need" ELSE "loop")
       \/ At(w, "need") /\ Goto(w, IF ~freed /\ num_workers_active < my_num_workers_allotted
                                   THEN "admit" ELSE "loop")
    /\ UNCHANGED <<server, local, my_pool_state, demand, lifetime, work>>

EnterArena(w) ==
    /\ At(w, "admit")
    /\ my_references' = my_references + 2
    /\ Goto(w, "arena")
    /\ UNCHANGED <<server, local, my_pool_state, demand, freed, market_ref_count, work>>

TooManyWorkers == num_workers_active > my_num_workers_allotted

\* The stealing loop ends without a task: for want of work, above, or when
\* there are too many workers.  It begins again if there are not.
Relinquish(w) ==
    /\ At(w, "arena") /\ TooManyWorkers
    /\ Goto(w, "loop_end")
    /\ UNCHANGED <<server, local, my_pool_state, demand, lifetime, work>>

LoopEnds(w) ==
    /\ At(w, "loop_end")
    /\ Goto(w, IF TooManyWorkers THEN "leave" ELSE "arena")
    /\ UNCHANGED <<server, local, my_pool_state, demand, lifetime, work>>

(******************************************************************************)
(* arena::on_thread_leaving, and what it may bring down                       *)
(******************************************************************************)
AfterLeaving(t) == IF t = Main THEN "done" ELSE "process"

WorkerLeaves(w) ==
    /\ At(w, "leave")
    /\ my_references' = my_references - 2
    /\ Goto(w, IF my_references = 2 THEN "destroy" ELSE "process")
    /\ UNCHANGED <<server, local, my_pool_state, demand, freed, market_ref_count, work>>

\* cleanup_master.
MasterLeaves ==
    /\ At(Main, "main") /\ unfinished = 0
    /\ my_references' = my_references - 1
    /\ Goto(Main, IF my_references = 1 THEN "destroy" ELSE "done")
    /\ UNCHANGED <<server, local, my_pool_state, demand, freed, market_ref_count, work>>

\* try_destroy_arena: the market may be gone; the master keeps it from going.
TryDestroy(t) ==
    /\ At(t, "destroy")
    /\ market_ref_count' = market_ref_count + IF t = Main /\ theMarket THEN 1 ELSE 0
    /\ Goto(t, IF theMarket THEN "destroy_arena" ELSE AfterLeaving(t))
    /\ UNCHANGED <<server, local, my_pool_state, demand, my_references, freed, work>>

\* It does not look for threads in the arena.
TryDestroyArena_OnDemandOnly(t) ==
    LET destroys == ~freed /\ my_num_workers_requested = 0
        n == (IF destroys THEN 1 ELSE 0) + (IF t = Main THEN 1 ELSE 0)
    IN  /\ At(t, "destroy_arena") /\ Readers = {}
        /\ freed' = (freed \/ destroys)
        /\ Call(t, IF n > 0 THEN "release" ELSE AfterLeaving(t), n, AfterLeaving(t))
        /\ UNCHANGED <<server, my_pool_state, demand, my_references, market_ref_count, work>>

\* Under the lock, if the arena is still in the list.  A reference to the
\* market goes with the arena, and the one the master took.
TryDestroyArena(t) ==
    LET destroys == ~freed /\ my_num_workers_requested = 0 /\ my_references = 0
        n == (IF destroys THEN 1 ELSE 0) + (IF t = Main THEN 1 ELSE 0)
    IN  /\ At(t, "destroy_arena") /\ Readers = {}
        /\ freed' = (freed \/ destroys)
        /\ Call(t, IF n > 0 THEN "release" ELSE AfterLeaving(t), n, AfterLeaving(t))
        /\ UNCHANGED <<server, my_pool_state, demand, my_references, market_ref_count, work>>

\* market::release; the last reference closes the connection to the server.
Release(t) ==
    LET n == local[t].n
    IN  /\ At(t, "release")
        /\ market_ref_count' = market_ref_count - 1
        /\ IF market_ref_count = 1 THEN Goto(t, "close") /\ SetN(t, 1)
           ELSE Goto(t, IF n > 1 THEN "release" ELSE local[t].ret) /\ SetN(t, n - 1)
        /\ UNCHANGED <<server, my_pool_state, demand, my_references, freed, work>>

(******************************************************************************)
(* The specification                                                          *)
(******************************************************************************)
Init ==
    /\ ServerInit
    /\ my_pool_state = "empty"
    /\ tasks = [t \in Threads |-> 0]
    /\ my_references = 1
    /\ my_num_workers_requested = 0
    /\ my_num_workers_allotted = 0
    /\ workers_requested = 0
    /\ freed = FALSE
    /\ market_ref_count = 1
    /\ spawned = 0
    /\ unfinished = 0
    /\ unfenced = {}

ThreadStep(t) ==
    \/ ServerStep(t) /\ UNCHANGED <<my_pool_state, demand, lifetime, work>>
    \/ Store(t) \/ Advertise(t) \/ MarkFull(t) \/ MarkEmptyFull(t)
    \/ adjust_demand(t)
    \/ TryDestroy(t) \/ TryDestroyArena(t) \/ Release(t)
    \/ t = Main /\ (MasterTakes \/ MasterLeaves)
    \/ /\ t \in Workers
       /\ \/ WorkerTakes(t) \/ EndTask(t)
          \/ SnapshotBegins(t) \/ Scan(t) \/ UndoSnapshot(t) \/ SnapshotEnds(t)
          \/ SeekArena(t) \/ EnterArena(t) \/ Relinquish(t) \/ LoopEnds(t) \/ WorkerLeaves(t)

\* All threads have ended.
Closed == At(Main, "done") /\ \A w \in Workers : pc[w] \in {"unborn", "gone"}

Terminated == Closed /\ UNCHANGED vars

Next ==
    \/ \E t \in Threads : ThreadStep(t) \/ Spawn(t) \/ SpawnUnfenced(t)
    \/ Terminated

Spec == Init /\ [][Next]_vars

(* Threads are scheduled fairly.  That alone ends every wait: no two threads  *)
(* pass a lock to each other forever while a third one waits for it.          *)
Fairness == \A t \in Threads : WF_vars(ThreadStep(t))

FairSpec == Spec /\ Fairness

(******************************************************************************)
(* Properties                                                                 *)
(******************************************************************************)

(* Type correctness. *)
TypeOK ==
    /\ monitor \in [Workers -> [advanced : BOOLEAN, in_wait : BOOLEAN,
                                spurious : BOOLEAN, posted : BOOLEAN]]
    /\ my_slack \in Int
    /\ asleep_list \in Seq(Workers)
    /\ list_locked \in BOOLEAN
    /\ my_state \in [Workers -> {"init", "starting", "normal", "quit"}]
    /\ my_ref_count \in 0 .. my_n_thread + 1
    /\ my_pool_state \in {"empty", "full"} \cup Workers
    /\ tasks \in [Threads -> 0 .. MaxSpawns]
    /\ my_references \in 0 .. 2 * my_n_thread + 1
    /\ my_num_workers_requested \in Int
    /\ my_num_workers_allotted \in 0 .. my_n_thread
    /\ workers_requested \in Nat
    /\ freed \in BOOLEAN
    /\ market_ref_count \in 0 .. 2
    /\ spawned \in 0 .. MaxSpawns
    /\ unfinished \in 0 .. MaxSpawns
    /\ unfenced \subseteq Threads

(* Each transition of the pool state between empty and not empty is told to   *)
(* the market once, though the calls may arrive in any order: what has been   *)
(* told is what the state calls for, but for what is still about to be told.  *)
DemandMatchesState ==
    LET raising == {t \in Threads : At(t, "adjust") /\ local[t].n > 0}
        lowering == {t \in Threads : At(t, "adjust") /\ local[t].n < 0}
        wanted == IF my_pool_state = "empty" THEN 0 ELSE 1
    IN  my_num_workers_requested
            = my_max_num_workers * (wanted - Cardinality(raising) + Cardinality(lowering))

Total(S, value(_)) == MapThenSumSet(value, S)

(* "Number of jobs that could use their associated thread minus number of     *)
(* active threads": until the server closes, my_slack is the market's demand  *)
(* less the workers that are up, but for what calls in progress still hold.   *)
SlackIsExact ==
    LET held(t) == IF pc[t] \in {"estimate", "wake", "claim"} THEN local[t].n ELSE 0
        giving == {w \in Workers : At(w, "inserting")}
        up == Workers \ (Range(asleep_list) \cup giving)
    IN  theMarket =>
            my_slack + Total(Threads, held) = workers_requested - Cardinality(up)

(* Workers on the list are "asleep or committed to sleeping until notified"   *)
(* or have no thread yet, and are there once: none that has been claimed for  *)
(* a unit of slack, or runs, is still there to be claimed again.              *)
ListedAreAsleep ==
    theMarket =>
        /\ IsInjective(asleep_list)
        /\ \A w \in Range(asleep_list) :
              my_state[w] = "init" \/ pc[w] \in {"commit", "sleep"}

(* The snapshot loses no work: a task in a pool, whose spawner has returned   *)
(* from advertise_new_work, is in an arena that is not marked empty.  Except  *)
(* a task that was seen only after its spawner had looked: advertise_new_work *)
(* is "deliberately sloppy about memory fences".                              *)
WorkIsAdvertised ==
    \A t \in Threads :
        tasks[t] > 0 /\ t \notin unfenced /\ pc[t] \notin {"advertise", "mark", "mark_empty"} =>
            my_pool_state # "empty"

(* The arena is destroyed once, by the last thread to leave it, when it has   *)
(* no work and no demand, as free_arena asserts (it may be full only if it    *)
(* has no workers), and nobody accesses it afterwards; nor the server or the  *)
(* market once my_ref_count is 0.                                             *)
NothingUsedAfterFree ==
    LET inArena == {"arena", "execute", "store", "advertise", "mark", "mark_empty", "adjust",
                    "scan", "undo", "loop_end", "admit", "leave", "main"}
    IN  /\ freed => /\ my_references = 0 /\ unfinished = 0
                    /\ my_num_workers_requested = 0 /\ my_num_workers_allotted = 0
                    /\ my_pool_state = "empty" \/ my_max_num_workers = 0
                    /\ \A t \in Threads : pc[t] \notin inArena
        /\ my_ref_count = 0 =>
              freed /\ \A t \in Threads : pc[t] \in {"unborn", "gone", "done", "destroy"}

(* The program gets to its end and everything is taken down: the last demand  *)
(* finds a worker that withdraws it, the arena is destroyed, the workers are  *)
(* woken to quit, and the server is destroyed.                                *)
TakenDown == <>(Closed /\ freed /\ my_ref_count = 0)

================================================================================
