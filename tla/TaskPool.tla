------------------------------- MODULE TaskPool --------------------------------
(******************************************************************************)
(* The task pools of an arena: every thread in it owns a slot with a deque of *)
(* tasks.  The owner adds and takes at the tail without a lock, thieves take  *)
(* at the head under the slot's lock, and the two meet by announcing what     *)
(* they want before they look: the owner lowers the tail and then reads the   *)
(* head, a thief raises the head and then reads the tail.                     *)
(*                                                                            *)
(* task_pool is the field of that name: EmptyTaskPool ("empty", the slot is   *)
(* not published), LockedTaskPool ("locked"), or the address of the array     *)
(* ("open").  The array is cells; its indices begin at 0, those of a sequence *)
(* at 1.  tail is an intptr_t where it is compared: the owner may lower it    *)
(* to -1.  What the owner or a thief does between locking and unlocking is    *)
(* one step where nobody can see a part of it without the lock.               *)
(*                                                                            *)
(* Mailed tasks (proxies) and priorities are left out: no task of TaskProf's  *)
(* programs sets an affinity or a priority.                                   *)
(******************************************************************************)
EXTENDS Integers, Sequences, SequencesExt

CONSTANTS
    Threads,
    MinPoolSize     \* min_task_pool_size

ASSUME TaskPoolAssumption == MinPoolSize \in Nat \ {0}

VARIABLE slots

\* What poison_pointer leaves in a cell.
NoTask == -1

NewSlot == [task_pool |-> "empty", head |-> 0, tail |-> 0, cells |-> <<>>]

PoolInit == slots = [t \in Threads |-> NewSlot]

in_arena(t) == slots[t].task_pool # "empty"

\* acquire_task_pool and lock_task_pool wait while someone else has the lock.
Unlocked(t) == slots[t].task_pool # "locked"

HasRoom(t, n) == slots[t].tail + n <= Len(slots[t].cells)

Poisoned(n) == [i \in 1 .. n |-> NoTask]

Larger(a, b) == IF a < b THEN b ELSE a

prepare_task_pool_KeepsHead(t, n) ==
    LET s == slots[t]
        busy == SubSeq(s.cells, s.head + 1, s.tail)
        size == Len(s.cells)
        new_size == Len(busy) + n
        grown == IF new_size <= size - MinPoolSize \div 4 THEN size
                 ELSE Larger(new_size, IF size = 0 THEN MinPoolSize ELSE 2 * size)
    IN  /\ ~HasRoom(t, n)
        /\ Unlocked(t)
        /\ slots' = [slots EXCEPT ![t].tail = Len(busy),
                                  ![t].cells = busy \o Poisoned(grown - Len(busy))]

(* prepare_task_pool when the tasks do not fit behind the tail: the first     *)
(* allocation, the relocation of the tasks to the beginning of the array, or  *)
(* a larger array.                                                            *)
prepare_task_pool(t, n) ==
    LET s == slots[t]
        busy == SubSeq(s.cells, s.head + 1, s.tail)
        size == Len(s.cells)
        new_size == Len(busy) + n
        grown == IF new_size <= size - MinPoolSize \div 4 THEN size
                 ELSE Larger(new_size, IF size = 0 THEN MinPoolSize ELSE 2 * size)
    IN  /\ ~HasRoom(t, n)
        /\ Unlocked(t)
        /\ slots' = [slots EXCEPT ![t].head = 0,
                                  ![t].tail = Len(busy),
                                  ![t].cells = busy \o Poisoned(grown - Len(busy))]

(* commit_spawned_tasks, and enter_arena if the slot was not published.  The  *)
(* cells are written before the tail, and the tail before task_pool.          *)
commit_spawned_tasks(t, tasks) ==
    LET s == slots[t]
        T == s.tail
        written == [i \in DOMAIN s.cells |->
                       IF i \in T + 1 .. T + Len(tasks) THEN tasks[i - T] ELSE s.cells[i]]
    IN  /\ HasRoom(t, Len(tasks))
        /\ slots' = [slots EXCEPT ![t].cells = written,
                                  ![t].tail = T + Len(tasks),
                                  ![t].task_pool = IF @ = "empty" THEN "open" ELSE @]

(******************************************************************************)
(* get_task                                                                   *)
(******************************************************************************)

\* The owner announces that it takes the last task.
LowerTail(t) ==
    /\ in_arena(t)
    /\ slots' = [slots EXCEPT ![t].tail = @ - 1]

\* The head it then reads leaves it the task without the lock.
Undisputed(t) == slots[t].head <= slots[t].tail

\* The task at the tail.
OwnTask(t) == slots[t].cells[slots[t].tail + 1]

TakeOwn(t) ==
    /\ Undisputed(t)
    /\ slots' = [slots EXCEPT ![t].cells[slots[t].tail + 1] = NoTask]

(* Otherwise it decides under the lock.  If the thief has backed off, or was  *)
(* after another task, the task is the owner's.  When none is left behind it  *)
(* the slot is reset and leaves the arena (reset_deque_and_leave_arena).      *)
Arbitrated(t) == IF Undisputed(t) THEN OwnTask(t) ELSE NoTask

Arbitrate_KeepsTail(t) ==
    LET s == slots[t]
        cells == IF Undisputed(t) THEN [s.cells EXCEPT ![s.tail + 1] = NoTask] ELSE s.cells
    IN  /\ Unlocked(t)
        /\ slots' = [slots EXCEPT ![t] =
                        IF s.head < s.tail THEN [s EXCEPT !.cells = cells]
                        ELSE [s EXCEPT !.task_pool = "empty", !.cells = cells]]

Arbitrate_StaysInArena(t) ==
    LET s == slots[t]
        cells == IF Undisputed(t) THEN [s.cells EXCEPT ![s.tail + 1] = NoTask] ELSE s.cells
    IN  /\ Unlocked(t)
        /\ slots' = [slots EXCEPT ![t].cells = cells]

Arbitrate(t) ==
    LET s == slots[t]
        cells == IF Undisputed(t) THEN [s.cells EXCEPT ![s.tail + 1] = NoTask] ELSE s.cells
    IN  /\ Unlocked(t)
        /\ slots' = [slots EXCEPT ![t] =
                        IF s.head < s.tail THEN [s EXCEPT !.cells = cells]
                        ELSE [task_pool |-> "empty", head |-> 0, tail |-> 0, cells |-> cells]]

(******************************************************************************)
(* steal_task                                                                 *)
(******************************************************************************)

\* A thief locks slot v and announces that it takes the first task.
RaiseHead(v) ==
    /\ slots[v].task_pool = "open"
    /\ slots' = [slots EXCEPT ![v].task_pool = "locked", ![v].head = @ + 1]

BackOff_KeepsHead(v) ==
    /\ slots[v].head > slots[v].tail
    /\ slots' = [slots EXCEPT ![v].task_pool = "open"]

\* The tail it then reads leaves it no task.
BackOff(v) ==
    /\ slots[v].head > slots[v].tail
    /\ slots' = [slots EXCEPT ![v].task_pool = "open", ![v].head = @ - 1]

StolenTask(v) == slots[v].cells[slots[v].head]

TakeStolen(v) ==
    /\ slots[v].head <= slots[v].tail
    /\ slots' = [slots EXCEPT ![v].task_pool = "open", ![v].cells[slots[v].head] = NoTask]

================================================================================
