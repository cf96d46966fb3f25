------------------------------ MODULE TaskRuntime ------------------------------
(******************************************************************************)
(* What TaskProf relies on TBB for, without how TBB does it: a spawned task   *)
(* is executed once, by one thread, on top of whatever that thread waits for; *)
(* the task of a blocking spawn is executed first and by its spawner; a join  *)
(* returns when everything in its scope has ended.                            *)
(*                                                                            *)
(* Scheduler shows that the work-stealing scheduler implements this, and      *)
(* Collection that the profiler's hooks are called in no other order.         *)
(******************************************************************************)
EXTENDS Naturals, Sequences, SequencesExt

CONSTANTS
    Threads,
    Main,       \* the thread of the main function
    Tasks,      \* the tasks of the program and the main function
    MainTask    \* which stands for the main function

VARIABLES
    pool,       \* spawned and not begun
    stack,      \* per thread, the tasks it is in, innermost last
    ended,
    above       \* per task handed to the scheduler, its ancestors

vars == <<pool, stack, ended, above>>

(* A level of a stack: a task, and if it is blocked the scope of its join,    *)
(* which is the task itself for a join of everything below it, and the child  *)
(* for a spawn_root_and_wait.                                                 *)
Level(k, blocked, scope) == [task |-> k, blocked |-> blocked, scope |-> scope]

Running(k) == Level(k, FALSE, k)

\* Thread t executes a task, and is not in a join.
Executes(t) == stack[t] # <<>> /\ ~Last(stack[t]).blocked

\* Thread t has nothing of its own to do.
Available(t) == stack[t] = <<>> \/ Last(stack[t]).blocked

Unused == {k \in Tasks \ {MainTask} :
              /\ k \notin pool \cup ended
              /\ \A t \in Threads : \A i \in DOMAIN stack[t] : stack[t][i].task # k}

Awaited(level) ==
    {k \in Tasks \ {level.task} : level.scope \in above[k] \cup {k}}

Below(k) == above[k] \cup {k}

WithTop(s, level) == Append(Front(s), level)

Spawn(t, K) ==
    /\ Executes(t)
    /\ K # {}
    /\ pool' = pool \cup K
    /\ above' = [k \in Tasks |-> IF k \in K THEN Below(Last(stack[t]).task) ELSE above[k]]
    /\ UNCHANGED <<stack, ended>>

Call(t, k, scope) ==
    LET caller == Last(stack[t]).task
    IN  /\ Executes(t)
        /\ scope \in {k, caller}
        /\ stack' = [stack EXCEPT ![t] =
                        Append(WithTop(@, Level(caller, TRUE, scope)), Running(k))]
        /\ above' = [above EXCEPT ![k] = Below(caller)]
        /\ UNCHANGED <<pool, ended>>

Wait(t) ==
    LET k == Last(stack[t]).task
    IN  /\ Executes(t)
        /\ stack' = [stack EXCEPT ![t] = WithTop(@, Level(k, TRUE, k))]
        /\ UNCHANGED <<pool, ended, above>>

Take(t, k) ==
    /\ Available(t)
    /\ pool' = pool \ {k}
    /\ stack' = [stack EXCEPT ![t] = Append(@, Running(k))]
    /\ UNCHANGED <<ended, above>>

Join(t) ==
    /\ stack[t] # <<>> /\ Last(stack[t]).blocked
    /\ Awaited(Last(stack[t])) \subseteq ended
    /\ stack' = [stack EXCEPT ![t] = WithTop(@, Running(Last(@).task))]
    /\ UNCHANGED <<pool, ended, above>>

End(t) ==
    /\ Executes(t) /\ Last(stack[t]).task # MainTask
    /\ ended' = ended \cup {Last(stack[t]).task}
    /\ stack' = [stack EXCEPT ![t] = Front(@)]
    /\ UNCHANGED <<pool, above>>

Init ==
    /\ pool = {}
    /\ stack = [t \in Threads |-> IF t = Main THEN <<Running(MainTask)>> ELSE <<>>]
    /\ ended = {}
    /\ above = [k \in Tasks |-> {}]

Next == \E t \in Threads :
    \/ \E K \in SUBSET Unused : Spawn(t, K)
    \/ \E k \in Unused : \E scope \in Tasks : Call(t, k, scope)
    \/ \E k \in pool : Take(t, k)
    \/ Wait(t)
    \/ Join(t)
    \/ End(t)

Spec == Init /\ [][Next]_vars

================================================================================
