----------------------------- MODULE PrivateServer -----------------------------
(******************************************************************************)
(* private_server: the worker threads of TBB, which sleep while there is no   *)
(* demand for them.  my_slack is the demand less the workers that are up; a   *)
(* worker goes to sleep by giving its unit back under the lock of the list of *)
(* sleepers, and is woken by whoever takes a unit for it under that lock.     *)
(* Threads are created lazily: in the beginning the workers are on the list,  *)
(* and to wake one for the first time is to launch its thread.                *)
(*                                                                            *)
(* The client (Market) processes jobs at pc "process", and calls              *)
(* adjust_job_count_estimate by going to "estimate", and                      *)
(* request_close_connection by going to "close", with a pc to return to.      *)
(* A step has at most one access to what other threads change without the     *)
(* lock.                                                                      *)
(******************************************************************************)
EXTENDS ThreadMonitor, Integers, Sequences, SequencesExt

CONSTANTS
    Main,
    my_thread_array,    \* the workers, as a sequence
    LateSignals         \* whether a notify may be delayed between its two accesses
                        \* until the worker, awake without it, waits again

ASSUME ServerAssumption ==
    /\ LateSignals \in BOOLEAN
    /\ my_thread_array \in Seq(Workers)
    /\ Workers = Range(my_thread_array) /\ IsInjective(my_thread_array)
    /\ Main \notin Workers

VARIABLES
    my_slack,
    asleep_list,    \* from my_asleep_list_root on
    list_locked,    \* my_asleep_list_mutex
    my_state,       \* per worker
    my_ref_count,
    pc, local       \* per thread

server == <<monitor, my_slack, asleep_list, list_locked, my_state, my_ref_count>>

Threads == Workers \cup {Main}

my_n_thread == Len(my_thread_array)

\* A thread's locals: a number, the workers it has to wake, the pool state it
\* has seen, and the pc to which a call returns.
NewLocal == [n |-> 0, wakees |-> <<>>, seen |-> "empty", ret |-> "none"]

At(t, where) == pc[t] = where

Goto(t, where) == pc' = [pc EXCEPT ![t] = where]

SetN(t, n) == local' = [local EXCEPT ![t].n = n]

Call(t, where, n, ret) ==
    /\ Goto(t, where)
    /\ local' = [local EXCEPT ![t].n = n, ![t].ret = ret]

ServerInit ==
    /\ MonitorInit
    /\ my_slack = 0
    /\ asleep_list = Reverse(my_thread_array)
    /\ list_locked = FALSE
    /\ my_state = [w \in Workers |-> "init"]
    /\ my_ref_count = my_n_thread + 1
    /\ pc = [t \in Threads |-> IF t = Main THEN "main" ELSE "unborn"]
    /\ local = [t \in Threads |-> NewLocal]

(******************************************************************************)
(* private_worker::run                                                        *)
(******************************************************************************)

\* When it starts, and when it wakes up.
propagate_chain_reaction(w) ==
    /\ pc[w] \in {"born", "woken"}
    /\ IF asleep_list = <<>> THEN Goto(w, "loop") /\ UNCHANGED local
       ELSE Call(w, "wake", 0, "loop")
    /\ UNCHANGED server

TestState(w) ==
    /\ At(w, "loop")
    /\ Goto(w, IF my_state[w] = "quit" THEN "cleanup" ELSE "slack")
    /\ UNCHANGED <<server, local>>

TestSlack(w) ==
    /\ At(w, "slack")
    /\ Goto(w, IF my_slack >= 0 THEN "process" ELSE "prepare")
    /\ UNCHANGED <<server, local>>

BeingNotified(w) == \E t \in Threads : At(t, "signal") /\ Last(local[t].wakees) = w

PrepareWait(w) ==
    /\ LateSignals \/ ~BeingNotified(w)
    /\ \/ At(w, "prepare") /\ TakeCookie(w) /\ Goto(w, "announce")
       \/ At(w, "announce") /\ AnnounceWait(w) /\ Goto(w, "verify")
    /\ UNCHANGED <<my_slack, asleep_list, list_locked, my_state, my_ref_count, local>>

VerifyState(w) ==
    /\ At(w, "verify")
    /\ Goto(w, IF my_state[w] = "quit" THEN "cancel" ELSE "insert")
    /\ UNCHANGED <<server, local>>

\* try_insert_in_asleep_list: if the lock is free, add to the slack ...
GiveUnit(w) ==
    /\ At(w, "insert")
    /\ IF list_locked THEN Goto(w, "cancel") /\ UNCHANGED <<my_slack, list_locked, local>>
       ELSE /\ list_locked' = TRUE
            /\ my_slack' = my_slack + 1
            /\ SetN(w, my_slack + 1)
            /\ Goto(w, "inserting")
    /\ UNCHANGED <<monitor, asleep_list, my_state, my_ref_count>>

\* It forgets to take its unit back.
Insert_KeepsUnit(w) ==
    /\ At(w, "inserting")
    /\ IF local[w].n <= 0
       THEN asleep_list' = <<w>> \o asleep_list /\ Goto(w, "commit")
       ELSE Goto(w, "cancel") /\ UNCHANGED asleep_list
    /\ list_locked' = FALSE
    /\ UNCHANGED <<monitor, my_slack, my_state, my_ref_count, local>>

\* ... and go on the list, unless that shows that the worker is wanted.
Insert(w) ==
    /\ At(w, "inserting")
    /\ IF local[w].n <= 0
       THEN /\ asleep_list' = <<w>> \o asleep_list
            /\ Goto(w, "commit")
            /\ UNCHANGED my_slack
       ELSE /\ my_slack' = my_slack - 1
            /\ Goto(w, "cancel")
            /\ UNCHANGED asleep_list
    /\ list_locked' = FALSE
    /\ UNCHANGED <<monitor, my_state, my_ref_count, local>>

CancelWait(w) ==
    /\ At(w, "cancel")
    /\ cancel_wait(w)
    /\ Goto(w, "loop")
    /\ UNCHANGED <<my_slack, asleep_list, list_locked, my_state, my_ref_count, local>>

CommitWait(w) ==
    /\ \/ At(w, "commit") /\ ~MustCancel(w) /\ Goto(w, "sleep") /\ UNCHANGED monitor
       \/ At(w, "commit") /\ MustCancel(w) /\ Goto(w, "woken") /\ cancel_wait(w)
       \/ At(w, "sleep") /\ Awake(w) /\ Goto(w, "woken")
    /\ UNCHANGED <<my_slack, asleep_list, list_locked, my_state, my_ref_count, local>>

Cleanup(w) ==
    /\ At(w, "cleanup")
    /\ my_slack' = my_slack + 1
    /\ Goto(w, "unref")
    /\ UNCHANGED <<monitor, asleep_list, list_locked, my_state, my_ref_count, local>>

\* remove_server_ref; the last one destroys the server and the market.
Unref(w) ==
    /\ At(w, "unref")
    /\ my_ref_count' = my_ref_count - 1
    /\ Goto(w, "gone")
    /\ UNCHANGED <<monitor, my_slack, asleep_list, list_locked, my_state, local>>

(******************************************************************************)
(* adjust_job_count_estimate and wake_some                                    *)
(******************************************************************************)
adjust_job_count_estimate(t) ==
    LET delta == local[t].n
    IN  /\ At(t, "estimate")
        /\ IF delta < 0 THEN my_slack' = my_slack + delta /\ Goto(t, local[t].ret)
           ELSE Goto(t, "wake") /\ UNCHANGED my_slack
        /\ UNCHANGED <<monitor, asleep_list, list_locked, my_state, my_ref_count, local>>

LockList(t) ==
    /\ At(t, "wake")
    /\ ~list_locked
    /\ list_locked' = TRUE
    /\ Goto(t, "claim")
    /\ UNCHANGED <<monitor, my_slack, asleep_list, my_state, my_ref_count, local>>

\* It leaves the worker on the list.
ClaimUnit_Peeks(t) ==
    LET n == local[t].n
        mayPop == asleep_list # <<>> /\ Len(local[t].wakees) < 2
        claims == mayPop /\ IF n > 0 THEN n + my_slack > 0 ELSE my_slack > 0
    IN  /\ At(t, "claim")
        /\ IF claims
           THEN /\ local' = [local EXCEPT ![t].wakees = Append(@, Head(asleep_list)),
                                          ![t].n = IF n > 0 THEN n - 1 ELSE 0]
                /\ my_slack' = IF n > 0 THEN my_slack ELSE my_slack - 1
                /\ UNCHANGED <<list_locked, pc>>
           ELSE /\ my_slack' = my_slack + n
                /\ list_locked' = FALSE
                /\ SetN(t, 0)
                /\ Goto(t, "rouse")
        /\ UNCHANGED <<monitor, asleep_list, my_state, my_ref_count>>

\* A unit for a sleeper: of the additional slack, unless workers that are up
\* outweigh it, or without any, in a chain reaction, of my_slack.
ClaimUnit(t) ==
    LET n == local[t].n
        mayPop == asleep_list # <<>> /\ Len(local[t].wakees) < 2
        claims == mayPop /\ IF n > 0 THEN n + my_slack > 0 ELSE my_slack > 0
    IN  /\ At(t, "claim")
        /\ IF claims
           THEN /\ asleep_list' = Tail(asleep_list)
                /\ local' = [local EXCEPT ![t].wakees = Append(@, Head(asleep_list)),
                                          ![t].n = IF n > 0 THEN n - 1 ELSE 0]
                /\ my_slack' = IF n > 0 THEN my_slack ELSE my_slack - 1
                /\ UNCHANGED <<list_locked, pc>>
           ELSE /\ my_slack' = my_slack + n
                /\ list_locked' = FALSE
                /\ SetN(t, 0)
                /\ Goto(t, "rouse")
                /\ UNCHANGED asleep_list
        /\ UNCHANGED <<monitor, my_state, my_ref_count>>

\* wake_or_launch of the last worker claimed.
Rouse(t) ==
    LET w == Last(local[t].wakees)
    IN  /\ At(t, "rouse")
        /\ IF local[t].wakees = <<>>
           THEN Goto(t, local[t].ret) /\ UNCHANGED <<monitor, my_state>>
           ELSE IF my_state[w] = "init"
           THEN /\ my_state' = [my_state EXCEPT ![w] = "starting"]
                /\ pc' = [pc EXCEPT ![t] = "launched", ![w] = "born"]
                /\ UNCHANGED monitor
           ELSE /\ AdvanceEpoch(w)
                /\ Goto(t, "signal")
                /\ UNCHANGED my_state
        /\ UNCHANGED <<my_slack, asleep_list, list_locked, my_ref_count, local>>

\* Its rest: the launched thread is normal unless it is to quit already; the
\* notified one gets its signal.
Roused(t) ==
    LET w == Last(local[t].wakees)
    IN  /\ \/ /\ At(t, "launched")
              /\ my_state' = [my_state EXCEPT ![w] = IF @ = "starting" THEN "normal" ELSE @]
              /\ UNCHANGED monitor
           \/ /\ At(t, "signal")
              /\ Signal(w)
              /\ UNCHANGED my_state
        /\ local' = [local EXCEPT ![t].wakees = Front(@)]
        /\ Goto(t, "rouse")
        /\ UNCHANGED <<my_slack, asleep_list, list_locked, my_ref_count>>

(******************************************************************************)
(* request_close_connection: start_shutdown of every worker                   *)
(******************************************************************************)
\* It releases the server for workers that have a thread as well.
StartShutdown_ReleasesAll(t) ==
    LET i == local[t].n
        w == my_thread_array[i]
    IN  /\ At(t, "close") /\ i <= my_n_thread
        /\ my_state' = [my_state EXCEPT ![w] = "quit"]
        /\ my_ref_count' = my_ref_count - 1
        /\ IF my_state[w] = "init" THEN SetN(t, i + 1) /\ UNCHANGED pc
           ELSE Goto(t, "close_notify") /\ UNCHANGED local
        /\ UNCHANGED <<monitor, my_slack, asleep_list, list_locked>>

StartShutdown(t) ==
    LET i == local[t].n
        w == my_thread_array[i]
    IN  /\ At(t, "close") /\ i <= my_n_thread
        /\ my_state' = [my_state EXCEPT ![w] = "quit"]
        /\ IF my_state[w] = "init"
           THEN my_ref_count' = my_ref_count - 1 /\ SetN(t, i + 1) /\ UNCHANGED pc
           ELSE Goto(t, "close_notify") /\ UNCHANGED <<my_ref_count, local>>
        /\ UNCHANGED <<monitor, my_slack, asleep_list, list_locked>>

NotifyShutdown(t) ==
    LET w == my_thread_array[local[t].n]
    IN  /\ \/ At(t, "close_notify") /\ AdvanceEpoch(w) /\ Goto(t, "close_signal")
              /\ UNCHANGED local
           \/ At(t, "close_signal") /\ Signal(w) /\ Goto(t, "close")
              /\ SetN(t, local[t].n + 1)
        /\ UNCHANGED <<my_slack, asleep_list, list_locked, my_state, my_ref_count>>

CloseConnection(t) ==
    /\ At(t, "close") /\ local[t].n > my_n_thread
    /\ my_ref_count' = my_ref_count - 1
    /\ Goto(t, local[t].ret)
    /\ UNCHANGED <<monitor, my_slack, asleep_list, list_locked, my_state, local>>

ServerStep(t) ==
    \/ /\ t \in Workers
       /\ \/ propagate_chain_reaction(t) \/ TestState(t) \/ TestSlack(t)
          \/ PrepareWait(t) \/ VerifyState(t) \/ GiveUnit(t) \/ Insert(t)
          \/ CancelWait(t) \/ CommitWait(t) \/ Cleanup(t) \/ Unref(t)
    \/ adjust_job_count_estimate(t) \/ LockList(t) \/ ClaimUnit(t)
    \/ Rouse(t) \/ Roused(t)
    \/ StartShutdown(t) \/ NotifyShutdown(t) \/ CloseConnection(t)

================================================================================
