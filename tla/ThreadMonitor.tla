----------------------------- MODULE ThreadMonitor -----------------------------
(******************************************************************************)
(* thread_monitor: a worker's two-phase wait on a binary semaphore.  It first *)
(* says that it is about to wait, then looks whether it still should, and     *)
(* then commits to the wait or cancels it.  A notify in between is found by   *)
(* the epoch it has advanced, or by the signal it has left.                   *)
(*                                                                            *)
(* An epoch is only ever compared with the cookie taken before: advanced is   *)
(* whether they differ.                                                       *)
(******************************************************************************)
EXTENDS Naturals

CONSTANT Workers

VARIABLE monitor

NewMonitor == [advanced |-> FALSE, in_wait |-> FALSE, spurious |-> FALSE, posted |-> FALSE]

MonitorInit == monitor = [w \in Workers |-> NewMonitor]

\* notify is two accesses: it advances the epoch, and signals if in_wait.
AdvanceEpoch(w) == monitor' = [monitor EXCEPT ![w].advanced = TRUE]

Signal(w) == monitor' = [monitor EXCEPT ![w].in_wait = FALSE,
                                        ![w].posted = @ \/ monitor[w].in_wait]

\* prepare_wait is two more; a spurious signal is consumed first.
TakeCookie(w) ==
    /\ monitor[w].spurious => monitor[w].posted
    /\ monitor' = [monitor EXCEPT ![w].advanced = FALSE, ![w].spurious = FALSE,
                                  ![w].posted = @ /\ ~monitor[w].spurious]

AnnounceWait(w) == monitor' = [monitor EXCEPT ![w].in_wait = TRUE]

\* commit_wait cancels the wait if the epoch has advanced, or blocks.
MustCancel(w) == monitor[w].advanced

cancel_wait(w) == monitor' = [monitor EXCEPT ![w].in_wait = FALSE,
                                             ![w].spurious = ~monitor[w].in_wait]

Awake(w) ==
    /\ monitor[w].posted
    /\ monitor' = [monitor EXCEPT ![w].posted = FALSE]

================================================================================
