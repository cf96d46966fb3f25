-------------------------------- MODULE StepLog --------------------------------
(******************************************************************************)
(* What Task_Logger promises its callers: every thread has a log of its own.  *)
(* Cycles counted before the end of a step accumulate in an open entry, with  *)
(* the part that belongs to each annotated region; logging a node closes the  *)
(* open entry under that node's data, and nothing closed ever changes.  At    *)
(* the end the main step is closed and the logs are final.                    *)
(******************************************************************************)
EXTENDS Integers, Sequences

CONSTANTS Threads, FirstThread, Nodes, NodeTypes, Regions, Counts

VARIABLES
    entries,     \* per thread, the closed entries
    open,    \* per thread, the work and region work gathered for the next one
    final

vars == <<entries, open, final>>

NoWork == [work |-> 0, region_work |-> [r \in Regions |-> 0]]

Closed(t, n, type, count) ==
    [node_id |-> n, node_type |-> type,
     work |-> open[t].work + count, region_work |-> open[t].region_work]

\* The open entry with work that is also the region's.
InRegion(t, r, count) ==
    [work |-> open[t].work + count,
     region_work |-> [open[t].region_work EXCEPT ![r] = @ + count]]

Init ==
    /\ entries = [t \in Threads |-> <<>>]
    /\ open = [t \in Threads |-> NoWork]
    /\ final = FALSE

Close(t, n, type, count) ==
    /\ entries' = [entries EXCEPT ![t] = Append(@, Closed(t, n, type, count))]
    /\ open' = [open EXCEPT ![t] = NoWork]

LogNode(t) ==
    /\ ~final
    /\ \E n \in Nodes, type \in NodeTypes, count \in Counts \cup {0} : Close(t, n, type, count)
    /\ UNCHANGED final

Gather(t) ==
    /\ ~final
    /\ \E count \in Counts : open' = [open EXCEPT ![t].work = @ + count]
    /\ UNCHANGED <<entries, final>>

GatherRegion(t) ==
    /\ ~final
    /\ \E count \in Counts, r \in Regions :
          open' = [open EXCEPT ![t] = InRegion(t, r, count)]
    /\ UNCHANGED <<entries, final>>

Finish ==
    /\ ~final
    /\ \E n \in Nodes, type \in NodeTypes, count \in Counts : Close(FirstThread, n, type, count)
    /\ final' = TRUE

Next ==
    \/ \E t \in Threads : LogNode(t) \/ Gather(t) \/ GatherRegion(t)
    \/ Finish

Spec == Init /\ [][Next]_vars

================================================================================
