------------------------------- MODULE TaskLogger ------------------------------
(******************************************************************************)
(* class Task_Logger: a buffer of NUM_ENTRIES slots per thread, one array of  *)
(* rows in memory, flushed to the thread's file when a call finds it full.    *)
(*                                                                            *)
(* The slot after the last one of a row is the first slot of the next row:    *)
(* log clears it when it has filled its row.  Address makes that plain.  For  *)
(* the last row it lies behind the array; LoggerAssumption keeps that row     *)
(* unused, so that no read or write leaves the array.                         *)
(*                                                                            *)
(* A thread's calls come as Task_Profiler and AFTaskGraph make them: the end  *)
(* of a step, then any number of new tree nodes, then the next step; inside a *)
(* step, region annotations in pairs.  RegionsSpanSpawns says whether a       *)
(* region may reach over the end of a step.                                   *)
(* A call is one step: it takes no lock, and when no two used rows are        *)
(* neighbours it shares no slot with another thread.                          *)
(* Operators with an underscore behind a definition's name are mutants of it. *)
(******************************************************************************)
EXTENDS NodeTypes, Sequences

CONSTANTS
    NUM_THREADS, NUM_ENTRIES,
    Used,                \* the threads that log; 0 is main
    Regions,             \* the return addresses of the region annotations
    RegionsSpanSpawns,
    MaxCalls             \* bound on the calls that log a node or a region

ASSUME LoggerAssumption ==
    /\ NUM_THREADS \in Nat /\ NUM_ENTRIES \in Nat \ {0} /\ MaxCalls \in Nat
    /\ Used \subseteq 0 .. NUM_THREADS - 2 /\ 0 \in Used
    /\ RegionsSpanSpawns \in BOOLEAN

VARIABLES
    step_work_list,  \* the slots
    last_allocated,  \* per row, the slot the next entry goes to
    file,            \* per row, the entries written to step_work_<row>.csv
    closed,          \* Fini has run
    inStep, inRegion,  \* where each thread is in its sequence of calls
    calls              \* calls so far; the data of a node is the call that logged it

buffer == <<step_work_list, last_allocated, file, closed>>
vars == <<buffer, inStep, inRegion, calls>>

Rows == 0 .. NUM_THREADS - 1

NoRegions == [r \in Regions |-> 0]

Slot == [node_id : 0 .. MaxCalls + 1, node_type : {0, ASYNC, FINISH, STEP},
         work : Nat, region_work : [Regions -> Nat]]

\* step_work_list[t][i] for i up to NUM_ENTRIES.
Address(t, i) == IF i < NUM_ENTRIES THEN <<t, i>> ELSE <<t + 1, 0>>

At(list, t, i) == list[Address(t, i)]

Cleared_KeepsRegion(slot) == [slot EXCEPT !.work = 0]

\* `work = 0`, and region_work deleted if there is one.
Cleared(slot) == [slot EXCEPT !.work = 0, !.region_work = NoRegions]

Row(list, t, n) == [i \in 1 .. n |-> At(list, t, i - 1)]

(******************************************************************************)
(* The methods                                                                *)
(******************************************************************************)

\* What log and log_intermediate_step begin with: a full row is written out and
\* its first slot cleared.
Full_Late(t) == last_allocated[t] > NUM_ENTRIES
Full(t) == last_allocated[t] = NUM_ENTRIES

FlushedList_KeepsSlot(t) == step_work_list

FlushedList(t) ==
    IF Full(t) THEN [step_work_list EXCEPT ![Address(t, 0)] = Cleared(@)]
    ELSE step_work_list

FlushedIndex(t) == IF Full(t) THEN 0 ELSE last_allocated[t]

FlushedFile(t) ==
    IF Full(t) THEN [file EXCEPT ![t] = @ \o Row(step_work_list, t, NUM_ENTRIES)]
    ELSE file

\* A node's data stored in a slot, its work added to what is there.
Stored(slot, n, type, count) ==
    [slot EXCEPT !.node_id = n, !.node_type = type, !.work = @ + count]

log(t, n, type, count) ==
    LET i == FlushedIndex(t)
        list == [FlushedList(t) EXCEPT ![Address(t, i)] = Stored(@, n, type, count)]
    IN  /\ file' = FlushedFile(t)
        /\ step_work_list' = [list EXCEPT ![Address(t, i + 1)] = Cleared(@)]
        /\ last_allocated' = [last_allocated EXCEPT ![t] = i + 1]

log_intermediate_step(t, n, count) ==
    LET i == FlushedIndex(t)
    IN  /\ file' = FlushedFile(t)
        /\ step_work_list' =
              [FlushedList(t) EXCEPT ![Address(t, i)] = Stored(@, n, STEP, count)]
        /\ last_allocated' = [last_allocated EXCEPT ![t] = i]

\* buffer_info, then log_region_work on the same slot; neither looks for a full row.
BufferRegion(t, n, r, count) ==
    LET here == Address(t, last_allocated[t])
        slot == Stored(step_work_list[here], n, STEP, count)
    IN  /\ step_work_list' =
              [step_work_list EXCEPT ![here] = [slot EXCEPT !.region_work[r] = @ + count]]
        /\ UNCHANGED <<last_allocated, file>>

\* Every row is written out, then the last step of main with what slot
\* last_allocated of row 0 holds.
WriteAll(n, count) ==
    LET here == At(step_work_list, 0, last_allocated[0])
        rest(t) == Row(step_work_list, t, last_allocated[t])
    IN  /\ file' = [t \in Rows |->
                      file[t] \o rest(t) \o
                      (IF t = 0 THEN <<Stored(here, n, STEP, count)>> ELSE <<>>)]
        /\ UNCHANGED <<step_work_list, last_allocated>>

(******************************************************************************)
(* The calls of a thread                                                      *)
(******************************************************************************)
Call == ~closed /\ calls < MaxCalls /\ calls' = calls + 1

\* TP_CaptureSpawn_Entry, TP_CaptureWait_Entry, TP_CaptureReturn.
EndStep(t) ==
    /\ Call /\ inStep[t]
    /\ RegionsSpanSpawns \/ ~inRegion[t]
    /\ log(t, calls', STEP, 1)
    /\ inStep' = [inStep EXCEPT ![t] = FALSE]
    /\ UNCHANGED <<inRegion, closed>>

\* The entries of CaptureSpawnOnly, CaptureSpawnAndWait, CaptureSpawnAndWaitForAll.
NewNode(t) ==
    /\ Call /\ ~inStep[t]
    /\ \E type \in {ASYNC, FINISH} : log(t, calls', type, 0)
    /\ UNCHANGED <<inStep, inRegion, closed>>

\* The exit hooks and TP_CaptureExecute: no call of the logger.
StartStep(t) ==
    /\ ~closed /\ ~inStep[t]
    /\ inStep' = [inStep EXCEPT ![t] = TRUE]
    /\ UNCHANGED <<buffer, inRegion, calls>>

TP_CaptureBeginOptimize(t) ==
    /\ Call /\ inStep[t] /\ ~inRegion[t]
    /\ log_intermediate_step(t, calls', 1)
    /\ inRegion' = [inRegion EXCEPT ![t] = TRUE]
    /\ UNCHANGED <<inStep, closed>>

TP_CaptureEndOptimize(t) ==
    /\ Call /\ inStep[t] /\ inRegion[t]
    /\ \E r \in Regions : BufferRegion(t, calls', r, 1)
    /\ inRegion' = [inRegion EXCEPT ![t] = FALSE]
    /\ UNCHANGED <<inStep, closed>>

\* Main's last step; every other thread has ended its own.
Fini ==
    /\ ~closed /\ inStep[0] /\ ~inRegion[0]
    /\ \A t \in Used \ {0} : ~inStep[t]
    /\ WriteAll(calls + 1, 1)
    /\ closed' = TRUE
    /\ UNCHANGED <<inStep, inRegion, calls>>

\* The array is zero-initialised; main's first entry is the head of the tree.
Init ==
    /\ step_work_list = [p \in Rows \X (0 .. NUM_ENTRIES - 1) |->
                           [node_id |-> 0, node_type |-> 0, work |-> 0,
                            region_work |-> NoRegions]]
    /\ last_allocated = [t \in Rows |-> 0]
    /\ file = [t \in Rows |-> <<>>]
    /\ closed = FALSE
    /\ inStep = [t \in Used |-> FALSE]
    /\ inRegion = [t \in Used |-> FALSE]
    /\ calls = 0

Terminated == closed /\ UNCHANGED vars

\* The bound stops the calls; without it a thread can always go on.
OutOfCalls == calls = MaxCalls /\ UNCHANGED vars

Next ==
    \/ \E t \in Used :
          \/ EndStep(t) \/ NewNode(t) \/ StartStep(t)
          \/ TP_CaptureBeginOptimize(t) \/ TP_CaptureEndOptimize(t)
    \/ Fini
    \/ Terminated
    \/ OutOfCalls

Spec == Init /\ [][Next]_vars

(******************************************************************************)
(* Properties                                                                 *)
(******************************************************************************)

(* Type correctness: the slots, the index of each row, and where a thread is. *)
TypeOK ==
    /\ step_work_list \in [Rows \X (0 .. NUM_ENTRIES - 1) -> Slot]
    /\ last_allocated \in [Rows -> 0 .. NUM_ENTRIES]
    /\ file \in [Rows -> Seq(Slot)]
    /\ closed \in BOOLEAN
    /\ inStep \in [Used -> BOOLEAN] /\ inRegion \in [Used -> BOOLEAN]
    /\ calls \in 0 .. MaxCalls

(* assert(node_type == 3) of log and log_intermediate_step: among the entries *)
(* a row holds, only a step carries region work.                              *)
RegionWorkInSteps ==
    \A t \in Used : \A i \in 1 .. last_allocated[t] :
        LET slot == At(step_work_list, t, i - 1)
        IN  slot.region_work # NoRegions => slot.node_type = STEP

\* The logs a caller would expect: what is in the file and the filled slots;
\* the open entry is the slot behind them.
LoggedBy(t) == IF closed THEN file[t] ELSE file[t] \o Row(step_work_list, t, last_allocated[t])

Gathered(t) ==
    LET slot == At(step_work_list, t, last_allocated[t])
    IN  IF closed /\ t = 0 THEN [work |-> 0, region_work |-> NoRegions]
        ELSE [work |-> slot.work, region_work |-> slot.region_work]

StepLog == INSTANCE StepLog WITH
    Threads <- Used, FirstThread <- 0, Nodes <- 1 .. MaxCalls + 1,
    NodeTypes <- {ASYNC, FINISH, STEP}, Counts <- {1},
    entries <- [t \in Used |-> LoggedBy(t)],
    open <- [t \in Used |-> Gathered(t)],
    final <- closed

(* An entry that log has taken stays as it is, in the buffer, through a flush  *)
(* and through Fini.                                                          *)
EntriesKept ==
    [][\A t \in Used :
          LoggedBy(t) = SubSeq(LoggedBy(t)', 1, Len(LoggedBy(t)))]_vars

(* The buffer, its flushing and Fini are invisible: every thread has a log in *)
(* which each closed entry has exactly the work counted for it.               *)
KeepsEveryEntry == StepLog!Spec

================================================================================
