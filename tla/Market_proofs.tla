----------------------------- MODULE Market_proofs -----------------------------
(******************************************************************************)
(* The snapshots of an arena lose no work, the market is told of the demand   *)
(* exactly, a sleeping worker is handed to one waker, arena, market and       *)
(* server are kept while somebody uses them, and the slack is exact, for any  *)
(* number of workers and any number of tasks.                                 *)
(*                                                                            *)
(* A snapshot looks into one slot after the other, without a lock.  That it   *)
(* may mark the arena empty in the end needs to be known while it goes: as    *)
(* long as the pool state is still the snapshot's own, a slot that it has     *)
(* passed has no task but one whose spawner is still to take the state from   *)
(* it (Scanned).                                                              *)
(*                                                                            *)
(* The demand needs to be known exactly at every moment: what the market has  *)
(* been told, and the number of those that are still to tell it of all        *)
(* workers, or of none (Told).                                                *)
(*                                                                            *)
(* The list of sleepers is right because of those that are no longer on it:   *)
(* a worker that has been claimed sleeps on until its waker wakes it, nobody  *)
(* else can have claimed it, and nobody notifies a worker that is on the list *)
(* or on its way there (Asleep).                                              *)
(*                                                                            *)
(* The end needs the arena's references to be those of the threads in it, the *)
(* unfinished tasks to be those that are in a pool, on their way there, or    *)
(* executed, and the references to the market and the server to be those that *)
(* some thread still is to give back (EndInv).                                *)
(*                                                                            *)
(* The slack is right because of what every step leaves as it is: the slack,  *)
(* what its thread holds, and the workers that are up (Balance).  That a step *)
(* of one thread changes the sum over all by the share of that thread is      *)
(* shown by induction on the number of threads (SumsChange).                  *)
(******************************************************************************)
EXTENDS Market, SequenceTheorems, FiniteSetTheorems, TLAPS

PoolStates == {"empty", "full"} \cup Workers

Returns == {"none", "main", "execute", "loop", "loop_end", "done", "process"}

Locals == [n : Int, wakees : Seq(Workers), seen : PoolStates, ret : Returns]

\* As much of the types as the argument needs.
Typed ==
    /\ pc = [t \in Threads |-> pc[t]]
    /\ local \in [Threads -> Locals]
    /\ my_state = [w \in Workers |-> my_state[w]]
    /\ asleep_list \in Seq(Workers)
    /\ my_slack \in Int
    /\ my_num_workers_requested \in Int
    /\ my_pool_state \in PoolStates
    /\ tasks \in [Threads -> Nat]

\* Whoever launches a thread launches one that does not run yet.
NotLaunched == \A w \in Workers : my_state[w] = "init" => At(w, "unborn")

Scanned ==
    \A w \in Workers : my_pool_state = w /\ At(w, "scan") =>
        \A k \in 0 .. my_n_thread :
            LET s == Slot(k)
            IN  k < local[w].n /\ tasks[s] > 0 /\ s \notin unfenced =>
                    At(s, "advertise") \/ (At(s, "mark") /\ local[s].seen = w)

SnapshotInv == Typed /\ NotLaunched /\ Scanned /\ WorkIsAdvertised

(******************************************************************************)
(* Slots and threads                                                          *)
(******************************************************************************)

LEMMA ArrayIsASequence ==
    ASSUME ServerAssumption
    PROVE  my_n_thread \in Nat /\ DOMAIN my_thread_array = 1 .. my_n_thread
  BY LenProperties DEF ServerAssumption, my_n_thread

\* Every slot has a thread ...
LEMMA SlotIsAThread ==
    ASSUME ServerAssumption, NEW k \in 0 .. my_n_thread
    PROVE  Slot(k) \in Threads
  BY ArrayIsASequence, ElementOfSeq DEF ServerAssumption, my_n_thread, Slot, Threads

\* ... and every thread a slot.
LEMMA ThreadHasASlot ==
    ASSUME ServerAssumption, NEW t \in Threads
    PROVE  \E k \in 0 .. my_n_thread : Slot(k) = t
<1>1. CASE t = Main
  BY <1>1, ArrayIsASequence DEF Slot
<1>2. CASE t \in Workers
  <2>1. PICK k \in 1 .. my_n_thread : my_thread_array[k] = t
    BY <1>2, ArrayIsASequence DEF ServerAssumption, Range
  <2>2. QED  BY <2>1, ArrayIsASequence DEF Slot
<1>3. QED  BY <1>1, <1>2 DEF Threads

(******************************************************************************)
(* Steps that neither spawn, nor take a task, nor touch the pool state        *)
(******************************************************************************)

\* Thread t goes on, and may launch another one.
LEMMA ElsewhereStep ==
    ASSUME ServerAssumption, SnapshotInv, Typed', NEW t \in Threads,
           pc[t] \notin {"unborn", "advertise", "mark", "mark_empty"},
           pc'[t] # "scan",
           \A u \in Threads \ {t} :
               \/ pc'[u] = pc[u]
               \/ /\ pc[u] = "unborn" /\ pc'[u] = "born"
                  /\ u \in Workers => my_state'[u] # "init",
           \A u \in Threads \ {t} : local'[u] = local[u],
           \A w \in Workers : my_state'[w] = "init" => my_state[w] = "init",
           UNCHANGED <<my_pool_state, tasks, unfenced>>
    PROVE  SnapshotInv'
<1>1. NotLaunched'
  BY DEF SnapshotInv, NotLaunched, At, Threads
<1>2. Scanned'
  <2> SUFFICES ASSUME NEW w \in Workers, my_pool_state' = w, pc'[w] = "scan",
                      NEW k \in 0 .. my_n_thread,
                      k < local'[w].n, tasks'[Slot(k)] > 0, Slot(k) \notin unfenced'
               PROVE  /\ Slot(k) # t
                      /\ pc'[Slot(k)] = "advertise"
                         \/ (pc'[Slot(k)] = "mark" /\ local'[Slot(k)].seen = w)
    BY DEF Scanned, At, Slot
  <2>1. w # t /\ pc[w] = "scan" /\ local'[w] = local[w]
    BY DEF Threads
  <2>2. pc[Slot(k)] = "advertise" \/ (pc[Slot(k)] = "mark" /\ local[Slot(k)].seen = w)
    BY <2>1 DEF SnapshotInv, Scanned, At
  <2>3. Slot(k) \in Threads \ {t}
    BY <2>2, SlotIsAThread
  <2>4. QED  BY <2>2, <2>3
<1>3. WorkIsAdvertised'
  BY DEF SnapshotInv, WorkIsAdvertised
<1>4. QED  BY <1>1, <1>2, <1>3 DEF SnapshotInv


\* A step changes the locals of its own thread only.
OwnLocals(t) ==
    /\ local' \in [Threads -> Locals]
    /\ \A u \in Threads \ {t} : local'[u] = local[u]

\* The usual form of such a step.
LEMMA GoesOn ==
    ASSUME ServerAssumption, SnapshotInv, NEW t \in Threads, NEW where,
           pc[t] \notin {"unborn", "advertise", "mark", "mark_empty"},
           Goto(t, where), where # "scan",
           OwnLocals(t),
           asleep_list' \in Seq(Workers), my_slack' \in Int,
           my_num_workers_requested' \in Int,
           my_state' = [w \in Workers |-> my_state'[w]],
           \A w \in Workers : my_state'[w] = "init" => my_state[w] = "init",
           UNCHANGED <<my_pool_state, tasks, unfenced>>
    PROVE  SnapshotInv'
<1>1. pc' = [u \in Threads |-> pc'[u]] /\ pc'[t] = where
      /\ \A u \in Threads \ {t} : pc'[u] = pc[u]
  BY DEF SnapshotInv, Typed, Goto
<1>2. Typed'
  BY <1>1 DEF SnapshotInv, Typed, OwnLocals
<1>3. QED  BY <1>1, <1>2, ElsewhereStep DEF OwnLocals

\* The locals of a thread that sets its number, or makes a call.
LEMMA NumberSet ==
    ASSUME Typed, NEW t \in Threads, NEW n \in Int, SetN(t, n)
    PROVE  OwnLocals(t) /\ local'[t].n = n
  BY DEF Typed, SetN, Locals, OwnLocals

LEMMA CallMade ==
    ASSUME Typed, NEW t \in Threads, NEW where, NEW n \in Int, NEW ret \in Returns,
           Call(t, where, n, ret)
    PROVE  OwnLocals(t) /\ Goto(t, where)
  BY DEF Typed, Call, Locals, OwnLocals

LEMMA LocalsKept ==
    ASSUME Typed, NEW t \in Threads, local' = local
    PROVE  OwnLocals(t)
  BY DEF Typed, OwnLocals

LEMMA LocalsTyped ==
    ASSUME Typed, NEW t \in Threads
    PROVE  /\ local[t].n \in Int /\ local[t].wakees \in Seq(Workers)
           /\ local[t].seen \in PoolStates
           /\ local[t].ret \in Returns
  BY DEF Typed, Locals

LEMMA StateTyped ==
    ASSUME SnapshotInv
    PROVE  /\ Typed /\ local \in [Threads -> Locals]
           /\ my_state = [w \in Workers |-> my_state[w]]
           /\ asleep_list \in Seq(Workers)
           /\ my_slack \in Int /\ my_num_workers_requested \in Int
  BY DEF SnapshotInv, Typed

(******************************************************************************)
(* The server                                                                 *)
(******************************************************************************)

elsewhere == <<my_pool_state, demand, lifetime, work>>

LEMMA WorkerRuns ==
    ASSUME ServerAssumption, SnapshotInv, NEW w \in Workers, UNCHANGED elsewhere,
           \/ propagate_chain_reaction(w) \/ TestState(w) \/ TestSlack(w)
           \/ PrepareWait(w) \/ VerifyState(w) \/ CancelWait(w) \/ CommitWait(w)
           \/ Cleanup(w) \/ Unref(w)
    PROVE  SnapshotInv'
<1> USE DEF elsewhere, demand, work, server
<1>0. /\ w \in Threads /\ Typed
      /\ local \in [Threads -> Locals]
      /\ my_state = [v \in Workers |-> my_state[v]]
      /\ asleep_list \in Seq(Workers)
      /\ my_slack \in Int /\ my_num_workers_requested \in Int
  BY StateTyped DEF Threads
<1>1. CASE propagate_chain_reaction(w)
  <2>1. CASE asleep_list = <<>>
    BY <1>0, <1>1, <2>1, LocalsKept, GoesOn DEF propagate_chain_reaction
  <2>2. CASE asleep_list # <<>>
    <3>1. Call(w, "wake", 0, "loop")
      BY <1>1, <2>2 DEF propagate_chain_reaction
    <3>2. Goto(w, "wake") /\ OwnLocals(w)
      <4>1. 0 \in Int /\ "loop" \in Returns
        BY DEF Returns
      <4>2. QED  BY <1>0, <3>1, <4>1, CallMade, Zenon
    <3>3. QED
      BY <1>0, <1>1, <3>2, GoesOn DEF propagate_chain_reaction
  <2>3. QED  BY <2>1, <2>2
<1>2. CASE TestState(w)
  BY <1>0, <1>2, LocalsKept, GoesOn DEF TestState, At
<1>3. CASE TestSlack(w)
  BY <1>0, <1>3, LocalsKept, GoesOn DEF TestSlack, At
<1>4. CASE PrepareWait(w)
  BY <1>0, <1>4, LocalsKept, GoesOn DEF PrepareWait, At
<1>5. CASE VerifyState(w)
  BY <1>0, <1>5, LocalsKept, GoesOn DEF VerifyState, At
<1>6. CASE CancelWait(w)
  BY <1>0, <1>6, LocalsKept, GoesOn DEF CancelWait, At
<1>7. CASE CommitWait(w)
  <2>1. /\ pc[w] \in {"commit", "sleep"}
        /\ \E where \in {"sleep", "woken"} : Goto(w, where)
        /\ UNCHANGED <<my_slack, asleep_list, my_state, local>>
    BY <1>7 DEF CommitWait, At
  <2>2. QED  BY <1>0, <2>1, LocalsKept, GoesOn DEF SnapshotInv
<1>8. CASE Cleanup(w)
  BY <1>0, <1>8, LocalsKept, GoesOn DEF Cleanup, At
<1>9. CASE Unref(w)
  BY <1>0, <1>9, LocalsKept, GoesOn DEF Unref, At
<1>10. QED  BY <1>1, <1>2, <1>3, <1>4, <1>5, <1>6, <1>7, <1>8, <1>9


LEMMA WorkerSleeps ==
    ASSUME ServerAssumption, SnapshotInv, NEW w \in Workers, UNCHANGED elsewhere,
           GiveUnit(w) \/ Insert(w)
    PROVE  SnapshotInv'
<1> USE DEF elsewhere, demand, work
<1>0. /\ w \in Threads /\ Typed
      /\ local \in [Threads -> Locals]
      /\ my_state = [v \in Workers |-> my_state[v]]
      /\ asleep_list \in Seq(Workers)
      /\ my_slack \in Int /\ my_num_workers_requested \in Int
  BY StateTyped DEF Threads
<1>1. CASE GiveUnit(w) /\ list_locked
  BY <1>0, <1>1, LocalsKept, GoesOn DEF GiveUnit, At
<1>2. CASE GiveUnit(w) /\ ~list_locked
  <2>1. /\ pc[w] = "insert" /\ Goto(w, "inserting")
        /\ my_slack' = my_slack + 1 /\ SetN(w, my_slack + 1)
        /\ UNCHANGED <<asleep_list, my_state>>
    BY <1>2 DEF GiveUnit, At
  <2>2. my_slack + 1 \in Int
    BY <1>0
  <2>3. OwnLocals(w)
    BY <1>0, <2>1, <2>2, NumberSet, Zenon
  <2>4. QED  BY <1>0, <2>1, <2>2, <2>3, GoesOn
<1>3. CASE Insert(w)
  <2>1. /\ pc[w] = "inserting" /\ \E where \in {"commit", "cancel"} : Goto(w, where)
        /\ my_slack' \in Int /\ UNCHANGED <<my_state, local>>
    BY <1>0, <1>3 DEF Insert, At
  <2>2. asleep_list' \in Seq(Workers)
    <3>1. asleep_list' = <<w>> \o asleep_list \/ asleep_list' = asleep_list
      BY <1>3 DEF Insert
    <3>2. <<w>> \in Seq(Workers)
      OBVIOUS
    <3>3. <<w>> \o asleep_list \in Seq(Workers)
      BY <1>0, <3>2, ConcatProperties, Zenon
    <3>4. QED  BY <1>0, <3>1, <3>3
  <2>3. QED  BY <1>0, <2>1, <2>2, LocalsKept, GoesOn
<1>4. QED  BY <1>1, <1>2, <1>3

LEMMA ServerWakes ==
    ASSUME ServerAssumption, SnapshotInv, NEW t \in Threads, UNCHANGED elsewhere,
           adjust_job_count_estimate(t) \/ LockList(t) \/ ClaimUnit(t)
    PROVE  SnapshotInv'
<1> USE DEF elsewhere, demand, work
<1>0. /\ Typed
      /\ local \in [Threads -> Locals]
      /\ my_state = [v \in Workers |-> my_state[v]]
      /\ asleep_list \in Seq(Workers)
      /\ my_slack \in Int /\ my_num_workers_requested \in Int
  BY StateTyped
<1>1. CASE adjust_job_count_estimate(t)
  <2>1. local[t].n \in Int /\ local[t].ret # "scan"
    BY <1>0, LocalsTyped DEF Returns
  <2>2. /\ pc[t] = "estimate"
        /\ Goto(t, "wake") \/ Goto(t, local[t].ret)
        /\ UNCHANGED <<asleep_list, my_state, local>>
    BY <1>1 DEF adjust_job_count_estimate, At
  <2>3. my_slack' \in Int
    BY <1>0, <1>1, <2>1 DEF adjust_job_count_estimate
  <2>4. PICK where : Goto(t, where) /\ where # "scan"
    BY <2>1, <2>2
  <2>5. QED  BY <1>0, <2>2, <2>3, <2>4, LocalsKept, GoesOn
<1>2. CASE LockList(t)
  BY <1>0, <1>2, LocalsKept, GoesOn DEF LockList, At
<1>3. CASE ClaimUnit(t)
  <2> DEFINE claims == /\ asleep_list # <<>> /\ Len(local[t].wakees) < 2
                       /\ IF local[t].n > 0 THEN local[t].n + my_slack > 0 ELSE my_slack > 0
  <2>1. CASE claims
    <3>0. local[t].n \in Int
      BY <1>0, LocalsTyped
    <3>1. /\ pc[t] = "claim" /\ pc' = pc /\ my_state' = my_state
          /\ asleep_list # <<>> /\ asleep_list' = Tail(asleep_list)
          /\ local' = [local EXCEPT ![t].wakees = Append(@, Head(asleep_list)),
                                    ![t].n = IF local[t].n > 0 THEN local[t].n - 1 ELSE 0]
          /\ my_slack' = my_slack \/ my_slack' = my_slack - 1
      BY <1>3, <2>1 DEF ClaimUnit, At
    <3>2. asleep_list' \in Seq(Workers) /\ Head(asleep_list) \in Workers
      BY <1>0, <3>1, HeadTailProperties
    <3>3. Append(local[t].wakees, Head(asleep_list)) \in Seq(Workers)
      BY <1>0, <3>2, LocalsTyped, AppendProperties
    <3>4. OwnLocals(t)
      <4> DEFINE n == IF local[t].n > 0 THEN local[t].n - 1 ELSE 0
                 wakees == Append(local[t].wakees, Head(asleep_list))
      <4>1. n \in Int
        BY <3>0
      <4>2. local' = [local EXCEPT ![t] = [local[t] EXCEPT !.wakees = wakees, !.n = n]]
        BY <1>0, <3>1
      <4> HIDE DEF n, wakees
      <4>3. [local[t] EXCEPT !.wakees = wakees, !.n = n] \in Locals
        BY <1>0, <3>3, <4>1 DEF Locals, wakees
      <4>4. QED  BY <1>0, <4>2, <4>3 DEF OwnLocals
    <3>5. Goto(t, "claim")
      BY <1>0, <3>1 DEF Goto, Typed
    <3>6. /\ my_slack' \in Int /\ pc[t] = "claim" /\ my_state' = my_state
          /\ asleep_list' \in Seq(Workers)
          /\ UNCHANGED <<my_pool_state, my_num_workers_requested, tasks, unfenced>>
      BY <1>0, <3>1, <3>2
    <3>7. QED  BY <1>0, <3>4, <3>5, <3>6, GoesOn
  <2>2. CASE ~claims
    <3>1. /\ pc[t] = "claim" /\ Goto(t, "rouse") /\ SetN(t, 0)
          /\ my_slack' = my_slack + local[t].n /\ UNCHANGED <<asleep_list, my_state>>
      BY <1>3, <2>2 DEF ClaimUnit, At
    <3>2. my_slack' \in Int
      BY <1>0, <3>1, LocalsTyped
    <3>3. OwnLocals(t)
      <4>1. 0 \in Int
        OBVIOUS
      <4>2. QED  BY <1>0, <3>1, <4>1, NumberSet, Zenon
    <3>4. QED  BY <1>0, <3>1, <3>2, <3>3, GoesOn
  <2>3. QED  BY <2>1, <2>2
<1>4. QED  BY <1>1, <1>2, <1>3


LEMMA LastWakee ==
    ASSUME Typed, NEW t \in Threads, local[t].wakees # <<>>
    PROVE  Last(local[t].wakees) \in Workers /\ Front(local[t].wakees) \in Seq(Workers)
<1>1. local[t].wakees \in Seq(Workers)
  BY LocalsTyped
<1>2. Len(local[t].wakees) \in Nat \ {0}
  BY <1>1, LenProperties, EmptySeq
<1>3. local[t].wakees[Len(local[t].wakees)] \in Workers
  BY <1>1, <1>2, ElementOfSeq
<1>4. SubSeq(local[t].wakees, 1, Len(local[t].wakees) - 1) \in Seq(Workers)
  BY <1>1, <1>2, ElementOfSeq, SubSeqProperties
<1>5. QED  BY <1>3, <1>4 DEF Last, Front

LEMMA ServerRouses ==
    ASSUME ServerAssumption, SnapshotInv, NEW t \in Threads, UNCHANGED elsewhere, Rouse(t)
    PROVE  SnapshotInv'
<1> USE DEF elsewhere, demand, work
<1>0. /\ Typed
      /\ local \in [Threads -> Locals]
      /\ my_state = [v \in Workers |-> my_state[v]]
      /\ asleep_list \in Seq(Workers)
      /\ my_slack \in Int /\ my_num_workers_requested \in Int
  BY StateTyped
<1> DEFINE w == Last(local[t].wakees)
<1>1. CASE local[t].wakees = <<>>
  <2>1. local[t].ret # "scan"
    BY <1>0, LocalsTyped DEF Returns
  <2>2. /\ pc[t] = "rouse" /\ Goto(t, local[t].ret)
        /\ UNCHANGED <<asleep_list, my_slack, my_state, local>>
    BY <1>1 DEF Rouse, At
  <2>3. QED  BY <1>0, <2>1, <2>2, LocalsKept, GoesOn
<1>2. CASE local[t].wakees # <<>> /\ my_state[w] = "init"
  <2>1. w \in Workers /\ w \in Threads
    BY <1>0, <1>2, LastWakee DEF Threads
  <2>2. /\ pc[t] = "rouse" /\ my_state' = [my_state EXCEPT ![w] = "starting"]
        /\ pc' = [pc EXCEPT ![t] = "launched", ![w] = "born"]
        /\ UNCHANGED <<asleep_list, my_slack, local>>
    BY <1>2 DEF Rouse, At
  <2>3. pc[w] = "unborn" /\ w # t
    BY <1>2, <2>1, <2>2 DEF SnapshotInv, NotLaunched, At
  <2>4. /\ pc' = [u \in Threads |-> pc'[u]]
        /\ pc'[t] = "launched" /\ pc'[w] = "born"
        /\ \A u \in Threads \ {t, w} : pc'[u] = pc[u]
    BY <1>0, <2>1, <2>2, <2>3 DEF Typed
  <2>5. /\ my_state' = [v \in Workers |-> my_state'[v]]
        /\ my_state'[w] = "starting"
        /\ \A v \in Workers \ {w} : my_state'[v] = my_state[v]
    BY <1>0, <2>1, <2>2
  <2>6. Typed'
    BY <1>0, <2>2, <2>4, <2>5 DEF Typed
  <2> HIDE DEF w
  <2>7. \A u \in Threads \ {t} :
            \/ pc'[u] = pc[u]
            \/ pc[u] = "unborn" /\ pc'[u] = "born" /\ (u \in Workers => my_state'[u] # "init")
    BY <2>3, <2>4, <2>5
  <2>8. \A v \in Workers : my_state'[v] = "init" => my_state[v] = "init"
    BY <2>5
  <2>9. QED  BY <2>2, <2>4, <2>6, <2>7, <2>8, ElsewhereStep
<1>3. CASE local[t].wakees # <<>> /\ my_state[w] # "init"
  <2>1. /\ pc[t] = "rouse" /\ Goto(t, "signal")
        /\ UNCHANGED <<asleep_list, my_slack, my_state, local>>
    BY <1>3 DEF Rouse, At
  <2>2. QED  BY <1>0, <2>1, LocalsKept, GoesOn
<1>4. QED  BY <1>1, <1>2, <1>3

LEMMA ServerRoused ==
    ASSUME ServerAssumption, SnapshotInv, NEW t \in Threads, UNCHANGED elsewhere, Roused(t)
    PROVE  SnapshotInv'
<1> USE DEF elsewhere, demand, work
<1>0. /\ Typed
      /\ local \in [Threads -> Locals]
      /\ my_state = [v \in Workers |-> my_state[v]]
      /\ asleep_list \in Seq(Workers)
      /\ my_slack \in Int /\ my_num_workers_requested \in Int
  BY StateTyped
<1>1. /\ pc[t] \in {"launched", "signal"} /\ Goto(t, "rouse")
      /\ local' = [local EXCEPT ![t].wakees = Front(@)]
      /\ UNCHANGED <<asleep_list, my_slack>>
  BY DEF Roused, At
<1>2. /\ my_state' = [v \in Workers |-> my_state'[v]]
      /\ \A v \in Workers : my_state'[v] = "init" => my_state[v] = "init"
  BY <1>0 DEF Roused
<1>3. Front(local[t].wakees) \in Seq(Workers)
  <2>1. CASE local[t].wakees = <<>>
    <3>1. Len(local[t].wakees) = 0 /\ local[t].wakees \in Seq(Workers)
      BY <1>0, <2>1, LocalsTyped
    <3>2. SubSeq(local[t].wakees, 1, -1) = <<>>
      BY <3>1, SubSeqEmpty
    <3>3. QED  BY <3>1, <3>2 DEF Front
  <2>2. CASE local[t].wakees # <<>>
    BY <1>0, <2>2, LastWakee
  <2>3. QED  BY <2>1, <2>2
<1>4. OwnLocals(t)
  BY <1>0, <1>1, <1>3 DEF OwnLocals, Locals
<1>5. QED  BY <1>0, <1>1, <1>2, <1>4, GoesOn

LEMMA ServerCloses ==
    ASSUME ServerAssumption, SnapshotInv, NEW t \in Threads, UNCHANGED elsewhere,
           StartShutdown(t) \/ NotifyShutdown(t) \/ CloseConnection(t)
    PROVE  SnapshotInv'
<1> USE DEF elsewhere, demand, work
<1>0. /\ Typed
      /\ local \in [Threads -> Locals]
      /\ my_state = [v \in Workers |-> my_state[v]]
      /\ asleep_list \in Seq(Workers)
      /\ my_slack \in Int /\ my_num_workers_requested \in Int
  BY StateTyped
<1>1. local[t].n \in Int /\ local[t].n + 1 \in Int /\ local[t].ret # "scan"
  BY <1>0, LocalsTyped DEF Returns
<1>2. CASE StartShutdown(t)
  <2>1. /\ pc[t] = "close" /\ UNCHANGED <<asleep_list, my_slack>>
        /\ my_state' = [my_state EXCEPT ![my_thread_array[local[t].n]] = "quit"]
        /\ \/ SetN(t, local[t].n + 1) /\ pc' = pc
           \/ Goto(t, "close_notify") /\ local' = local
    BY <1>2 DEF StartShutdown, At
  <2>2. /\ my_state' = [v \in Workers |-> my_state'[v]]
        /\ \A v \in Workers : my_state'[v] = "init" => my_state[v] = "init"
    BY <1>0, <2>1
  <2>3. OwnLocals(t)
    BY <1>0, <1>1, <2>1, NumberSet, LocalsKept, Zenon
  <2>4. Goto(t, "close") \/ Goto(t, "close_notify")
    BY <1>0, <2>1 DEF Goto, Typed
  <2>5. QED  BY <1>0, <2>1, <2>2, <2>3, <2>4, GoesOn
<1>3. CASE NotifyShutdown(t)
  <2>1. /\ pc[t] \in {"close_notify", "close_signal"}
        /\ Goto(t, "close_signal") \/ Goto(t, "close")
        /\ local' = local \/ SetN(t, local[t].n + 1)
        /\ UNCHANGED <<asleep_list, my_slack, my_state>>
    BY <1>3 DEF NotifyShutdown, At
  <2>2. OwnLocals(t)
    BY <1>0, <1>1, <2>1, NumberSet, LocalsKept, Zenon
  <2>3. QED  BY <1>0, <2>1, <2>2, GoesOn
<1>4. CASE CloseConnection(t)
  <2>1. /\ pc[t] = "close" /\ Goto(t, local[t].ret)
        /\ UNCHANGED <<asleep_list, my_slack, my_state, local>>
    BY <1>4 DEF CloseConnection, At
  <2>2. QED  BY <1>0, <1>1, <2>1, LocalsKept, GoesOn
<1>5. QED  BY <1>2, <1>3, <1>4

LEMMA ServerSnapshots ==
    ASSUME ServerAssumption, SnapshotInv, NEW t \in Threads, UNCHANGED elsewhere, ServerStep(t)
    PROVE  SnapshotInv'
  BY WorkerRuns, WorkerSleeps, ServerWakes, ServerRouses, ServerRoused, ServerCloses
     DEF ServerStep


(******************************************************************************)
(* The market, the arena and what brings it down                              *)
(******************************************************************************)

LEMMA DemandAdjusted ==
    ASSUME ServerAssumption, SnapshotInv, NEW t \in Threads, adjust_demand(t)
    PROVE  SnapshotInv'
<1>0. /\ Typed
      /\ local \in [Threads -> Locals]
      /\ my_state = [v \in Workers |-> my_state[v]]
      /\ asleep_list \in Seq(Workers)
      /\ my_slack \in Int /\ my_num_workers_requested \in Int
  BY StateTyped
<1> DEFINE prev == my_num_workers_requested
           requested == prev + local[t].n
           delta == CASE requested <= 0 /\ prev > 0  -> -prev
                      [] requested <= 0 /\ prev <= 0 -> 0
                      [] requested > 0 /\ prev < 0   -> requested
                      [] OTHER                       -> local[t].n
<1>1. local[t].n \in Int /\ local[t].ret # "scan"
  BY <1>0, LocalsTyped DEF Returns
<1>2. requested \in Int /\ delta \in Int
  BY <1>0, <1>1
<1>3. /\ pc[t] = "adjust" /\ my_num_workers_requested' = requested
      /\ SetN(t, delta) /\ Goto(t, IF delta = 0 THEN local[t].ret ELSE "estimate")
      /\ UNCHANGED <<server, my_pool_state, work>>
  BY DEF adjust_demand, At
<1> HIDE DEF requested, delta
<1>4. OwnLocals(t)
  BY <1>0, <1>2, <1>3, NumberSet, Zenon
<1>5. QED  BY <1>0, <1>1, <1>2, <1>3, <1>4, GoesOn DEF server, work

LEMMA WorkerComesAndGoes ==
    ASSUME ServerAssumption, SnapshotInv, NEW w \in Workers,
           \/ SeekArena(w) \/ EnterArena(w) \/ Relinquish(w) \/ LoopEnds(w)
           \/ WorkerLeaves(w)
    PROVE  SnapshotInv'
<1>0. /\ Typed
      /\ local \in [Threads -> Locals]
      /\ my_state = [v \in Workers |-> my_state[v]]
      /\ asleep_list \in Seq(Workers)
      /\ my_slack \in Int /\ my_num_workers_requested \in Int
  BY StateTyped
<1>1. w \in Threads
  BY DEF Threads
<1>2. /\ pc[w] \in {"process", "need", "admit", "arena", "loop_end", "leave"}
      /\ \E where : Goto(w, where) /\ where # "scan"
      /\ UNCHANGED <<server, local, my_pool_state, my_num_workers_requested, work>>
  BY DEF SeekArena, EnterArena, Relinquish, LoopEnds, WorkerLeaves, At, demand
<1>3. QED  BY <1>0, <1>1, <1>2, LocalsKept, GoesOn DEF server, work

LEMMA TaskEnds ==
    ASSUME ServerAssumption, SnapshotInv, NEW w \in Workers, EndTask(w)
    PROVE  SnapshotInv'
<1>0. /\ Typed
      /\ local \in [Threads -> Locals]
      /\ my_state = [v \in Workers |-> my_state[v]]
      /\ asleep_list \in Seq(Workers)
      /\ my_slack \in Int /\ my_num_workers_requested \in Int
  BY StateTyped
<1>1. w \in Threads
  BY DEF Threads
<1>2. /\ pc[w] = "execute" /\ Goto(w, "arena")
      /\ UNCHANGED <<server, local, my_pool_state, my_num_workers_requested, tasks, unfenced>>
  BY DEF EndTask, At, demand
<1>3. QED  BY <1>0, <1>1, <1>2, LocalsKept, GoesOn DEF server

LEMMA ArenaDestroyed ==
    ASSUME ServerAssumption, SnapshotInv, NEW t \in Threads,
           TryDestroy(t) \/ TryDestroyArena(t) \/ Release(t) \/ (t = Main /\ MasterLeaves)
    PROVE  SnapshotInv'
<1>0. /\ Typed
      /\ local \in [Threads -> Locals]
      /\ my_state = [v \in Workers |-> my_state[v]]
      /\ asleep_list \in Seq(Workers)
      /\ my_slack \in Int /\ my_num_workers_requested \in Int
  BY StateTyped
<1>1. AfterLeaving(t) \in Returns /\ AfterLeaving(t) # "scan"
  BY DEF AfterLeaving, Returns
<1>2. local[t].ret # "scan" /\ local[t].n - 1 \in Int /\ 1 \in Int
  BY <1>0, LocalsTyped DEF Returns
<1>3. CASE TryDestroy(t) \/ (t = Main /\ MasterLeaves)
  <2>1. /\ pc[t] \in {"destroy", "main"}
        /\ \E where : Goto(t, where) /\ where # "scan"
        /\ UNCHANGED <<server, local, my_pool_state, my_num_workers_requested, work>>
    BY <1>1, <1>3 DEF TryDestroy, MasterLeaves, At, demand
  <2>2. QED  BY <1>0, <2>1, LocalsKept, GoesOn DEF server, work
<1>4. CASE TryDestroyArena(t)
  <2>1. PICK n \in Int, where \in {"release"} \cup Returns :
            /\ pc[t] = "destroy_arena" /\ where # "scan"
            /\ Call(t, where, n, AfterLeaving(t))
            /\ UNCHANGED <<server, my_pool_state, my_num_workers_requested, work>>
    <3> DEFINE destroys == ~freed /\ my_num_workers_requested = 0 /\ my_references = 0
               n == (IF destroys THEN 1 ELSE 0) + (IF t = Main THEN 1 ELSE 0)
               where == IF n > 0 THEN "release" ELSE AfterLeaving(t)
    <3>1. n \in Int /\ where \in {"release"} \cup Returns /\ where # "scan"
      BY <1>1
    <3>2. /\ pc[t] = "destroy_arena" /\ Call(t, where, n, AfterLeaving(t))
          /\ UNCHANGED <<server, my_pool_state, my_num_workers_requested, work>>
      BY <1>4 DEF TryDestroyArena, At, demand
    <3> HIDE DEF n, where
    <3>3. QED  BY <3>1, <3>2
  <2>2. OwnLocals(t) /\ Goto(t, where)
    BY <1>0, <1>1, <2>1, CallMade, Zenon
  <2>3. QED  BY <1>0, <2>1, <2>2, GoesOn DEF server, work
<1>5. CASE Release(t)
  <2>1. /\ pc[t] = "release"
        /\ \E where : Goto(t, where) /\ where # "scan"
        /\ SetN(t, 1) \/ SetN(t, local[t].n - 1)
        /\ UNCHANGED <<server, my_pool_state, my_num_workers_requested, work>>
    BY <1>2, <1>5 DEF Release, At, demand
  <2>2. OwnLocals(t)
    BY <1>0, <1>2, <2>1, NumberSet, Zenon
  <2>3. QED  BY <1>0, <2>1, <2>2, GoesOn DEF server, work
<1>6. QED  BY <1>3, <1>4, <1>5


(******************************************************************************)
(* Spawning and taking tasks                                                  *)
(******************************************************************************)

\* What is left to show of a step of thread t that does not launch another
\* one and leaves the server alone.
LEMMA ArenaStep ==
    ASSUME SnapshotInv, NEW t \in Threads, NEW where, Goto(t, where),
           pc[t] # "unborn", OwnLocals(t), UNCHANGED server,
           my_num_workers_requested' = my_num_workers_requested,
           my_pool_state' \in PoolStates, tasks' \in [Threads -> Nat]
    PROVE  /\ Typed' /\ NotLaunched'
           /\ pc'[t] = where
           /\ \A u \in Threads \ {t} : pc'[u] = pc[u] /\ local'[u] = local[u]
<1>1. /\ pc' = [u \in Threads |-> pc'[u]] /\ pc'[t] = where
      /\ \A u \in Threads \ {t} : pc'[u] = pc[u]
  BY DEF SnapshotInv, Typed, Goto
<1>2. Typed'
  BY <1>1 DEF SnapshotInv, Typed, OwnLocals, server
<1>3. NotLaunched'
  BY <1>1 DEF SnapshotInv, NotLaunched, At, server, Threads
<1>4. QED  BY <1>1, <1>2, <1>3 DEF OwnLocals

LEMMA TaskTaken ==
    ASSUME ServerAssumption, SnapshotInv, NEW t \in Threads, NEW where,
           pc[t] \in {"main", "arena"}, Goto(t, where), where # "scan",
           NEW s \in Threads, TakeFrom(s), UNCHANGED <<server, local, my_pool_state>>,
           my_num_workers_requested' = my_num_workers_requested
    PROVE  SnapshotInv'
<1>0. /\ Typed
      /\ local \in [Threads -> Locals]
      /\ my_state = [v \in Workers |-> my_state[v]]
      /\ asleep_list \in Seq(Workers)
      /\ my_slack \in Int /\ my_num_workers_requested \in Int
  BY StateTyped
<1>1. /\ tasks' \in [Threads -> Nat]
      /\ \A u \in Threads : tasks'[u] > 0 /\ u \notin unfenced' =>
             tasks[u] > 0 /\ u \notin unfenced
  BY <1>0 DEF TakeFrom, Typed
<1>2. my_pool_state' \in PoolStates
  BY <1>0 DEF Typed
<1>3. /\ Typed' /\ NotLaunched'
      /\ pc'[t] = where
      /\ \A u \in Threads \ {t} : pc'[u] = pc[u]
  BY <1>0, <1>1, <1>2, ArenaStep, LocalsKept
<1>4. Scanned'
  <2> SUFFICES ASSUME NEW w \in Workers, my_pool_state' = w, pc'[w] = "scan",
                      NEW k \in 0 .. my_n_thread,
                      k < local'[w].n, tasks'[Slot(k)] > 0, Slot(k) \notin unfenced'
               PROVE  pc'[Slot(k)] = "advertise"
                      \/ (pc'[Slot(k)] = "mark" /\ local'[Slot(k)].seen = w)
    BY DEF Scanned, At, Slot
  <2>1. pc[w] = "scan" /\ Slot(k) \in Threads
    BY <1>3, SlotIsAThread DEF Threads
  <2>2. pc[Slot(k)] = "advertise" \/ (pc[Slot(k)] = "mark" /\ local[Slot(k)].seen = w)
    BY <1>1, <2>1 DEF SnapshotInv, Scanned, At
  <2>3. QED  BY <1>3, <2>1, <2>2
<1>5. WorkIsAdvertised'
  BY <1>1, <1>3 DEF SnapshotInv, WorkIsAdvertised
<1>6. QED  BY <1>3, <1>4, <1>5 DEF SnapshotInv

\* A spawner is about to advertise, or about to let a task be seen late.
LEMMA TaskSpawned ==
    ASSUME ServerAssumption, SnapshotInv, NEW t \in Threads, Spawn(t) \/ SpawnUnfenced(t)
    PROVE  SnapshotInv'
<1>0. /\ Typed
      /\ local \in [Threads -> Locals]
      /\ my_state = [v \in Workers |-> my_state[v]]
      /\ asleep_list \in Seq(Workers)
      /\ my_slack \in Int /\ my_num_workers_requested \in Int
  BY StateTyped
<1>1. /\ pc[t] \in {"main", "execute"} /\ pc[t] \in Returns
      /\ UNCHANGED <<server, my_pool_state, my_num_workers_requested, unfenced>>
  BY DEF Spawn, SpawnUnfenced, MaySpawn, Running, Returns, demand
<1>2. my_pool_state' \in PoolStates
  BY <1>0, <1>1 DEF Typed
<1>3. CASE Spawn(t)
  <2>1. tasks' = [tasks EXCEPT ![t] = @ + 1] /\ Call(t, "advertise", 0, pc[t])
    BY <1>3 DEF Spawn
  <2>2. /\ tasks' \in [Threads -> Nat]
        /\ \A u \in Threads \ {t} : tasks'[u] = tasks[u]
    BY <1>0, <2>1 DEF Typed
  <2>3. 0 \in Int
    OBVIOUS
  <2>4. OwnLocals(t) /\ Goto(t, "advertise")
    BY <1>0, <1>1, <2>1, <2>3, CallMade, Zenon
  <2>5. /\ Typed' /\ NotLaunched' /\ pc'[t] = "advertise"
        /\ \A u \in Threads \ {t} : pc'[u] = pc[u] /\ local'[u] = local[u]
    BY <1>1, <1>2, <2>2, <2>4, ArenaStep
  <2>6. Scanned'
    <3> SUFFICES ASSUME NEW w \in Workers, my_pool_state' = w, pc'[w] = "scan",
                        NEW k \in 0 .. my_n_thread,
                        k < local'[w].n, tasks'[Slot(k)] > 0, Slot(k) \notin unfenced'
                 PROVE  pc'[Slot(k)] = "advertise"
                        \/ (pc'[Slot(k)] = "mark" /\ local'[Slot(k)].seen = w)
      BY DEF Scanned, At, Slot
    <3>1. w # t /\ pc[w] = "scan" /\ local'[w] = local[w] /\ Slot(k) \in Threads
      BY <2>5, SlotIsAThread DEF Threads
    <3>2. Slot(k) # t =>
              pc[Slot(k)] = "advertise" \/ (pc[Slot(k)] = "mark" /\ local[Slot(k)].seen = w)
      BY <1>1, <2>2, <3>1 DEF SnapshotInv, Scanned, At
    <3>3. QED  BY <2>5, <3>1, <3>2
  <2>7. WorkIsAdvertised'
    BY <1>1, <2>2, <2>5 DEF SnapshotInv, WorkIsAdvertised
  <2>8. QED  BY <2>5, <2>6, <2>7 DEF SnapshotInv
<1>4. CASE SpawnUnfenced(t)
  <2>1. /\ Goto(t, "store") /\ tasks' = tasks
        /\ local' = [local EXCEPT ![t].seen = my_pool_state, ![t].ret = pc[t]]
    BY <1>4 DEF SpawnUnfenced
  <2>2. OwnLocals(t)
    <3>1. my_pool_state \in PoolStates
      BY <1>0 DEF Typed
    <3>2. QED  BY <1>0, <1>1, <2>1, <3>1 DEF OwnLocals, Locals
  <2>3. QED  BY <1>0, <1>1, <2>1, <2>2, GoesOn DEF server
<1>5. QED  BY <1>3, <1>4

\* A task that is seen late is not in anybody's way.
LEMMA TaskStored ==
    ASSUME ServerAssumption, SnapshotInv, NEW t \in Threads, Store(t)
    PROVE  SnapshotInv'
<1>0. /\ Typed
      /\ local \in [Threads -> Locals]
      /\ my_state = [v \in Workers |-> my_state[v]]
      /\ asleep_list \in Seq(Workers)
      /\ my_slack \in Int /\ my_num_workers_requested \in Int
  BY StateTyped
<1>1. PICK where : Goto(t, where) /\ where # "scan"
  <2>1. PICK where : where = IF local[t].seen = "full" THEN local[t].ret ELSE "mark"
    OBVIOUS
  <2>2. local[t].ret # "scan"
    BY <1>0, LocalsTyped DEF Returns
  <2>3. where # "scan"
    BY <2>1, <2>2
  <2>4. Goto(t, where)
    BY <2>1 DEF Store
  <2>5. QED  BY <2>3, <2>4
<1>2. /\ pc[t] = "store" /\ tasks' = [tasks EXCEPT ![t] = @ + 1]
      /\ unfenced' = unfenced \cup {t}
      /\ UNCHANGED <<server, local, my_pool_state, my_num_workers_requested>>
  BY DEF Store, At, demand
<1>3. /\ tasks' \in [Threads -> Nat] /\ my_pool_state' \in PoolStates
      /\ \A u \in Threads \ {t} : tasks'[u] = tasks[u]
  BY <1>0, <1>2 DEF Typed
<1>4. /\ Typed' /\ NotLaunched' /\ pc'[t] = where
      /\ \A u \in Threads \ {t} : pc'[u] = pc[u]
  BY <1>0, <1>1, <1>2, <1>3, ArenaStep, LocalsKept
<1>5. Scanned'
  <2> SUFFICES ASSUME NEW w \in Workers, my_pool_state' = w, pc'[w] = "scan",
                      NEW k \in 0 .. my_n_thread,
                      k < local'[w].n, tasks'[Slot(k)] > 0, Slot(k) \notin unfenced'
               PROVE  pc'[Slot(k)] = "advertise"
                      \/ (pc'[Slot(k)] = "mark" /\ local'[Slot(k)].seen = w)
    BY DEF Scanned, At, Slot
  <2>1. pc[w] = "scan" /\ Slot(k) \in Threads \ {t} /\ Slot(k) \notin unfenced
    BY <1>1, <1>2, <1>4, SlotIsAThread DEF Threads
  <2>2. pc[Slot(k)] = "advertise" \/ (pc[Slot(k)] = "mark" /\ local[Slot(k)].seen = w)
    BY <1>2, <1>3, <2>1 DEF SnapshotInv, Scanned, At
  <2>3. QED  BY <1>2, <1>4, <2>1, <2>2
<1>6. WorkIsAdvertised'
  BY <1>2, <1>3, <1>4 DEF SnapshotInv, WorkIsAdvertised
<1>7. QED  BY <1>4, <1>5, <1>6 DEF SnapshotInv


(******************************************************************************)
(* advertise_new_work                                                         *)
(******************************************************************************)

LEMMA FullArena ==
    ASSUME MarketAssumption, Typed', NotLaunched', my_pool_state' = "full"
    PROVE  SnapshotInv'
  BY DEF MarketAssumption, SnapshotInv, Scanned, WorkIsAdvertised

\* A spawner that finds that it need not do anything more.
LEMMA NotEmptyAnyMore ==
    ASSUME ServerAssumption, SnapshotInv, Typed', NotLaunched', NEW t \in Threads,
           pc[t] \in {"advertise", "mark", "mark_empty"}, pc'[t] # "scan",
           \A u \in Threads \ {t} : pc'[u] = pc[u] /\ local'[u] = local[u],
           my_pool_state # "empty", UNCHANGED <<my_pool_state, tasks, unfenced>>,
           pc[t] \in {"advertise", "mark"} =>
               \/ pc'[t] = "mark" /\ local'[t].seen = my_pool_state
               \/ pc[t] = "mark" /\ local[t].seen # my_pool_state
    PROVE  SnapshotInv'
<1>1. Scanned'
  <2> SUFFICES ASSUME NEW w \in Workers, my_pool_state' = w, pc'[w] = "scan",
                      NEW k \in 0 .. my_n_thread,
                      k < local'[w].n, tasks'[Slot(k)] > 0, Slot(k) \notin unfenced'
               PROVE  pc'[Slot(k)] = "advertise"
                      \/ (pc'[Slot(k)] = "mark" /\ local'[Slot(k)].seen = w)
    BY DEF Scanned, At, Slot
  <2>1. w # t /\ pc[w] = "scan" /\ local'[w] = local[w] /\ Slot(k) \in Threads
    BY SlotIsAThread DEF Threads
  <2>2. pc[Slot(k)] = "advertise" \/ (pc[Slot(k)] = "mark" /\ local[Slot(k)].seen = w)
    BY <2>1 DEF SnapshotInv, Scanned, At
  <2>3. QED  BY <2>1, <2>2
<1>2. WorkIsAdvertised'
  BY DEF WorkIsAdvertised
<1>3. QED  BY <1>1, <1>2 DEF SnapshotInv

LEMMA Advertised ==
    ASSUME ServerAssumption, MarketAssumption, SnapshotInv, NEW t \in Threads, Advertise(t)
    PROVE  SnapshotInv'
<1>0. /\ Typed
      /\ local \in [Threads -> Locals]
      /\ my_state = [v \in Workers |-> my_state[v]]
      /\ asleep_list \in Seq(Workers)
      /\ my_slack \in Int /\ my_num_workers_requested \in Int
  BY StateTyped
<1>1. /\ pc[t] = "advertise" /\ local[t].ret # "scan"
      /\ UNCHANGED <<server, my_pool_state, my_num_workers_requested, tasks, unfenced>>
      /\ my_pool_state' \in PoolStates /\ tasks' \in [Threads -> Nat]
  BY <1>0, LocalsTyped DEF Advertise, At, Returns, demand, work, Typed
<1>2. CASE my_pool_state = "full"
  <2>1. Goto(t, local[t].ret) /\ local' = local
    BY <1>2 DEF Advertise
  <2>2. Typed' /\ NotLaunched'
    BY <1>0, <1>1, <2>1, LocalsKept, ArenaStep
  <2>3. QED  BY <1>1, <1>2, <2>2, FullArena
<1>3. CASE my_pool_state # "full"
  <2>1. Goto(t, "mark") /\ local' = [local EXCEPT ![t].seen = my_pool_state]
    BY <1>3 DEF Advertise
  <2>2. OwnLocals(t) /\ local'[t].seen = my_pool_state
    BY <1>0, <1>1, <2>1 DEF OwnLocals, Locals
  <2>3. /\ Typed' /\ NotLaunched' /\ pc'[t] = "mark"
        /\ \A u \in Threads \ {t} : pc'[u] = pc[u] /\ local'[u] = local[u]
    BY <1>1, <2>1, <2>2, ArenaStep
  <2>4. CASE my_pool_state # "empty"
    BY <1>1, <2>2, <2>3, <2>4, NotEmptyAnyMore
  <2>5. CASE my_pool_state = "empty"
    <3>1. Scanned'
      BY <1>1, <2>5 DEF MarketAssumption, Scanned
    <3>2. WorkIsAdvertised'
      BY <1>1, <2>3 DEF SnapshotInv, WorkIsAdvertised
    <3>3. QED  BY <2>3, <3>1, <3>2 DEF SnapshotInv
  <2>6. QED  BY <2>4, <2>5
<1>4. QED  BY <1>2, <1>3

LEMMA MarkedFull ==
    ASSUME ServerAssumption, MarketAssumption, SnapshotInv, NEW t \in Threads, MarkFull(t)
    PROVE  SnapshotInv'
<1>0. /\ Typed
      /\ local \in [Threads -> Locals]
      /\ my_state = [v \in Workers |-> my_state[v]]
      /\ asleep_list \in Seq(Workers)
      /\ my_slack \in Int /\ my_num_workers_requested \in Int
  BY StateTyped
<1>1. /\ pc[t] = "mark" /\ local[t].ret # "scan"
      /\ UNCHANGED <<server, my_num_workers_requested, tasks, unfenced>>
      /\ tasks' \in [Threads -> Nat]
      /\ my_pool_state' = IF my_pool_state = local[t].seen THEN "full" ELSE my_pool_state
  BY <1>0, LocalsTyped DEF MarkFull, At, Returns, demand, work, Typed
<1>2. my_pool_state' \in PoolStates
  BY <1>0, <1>1 DEF Typed, PoolStates
<1>3. my_max_num_workers \in Int
  BY ArrayIsASequence DEF my_max_num_workers
<1>4. OwnLocals(t)
  <2>1. local' = local \/ SetN(t, my_max_num_workers)
    BY DEF MarkFull
  <2>2. QED  BY <1>0, <1>3, <2>1, NumberSet, LocalsKept, Zenon
<1>5. PICK where : /\ Goto(t, where) /\ where # "scan"
                   /\ my_pool_state = "empty" /\ local[t].seen # "empty" => where = "mark_empty"
  BY <1>1 DEF MarkFull
<1>6. /\ Typed' /\ NotLaunched' /\ pc'[t] = where
      /\ \A u \in Threads \ {t} : pc'[u] = pc[u] /\ local'[u] = local[u]
  BY <1>1, <1>2, <1>4, <1>5, ArenaStep
<1>7. CASE my_pool_state = local[t].seen
  BY <1>1, <1>6, <1>7, FullArena
<1>8. CASE my_pool_state # local[t].seen /\ my_pool_state # "empty"
  BY <1>1, <1>5, <1>6, <1>8, NotEmptyAnyMore
<1>9. CASE my_pool_state # local[t].seen /\ my_pool_state = "empty"
  <2>1. Scanned'
    BY <1>1, <1>9 DEF MarketAssumption, Scanned
  <2>2. WorkIsAdvertised'
    BY <1>1, <1>5, <1>6, <1>9 DEF SnapshotInv, WorkIsAdvertised
  <2>3. QED  BY <1>6, <2>1, <2>2 DEF SnapshotInv
<1>10. QED  BY <1>7, <1>8, <1>9

LEMMA MarkedEmptyFull ==
    ASSUME ServerAssumption, MarketAssumption, SnapshotInv, NEW t \in Threads, MarkEmptyFull(t)
    PROVE  SnapshotInv'
<1>0. /\ Typed
      /\ local \in [Threads -> Locals]
      /\ my_state = [v \in Workers |-> my_state[v]]
      /\ asleep_list \in Seq(Workers)
      /\ my_slack \in Int /\ my_num_workers_requested \in Int
  BY StateTyped
<1>1. /\ pc[t] = "mark_empty" /\ local[t].ret # "scan"
      /\ UNCHANGED <<server, my_num_workers_requested, tasks, unfenced>>
      /\ tasks' \in [Threads -> Nat]
  BY <1>0, LocalsTyped DEF MarkEmptyFull, At, Returns, demand, work, Typed
<1>2. CASE my_pool_state = "empty"
  <2>1. my_pool_state' = "full" /\ Goto(t, "adjust") /\ SetN(t, my_max_num_workers)
    BY <1>2 DEF MarkEmptyFull
  <2>2. my_max_num_workers \in Int
    BY ArrayIsASequence DEF my_max_num_workers
  <2>3. OwnLocals(t)
    BY <1>0, <2>1, <2>2, NumberSet, Zenon
  <2>4. my_pool_state' \in PoolStates
    BY <2>1 DEF PoolStates
  <2>5. Typed' /\ NotLaunched'
    BY <1>1, <2>1, <2>3, <2>4, ArenaStep
  <2>6. QED  BY <2>1, <2>5, FullArena
<1>3. CASE my_pool_state # "empty"
  <2>1. UNCHANGED <<my_pool_state, local>> /\ Goto(t, local[t].ret)
    BY <1>3 DEF MarkEmptyFull
  <2>2. my_pool_state' \in PoolStates
    BY <1>0, <2>1 DEF Typed
  <2>3. /\ Typed' /\ NotLaunched' /\ pc'[t] = local[t].ret
        /\ \A u \in Threads \ {t} : pc'[u] = pc[u] /\ local'[u] = local[u]
    BY <1>0, <1>1, <2>1, <2>2, LocalsKept, ArenaStep
  <2>4. QED  BY <1>1, <1>3, <2>1, <2>3, NotEmptyAnyMore
<1>4. QED  BY <1>2, <1>3


(******************************************************************************)
(* is_out_of_work                                                             *)
(******************************************************************************)

LEMMA SnapshotBegun ==
    ASSUME ServerAssumption, MarketAssumption, SnapshotInv, NEW w \in Workers, SnapshotBegins(w)
    PROVE  SnapshotInv'
<1>0. /\ Typed
      /\ local \in [Threads -> Locals]
      /\ my_state = [v \in Workers |-> my_state[v]]
      /\ asleep_list \in Seq(Workers)
      /\ my_slack \in Int /\ my_num_workers_requested \in Int
  BY StateTyped
<1>1. /\ w \in Threads /\ pc[w] = "arena"
      /\ UNCHANGED <<server, my_num_workers_requested, tasks, unfenced>>
      /\ tasks' \in [Threads -> Nat]
  BY <1>0 DEF SnapshotBegins, At, demand, work, Typed, Threads
<1>2. CASE my_pool_state = "full"
  <2>1. my_pool_state' = w /\ Goto(w, "scan") /\ SetN(w, 0) /\ 0 \in Int
    BY <1>2 DEF SnapshotBegins
  <2>2. OwnLocals(w) /\ local'[w].n = 0
    BY <1>0, <1>1, <2>1, NumberSet, Zenon
  <2>3. my_pool_state' \in PoolStates /\ my_pool_state' # "empty"
    BY <2>1 DEF PoolStates, MarketAssumption
  <2>4. Typed' /\ NotLaunched'
    BY <1>1, <2>1, <2>2, <2>3, ArenaStep
  <2>5. Scanned'
    BY <2>1, <2>2 DEF Scanned
  <2>6. WorkIsAdvertised'
    BY <2>3 DEF WorkIsAdvertised
  <2>7. QED  BY <2>4, <2>5, <2>6 DEF SnapshotInv
<1>3. CASE my_pool_state # "full"
  <2>1. UNCHANGED <<my_pool_state, local>> /\ Goto(w, "loop_end")
    BY <1>3 DEF SnapshotBegins
  <2>2. QED  BY <1>0, <1>1, <2>1, LocalsKept, GoesOn DEF server
<1>4. QED  BY <1>2, <1>3

\* A slot that is passed was empty when it was.
LEMMA SlotScanned ==
    ASSUME ServerAssumption, SnapshotInv, NEW w \in Workers, Scan(w)
    PROVE  SnapshotInv'
<1>0. /\ Typed
      /\ local \in [Threads -> Locals]
      /\ my_state = [v \in Workers |-> my_state[v]]
      /\ asleep_list \in Seq(Workers)
      /\ my_slack \in Int /\ my_num_workers_requested \in Int
  BY StateTyped
<1>1. /\ w \in Threads /\ pc[w] = "scan"
      /\ UNCHANGED <<server, my_pool_state, my_num_workers_requested, tasks, unfenced>>
  BY DEF Scan, At, demand, work, Threads
<1>2. CASE Goto(w, "undo") /\ local' = local
  BY <1>0, <1>1, <1>2, LocalsKept, GoesOn DEF server
<1>3. CASE Goto(w, "arena") /\ local' = local
  BY <1>0, <1>1, <1>3, LocalsKept, GoesOn DEF server
<1>4. CASE /\ ~(tasks[Slot(local[w].n)] > 0)
           /\ SetN(w, local[w].n + 1) /\ pc' = pc
  <2>1. local[w].n \in Int /\ local[w].n + 1 \in Int
    BY <1>0, <1>1, LocalsTyped
  <2>2. OwnLocals(w) /\ local'[w].n = local[w].n + 1
    BY <1>0, <1>1, <1>4, <2>1, NumberSet, Zenon
  <2>3. Goto(w, "scan")
    BY <1>0, <1>1, <1>4 DEF Goto, Typed
  <2>4. my_pool_state' \in PoolStates /\ tasks' \in [Threads -> Nat]
    BY <1>0, <1>1 DEF Typed
  <2>5. /\ Typed' /\ NotLaunched'
        /\ \A u \in Threads \ {w} : local'[u] = local[u]
    BY <1>1, <2>2, <2>3, <2>4, ArenaStep
  <2>6. Scanned'
    <3> SUFFICES ASSUME NEW v \in Workers, my_pool_state' = v, pc'[v] = "scan",
                        NEW k \in 0 .. my_n_thread,
                        k < local'[v].n, tasks'[Slot(k)] > 0, Slot(k) \notin unfenced'
                 PROVE  pc'[Slot(k)] = "advertise"
                        \/ (pc'[Slot(k)] = "mark" /\ local'[Slot(k)].seen = v)
      BY DEF Scanned, At, Slot
    <3>1. k \in Int /\ tasks[Slot(k)] > 0 /\ v \in Threads
      BY <1>1 DEF Threads
    <3>2. k < local[v].n
      BY <1>4, <2>1, <2>2, <2>5, <3>1
    <3>3. pc[Slot(k)] = "advertise" \/ (pc[Slot(k)] = "mark" /\ local[Slot(k)].seen = v)
      BY <1>1, <1>4, <3>1, <3>2 DEF SnapshotInv, Scanned, At
    <3>4. Slot(k) \in Threads \ {w}
      BY <1>1, <3>3, SlotIsAThread
    <3>5. QED  BY <1>4, <2>5, <3>3, <3>4
  <2>7. WorkIsAdvertised'
    BY <1>1, <1>4 DEF SnapshotInv, WorkIsAdvertised
  <2>8. QED  BY <2>5, <2>6, <2>7 DEF SnapshotInv
<1>5. QED  BY <1>2, <1>3, <1>4 DEF Scan

LEMMA SnapshotUndone ==
    ASSUME ServerAssumption, MarketAssumption, SnapshotInv, NEW w \in Workers, UndoSnapshot(w)
    PROVE  SnapshotInv'
<1>0. /\ Typed
      /\ local \in [Threads -> Locals]
      /\ my_state = [v \in Workers |-> my_state[v]]
      /\ asleep_list \in Seq(Workers)
      /\ my_slack \in Int /\ my_num_workers_requested \in Int
  BY StateTyped
<1>1. /\ w \in Threads /\ pc[w] = "undo" /\ Goto(w, "arena")
      /\ UNCHANGED <<server, local, my_num_workers_requested, tasks, unfenced>>
      /\ tasks' \in [Threads -> Nat]
  BY <1>0 DEF UndoSnapshot, At, demand, work, Typed, Threads
<1>2. CASE my_pool_state' = "full"
  <2>1. Typed' /\ NotLaunched'
    BY <1>0, <1>1, <1>2, LocalsKept, ArenaStep DEF PoolStates
  <2>2. QED  BY <1>2, <2>1, FullArena
<1>3. CASE my_pool_state' = my_pool_state
  BY <1>0, <1>1, <1>3, LocalsKept, GoesOn DEF server
<1>4. QED  BY <1>2, <1>3 DEF UndoSnapshot

\* When it ends, every slot has been passed.
LEMMA SnapshotEnded ==
    ASSUME ServerAssumption, MarketAssumption, SnapshotInv, NEW w \in Workers, SnapshotEnds(w)
    PROVE  SnapshotInv'
<1>0. /\ Typed
      /\ local \in [Threads -> Locals]
      /\ my_state = [v \in Workers |-> my_state[v]]
      /\ asleep_list \in Seq(Workers)
      /\ my_slack \in Int /\ my_num_workers_requested \in Int
  BY StateTyped
<1>1. /\ w \in Threads /\ pc[w] = "scan" /\ local[w].n > my_n_thread
      /\ UNCHANGED <<server, my_num_workers_requested, tasks, unfenced>>
      /\ tasks' \in [Threads -> Nat]
  BY <1>0 DEF SnapshotEnds, At, demand, work, Typed, Threads
<1>2. CASE my_pool_state = w
  <2>1. my_pool_state' = "empty" /\ Call(w, "adjust", -my_max_num_workers, "loop_end")
    BY <1>2 DEF SnapshotEnds
  <2>2. -my_max_num_workers \in Int /\ "loop_end" \in Returns
    BY ArrayIsASequence DEF my_max_num_workers, Returns
  <2>3. OwnLocals(w) /\ Goto(w, "adjust")
    BY <1>0, <1>1, <2>1, <2>2, CallMade, Zenon
  <2>4. my_pool_state' \in PoolStates
    BY <2>1 DEF PoolStates
  <2>5. /\ Typed' /\ NotLaunched' /\ pc'[w] = "adjust"
        /\ \A u \in Threads \ {w} : pc'[u] = pc[u]
    BY <1>1, <2>3, <2>4, ArenaStep
  <2>6. Scanned'
    BY <2>1 DEF Scanned, MarketAssumption
  <2>7. WorkIsAdvertised'
    <3> SUFFICES ASSUME NEW t \in Threads, tasks[t] > 0, t \notin unfenced
                 PROVE  pc'[t] \in {"advertise", "mark"}
      BY <1>1 DEF WorkIsAdvertised
    <3>1. PICK k \in 0 .. my_n_thread : Slot(k) = t
      BY ThreadHasASlot
    <3>2. k < local[w].n
      <4>1. local[w].n \in Int /\ my_n_thread \in Nat
        BY <1>0, <1>1, LocalsTyped, ArrayIsASequence
      <4>2. QED  BY <1>1, <4>1
    <3>3. pc[t] \in {"advertise", "mark"}
      BY <1>1, <1>2, <3>1, <3>2 DEF SnapshotInv, Scanned, At
    <3>4. QED  BY <1>1, <2>5, <3>3
  <2>8. QED  BY <2>5, <2>6, <2>7 DEF SnapshotInv
<1>3. CASE my_pool_state # w
  <2>1. Goto(w, "arena") /\ UNCHANGED <<my_pool_state, local>>
    BY <1>3 DEF SnapshotEnds
  <2>2. QED  BY <1>0, <1>1, <2>1, LocalsKept, GoesOn DEF server
<1>4. QED  BY <1>2, <1>3

(******************************************************************************)
(* The theorem                                                                *)
(******************************************************************************)

LEMMA InitSnapshots ==
    ASSUME ServerAssumption, Init
    PROVE  SnapshotInv
<1>1. asleep_list \in Seq(Workers)
  <2>1. \A i \in 1 .. my_n_thread : my_thread_array[my_n_thread - i + 1] \in Workers
    BY ArrayIsASequence, ElementOfSeq DEF ServerAssumption, my_n_thread
  <2>2. [i \in 1 .. my_n_thread |-> my_thread_array[my_n_thread - i + 1]] \in Seq(Workers)
    BY <2>1, ArrayIsASequence, IsASeq
  <2>3. QED  BY <2>2 DEF Init, ServerInit, Reverse, my_n_thread
<1>2. local \in [Threads -> Locals]
  <2>1. <<>> \in Seq(Workers)
    BY EmptySeq
  <2>2. NewLocal \in Locals
    BY <2>1 DEF NewLocal, Locals, PoolStates, Returns
  <2>3. QED  BY <2>2 DEF Init, ServerInit
<1>3. Typed
  BY <1>1, <1>2 DEF Typed, Init, ServerInit, PoolStates
<1>4. NotLaunched
  BY DEF NotLaunched, At, Init, ServerInit, ServerAssumption, Threads
<1>5. Scanned
  <2> SUFFICES ASSUME NEW k \in 0 .. my_n_thread
               PROVE  ~(tasks[Slot(k)] > 0)
    BY DEF Scanned
  <2>1. tasks[Slot(k)] = 0
    BY SlotIsAThread DEF Init
  <2>2. QED  BY <2>1
<1>6. WorkIsAdvertised
  BY DEF WorkIsAdvertised, Init
<1>7. QED  BY <1>3, <1>4, <1>5, <1>6 DEF SnapshotInv

LEMMA NextSnapshots ==
    ASSUME ServerAssumption, MarketAssumption, SnapshotInv, [Next]_vars
    PROVE  SnapshotInv'
<1>1. ASSUME NEW t \in Threads, ThreadStep(t)
      PROVE  SnapshotInv'
  <2>1. CASE ServerStep(t) /\ UNCHANGED <<my_pool_state, demand, lifetime, work>>
    BY <2>1, ServerSnapshots DEF elsewhere
  <2>2. CASE Store(t) \/ Advertise(t) \/ MarkFull(t) \/ MarkEmptyFull(t)
    BY <2>2, TaskStored, Advertised, MarkedFull, MarkedEmptyFull
  <2>3. CASE adjust_demand(t)
    BY <2>3, DemandAdjusted
  <2>4. CASE TryDestroy(t) \/ TryDestroyArena(t) \/ Release(t) \/ (t = Main /\ MasterLeaves)
    BY <2>4, ArenaDestroyed
  <2>5. CASE t = Main /\ MasterTakes
    <3>1. PICK s \in Threads : TakeFrom(s)
      BY <2>5 DEF MasterTakes
    <3>2. /\ pc[t] = "main" /\ Goto(t, "main") /\ UNCHANGED <<server, local, my_pool_state>>
          /\ my_num_workers_requested' = my_num_workers_requested
      BY <2>5 DEF MasterTakes, At, demand, Goto, SnapshotInv, Typed
    <3>3. QED  BY <3>1, <3>2, TaskTaken
  <2>6. CASE t \in Workers /\ WorkerTakes(t)
    <3>1. PICK s \in Threads : TakeFrom(s)
      BY <2>6 DEF WorkerTakes
    <3>2. /\ pc[t] = "arena" /\ Goto(t, "execute") /\ UNCHANGED <<server, local, my_pool_state>>
          /\ my_num_workers_requested' = my_num_workers_requested
      BY <2>6 DEF WorkerTakes, At, demand
    <3>3. QED  BY <3>1, <3>2, TaskTaken
  <2>7. CASE /\ t \in Workers
             /\ \/ EndTask(t) \/ SnapshotBegins(t) \/ Scan(t) \/ UndoSnapshot(t)
                \/ SnapshotEnds(t)
    BY <2>7, TaskEnds, SnapshotBegun, SlotScanned, SnapshotUndone, SnapshotEnded
  <2>8. CASE /\ t \in Workers
             /\ \/ SeekArena(t) \/ EnterArena(t) \/ Relinquish(t) \/ LoopEnds(t)
                \/ WorkerLeaves(t)
    BY <2>8, WorkerComesAndGoes
  <2>9. QED
    BY <1>1, <2>1, <2>2, <2>3, <2>4, <2>5, <2>6, <2>7, <2>8 DEF ThreadStep
<1>2. ASSUME NEW t \in Threads, Spawn(t) \/ SpawnUnfenced(t)
      PROVE  SnapshotInv'
  BY <1>2, TaskSpawned
<1>3. CASE UNCHANGED vars
  BY <1>3 DEF vars, server, demand, work, SnapshotInv, Typed, NotLaunched, Scanned,
              WorkIsAdvertised, At, Slot
<1>4. QED  BY <1>1, <1>2, <1>3 DEF Next, Terminated

\* No snapshot marks an arena empty that has a task whose spawner has returned
\* from advertise_new_work, unless the task was seen only after its spawner
\* had looked at the pool state.
THEOREM SnapshotsLoseNoWork == Spec => []WorkIsAdvertised
<1>1. Init => SnapshotInv
  BY InitSnapshots, ServerAssumption
<1>2. SnapshotInv /\ [Next]_vars => SnapshotInv'
  BY NextSnapshots, ServerAssumption, MarketAssumption
<1>3. SnapshotInv => WorkIsAdvertised
  BY DEF SnapshotInv
<1>4. QED  BY <1>1, <1>2, <1>3, PTL DEF Spec

(******************************************************************************)
(* The demand                                                                 *)
(******************************************************************************)

\* A step of thread t leaves the others where they are, or launches one.
Others(t) ==
    \A u \in Threads \ {t} :
        /\ local'[u] = local[u]
        /\ pc'[u] = pc[u] \/ (pc[u] = "unborn" /\ pc'[u] = "born")

\* The usual form of such a step, in which t goes from one place to another.
LEMMA OwnStep ==
    ASSUME Typed, NEW t \in Threads, NEW where, Goto(t, where), OwnLocals(t)
    PROVE  Others(t) /\ pc'[t] = where
  BY DEF Typed, Goto, OwnLocals, Others

\* A step that has nothing to do with the market's demand.
Apart(t) == Others(t) /\ pc[t] # "adjust" /\ pc'[t] # "adjust"

LEMMA ReturnsApart ==
    ASSUME Typed, NEW t \in Threads
    PROVE  local[t].ret # "adjust" /\ local[t].ret \notin {"close", "close_notify", "close_signal"}
  BY LocalsTyped DEF Returns

LEMMA WorkerApart ==
    ASSUME SnapshotInv, NEW t \in Workers,
           \/ propagate_chain_reaction(t) \/ TestState(t) \/ TestSlack(t)
           \/ PrepareWait(t) \/ VerifyState(t) \/ GiveUnit(t) \/ Insert(t)
           \/ CancelWait(t) \/ CommitWait(t) \/ Cleanup(t) \/ Unref(t)
    PROVE  Apart(t)
<1>0. Typed /\ t \in Threads /\ pc = [u \in Threads |-> pc[u]] /\ local \in [Threads -> Locals]
  BY StateTyped DEF Typed, Threads
<1>1. CASE propagate_chain_reaction(t)
  BY <1>0, <1>1 DEF propagate_chain_reaction, Call, Goto, Apart, Others
<1>2. CASE TestState(t) \/ TestSlack(t) \/ PrepareWait(t) \/ VerifyState(t) \/ CancelWait(t)
  BY <1>0, <1>2 DEF TestState, TestSlack, PrepareWait, VerifyState, CancelWait, Goto, At, Apart, Others
<1>3. CASE GiveUnit(t)
  BY <1>0, <1>3 DEF GiveUnit, SetN, Goto, At, Apart, Others
<1>4. CASE Insert(t) \/ Cleanup(t) \/ Unref(t)
  BY <1>0, <1>4 DEF Insert, Cleanup, Unref, Goto, At, Apart, Others
<1>5. CASE CommitWait(t)
  BY <1>0, <1>5 DEF CommitWait, Goto, At, Apart, Others
<1>6. QED  BY <1>1, <1>2, <1>3, <1>4, <1>5

LEMMA ServerApart ==
    ASSUME SnapshotInv, NEW t \in Threads, ServerStep(t)
    PROVE  Apart(t)
<1>0. /\ Typed /\ pc = [u \in Threads |-> pc[u]] /\ local \in [Threads -> Locals]
      /\ local[t].ret # "adjust"
  BY StateTyped, ReturnsApart DEF Typed
<1>1. CASE adjust_job_count_estimate(t) \/ LockList(t)
  BY <1>0, <1>1 DEF adjust_job_count_estimate, LockList, Goto, At, Apart, Others
<1>2. CASE ClaimUnit(t)
  <2>1. pc[t] = "claim" /\ (pc' = pc \/ Goto(t, "rouse"))
    BY <1>2 DEF ClaimUnit, At
  <2>2. \A u \in Threads \ {t} : local'[u] = local[u]
    BY <1>0, <1>2 DEF ClaimUnit, SetN
  <2>3. QED  BY <1>0, <2>1, <2>2 DEF Goto, Apart, Others
<1>3. CASE Rouse(t)
  <2> DEFINE w == Last(local[t].wakees)
  <2>1. CASE local[t].wakees # <<>> /\ my_state[w] = "init"
    <3>1. w \in Workers /\ w \in Threads
      BY <1>0, <2>1, LastWakee DEF Threads
    <3>2. /\ pc[t] = "rouse" /\ pc' = [pc EXCEPT ![t] = "launched", ![w] = "born"]
          /\ local' = local
      BY <1>3, <2>1 DEF Rouse, At
    <3>3. pc[w] = "unborn" /\ w # t
      BY <2>1, <3>1, <3>2 DEF SnapshotInv, NotLaunched, At
    <3> HIDE DEF w
    <3>4. QED  BY <1>0, <3>1, <3>2, <3>3 DEF Apart, Others
  <2>2. CASE ~(local[t].wakees # <<>> /\ my_state[w] = "init")
    <3>1. /\ pc[t] = "rouse" /\ local' = local
          /\ Goto(t, local[t].ret) \/ Goto(t, "signal")
      BY <1>3, <2>2 DEF Rouse, At
    <3>2. QED  BY <1>0, <3>1 DEF Goto, Apart, Others
  <2>3. QED  BY <2>1, <2>2
<1>4. CASE Roused(t)
  BY <1>0, <1>4 DEF Roused, Goto, At, Apart, Others
<1>5. CASE StartShutdown(t)
  <2>1. pc[t] = "close" /\ (pc' = pc \/ Goto(t, "close_notify"))
    BY <1>5 DEF StartShutdown, At
  <2>2. \A u \in Threads \ {t} : local'[u] = local[u]
    BY <1>0, <1>5 DEF StartShutdown, SetN
  <2>3. QED  BY <1>0, <2>1, <2>2 DEF Goto, Apart, Others
<1>6. CASE NotifyShutdown(t) \/ CloseConnection(t)
  BY <1>0, <1>6 DEF NotifyShutdown, CloseConnection, SetN, Goto, At, Apart, Others
<1>7. QED
  BY <1>1, <1>2, <1>3, <1>4, <1>5, <1>6, WorkerApart DEF ServerStep

LEMMA ThreadsAreFinite ==
    ASSUME ServerAssumption
    PROVE  IsFiniteSet(Threads)
<1>1. my_n_thread \in Nat /\ DOMAIN my_thread_array = 1 .. my_n_thread
  BY ArrayIsASequence
<1>2. IsFiniteSet(1 .. my_n_thread)
  BY <1>1, FS_Interval
<1>3. my_thread_array \in Surjection(1 .. my_n_thread, Workers)
  <2>1. my_thread_array \in [1 .. my_n_thread -> Workers]
    BY <1>1 DEF ServerAssumption, my_n_thread
  <2>2. \A w \in Workers : \E i \in 1 .. my_n_thread : my_thread_array[i] = w
    BY <1>1 DEF ServerAssumption, Range
  <2>3. QED  BY <2>1, <2>2 DEF Surjection
<1>4. IsFiniteSet(Workers)
  BY <1>2, <1>3, FS_Surjection
<1>5. QED  BY <1>4, FS_AddElement DEF Threads

Raising == {t \in Threads : pc[t] = "adjust" /\ local[t].n > 0}
Lowering == {t \in Threads : pc[t] = "adjust" /\ local[t].n < 0}

Wanted == IF my_pool_state = "empty" THEN 0 ELSE 1

\* Who is about to tell the market tells it of all workers.
AllAtOnce ==
    \A t \in Threads : pc[t] = "adjust" =>
        local[t].n = my_max_num_workers \/ local[t].n = -my_max_num_workers

Told == my_num_workers_requested
            = my_max_num_workers * (Wanted - Cardinality(Raising) + Cardinality(Lowering))

DemandInv == AllAtOnce /\ Told

LEMMA Amounts ==
    ASSUME ServerAssumption
    PROVE  /\ my_max_num_workers \in Nat
           /\ IsFiniteSet(Raising) /\ Cardinality(Raising) \in Nat
           /\ IsFiniteSet(Lowering) /\ Cardinality(Lowering) \in Nat
           /\ Wanted \in {0, 1}
<1>1. Raising \in SUBSET Threads /\ Lowering \in SUBSET Threads
  BY DEF Raising, Lowering
<1>2. IsFiniteSet(Raising) /\ IsFiniteSet(Lowering)
  BY <1>1, ThreadsAreFinite, FS_Subset
<1>3. my_max_num_workers \in Nat
  BY ArrayIsASequence DEF my_max_num_workers
<1>4. QED  BY <1>2, <1>3, FS_CardinalityType DEF Wanted

\* A step that does not change what is wanted, or told.
LEMMA DemandKept ==
    ASSUME DemandInv, NEW t \in Threads, Apart(t),
           my_num_workers_requested' = my_num_workers_requested, Wanted' = Wanted
    PROVE  DemandInv'
<1>1. \A u \in Threads : (pc'[u] = "adjust" <=> pc[u] = "adjust")
                         /\ (pc[u] = "adjust" => local'[u] = local[u])
  BY DEF Apart, Others
<1>2. Raising' = Raising /\ Lowering' = Lowering
  BY <1>1 DEF Raising, Lowering
<1>3. AllAtOnce'
  BY <1>1 DEF DemandInv, AllAtOnce, my_max_num_workers, my_n_thread
<1>4. Told'
  BY <1>2 DEF DemandInv, Told, my_max_num_workers, my_n_thread
<1>5. QED  BY <1>3, <1>4 DEF DemandInv

\* The arena is no longer empty, or is empty now: t is to tell the market.
LEMMA DemandArises ==
    ASSUME ServerAssumption, DemandInv, NEW t \in Threads, Others(t), pc[t] # "adjust", pc'[t] = "adjust",
           my_num_workers_requested' = my_num_workers_requested,
           \/ Wanted = 0 /\ Wanted' = 1 /\ local'[t].n = my_max_num_workers
           \/ Wanted = 1 /\ Wanted' = 0 /\ local'[t].n = -my_max_num_workers
    PROVE  DemandInv'
<1>1. \A u \in Threads \ {t} : (pc'[u] = "adjust" <=> pc[u] = "adjust")
                               /\ (pc[u] = "adjust" => local'[u] = local[u])
  BY DEF Others
<1>2. AllAtOnce'
  BY <1>1 DEF DemandInv, AllAtOnce, my_max_num_workers, my_n_thread
<1>3. PICK max \in Nat, r \in Nat, l \in Nat, w \in {0, 1} :
         /\ max = my_max_num_workers /\ r = Cardinality(Raising) /\ l = Cardinality(Lowering)
         /\ w = Wanted /\ max = my_max_num_workers'
  BY Amounts DEF my_max_num_workers, my_n_thread
<1>4. my_num_workers_requested = max * (w - r + l)
  BY <1>3 DEF DemandInv, Told
<1>5. CASE max = 0
  <2>1. my_num_workers_requested' = 0
    BY <1>4, <1>5
  <2>2. Cardinality(Raising)' \in Nat /\ Cardinality(Lowering)' \in Nat /\ Wanted' \in {0, 1}
    <3>1. Raising' \in SUBSET Threads /\ Lowering' \in SUBSET Threads
      BY DEF Raising, Lowering
    <3>2. IsFiniteSet(Raising') /\ IsFiniteSet(Lowering')
      BY <3>1, ThreadsAreFinite, FS_Subset
    <3>3. QED  BY <3>2, FS_CardinalityType
  <2>3. Told'
    BY <1>3, <1>5, <2>1, <2>2 DEF Told
  <2>4. QED  BY <1>2, <2>3 DEF DemandInv
<1>6. CASE max > 0 /\ w = 0
  <2>1. Wanted' = 1 /\ local'[t].n = max
    BY <1>3, <1>6
  <2>2. Raising' = Raising \cup {t} /\ t \notin Raising /\ Lowering' = Lowering
    BY <1>1, <1>6, <2>1 DEF Raising, Lowering
  <2>3. Cardinality(Raising)' = r + 1
    BY <1>3, <2>2, Amounts, FS_AddElement
  <2>4. Told'
    BY <1>3, <1>4, <1>6, <2>1, <2>2, <2>3 DEF Told
  <2>5. QED  BY <1>2, <2>4 DEF DemandInv
<1>7. CASE max > 0 /\ w = 1
  <2>1. Wanted' = 0 /\ local'[t].n = -max
    BY <1>3, <1>7
  <2>2. Lowering' = Lowering \cup {t} /\ t \notin Lowering /\ Raising' = Raising
    BY <1>1, <1>7, <2>1 DEF Raising, Lowering
  <2>3. Cardinality(Lowering)' = l + 1
    BY <1>3, <2>2, Amounts, FS_AddElement
  <2>4. Told'
    BY <1>3, <1>4, <1>7, <2>1, <2>2, <2>3 DEF Told
  <2>5. QED  BY <1>2, <2>4 DEF DemandInv
<1>8. QED  BY <1>3, <1>5, <1>6, <1>7

\* It tells the market.
LEMMA DemandIsTold ==
    ASSUME ServerAssumption, SnapshotInv, DemandInv, NEW t \in Threads, adjust_demand(t)
    PROVE  DemandInv' /\ Others(t)
<1>0. /\ Typed /\ pc = [u \in Threads |-> pc[u]] /\ local \in [Threads -> Locals]
      /\ local[t].ret # "adjust" /\ local[t].n \in Int
  BY StateTyped, ReturnsApart, LocalsTyped DEF Typed
<1>1. PICK max \in Nat, r \in Nat, l \in Nat, w \in {0, 1}, n \in Int :
         /\ max = my_max_num_workers /\ r = Cardinality(Raising) /\ l = Cardinality(Lowering)
         /\ w = Wanted /\ max = my_max_num_workers' /\ n = local[t].n
  BY <1>0, Amounts DEF my_max_num_workers, my_n_thread
<1>2. my_num_workers_requested = max * (w - r + l)
  BY <1>1 DEF DemandInv, Told
<1>3. /\ pc[t] = "adjust" /\ pc'[t] # "adjust" /\ my_pool_state' = my_pool_state
      /\ \A u \in Threads \ {t} : pc'[u] = pc[u] /\ local'[u] = local[u]
      /\ my_num_workers_requested' = my_num_workers_requested + n
  BY <1>0, <1>1 DEF adjust_demand, At, Goto, SetN
<1>4. AllAtOnce' /\ Others(t) /\ (n = max \/ n = -max)
  BY <1>1, <1>3 DEF DemandInv, AllAtOnce, Others, my_max_num_workers, my_n_thread
<1>5. Wanted' = w
  BY <1>1, <1>3 DEF Wanted
<1>6. CASE n > 0
  <2>1. Raising' = Raising \ {t} /\ t \in Raising /\ Lowering' = Lowering /\ n = max
    BY <1>1, <1>3, <1>4, <1>6 DEF Raising, Lowering
  <2>2. Cardinality(Raising)' = r - 1
    BY <1>1, <2>1, Amounts, FS_RemoveElement
  <2>3. Told'
    BY <1>1, <1>2, <1>3, <1>5, <2>1, <2>2 DEF Told
  <2>4. QED  BY <1>4, <2>3 DEF DemandInv
<1>7. CASE n < 0
  <2>1. Lowering' = Lowering \ {t} /\ t \in Lowering /\ Raising' = Raising /\ n = -max
    BY <1>1, <1>3, <1>4, <1>7 DEF Raising, Lowering
  <2>2. Cardinality(Lowering)' = l - 1
    BY <1>1, <2>1, Amounts, FS_RemoveElement
  <2>3. Told'
    BY <1>1, <1>2, <1>3, <1>5, <2>1, <2>2 DEF Told
  <2>4. QED  BY <1>4, <2>3 DEF DemandInv
<1>8. CASE n = 0
  <2>1. Raising' = Raising /\ Lowering' = Lowering
    <3>1. local[t].n = 0 /\ ~(local[t].n > 0) /\ ~(local[t].n < 0)
      BY <1>1, <1>8
    <3>2. ASSUME NEW u \in Threads
          PROVE  /\ (pc'[u] = "adjust" /\ local'[u].n > 0) <=> (pc[u] = "adjust" /\ local[u].n > 0)
                 /\ (pc'[u] = "adjust" /\ local'[u].n < 0) <=> (pc[u] = "adjust" /\ local[u].n < 0)
      <4>1. CASE u = t
        BY <1>3, <3>1, <4>1
      <4>2. CASE u # t
        BY <1>3, <4>2
      <4>3. QED  BY <4>1, <4>2
    <3>3. QED  BY <3>2 DEF Raising, Lowering
  <2>2. my_num_workers_requested' = max * (w - r + l)
    BY <1>1, <1>2, <1>3, <1>8
  <2>3. Told'
    BY <1>1, <1>5, <2>1, <2>2 DEF Told
  <2>4. QED  BY <1>4, <2>3 DEF DemandInv
<1>9. QED  BY <1>1, <1>6, <1>7, <1>8

\* The steps in the arena, and what becomes of it.
LEMMA ArenaApart ==
    ASSUME SnapshotInv, NEW t \in Threads,
           \/ Spawn(t) \/ SpawnUnfenced(t) \/ Store(t) \/ Advertise(t)
           \/ TryDestroy(t) \/ TryDestroyArena(t) \/ Release(t)
           \/ t = Main /\ (MasterTakes \/ MasterLeaves)
           \/ t \in Workers /\ (WorkerTakes(t) \/ EndTask(t) \/ SeekArena(t) \/ EnterArena(t)
                                \/ Relinquish(t) \/ LoopEnds(t) \/ WorkerLeaves(t))
    PROVE  /\ Apart(t) /\ my_num_workers_requested' = my_num_workers_requested
           /\ my_pool_state' = my_pool_state
<1>0. /\ Typed /\ pc = [u \in Threads |-> pc[u]] /\ local \in [Threads -> Locals]
      /\ local[t].ret # "adjust"
  BY StateTyped, ReturnsApart DEF Typed
<1>1. CASE Spawn(t) \/ SpawnUnfenced(t)
  BY <1>0, <1>1 DEF Spawn, SpawnUnfenced, MaySpawn, Running, Call, Goto, Apart, Others, demand
<1>2. CASE Store(t) \/ Advertise(t)
  BY <1>0, <1>2 DEF Store, Advertise, Goto, At, Apart, Others, demand
<1>3. CASE TryDestroy(t) \/ TryDestroyArena(t)
  BY <1>0, <1>3 DEF TryDestroy, TryDestroyArena, AfterLeaving, Call, Goto, At, Apart, Others, demand
<1>4. CASE Release(t)
  BY <1>0, <1>4 DEF Release, SetN, Goto, At, Apart, Others, demand
<1>5. CASE t = Main /\ (MasterTakes \/ MasterLeaves)
  BY <1>0, <1>5 DEF MasterTakes, MasterLeaves, Goto, At, Apart, Others, demand
<1>6. CASE t \in Workers /\ (WorkerTakes(t) \/ EndTask(t) \/ SeekArena(t) \/ EnterArena(t))
  BY <1>0, <1>6 DEF WorkerTakes, EndTask, SeekArena, EnterArena, Goto, At, Apart, Others, demand
<1>7. CASE t \in Workers /\ (Relinquish(t) \/ LoopEnds(t) \/ WorkerLeaves(t))
  BY <1>0, <1>7 DEF Relinquish, LoopEnds, WorkerLeaves, Goto, At, Apart, Others, demand
<1>8. QED  BY <1>1, <1>2, <1>3, <1>4, <1>5, <1>6, <1>7

\* Who marks an empty arena full, or a full one empty, is to tell the market.
LEMMA StateMarked ==
    ASSUME ServerAssumption, MarketAssumption, SnapshotInv, DemandInv, NEW t \in Threads,
           \/ MarkFull(t) \/ MarkEmptyFull(t)
           \/ t \in Workers /\ (SnapshotBegins(t) \/ Scan(t) \/ UndoSnapshot(t) \/ SnapshotEnds(t))
    PROVE  DemandInv' /\ Others(t)
<1>0. /\ Typed /\ pc = [u \in Threads |-> pc[u]] /\ local \in [Threads -> Locals]
      /\ local[t].ret # "adjust" /\ my_pool_state \in PoolStates
      /\ my_max_num_workers' = my_max_num_workers
  BY StateTyped, ReturnsApart DEF Typed, my_max_num_workers, my_n_thread
<1>1. CASE MarkFull(t)
  <2>0. /\ pc[t] = "mark" /\ my_num_workers_requested' = my_num_workers_requested
        /\ my_pool_state' = IF my_pool_state = local[t].seen THEN "full" ELSE my_pool_state
    BY <1>1 DEF MarkFull, At, demand
  <2>1. CASE my_pool_state = "empty" /\ local[t].seen = "empty"
    <3>1. /\ pc'[t] = "adjust" /\ local'[t].n = my_max_num_workers /\ Others(t)
          /\ Wanted = 0 /\ Wanted' = 1
      BY <1>0, <1>1, <2>0, <2>1 DEF MarkFull, Goto, SetN, Others, Wanted, Locals
    <3>2. QED  BY <2>0, <3>1, DemandArises
  <2>2. CASE ~(my_pool_state = "empty" /\ local[t].seen = "empty")
    <3>1. Apart(t) /\ Wanted' = Wanted
      BY <1>0, <1>1, <2>0, <2>2 DEF MarkFull, Goto, Apart, Others, Wanted
    <3>2. QED  BY <2>0, <3>1, DemandKept DEF Apart
  <2>3. QED  BY <2>1, <2>2
<1>2. CASE MarkEmptyFull(t)
  <2>0. pc[t] = "mark_empty" /\ my_num_workers_requested' = my_num_workers_requested
    BY <1>2 DEF MarkEmptyFull, At, demand
  <2>1. CASE my_pool_state = "empty"
    <3>1. /\ pc'[t] = "adjust" /\ local'[t].n = my_max_num_workers /\ Others(t)
          /\ Wanted = 0 /\ Wanted' = 1
      BY <1>0, <1>2, <2>1 DEF MarkEmptyFull, Goto, SetN, Others, Wanted, Locals
    <3>2. QED  BY <2>0, <3>1, DemandArises
  <2>2. CASE my_pool_state # "empty"
    <3>1. Apart(t) /\ Wanted' = Wanted
      BY <1>0, <1>2, <2>0, <2>2 DEF MarkEmptyFull, Goto, Apart, Others, Wanted
    <3>2. QED  BY <2>0, <3>1, DemandKept DEF Apart
  <2>3. QED  BY <2>1, <2>2
<1>3. CASE t \in Workers /\ SnapshotBegins(t)
  <2>1. Apart(t) /\ my_num_workers_requested' = my_num_workers_requested
    BY <1>0, <1>3 DEF SnapshotBegins, SetN, Goto, At, Apart, Others, demand
  <2>2. Wanted' = Wanted
    BY <1>3 DEF SnapshotBegins, Wanted, MarketAssumption
  <2>3. QED  BY <2>1, <2>2, DemandKept DEF Apart
<1>4. CASE t \in Workers /\ Scan(t)
  <2>1. /\ pc[t] = "scan" /\ my_num_workers_requested' = my_num_workers_requested
        /\ Wanted' = Wanted
        /\ pc' = pc \/ Goto(t, "undo") \/ Goto(t, "arena")
    BY <1>4 DEF Scan, At, demand, Wanted
  <2>2. \A u \in Threads \ {t} : local'[u] = local[u]
    BY <1>0, <1>4 DEF Scan, SetN
  <2>3. Apart(t)
    BY <1>0, <2>1, <2>2 DEF Goto, Apart, Others
  <2>4. QED  BY <2>1, <2>3, DemandKept DEF Apart
<1>5. CASE t \in Workers /\ UndoSnapshot(t)
  <2>1. Apart(t) /\ my_num_workers_requested' = my_num_workers_requested
    BY <1>0, <1>5 DEF UndoSnapshot, Goto, At, Apart, Others, demand
  <2>2. Wanted' = Wanted
    BY <1>5 DEF UndoSnapshot, Wanted, MarketAssumption
  <2>3. QED  BY <2>1, <2>2, DemandKept DEF Apart
<1>6. CASE t \in Workers /\ SnapshotEnds(t)
  <2>0. pc[t] = "scan" /\ my_num_workers_requested' = my_num_workers_requested
    BY <1>6 DEF SnapshotEnds, At, demand
  <2>1. CASE my_pool_state = t
    <3>1. /\ pc'[t] = "adjust" /\ local'[t].n = -my_max_num_workers /\ Others(t)
          /\ Wanted = 1 /\ Wanted' = 0
      BY <1>0, <1>6, <2>1 DEF SnapshotEnds, Call, Goto, Others, Wanted, Locals, MarketAssumption
    <3>2. QED  BY <2>0, <3>1, DemandArises
  <2>2. CASE my_pool_state # t
    <3>1. Apart(t) /\ Wanted' = Wanted
      BY <1>0, <1>6, <2>0, <2>2 DEF SnapshotEnds, Goto, Apart, Others, Wanted
    <3>2. QED  BY <2>0, <3>1, DemandKept DEF Apart
  <2>3. QED  BY <2>1, <2>2
<1>7. QED  BY <1>1, <1>2, <1>3, <1>4, <1>5, <1>6

LEMMA NextDemand ==
    ASSUME ServerAssumption, MarketAssumption, SnapshotInv, DemandInv, [Next]_vars
    PROVE  DemandInv'
<1>1. ASSUME NEW t \in Threads, ThreadStep(t) \/ Spawn(t) \/ SpawnUnfenced(t)
      PROVE  DemandInv'
  <2>1. CASE ServerStep(t) /\ UNCHANGED <<my_pool_state, demand, lifetime, work>>
    <3>1. Wanted' = Wanted /\ my_num_workers_requested' = my_num_workers_requested
      BY <2>1 DEF Wanted, demand
    <3>2. QED  BY <2>1, <3>1, ServerApart, DemandKept
  <2>2. CASE adjust_demand(t)
    BY <2>2, DemandIsTold
  <2>3. CASE \/ MarkFull(t) \/ MarkEmptyFull(t)
             \/ t \in Workers /\ (SnapshotBegins(t) \/ Scan(t) \/ UndoSnapshot(t) \/ SnapshotEnds(t))
    BY <2>3, StateMarked
  <2>4. CASE \/ Spawn(t) \/ SpawnUnfenced(t) \/ Store(t) \/ Advertise(t)
             \/ TryDestroy(t) \/ TryDestroyArena(t) \/ Release(t)
             \/ t = Main /\ (MasterTakes \/ MasterLeaves)
             \/ t \in Workers /\ (WorkerTakes(t) \/ EndTask(t) \/ SeekArena(t) \/ EnterArena(t)
                                  \/ Relinquish(t) \/ LoopEnds(t) \/ WorkerLeaves(t))
    <3>1. /\ Apart(t) /\ my_num_workers_requested' = my_num_workers_requested
          /\ my_pool_state' = my_pool_state
      BY <2>4, ArenaApart
    <3>2. Wanted' = Wanted
      BY <3>1 DEF Wanted
    <3>3. QED  BY <3>1, <3>2, DemandKept
  <2>5. QED  BY <1>1, <2>1, <2>2, <2>3, <2>4 DEF ThreadStep
<1>2. CASE UNCHANGED vars
  <2>1. /\ pc' = pc /\ local' = local /\ my_num_workers_requested' = my_num_workers_requested
        /\ my_pool_state' = my_pool_state
    BY <1>2 DEF vars, demand
  <2>2. Raising' = Raising /\ Lowering' = Lowering /\ Wanted' = Wanted
    BY <2>1 DEF Raising, Lowering, Wanted
  <2>3. QED
    BY <2>1, <2>2 DEF DemandInv, AllAtOnce, Told, my_max_num_workers, my_n_thread
<1>3. QED  BY <1>1, <1>2 DEF Next, Terminated

LEMMA InitDemand ==
    ASSUME ServerAssumption, Init
    PROVE  DemandInv
<1>1. /\ \A t \in Threads : pc[t] # "adjust"
      /\ my_num_workers_requested = 0 /\ Wanted = 0
  BY DEF Init, ServerInit, Wanted
<1>2. Raising = {} /\ Lowering = {}
  BY <1>1 DEF Raising, Lowering
<1>3. Cardinality(Raising) = 0 /\ Cardinality(Lowering) = 0
  BY <1>2, FS_EmptySet
<1>4. my_max_num_workers \in Nat
  BY Amounts, ServerAssumption
<1>5. QED  BY <1>1, <1>3, <1>4 DEF DemandInv, AllAtOnce, Told

(* The market is told of each change of the arena between empty and not empty *)
(* once, whichever order the calls of adjust_demand come in: the demand is    *)
(* never left when the work is gone, nor lost while there is work.            *)
THEOREM DemandIsExact == Spec => []DemandMatchesState
<1>1. Init => DemandInv
  BY InitDemand, ServerAssumption
<1>2. SnapshotInv /\ DemandInv /\ [Next]_vars => (SnapshotInv /\ DemandInv)'
  BY NextSnapshots, NextDemand, ServerAssumption, MarketAssumption
<1>3. DemandInv => DemandMatchesState
  BY DEF DemandInv, Told, DemandMatchesState, Raising, Lowering, Wanted, At
<1>4. Init => SnapshotInv
  BY InitSnapshots, ServerAssumption
<1>5. QED  BY <1>1, <1>2, <1>3, <1>4, PTL DEF Spec

(******************************************************************************)
(* Sleepers                                                                   *)
(******************************************************************************)

Monitors == [advanced : BOOLEAN, in_wait : BOOLEAN, spurious : BOOLEAN, posted : BOOLEAN]

\* A thread that wakes the last of those it has claimed.
Rousing(t) == pc[t] \in {"launched", "signal"}

Wakees(t) == local[t].wakees

\* The i-th worker that t has claimed is still to be woken.
Holds(t, i) == i \in DOMAIN Wakees(t) /\ (Rousing(t) => i < Len(Wakees(t)))

\* A worker that is on the list, or that a thread has claimed and not yet woken.
Kept(w) ==
    \/ \E i \in DOMAIN asleep_list : asleep_list[i] = w
    \/ \E t \in Threads : \E i \in DOMAIN Wakees(t) : Holds(t, i) /\ Wakees(t)[i] = w

\* Nobody has notified w since it took its cookie, or is about to.
Untouched(w) == ~monitor[w].advanced /\ ~monitor[w].posted /\ ~BeingNotified(w)

Waits == {"verify", "insert", "inserting", "cancel", "commit", "sleep"}

\* The monitor of a worker at pc "where": a signal is posted when in_wait is
\* taken away, once in a wait, and is spurious if the wait has been cancelled.
Fits(m, where) ==
    /\ where \in Waits => ~m.spurious /\ (m.in_wait <=> ~m.posted)
    /\ where = "announce" => ~m.spurious /\ ~m.in_wait /\ ~m.posted
    /\ where \notin Waits \cup {"announce"} => ~m.in_wait /\ (m.posted <=> m.spurious)

MonitorsFit == \A w \in Workers : Fits(monitor[w], pc[w])

ListedOnce == \A i, j \in DOMAIN asleep_list : asleep_list[i] = asleep_list[j] => i = j

ClaimedOrListed ==
    \A t \in Threads : \A i \in DOMAIN Wakees(t) : \A j \in DOMAIN asleep_list :
        Holds(t, i) => Wakees(t)[i] # asleep_list[j]

ClaimedOnce ==
    \A t, u \in Threads : \A i \in DOMAIN Wakees(t), j \in DOMAIN Wakees(u) :
        Holds(t, i) /\ Holds(u, j) /\ Wakees(t)[i] = Wakees(u)[j] => t = u /\ i = j

Sleeps(w) ==
    \/ my_state[w] = "init" /\ pc[w] = "unborn"
    \/ pc[w] \in {"commit", "sleep"} /\ Untouched(w)

KeptSleep == \A w \in Workers : Kept(w) => Sleeps(w)

Undisturbed ==
    \A w \in Workers : pc[w] \in {"announce", "verify", "insert", "inserting"} => Untouched(w)

RousesSomeone == \A t \in Threads : Rousing(t) => Wakees(t) # <<>>

Closing == {"close", "close_notify", "close_signal"}

IsOpen == \A t \in Threads : pc[t] \notin Closing

Asleep ==
    /\ monitor \in [Workers -> Monitors]
    /\ MonitorsFit /\ ListedOnce /\ ClaimedOrListed /\ ClaimedOnce /\ KeptSleep /\ Undisturbed
    /\ RousesSomeone /\ IsOpen

SleepInv == market_ref_count \in Int /\ (theMarket => Asleep)

\* Who is not rousing anybody, before and after, notifies nobody else.
LEMMA NotifiedSame ==
    ASSUME NEW t \in Threads, Others(t), Wakees(t)' = Wakees(t), ~Rousing(t), ~Rousing(t)'
    PROVE  /\ \A w : BeingNotified(w)' <=> BeingNotified(w)
           /\ \A u \in Threads : Wakees(u)' = Wakees(u) /\ (Rousing(u)' <=> Rousing(u))
           /\ \A u \in Threads : \A i : Holds(u, i)' <=> Holds(u, i)
<1>1. \A u \in Threads : /\ Wakees(u)' = Wakees(u) /\ (Rousing(u)' <=> Rousing(u))
                         /\ (At(u, "signal")' <=> At(u, "signal"))
  <2>1. ASSUME NEW u \in Threads, u # t
        PROVE  /\ Wakees(u)' = Wakees(u) /\ (Rousing(u)' <=> Rousing(u))
               /\ (At(u, "signal")' <=> At(u, "signal"))
    BY <2>1 DEF Others, Wakees, Rousing, At
  <2>2. At(t, "signal")' <=> At(t, "signal")
    BY DEF Rousing, At
  <2>3. QED  BY <2>1, <2>2
<1>2. \A u \in Threads : \A i : Holds(u, i)' <=> Holds(u, i)
  BY <1>1 DEF Holds
<1>3. \A w : BeingNotified(w)' <=> BeingNotified(w)
  BY <1>1 DEF BeingNotified, Wakees
<1>4. QED  BY <1>1, <1>2, <1>3

\* A step of a thread that neither rouses, nor claims, nor goes on the list.
LEMMA SleepKept ==
    ASSUME SleepInv, NotLaunched', NEW t \in Threads, Others(t), Wakees(t)' = Wakees(t),
           ~Rousing(t), ~Rousing(t)', pc'[t] \notin Closing, pc[t] # "unborn", pc'[t] # "unborn",
           market_ref_count' \in Int, theMarket' => theMarket,
           asleep_list' = asleep_list, my_state' = my_state,
           theMarket => /\ monitor' \in [Workers -> Monitors]
                        /\ \A v \in Workers \ {t} : monitor'[v] = monitor[v],
           theMarket /\ t \in Workers =>
               /\ Fits(monitor'[t], pc'[t])
               /\ pc'[t] \in {"announce", "verify", "insert", "inserting"} => Untouched(t)'
               /\ Kept(t) => pc'[t] \in {"commit", "sleep"} /\ Untouched(t)'
    PROVE  SleepInv'
<1>1. SUFFICES ASSUME theMarket'
               PROVE  Asleep'
  BY DEF SleepInv
<1>2. /\ theMarket /\ Asleep /\ monitor' \in [Workers -> Monitors]
      /\ \A v \in Workers \ {t} : monitor'[v] = monitor[v]
  BY <1>1 DEF SleepInv
<1>3. /\ \A w : BeingNotified(w)' <=> BeingNotified(w)
      /\ \A u \in Threads : Wakees(u)' = Wakees(u) /\ (Rousing(u)' <=> Rousing(u))
      /\ \A u \in Threads : \A i : Holds(u, i)' <=> Holds(u, i)
  BY NotifiedSame
<1>4. \A w : Kept(w)' <=> Kept(w)
  BY <1>3 DEF Kept
<1>5. ListedOnce' /\ ClaimedOrListed' /\ ClaimedOnce'
  BY <1>2, <1>3 DEF Asleep, ListedOnce, ClaimedOrListed, ClaimedOnce
<1>6. ASSUME NEW w \in Workers, w # t
      PROVE  /\ pc'[w] = pc[w] \/ (pc[w] = "unborn" /\ pc'[w] = "born")
             /\ Untouched(w)' <=> Untouched(w)
  BY <1>2, <1>3, <1>6 DEF Others, Threads, Untouched
<1>7. MonitorsFit'
  <2>1. ASSUME NEW w \in Workers, w # t
        PROVE  Fits(monitor'[w], pc'[w])
    <3>1. Fits(monitor[w], pc[w])
      BY <1>2 DEF Asleep, MonitorsFit
    <3>2. QED  BY <1>2, <1>6, <2>1, <3>1 DEF Fits, Waits
  <2>2. QED  BY <1>2, <2>1 DEF MonitorsFit
<1>8. KeptSleep' /\ Undisturbed' /\ RousesSomeone' /\ IsOpen'
  <2>1. ASSUME NEW w \in Workers, Kept(w)
        PROVE  Sleeps(w)'
    <3>1. Sleeps(w)
      BY <1>2, <2>1 DEF Asleep, KeptSleep
    <3>2. CASE w = t
      BY <1>2, <2>1, <3>2 DEF Sleeps
    <3>3. CASE w # t /\ my_state[w] = "init"
      BY <3>3 DEF NotLaunched, At, Sleeps
    <3>4. CASE w # t /\ my_state[w] # "init"
      BY <1>6, <3>1, <3>4 DEF Sleeps
    <3>5. QED  BY <3>2, <3>3, <3>4
  <2>2. Undisturbed'
    BY <1>2, <1>6 DEF Asleep, Undisturbed
  <2>3. RousesSomeone' /\ IsOpen'
    BY <1>2, <1>3 DEF Asleep, RousesSomeone, IsOpen, Others, Closing
  <2>4. QED  BY <1>4, <2>1, <2>2, <2>3 DEF KeptSleep
<1>9. QED  BY <1>2, <1>5, <1>7, <1>8 DEF Asleep

Busy == {"unborn", "announce", "verify", "insert", "inserting", "cancel", "commit", "sleep",
         "launched", "signal"} \cup Closing

\* A step of a thread that is neither on its way to sleep nor waking anybody.
LEMMA SleepApart ==
    ASSUME SleepInv, NotLaunched', NEW t \in Threads, Others(t), Wakees(t)' = Wakees(t),
           pc[t] \notin Busy, pc'[t] \notin Busy,
           market_ref_count' \in Int, theMarket' => theMarket,
           asleep_list' = asleep_list, my_state' = my_state, monitor' = monitor
    PROVE  SleepInv'
<1>1. /\ ~Rousing(t) /\ ~Rousing(t)' /\ pc'[t] \notin Closing
      /\ pc[t] # "unborn" /\ pc'[t] # "unborn"
  BY DEF Busy, Rousing
<1>2. theMarket => monitor' \in [Workers -> Monitors]
  BY DEF SleepInv, Asleep
<1>3. ASSUME theMarket, t \in Workers
      PROVE  Fits(monitor'[t], pc'[t]) /\ ~Kept(t)
  <2>1. Fits(monitor[t], pc[t]) /\ (Kept(t) => Sleeps(t))
    BY <1>3 DEF SleepInv, Asleep, MonitorsFit, KeptSleep
  <2>2. QED  BY <2>1 DEF Fits, Waits, Busy, Sleeps
<1>4. pc'[t] \notin {"announce", "verify", "insert", "inserting"}
  BY DEF Busy
<1>5. QED  BY <1>1, <1>2, <1>3, <1>4, SleepKept

\* The calls' locals other than the workers claimed.
LEMMA WakeesSame ==
    ASSUME Typed, NEW t \in Threads,
           \/ local' = local
           \/ \E n : SetN(t, n)
           \/ \E where, n, ret : Call(t, where, n, ret)
           \/ \E seen : local' = [local EXCEPT ![t].seen = seen]
           \/ \E seen, ret : local' = [local EXCEPT ![t].seen = seen, ![t].ret = ret]
    PROVE  Wakees(t)' = Wakees(t)
<1>1. local \in [Threads -> Locals]
  BY DEF Typed
<1>2. CASE local' = local
  BY <1>2 DEF Wakees
<1>3. CASE \E n : SetN(t, n)
  BY <1>1, <1>3 DEF SetN, Wakees, Locals
<1>4. CASE \E where, n, ret : Call(t, where, n, ret)
  BY <1>1, <1>4 DEF Call, Wakees, Locals
<1>5. CASE \E seen : local' = [local EXCEPT ![t].seen = seen]
  BY <1>1, <1>5 DEF Wakees, Locals
<1>6. CASE \E seen, ret : local' = [local EXCEPT ![t].seen = seen, ![t].ret = ret]
  BY <1>1, <1>6 DEF Wakees, Locals
<1>7. QED  BY <1>2, <1>3, <1>4, <1>5, <1>6

LEMMA CalmReturns ==
    ASSUME Typed, NEW t \in Threads
    PROVE  local[t].ret \notin Busy /\ AfterLeaving(t) \notin Busy
  BY LocalsTyped DEF Returns, Busy, Closing, AfterLeaving

\* The server's steps that are of no concern.
LEMMA CalmServerStep ==
    ASSUME SnapshotInv, SleepInv, NotLaunched', NEW t \in Threads, UNCHANGED elsewhere,
           \/ /\ t \in Workers
              /\ \/ propagate_chain_reaction(t) \/ TestState(t) \/ TestSlack(t)
                 \/ Cleanup(t) \/ Unref(t)
           \/ adjust_job_count_estimate(t) \/ LockList(t)
           \/ Rouse(t) /\ Wakees(t) = <<>>
    PROVE  SleepInv'
<1>0. /\ Typed /\ pc = [u \in Threads |-> pc[u]]
      /\ local[t].ret \notin Busy
      /\ market_ref_count' = market_ref_count /\ market_ref_count \in Int
  BY StateTyped, CalmReturns DEF Typed, elsewhere, lifetime, SleepInv
<1>1. theMarket' => theMarket
  BY <1>0 DEF theMarket
<1>2. Others(t)
  BY ServerApart DEF ServerStep, Apart
<1>3. CASE t \in Workers /\ propagate_chain_reaction(t)
  <2>1. /\ pc[t] \in {"born", "woken"} /\ pc'[t] \in {"loop", "wake"}
        /\ UNCHANGED <<monitor, asleep_list, my_state>>
        /\ local' = local \/ Call(t, "wake", 0, "loop")
    BY <1>0, <1>3 DEF propagate_chain_reaction, Call, Goto, server
  <2>2. Wakees(t)' = Wakees(t)
    BY <1>0, <2>1, WakeesSame
  <2>3. QED  BY <1>0, <1>1, <1>2, <2>1, <2>2, SleepApart DEF Busy, Closing
<1>4. CASE t \in Workers /\ (TestState(t) \/ TestSlack(t) \/ Cleanup(t) \/ Unref(t))
  <2>1. /\ pc[t] \in {"loop", "slack", "cleanup", "unref"}
        /\ pc'[t] \in {"cleanup", "slack", "process", "prepare", "unref", "gone"}
        /\ UNCHANGED <<monitor, asleep_list, my_state>> /\ local' = local
    BY <1>0, <1>4 DEF TestState, TestSlack, Cleanup, Unref, At, Goto, server
  <2>2. Wakees(t)' = Wakees(t)
    BY <1>0, <2>1, WakeesSame
  <2>3. QED  BY <1>0, <1>1, <1>2, <2>1, <2>2, SleepApart DEF Busy, Closing
<1>5. CASE adjust_job_count_estimate(t) \/ LockList(t) \/ (Rouse(t) /\ Wakees(t) = <<>>)
  <2>1. /\ pc[t] \in {"estimate", "wake", "rouse"}
        /\ pc'[t] \in {"wake", "claim"} \/ pc'[t] = local[t].ret
        /\ UNCHANGED <<monitor, asleep_list, my_state>> /\ local' = local
    BY <1>0, <1>5 DEF adjust_job_count_estimate, LockList, Rouse, Wakees, At, Goto, server
  <2>2. Wakees(t)' = Wakees(t)
    BY <1>0, <2>1, WakeesSame
  <2>3. QED  BY <1>0, <1>1, <1>2, <2>1, <2>2, SleepApart DEF Busy, Closing
<1>6. QED  BY <1>3, <1>4, <1>5

\* The worker's way to sleep and back.
LEMMA WaitSteps ==
    ASSUME ServerAssumption, ~LateSignals, SnapshotInv, SleepInv, NotLaunched', NEW t \in Workers,
           UNCHANGED elsewhere,
           PrepareWait(t) \/ VerifyState(t) \/ GiveUnit(t) \/ CancelWait(t) \/ CommitWait(t)
    PROVE  SleepInv'
<1>0. /\ Typed /\ pc = [u \in Threads |-> pc[u]] /\ t \in Threads
      /\ market_ref_count' = market_ref_count /\ market_ref_count \in Int
  BY StateTyped DEF Typed, elsewhere, lifetime, SleepInv, Threads
<1>1. theMarket' <=> theMarket
  BY <1>0 DEF theMarket
<1>2. Others(t)
  BY <1>0, ServerApart DEF ServerStep, Apart
<1>3. /\ asleep_list' = asleep_list /\ my_state' = my_state
      /\ pc[t] \in {"prepare", "announce", "verify", "insert", "cancel", "commit", "sleep"}
      /\ pc'[t] \in {"announce", "verify", "cancel", "insert", "inserting", "loop", "sleep", "woken"}
      /\ local' = local \/ \E n : SetN(t, n)
  BY <1>0 DEF PrepareWait, VerifyState, GiveUnit, CancelWait, CommitWait, At, Goto, server
<1>4. Wakees(t)' = Wakees(t)
  BY <1>0, <1>3, WakeesSame
<1>5. /\ ~Rousing(t) /\ ~Rousing(t)' /\ pc'[t] \notin Closing /\ pc[t] # "unborn" /\ pc'[t] # "unborn"
  BY <1>3 DEF Rousing, Closing
<1>6. BeingNotified(t)' <=> BeingNotified(t)
  BY <1>0, <1>2, <1>4, <1>5, NotifiedSame
<1>7. SUFFICES ASSUME theMarket
               PROVE  /\ monitor' \in [Workers -> Monitors]
                      /\ \A v \in Workers \ {t} : monitor'[v] = monitor[v]
                      /\ Fits(monitor'[t], pc'[t])
                      /\ pc'[t] \in {"announce", "verify", "insert", "inserting"} => Untouched(t)'
                      /\ Kept(t) => pc'[t] \in {"commit", "sleep"} /\ Untouched(t)'
  BY <1>0, <1>1, <1>2, <1>3, <1>4, <1>5, SleepKept
<1>8. /\ monitor \in [Workers -> Monitors] /\ Fits(monitor[t], pc[t])
      /\ Kept(t) => pc[t] \in {"commit", "sleep"} /\ Untouched(t)
      /\ pc[t] \in {"announce", "verify", "insert", "inserting"} => Untouched(t)
  BY <1>3, <1>7 DEF SleepInv, Asleep, MonitorsFit, KeptSleep, Sleeps, Undisturbed
<1>9. PICK m \in Monitors : m = monitor[t] /\ Fits(m, pc[t])
  BY <1>8
<1>10. CASE PrepareWait(t) /\ pc[t] = "prepare"
  <2>1. ~BeingNotified(t) /\ pc'[t] = "announce" /\ TakeCookie(t)
    BY <1>0, <1>10 DEF PrepareWait, At, Goto

  <2>2. ~m.in_wait /\ ~(m.posted /\ ~m.spurious)
    BY <1>9, <1>10 DEF Fits, Waits, Monitors
  <2>3. /\ monitor' \in [Workers -> Monitors]
        /\ \A v \in Workers \ {t} : monitor'[v] = monitor[v]
        /\ ~monitor'[t].advanced /\ ~monitor'[t].spurious
        /\ monitor'[t].in_wait = m.in_wait /\ monitor'[t].posted = (m.posted /\ ~m.spurious)
    BY <1>8, <1>9, <2>1 DEF TakeCookie, Monitors
  <2>4. ~Kept(t) /\ Untouched(t)'
    BY <1>6, <1>8, <1>10, <2>1, <2>2, <2>3 DEF Untouched
  <2>5. Fits(monitor'[t], "announce")
    BY <2>2, <2>3 DEF Fits, Waits
  <2>6. QED  BY <2>1, <2>3, <2>4, <2>5
<1>11. CASE PrepareWait(t) /\ pc[t] = "announce"
  <2>1. pc'[t] = "verify" /\ AnnounceWait(t)
    BY <1>0, <1>11 DEF PrepareWait, At, Goto
  <2>2. ~m.in_wait /\ ~m.posted /\ ~m.spurious
    BY <1>9, <1>11 DEF Fits, Waits
  <2>3. /\ monitor' \in [Workers -> Monitors]
        /\ \A v \in Workers \ {t} : monitor'[v] = monitor[v]
        /\ monitor'[t].advanced = m.advanced /\ monitor'[t].spurious = m.spurious
        /\ monitor'[t].in_wait /\ monitor'[t].posted = m.posted
    BY <1>8, <1>9, <2>1 DEF AnnounceWait, Monitors
  <2>4. ~Kept(t) /\ Untouched(t)'
    BY <1>6, <1>8, <1>9, <1>11, <2>3 DEF Untouched
  <2>5. Fits(monitor'[t], "verify")
    BY <2>2, <2>3 DEF Fits, Waits
  <2>6. QED  BY <2>1, <2>3, <2>4, <2>5
<1>12. CASE VerifyState(t) \/ GiveUnit(t)
  <2>1. /\ pc[t] \in {"verify", "insert"} /\ pc'[t] \in {"cancel", "insert", "inserting"}
        /\ monitor' = monitor
    BY <1>0, <1>12 DEF VerifyState, GiveUnit, At, Goto, server
  <2>2. ~Kept(t) /\ Untouched(t)'
    BY <1>6, <1>8, <2>1 DEF Untouched
  <2>3. Fits(monitor'[t], pc'[t])
    BY <1>8, <2>1 DEF Fits, Waits
  <2>4. QED  BY <1>8, <2>1, <2>2, <2>3

<1>13. CASE CancelWait(t) \/ (CommitWait(t) /\ pc[t] = "commit" /\ MustCancel(t))
  <2>1. /\ pc[t] \in {"cancel", "commit"} /\ pc'[t] \in {"loop", "woken"} /\ cancel_wait(t)
        /\ pc[t] = "commit" => m.advanced
    <3>1. CASE CancelWait(t)
      BY <1>0, <3>1 DEF CancelWait, At, Goto
    <3>2. CASE CommitWait(t) /\ pc[t] = "commit" /\ MustCancel(t)
      BY <1>0, <1>9, <3>2 DEF CommitWait, MustCancel, At, Goto
    <3>3. QED  BY <1>13, <3>1, <3>2
  <2>2. /\ monitor' \in [Workers -> Monitors]
        /\ \A v \in Workers \ {t} : monitor'[v] = monitor[v]
        /\ ~monitor'[t].in_wait
        /\ monitor'[t].spurious = ~m.in_wait /\ monitor'[t].posted = m.posted
    BY <1>8, <1>9, <2>1 DEF cancel_wait, Monitors
  <2>3. m.in_wait <=> ~m.posted
    BY <1>9, <2>1 DEF Fits, Waits
  <2>4. Fits(monitor'[t], pc'[t])
    BY <1>9, <2>1, <2>2, <2>3 DEF Fits, Waits, Monitors
  <2>5. ~Kept(t)
    BY <1>8, <1>9, <2>1 DEF Untouched
  <2>6. QED  BY <2>1, <2>2, <2>4, <2>5
<1>14. CASE CommitWait(t) /\ pc[t] = "commit" /\ ~MustCancel(t)
  <2>1. pc'[t] = "sleep" /\ monitor' = monitor
    BY <1>0, <1>14 DEF CommitWait, At, Goto
  <2>2. Fits(monitor'[t], pc'[t])
    BY <1>8, <1>14, <2>1 DEF Fits, Waits
  <2>3. Untouched(t)' <=> Untouched(t)
    BY <1>6, <2>1 DEF Untouched
  <2>4. QED  BY <1>8, <2>1, <2>2, <2>3
<1>15. CASE CommitWait(t) /\ pc[t] = "sleep"
  <2>1. pc'[t] = "woken" /\ Awake(t)
    BY <1>0, <1>15 DEF CommitWait, At, Goto
  <2>2. /\ monitor' \in [Workers -> Monitors]
        /\ \A v \in Workers \ {t} : monitor'[v] = monitor[v]
        /\ m.posted /\ ~monitor'[t].posted
        /\ monitor'[t].in_wait = m.in_wait /\ monitor'[t].spurious = m.spurious
    BY <1>8, <1>9, <2>1 DEF Awake, Monitors
  <2>3. ~m.in_wait /\ ~m.spurious
    BY <1>9, <1>15, <2>2 DEF Fits, Waits
  <2>4. Fits(monitor'[t], pc'[t])
    BY <2>1, <2>2, <2>3 DEF Fits, Waits
  <2>5. ~Kept(t)
    BY <1>8, <1>9, <2>2 DEF Untouched
  <2>6. QED  BY <2>1, <2>2, <2>4, <2>5
<1>16. PrepareWait(t) => pc[t] \in {"prepare", "announce"}
  BY DEF PrepareWait, At
<1>17. CommitWait(t) => pc[t] \in {"commit", "sleep"}
  BY DEF CommitWait, At
<1>18. QED
  BY <1>10, <1>11, <1>12, <1>13, <1>14, <1>15, <1>16, <1>17

LEMMA ListGrows ==
    ASSUME NEW list \in Seq(Workers), NEW w \in Workers, NEW longer, longer = <<w>> \o list
    PROVE  /\ DOMAIN longer = 1 .. Len(list) + 1 /\ longer[1] = w
           /\ Len(list) \in Nat /\ DOMAIN list = 1 .. Len(list)
           /\ \A i \in DOMAIN list : i + 1 \in DOMAIN longer /\ longer[i + 1] = list[i]
           /\ \A j \in DOMAIN longer : j = 1 \/ (j - 1 \in DOMAIN list /\ longer[j] = list[j - 1])
<1>1. <<w>> \in Seq(Workers) /\ Len(<<w>>) = 1 /\ <<w>>[1] = w
  OBVIOUS
<1>2. /\ longer \in Seq(Workers) /\ Len(longer) = 1 + Len(list)
      /\ \A i \in 1 .. 1 + Len(list) :
            longer[i] = IF i <= 1 THEN <<w>>[i] ELSE list[i - 1]
  BY <1>1, ConcatProperties
<1>3. /\ Len(list) \in Nat /\ DOMAIN list = 1 .. Len(list) /\ DOMAIN longer = 1 .. Len(list) + 1
  BY <1>2, LenProperties
<1>4. longer[1] = w
  BY <1>1, <1>2, <1>3
<1>5. ASSUME NEW j \in 1 .. Len(list) + 1, j # 1
      PROVE  j - 1 \in 1 .. Len(list) /\ longer[j] = list[j - 1]
  BY <1>2, <1>3, <1>5
<1>6. ASSUME NEW i \in 1 .. Len(list)
      PROVE  i + 1 \in 1 .. Len(list) + 1 /\ longer[i + 1] = list[i]
  <2>1. i + 1 \in 1 .. Len(list) + 1 /\ i + 1 # 1 /\ (i + 1) - 1 = i
    BY <1>3
  <2>2. QED  BY <1>5, <2>1
<1>7. QED  BY <1>3, <1>4, <1>5, <1>6

\* Going on the list.
LEMMA InsertStep ==
    ASSUME ServerAssumption, SnapshotInv, SleepInv, NotLaunched', NEW t \in Workers,
           UNCHANGED elsewhere, Insert(t)
    PROVE  SleepInv'
<1>0. /\ Typed /\ pc = [u \in Threads |-> pc[u]] /\ t \in Threads /\ asleep_list \in Seq(Workers)
      /\ market_ref_count' = market_ref_count /\ market_ref_count \in Int
  BY StateTyped DEF Typed, elsewhere, lifetime, SleepInv, Threads
<1>1. theMarket' <=> theMarket
  BY <1>0 DEF theMarket
<1>2. Others(t)
  BY <1>0, ServerApart DEF ServerStep, Apart
<1>3. /\ my_state' = my_state /\ monitor' = monitor /\ local' = local /\ pc[t] = "inserting"
      /\ \/ pc'[t] = "cancel" /\ asleep_list' = asleep_list
         \/ pc'[t] = "commit" /\ asleep_list' = <<t>> \o asleep_list
  BY <1>0 DEF Insert, At, Goto
<1>4. Wakees(t)' = Wakees(t)
  BY <1>0, <1>3, WakeesSame
<1>5. /\ ~Rousing(t) /\ ~Rousing(t)' /\ pc'[t] \notin Closing /\ pc[t] # "unborn" /\ pc'[t] # "unborn"
  BY <1>3 DEF Rousing, Closing
<1>6. /\ \A w : BeingNotified(w)' <=> BeingNotified(w)
      /\ \A u \in Threads : Wakees(u)' = Wakees(u) /\ (Rousing(u)' <=> Rousing(u))
      /\ \A u \in Threads : \A i : Holds(u, i)' <=> Holds(u, i)
  BY <1>0, <1>2, <1>4, <1>5, NotifiedSame
<1>7. SUFFICES ASSUME theMarket
               PROVE  Asleep'
  BY <1>0, <1>1 DEF SleepInv
<1>8. /\ monitor \in [Workers -> Monitors] /\ Fits(monitor[t], pc[t])
      /\ ~Kept(t) /\ Untouched(t)
      /\ Asleep
  BY <1>3, <1>7 DEF SleepInv, Asleep, MonitorsFit, KeptSleep, Sleeps, Undisturbed
<1>9. Fits(monitor'[t], pc'[t])
  BY <1>3, <1>8 DEF Fits, Waits
<1>10. CASE asleep_list' = asleep_list /\ pc'[t] = "cancel"
  <2>1. SleepInv'
    BY <1>0, <1>1, <1>2, <1>3, <1>4, <1>5, <1>8, <1>9, <1>10, SleepKept
  <2>2. QED  BY <1>1, <1>7, <2>1 DEF SleepInv
<1>11. CASE asleep_list' = <<t>> \o asleep_list /\ pc'[t] = "commit"
  <2>0. /\ \A i \in DOMAIN asleep_list : i + 1 \in DOMAIN asleep_list' /\ asleep_list'[i + 1] = asleep_list[i]
        /\ 1 \in DOMAIN asleep_list' /\ asleep_list'[1] = t
        /\ \A j \in DOMAIN asleep_list' :
              j = 1 \/ (j - 1 \in DOMAIN asleep_list /\ asleep_list'[j] = asleep_list[j - 1])
        /\ \A j \in DOMAIN asleep_list' : j \in Nat
    BY <1>0, <1>11, ListGrows
  <2>1. \A w : Kept(w)' <=> Kept(w) \/ w = t
    <3>1. ASSUME NEW w
          PROVE  (\E i \in DOMAIN asleep_list' : asleep_list'[i] = w)
                 <=> (\E i \in DOMAIN asleep_list : asleep_list[i] = w) \/ w = t
      BY <2>0
    <3>2. QED  BY <1>6, <3>1 DEF Kept
  <2>2. \A i \in DOMAIN asleep_list : asleep_list[i] # t
    BY <1>8 DEF Kept
  <2>3. ListedOnce'
    <3>1. ASSUME NEW i \in DOMAIN asleep_list', NEW j \in DOMAIN asleep_list',
                 asleep_list'[i] = asleep_list'[j]
          PROVE  i = j
      <4>1. CASE i = 1 \/ j = 1
        BY <2>0, <2>2, <3>1, <4>1
      <4>2. CASE i # 1 /\ j # 1
        <5>1. PICK a \in DOMAIN asleep_list, b \in DOMAIN asleep_list :
                 a = i - 1 /\ b = j - 1 /\ asleep_list'[i] = asleep_list[a]
                 /\ asleep_list'[j] = asleep_list[b]
          BY <2>0, <4>2
        <5>2. a = b
          BY <1>8, <3>1, <5>1 DEF Asleep, ListedOnce
        <5>3. QED  BY <2>0, <5>1, <5>2
      <4>3. QED  BY <4>1, <4>2
    <3>2. QED  BY <3>1 DEF ListedOnce
  <2>4. ClaimedOrListed'
    <3>1. ASSUME NEW u \in Threads, NEW i \in DOMAIN Wakees(u), NEW j \in DOMAIN asleep_list',
                 Holds(u, i), Wakees(u)[i] = asleep_list'[j]
          PROVE  FALSE
      <4>1. Kept(Wakees(u)[i])
        BY <3>1 DEF Kept
      <4>2. j # 1
        BY <1>8, <2>0, <3>1, <4>1
      <4>3. PICK b \in DOMAIN asleep_list : asleep_list'[j] = asleep_list[b]
        BY <2>0, <4>2
      <4>4. QED  BY <1>8, <3>1, <4>3 DEF Asleep, ClaimedOrListed
    <3>2. QED  BY <1>6, <3>1 DEF ClaimedOrListed
  <2>5. ClaimedOnce'
    BY <1>6, <1>8 DEF Asleep, ClaimedOnce
  <2>6. ASSUME NEW w \in Workers, w # t
        PROVE  /\ pc'[w] = pc[w] \/ (pc[w] = "unborn" /\ pc'[w] = "born")
               /\ Untouched(w)' <=> Untouched(w)
    BY <1>2, <1>3, <1>6, <2>6 DEF Others, Threads, Untouched
  <2>7. MonitorsFit'
    <3>1. ASSUME NEW w \in Workers, w # t
          PROVE  Fits(monitor'[w], pc'[w])
      BY <1>3, <1>8, <2>6, <3>1 DEF Asleep, MonitorsFit, Fits, Waits
    <3>2. QED  BY <1>9, <3>1 DEF MonitorsFit
  <2>8. KeptSleep'
    <3>1. ASSUME NEW w \in Workers, Kept(w), w # t
          PROVE  Sleeps(w)'
      <4>1. Sleeps(w)
        BY <1>8, <3>1 DEF Asleep, KeptSleep
      <4>2. CASE my_state[w] = "init"
        BY <1>3, <4>2 DEF NotLaunched, At, Sleeps
      <4>3. CASE my_state[w] # "init"
        BY <2>6, <3>1, <4>1, <4>3 DEF Sleeps
      <4>4. QED  BY <4>2, <4>3
    <3>2. Sleeps(t)'
      BY <1>3, <1>6, <1>8, <1>11 DEF Sleeps, Untouched
    <3>3. QED  BY <2>1, <3>1, <3>2 DEF KeptSleep
  <2>9. Undisturbed' /\ RousesSomeone' /\ IsOpen' /\ monitor' \in [Workers -> Monitors]
    <3>1. Undisturbed'
      BY <1>8, <1>11, <2>6 DEF Asleep, Undisturbed
    <3>2. RousesSomeone' /\ IsOpen'
      BY <1>2, <1>5, <1>6, <1>8 DEF Asleep, RousesSomeone, IsOpen, Others, Closing
    <3>3. QED  BY <1>3, <1>8, <3>1, <3>2
  <2>10. QED  BY <2>3, <2>4, <2>5, <2>7, <2>8, <2>9 DEF Asleep
<1>12. QED  BY <1>3, <1>10, <1>11

LEMMA ListShrinks ==
    ASSUME NEW list \in Seq(Workers), list # <<>>
    PROVE  /\ 1 \in DOMAIN list /\ Head(list) = list[1] /\ DOMAIN list \subseteq Nat
           /\ \A j \in DOMAIN Tail(list) :
                 j \in Nat /\ j + 1 \in DOMAIN list /\ j + 1 # 1 /\ Tail(list)[j] = list[j + 1]
           /\ \A i \in DOMAIN list : i # 1 => i - 1 \in DOMAIN Tail(list) /\ Tail(list)[i - 1] = list[i]
<1>1. /\ Tail(list) \in Seq(Workers) /\ Len(Tail(list)) = Len(list) - 1
      /\ \A i \in 1 .. Len(Tail(list)) : Tail(list)[i] = list[i + 1]
      /\ Head(list) = list[1]
  BY HeadTailProperties
<1>2. /\ Len(list) \in Nat /\ DOMAIN list = 1 .. Len(list) /\ Len(list) # 0
      /\ DOMAIN Tail(list) = 1 .. Len(list) - 1
  BY <1>1, LenProperties, EmptySeq
<1>3. ASSUME NEW j \in 1 .. Len(list) - 1
      PROVE  j \in Nat /\ j + 1 \in 1 .. Len(list) /\ j + 1 # 1 /\ Tail(list)[j] = list[j + 1]
  BY <1>1, <1>2
<1>4. ASSUME NEW i \in 1 .. Len(list), i # 1
      PROVE  i - 1 \in 1 .. Len(list) - 1 /\ Tail(list)[i - 1] = list[i]
  <2>1. i - 1 \in 1 .. Len(list) - 1 /\ (i - 1) + 1 = i
    BY <1>2, <1>4
  <2>2. QED  BY <1>3, <2>1
<1>5. 1 \in 1 .. Len(list) /\ 1 .. Len(list) \subseteq Nat
  BY <1>2
<1>6. QED  BY <1>1, <1>2, <1>3, <1>4, <1>5

LEMMA ClaimGrows ==
    ASSUME NEW seq \in Seq(Workers), NEW w \in Workers
    PROVE  \E last :
              /\ last \notin DOMAIN seq /\ DOMAIN Append(seq, w) = DOMAIN seq \cup {last}
              /\ Append(seq, w)[last] = w
              /\ \A i \in DOMAIN seq : Append(seq, w)[i] = seq[i]
<1>1. /\ Append(seq, w) \in Seq(Workers) /\ Len(Append(seq, w)) = Len(seq) + 1
      /\ \A i \in 1 .. Len(seq) : Append(seq, w)[i] = seq[i]
      /\ Append(seq, w)[Len(seq) + 1] = w
  BY AppendProperties
<1>2. /\ Len(seq) \in Nat /\ DOMAIN seq = 1 .. Len(seq)
      /\ DOMAIN Append(seq, w) = 1 .. Len(seq) + 1
  BY <1>1, LenProperties
<1>3. 1 .. Len(seq) + 1 = (1 .. Len(seq)) \cup {Len(seq) + 1} /\ Len(seq) + 1 \notin 1 .. Len(seq)
  BY <1>2
<1>4. QED  BY <1>1, <1>2, <1>3

\* From the list to those that t is to wake, or on to waking them.
LEMMA ClaimStep ==
    ASSUME SnapshotInv, SleepInv, NotLaunched', NEW t \in Threads, UNCHANGED elsewhere,
           ClaimUnit(t)
    PROVE  SleepInv'
<1>0. /\ Typed /\ pc = [u \in Threads |-> pc[u]] /\ asleep_list \in Seq(Workers)
      /\ local \in [Threads -> Locals] /\ Wakees(t) \in Seq(Workers)
      /\ market_ref_count' = market_ref_count /\ market_ref_count \in Int
  BY StateTyped, LocalsTyped DEF Typed, elsewhere, lifetime, SleepInv, Wakees
<1>1. theMarket' <=> theMarket
  BY <1>0 DEF theMarket
<1>2. Others(t)
  BY ServerApart DEF ServerStep, Apart
<1>3. /\ my_state' = my_state /\ monitor' = monitor /\ pc[t] = "claim"
      /\ \/ /\ asleep_list' = asleep_list /\ Goto(t, "rouse") /\ SetN(t, 0)
         \/ /\ asleep_list # <<>> /\ asleep_list' = Tail(asleep_list) /\ pc' = pc
            /\ \E n : local' = [local EXCEPT ![t].wakees = Append(@, Head(asleep_list)), ![t].n = n]
  BY DEF ClaimUnit, At
<1>4. CASE asleep_list' = asleep_list /\ Goto(t, "rouse") /\ SetN(t, 0)
  <2>1. Wakees(t)' = Wakees(t) /\ pc'[t] = "rouse"
    BY <1>0, <1>4, WakeesSame DEF Goto
  <2>2. QED  BY <1>0, <1>1, <1>2, <1>3, <1>4, <2>1, SleepApart DEF Busy, Closing
<1>5. CASE /\ asleep_list # <<>> /\ asleep_list' = Tail(asleep_list) /\ pc' = pc
           /\ \E n : local' = [local EXCEPT ![t].wakees = Append(@, Head(asleep_list)), ![t].n = n]
  <2>1. SUFFICES ASSUME theMarket
                 PROVE  Asleep'
    BY <1>0, <1>1 DEF SleepInv
  <2>2. Asleep
    BY <2>1 DEF SleepInv
  <2>3. PICK h \in Workers : h = Head(asleep_list)
    BY <1>0, <1>5, HeadTailProperties
  <2>4. /\ Wakees(t)' = Append(Wakees(t), h)
        /\ \A u \in Threads \ {t} : Wakees(u)' = Wakees(u)
    BY <1>0, <1>5, <2>3 DEF Wakees, Locals
  <2>5. PICK last : /\ last \notin DOMAIN Wakees(t) /\ DOMAIN Wakees(t)' = DOMAIN Wakees(t) \cup {last}
                    /\ Wakees(t)'[last] = h
                    /\ \A i \in DOMAIN Wakees(t) : Wakees(t)'[i] = Wakees(t)[i]
    BY <1>0, <2>4, ClaimGrows
  <2>6. /\ \A i : Holds(t, i) <=> i \in DOMAIN Wakees(t)
        /\ \A i : Holds(t, i)' <=> i \in DOMAIN Wakees(t) \cup {last}
        /\ \A u \in Threads \ {t} : \A i : Holds(u, i)' <=> Holds(u, i)
        /\ \A u \in Threads : Rousing(u)' <=> Rousing(u)
    BY <1>3, <1>5, <2>4, <2>5 DEF Holds, Rousing
  <2>7. /\ 1 \in DOMAIN asleep_list /\ h = asleep_list[1]
        /\ \A j \in DOMAIN asleep_list' :
              j \in Nat /\ j + 1 \in DOMAIN asleep_list /\ j + 1 # 1 /\ asleep_list'[j] = asleep_list[j + 1]
        /\ \A i \in DOMAIN asleep_list : i # 1 => i - 1 \in DOMAIN asleep_list' /\ asleep_list'[i - 1] = asleep_list[i]
    BY <1>0, <1>5, <2>3, ListShrinks
  <2>8. \A w : Kept(w)' => Kept(w)
    <3>1. ASSUME NEW w, NEW i \in DOMAIN asleep_list', asleep_list'[i] = w
          PROVE  Kept(w)
      BY <2>7, <3>1 DEF Kept
    <3>2. ASSUME NEW w, NEW u \in Threads, NEW i \in DOMAIN (Wakees(u)'), Holds(u, i)',
                 Wakees(u)'[i] = w
          PROVE  Kept(w)
      <4>1. CASE u = t /\ i = last
        BY <2>5, <2>7, <3>2, <4>1 DEF Kept
      <4>2. CASE u = t /\ i # last
        BY <2>5, <2>6, <3>2, <4>2 DEF Kept
      <4>3. CASE u # t
        BY <2>4, <2>6, <3>2, <4>3 DEF Kept
      <4>4. QED  BY <4>1, <4>2, <4>3
    <3>3. QED  BY <3>1, <3>2 DEF Kept
  <2>9. ListedOnce'
    <3>1. ASSUME NEW i \in DOMAIN asleep_list', NEW j \in DOMAIN asleep_list',
                 asleep_list'[i] = asleep_list'[j]
          PROVE  i = j
      <4>1. i + 1 = j + 1
        BY <2>2, <2>7, <3>1 DEF Asleep, ListedOnce
      <4>2. QED  BY <2>7, <4>1
    <3>2. QED  BY <3>1 DEF ListedOnce
  <2>10. ClaimedOrListed'
    <3>1. ASSUME NEW u \in Threads, NEW i \in DOMAIN (Wakees(u)'), NEW j \in DOMAIN asleep_list',
                 Holds(u, i)', Wakees(u)'[i] = asleep_list'[j]
          PROVE  FALSE
      <4>1. PICK k \in DOMAIN asleep_list : k # 1 /\ asleep_list'[j] = asleep_list[k]
        BY <2>7
      <4>2. CASE u = t /\ i = last
        BY <2>2, <2>5, <2>7, <3>1, <4>1, <4>2 DEF Asleep, ListedOnce
      <4>3. CASE u = t /\ i # last
        BY <2>2, <2>5, <2>6, <3>1, <4>1, <4>3 DEF Asleep, ClaimedOrListed
      <4>4. CASE u # t
        BY <2>2, <2>4, <2>6, <3>1, <4>1, <4>4 DEF Asleep, ClaimedOrListed
      <4>5. QED  BY <4>2, <4>3, <4>4
    <3>2. QED  BY <3>1 DEF ClaimedOrListed
  <2>11. ClaimedOnce'
    <3>1. ASSUME NEW u \in Threads, NEW i \in DOMAIN (Wakees(u)'), Holds(u, i)'
          PROVE  \/ u = t /\ i = last /\ Wakees(u)'[i] = asleep_list[1]
                 \/ (u # t \/ i # last) /\ i \in DOMAIN Wakees(u) /\ Holds(u, i) /\ Wakees(u)'[i] = Wakees(u)[i]
                    /\ Wakees(u)[i] # asleep_list[1]
      <4>1. CASE u = t /\ i = last
        BY <2>5, <2>7, <4>1
      <4>2. CASE u = t /\ i # last
        BY <2>2, <2>5, <2>6, <2>7, <3>1, <4>2 DEF Asleep, ClaimedOrListed
      <4>3. CASE u # t
        BY <2>2, <2>4, <2>6, <2>7, <3>1, <4>3 DEF Asleep, ClaimedOrListed
      <4>4. QED  BY <4>1, <4>2, <4>3
    <3>2. ASSUME NEW u \in Threads, NEW v \in Threads, NEW i \in DOMAIN (Wakees(u)'),
                 NEW j \in DOMAIN (Wakees(v)'),
                 Holds(u, i)', Holds(v, j)', Wakees(u)'[i] = Wakees(v)'[j]
          PROVE  u = v /\ i = j
      <4>1. CASE u = t /\ i = last
        BY <3>1, <3>2, <4>1
      <4>2. CASE v = t /\ j = last
        BY <3>1, <3>2, <4>2
      <4>3. CASE (u # t \/ i # last) /\ (v # t \/ j # last)
        <5>1. /\ i \in DOMAIN Wakees(u) /\ Holds(u, i) /\ Wakees(u)'[i] = Wakees(u)[i]
              /\ j \in DOMAIN Wakees(v) /\ Holds(v, j) /\ Wakees(v)'[j] = Wakees(v)[j]
          BY <3>1, <3>2, <4>3
        <5>2. QED  BY <2>2, <3>2, <5>1 DEF Asleep, ClaimedOnce
      <4>4. QED  BY <4>1, <4>2, <4>3
    <3>3. QED  BY <3>2 DEF ClaimedOnce
  <2>12. \A w \in Workers : BeingNotified(w)' <=> BeingNotified(w)
    BY <1>3, <1>5, <2>4 DEF BeingNotified, Wakees, At
  <2>13. KeptSleep' /\ Undisturbed' /\ MonitorsFit' /\ IsOpen'
    BY <1>3, <1>5, <2>2, <2>8, <2>12 DEF Asleep, KeptSleep, Sleeps, Untouched, Undisturbed, MonitorsFit, IsOpen
  <2>14. RousesSomeone'
    BY <1>3, <1>5, <2>2, <2>4, <2>6 DEF Asleep, RousesSomeone, Rousing
  <2>15. QED
    BY <1>3, <2>2, <2>9, <2>10, <2>11, <2>13, <2>14 DEF Asleep
<1>6. QED  BY <1>3, <1>4, <1>5

LEMMA LastIsHeld ==
    ASSUME NEW seq \in Seq(Workers), seq # <<>>
    PROVE  /\ Len(seq) \in DOMAIN seq /\ Last(seq) = seq[Len(seq)] /\ Last(seq) \in Workers
           /\ Len(seq) \in Nat /\ DOMAIN seq = 1 .. Len(seq)
           /\ DOMAIN Front(seq) = 1 .. Len(seq) - 1
           /\ \A i \in DOMAIN Front(seq) : Front(seq)[i] = seq[i]
<1>1. Len(seq) \in Nat \ {0} /\ DOMAIN seq = 1 .. Len(seq)
  BY LenProperties, EmptySeq
<1>2. Last(seq) = seq[Len(seq)] /\ Len(seq) \in 1 .. Len(seq)
  BY <1>1 DEF Last
<1>3. seq[Len(seq)] \in Workers
  BY <1>1, ElementOfSeq
<1>4. /\ Front(seq) \in Seq(Workers) /\ Len(Front(seq)) = Len(seq) - 1
      /\ \A i \in 1 .. Len(seq) - 1 : Front(seq)[i] = seq[i]
  <2>1. Front(seq) = SubSeq(seq, 1, Len(seq) - 1)
    BY DEF Front
  <2>2. \A i \in 1 .. Len(seq) - 1 : seq[i] \in Workers
    BY <1>1, ElementOfSeq
  <2>3. 1 \in Int /\ Len(seq) - 1 \in Int /\ 1 + (Len(seq) - 1) - 1 = Len(seq) - 1
    BY <1>1
  <2>4. QED  BY <1>1, <2>1, <2>2, <2>3, SubSeqProperties
<1>5. DOMAIN Front(seq) = 1 .. Len(seq) - 1
  BY <1>4, LenProperties
<1>6. QED  BY <1>1, <1>2, <1>3, <1>4, <1>5

\* The last one that t has claimed starts, or is to be notified.
LEMMA RouseStep ==
    ASSUME SnapshotInv, SleepInv, NEW t \in Threads, UNCHANGED elsewhere,
           Rouse(t), Wakees(t) # <<>>
    PROVE  SleepInv'
<1>0. /\ Typed /\ pc = [u \in Threads |-> pc[u]] /\ my_state = [v \in Workers |-> my_state[v]]
      /\ Wakees(t) \in Seq(Workers)
      /\ market_ref_count' = market_ref_count /\ market_ref_count \in Int
  BY StateTyped, LocalsTyped DEF Typed, elsewhere, lifetime, SleepInv, Wakees
<1>1. SUFFICES ASSUME theMarket
               PROVE  Asleep'
  BY <1>0 DEF SleepInv, theMarket
<1>2. Asleep /\ Others(t) /\ NotLaunched
  BY <1>1, ServerApart DEF SleepInv, ServerStep, Apart, SnapshotInv
<1>3. PICK w \in Workers, len \in Nat :
         /\ w = Last(Wakees(t)) /\ len = Len(Wakees(t)) /\ len \in DOMAIN Wakees(t)
         /\ w = Wakees(t)[len] /\ DOMAIN Wakees(t) = 1 .. len
  BY <1>0, LastIsHeld
<1>4. /\ pc[t] = "rouse" /\ pc'[t] \in {"launched", "signal"}
      /\ asleep_list' = asleep_list /\ local' = local
      /\ \/ /\ my_state[w] = "init" /\ my_state' = [my_state EXCEPT ![w] = "starting"]
            /\ pc' = [pc EXCEPT ![t] = "launched", ![w] = "born"] /\ monitor' = monitor
         \/ my_state[w] # "init" /\ AdvanceEpoch(w) /\ Goto(t, "signal") /\ my_state' = my_state
  <2>1. pc[t] = "rouse" /\ asleep_list' = asleep_list /\ local' = local
    BY DEF Rouse, At
  <2>2. \/ /\ my_state[w] = "init" /\ my_state' = [my_state EXCEPT ![w] = "starting"]
           /\ pc' = [pc EXCEPT ![t] = "launched", ![w] = "born"] /\ monitor' = monitor
        \/ my_state[w] # "init" /\ AdvanceEpoch(w) /\ Goto(t, "signal") /\ my_state' = my_state
    BY <1>3 DEF Rouse, Wakees
  <2>3. my_state[w] = "init" => w # t
    BY <1>2, <2>1 DEF NotLaunched, At
  <2>4. w \in Threads
    BY DEF Threads
  <2>5. pc'[t] \in {"launched", "signal"}
    BY <1>0, <2>2, <2>3, <2>4 DEF Goto
  <2>6. QED  BY <2>1, <2>2, <2>5
<1>5. /\ \A u \in Threads : Wakees(u)' = Wakees(u)
      /\ \A u \in Threads \ {t} : Rousing(u)' <=> Rousing(u)
      /\ Rousing(t)' /\ ~Rousing(t)
  BY <1>2, <1>4 DEF Wakees, Rousing, Others
<1>6. /\ \A u \in Threads \ {t} : \A i : Holds(u, i)' <=> Holds(u, i)
      /\ \A i : Holds(t, i)' => Holds(t, i) /\ i # len
      /\ Holds(t, len)
  <2>1. ASSUME NEW i, Holds(t, i)'
        PROVE  Holds(t, i) /\ i # len
    <3>1. i \in 1 .. len /\ i < len
      BY <1>3, <1>5, <2>1 DEF Holds
    <3>2. QED  BY <1>3, <1>5, <3>1 DEF Holds
  <2>2. QED  BY <1>3, <1>5, <2>1 DEF Holds
<1>7. Kept(w) /\ Sleeps(w) /\ pc[w] # "rouse"
  BY <1>2, <1>3, <1>6 DEF Kept, Asleep, KeptSleep, Sleeps
<1>8. \A x : Kept(x)' => Kept(x) /\ x # w
  <2>1. ASSUME NEW i \in DOMAIN asleep_list
        PROVE  asleep_list[i] # w
    BY <1>2, <1>3, <1>6 DEF Asleep, ClaimedOrListed
  <2>2. ASSUME NEW u \in Threads, NEW i \in DOMAIN Wakees(u), Holds(u, i)'
        PROVE  Wakees(u)[i] # w
    <3>1. Holds(u, i) /\ (u # t \/ i # len)
      BY <1>6, <2>2
    <3>2. QED  BY <1>2, <1>3, <1>6, <3>1 DEF Asleep, ClaimedOnce
  <2>3. ASSUME NEW u \in Threads, NEW i \in DOMAIN Wakees(u), Holds(u, i)'
        PROVE  Holds(u, i)
    BY <1>6, <2>3
  <2>4. QED  BY <1>4, <1>5, <2>1, <2>2, <2>3 DEF Kept
<1>9. ListedOnce' /\ ClaimedOrListed' /\ ClaimedOnce'
  <2>1. \A u \in Threads : \A i : Holds(u, i)' => Holds(u, i)
    BY <1>6
  <2>2. QED
    BY <1>2, <1>4, <1>5, <2>1 DEF Asleep, ListedOnce, ClaimedOrListed, ClaimedOnce
<1>10. RousesSomeone' /\ IsOpen'
  BY <1>2, <1>4, <1>5 DEF Asleep, RousesSomeone, IsOpen, Closing, Others
<1>11. ~Kept(t) /\ (t \in Workers => t # w)
  <2>1. ASSUME t \in Workers, Kept(t)
        PROVE  FALSE
    BY <1>2, <1>4, <2>1 DEF Asleep, KeptSleep, Sleeps
  <2>2. ASSUME t \notin Workers, Kept(t)
        PROVE  FALSE
    <3>1. \A i \in DOMAIN asleep_list : asleep_list[i] \in Workers
      <4>1. asleep_list \in Seq(Workers)
        BY <1>0, StateTyped
      <4>2. QED  BY <4>1, ElementOfSeq, LenProperties
    <3>2. \A u \in Threads : \A i \in DOMAIN Wakees(u) : Wakees(u)[i] \in Workers
      BY <1>0, LocalsTyped, ElementOfSeq, LenProperties DEF Wakees
    <3>3. QED  BY <2>2, <3>1, <3>2 DEF Kept
  <2>3. QED  BY <1>4, <1>7, <2>1, <2>2
<1>12. CASE my_state[w] = "init" /\ my_state' = [my_state EXCEPT ![w] = "starting"]
            /\ pc' = [pc EXCEPT ![t] = "launched", ![w] = "born"] /\ monitor' = monitor
  <2>1. /\ w \in Threads /\ pc[w] = "unborn"
        /\ pc'[t] = "launched" /\ pc'[w] = "born"
        /\ \A u \in Threads \ {t, w} : pc'[u] = pc[u]
        /\ \A v \in Workers \ {w} : my_state'[v] = my_state[v]
    BY <1>0, <1>2, <1>4, <1>11, <1>12 DEF NotLaunched, At, Threads
  <2>2. \A u \in Threads : At(u, "signal")' <=> At(u, "signal")
    BY <1>4, <2>1 DEF At
  <2>3. \A x : BeingNotified(x)' <=> BeingNotified(x)
    BY <1>4, <2>2 DEF BeingNotified
  <2>4. \A x \in Workers : Untouched(x)' <=> Untouched(x)
    BY <1>12, <2>3 DEF Untouched
  <2>5. KeptSleep' /\ Undisturbed'
    <3>1. ASSUME NEW x \in Workers, Kept(x)'
          PROVE  Sleeps(x)'
      <4>1. Sleeps(x) /\ x # w /\ x # t
        BY <1>2, <1>8, <1>11, <3>1 DEF Asleep, KeptSleep
      <4>2. pc'[x] = pc[x] /\ my_state'[x] = my_state[x]
        BY <2>1, <4>1 DEF Threads
      <4>3. QED  BY <2>4, <4>1, <4>2 DEF Sleeps
    <3>2. Undisturbed'
      BY <1>2, <2>1, <2>4 DEF Asleep, Undisturbed, Threads
    <3>3. QED  BY <3>1, <3>2 DEF KeptSleep
  <2>6. MonitorsFit'
    <3>1. ASSUME NEW x \in Workers
          PROVE  Fits(monitor'[x], pc'[x])
      <4>1. Fits(monitor[x], pc[x])
        BY <1>2 DEF Asleep, MonitorsFit
      <4>2. pc'[x] = pc[x] \/ (pc[x] \in {"unborn", "rouse"} /\ pc'[x] \in {"born", "launched"})
        BY <1>4, <2>1 DEF Threads
      <4>3. QED  BY <1>12, <4>1, <4>2 DEF Fits, Waits
    <3>2. QED  BY <3>1 DEF MonitorsFit
  <2>7. QED  BY <1>2, <1>9, <1>10, <1>12, <2>5, <2>6 DEF Asleep
<1>13. CASE my_state[w] # "init" /\ AdvanceEpoch(w) /\ Goto(t, "signal") /\ my_state' = my_state
  <2>1. /\ pc[w] \in {"commit", "sleep"} /\ pc'[t] = "signal"
        /\ \A u \in Threads \ {t} : pc'[u] = pc[u]
    BY <1>0, <1>7, <1>13 DEF Sleeps, Goto
  <2>2. \A x \in Workers \ {w} : BeingNotified(x)' => BeingNotified(x)
    <3>1. \A u \in Threads : At(u, "signal")' => u = t \/ At(u, "signal")
      BY <2>1 DEF At
    <3>2. Last(local'[t].wakees) = w
      BY <1>3, <1>4 DEF Wakees
    <3>3. QED  BY <1>4, <3>1, <3>2 DEF BeingNotified
  <2>3. /\ monitor' \in [Workers -> Monitors]
        /\ \A x \in Workers \ {w} : monitor'[x] = monitor[x]
        /\ monitor'[w] = [monitor[w] EXCEPT !.advanced = TRUE]
    BY <1>2, <1>13 DEF AdvanceEpoch, Asleep, Monitors
  <2>4. \A x \in Workers \ {w} : Untouched(x) => Untouched(x)'
    BY <2>2, <2>3 DEF Untouched
  <2>5. KeptSleep' /\ Undisturbed'
    <3>1. ASSUME NEW x \in Workers, Kept(x)'
          PROVE  Sleeps(x)'
      <4>1. Sleeps(x) /\ x # w /\ x # t
        BY <1>2, <1>8, <1>11, <3>1 DEF Asleep, KeptSleep
      <4>2. pc'[x] = pc[x] /\ my_state'[x] = my_state[x]
        BY <1>13, <2>1, <4>1 DEF Threads
      <4>3. QED  BY <2>4, <4>1, <4>2 DEF Sleeps
    <3>2. ASSUME NEW x \in Workers, pc'[x] \in {"announce", "verify", "insert", "inserting"}
          PROVE  Untouched(x)'
      <4>1. x # t /\ pc'[x] = pc[x] /\ x # w
        BY <1>11, <2>1, <3>2 DEF Threads
      <4>2. QED  BY <1>2, <2>4, <3>2, <4>1 DEF Asleep, Undisturbed
    <3>3. QED  BY <3>1, <3>2 DEF KeptSleep, Undisturbed
  <2>6. MonitorsFit'
    <3>1. ASSUME NEW x \in Workers
          PROVE  Fits(monitor'[x], pc'[x])
      <4>1. Fits(monitor[x], pc[x]) /\ monitor[x] \in Monitors
        BY <1>2 DEF Asleep, MonitorsFit
      <4>2. /\ monitor'[x].in_wait = monitor[x].in_wait /\ monitor'[x].posted = monitor[x].posted
            /\ monitor'[x].spurious = monitor[x].spurious
        BY <2>3, <4>1 DEF Monitors
      <4>3. pc'[x] = pc[x] \/ (pc[x] = "rouse" /\ pc'[x] = "signal")
        BY <1>4, <2>1 DEF Threads
      <4>4. QED  BY <4>1, <4>2, <4>3 DEF Fits, Waits
    <3>2. QED  BY <3>1 DEF MonitorsFit
  <2>7. QED  BY <1>9, <1>10, <2>3, <2>5, <2>6 DEF Asleep
<1>14. QED  BY <1>4, <1>12, <1>13

\* The last one that t has claimed has been woken.
LEMMA RousedStep ==
    ASSUME SnapshotInv, SleepInv, NEW t \in Threads, UNCHANGED elsewhere, Roused(t)
    PROVE  SleepInv'
<1>0. /\ Typed /\ pc = [u \in Threads |-> pc[u]] /\ my_state = [v \in Workers |-> my_state[v]]
      /\ local \in [Threads -> Locals] /\ Wakees(t) \in Seq(Workers)
      /\ market_ref_count' = market_ref_count /\ market_ref_count \in Int
  BY StateTyped, LocalsTyped DEF Typed, elsewhere, lifetime, SleepInv, Wakees
<1>1. SUFFICES ASSUME theMarket
               PROVE  Asleep'
  BY <1>0 DEF SleepInv, theMarket
<1>2. Asleep
  BY <1>1 DEF SleepInv
<1>3. /\ pc[t] \in {"launched", "signal"} /\ pc'[t] = "rouse"
      /\ \A u \in Threads \ {t} : pc'[u] = pc[u]
      /\ asleep_list' = asleep_list
      /\ local' = [local EXCEPT ![t].wakees = Front(@)]
  BY <1>0 DEF Roused, At, Goto
<1>4. Wakees(t) # <<>>
  BY <1>2, <1>3 DEF Asleep, RousesSomeone, Rousing
<1>5. PICK w \in Workers, len \in Nat :
         /\ w = Last(Wakees(t)) /\ len = Len(Wakees(t))
         /\ DOMAIN Wakees(t) = 1 .. len /\ DOMAIN Front(Wakees(t)) = 1 .. len - 1
         /\ \A i \in 1 .. len - 1 : Front(Wakees(t))[i] = Wakees(t)[i]
  BY <1>0, <1>4, LastIsHeld
<1>6. /\ Wakees(t)' = Front(Wakees(t))
      /\ \A u \in Threads \ {t} : Wakees(u)' = Wakees(u) /\ (Rousing(u)' <=> Rousing(u))
      /\ ~Rousing(t)' /\ Rousing(t)
  BY <1>0, <1>3 DEF Wakees, Rousing, Locals
<1>7. /\ \A u \in Threads : \A i : Holds(u, i)' => Holds(u, i) /\ i \in DOMAIN Wakees(u)
                                                   /\ Wakees(u)'[i] = Wakees(u)[i]
  <2>1. ASSUME NEW i, Holds(t, i)'
        PROVE  Holds(t, i) /\ i \in DOMAIN Wakees(t) /\ Wakees(t)'[i] = Wakees(t)[i]
    <3>1. i \in 1 .. len - 1
      BY <1>5, <1>6, <2>1 DEF Holds
    <3>2. i \in 1 .. len /\ i < len
      BY <3>1
    <3>3. QED  BY <1>5, <1>6, <3>1, <3>2 DEF Holds
  <2>2. ASSUME NEW u \in Threads \ {t}, NEW i, Holds(u, i)'
        PROVE  Holds(u, i) /\ i \in DOMAIN Wakees(u) /\ Wakees(u)'[i] = Wakees(u)[i]
    BY <1>6, <2>2 DEF Holds
  <2>3. QED  BY <2>1, <2>2
<1>8. \A x : Kept(x)' => Kept(x)
  <2>1. ASSUME NEW x, NEW u \in Threads, NEW i \in DOMAIN (Wakees(u)'), Holds(u, i)', Wakees(u)'[i] = x
        PROVE  Kept(x)
    BY <1>7, <2>1 DEF Kept
  <2>2. QED  BY <1>3, <2>1 DEF Kept
<1>9. ListedOnce' /\ ClaimedOrListed' /\ ClaimedOnce'
  <2>1. ListedOnce'
    BY <1>2, <1>3 DEF Asleep, ListedOnce
  <2>2. ClaimedOrListed'
    BY <1>2, <1>3, <1>7 DEF Asleep, ClaimedOrListed
  <2>3. ASSUME NEW u \in Threads, NEW v \in Threads, NEW i \in DOMAIN (Wakees(u)'),
               NEW j \in DOMAIN (Wakees(v)'),
               Holds(u, i)', Holds(v, j)', Wakees(u)'[i] = Wakees(v)'[j]
        PROVE  u = v /\ i = j
    BY <1>2, <1>7, <2>3 DEF Asleep, ClaimedOnce
  <2>4. QED  BY <2>1, <2>2, <2>3 DEF ClaimedOnce
<1>10. RousesSomeone' /\ IsOpen'
  BY <1>2, <1>3, <1>6 DEF Asleep, RousesSomeone, IsOpen, Closing
<1>11. \A x : BeingNotified(x)' => BeingNotified(x)
  <2>1. \A u \in Threads : At(u, "signal")' => At(u, "signal") /\ local'[u] = local[u]
    BY <1>0, <1>3 DEF At
  <2>2. QED  BY <2>1 DEF BeingNotified
<1>12. CASE /\ At(t, "launched") /\ monitor' = monitor
            /\ my_state' = [my_state EXCEPT ![w] = IF @ = "starting" THEN "normal" ELSE @]
  <2>1. \A v \in Workers : my_state[v] = "init" => my_state'[v] = "init"
    BY <1>0, <1>12
  <2>2. \A x \in Workers : Untouched(x) => Untouched(x)'
    BY <1>11, <1>12 DEF Untouched
  <2>3. KeptSleep' /\ Undisturbed'
    <3>1. ASSUME NEW x \in Workers, Kept(x)'
          PROVE  Sleeps(x)'
      <4>1. Sleeps(x)
        BY <1>2, <1>8, <3>1 DEF Asleep, KeptSleep
      <4>2. x # t /\ pc'[x] = pc[x]
        BY <1>3, <4>1 DEF Sleeps, Threads
      <4>3. QED  BY <2>1, <2>2, <4>1, <4>2 DEF Sleeps
    <3>2. Undisturbed'
      BY <1>2, <1>3, <2>2 DEF Asleep, Undisturbed, Threads
    <3>3. QED  BY <3>1, <3>2 DEF KeptSleep
  <2>4. MonitorsFit'
    <3>1. ASSUME NEW x \in Workers
          PROVE  Fits(monitor'[x], pc'[x])
      <4>1. Fits(monitor[x], pc[x])
        BY <1>2 DEF Asleep, MonitorsFit
      <4>2. pc'[x] = pc[x] \/ (pc[x] \in {"launched", "signal"} /\ pc'[x] = "rouse")
        BY <1>3 DEF Threads
      <4>3. QED  BY <1>12, <4>1, <4>2 DEF Fits, Waits
    <3>2. QED  BY <3>1 DEF MonitorsFit
  <2>5. QED  BY <1>2, <1>9, <1>10, <1>12, <2>3, <2>4 DEF Asleep
<1>13. CASE At(t, "signal") /\ Signal(w) /\ my_state' = my_state
  <2>1. BeingNotified(w)
    BY <1>5, <1>13 DEF BeingNotified, Wakees
  <2>2. /\ monitor' \in [Workers -> Monitors]
        /\ \A x \in Workers \ {w} : monitor'[x] = monitor[x]
        /\ ~monitor'[w].in_wait /\ monitor'[w].spurious = monitor[w].spurious
        /\ monitor'[w].posted = (monitor[w].posted \/ monitor[w].in_wait)
    BY <1>2, <1>13 DEF Signal, Asleep, Monitors
  <2>3. \A x \in Workers : Untouched(x) => Untouched(x)'
    BY <1>11, <2>1, <2>2 DEF Untouched
  <2>4. KeptSleep' /\ Undisturbed'
    <3>1. ASSUME NEW x \in Workers, Kept(x)'
          PROVE  Sleeps(x)'
      <4>1. Sleeps(x)
        BY <1>2, <1>8, <3>1 DEF Asleep, KeptSleep
      <4>2. x # t /\ pc'[x] = pc[x]
        BY <1>3, <4>1 DEF Sleeps, Threads
      <4>3. QED  BY <1>13, <2>3, <4>1, <4>2 DEF Sleeps
    <3>2. Undisturbed'
      BY <1>2, <1>3, <2>3 DEF Asleep, Undisturbed, Threads
    <3>3. QED  BY <3>1, <3>2 DEF KeptSleep
  <2>5. MonitorsFit'
    <3>1. ASSUME NEW x \in Workers
          PROVE  Fits(monitor'[x], pc'[x])
      <4>1. Fits(monitor[x], pc[x]) /\ monitor[x] \in Monitors
        BY <1>2 DEF Asleep, MonitorsFit
      <4>2. pc'[x] = pc[x] \/ (pc[x] \in {"launched", "signal"} /\ pc'[x] = "rouse")
        BY <1>3 DEF Threads
      <4>3. CASE x # w
        BY <2>2, <4>1, <4>2, <4>3 DEF Fits, Waits
      <4>4. CASE x = w
        <5>1. pc[w] # "announce"
          BY <1>2, <2>1 DEF Asleep, Undisturbed, Untouched
        <5>2. PICK m \in Monitors, n \in Monitors :
                 /\ m = monitor[w] /\ n = monitor'[w] /\ Fits(m, pc[w])
                 /\ ~n.in_wait /\ n.spurious = m.spurious /\ n.posted = (m.posted \/ m.in_wait)
          BY <2>2, <4>1, <4>4
        <5>3. Fits(n, pc'[w])
          <6>1. CASE pc[w] \in Waits
            BY <4>2, <4>4, <5>2, <6>1, Zenon DEF Fits, Waits
          <6>2. CASE pc[w] \notin Waits
            BY <4>2, <4>4, <5>1, <5>2, <6>2, Zenon DEF Fits, Waits
          <6>3. QED  BY <6>1, <6>2
        <5>4. QED  BY <4>4, <5>2, <5>3
      <4>5. QED  BY <4>3, <4>4
    <3>2. QED  BY <3>1 DEF MonitorsFit
  <2>6. QED  BY <1>9, <1>10, <2>2, <2>4, <2>5 DEF Asleep
<1>14. QED
  <2>1. \/ /\ At(t, "launched") /\ monitor' = monitor
           /\ my_state' = [my_state EXCEPT ![w] = IF @ = "starting" THEN "normal" ELSE @]
        \/ At(t, "signal") /\ Signal(w) /\ my_state' = my_state
    BY <1>5 DEF Roused, Wakees
  <2>2. QED  BY <1>12, <1>13, <2>1

LEMMA ServerSleeps ==
    ASSUME ServerAssumption, ~LateSignals, SnapshotInv, SleepInv, NotLaunched', NEW t \in Threads,
           UNCHANGED elsewhere, ServerStep(t)
    PROVE  SleepInv'
<1>1. CASE \/ /\ t \in Workers
              /\ \/ propagate_chain_reaction(t) \/ TestState(t) \/ TestSlack(t)
                 \/ Cleanup(t) \/ Unref(t)
           \/ adjust_job_count_estimate(t) \/ LockList(t)
           \/ Rouse(t) /\ Wakees(t) = <<>>
  BY <1>1, CalmServerStep
<1>2. CASE t \in Workers /\ (PrepareWait(t) \/ VerifyState(t) \/ GiveUnit(t) \/ CancelWait(t)
                             \/ CommitWait(t))
  BY <1>2, WaitSteps
<1>3. CASE t \in Workers /\ Insert(t)
  BY <1>3, InsertStep
<1>4. CASE ClaimUnit(t)
  BY <1>4, ClaimStep
<1>5. CASE Rouse(t) /\ Wakees(t) # <<>>
  BY <1>5, RouseStep
<1>6. CASE Roused(t)
  BY <1>6, RousedStep
<1>7. CASE StartShutdown(t) \/ NotifyShutdown(t) \/ CloseConnection(t)
  <2>1. pc[t] \in Closing
    BY <1>7 DEF StartShutdown, NotifyShutdown, CloseConnection, Closing, At
  <2>2. ~theMarket
    BY <2>1 DEF SleepInv, Asleep, IsOpen
  <2>3. market_ref_count' = market_ref_count
    BY DEF elsewhere, lifetime
  <2>4. QED  BY <2>2, <2>3 DEF SleepInv, theMarket
<1>8. QED  BY <1>1, <1>2, <1>3, <1>4, <1>5, <1>6, <1>7 DEF ServerStep

\* The steps in the arena and of its state.
LEMMA ArenaSleeps ==
    ASSUME ServerAssumption, MarketAssumption, SnapshotInv, DemandInv, SleepInv, NotLaunched',
           NEW t \in Threads,
           \/ Spawn(t) \/ SpawnUnfenced(t) \/ Store(t) \/ Advertise(t) \/ MarkFull(t) \/ MarkEmptyFull(t)
           \/ adjust_demand(t) \/ TryDestroy(t) \/ TryDestroyArena(t) \/ Release(t)
           \/ t = Main /\ (MasterTakes \/ MasterLeaves)
           \/ t \in Workers /\ (WorkerTakes(t) \/ EndTask(t) \/ SeekArena(t) \/ EnterArena(t)
                                \/ Relinquish(t) \/ LoopEnds(t) \/ WorkerLeaves(t)
                                \/ SnapshotBegins(t) \/ Scan(t) \/ UndoSnapshot(t)
                                \/ SnapshotEnds(t))
    PROVE  SleepInv'
<1>0. /\ Typed /\ pc = [u \in Threads |-> pc[u]] /\ local[t].ret \notin Busy
      /\ market_ref_count \in Int
  BY StateTyped, CalmReturns DEF Typed, SleepInv
<1>1. Others(t)
  <2>1. CASE adjust_demand(t)
    BY <2>1, DemandIsTold
  <2>2. CASE \/ MarkFull(t) \/ MarkEmptyFull(t)
             \/ t \in Workers /\ (SnapshotBegins(t) \/ Scan(t) \/ UndoSnapshot(t) \/ SnapshotEnds(t))
    BY <2>2, StateMarked
  <2>3. CASE \/ Spawn(t) \/ SpawnUnfenced(t) \/ Store(t) \/ Advertise(t)
             \/ TryDestroy(t) \/ TryDestroyArena(t) \/ Release(t)
             \/ t = Main /\ (MasterTakes \/ MasterLeaves)
             \/ t \in Workers /\ (WorkerTakes(t) \/ EndTask(t) \/ SeekArena(t) \/ EnterArena(t)
                                  \/ Relinquish(t) \/ LoopEnds(t) \/ WorkerLeaves(t))
    BY <2>3, ArenaApart DEF Apart
  <2>4. QED  BY <2>1, <2>2, <2>3
<1>2. UNCHANGED server
  BY DEF Spawn, SpawnUnfenced, Store, Advertise, MarkFull, MarkEmptyFull, adjust_demand, TryDestroy,
         TryDestroyArena, Release, MasterTakes, MasterLeaves, WorkerTakes, EndTask, SeekArena,
         EnterArena, Relinquish, LoopEnds, WorkerLeaves, SnapshotBegins, Scan, UndoSnapshot,
         SnapshotEnds
<1>3. asleep_list' = asleep_list /\ my_state' = my_state /\ monitor' = monitor
  BY <1>2 DEF server
<1>4. CASE Spawn(t) \/ SpawnUnfenced(t)
  <2>1. /\ pc[t] \in {"main", "execute"} /\ pc'[t] \in {"advertise", "store"}
        /\ market_ref_count' = market_ref_count
        /\ \/ Call(t, "advertise", 0, pc[t])
           \/ local' = [local EXCEPT ![t].seen = my_pool_state, ![t].ret = pc[t]]
    BY <1>0, <1>4 DEF Spawn, SpawnUnfenced, MaySpawn, Running, Call, Goto, lifetime
  <2>2. Wakees(t)' = Wakees(t)
    BY <1>0, <2>1, WakeesSame
  <2>3. QED  BY <1>0, <1>1, <1>3, <2>1, <2>2, SleepApart DEF Busy, Closing, theMarket
<1>5. CASE Store(t) \/ Advertise(t) \/ MarkFull(t) \/ MarkEmptyFull(t)
  <2>1. /\ pc[t] \in {"store", "advertise", "mark", "mark_empty"}
        /\ pc'[t] \in {"mark", "mark_empty", "adjust"} \/ pc'[t] = local[t].ret
        /\ market_ref_count' = market_ref_count
    BY <1>0, <1>5 DEF Store, Advertise, MarkFull, MarkEmptyFull, At, Goto, lifetime
  <2>2. \/ local' = local
        \/ \E n : SetN(t, n)
        \/ \E seen : local' = [local EXCEPT ![t].seen = seen]
    BY <1>5 DEF Store, Advertise, MarkFull, MarkEmptyFull
  <2>3. Wakees(t)' = Wakees(t)
    BY <1>0, <2>2, WakeesSame
  <2>4. QED  BY <1>0, <1>1, <1>3, <2>1, <2>3, SleepApart DEF Busy, Closing, theMarket
<1>6. CASE adjust_demand(t)
  <2>1. /\ pc[t] = "adjust" /\ pc'[t] \in {"estimate", local[t].ret}
        /\ market_ref_count' = market_ref_count /\ \E n : SetN(t, n)
    BY <1>0, <1>6 DEF adjust_demand, At, Goto, lifetime
  <2>2. Wakees(t)' = Wakees(t)
    BY <1>0, <2>1, WakeesSame
  <2>3. QED  BY <1>0, <1>1, <1>3, <2>1, <2>2, SleepApart DEF Busy, Closing, theMarket
<1>7. CASE TryDestroy(t) \/ TryDestroyArena(t)
  <2>1. /\ pc[t] \in {"destroy", "destroy_arena"}
        /\ pc'[t] \in {"destroy_arena", "release", "done", "process"}
        /\ market_ref_count' \in Int /\ (theMarket' => theMarket)
    BY <1>0, <1>7 DEF TryDestroy, TryDestroyArena, AfterLeaving, Call, At, Goto, lifetime, theMarket
  <2>2. local' = local \/ \E where, n, ret : Call(t, where, n, ret)
    BY <1>7 DEF TryDestroy, TryDestroyArena
  <2>3. Wakees(t)' = Wakees(t)
    BY <1>0, <2>2, WakeesSame
  <2>4. QED  BY <1>0, <1>1, <1>3, <2>1, <2>3, SleepApart DEF Busy, Closing
<1>8. CASE Release(t)
  <2>1. /\ pc[t] = "release" /\ market_ref_count' = market_ref_count - 1
        /\ \E n : SetN(t, n)
        /\ market_ref_count = 1 \/ pc'[t] \in {"release", local[t].ret}
    BY <1>0, <1>8 DEF Release, At, Goto
  <2>2. Wakees(t)' = Wakees(t)
    BY <1>0, <2>1, WakeesSame
  <2>3. CASE market_ref_count = 1
    BY <1>0, <2>1, <2>3 DEF SleepInv, theMarket
  <2>4. CASE market_ref_count # 1
    <3>1. market_ref_count' \in Int /\ (theMarket' => theMarket)
      BY <1>0, <2>1 DEF theMarket
    <3>2. QED  BY <1>0, <1>1, <1>3, <2>1, <2>2, <2>4, <3>1, SleepApart DEF Busy, Closing
  <2>5. QED  BY <2>3, <2>4
<1>9. CASE t = Main /\ (MasterTakes \/ MasterLeaves)
  <2>1. /\ pc[t] = "main" /\ pc'[t] \in {"main", "destroy", "done"}
        /\ market_ref_count' = market_ref_count /\ local' = local
    BY <1>0, <1>9 DEF MasterTakes, MasterLeaves, At, Goto, lifetime
  <2>2. Wakees(t)' = Wakees(t)
    BY <1>0, <2>1, WakeesSame
  <2>3. QED  BY <1>0, <1>1, <1>3, <2>1, <2>2, SleepApart DEF Busy, Closing, theMarket
<1>10. CASE t \in Workers /\ (WorkerTakes(t) \/ EndTask(t) \/ SeekArena(t) \/ EnterArena(t)
                              \/ Relinquish(t) \/ LoopEnds(t) \/ WorkerLeaves(t))
  <2>1. /\ pc[t] \in {"arena", "execute", "process", "need", "admit", "loop_end", "leave"}
        /\ pc'[t] \in {"execute", "arena", "need", "loop", "admit", "loop_end", "leave", "destroy",
                       "process"}
        /\ market_ref_count' = market_ref_count /\ local' = local
    BY <1>0, <1>10 DEF WorkerTakes, EndTask, SeekArena, EnterArena, Relinquish, LoopEnds,
                       WorkerLeaves, At, Goto, lifetime
  <2>2. Wakees(t)' = Wakees(t)
    BY <1>0, <2>1, WakeesSame
  <2>3. QED  BY <1>0, <1>1, <1>3, <2>1, <2>2, SleepApart DEF Busy, Closing, theMarket
<1>11. CASE t \in Workers /\ (SnapshotBegins(t) \/ Scan(t) \/ UndoSnapshot(t) \/ SnapshotEnds(t))
  <2>1. /\ pc[t] \in {"arena", "scan", "undo"}
        /\ market_ref_count' = market_ref_count
        /\ pc'[t] \in {"scan", "loop_end", "undo", "arena", "adjust"}
    BY <1>0, <1>11 DEF SnapshotBegins, Scan, UndoSnapshot, SnapshotEnds, Call, At, Goto, lifetime
  <2>2. \/ local' = local
        \/ \E n : SetN(t, n)
        \/ \E where, n, ret : Call(t, where, n, ret)
    BY <1>11 DEF SnapshotBegins, Scan, UndoSnapshot, SnapshotEnds
  <2>3. Wakees(t)' = Wakees(t)
    BY <1>0, <2>2, WakeesSame
  <2>4. QED  BY <1>0, <1>1, <1>3, <2>1, <2>3, SleepApart DEF Busy, Closing, theMarket
<1>12. QED  BY <1>4, <1>5, <1>6, <1>7, <1>8, <1>9, <1>10, <1>11

LEMMA NextSleep ==
    ASSUME ServerAssumption, MarketAssumption, ~LateSignals, SnapshotInv, DemandInv, SleepInv,
           NotLaunched', [Next]_vars
    PROVE  SleepInv'
<1>1. ASSUME NEW t \in Threads, ThreadStep(t) \/ Spawn(t) \/ SpawnUnfenced(t)
      PROVE  SleepInv'
  <2>1. CASE ServerStep(t) /\ UNCHANGED <<my_pool_state, demand, lifetime, work>>
    BY <2>1, ServerSleeps DEF elsewhere
  <2>2. CASE \/ Spawn(t) \/ SpawnUnfenced(t) \/ Store(t) \/ Advertise(t) \/ MarkFull(t)
             \/ MarkEmptyFull(t)
             \/ adjust_demand(t) \/ TryDestroy(t) \/ TryDestroyArena(t) \/ Release(t)
             \/ t = Main /\ (MasterTakes \/ MasterLeaves)
             \/ t \in Workers /\ (WorkerTakes(t) \/ EndTask(t) \/ SeekArena(t) \/ EnterArena(t)
                                  \/ Relinquish(t) \/ LoopEnds(t) \/ WorkerLeaves(t)
                                  \/ SnapshotBegins(t) \/ Scan(t) \/ UndoSnapshot(t)
                                  \/ SnapshotEnds(t))
    BY <2>2, ArenaSleeps
  <2>3. QED  BY <1>1, <2>1, <2>2 DEF ThreadStep
<1>2. CASE UNCHANGED vars
  <2>1. UNCHANGED <<pc, local, monitor, asleep_list, my_state, market_ref_count>>
    BY <1>2 DEF vars, server, lifetime
  <2>2. /\ \A w : BeingNotified(w)' <=> BeingNotified(w)
        /\ \A u \in Threads : Wakees(u)' = Wakees(u) /\ (Rousing(u)' <=> Rousing(u))
        /\ \A u \in Threads : \A i : Holds(u, i)' <=> Holds(u, i)
    BY <2>1 DEF BeingNotified, At, Wakees, Rousing, Holds
  <2>3. /\ \A w : Kept(w)' <=> Kept(w)
        /\ \A w : Untouched(w)' <=> Untouched(w)
        /\ \A w : Sleeps(w)' <=> Sleeps(w)
    BY <2>1, <2>2 DEF Kept, Untouched, Sleeps
  <2>4. MonitorsFit' /\ ListedOnce' /\ ClaimedOrListed' /\ ClaimedOnce'
        <=> MonitorsFit /\ ListedOnce /\ ClaimedOrListed /\ ClaimedOnce
    BY <2>1, <2>2 DEF MonitorsFit, ListedOnce, ClaimedOrListed, ClaimedOnce
  <2>5. KeptSleep' /\ Undisturbed' /\ RousesSomeone' /\ IsOpen'
        <=> KeptSleep /\ Undisturbed /\ RousesSomeone /\ IsOpen
    BY <2>1, <2>2, <2>3 DEF KeptSleep, Undisturbed, RousesSomeone, IsOpen
  <2>6. QED  BY <2>1, <2>4, <2>5 DEF SleepInv, Asleep, theMarket
<1>3. QED  BY <1>1, <1>2 DEF Next, Terminated

LEMMA InitSleep ==
    ASSUME ServerAssumption, Init
    PROVE  SleepInv
<1>1. /\ monitor = [w \in Workers |-> NewMonitor] /\ asleep_list = Reverse(my_thread_array)
      /\ my_state = [w \in Workers |-> "init"] /\ market_ref_count = 1
      /\ \A t \in Threads : pc[t] \in {"main", "unborn"} /\ Wakees(t) = <<>>
      /\ \A w \in Workers : pc[w] = "unborn"
  BY DEF Init, ServerInit, MonitorInit, NewLocal, Wakees, Threads, ServerAssumption
<1>2. \A t \in Threads : DOMAIN Wakees(t) = {} /\ ~Rousing(t)
  BY <1>1 DEF Rousing
<1>3. monitor \in [Workers -> Monitors] /\ MonitorsFit
  BY <1>1 DEF NewMonitor, Monitors, MonitorsFit, Fits, Waits
<1>4. ListedOnce
  <2>1. my_n_thread \in Nat /\ DOMAIN my_thread_array = 1 .. my_n_thread
    BY ArrayIsASequence
  <2>2. PICK n \in Nat : n = Len(my_thread_array) /\ DOMAIN my_thread_array = 1 .. n
    BY <2>1 DEF my_n_thread
  <2>3. asleep_list = [i \in 1 .. n |-> my_thread_array[(n - i) + 1]]
    BY <1>1, <2>2 DEF Reverse
  <2>4. ASSUME NEW i \in DOMAIN asleep_list, NEW j \in DOMAIN asleep_list,
               asleep_list[i] = asleep_list[j]
        PROVE  i = j
    <3>1. i \in 1 .. n /\ j \in 1 .. n /\ (n - i) + 1 \in 1 .. n /\ (n - j) + 1 \in 1 .. n
      BY <2>2, <2>3, <2>4
    <3>2. (n - i) + 1 = (n - j) + 1
      BY <2>2, <2>3, <2>4, <3>1 DEF ServerAssumption, IsInjective
    <3>3. QED  BY <2>2, <3>1, <3>2
  <2>5. QED  BY <2>4 DEF ListedOnce
<1>5. ClaimedOrListed /\ ClaimedOnce /\ RousesSomeone /\ IsOpen
  BY <1>1, <1>2 DEF ClaimedOrListed, ClaimedOnce, RousesSomeone, IsOpen, Closing
<1>6. KeptSleep /\ Undisturbed
  BY <1>1 DEF KeptSleep, Sleeps, Undisturbed
<1>7. QED  BY <1>1, <1>3, <1>4, <1>5, <1>6 DEF SleepInv, Asleep

(* While the market is there, a worker is on the list of sleepers once, and   *)
(* only as long as it is asleep or about to be, or has not been launched:     *)
(* try_insert_in_asleep_list, wake_some and the monitors hand each sleeper to *)
(* one waker, whatever is read without the lock, if no notify is delayed      *)
(* until the worker waits again.                                              *)
THEOREM SleepersListedOnce ==
    ASSUME ~LateSignals
    PROVE  Spec => []ListedAreAsleep
<1>1. Init => SnapshotInv /\ DemandInv /\ SleepInv
  BY InitSnapshots, InitDemand, InitSleep, ServerAssumption
<1>2. SnapshotInv /\ DemandInv /\ SleepInv /\ [Next]_vars => (SnapshotInv /\ DemandInv /\ SleepInv)'
  <2>1. ASSUME SnapshotInv, DemandInv, SleepInv, [Next]_vars
        PROVE  (SnapshotInv /\ DemandInv /\ SleepInv)'
    <3>1. SnapshotInv' /\ NotLaunched'
      BY <2>1, NextSnapshots, ServerAssumption, MarketAssumption DEF SnapshotInv
    <3>2. DemandInv'
      BY <2>1, NextDemand, ServerAssumption, MarketAssumption
    <3>3. SleepInv'
      BY <2>1, <3>1, NextSleep, ServerAssumption, MarketAssumption
    <3>4. QED  BY <3>1, <3>2, <3>3
  <2>2. QED  BY <2>1
<1>3. SnapshotInv /\ SleepInv => ListedAreAsleep
  <2>1. ASSUME SnapshotInv, SleepInv, theMarket
        PROVE  /\ IsInjective(asleep_list)
               /\ \A w \in Range(asleep_list) : my_state[w] = "init" \/ pc[w] \in {"commit", "sleep"}
    <3>1. Asleep /\ asleep_list \in Seq(Workers)
      BY <2>1, StateTyped DEF SleepInv, SnapshotInv
    <3>2. IsInjective(asleep_list)
      BY <3>1 DEF Asleep, ListedOnce, IsInjective
    <3>3. ASSUME NEW w \in Range(asleep_list)
          PROVE  my_state[w] = "init" \/ pc[w] \in {"commit", "sleep"}
      <4>1. w \in Workers /\ Kept(w)
        BY <3>1, ElementOfSeq, LenProperties DEF Range, Kept
      <4>2. QED  BY <3>1, <4>1 DEF Asleep, KeptSleep, Sleeps
    <3>4. QED  BY <3>2, <3>3
  <2>2. QED  BY <2>1 DEF ListedAreAsleep
<1>4. QED  BY <1>1, <1>2, <1>3, PTL DEF Spec

(******************************************************************************)
(* The end                                                                    *)
(******************************************************************************)

ArenaPlaces == {"main", "arena", "execute", "store", "advertise", "mark", "mark_empty", "adjust",
                "scan", "undo", "loop_end", "leave"}

Spawning == {"store", "advertise", "mark", "mark_empty"}

Waking == {"estimate", "wake", "claim", "rouse", "launched", "signal"}

\* Where a thread is fits where it returns to.
ReturnsFit(t) ==
    LET ret == local[t].ret
    IN  /\ pc[t] \in Spawning => ret = IF t = Main THEN "main" ELSE "execute"
        /\ pc[t] = "adjust" => IF t = Main THEN ret = "main" ELSE ret \in {"execute", "loop_end"}
        /\ pc[t] \in Waking => IF t = Main THEN ret = "main" ELSE ret \in {"execute", "loop_end", "loop"}
        /\ pc[t] \in {"release"} \cup Closing => ret = AfterLeaving(t)
        /\ t = Main => pc[t] \in {"main", "adjust", "destroy", "destroy_arena", "release", "done"}
                                 \cup Spawning \cup Waking \cup Closing
        /\ t # Main => pc[t] \notin {"main", "done"}

\* A thread that the arena's references count.
InArena(t) == pc[t] \in ArenaPlaces \/ (pc[t] \in Waking /\ local[t].ret # "loop")

Inside == {w \in Workers : InArena(w)}

\* A worker that executes a task, and so may spawn.
Executes(t) ==
    \/ pc[t] = "execute"
    \/ pc[t] \in {"adjust"} \cup Spawning \cup Waking /\ local[t].ret = "execute"

\* The tasks that have not ended: those in the pools, those about to be seen
\* there, and those that are executed.
Unended == {x \in Threads \X Int :
               \/ x[2] \in 1 .. tasks[x[1]]
               \/ x[2] = 0 /\ pc[x[1]] = "store"
               \/ x[2] = -1 /\ Executes(x[1])}

Referenced ==
    my_references = (IF InArena(Main) THEN 1 ELSE 0) + 2 * Cardinality(Inside)

Counted == IsFiniteSet(Unended) /\ unfinished = Cardinality(Unended)

MasterIsLast == ~InArena(Main) => Unended = {}

Freed ==
    /\ freed \in BOOLEAN
    /\ freed => /\ ~InArena(Main) /\ Inside = {} /\ Readers = {}
                /\ my_num_workers_requested = 0
                /\ my_pool_state = "empty" \/ my_max_num_workers = 0

ArenaInv ==
    /\ \A t \in Threads : ReturnsFit(t)
    /\ Referenced /\ Counted /\ MasterIsLast /\ Freed

\* A step in which other threads stay where they are, or are launched.
LEMMA OthersStay ==
    ASSUME NEW t \in Threads, Others(t), NEW u \in Threads, u # t
    PROVE  /\ ReturnsFit(u) => ReturnsFit(u)'
           /\ InArena(u)' <=> InArena(u)
           /\ Executes(u)' <=> Executes(u)
           /\ \A where : where \notin {"unborn", "born"} => (pc'[u] = where <=> pc[u] = where)
<1>1. /\ local'[u] = local[u]
      /\ pc'[u] = pc[u] \/ (pc[u] = "unborn" /\ pc'[u] = "born")
  BY DEF Others
<1>2. CASE pc'[u] = pc[u]
  BY <1>1, <1>2 DEF ReturnsFit, InArena, Executes, AfterLeaving
<1>3. CASE pc[u] = "unborn" /\ pc'[u] = "born"
  BY <1>1, <1>3 DEF ReturnsFit, InArena, Executes, AfterLeaving, Spawning, Waking, Closing, ArenaPlaces
<1>4. QED  BY <1>1, <1>2, <1>3

\* A thread that stays in the arena, or out of it.
Stays(t) ==
    /\ Others(t) /\ ReturnsFit(t)'
    /\ InArena(t)' <=> InArena(t)
    /\ Executes(t)' <=> Executes(t)
    /\ pc'[t] = "store" <=> pc[t] = "store"
    /\ pc'[t] = "admit" => ~freed

LEMMA ArenaKept ==
    ASSUME ServerAssumption, ArenaInv, NEW t \in Threads, Stays(t),
           UNCHANGED <<my_references, freed, unfinished, tasks>>,
           InArena(t) \/ UNCHANGED <<my_pool_state, my_num_workers_requested>>
    PROVE  ArenaInv'
<1>1. \A u \in Threads : /\ ReturnsFit(u)' /\ (InArena(u)' <=> InArena(u))
                         /\ Executes(u)' <=> Executes(u)
                         /\ pc'[u] = "store" <=> pc[u] = "store"
                         /\ pc'[u] = "admit" => pc[u] = "admit" \/ ~freed
  <2> SUFFICES ASSUME NEW u \in Threads
               PROVE  /\ ReturnsFit(u)' /\ (InArena(u)' <=> InArena(u))
                      /\ Executes(u)' <=> Executes(u)
                      /\ pc'[u] = "store" <=> pc[u] = "store"
                      /\ pc'[u] = "admit" => pc[u] = "admit" \/ ~freed
    OBVIOUS
  <2>1. CASE u = t
    BY <2>1 DEF Stays
  <2>2. CASE u # t
    BY <2>2, OthersStay DEF Stays, ArenaInv
  <2>3. QED  BY <2>1, <2>2
<1>2. /\ InArena(Main)' <=> InArena(Main)
      /\ Inside' = Inside /\ Unended' = Unended
      /\ freed => Readers' \in SUBSET Readers
  BY <1>1 DEF Threads, Inside, Unended, Readers, At
<1>3. Referenced' /\ Counted' /\ MasterIsLast'
  BY <1>2 DEF ArenaInv, Referenced, Counted, MasterIsLast
<1>4. Freed'
  <2>1. CASE freed
    <3>1. ~InArena(t)
      BY <2>1 DEF ArenaInv, Freed, Inside, Threads
    <3>2. QED  BY <1>2, <2>1, <3>1 DEF ArenaInv, Freed, my_max_num_workers, my_n_thread
  <2>2. CASE ~freed
    BY <2>2 DEF ArenaInv, Freed
  <2>3. QED  BY <2>1, <2>2
<1>5. QED  BY <1>1, <1>3, <1>4 DEF ArenaInv

(******************************************************************************)
(* Steps that do not enter or leave the arena                                 *)
(******************************************************************************)

LEMMA WorkerStays ==
    ASSUME SnapshotInv, ArenaInv, NEW t \in Workers, ServerAssumption,
           \/ propagate_chain_reaction(t) \/ TestState(t) \/ TestSlack(t)
           \/ PrepareWait(t) \/ VerifyState(t) \/ GiveUnit(t) \/ Insert(t)
           \/ CancelWait(t) \/ CommitWait(t) \/ Cleanup(t) \/ Unref(t)
    PROVE  Stays(t)
<1>0. /\ Typed /\ t \in Threads /\ pc = [u \in Threads |-> pc[u]] /\ local \in [Threads -> Locals]
      /\ t # Main /\ Others(t)
  BY StateTyped, WorkerApart DEF Typed, Threads, ServerAssumption, Apart
<1>1. CASE propagate_chain_reaction(t)
  <2>1. /\ pc[t] \in {"born", "woken"}
        /\ pc'[t] = "loop" \/ (pc'[t] = "wake" /\ local'[t].ret = "loop")
    BY <1>0, <1>1 DEF propagate_chain_reaction, Call, Goto, Locals
  <2>2. QED
    BY <1>0, <2>1 DEF Stays, ReturnsFit, InArena, Executes, ArenaPlaces, Spawning, Waking, Closing
<1>2. CASE ~propagate_chain_reaction(t)
  <2>1. /\ pc[t] \in {"loop", "slack", "prepare", "announce", "verify", "insert", "inserting",
                      "cancel", "commit", "sleep", "cleanup", "unref"}
        /\ pc'[t] \in {"cleanup", "slack", "process", "prepare", "announce", "verify", "cancel",
                       "insert", "inserting", "commit", "loop", "sleep", "woken", "unref", "gone"}
    BY <1>0, <1>2 DEF TestState, TestSlack, PrepareWait, VerifyState, GiveUnit, Insert, CancelWait,
                      CommitWait, Cleanup, Unref, Goto, At
  <2>2. QED
    BY <1>0, <2>1 DEF Stays, ReturnsFit, InArena, Executes, ArenaPlaces, Spawning, Waking, Closing
<1>3. QED  BY <1>1, <1>2

\* A thread that wakes others goes on doing so, or returns.
LEMMA WakingStays ==
    ASSUME SnapshotInv, ArenaInv, NEW t \in Threads, Others(t), pc[t] \in Waking,
           local'[t].ret = local[t].ret,
           pc'[t] \in Waking \/ pc'[t] = local[t].ret
    PROVE  Stays(t)
<1>1. /\ IF t = Main THEN local[t].ret = "main" ELSE local[t].ret \in {"execute", "loop_end", "loop"}
  BY DEF ArenaInv, ReturnsFit
<1>2. CASE pc'[t] \in Waking
  BY <1>1, <1>2 DEF Stays, ReturnsFit, InArena, Executes, ArenaPlaces, Spawning, Waking, Closing
<1>3. CASE pc'[t] = local[t].ret
  BY <1>1, <1>3 DEF Stays, ReturnsFit, InArena, Executes, ArenaPlaces, Spawning, Waking, Closing
<1>4. QED  BY <1>2, <1>3

\* And so does the one that closes the connection.
LEMMA ClosingStays ==
    ASSUME SnapshotInv, ArenaInv, NEW t \in Threads, Others(t), pc[t] \in Closing,
           local'[t].ret = local[t].ret,
           pc'[t] \in Closing \/ pc'[t] = local[t].ret
    PROVE  Stays(t)
<1>1. local[t].ret = IF t = Main THEN "done" ELSE "process"
  BY DEF ArenaInv, ReturnsFit, AfterLeaving
<1>2. QED
  BY <1>1 DEF Stays, ReturnsFit, AfterLeaving, InArena, Executes, ArenaPlaces, Spawning, Waking, Closing

LEMMA ServerStays ==
    ASSUME ServerAssumption, SnapshotInv, ArenaInv, NEW t \in Threads, ServerStep(t)
    PROVE  Stays(t)
<1>0. /\ Typed /\ pc = [u \in Threads |-> pc[u]] /\ local \in [Threads -> Locals]
      /\ Others(t)
  BY StateTyped, ServerApart DEF Typed, Apart
<1>1. CASE adjust_job_count_estimate(t) \/ LockList(t)
  <2>1. /\ pc[t] \in Waking /\ local' = local
        /\ pc'[t] \in Waking \/ pc'[t] = local[t].ret
    BY <1>0, <1>1 DEF adjust_job_count_estimate, LockList, Goto, At, Waking
  <2>2. QED  BY <1>0, <2>1, WakingStays
<1>2. CASE ClaimUnit(t)
  <2>1. pc[t] \in Waking /\ pc'[t] \in Waking
    BY <1>0, <1>2 DEF ClaimUnit, Goto, At, Waking
  <2>2. local'[t].ret = local[t].ret
    BY <1>0, <1>2 DEF ClaimUnit, SetN, Locals
  <2>3. QED  BY <1>0, <2>1, <2>2, WakingStays
<1>3. CASE Rouse(t)
  <2> DEFINE w == Last(local[t].wakees)
  <2>1. CASE local[t].wakees # <<>> /\ my_state[w] = "init"
    <3>1. w \in Workers /\ w \in Threads
      BY <1>0, <2>1, LastWakee DEF Threads
    <3>2. /\ pc[t] = "rouse" /\ pc' = [pc EXCEPT ![t] = "launched", ![w] = "born"]
          /\ local' = local
      BY <1>3, <2>1 DEF Rouse, At
    <3>3. pc[w] = "unborn" /\ w # t
      BY <2>1, <3>1, <3>2 DEF SnapshotInv, NotLaunched, At
    <3> HIDE DEF w
    <3>4. pc'[t] = "launched"
      BY <1>0, <3>1, <3>2, <3>3
    <3>5. pc[t] \in Waking /\ pc'[t] \in Waking /\ local'[t].ret = local[t].ret
      BY <3>2, <3>4 DEF Waking
    <3>6. QED  BY <1>0, <3>5, WakingStays
  <2>2. CASE ~(local[t].wakees # <<>> /\ my_state[w] = "init")
    <3>1. /\ pc[t] = "rouse" /\ local' = local
          /\ Goto(t, local[t].ret) \/ Goto(t, "signal")
      BY <1>3, <2>2 DEF Rouse, At
    <3>2. pc'[t] = local[t].ret \/ pc'[t] = "signal"
      BY <1>0, <3>1 DEF Goto
    <3>3. QED  BY <1>0, <3>1, <3>2, WakingStays DEF Waking
  <2>3. QED  BY <2>1, <2>2
<1>4. CASE Roused(t)
  <2>1. /\ pc[t] \in Waking /\ pc'[t] \in Waking
        /\ local' = [local EXCEPT ![t].wakees = Front(@)]
    BY <1>0, <1>4 DEF Roused, Goto, At, Waking
  <2>2. QED  BY <1>0, <2>1, WakingStays DEF Locals
<1>5. CASE StartShutdown(t)
  <2>1. pc[t] \in Closing /\ pc'[t] \in Closing
    BY <1>0, <1>5 DEF StartShutdown, Goto, At, Closing
  <2>2. local'[t].ret = local[t].ret
    BY <1>0, <1>5 DEF StartShutdown, SetN, Locals
  <2>3. QED  BY <1>0, <2>1, <2>2, ClosingStays
<1>6. CASE NotifyShutdown(t) \/ CloseConnection(t)
  <2>1. pc[t] \in Closing /\ (pc'[t] \in Closing \/ pc'[t] = local[t].ret)
    BY <1>0, <1>6 DEF NotifyShutdown, CloseConnection, Goto, At, Closing
  <2>2. local'[t].ret = local[t].ret
    BY <1>0, <1>6 DEF NotifyShutdown, CloseConnection, SetN, Locals
  <2>3. QED  BY <1>0, <2>1, <2>2, ClosingStays
<1>7. QED
  BY <1>1, <1>2, <1>3, <1>4, <1>5, <1>6, WorkerStays DEF ServerStep

LEMMA ServerArena ==
    ASSUME ServerAssumption, SnapshotInv, ArenaInv, NEW t \in Threads,
           UNCHANGED elsewhere, ServerStep(t)
    PROVE  ArenaInv'
  BY ServerStays, ArenaKept DEF elsewhere, lifetime, work, demand

LEMMA MovesStay ==
    ASSUME ServerAssumption, SnapshotInv, ArenaInv, NEW t \in Threads, Others(t),
           \/ Advertise(t) \/ MarkFull(t) \/ MarkEmptyFull(t)
           \/ t \in Workers /\ (SnapshotBegins(t) \/ Scan(t) \/ UndoSnapshot(t) \/ SnapshotEnds(t)
                                \/ SeekArena(t) \/ Relinquish(t) \/ LoopEnds(t))
    PROVE  ArenaInv'
<1>0. /\ Typed /\ pc = [u \in Threads |-> pc[u]] /\ local \in [Threads -> Locals]
      /\ ReturnsFit(t)
      /\ t \in Workers => t # Main
  BY StateTyped DEF Typed, ArenaInv, ServerAssumption
<1>1. CASE Advertise(t) \/ MarkFull(t) \/ MarkEmptyFull(t)
  <2>1. /\ pc[t] \in Spawning
        /\ pc'[t] \in {"mark", "mark_empty", "adjust"} \/ pc'[t] = local[t].ret
        /\ UNCHANGED <<lifetime, work>>
    BY <1>0, <1>1 DEF Advertise, MarkFull, MarkEmptyFull, Goto, At, Spawning
  <2>2. local'[t].ret = local[t].ret
    BY <1>0, <1>1 DEF Advertise, MarkFull, MarkEmptyFull, SetN, Locals
  <2>3. /\ pc[t] # "store" /\ local[t].ret = IF t = Main THEN "main" ELSE "execute"
        /\ pc'[t] # "store" /\ pc'[t] # "admit"
    <3>1. pc[t] # "store"
      BY <1>1 DEF Advertise, MarkFull, MarkEmptyFull, At
    <3>2. local[t].ret = IF t = Main THEN "main" ELSE "execute"
      BY <1>0, <2>1 DEF ReturnsFit
    <3>3. QED  BY <2>1, <3>1, <3>2
  <2>4. /\ InArena(t) /\ InArena(t)'
        /\ Executes(t)' <=> Executes(t)
    BY <2>1, <2>2, <2>3 DEF InArena, Executes, ArenaPlaces, Spawning
  <2>5. ReturnsFit(t)'
    BY <2>1, <2>2, <2>3 DEF ReturnsFit, Spawning, Waking, Closing
  <2>6. QED  BY <2>1, <2>3, <2>4, <2>5, ArenaKept DEF Stays, lifetime, work
<1>2. CASE t \in Workers /\ (SnapshotBegins(t) \/ Scan(t) \/ UndoSnapshot(t) \/ SnapshotEnds(t))
  <2>1. /\ pc[t] \in {"arena", "scan", "undo"}
        /\ \/ pc'[t] \in {"scan", "loop_end", "undo", "arena"}
           \/ pc'[t] = "adjust" /\ Call(t, "adjust", -my_max_num_workers, "loop_end")
        /\ UNCHANGED <<lifetime, work>>
    BY <1>0, <1>2 DEF SnapshotBegins, Scan, UndoSnapshot, SnapshotEnds, Call, Goto, At
  <2>2. pc'[t] = "adjust" => local'[t].ret = "loop_end"
    BY <1>0, <2>1 DEF Call, Locals
  <2>3. ReturnsFit(t)' /\ InArena(t) /\ InArena(t)' /\ (Executes(t)' <=> Executes(t))
    BY <1>0, <1>2, <2>1, <2>2
       DEF ReturnsFit, InArena, Executes, ArenaPlaces, Spawning, Waking, Closing
  <2>4. QED  BY <2>1, <2>3, ArenaKept DEF Stays, lifetime, work
<1>3. CASE t \in Workers /\ SeekArena(t)
  <2>1. /\ pc[t] \in {"process", "need"} /\ pc'[t] \in {"need", "loop", "admit"}
        /\ pc'[t] = "admit" => ~freed
        /\ UNCHANGED <<lifetime, work, my_pool_state, my_num_workers_requested>>
    BY <1>0, <1>3 DEF SeekArena, Goto, At, demand
  <2>2. ReturnsFit(t)' /\ ~InArena(t) /\ ~InArena(t)' /\ ~Executes(t)' /\ ~Executes(t)
    BY <1>0, <1>3, <2>1 DEF ReturnsFit, InArena, Executes, ArenaPlaces, Spawning, Waking, Closing
  <2>3. QED  BY <2>1, <2>2, ArenaKept DEF Stays, lifetime, work
<1>4. CASE t \in Workers /\ (Relinquish(t) \/ LoopEnds(t))
  <2>1. /\ pc[t] \in {"arena", "loop_end"} /\ pc'[t] \in {"loop_end", "leave", "arena"}
        /\ UNCHANGED <<lifetime, work, my_pool_state, my_num_workers_requested>>
    BY <1>0, <1>4 DEF Relinquish, LoopEnds, Goto, At, demand
  <2>2. ReturnsFit(t)' /\ InArena(t) /\ InArena(t)' /\ ~Executes(t)' /\ ~Executes(t)
    BY <1>0, <1>4, <2>1 DEF ReturnsFit, InArena, Executes, ArenaPlaces, Spawning, Waking, Closing
  <2>3. QED  BY <2>1, <2>2, ArenaKept DEF Stays, lifetime, work
<1>5. QED  BY <1>1, <1>2, <1>3, <1>4

LEMMA DemandStays ==
    ASSUME ServerAssumption, SnapshotInv, ArenaInv, NEW t \in Threads, Others(t), adjust_demand(t)
    PROVE  ArenaInv'
<1>0. /\ Typed /\ pc = [u \in Threads |-> pc[u]] /\ local \in [Threads -> Locals]
      /\ ReturnsFit(t)
  BY StateTyped DEF Typed, ArenaInv
<1>1. /\ UNCHANGED <<lifetime, work>> /\ \E n : SetN(t, n)
  BY <1>0 DEF adjust_demand, Goto, At
<1>2. local'[t].ret = local[t].ret
  BY <1>0, <1>1 DEF SetN, Locals
<1>3. pc[t] = "adjust" /\ (pc'[t] = "estimate" \/ pc'[t] = local[t].ret)
  BY <1>0 DEF adjust_demand, Goto, At
<1>4. ReturnsFit(t)' /\ InArena(t) /\ InArena(t)' /\ (Executes(t)' <=> Executes(t))
      /\ pc'[t] # "store" /\ pc'[t] # "admit"
  BY <1>0, <1>2, <1>3 DEF ReturnsFit, InArena, Executes, ArenaPlaces, Spawning, Waking, Closing
<1>5. QED  BY <1>1, <1>3, <1>4, ArenaKept DEF Stays, lifetime, work

LEMMA ReleaseStays ==
    ASSUME ServerAssumption, SnapshotInv, ArenaInv, NEW t \in Threads, Others(t),
           TryDestroy(t) \/ Release(t)
    PROVE  ArenaInv'
<1>0. /\ Typed /\ pc = [u \in Threads |-> pc[u]] /\ local \in [Threads -> Locals]
      /\ ReturnsFit(t)
  BY StateTyped DEF Typed, ArenaInv
<1>1. CASE TryDestroy(t)
  <2>1. /\ pc[t] = "destroy" /\ pc'[t] \in {"destroy_arena", AfterLeaving(t)}
        /\ UNCHANGED <<my_references, freed, work, my_pool_state, my_num_workers_requested>>
    BY <1>0, <1>1 DEF TryDestroy, Goto, At, demand
  <2>2. ReturnsFit(t)' /\ ~InArena(t) /\ ~InArena(t)' /\ ~Executes(t)' /\ ~Executes(t)
        /\ pc'[t] # "store" /\ pc'[t] # "admit"
    BY <2>1 DEF ReturnsFit, AfterLeaving, InArena, Executes, ArenaPlaces, Spawning, Waking, Closing
  <2>3. QED  BY <2>1, <2>2, ArenaKept DEF Stays, work
<1>2. CASE Release(t)
  <2>1. /\ pc[t] = "release" /\ pc'[t] \in {"release", "close", local[t].ret}
        /\ UNCHANGED <<my_references, freed, work, my_pool_state, my_num_workers_requested>>
        /\ local'[t].ret = local[t].ret
    BY <1>0, <1>2 DEF Release, Goto, At, demand, SetN, Locals
  <2>2. ReturnsFit(t)' /\ ~InArena(t) /\ ~InArena(t)' /\ ~Executes(t)' /\ ~Executes(t)
        /\ pc'[t] # "store" /\ pc'[t] # "admit"
    BY <1>0, <2>1
       DEF ReturnsFit, AfterLeaving, InArena, Executes, ArenaPlaces, Spawning, Waking, Closing
  <2>3. QED  BY <2>1, <2>2, ArenaKept DEF Stays, work
<1>3. QED  BY <1>1, <1>2

(******************************************************************************)
(* Tasks begin and end                                                        *)
(******************************************************************************)

\* Thread t keeps its place in the arena while the master is there.
LEMMA TasksChange ==
    ASSUME ServerAssumption, ArenaInv, NEW t \in Threads, Others(t), ReturnsFit(t)',
           InArena(t), InArena(t)', InArena(Main), pc'[t] # "admit", Counted',
           UNCHANGED <<my_references, freed>>
    PROVE  ArenaInv'
<1>1. ~freed
  BY DEF ArenaInv, Freed
<1>2. \A u \in Threads : ReturnsFit(u)' /\ (InArena(u)' <=> InArena(u))
  <2>1. ASSUME NEW u \in Threads, u # t
        PROVE  ReturnsFit(u)' /\ (InArena(u)' <=> InArena(u))
    BY <2>1, OthersStay DEF ArenaInv
  <2>2. QED  BY <2>1
<1>3. (InArena(Main)' <=> InArena(Main)) /\ Inside' = Inside
  BY <1>2 DEF Threads, Inside
<1>4. Referenced' /\ MasterIsLast' /\ Freed'
  BY <1>1, <1>3 DEF ArenaInv, Referenced, MasterIsLast, Freed
<1>5. QED  BY <1>2, <1>4 DEF ArenaInv

LEMMA UnendedTasks ==
    ASSUME NEW u \in Threads, NEW i \in Int
    PROVE  <<u, i>> \in Unended <=> \/ i \in 1 .. tasks[u]
                                    \/ i = 0 /\ pc[u] = "store"
                                    \/ i = -1 /\ Executes(u)
  BY DEF Unended

LEMMA UnendedTasksNext ==
    ASSUME NEW u \in Threads, NEW i \in Int
    PROVE  <<u, i>> \in Unended' <=> \/ i \in 1 .. tasks'[u]
                                     \/ i = 0 /\ pc'[u] = "store"
                                     \/ i = -1 /\ Executes(u)'
  BY DEF Unended

\* What a step of t leaves of the threads' tasks.
LEMMA OthersTasks ==
    ASSUME NEW t \in Threads, Others(t), NEW u \in Threads, u # t, tasks'[u] = tasks[u],
           NEW i \in Int
    PROVE  <<u, i>> \in Unended' <=> <<u, i>> \in Unended
<1>1. (Executes(u)' <=> Executes(u)) /\ (pc'[u] = "store" <=> pc[u] = "store")
  BY OthersStay
<1>2. QED  BY <1>1, UnendedTasks, UnendedTasksNext

LEMMA TaskAdded ==
    ASSUME Counted, NEW u \in Threads, NEW i \in Int, <<u, i>> \notin Unended,
           \A v \in Threads, j \in Int :
               <<v, j>> \in Unended' <=> <<v, j>> \in Unended \/ (v = u /\ j = i),
           unfinished' = unfinished + 1
    PROVE  Counted'
<1>1. Unended' = Unended \cup {<<u, i>>}
  <2>1. \A x \in Threads \X Int : x \in Unended' <=> x \in Unended \cup {<<u, i>>}
    <3> SUFFICES ASSUME NEW v \in Threads, NEW j \in Int
                 PROVE  <<v, j>> \in Unended' <=> <<v, j>> \in Unended \cup {<<u, i>>}
      OBVIOUS
    <3>1. QED  OBVIOUS
  <2>2. Unended \in SUBSET (Threads \X Int) /\ Unended' \in SUBSET (Threads \X Int)
    BY DEF Unended
  <2>3. QED  BY <2>1, <2>2
<1>2. QED  BY <1>1, FS_AddElement DEF Counted

LEMMA TaskRemoved ==
    ASSUME Counted, NEW u \in Threads, NEW i \in Int, <<u, i>> \in Unended,
           \A v \in Threads, j \in Int :
               <<v, j>> \in Unended' <=> <<v, j>> \in Unended /\ ~(v = u /\ j = i),
           unfinished' = unfinished - 1
    PROVE  Counted'
<1>1. Unended' = Unended \ {<<u, i>>}
  <2>1. \A x \in Threads \X Int : x \in Unended' <=> x \in Unended \ {<<u, i>>}
    <3> SUFFICES ASSUME NEW v \in Threads, NEW j \in Int
                 PROVE  <<v, j>> \in Unended' <=> <<v, j>> \in Unended \ {<<u, i>>}
      OBVIOUS
    <3>1. QED  OBVIOUS
  <2>2. Unended \in SUBSET (Threads \X Int) /\ Unended' \in SUBSET (Threads \X Int)
    BY DEF Unended
  <2>3. QED  BY <2>1, <2>2
<1>2. QED  BY <1>1, FS_RemoveElement DEF Counted

\* The i-th of u's tasks becomes the j-th of v's.
Moved(u, i, v, j) ==
    \A x \in Threads, k \in Int :
        <<x, k>> \in Unended' <=> \/ <<x, k>> \in Unended /\ ~(x = u /\ k = i)
                                  \/ x = v /\ k = j

LEMMA TaskMoved ==
    ASSUME Counted, NEW u \in Threads, NEW i \in Int, <<u, i>> \in Unended,
           NEW v \in Threads, NEW j \in Int, <<v, j>> \notin Unended,
           Moved(u, i, v, j), unfinished' = unfinished
    PROVE  Counted'
<1> DEFINE rest == Unended \ {<<u, i>>}
<1>1. Unended' = rest \cup {<<v, j>>}
  <2>1. \A x \in Threads \X Int : x \in Unended' <=> x \in rest \cup {<<v, j>>}
    <3> SUFFICES ASSUME NEW x \in Threads, NEW k \in Int
                 PROVE  <<x, k>> \in Unended' <=> <<x, k>> \in rest \cup {<<v, j>>}
      OBVIOUS
    <3>1. QED  BY DEF Moved
  <2>2. Unended \in SUBSET (Threads \X Int) /\ Unended' \in SUBSET (Threads \X Int)
    BY DEF Unended
  <2>3. QED  BY <2>1, <2>2
<1>2. IsFiniteSet(rest) /\ Cardinality(rest) = Cardinality(Unended) - 1
  BY FS_RemoveElement DEF Counted
<1>3. <<v, j>> \notin rest
  OBVIOUS
<1> HIDE DEF rest
<1>4. IsFiniteSet(Unended') /\ Cardinality(Unended') = Cardinality(rest) + 1
  BY <1>1, <1>2, <1>3, FS_AddElement
<1>5. Cardinality(Unended) \in Nat
  BY FS_CardinalityType DEF Counted
<1>6. QED  BY <1>2, <1>4, <1>5 DEF Counted

LEMMA SpawnCounts ==
    ASSUME ServerAssumption, SnapshotInv, ArenaInv, NEW t \in Threads, Others(t),
           Spawn(t) \/ SpawnUnfenced(t)
    PROVE  ArenaInv'
<1>0. /\ Typed /\ pc = [u \in Threads |-> pc[u]] /\ local \in [Threads -> Locals]
      /\ ReturnsFit(t) /\ tasks \in [Threads -> Nat] /\ Counted
  BY StateTyped DEF Typed, ArenaInv
<1>1. /\ pc[t] = IF t = Main THEN "main" ELSE "execute"
      /\ unfinished' = unfinished + 1 /\ UNCHANGED <<my_references, freed>>
  BY <1>0 DEF Spawn, SpawnUnfenced, MaySpawn, Running, NewTask, lifetime, ReturnsFit, Spawning,
              Waking, Closing
<1>2. InArena(t) /\ (Executes(t) <=> t # Main)
  BY <1>1 DEF InArena, Executes, ArenaPlaces, Spawning, Waking
<1>3. InArena(Main)
  <2>1. CASE t = Main
    BY <1>2, <2>1
  <2>2. CASE t # Main
    <3>1. -1 \in Int /\ Executes(t)
      BY <1>2, <2>2
    <3>2. <<t, -1>> \in Unended
      BY <3>1, UnendedTasks
    <3>3. QED  BY <3>2 DEF ArenaInv, MasterIsLast
  <2>3. QED  BY <2>1, <2>2
<1>4. /\ pc'[t] \in {"advertise", "store"} /\ local'[t].ret = pc[t]
      /\ pc'[t] = "store" => tasks' = tasks
      /\ pc'[t] = "advertise" => tasks' = [tasks EXCEPT ![t] = @ + 1]
  BY <1>0 DEF Spawn, SpawnUnfenced, Call, Goto, Locals
<1>5. InArena(t)' /\ ReturnsFit(t)' /\ (Executes(t)' <=> Executes(t)) /\ pc'[t] # "admit"
  BY <1>1, <1>2, <1>4 DEF InArena, ReturnsFit, Executes, ArenaPlaces, Spawning, Waking, Closing
<1>6. ASSUME NEW u \in Threads, u # t
      PROVE  tasks'[u] = tasks[u]
  BY <1>0, <1>4, <1>6
<1>7. Counted'
  <2>1. CASE pc'[t] = "advertise"
    <3>1. PICK n \in Nat : n = tasks[t]
      BY <1>0
    <3>2. tasks'[t] = n + 1 /\ n + 1 \in Int /\ <<t, n + 1>> \notin Unended
      BY <1>0, <1>4, <2>1, <3>1, UnendedTasks
    <3>3. ASSUME NEW v \in Threads, NEW j \in Int
          PROVE  <<v, j>> \in Unended' <=> <<v, j>> \in Unended \/ (v = t /\ j = n + 1)
      <4>1. CASE v # t
        BY <1>6, <4>1, OthersTasks
      <4>2. CASE v = t
        <5>1. <<v, j>> \in Unended <=> j \in 1 .. n \/ (j = -1 /\ Executes(t))
          BY <1>1, <3>1, <4>2, UnendedTasks
        <5>2. <<v, j>> \in Unended' <=> j \in 1 .. n + 1 \/ (j = -1 /\ Executes(t)')
          BY <2>1, <3>2, <4>2, UnendedTasksNext
        <5>3. j \in 1 .. n + 1 <=> j \in 1 .. n \/ j = n + 1
          BY <3>1
        <5>4. Executes(t)' <=> Executes(t)
          BY <1>5
        <5>5. PICK was, is : was = (<<v, j>> \in Unended) /\ is = (<<v, j>> \in Unended')
          OBVIOUS
        <5>6. (was <=> j \in 1 .. n \/ (j = -1 /\ Executes(t))) /\ (is <=> j \in 1 .. n + 1 \/ (j = -1 /\ Executes(t)'))
          BY <5>1, <5>2, <5>5, Zenon
        <5>7. is <=> was \/ j = n + 1
          BY <5>3, <5>4, <5>6, Zenon
        <5>8. QED  BY <4>2, <5>5, <5>7, Zenon
      <4>3. QED  BY <4>1, <4>2
    <3>4. PICK i \in Int : i = n + 1
      BY <3>2
    <3>5. /\ Counted /\ <<t, i>> \notin Unended /\ unfinished' = unfinished + 1
          /\ \A v \in Threads, j \in Int :
                <<v, j>> \in Unended' <=> <<v, j>> \in Unended \/ (v = t /\ j = i)
      BY <1>0, <1>1, <3>2, <3>3, <3>4
    <3>6. QED  BY <3>5, TaskAdded, Zenon
  <2>2. CASE pc'[t] = "store"
    <3>1. tasks'[t] = tasks[t] /\ tasks[t] \in Nat
      BY <1>0, <1>4, <2>2
    <3>2. 0 \in Int /\ <<t, 0>> \notin Unended
      BY <1>1, <3>1, UnendedTasks
    <3>3. ASSUME NEW v \in Threads, NEW j \in Int
          PROVE  <<v, j>> \in Unended' <=> <<v, j>> \in Unended \/ (v = t /\ j = 0)
      <4>1. CASE v # t
        BY <1>6, <4>1, OthersTasks
      <4>2. CASE v = t
        BY <1>1, <1>5, <2>2, <3>1, <4>2, UnendedTasks, UnendedTasksNext
      <4>3. QED  BY <4>1, <4>2
    <3>4. Counted /\ unfinished' = unfinished + 1
      BY <1>0, <1>1
    <3>5. QED  BY <3>2, <3>3, <3>4, TaskAdded
  <2>3. QED  BY <1>4, <2>1, <2>2
<1>8. QED  BY <1>1, <1>2, <1>3, <1>5, <1>7, TasksChange

LEMMA StoreCounts ==
    ASSUME ServerAssumption, SnapshotInv, ArenaInv, NEW t \in Threads, Others(t), Store(t)
    PROVE  ArenaInv'
<1>0. /\ Typed /\ pc = [u \in Threads |-> pc[u]] /\ local \in [Threads -> Locals]
      /\ ReturnsFit(t) /\ tasks \in [Threads -> Nat] /\ Counted
  BY StateTyped DEF Typed, ArenaInv
<1>1. /\ pc[t] = "store" /\ local' = local /\ tasks' = [tasks EXCEPT ![t] = @ + 1]
      /\ unfinished' = unfinished /\ UNCHANGED <<my_references, freed>>
      /\ pc'[t] \in {"mark", local[t].ret}
  BY <1>0 DEF Store, Goto, At, lifetime
<1>2. local[t].ret = IF t = Main THEN "main" ELSE "execute"
  BY <1>0, <1>1 DEF ReturnsFit, Spawning
<1>3. /\ InArena(t) /\ InArena(t)' /\ pc'[t] # "admit" /\ pc'[t] # "store"
      /\ Executes(t)' <=> Executes(t)
  BY <1>1, <1>2 DEF InArena, Executes, ArenaPlaces, Spawning, Waking
<1>4. ReturnsFit(t)'
  BY <1>1, <1>2 DEF ReturnsFit, Spawning, Waking, Closing
<1>5. PICK n \in Nat : /\ n = tasks[t] /\ tasks'[t] = n + 1
                       /\ \A u \in Threads \ {t} : tasks'[u] = tasks[u]
  BY <1>0, <1>1
<1>6. <<t, 0>> \in Unended /\ <<t, n + 1>> \notin Unended
  BY <1>1, <1>5, UnendedTasks
<1>7. InArena(Main)
  BY <1>6 DEF ArenaInv, MasterIsLast
<1>8. Counted'
  <2>1. Moved(t, 0, t, n + 1)
    <3>1. ASSUME NEW v \in Threads, NEW j \in Int
          PROVE  <<v, j>> \in Unended' <=> \/ <<v, j>> \in Unended /\ ~(v = t /\ j = 0)
                                           \/ v = t /\ j = n + 1
      <4>1. CASE v # t
        BY <1>5, <4>1, OthersTasks
      <4>2. CASE v = t
        BY <1>1, <1>3, <1>5, <4>2, UnendedTasks, UnendedTasksNext
      <4>3. QED  BY <4>1, <4>2
    <3>2. QED  BY <3>1 DEF Moved
  <2>2. 0 \in Int /\ n + 1 \in Int
    OBVIOUS
  <2>3. Counted /\ unfinished' = unfinished
    BY <1>0, <1>1
  <2>4. QED  BY <1>6, <2>1, <2>2, <2>3, TaskMoved
<1>9. QED  BY <1>1, <1>3, <1>4, <1>7, <1>8, TasksChange

LEMMA TakeCounts ==
    ASSUME ServerAssumption, SnapshotInv, ArenaInv, NEW t \in Threads, Others(t),
           (t = Main /\ MasterTakes) \/ (t \in Workers /\ WorkerTakes(t))
    PROVE  ArenaInv'
<1>0. /\ Typed /\ pc = [u \in Threads |-> pc[u]] /\ local \in [Threads -> Locals]
      /\ ReturnsFit(t) /\ tasks \in [Threads -> Nat] /\ Counted
  BY StateTyped DEF Typed, ArenaInv
<1>1. PICK s \in Threads : TakeFrom(s)
  BY DEF MasterTakes, WorkerTakes
<1>2. PICK n \in Int : /\ n = tasks[s] /\ n > 0 /\ tasks'[s] = n - 1
                       /\ \A u \in Threads \ {s} : tasks'[u] = tasks[u]
  BY <1>0, <1>1 DEF TakeFrom
<1>3. <<s, n>> \in Unended
  BY <1>2, UnendedTasks
<1>4. InArena(Main)
  BY <1>3 DEF ArenaInv, MasterIsLast
<1>5. ASSUME NEW v \in Threads, v # t, NEW j \in Int
      PROVE  <<v, j>> \in Unended' <=> <<v, j>> \in Unended /\ ~(v = s /\ j = n)
  <2>1. (Executes(v)' <=> Executes(v)) /\ (pc'[v] = "store" <=> pc[v] = "store")
    BY <1>5, OthersStay
  <2>2. CASE v = s
    BY <1>2, <2>1, <2>2, UnendedTasks, UnendedTasksNext
  <2>3. CASE v # s
    BY <1>2, <2>1, <2>3, UnendedTasks, UnendedTasksNext
  <2>4. QED  BY <2>2, <2>3
<1>6. CASE t = Main /\ MasterTakes
  <2>1. /\ pc[t] = "main" /\ pc' = pc /\ local' = local
        /\ unfinished' = unfinished - 1 /\ UNCHANGED <<my_references, freed>>
    BY <1>6 DEF MasterTakes, At, lifetime
  <2>2. InArena(t) /\ InArena(t)' /\ ReturnsFit(t)' /\ ~Executes(t) /\ ~Executes(t)'
    BY <1>0, <1>6, <2>1
       DEF InArena, ReturnsFit, Executes, ArenaPlaces, Spawning, Waking, Closing, AfterLeaving
  <2>3. ASSUME NEW j \in Int
        PROVE  <<t, j>> \in Unended' <=> <<t, j>> \in Unended /\ ~(t = s /\ j = n)
    BY <1>2, <2>1, <2>2, UnendedTasks, UnendedTasksNext
  <2>4. Counted'
    <3>1. \A v \in Threads, j \in Int :
              <<v, j>> \in Unended' <=> <<v, j>> \in Unended /\ ~(v = s /\ j = n)
      BY <1>5, <2>3
    <3>2. Counted /\ unfinished' = unfinished - 1
      BY <1>0, <2>1
    <3>3. QED  BY <1>3, <3>1, <3>2, TaskRemoved
  <2>5. QED  BY <1>4, <2>1, <2>2, <2>4, TasksChange
<1>7. CASE t \in Workers /\ WorkerTakes(t)
  <2>1. /\ pc[t] = "arena" /\ pc'[t] = "execute" /\ t # Main
        /\ unfinished' = unfinished /\ UNCHANGED <<my_references, freed>>
    BY <1>0, <1>7 DEF WorkerTakes, Goto, At, lifetime, ServerAssumption
  <2>2. InArena(t) /\ InArena(t)' /\ ReturnsFit(t)' /\ ~Executes(t) /\ Executes(t)'
    BY <2>1
       DEF InArena, ReturnsFit, Executes, ArenaPlaces, Spawning, Waking, Closing
  <2>3. ASSUME NEW j \in Int
        PROVE  <<t, j>> \in Unended' <=> \/ <<t, j>> \in Unended /\ ~(t = s /\ j = n)
                                         \/ j = -1
    BY <1>2, <2>1, <2>2, UnendedTasks, UnendedTasksNext
  <2>4. -1 \in Int /\ <<t, -1>> \notin Unended
    BY <1>0, <2>2, UnendedTasks
  <2>5. Counted'
    <3>1. Moved(s, n, t, -1)
      <4>1. ASSUME NEW v \in Threads, NEW j \in Int
            PROVE  <<v, j>> \in Unended' <=> \/ <<v, j>> \in Unended /\ ~(v = s /\ j = n)
                                             \/ v = t /\ j = -1
        <5>1. CASE v # t
          BY <1>5, <5>1
        <5>2. CASE v = t
          BY <2>3, <5>2
        <5>3. QED  BY <5>1, <5>2
      <4>2. QED  BY <4>1 DEF Moved
    <3>2. Counted /\ unfinished' = unfinished
      BY <1>0, <2>1
    <3>3. QED  BY <1>3, <2>4, <3>1, <3>2, TaskMoved
  <2>6. QED  BY <1>4, <2>1, <2>2, <2>5, TasksChange
<1>8. QED  BY <1>6, <1>7

LEMMA EndCounts ==
    ASSUME ServerAssumption, SnapshotInv, ArenaInv, NEW t \in Workers, Others(t), EndTask(t)
    PROVE  ArenaInv'
<1>0. /\ Typed /\ pc = [u \in Threads |-> pc[u]] /\ t \in Threads /\ t # Main
      /\ tasks \in [Threads -> Nat] /\ Counted
  BY StateTyped DEF Typed, ArenaInv, Threads, ServerAssumption
<1>1. /\ pc[t] = "execute" /\ pc'[t] = "arena" /\ tasks' = tasks
      /\ unfinished' = unfinished - 1 /\ UNCHANGED <<my_references, freed>>
  BY <1>0 DEF EndTask, Goto, At, lifetime
<1>2. InArena(t) /\ InArena(t)' /\ ReturnsFit(t)' /\ Executes(t) /\ ~Executes(t)'
  BY <1>0, <1>1 DEF InArena, ReturnsFit, Executes, ArenaPlaces, Spawning, Waking, Closing
<1>3. -1 \in Int /\ <<t, -1>> \in Unended
  BY <1>0, <1>2, UnendedTasks
<1>4. InArena(Main)
  BY <1>3 DEF ArenaInv, MasterIsLast
<1>5. Counted'
  <2>1. ASSUME NEW v \in Threads, NEW j \in Int
        PROVE  <<v, j>> \in Unended' <=> <<v, j>> \in Unended /\ ~(v = t /\ j = -1)
    <3>1. CASE v # t
      BY <1>0, <1>1, <3>1, OthersTasks
    <3>2. CASE v = t
      BY <1>0, <1>1, <1>2, <3>2, UnendedTasks, UnendedTasksNext
    <3>3. QED  BY <3>1, <3>2
  <2>2. QED  BY <1>0, <1>1, <1>3, <2>1, TaskRemoved
<1>6. QED  BY <1>0, <1>1, <1>2, <1>4, <1>5, TasksChange

(******************************************************************************)
(* Threads enter the arena and leave it                                       *)
(******************************************************************************)

LEMMA InsideIsFinite ==
    ASSUME ServerAssumption
    PROVE  IsFiniteSet(Inside) /\ Cardinality(Inside) \in Nat
<1>1. Inside \in SUBSET Threads
  BY DEF Inside, Threads
<1>2. QED  BY <1>1, ThreadsAreFinite, FS_Subset, FS_CardinalityType

\* A thread without a task crosses the border of an arena that is there.
LEMMA BorderCrossed ==
    ASSUME ServerAssumption, ArenaInv, ~freed, NEW t \in Threads, Others(t), ReturnsFit(t)',
           pc[t] \in {"admit", "leave", "main"}, pc'[t] \in {"arena", "destroy", "process", "done"},
           UNCHANGED <<freed, unfinished, tasks>>,
           Referenced', InArena(Main)' \/ unfinished = 0
    PROVE  ArenaInv'
<1>1. ~Executes(t) /\ ~Executes(t)' /\ pc[t] # "store" /\ pc'[t] # "store"
  BY DEF Executes, Spawning, Waking
<1>2. \A u \in Threads : /\ ReturnsFit(u)' /\ (Executes(u)' <=> Executes(u))
                         /\ pc'[u] = "store" <=> pc[u] = "store"
  <2>1. ASSUME NEW u \in Threads, u # t
        PROVE  /\ ReturnsFit(u)' /\ (Executes(u)' <=> Executes(u))
               /\ pc'[u] = "store" <=> pc[u] = "store"
    BY <2>1, OthersStay DEF ArenaInv
  <2>2. QED  BY <1>1, <2>1
<1>3. Unended' = Unended
  BY <1>2 DEF Unended
<1>4. Counted'
  BY <1>3 DEF ArenaInv, Counted
<1>5. MasterIsLast'
  <2>1. CASE unfinished = 0
    BY <1>3, <2>1, FS_EmptySet DEF ArenaInv, Counted, MasterIsLast
  <2>2. CASE InArena(Main)'
    BY <2>2 DEF MasterIsLast
  <2>3. QED  BY <2>1, <2>2
<1>6. QED  BY <1>2, <1>4, <1>5 DEF ArenaInv, Freed

LEMMA ArenaEntered ==
    ASSUME ServerAssumption, SnapshotInv, ArenaInv, NEW t \in Workers, Others(t), EnterArena(t)
    PROVE  ArenaInv'
<1>0. /\ Typed /\ pc = [u \in Threads |-> pc[u]] /\ t \in Threads /\ t # Main
      /\ Main \in Threads
  BY StateTyped DEF Typed, Threads, ServerAssumption
<1>1. /\ pc[t] = "admit" /\ pc'[t] = "arena" /\ my_references' = my_references + 2
      /\ UNCHANGED <<freed, unfinished, tasks>>
  BY <1>0 DEF EnterArena, Goto, At, work
<1>2. ~freed
  <2>1. t \in Readers
    BY <1>1 DEF Readers, At
  <2>2. QED  BY <2>1 DEF ArenaInv, Freed
<1>3. ~InArena(t) /\ InArena(t)' /\ ReturnsFit(t)'
  BY <1>0, <1>1 DEF InArena, ReturnsFit, ArenaPlaces, Spawning, Waking, Closing
<1>4. \A u \in Threads \ {t} : InArena(u)' <=> InArena(u)
  BY <1>0, OthersStay
<1>5. Inside' = Inside \cup {t} /\ t \notin Inside
  BY <1>3, <1>4 DEF Inside, Threads
<1>6. Cardinality(Inside') = Cardinality(Inside) + 1
  BY <1>5, InsideIsFinite, FS_AddElement
<1>7. Referenced'
  BY <1>0, <1>1, <1>4, <1>6, InsideIsFinite DEF ArenaInv, Referenced
<1>8. InArena(Main)' \/ unfinished = 0
  <2>1. CASE InArena(Main)
    BY <1>0, <1>4, <2>1
  <2>2. CASE ~InArena(Main)
    BY <2>2, FS_EmptySet DEF ArenaInv, MasterIsLast, Counted
  <2>3. QED  BY <2>1, <2>2
<1>9. QED  BY <1>0, <1>1, <1>2, <1>3, <1>7, <1>8, BorderCrossed

LEMMA WorkerLeft ==
    ASSUME ServerAssumption, SnapshotInv, ArenaInv, NEW t \in Workers, Others(t), WorkerLeaves(t)
    PROVE  ArenaInv'
<1>0. /\ Typed /\ pc = [u \in Threads |-> pc[u]] /\ t \in Threads /\ t # Main
      /\ Main \in Threads
  BY StateTyped DEF Typed, Threads, ServerAssumption
<1>1. /\ pc[t] = "leave" /\ pc'[t] \in {"destroy", "process"} /\ my_references' = my_references - 2
      /\ UNCHANGED <<freed, unfinished, tasks>>
  BY <1>0 DEF WorkerLeaves, Goto, At, work
<1>2. InArena(t) /\ ~InArena(t)' /\ ReturnsFit(t)'
  BY <1>0, <1>1 DEF InArena, ReturnsFit, ArenaPlaces, Spawning, Waking, Closing
<1>3. ~freed
  BY <1>2 DEF ArenaInv, Freed, Inside
<1>4. \A u \in Threads \ {t} : InArena(u)' <=> InArena(u)
  BY <1>0, OthersStay
<1>5. Inside' = Inside \ {t} /\ t \in Inside
  BY <1>2, <1>4 DEF Inside, Threads
<1>6. Cardinality(Inside') = Cardinality(Inside) - 1
  BY <1>5, InsideIsFinite, FS_RemoveElement
<1>7. Referenced'
  BY <1>0, <1>1, <1>4, <1>6, InsideIsFinite DEF ArenaInv, Referenced
<1>8. InArena(Main)' \/ unfinished = 0
  <2>1. CASE InArena(Main)
    BY <1>0, <1>4, <2>1
  <2>2. CASE ~InArena(Main)
    BY <2>2, FS_EmptySet DEF ArenaInv, MasterIsLast, Counted
  <2>3. QED  BY <2>1, <2>2
<1>9. QED  BY <1>0, <1>1, <1>2, <1>3, <1>7, <1>8, BorderCrossed

LEMMA MasterLeft ==
    ASSUME ServerAssumption, SnapshotInv, ArenaInv, Others(Main), MasterLeaves
    PROVE  ArenaInv'
<1>0. /\ Typed /\ pc = [u \in Threads |-> pc[u]] /\ Main \in Threads /\ Main \notin Workers
  BY StateTyped DEF Typed, Threads, ServerAssumption
<1>1. /\ pc[Main] = "main" /\ pc'[Main] \in {"destroy", "done"} /\ my_references' = my_references - 1
      /\ unfinished = 0 /\ UNCHANGED <<freed, unfinished, tasks>>
  BY <1>0 DEF MasterLeaves, Goto, At, work
<1>2. InArena(Main) /\ ~InArena(Main)' /\ ReturnsFit(Main)'
  BY <1>0, <1>1 DEF InArena, ReturnsFit, ArenaPlaces, Spawning, Waking, Closing
<1>3. ~freed
  BY <1>2 DEF ArenaInv, Freed
<1>4. \A u \in Workers : InArena(u)' <=> InArena(u)
  BY <1>0, OthersStay DEF Threads
<1>5. Inside' = Inside
  BY <1>4 DEF Inside
<1>6. Referenced'
  BY <1>1, <1>2, <1>5, InsideIsFinite DEF ArenaInv, Referenced
<1>7. QED  BY <1>0, <1>1, <1>2, <1>3, <1>6, BorderCrossed

\* Who destroys the arena has seen that nobody is in it.
LEMMA ArenaIsDestroyed ==
    ASSUME ServerAssumption, SnapshotInv, DemandInv, ArenaInv, NEW t \in Threads, Others(t),
           TryDestroyArena(t)
    PROVE  ArenaInv'
<1> DEFINE destroys == ~freed /\ my_num_workers_requested = 0 /\ my_references = 0
<1>0. /\ Typed /\ pc = [u \in Threads |-> pc[u]] /\ local \in [Threads -> Locals]
      /\ ReturnsFit(t)
  BY StateTyped DEF Typed, ArenaInv
<1>1. /\ pc[t] = "destroy_arena" /\ pc'[t] \in {"release", AfterLeaving(t)} /\ Readers = {}
      /\ local'[t].ret = AfterLeaving(t)
      /\ UNCHANGED <<my_references, work, my_pool_state, my_num_workers_requested>>
      /\ freed' = (freed \/ destroys)
  BY <1>0 DEF TryDestroyArena, Call, Goto, At, demand, Locals
<1>2. ReturnsFit(t)' /\ ~InArena(t) /\ ~InArena(t)' /\ ~Executes(t)' /\ ~Executes(t)
      /\ pc'[t] # "store" /\ pc'[t] # "admit" /\ pc[t] # "store" /\ pc[t] # "admit"
  BY <1>1
     DEF ReturnsFit, AfterLeaving, InArena, Executes, ArenaPlaces, Spawning, Waking, Closing
<1>3. CASE ~destroys
  <2>1. freed' = freed
    <3>1. freed' = (freed \/ destroys) /\ freed \in BOOLEAN
      BY <1>1 DEF ArenaInv, Freed
    <3>2. QED  BY <1>3, <3>1, Zenon
  <2>2. QED  BY <1>1, <1>2, <2>1, ArenaKept DEF Stays, work
<1>4. CASE destroys
  <2>1. ~InArena(Main) /\ Cardinality(Inside) = 0
    BY <1>4, InsideIsFinite DEF ArenaInv, Referenced
  <2>2. Inside = {}
    BY <2>1, InsideIsFinite, FS_EmptySet
  <2>3. \A u \in Threads : ~InArena(u)
    BY <2>1, <2>2 DEF Inside, Threads
  <2>4. my_pool_state = "empty" \/ my_max_num_workers = 0
    <3>1. Raising = {} /\ Lowering = {}
      BY <2>3 DEF Raising, Lowering, InArena, ArenaPlaces
    <3>2. Cardinality(Raising) = 0 /\ Cardinality(Lowering) = 0
      BY <3>1, FS_EmptySet
    <3>3. PICK max \in Nat, w \in {0, 1} : max = my_max_num_workers /\ w = Wanted
      BY Amounts
    <3>4. 0 = max * (w - 0 + 0)
      BY <1>4, <3>2, <3>3 DEF DemandInv, Told
    <3>5. max = 0 \/ w = 0
      BY <3>4
    <3>6. QED  BY <3>3, <3>5 DEF Wanted
  <2>5. \A u \in Threads : /\ ReturnsFit(u)' /\ (InArena(u)' <=> InArena(u))
                           /\ Executes(u)' <=> Executes(u)
                           /\ pc'[u] = "store" <=> pc[u] = "store"
                           /\ pc'[u] = "admit" <=> pc[u] = "admit"
    <3>1. ASSUME NEW u \in Threads, u # t
          PROVE  /\ ReturnsFit(u)' /\ (InArena(u)' <=> InArena(u))
                 /\ Executes(u)' <=> Executes(u)
                 /\ pc'[u] = "store" <=> pc[u] = "store"
                 /\ pc'[u] = "admit" <=> pc[u] = "admit"
      BY <3>1, OthersStay DEF ArenaInv
    <3>2. QED  BY <1>2, <3>1
  <2>6. /\ ~InArena(Main)' /\ Inside' = Inside /\ Unended' = Unended /\ Readers' = Readers
    BY <1>1, <2>1, <2>5 DEF Threads, Inside, Unended, Readers, At, work
  <2>7. Freed'
    BY <1>1, <1>4, <2>2, <2>4, <2>6 DEF Freed, my_max_num_workers, my_n_thread
  <2>8. Referenced' /\ Counted' /\ MasterIsLast'
    BY <1>1, <2>1, <2>6 DEF ArenaInv, Referenced, Counted, MasterIsLast, work
  <2>9. QED  BY <2>5, <2>7, <2>8 DEF ArenaInv
<1>5. QED  BY <1>3, <1>4

LEMMA NextArena ==
    ASSUME ServerAssumption, MarketAssumption, SnapshotInv, DemandInv, ArenaInv, [Next]_vars
    PROVE  ArenaInv'
<1>1. ASSUME NEW t \in Threads, ThreadStep(t) \/ Spawn(t) \/ SpawnUnfenced(t)
      PROVE  ArenaInv'
  <2>1. CASE ServerStep(t) /\ UNCHANGED <<my_pool_state, demand, lifetime, work>>
    BY <2>1, ServerArena DEF elsewhere
  <2>2. CASE adjust_demand(t)
    BY <2>2, DemandIsTold, DemandStays
  <2>3. CASE \/ MarkFull(t) \/ MarkEmptyFull(t)
             \/ t \in Workers /\ (SnapshotBegins(t) \/ Scan(t) \/ UndoSnapshot(t) \/ SnapshotEnds(t))
    BY <2>3, StateMarked, MovesStay
  <2>4. CASE \/ Spawn(t) \/ SpawnUnfenced(t) \/ Store(t) \/ Advertise(t)
             \/ TryDestroy(t) \/ TryDestroyArena(t) \/ Release(t)
             \/ t = Main /\ (MasterTakes \/ MasterLeaves)
             \/ t \in Workers /\ (WorkerTakes(t) \/ EndTask(t) \/ SeekArena(t) \/ EnterArena(t)
                                  \/ Relinquish(t) \/ LoopEnds(t) \/ WorkerLeaves(t))
    <3>1. Others(t)
      BY <2>4, ArenaApart DEF Apart
    <3>2. CASE \/ Spawn(t) \/ SpawnUnfenced(t) \/ Store(t)
               \/ t = Main /\ MasterTakes
               \/ t \in Workers /\ (WorkerTakes(t) \/ EndTask(t))
      BY <3>1, <3>2, SpawnCounts, StoreCounts, TakeCounts, EndCounts
    <3>3. CASE \/ Advertise(t) \/ TryDestroy(t) \/ Release(t) \/ TryDestroyArena(t)
               \/ t \in Workers /\ (SeekArena(t) \/ Relinquish(t) \/ LoopEnds(t))
      BY <3>1, <3>3, MovesStay, ReleaseStays, ArenaIsDestroyed
    <3>4. CASE \/ t = Main /\ MasterLeaves
               \/ t \in Workers /\ (EnterArena(t) \/ WorkerLeaves(t))
      BY <3>1, <3>4, MasterLeft, ArenaEntered, WorkerLeft
    <3>5. QED  BY <2>4, <3>2, <3>3, <3>4
  <2>5. QED  BY <1>1, <2>1, <2>2, <2>3, <2>4 DEF ThreadStep
<1>2. CASE UNCHANGED vars
  <2>1. UNCHANGED <<pc, local, my_references, freed, unfinished, tasks, my_pool_state,
                    my_num_workers_requested>>
    BY <1>2 DEF vars, demand, lifetime, work
  <2>2. /\ \A u \in Threads : /\ ReturnsFit(u)' <=> ReturnsFit(u)
                              /\ InArena(u)' <=> InArena(u)
                              /\ Executes(u)' <=> Executes(u)
        /\ Readers' = Readers
    BY <2>1 DEF ReturnsFit, InArena, Executes, Readers, At, AfterLeaving
  <2>3. (InArena(Main)' <=> InArena(Main)) /\ Inside' = Inside /\ Unended' = Unended
    BY <2>1, <2>2 DEF Inside, Unended, Threads
  <2>4. QED
    BY <2>1, <2>2, <2>3
       DEF ArenaInv, Referenced, Counted, MasterIsLast, Freed, my_max_num_workers, my_n_thread
<1>3. QED  BY <1>1, <1>2 DEF Next, Terminated

LEMMA InitArena ==
    ASSUME ServerAssumption, Init
    PROVE  ArenaInv
<1>1. /\ pc = [t \in Threads |-> IF t = Main THEN "main" ELSE "unborn"]
      /\ Main \in Threads /\ Main \notin Workers
      /\ tasks = [t \in Threads |-> 0] /\ my_references = 1 /\ freed = FALSE /\ unfinished = 0
  BY DEF Init, ServerInit, Threads, ServerAssumption
<1>2. \A t \in Threads : /\ ReturnsFit(t) /\ ~Executes(t) /\ pc[t] # "store"
                         /\ InArena(t) <=> t = Main
  BY <1>1 DEF ReturnsFit, Executes, InArena, ArenaPlaces, Spawning, Waking, Closing
<1>3. Inside = {} /\ InArena(Main)
  BY <1>1, <1>2 DEF Inside, Threads
<1>4. Unended = {}
  BY <1>1, <1>2 DEF Unended
<1>5. Cardinality(Inside) = 0 /\ IsFiniteSet(Unended) /\ Cardinality(Unended) = 0
  BY <1>3, <1>4, FS_EmptySet
<1>6. Referenced
  BY <1>1, <1>3, <1>5 DEF Referenced
<1>7. Counted /\ MasterIsLast
  BY <1>1, <1>4, <1>5 DEF Counted, MasterIsLast
<1>8. Freed
  BY <1>1 DEF Freed
<1>9. QED  BY <1>2, <1>6, <1>7, <1>8 DEF ArenaInv

(******************************************************************************)
(* The references to the market                                               *)
(******************************************************************************)

\* Thread t is to give back the reference that went with the arena.
HoldsArena(t) == pc[t] = "release" /\ (t = Main => local[t].n = 2)

ArenaHeld == ~freed \/ \E t \in Threads : HoldsArena(t)

MainHolds == pc[Main] \in {"destroy_arena", "release"}

MarketRefs ==
    /\ \A t, u \in Threads : HoldsArena(t) /\ HoldsArena(u) => t = u
    /\ \A t \in Threads : HoldsArena(t) => freed
    /\ \A t \in Threads : pc[t] = "release" => local[t].n = 1 \/ (t = Main /\ local[t].n = 2)
    /\ market_ref_count = (IF ArenaHeld THEN 1 ELSE 0) + (IF MainHolds THEN 1 ELSE 0)

Marked == {"destroy_arena", "release"}

LEMMA ServerElsewhere ==
    ASSUME SnapshotInv, NEW t \in Threads, ServerStep(t)
    PROVE  pc[t] \notin Marked /\ pc'[t] \notin Marked
<1>0. /\ Typed /\ pc = [u \in Threads |-> pc[u]] /\ local[t].ret \in Returns
  BY StateTyped, LocalsTyped DEF Typed
<1>1. CASE \/ propagate_chain_reaction(t) \/ TestState(t) \/ TestSlack(t)
           \/ PrepareWait(t) \/ VerifyState(t) \/ GiveUnit(t) \/ Insert(t)
           \/ CancelWait(t) \/ CommitWait(t) \/ Cleanup(t) \/ Unref(t)
  BY <1>0, <1>1 DEF propagate_chain_reaction, TestState, TestSlack, PrepareWait, VerifyState, GiveUnit,
                    Insert, CancelWait, CommitWait, Cleanup, Unref, Call, Goto, At, Marked
<1>2. CASE adjust_job_count_estimate(t) \/ LockList(t) \/ ClaimUnit(t) \/ Roused(t)
  BY <1>0, <1>2 DEF adjust_job_count_estimate, LockList, ClaimUnit, Roused, Goto, At, Marked, Returns
<1>3. CASE StartShutdown(t) \/ NotifyShutdown(t) \/ CloseConnection(t)
  BY <1>0, <1>3 DEF StartShutdown, NotifyShutdown, CloseConnection, Goto, At, Marked, Returns
<1>4. CASE Rouse(t)
  <2>1. pc[t] = "rouse"
    BY <1>4 DEF Rouse, At
  <2>2. \/ pc'[t] \in {"signal", local[t].ret}
        \/ pc' = [pc EXCEPT ![t] = "launched", ![Last(local[t].wakees)] = "born"]
    BY <1>0, <1>4 DEF Rouse, Goto
  <2>3. pc'[t] \in {"signal", local[t].ret, "launched", "born"}
    BY <1>0, <2>2
  <2>4. QED  BY <1>0, <2>1, <2>3 DEF Marked, Returns
<1>5. QED  BY <1>1, <1>2, <1>3, <1>4 DEF ServerStep

LEMMA ArenaElsewhere ==
    ASSUME SnapshotInv, NEW t \in Threads,
           \/ Spawn(t) \/ SpawnUnfenced(t) \/ Store(t) \/ Advertise(t) \/ MarkFull(t) \/ MarkEmptyFull(t)
           \/ adjust_demand(t)
           \/ t = Main /\ (MasterTakes \/ MasterLeaves)
           \/ t \in Workers /\ (WorkerTakes(t) \/ EndTask(t) \/ SeekArena(t) \/ EnterArena(t)
                                \/ Relinquish(t) \/ LoopEnds(t) \/ WorkerLeaves(t)
                                \/ SnapshotBegins(t) \/ Scan(t) \/ UndoSnapshot(t)
                                \/ SnapshotEnds(t))
    PROVE  /\ pc[t] \notin Marked \cup Closing \cup {"unborn", "gone"}
           /\ pc'[t] \notin Marked \cup Closing \cup {"unborn", "gone"}
           /\ UNCHANGED <<server, freed, market_ref_count>>
<1>0. /\ Typed /\ pc = [u \in Threads |-> pc[u]] /\ local[t].ret \in Returns
  BY StateTyped, LocalsTyped DEF Typed
<1>1. CASE Spawn(t) \/ SpawnUnfenced(t) \/ Store(t) \/ Advertise(t) \/ MarkFull(t) \/ MarkEmptyFull(t)
  BY <1>0, <1>1 DEF Spawn, SpawnUnfenced, Store, Advertise, MarkFull, MarkEmptyFull, MaySpawn, Running,
                    Call, Goto, At, Marked, Closing, Returns, lifetime
<1>2. CASE adjust_demand(t)
  BY <1>0, <1>2 DEF adjust_demand, Goto, At, Marked, Closing, Returns, lifetime
<1>3. CASE t = Main /\ (MasterTakes \/ MasterLeaves)
  BY <1>0, <1>3 DEF MasterTakes, MasterLeaves, Goto, At, Marked, Closing, lifetime
<1>4. CASE t \in Workers /\ (WorkerTakes(t) \/ EndTask(t) \/ SeekArena(t) \/ EnterArena(t)
                             \/ Relinquish(t) \/ LoopEnds(t) \/ WorkerLeaves(t))
  BY <1>0, <1>4 DEF WorkerTakes, EndTask, SeekArena, EnterArena, Relinquish, LoopEnds, WorkerLeaves,
                    Goto, At, Marked, Closing, lifetime
<1>5. CASE t \in Workers /\ (SnapshotBegins(t) \/ Scan(t) \/ UndoSnapshot(t) \/ SnapshotEnds(t))
  BY <1>0, <1>5 DEF SnapshotBegins, Scan, UndoSnapshot, SnapshotEnds, Call, Goto, At, Marked, Closing,
                    lifetime
<1>6. QED  BY <1>1, <1>2, <1>3, <1>4, <1>5

LEMMA HoldersStay ==
    ASSUME NEW t \in Threads, Others(t), NEW u \in Threads, u # t
    PROVE  /\ HoldsArena(u)' <=> HoldsArena(u)
           /\ pc'[u] = "release" <=> pc[u] = "release"
           /\ local'[u] = local[u]
           /\ pc'[u] \in Marked <=> pc[u] \in Marked
  BY DEF Others, HoldsArena, Marked

LEMMA MarketKept ==
    ASSUME ServerAssumption, MarketRefs, NEW t \in Threads, Others(t),
           pc[t] \notin Marked, pc'[t] \notin Marked,
           UNCHANGED <<freed, market_ref_count>>
    PROVE  MarketRefs'
<1>1. \A u \in Threads : /\ HoldsArena(u)' <=> HoldsArena(u)
                         /\ pc'[u] = "release" <=> pc[u] = "release"
                         /\ pc[u] = "release" => local'[u] = local[u]
                         /\ pc'[u] \in Marked <=> pc[u] \in Marked
  <2>1. ~HoldsArena(t) /\ ~HoldsArena(t)' /\ pc[t] # "release" /\ pc'[t] # "release"
    BY DEF HoldsArena, Marked
  <2>2. QED  BY <2>1, HoldersStay
<1>2. /\ ArenaHeld' <=> ArenaHeld
      /\ MainHolds' <=> MainHolds
  BY <1>1 DEF ArenaHeld, MainHolds, Marked, Threads
<1>3. QED  BY <1>1, <1>2 DEF MarketRefs

LEMMA DestroyTried ==
    ASSUME ServerAssumption, SnapshotInv, MarketRefs, NEW t \in Threads, Others(t), TryDestroy(t)
    PROVE  MarketRefs'
<1>0. /\ Typed /\ pc = [u \in Threads |-> pc[u]] /\ Main \in Threads
  BY StateTyped DEF Typed, Threads
<1>1. /\ pc[t] = "destroy" /\ freed' = freed
      /\ pc'[t] = IF theMarket THEN "destroy_arena" ELSE AfterLeaving(t)
      /\ market_ref_count' = market_ref_count + IF t = Main /\ theMarket THEN 1 ELSE 0
  BY <1>0 DEF TryDestroy, Goto, At
<1>2. pc'[t] # "release"
  BY <1>1 DEF AfterLeaving
<1>3. \A u \in Threads : /\ HoldsArena(u)' <=> HoldsArena(u)
                         /\ pc'[u] = "release" <=> pc[u] = "release"
                         /\ pc[u] = "release" => local'[u] = local[u]
  <2>1. ~HoldsArena(t) /\ ~HoldsArena(t)' /\ pc[t] # "release"
    BY <1>1, <1>2 DEF HoldsArena
  <2>2. QED  BY <1>2, <2>1, HoldersStay
<1>4. ArenaHeld' <=> ArenaHeld
  BY <1>1, <1>3 DEF ArenaHeld
<1>5. /\ MainHolds' <=> MainHolds \/ (t = Main /\ theMarket)
      /\ t = Main => ~MainHolds
  <2>1. CASE t = Main
    BY <1>1, <2>1 DEF MainHolds, AfterLeaving
  <2>2. CASE t # Main
    BY <1>0, <2>2, HoldersStay DEF MainHolds, Marked
  <2>3. QED  BY <2>1, <2>2
<1>6. market_ref_count' = (IF ArenaHeld' THEN 1 ELSE 0) + (IF MainHolds' THEN 1 ELSE 0)
  <2>1. CASE t = Main /\ theMarket
    BY <1>1, <1>4, <1>5, <2>1 DEF MarketRefs
  <2>2. CASE ~(t = Main /\ theMarket)
    BY <1>1, <1>4, <1>5, <2>2 DEF MarketRefs
  <2>3. QED  BY <2>1, <2>2
<1>7. QED  BY <1>1, <1>3, <1>6 DEF MarketRefs

LEMMA ArenaGivenUp ==
    ASSUME ServerAssumption, SnapshotInv, MarketRefs, freed \in BOOLEAN, NEW t \in Threads, Others(t),
           TryDestroyArena(t)
    PROVE  MarketRefs'
<1> DEFINE destroys == ~freed /\ my_num_workers_requested = 0 /\ my_references = 0
           n == (IF destroys THEN 1 ELSE 0) + (IF t = Main THEN 1 ELSE 0)
<1>0. /\ Typed /\ pc = [u \in Threads |-> pc[u]] /\ local \in [Threads -> Locals] /\ Main \in Threads
  BY StateTyped DEF Typed, Threads
<1>1. /\ pc[t] = "destroy_arena" /\ freed' = (freed \/ destroys)
      /\ pc'[t] = (IF n > 0 THEN "release" ELSE AfterLeaving(t)) /\ local'[t].n = n
      /\ market_ref_count' = market_ref_count
  BY <1>0 DEF TryDestroyArena, Call, Goto, At, Locals
<1>2. /\ MainHolds' <=> MainHolds
      /\ pc'[t] = "release" => n = 1 \/ (t = Main /\ n = 2)
  <2>1. CASE t = Main
    <3>1. n \in {1, 2} /\ pc'[t] = "release"
      BY <1>1, <2>1
    <3>2. QED  BY <1>1, <2>1, <3>1 DEF MainHolds
  <2>2. CASE t # Main
    <3>1. n \in {0, 1}
      BY <2>2
    <3>2. MainHolds' <=> MainHolds
      BY <1>0, <2>2, HoldersStay DEF MainHolds, Marked
    <3>3. QED  BY <1>1, <3>1, <3>2 DEF AfterLeaving
  <2>3. QED  BY <2>1, <2>2
<1>3. \A u \in Threads : u # t => /\ HoldsArena(u)' <=> HoldsArena(u)
                                  /\ pc'[u] = "release" <=> pc[u] = "release"
                                  /\ local'[u] = local[u]
  BY HoldersStay
<1>4. ~HoldsArena(t)
  BY <1>1 DEF HoldsArena
<1>5. \A u \in Threads : pc'[u] = "release" => local'[u].n = 1 \/ (u = Main /\ local'[u].n = 2)
  BY <1>1, <1>2, <1>3 DEF MarketRefs
<1>6. CASE destroys
  <2>1. HoldsArena(t)' /\ freed'
    <3>1. freed' = (freed \/ destroys)
      BY <1>1
    <3>2. freed'
      BY <1>6, <3>1, Zenon
    <3>3. HoldsArena(t)'
      BY <1>1, <1>6 DEF HoldsArena
    <3>4. QED  BY <3>2, <3>3
  <2>2. \A u \in Threads : u # t => ~HoldsArena(u)'
    BY <1>3, <1>6 DEF MarketRefs
  <2>3. ArenaHeld /\ ArenaHeld'
    BY <1>6, <2>1 DEF ArenaHeld
  <2>4. QED  BY <1>1, <1>2, <1>5, <2>1, <2>2, <2>3 DEF MarketRefs
<1>7. CASE ~destroys
  <2>1. ~HoldsArena(t)' /\ freed' = freed
    <3>1. freed' = (freed \/ destroys)
      BY <1>1
    <3>2. freed' = freed
      BY <1>7, <3>1, Zenon
    <3>3. CASE t = Main
      BY <1>1, <1>7, <3>3 DEF HoldsArena
    <3>4. CASE t # Main
      BY <1>1, <1>7, <3>4 DEF HoldsArena, AfterLeaving
    <3>5. QED  BY <3>2, <3>3, <3>4
  <2>2. \A u \in Threads : HoldsArena(u)' <=> HoldsArena(u)
    BY <1>3, <1>4, <2>1
  <2>3. ArenaHeld' <=> ArenaHeld
    BY <2>1, <2>2 DEF ArenaHeld
  <2>4. QED  BY <1>1, <1>2, <1>5, <2>1, <2>2, <2>3 DEF MarketRefs
<1>8. QED  BY <1>6, <1>7

LEMMA MarketReleased ==
    ASSUME ServerAssumption, SnapshotInv, MarketRefs, NEW t \in Threads, Others(t), Release(t)
    PROVE  MarketRefs' /\ market_ref_count \in {1, 2}
<1>0. /\ Typed /\ pc = [u \in Threads |-> pc[u]] /\ local \in [Threads -> Locals] /\ Main \in Threads
      /\ local[t].ret \in Returns
  BY StateTyped, LocalsTyped DEF Typed, Threads
<1>1. /\ pc[t] = "release" /\ freed' = freed /\ market_ref_count' = market_ref_count - 1
      /\ market_ref_count = 1 => pc'[t] = "close"
      /\ market_ref_count # 1 => /\ pc'[t] = IF local[t].n > 1 THEN "release" ELSE local[t].ret
                                 /\ local'[t].n = local[t].n - 1
  BY <1>0 DEF Release, Goto, SetN, At, Locals
<1>2. local[t].ret # "release" /\ local[t].ret # "destroy_arena"
  BY <1>0 DEF Returns
<1>3. \A u \in Threads : u # t => /\ HoldsArena(u)' <=> HoldsArena(u)
                                  /\ pc'[u] = "release" <=> pc[u] = "release"
                                  /\ local'[u] = local[u]
                                  /\ pc'[u] \in Marked <=> pc[u] \in Marked
  BY HoldersStay
<1>4. CASE HoldsArena(t)
  <2>1. freed /\ ArenaHeld /\ \A u \in Threads : u # t => ~HoldsArena(u)
    BY <1>4 DEF MarketRefs, ArenaHeld
  <2>2. CASE t = Main
    <3>1. local[t].n = 2 /\ MainHolds /\ market_ref_count = 2
      BY <1>1, <1>4, <2>1, <2>2 DEF HoldsArena, MainHolds, MarketRefs
    <3>2. pc'[t] = "release" /\ local'[t].n = 1 /\ market_ref_count' = 1
      BY <1>1, <3>1
    <3>3. ~HoldsArena(t)' /\ MainHolds'
      BY <2>2, <3>2 DEF HoldsArena, MainHolds
    <3>4. ~ArenaHeld'
      BY <1>1, <1>3, <2>1, <3>3 DEF ArenaHeld
    <3>5. QED  BY <1>1, <1>3, <2>1, <3>1, <3>2, <3>3, <3>4 DEF MarketRefs
  <2>3. CASE t # Main
    <3>1. local[t].n = 1 /\ market_ref_count \in {1, 2}
      BY <1>1, <2>1, <2>3 DEF MarketRefs
    <3>2. pc'[t] # "release"
      BY <1>1, <1>2, <3>1
    <3>3. ~HoldsArena(t)' /\ (MainHolds' <=> MainHolds)
      BY <1>0, <1>3, <2>3, <3>2 DEF HoldsArena, MainHolds, Marked
    <3>4. ~ArenaHeld'
      BY <1>1, <1>3, <2>1, <3>3 DEF ArenaHeld
    <3>5. market_ref_count' = (IF ArenaHeld' THEN 1 ELSE 0) + (IF MainHolds' THEN 1 ELSE 0)
      BY <1>1, <2>1, <3>3, <3>4 DEF MarketRefs
    <3>6. QED  BY <1>1, <1>3, <2>1, <3>1, <3>2, <3>3, <3>5 DEF MarketRefs
  <2>4. QED  BY <2>2, <2>3
<1>5. CASE ~HoldsArena(t)
  <2>1. t = Main /\ local[t].n = 1 /\ MainHolds /\ market_ref_count \in {1, 2}
    BY <1>1, <1>5 DEF HoldsArena, MainHolds, MarketRefs
  <2>2. pc'[t] # "release" /\ pc'[t] # "destroy_arena"
    BY <1>1, <1>2, <2>1
  <2>3. ~HoldsArena(t)' /\ ~MainHolds'
    BY <2>1, <2>2 DEF HoldsArena, MainHolds
  <2>4. \A u \in Threads : HoldsArena(u)' <=> HoldsArena(u)
    BY <1>3, <1>5, <2>3
  <2>5. ArenaHeld' <=> ArenaHeld
    BY <1>1, <2>4 DEF ArenaHeld
  <2>6. market_ref_count' = (IF ArenaHeld' THEN 1 ELSE 0) + (IF MainHolds' THEN 1 ELSE 0)
    BY <1>1, <2>1, <2>3, <2>5 DEF MarketRefs
  <2>7. QED  BY <1>1, <1>3, <2>1, <2>2, <2>4, <2>6 DEF MarketRefs
<1>6. QED  BY <1>4, <1>5

(******************************************************************************)
(* The references to the server                                               *)
(******************************************************************************)

\* A worker that runs, or may still be launched.
HasRef(w) == IF pc[w] = "unborn" THEN my_state[w] = "init" ELSE pc[w] # "gone"

Refs == {w \in Workers : HasRef(w)}

Closers == {t \in Threads : pc[t] \in Closing}

Connected == theMarket \/ Closers # {}

ServerRefs ==
    /\ \A t \in Closers : local[t].n >= 1
    /\ \A t, u \in Closers : t = u
    /\ theMarket => Closers = {}
    /\ my_ref_count = Cardinality(Refs) + IF Connected THEN 1 ELSE 0

LEMMA RefsAreFinite ==
    ASSUME ServerAssumption
    PROVE  IsFiniteSet(Refs) /\ Cardinality(Refs) \in Nat
<1>1. Refs \in SUBSET Threads
  BY DEF Refs, Threads
<1>2. QED  BY <1>1, ThreadsAreFinite, FS_Subset, FS_CardinalityType

LEMMA RefStays ==
    ASSUME NEW t \in Threads, Others(t), NEW w \in Workers, w # t,
           my_state'[w] = "init" <=> my_state[w] = "init",
           ~(pc[w] = "unborn" /\ pc'[w] = "born")
    PROVE  HasRef(w)' <=> HasRef(w)
  BY DEF Others, HasRef, Threads

LEMMA CloserStays ==
    ASSUME NEW t \in Threads, Others(t), NEW u \in Threads, u # t
    PROVE  local'[u] = local[u] /\ (pc'[u] \in Closing <=> pc[u] \in Closing)
  BY DEF Others, Closing

\* A step that neither takes nor gives back a reference.
LEMMA RefsKept ==
    ASSUME ServerAssumption, ServerRefs, NEW t \in Threads, Others(t),
           pc[t] \notin Closing, pc'[t] \notin Closing,
           \A w \in Workers : HasRef(w)' <=> HasRef(w),
           theMarket' <=> theMarket, my_ref_count' = my_ref_count
    PROVE  ServerRefs'
<1>1. Refs' = Refs
  BY DEF Refs
<1>2. Closers' = Closers /\ \A u \in Closers : local'[u] = local[u]
  BY CloserStays DEF Closers
<1>3. Connected' <=> Connected
  BY <1>2 DEF Connected
<1>4. QED  BY <1>1, <1>2, <1>3 DEF ServerRefs

\* The usual case: no thread is launched, none ends, none is told to quit.
LEMMA RefsUntouched ==
    ASSUME ServerAssumption, SnapshotInv, ServerRefs, NEW t \in Threads, NEW where, Goto(t, where),
           Others(t), pc[t] \notin Closing \cup {"unborn", "gone"},
           where \notin Closing \cup {"unborn", "gone"},
           \A w \in Workers : my_state'[w] = "init" <=> my_state[w] = "init",
           theMarket' <=> theMarket, my_ref_count' = my_ref_count
    PROVE  ServerRefs'
<1>1. pc'[t] = where /\ \A u \in Threads \ {t} : pc'[u] = pc[u]
  BY StateTyped DEF Typed, Goto
<1>2. ASSUME NEW w \in Workers
      PROVE  HasRef(w)' <=> HasRef(w)
  <2>1. CASE w = t
    BY <1>1, <2>1 DEF HasRef
  <2>2. CASE w # t
    BY <1>1, <2>2, RefStays DEF Threads
  <2>3. QED  BY <2>1, <2>2
<1>3. QED  BY <1>1, <1>2, RefsKept

LEMMA WorkerRefs ==
    ASSUME ServerAssumption, SnapshotInv, ServerRefs, NEW t \in Workers, theMarket' <=> theMarket,
           \/ propagate_chain_reaction(t) \/ TestState(t) \/ TestSlack(t)
           \/ PrepareWait(t) \/ VerifyState(t) \/ GiveUnit(t) \/ Insert(t)
           \/ CancelWait(t) \/ CommitWait(t) \/ Cleanup(t) \/ Unref(t)
    PROVE  ServerRefs'
<1>0. /\ Typed /\ pc = [u \in Threads |-> pc[u]] /\ t \in Threads /\ Others(t)
  BY StateTyped, WorkerApart DEF Typed, Threads, Apart
<1>1. CASE Unref(t)
  <2>1. /\ pc[t] = "unref" /\ pc'[t] = "gone" /\ my_state' = my_state
        /\ my_ref_count' = my_ref_count - 1 /\ \A u \in Threads \ {t} : pc'[u] = pc[u]
    BY <1>0, <1>1 DEF Unref, Goto, At
  <2>2. Refs' = Refs \ {t} /\ t \in Refs
    BY <1>0, <2>1 DEF Refs, HasRef, Threads
  <2>3. Cardinality(Refs') = Cardinality(Refs) - 1
    BY <2>2, RefsAreFinite, FS_RemoveElement
  <2>4. Closers' = Closers /\ \A u \in Closers : local'[u] = local[u]
    BY <1>0, <2>1, CloserStays DEF Closers, Closing
  <2>5. Connected' <=> Connected
    BY <2>4 DEF Connected
  <2>6. QED  BY <2>1, <2>3, <2>4, <2>5, RefsAreFinite DEF ServerRefs
<1>2. CASE ~Unref(t)
  <2>1. /\ pc[t] \in {"born", "woken", "loop", "slack", "prepare", "announce", "verify", "insert",
                      "inserting", "cancel", "commit", "sleep", "cleanup"}
        /\ \E where : /\ Goto(t, where)
                      /\ where \notin Closing \cup {"unborn", "gone"}
        /\ my_state' = my_state /\ my_ref_count' = my_ref_count
    <3>1. CASE propagate_chain_reaction(t) \/ TestState(t) \/ TestSlack(t) \/ VerifyState(t)
      BY <3>1 DEF propagate_chain_reaction, TestState, TestSlack, VerifyState, Call, At, server, Closing
    <3>2. CASE PrepareWait(t) \/ CancelWait(t) \/ CommitWait(t)
      BY <3>2 DEF PrepareWait, CancelWait, CommitWait, At, Closing
    <3>3. CASE GiveUnit(t) \/ Insert(t) \/ Cleanup(t)
      BY <3>3 DEF GiveUnit, Insert, Cleanup, At, Closing
    <3>4. QED  BY <1>2, <3>1, <3>2, <3>3
  <2>2. pc[t] \notin Closing \cup {"unborn", "gone"}
    BY <2>1 DEF Closing
  <2>3. PICK where : Goto(t, where) /\ where \notin Closing \cup {"unborn", "gone"}
    BY <2>1
  <2>4. QED  BY <1>0, <2>1, <2>2, <2>3, RefsUntouched
<1>3. QED  BY <1>1, <1>2

LEMMA WakingRefs ==
    ASSUME ServerAssumption, SnapshotInv, ServerRefs, NEW t \in Threads, theMarket' <=> theMarket,
           adjust_job_count_estimate(t) \/ LockList(t) \/ ClaimUnit(t) \/ Rouse(t) \/ Roused(t)
    PROVE  ServerRefs'
<1>0. /\ Typed /\ pc = [u \in Threads |-> pc[u]] /\ local[t].ret \in Returns /\ Others(t)
      /\ my_state = [w \in Workers |-> my_state[w]]
  BY StateTyped, LocalsTyped, ServerApart DEF Typed, Apart, ServerStep
<1>1. CASE adjust_job_count_estimate(t) \/ LockList(t) \/ ClaimUnit(t)
  <2>1. /\ pc[t] \in {"estimate", "wake", "claim"}
        /\ my_state' = my_state /\ my_ref_count' = my_ref_count
        /\ pc' = pc \/ Goto(t, "wake") \/ Goto(t, "claim") \/ Goto(t, "rouse") \/ Goto(t, local[t].ret)
    BY <1>1 DEF adjust_job_count_estimate, LockList, ClaimUnit, At
  <2>2. Goto(t, pc'[t]) /\ pc'[t] \notin Closing \cup {"unborn", "gone"}
    <3>1. CASE pc' = pc
      BY <1>0, <2>1, <3>1 DEF Goto, Closing
    <3>2. CASE pc' # pc
      BY <1>0, <2>1, <3>2 DEF Goto, Closing, Returns
    <3>3. QED  BY <3>1, <3>2
  <2>3. PICK where : Goto(t, where) /\ where \notin Closing \cup {"unborn", "gone"}
    BY <2>2
  <2>4. pc[t] \notin Closing \cup {"unborn", "gone"}
    BY <2>1 DEF Closing
  <2>5. QED  BY <1>0, <2>1, <2>3, <2>4, RefsUntouched
<1>2. CASE Rouse(t)
  <2> DEFINE w == Last(local[t].wakees)
  <2>1. CASE local[t].wakees # <<>> /\ my_state[w] = "init"
    <3>1. w \in Workers /\ w \in Threads
      BY <1>0, <2>1, LastWakee DEF Threads
    <3>2. /\ pc[t] = "rouse" /\ pc' = [pc EXCEPT ![t] = "launched", ![w] = "born"]
          /\ my_state' = [my_state EXCEPT ![w] = "starting"] /\ my_ref_count' = my_ref_count
      BY <1>2, <2>1 DEF Rouse, At
    <3>3. PICK v \in Workers : v = w /\ v \in Threads
      BY <3>1
    <3> HIDE DEF w
    <3>4. my_state[v] = "init" /\ pc[v] = "unborn" /\ v # t
      BY <2>1, <3>2, <3>3 DEF SnapshotInv, NotLaunched, At
    <3>5. /\ pc'[t] = "launched" /\ pc'[v] = "born" /\ my_state'[v] = "starting"
          /\ \A u \in Threads \ {t, v} : pc'[u] = pc[u]
          /\ \A u \in Workers \ {v} : my_state'[u] = my_state[u]
      BY <1>0, <3>2, <3>3, <3>4
    <3>6. ASSUME NEW u \in Workers
          PROVE  HasRef(u)' <=> HasRef(u)
      <4>1. CASE u = v
        BY <3>4, <3>5, <4>1 DEF HasRef
      <4>2. CASE u = t
        BY <3>2, <3>5, <4>2 DEF HasRef
      <4>3. CASE u # v /\ u # t
        BY <3>5, <4>3 DEF HasRef, Threads
      <4>4. QED  BY <4>1, <4>2, <4>3
    <3>7. pc[t] \notin Closing /\ pc'[t] \notin Closing
      BY <3>2, <3>5 DEF Closing
    <3>8. QED  BY <1>0, <3>2, <3>6, <3>7, RefsKept
  <2>2. CASE ~(local[t].wakees # <<>> /\ my_state[w] = "init")
    <3>1. /\ pc[t] = "rouse" /\ my_state' = my_state /\ my_ref_count' = my_ref_count
      BY <1>2, <2>2 DEF Rouse, At
    <3>2. PICK where : Goto(t, where) /\ where \notin Closing \cup {"unborn", "gone"}
      BY <1>0, <1>2, <2>2 DEF Rouse, Returns, Closing
    <3>3. pc[t] \notin Closing \cup {"unborn", "gone"}
      BY <3>1 DEF Closing
    <3>4. QED  BY <1>0, <3>1, <3>2, <3>3, RefsUntouched
  <2>3. QED  BY <2>1, <2>2
<1>3. CASE Roused(t)
  <2>1. /\ pc[t] \in {"launched", "signal"} /\ Goto(t, "rouse") /\ my_ref_count' = my_ref_count
    BY <1>3 DEF Roused, At
  <2>2. \A w \in Workers : my_state'[w] = "init" <=> my_state[w] = "init"
    BY <1>0, <1>3 DEF Roused
  <2>3. pc[t] \notin Closing \cup {"unborn", "gone"} /\ "rouse" \notin Closing \cup {"unborn", "gone"}
    BY <2>1 DEF Closing
  <2>4. QED  BY <1>0, <2>1, <2>2, <2>3, RefsUntouched
<1>4. QED  BY <1>1, <1>2, <1>3

\* The workers are told to quit, one after the other.
LEMMA ClosingRefs ==
    ASSUME ServerAssumption, SnapshotInv, ServerRefs, NEW t \in Threads, theMarket' <=> theMarket,
           StartShutdown(t) \/ NotifyShutdown(t) \/ CloseConnection(t)
    PROVE  ServerRefs'
<1>0. /\ Typed /\ pc = [u \in Threads |-> pc[u]] /\ local \in [Threads -> Locals] /\ Others(t)
      /\ my_state = [w \in Workers |-> my_state[w]] /\ local[t].ret \in Returns /\ local[t].n \in Int
  BY StateTyped, LocalsTyped, ServerApart DEF Typed, Apart, ServerStep
<1>1. pc[t] \in Closing /\ t \in Closers
  BY DEF StartShutdown, NotifyShutdown, CloseConnection, At, Closing, Closers
<1>2. Closers = {t} /\ ~theMarket /\ Connected /\ local[t].n >= 1
  BY <1>1 DEF ServerRefs, Connected
<1>3. \A u \in Threads \ {t} : local'[u] = local[u] /\ (pc'[u] \in Closing <=> pc[u] \in Closing)
  BY <1>0, CloserStays
<1>4. CASE CloseConnection(t)
  <2>1. /\ pc'[t] = local[t].ret /\ my_ref_count' = my_ref_count - 1 /\ my_state' = my_state
        /\ \A u \in Threads \ {t} : pc'[u] = pc[u]
    BY <1>0, <1>4 DEF CloseConnection, Goto
  <2>2. pc'[t] \notin Closing \cup {"unborn", "gone"}
    BY <1>0, <2>1 DEF Closing, Returns
  <2>3. \A w \in Workers : HasRef(w)' <=> HasRef(w)
    BY <1>1, <2>1, <2>2 DEF HasRef, Closing, Threads
  <2>4. Refs' = Refs
    BY <2>3 DEF Refs
  <2>5. Closers' = {}
    BY <1>2, <1>3, <2>2 DEF Closers
  <2>6. ~Connected'
    BY <1>2, <2>5 DEF Connected
  <2>7. QED  BY <1>2, <2>1, <2>4, <2>5, <2>6, RefsAreFinite DEF ServerRefs
<1>5. CASE NotifyShutdown(t)
  <2>1. /\ pc'[t] \in Closing /\ my_ref_count' = my_ref_count /\ my_state' = my_state
        /\ \A u \in Threads \ {t} : pc'[u] = pc[u]
        /\ local'[t].n \in {local[t].n, local[t].n + 1}
    BY <1>0, <1>5 DEF NotifyShutdown, Goto, SetN, Closing, Locals
  <2>2. \A w \in Workers : HasRef(w)' <=> HasRef(w)
    BY <1>1, <2>1 DEF HasRef, Closing, Threads
  <2>3. Refs' = Refs
    BY <2>2 DEF Refs
  <2>4. Closers' = {t}
    BY <1>2, <1>3, <2>1 DEF Closers
  <2>5. Connected'
    BY <2>4 DEF Connected
  <2>6. local'[t].n >= 1
    BY <1>0, <1>2, <2>1
  <2>7. QED  BY <1>2, <2>1, <2>3, <2>4, <2>5, <2>6 DEF ServerRefs
<1>6. CASE StartShutdown(t)
  <2>1. PICK i \in Int : i = local[t].n /\ i >= 1 /\ i <= my_n_thread
    BY <1>0, <1>2, <1>6 DEF StartShutdown
  <2>2. PICK w \in Workers : w = my_thread_array[i]
    BY <2>1, ArrayIsASequence, ElementOfSeq DEF ServerAssumption, my_n_thread
  <2>3. /\ my_state' = [my_state EXCEPT ![w] = "quit"]
        /\ my_state[w] = "init" => /\ my_ref_count' = my_ref_count - 1 /\ SetN(t, i + 1)
                                   /\ pc' = pc
        /\ my_state[w] # "init" => /\ my_ref_count' = my_ref_count /\ local' = local
                                   /\ Goto(t, "close_notify")
    BY <1>6, <2>1, <2>2 DEF StartShutdown
  <2>4. my_state'[w] = "quit" /\ \A u \in Workers \ {w} : my_state'[u] = my_state[u]
    BY <1>0, <2>3
  <2>5. pc'[t] \in Closing /\ \A u \in Threads \ {t} : pc'[u] = pc[u]
    BY <1>0, <1>1, <2>3 DEF Goto, Closing
  <2>6. local'[t].n >= 1
    BY <1>0, <2>1, <2>3 DEF SetN, Locals
  <2>7. Closers' = {t}
    BY <1>2, <1>3, <2>5 DEF Closers
  <2>8. Connected'
    BY <2>7 DEF Connected
  <2>9. \A u \in Workers \ {w} : HasRef(u)' <=> HasRef(u)
    BY <1>1, <2>4, <2>5 DEF HasRef, Closing, Threads
  <2>10. my_ref_count' = Cardinality(Refs') + 1
    <3>1. CASE my_state[w] = "init"
      <4>1. pc[w] = "unborn" /\ pc' = pc /\ my_ref_count' = my_ref_count - 1
        BY <2>3, <3>1 DEF SnapshotInv, NotLaunched, At
      <4>2. HasRef(w) /\ ~HasRef(w)'
        BY <2>4, <3>1, <4>1 DEF HasRef
      <4>3. Refs' = Refs \ {w} /\ w \in Refs
        BY <2>9, <4>2 DEF Refs
      <4>4. Cardinality(Refs') = Cardinality(Refs) - 1
        BY <4>3, RefsAreFinite, FS_RemoveElement
      <4>5. QED  BY <1>2, <4>1, <4>4, RefsAreFinite DEF ServerRefs
    <3>2. CASE my_state[w] # "init"
      <4>1. HasRef(w)' <=> HasRef(w)
        <5>1. CASE w = t
          BY <1>1, <2>5, <5>1 DEF HasRef, Closing
        <5>2. CASE w # t
          BY <2>4, <2>5, <3>2, <5>2 DEF HasRef, Threads
        <5>3. QED  BY <5>1, <5>2
      <4>2. Refs' = Refs
        BY <2>9, <4>1 DEF Refs
      <4>3. QED  BY <1>2, <2>3, <3>2, <4>2 DEF ServerRefs
    <3>3. QED  BY <3>1, <3>2
  <2>11. QED  BY <1>2, <2>6, <2>7, <2>8, <2>10 DEF ServerRefs
<1>7. QED  BY <1>4, <1>5, <1>6

LEMMA ServerKeepsRefs ==
    ASSUME ServerAssumption, SnapshotInv, ServerRefs, NEW t \in Threads, UNCHANGED elsewhere,
           ServerStep(t)
    PROVE  ServerRefs'
<1>1. theMarket' <=> theMarket
  BY DEF elsewhere, lifetime, theMarket
<1>2. QED  BY <1>1, WorkerRefs, WakingRefs, ClosingRefs DEF ServerStep

\* The last reference to the market is the connection's.
LEMMA ReleaseCloses ==
    ASSUME ServerAssumption, SnapshotInv, MarketRefs, ServerRefs, NEW t \in Threads, Others(t),
           Release(t)
    PROVE  ServerRefs'
<1>0. /\ Typed /\ pc = [u \in Threads |-> pc[u]] /\ local \in [Threads -> Locals]
      /\ local[t].ret \in Returns
  BY StateTyped, LocalsTyped DEF Typed
<1>1. /\ pc[t] = "release" /\ market_ref_count' = market_ref_count - 1
      /\ my_state' = my_state /\ my_ref_count' = my_ref_count
      /\ market_ref_count = 1 => Goto(t, "close") /\ local'[t].n = 1
      /\ market_ref_count # 1 => Goto(t, "release") \/ Goto(t, local[t].ret)
  BY <1>0 DEF Release, SetN, At, Locals, server
<1>2. CASE market_ref_count = 1
  <2>1. theMarket /\ ~theMarket' /\ Closers = {}
    BY <1>1, <1>2 DEF theMarket, ServerRefs
  <2>2. pc'[t] = "close" /\ local'[t].n = 1 /\ \A u \in Threads \ {t} : pc'[u] = pc[u]
    BY <1>0, <1>1, <1>2 DEF Goto
  <2>3. Closers' = {t}
    BY <2>1, <2>2 DEF Closers, Closing
  <2>4. \A w \in Workers : HasRef(w)' <=> HasRef(w)
    BY <1>1, <2>2 DEF HasRef, Threads
  <2>5. Refs' = Refs
    BY <2>4 DEF Refs
  <2>6. Connected /\ Connected'
    BY <2>1, <2>3 DEF Connected
  <2>7. QED  BY <1>1, <2>1, <2>2, <2>3, <2>5, <2>6 DEF ServerRefs
<1>3. CASE market_ref_count # 1
  <2>1. market_ref_count = 2
    BY <1>3, MarketReleased
  <2>2. theMarket' <=> theMarket
    BY <1>1, <2>1 DEF theMarket
  <2>3. PICK where : Goto(t, where) /\ where \notin Closing \cup {"unborn", "gone"}
    BY <1>0, <1>1, <1>3 DEF Returns, Closing
  <2>4. pc[t] \notin Closing \cup {"unborn", "gone"}
    BY <1>1 DEF Closing
  <2>5. QED  BY <1>1, <2>2, <2>3, <2>4, RefsUntouched
<1>4. QED  BY <1>2, <1>3

LEMMA DestroyKeepsRefs ==
    ASSUME ServerAssumption, SnapshotInv, MarketRefs, ServerRefs, NEW t \in Threads, Others(t),
           TryDestroy(t) \/ TryDestroyArena(t)
    PROVE  ServerRefs'
<1>1. /\ pc[t] \in {"destroy", "destroy_arena"} /\ my_state' = my_state /\ my_ref_count' = my_ref_count
      /\ \E where \in {"destroy_arena", "release", AfterLeaving(t)} : Goto(t, where)
  BY DEF TryDestroy, TryDestroyArena, Call, At, server
<1>2. theMarket' <=> theMarket
  <2>1. market_ref_count \in Nat
    BY DEF MarketRefs
  <2>2. \/ market_ref_count' = market_ref_count + IF t = Main /\ theMarket THEN 1 ELSE 0
        \/ market_ref_count' = market_ref_count
    BY DEF TryDestroy, TryDestroyArena
  <2>3. QED  BY <2>1, <2>2 DEF theMarket
<1>3. PICK where : Goto(t, where) /\ where \notin Closing \cup {"unborn", "gone"}
  BY <1>1 DEF AfterLeaving, Closing
<1>4. pc[t] \notin Closing \cup {"unborn", "gone"}
  BY <1>1 DEF Closing
<1>5. QED  BY <1>1, <1>2, <1>3, <1>4, RefsUntouched

\* The arena, the market and the server are kept by their references.
EndInv == ArenaInv /\ MarketRefs /\ ServerRefs

LEMMA NextEnd ==
    ASSUME ServerAssumption, MarketAssumption, SnapshotInv, DemandInv, EndInv, [Next]_vars
    PROVE  EndInv'
<1>0. ArenaInv /\ MarketRefs /\ ServerRefs /\ freed \in BOOLEAN
  BY DEF EndInv, ArenaInv, Freed
<1>1. ASSUME NEW t \in Threads, ThreadStep(t) \/ Spawn(t) \/ SpawnUnfenced(t)
      PROVE  MarketRefs' /\ ServerRefs'
  <2>1. CASE ServerStep(t) /\ UNCHANGED <<my_pool_state, demand, lifetime, work>>
    <3>1. Others(t) /\ pc[t] \notin Marked /\ pc'[t] \notin Marked
          /\ UNCHANGED <<freed, market_ref_count>>
      BY <2>1, ServerApart, ServerElsewhere DEF Apart, lifetime
    <3>2. QED  BY <1>0, <2>1, <3>1, MarketKept, ServerKeepsRefs DEF elsewhere
  <2>2. CASE TryDestroy(t) \/ TryDestroyArena(t) \/ Release(t)
    <3>1. Others(t)
      BY <2>2, ArenaApart DEF Apart
    <3>2. MarketRefs'
      BY <1>0, <2>2, <3>1, DestroyTried, ArenaGivenUp, MarketReleased
    <3>3. ServerRefs'
      BY <1>0, <2>2, <3>1, DestroyKeepsRefs, ReleaseCloses
    <3>4. QED  BY <3>2, <3>3
  <2>3. CASE \/ Spawn(t) \/ SpawnUnfenced(t) \/ Store(t) \/ Advertise(t) \/ MarkFull(t)
             \/ MarkEmptyFull(t)
             \/ adjust_demand(t)
             \/ t = Main /\ (MasterTakes \/ MasterLeaves)
             \/ t \in Workers /\ (WorkerTakes(t) \/ EndTask(t) \/ SeekArena(t) \/ EnterArena(t)
                                  \/ Relinquish(t) \/ LoopEnds(t) \/ WorkerLeaves(t)
                                  \/ SnapshotBegins(t) \/ Scan(t) \/ UndoSnapshot(t)
                                  \/ SnapshotEnds(t))
    <3>1. /\ pc[t] \notin Marked \cup Closing \cup {"unborn", "gone"}
          /\ pc'[t] \notin Marked \cup Closing \cup {"unborn", "gone"}
          /\ UNCHANGED <<server, freed, market_ref_count>>
      BY <2>3, ArenaElsewhere
    <3>2. Others(t)
      <4>1. CASE adjust_demand(t)
        BY <4>1, DemandIsTold DEF EndInv
      <4>2. CASE \/ MarkFull(t) \/ MarkEmptyFull(t)
                 \/ t \in Workers /\ (SnapshotBegins(t) \/ Scan(t) \/ UndoSnapshot(t)
                                      \/ SnapshotEnds(t))
        BY <4>2, StateMarked
      <4>3. CASE ~\/ adjust_demand(t) \/ MarkFull(t) \/ MarkEmptyFull(t)
                  \/ t \in Workers /\ (SnapshotBegins(t) \/ Scan(t) \/ UndoSnapshot(t)
                                       \/ SnapshotEnds(t))
        BY <2>3, <4>3, ArenaApart DEF Apart
      <4>4. QED  BY <4>1, <4>2, <4>3
    <3>3. MarketRefs'
      BY <1>0, <3>1, <3>2, MarketKept
    <3>4. ServerRefs'
      <4>1. ASSUME NEW w \in Workers
            PROVE  HasRef(w)' <=> HasRef(w)
        <5>1. CASE w = t
          BY <3>1, <5>1 DEF HasRef
        <5>2. CASE w # t
          <6>1. my_state'[w] = my_state[w] /\ (pc'[w] = pc[w] \/ (pc[w] = "unborn" /\ pc'[w] = "born"))
            BY <3>1, <3>2, <5>2 DEF server, Others, Threads
          <6>2. ~(pc[w] = "unborn" /\ pc'[w] = "born")
            <7>1. Goto(t, pc'[t])
              BY <2>3, StateTyped
                 DEF Spawn, SpawnUnfenced, Store, Advertise, MarkFull, MarkEmptyFull, adjust_demand,
                     MasterTakes, MasterLeaves, WorkerTakes, EndTask, SeekArena, EnterArena, Relinquish,
                     LoopEnds, WorkerLeaves, SnapshotBegins, Scan, UndoSnapshot, SnapshotEnds, Call,
                     Goto, Typed
            <7>2. QED  BY <5>2, <7>1, StateTyped DEF Goto, Typed, Threads
          <6>3. QED  BY <6>1, <6>2 DEF HasRef
        <5>3. QED  BY <5>1, <5>2
      <4>2. theMarket' <=> theMarket
        BY <3>1 DEF theMarket
      <4>3. QED  BY <1>0, <3>1, <3>2, <4>1, <4>2, RefsKept DEF server
    <3>5. QED  BY <3>3, <3>4
  <2>4. QED  BY <1>1, <2>1, <2>2, <2>3 DEF ThreadStep
<1>2. ASSUME UNCHANGED vars
      PROVE  MarketRefs' /\ ServerRefs'
  <2>1. UNCHANGED <<pc, local, freed, market_ref_count, my_ref_count, my_state>>
    BY <1>2 DEF vars, server, lifetime
  <2>2. \A u \in Threads : HoldsArena(u)' <=> HoldsArena(u)
    BY <2>1 DEF HoldsArena
  <2>3. /\ ArenaHeld' <=> ArenaHeld
        /\ MainHolds' <=> MainHolds
    BY <2>1, <2>2 DEF ArenaHeld, MainHolds
  <2>4. MarketRefs'
    BY <1>0, <2>1, <2>2, <2>3 DEF MarketRefs
  <2>5. Refs' = Refs /\ Closers' = Closers /\ (theMarket' <=> theMarket)
    BY <2>1 DEF Refs, HasRef, Closers, theMarket
  <2>6. Connected' <=> Connected
    BY <2>5 DEF Connected
  <2>7. ServerRefs'
    BY <1>0, <2>1, <2>5, <2>6 DEF ServerRefs
  <2>8. QED  BY <2>4, <2>7
<1>3. MarketRefs' /\ ServerRefs'
  BY <1>1, <1>2 DEF Next, Terminated
<1>4. ArenaInv'
  BY <1>0, NextArena
<1>5. QED  BY <1>3, <1>4 DEF EndInv

LEMMA WorkersCounted ==
    ASSUME ServerAssumption
    PROVE  my_n_thread \in Nat /\ IsFiniteSet(Workers) /\ Cardinality(Workers) = my_n_thread
<1>1. my_n_thread \in Nat /\ DOMAIN my_thread_array = 1 .. my_n_thread
  BY ArrayIsASequence
<1>2. my_thread_array \in Bijection(1 .. my_n_thread, Workers)
  <2>1. my_thread_array \in [1 .. my_n_thread -> Workers]
    BY <1>1 DEF ServerAssumption, my_n_thread
  <2>2. \A w \in Workers : \E i \in 1 .. my_n_thread : my_thread_array[i] = w
    BY <1>1 DEF ServerAssumption, Range
  <2>3. \A i, j \in 1 .. my_n_thread : my_thread_array[i] = my_thread_array[j] => i = j
    BY <1>1 DEF ServerAssumption, IsInjective
  <2>4. QED  BY <2>1, <2>2, <2>3 DEF Bijection, Injection, Surjection
<1>3. IsFiniteSet(1 .. my_n_thread) /\ Cardinality(1 .. my_n_thread) = my_n_thread
  BY <1>1, FS_Interval
<1>4. ExistsBijection(1 .. my_n_thread, Workers)
  BY <1>2 DEF ExistsBijection
<1>5. IsFiniteSet(Workers) /\ Cardinality(Workers) = Cardinality(1 .. my_n_thread)
  BY <1>3, <1>4, FS_Bijection
<1>6. QED  BY <1>1, <1>3, <1>5

LEMMA InitEnd ==
    ASSUME ServerAssumption, Init
    PROVE  EndInv
<1>1. /\ pc = [t \in Threads |-> IF t = Main THEN "main" ELSE "unborn"]
      /\ Main \in Threads /\ Main \notin Workers
      /\ my_state = [w \in Workers |-> "init"] /\ my_ref_count = my_n_thread + 1
      /\ freed = FALSE /\ market_ref_count = 1
  BY DEF Init, ServerInit, Threads, ServerAssumption
<1>2. MarketRefs
  <2>1. \A t \in Threads : pc[t] \notin Marked /\ pc[t] # "release"
    BY <1>1 DEF Marked
  <2>2. ArenaHeld /\ ~MainHolds /\ \A t \in Threads : ~HoldsArena(t)
    BY <1>1, <2>1 DEF ArenaHeld, MainHolds, HoldsArena, Marked
  <2>3. QED  BY <1>1, <2>1, <2>2 DEF MarketRefs
<1>3. ServerRefs
  <2>1. Refs = Workers
    BY <1>1 DEF Refs, HasRef, Threads
  <2>2. Closers = {}
    BY <1>1 DEF Closers, Closing
  <2>3. theMarket /\ Connected
    BY <1>1 DEF theMarket, Connected
  <2>4. Cardinality(Workers) = my_n_thread
    BY WorkersCounted
  <2>5. QED  BY <1>1, <2>1, <2>2, <2>3, <2>4 DEF ServerRefs
<1>4. QED  BY <1>2, <1>3, InitArena DEF EndInv

(******************************************************************************)
(* What follows from the demand, and types                                    *)
(******************************************************************************)

\* The market's demand and the arena's allotment follow from what the arena
\* requests.
Derived ==
    /\ workers_requested = IF my_num_workers_requested > 0 THEN my_num_workers_requested ELSE 0
    /\ my_num_workers_allotted = IF my_num_workers_requested <= 0 THEN 0
                                 ELSE Smaller(my_num_workers_requested, my_max_num_workers)

LEMMA NextDerived ==
    ASSUME SnapshotInv, Derived, [Next]_vars
    PROVE  Derived'
<1>0. my_num_workers_requested \in Int
  BY StateTyped
<1>1. ASSUME NEW t \in Threads, adjust_demand(t)
      PROVE  Derived'
  <2> DEFINE prev == my_num_workers_requested
             requested == prev + local[t].n
             delta == CASE requested <= 0 /\ prev > 0  -> -prev
                        [] requested <= 0 /\ prev <= 0 -> 0
                        [] requested > 0 /\ prev < 0   -> requested
                        [] OTHER                       -> local[t].n
  <2>1. local[t].n \in Int
    BY StateTyped, LocalsTyped
  <2>2. /\ my_num_workers_requested' = requested
        /\ workers_requested' = workers_requested + delta
        /\ my_num_workers_allotted' =
              IF requested <= 0 THEN 0 ELSE Smaller(requested, my_max_num_workers)
    BY <1>1 DEF adjust_demand
  <2>3. workers_requested' = IF requested > 0 THEN requested ELSE 0
    BY <1>0, <2>1, <2>2 DEF Derived
  <2>4. QED  BY <2>2, <2>3 DEF Derived, Smaller, my_max_num_workers, my_n_thread
<1>2. CASE UNCHANGED demand
  BY <1>2 DEF demand, Derived, Smaller, my_max_num_workers, my_n_thread
<1>3. ASSUME NEW t \in Threads, ThreadStep(t) \/ Spawn(t) \/ SpawnUnfenced(t), ~adjust_demand(t)
      PROVE  UNCHANGED demand
  <2>1. CASE t \in Workers /\ (WorkerTakes(t) \/ EndTask(t) \/ SeekArena(t) \/ EnterArena(t)
                               \/ Relinquish(t) \/ LoopEnds(t) \/ WorkerLeaves(t)
                               \/ SnapshotBegins(t) \/ Scan(t) \/ UndoSnapshot(t)
                               \/ SnapshotEnds(t))
    BY <2>1 DEF WorkerTakes, EndTask, SeekArena, EnterArena, Relinquish, LoopEnds, WorkerLeaves,
                SnapshotBegins, Scan, UndoSnapshot, SnapshotEnds
  <2>2. CASE \/ Spawn(t) \/ SpawnUnfenced(t) \/ Store(t) \/ Advertise(t) \/ MarkFull(t)
             \/ MarkEmptyFull(t)
             \/ TryDestroy(t) \/ TryDestroyArena(t) \/ Release(t) \/ MasterTakes \/ MasterLeaves
    BY <2>2 DEF Spawn, SpawnUnfenced, Store, Advertise, MarkFull, MarkEmptyFull, TryDestroy,
                TryDestroyArena, Release, MasterTakes, MasterLeaves
  <2>3. QED  BY <1>3, <2>1, <2>2 DEF ThreadStep
<1>4. UNCHANGED vars => UNCHANGED demand
  BY DEF vars
<1>5. QED  BY <1>1, <1>2, <1>3, <1>4 DEF Next, Terminated

LEMMA InitDerived ==
    ASSUME Init
    PROVE  Derived
  BY DEF Init, Derived

(* The arena is destroyed when nobody is in it, nothing is left to do and     *)
(* nobody is asked for, and not used again; and the server is destroyed by    *)
(* the last of its threads, after the arena and the market: what free_arena   *)
(* asserts, and the references of the arena, the market and the server are    *)
(* for.                                                                       *)
THEOREM KeptWhileUsed == Spec => []NothingUsedAfterFree
<1> DEFINE Inv == SnapshotInv /\ DemandInv /\ EndInv /\ Derived
<1>1. Init => Inv
  BY InitSnapshots, InitDemand, InitEnd, InitDerived, ServerAssumption
<1>2. Inv /\ [Next]_vars => Inv'
  BY NextSnapshots, NextDemand, NextEnd, NextDerived, ServerAssumption, MarketAssumption
<1>3. Inv => NothingUsedAfterFree
  <2>0. SUFFICES ASSUME Inv
                 PROVE  NothingUsedAfterFree
    OBVIOUS
  <2>1. Main \in Threads /\ \A w \in Workers : w \in Threads
    BY DEF Threads
  <2>2. ASSUME freed
        PROVE  /\ my_references = 0 /\ unfinished = 0
               /\ my_num_workers_requested = 0 /\ my_num_workers_allotted = 0
               /\ my_pool_state = "empty" \/ my_max_num_workers = 0
               /\ \A t \in Threads : ~InArena(t) /\ pc[t] # "admit"
    <3>1. /\ ~InArena(Main) /\ Inside = {} /\ Readers = {}
          /\ my_num_workers_requested = 0
          /\ my_pool_state = "empty" \/ my_max_num_workers = 0
      BY <2>0, <2>2 DEF EndInv, ArenaInv, Freed
    <3>2. my_references = 0 /\ unfinished = 0
      BY <2>0, <3>1, FS_EmptySet DEF EndInv, ArenaInv, Referenced, MasterIsLast, Counted
    <3>3. my_num_workers_allotted = 0
      BY <2>0, <3>1 DEF Derived
    <3>4. \A t \in Workers : ~InArena(t) /\ pc[t] # "admit"
      BY <3>1 DEF Inside, Readers, At
    <3>5. pc[Main] # "admit"
      BY <2>0, <2>1, ServerAssumption
         DEF EndInv, ArenaInv, ReturnsFit, Spawning, Waking, Closing
    <3>6. QED  BY <3>1, <3>2, <3>3, <3>4, <3>5 DEF Threads
  <2>3. ASSUME my_ref_count = 0
        PROVE  freed /\ \A t \in Threads : pc[t] \in {"unborn", "gone", "done", "destroy"}
    <3>1. ~Connected /\ Cardinality(Refs) = 0
      BY <2>0, <2>3, RefsAreFinite, ServerAssumption DEF EndInv, ServerRefs
    <3>2. Refs = {} /\ ~theMarket /\ Closers = {}
      BY <3>1, RefsAreFinite, FS_EmptySet, ServerAssumption DEF Connected
    <3>3. market_ref_count = (IF ArenaHeld THEN 1 ELSE 0) + (IF MainHolds THEN 1 ELSE 0)
      BY <2>0 DEF EndInv, MarketRefs
    <3>4. ~ArenaHeld /\ ~MainHolds
      BY <3>2, <3>3 DEF theMarket
    <3>5. freed
      BY <3>4 DEF ArenaHeld
    <3>6. \A t \in Workers : pc[t] \in {"unborn", "gone"}
      BY <3>2 DEF Refs, HasRef
    <3>7. pc[Main] \in {"destroy", "done"}
      <4>1. ~InArena(Main) /\ pc[Main] \notin Closing /\ pc[Main] \notin {"destroy_arena", "release"}
        BY <2>1, <2>2, <3>2, <3>4, <3>5 DEF Closers, MainHolds
      <4>2. ReturnsFit(Main)
        BY <2>0, <2>1 DEF EndInv, ArenaInv
      <4>3. QED  BY <4>1, <4>2 DEF ReturnsFit, InArena, ArenaPlaces, Spawning, Waking
    <3>8. QED  BY <3>5, <3>6, <3>7 DEF Threads
  <2>4. QED  BY <2>2, <2>3 DEF NothingUsedAfterFree, InArena, ArenaPlaces
<1> HIDE DEF Inv
<1>4. QED  BY <1>1, <1>2, <1>3, PTL DEF Spec

(******************************************************************************)
(* Types                                                                      *)
(******************************************************************************)

WorkerStates == {"init", "starting", "normal", "quit"}

\* What the counts of references and tasks do not say already.
TypesInv ==
    /\ monitor \in [Workers -> Monitors]
    /\ list_locked \in BOOLEAN
    /\ my_state \in [Workers -> WorkerStates]
    /\ spawned \in 0 .. MaxSpawns
    /\ unfinished <= spawned
    /\ unfenced \in SUBSET Threads

\* A monitor of which a step changes some parts.
LEMMA MonitorsKept ==
    ASSUME monitor \in [Workers -> Monitors], NEW w \in Workers,
           \/ UNCHANGED monitor \/ AdvanceEpoch(w) \/ Signal(w) \/ TakeCookie(w)
           \/ AnnounceWait(w) \/ cancel_wait(w) \/ Awake(w)
    PROVE  monitor' \in [Workers -> Monitors]
<1>1. monitor[w] \in Monitors
  OBVIOUS
<1>2. PICK m \in Monitors : m = monitor[w]
  BY <1>1
<1>3. /\ m.advanced \in BOOLEAN /\ m.in_wait \in BOOLEAN
      /\ m.spurious \in BOOLEAN /\ m.posted \in BOOLEAN
  BY DEF Monitors
<1>4. CASE UNCHANGED monitor
  BY <1>4
<1>5. CASE AdvanceEpoch(w)
  BY <1>5 DEF AdvanceEpoch, Monitors
<1>6. CASE Signal(w)
  BY <1>2, <1>3, <1>6 DEF Signal, Monitors
<1>7. CASE TakeCookie(w)
  BY <1>2, <1>3, <1>7 DEF TakeCookie, Monitors
<1>8. CASE AnnounceWait(w)
  BY <1>8 DEF AnnounceWait, Monitors
<1>9. CASE cancel_wait(w)
  BY <1>2, <1>3, <1>9 DEF cancel_wait, Monitors
<1>10. CASE Awake(w)
  BY <1>10 DEF Awake, Monitors
<1>11. QED  BY <1>4, <1>5, <1>6, <1>7, <1>8, <1>9, <1>10

LEMMA ServerTypes ==
    ASSUME ServerAssumption, SnapshotInv, SnapshotInv', ArenaInv, ServerRefs, TypesInv,
           NEW t \in Threads, ServerStep(t), UNCHANGED work
    PROVE  TypesInv'
<1>0. /\ monitor \in [Workers -> Monitors] /\ list_locked \in BOOLEAN
      /\ my_state \in [Workers -> WorkerStates]
      /\ my_state' = [w \in Workers |-> my_state'[w]]
  BY StateTyped DEF TypesInv, SnapshotInv, Typed
<1>1. UNCHANGED <<spawned, unfinished, unfenced>>
  BY DEF work
<1>2. CASE t \in Workers /\ (\/ propagate_chain_reaction(t) \/ TestState(t) \/ TestSlack(t)
                             \/ PrepareWait(t) \/ VerifyState(t) \/ GiveUnit(t) \/ Insert(t)
                             \/ CancelWait(t) \/ CommitWait(t) \/ Cleanup(t) \/ Unref(t))
  <2>1. my_state' = my_state /\ list_locked' \in BOOLEAN
    BY <1>0, <1>2 DEF propagate_chain_reaction, TestState, TestSlack, PrepareWait, VerifyState,
                      GiveUnit, Insert, CancelWait, CommitWait, Cleanup, Unref, server
  <2>2. \/ UNCHANGED monitor \/ TakeCookie(t) \/ AnnounceWait(t) \/ cancel_wait(t) \/ Awake(t)
    BY <1>2 DEF propagate_chain_reaction, TestState, TestSlack, PrepareWait, VerifyState,
                GiveUnit, Insert, CancelWait, CommitWait, Cleanup, Unref, server
  <2>3. monitor' \in [Workers -> Monitors]
    BY <1>0, <1>2, <2>2, MonitorsKept
  <2>4. QED  BY <1>0, <1>1, <2>1, <2>3 DEF TypesInv
<1>3. CASE adjust_job_count_estimate(t) \/ LockList(t) \/ ClaimUnit(t) \/ CloseConnection(t)
  <2>1. my_state' = my_state /\ monitor' = monitor /\ list_locked' \in BOOLEAN
    BY <1>0, <1>3 DEF adjust_job_count_estimate, LockList, ClaimUnit, CloseConnection
  <2>2. QED  BY <1>0, <1>1, <2>1 DEF TypesInv
<1>4. CASE Rouse(t)
  <2>1. list_locked' = list_locked
    BY <1>4 DEF Rouse
  <2>2. CASE local[t].wakees = <<>>
    BY <1>0, <1>1, <1>4, <2>1, <2>2 DEF Rouse, TypesInv
  <2>3. CASE local[t].wakees # <<>>
    <3>1. PICK w \in Workers : w = Last(local[t].wakees)
      BY <2>3, StateTyped, LastWakee
    <3>2. \/ my_state' = [my_state EXCEPT ![w] = "starting"] /\ UNCHANGED monitor
          \/ AdvanceEpoch(w) /\ UNCHANGED my_state
      BY <1>4, <2>3, <3>1 DEF Rouse
    <3>3. monitor' \in [Workers -> Monitors] /\ my_state' \in [Workers -> WorkerStates]
      BY <1>0, <3>2, MonitorsKept DEF WorkerStates
    <3>4. QED  BY <1>0, <1>1, <2>1, <3>3 DEF TypesInv
  <2>4. QED  BY <2>2, <2>3
<1>5. CASE Roused(t)
  <2>1. list_locked' = list_locked
    BY <1>5 DEF Roused
  <2> DEFINE w == Last(local[t].wakees)
  <2>2. CASE w \in Workers
    <3>1. my_state[w] \in WorkerStates
      BY <1>0, <2>2
    <3> HIDE DEF w
    <3>2. \/ my_state' = [my_state EXCEPT ![w] = IF @ = "starting" THEN "normal" ELSE @]
             /\ UNCHANGED monitor
          \/ Signal(w) /\ UNCHANGED my_state
      BY <1>5 DEF Roused, w
    <3>3. monitor' \in [Workers -> Monitors]
      BY <1>0, <2>2, <3>2, MonitorsKept
    <3>4. my_state' \in [Workers -> WorkerStates]
      BY <1>0, <2>2, <3>1, <3>2 DEF WorkerStates
    <3>5. QED  BY <1>0, <1>1, <2>1, <3>3, <3>4 DEF TypesInv
  <2>3. CASE w \notin Workers
    <3> HIDE DEF w
    <3>1. \/ my_state' = [my_state EXCEPT ![w] = IF @ = "starting" THEN "normal" ELSE @]
             /\ UNCHANGED monitor
          \/ Signal(w) /\ UNCHANGED my_state
      BY <1>5 DEF Roused, w
    <3>2. my_state' = my_state /\ monitor' = monitor
      BY <1>0, <2>3, <3>1 DEF Signal
    <3>3. QED  BY <1>0, <1>1, <2>1, <3>2 DEF TypesInv
  <2>4. QED  BY <2>2, <2>3
<1>6. CASE StartShutdown(t)
  <2>1. /\ pc[t] = "close" /\ local[t].n <= my_n_thread
        /\ my_state' = [my_state EXCEPT ![my_thread_array[local[t].n]] = "quit"]
        /\ UNCHANGED <<monitor, list_locked>>
    BY <1>6 DEF StartShutdown, At
  <2>2. QED  BY <1>0, <1>1, <2>1 DEF TypesInv, WorkerStates
<1>7. CASE NotifyShutdown(t)
  <2> DEFINE w == my_thread_array[local[t].n]
  <2>1. list_locked' = list_locked /\ my_state' = my_state
    BY <1>7 DEF NotifyShutdown
  <2>2. AdvanceEpoch(w) \/ Signal(w)
    BY <1>7 DEF NotifyShutdown
  <2> HIDE DEF w
  <2>3. CASE w \in Workers
    BY <1>0, <1>1, <2>1, <2>2, <2>3, MonitorsKept DEF TypesInv
  <2>4. CASE w \notin Workers
    BY <1>0, <1>1, <2>1, <2>2, <2>4 DEF TypesInv, AdvanceEpoch, Signal
  <2>5. QED  BY <2>3, <2>4
<1>8. QED
  BY <1>2, <1>3, <1>4, <1>5, <1>6, <1>7 DEF ServerStep

LEMMA NextTypes ==
    ASSUME ServerAssumption, MarketAssumption, SnapshotInv, SnapshotInv', EndInv, EndInv',
           TypesInv, [Next]_vars
    PROVE  TypesInv'
<1>1. CASE UNCHANGED vars
  <2>1. UNCHANGED <<monitor, list_locked, my_state, spawned, unfinished, unfenced>>
    BY <1>1 DEF vars, server, work
  <2>2. QED  BY <2>1 DEF TypesInv
<1>2. ASSUME NEW t \in Threads, ServerStep(t), UNCHANGED work
      PROVE  TypesInv'
  BY <1>2, ServerTypes DEF EndInv
<1>3. ASSUME NEW t \in Threads, UNCHANGED server,
             \/ Spawn(t) \/ SpawnUnfenced(t)
             \/ UNCHANGED <<spawned, unfinished>> /\ unfenced' \in SUBSET (unfenced \cup {t})
             \/ spawned' = spawned /\ unfinished' = unfinished - 1 /\ unfenced' \in SUBSET unfenced
      PROVE  TypesInv'
  <2>1. UNCHANGED <<monitor, list_locked, my_state>>
    BY <1>3 DEF server
  <2>2. unfinished \in Nat
    BY FS_CardinalityType DEF EndInv, ArenaInv, Counted
  <2>3. spawned' \in 0 .. MaxSpawns /\ unfinished' <= spawned' /\ unfenced' \in SUBSET Threads
    BY <1>3, <2>2 DEF Spawn, SpawnUnfenced, MaySpawn, NewTask, TypesInv, MarketAssumption
  <2>4. QED  BY <2>1, <2>3 DEF TypesInv
<1>4. ASSUME NEW t \in Threads, ThreadStep(t) \/ Spawn(t) \/ SpawnUnfenced(t)
      PROVE  TypesInv'
  <2>1. CASE Store(t) \/ Spawn(t) \/ SpawnUnfenced(t)
    BY <1>3, <2>1 DEF Store, Spawn, SpawnUnfenced
  <2>2. CASE \/ t = Main /\ MasterTakes
             \/ t \in Workers /\ (WorkerTakes(t) \/ EndTask(t))
    <3>1. UNCHANGED server
      BY <2>2 DEF MasterTakes, WorkerTakes, EndTask
    <3>2. unfenced' \in SUBSET unfenced
      BY <2>2 DEF MasterTakes, WorkerTakes, EndTask, TakeFrom
    <3>3. spawned' = spawned /\ (unfinished' = unfinished \/ unfinished' = unfinished - 1)
      BY <2>2 DEF MasterTakes, WorkerTakes, EndTask
    <3>4. QED  BY <1>3, <3>1, <3>2, <3>3
  <2>3. CASE ServerStep(t) /\ UNCHANGED work
    BY <1>2, <2>3
  <2>4. CASE \/ Advertise(t) \/ MarkFull(t) \/ MarkEmptyFull(t) \/ adjust_demand(t)
             \/ TryDestroy(t) \/ TryDestroyArena(t) \/ Release(t) \/ MasterLeaves
             \/ t \in Workers /\ (\/ SnapshotBegins(t) \/ Scan(t) \/ UndoSnapshot(t)
                                  \/ SnapshotEnds(t) \/ SeekArena(t) \/ EnterArena(t)
                                  \/ Relinquish(t) \/ LoopEnds(t) \/ WorkerLeaves(t))
    <3>1. UNCHANGED server /\ UNCHANGED work
      BY <2>4 DEF Advertise, MarkFull, MarkEmptyFull, adjust_demand, TryDestroy, TryDestroyArena,
                  Release, MasterLeaves, SnapshotBegins, Scan, UndoSnapshot, SnapshotEnds,
                  SeekArena, EnterArena, Relinquish, LoopEnds, WorkerLeaves
    <3>2. UNCHANGED <<spawned, unfinished>> /\ unfenced' \in SUBSET (unfenced \cup {t})
      BY <3>1 DEF work
    <3>3. QED  BY <1>3, <3>1, <3>2
  <2>5. QED  BY <1>4, <2>1, <2>2, <2>3, <2>4 DEF ThreadStep
<1>5. QED  BY <1>1, <1>4 DEF Next, Terminated

LEMMA InitTypes ==
    ASSUME MarketAssumption, Init
    PROVE  TypesInv
<1>1. /\ monitor = [w \in Workers |-> NewMonitor] /\ list_locked = FALSE
      /\ my_state = [w \in Workers |-> "init"]
      /\ spawned = 0 /\ unfinished = 0 /\ unfenced = {}
  BY DEF Init, ServerInit, MonitorInit
<1>2. NewMonitor \in Monitors
  BY DEF NewMonitor, Monitors
<1>3. monitor \in [Workers -> Monitors]
  BY <1>1, <1>2
<1>4. list_locked \in BOOLEAN /\ my_state \in [Workers -> WorkerStates]
  BY <1>1 DEF WorkerStates
<1>5. spawned \in 0 .. MaxSpawns /\ unfinished <= spawned
  BY <1>1 DEF MarketAssumption
<1>6. unfenced \in SUBSET Threads
  BY <1>1
<1>7. QED  BY <1>3, <1>4, <1>5, <1>6 DEF TypesInv

\* A pool has no more tasks than have not ended.
LEMMA PoolsBounded ==
    ASSUME SnapshotInv, Counted, NEW t \in Threads
    PROVE  tasks[t] <= unfinished
<1>1. PICK n \in Nat : n = tasks[t]
  BY StateTyped DEF Typed
<1> DEFINE seen == {<<t, i>> : i \in 1 .. n}
           f == [i \in 1 .. n |-> <<t, i>>]
<1>2. seen \in SUBSET Unended
  BY <1>1 DEF Unended
<1>3. f \in Bijection(1 .. n, seen)
  BY DEF Bijection, Injection, Surjection, IsInjective
<1>4. ExistsBijection(1 .. n, seen)
  BY <1>3 DEF ExistsBijection
<1>5. IsFiniteSet(1 .. n) /\ Cardinality(1 .. n) = n
  BY FS_Interval
<1> HIDE DEF seen
<1>6. Cardinality(seen) = n
  BY <1>4, <1>5, FS_Bijection
<1>7. Cardinality(seen) <= Cardinality(Unended)
  BY <1>2, FS_Subset DEF Counted
<1>8. QED  BY <1>1, <1>6, <1>7 DEF Counted

(* The counters and states of arena, market and server keep their types: the  *)
(* references and allotted workers are bounded by the number of workers, the  *)
(* tasks in a pool by the number of spawns.                                   *)
THEOREM TypeCorrect == Spec => []TypeOK
<1> DEFINE Inv == SnapshotInv /\ DemandInv /\ EndInv /\ Derived /\ TypesInv
<1>1. Init => Inv
  BY InitSnapshots, InitDemand, InitEnd, InitDerived, InitTypes, ServerAssumption, MarketAssumption
<1>2. Inv /\ [Next]_vars => Inv'
  <2> SUFFICES ASSUME Inv, [Next]_vars
               PROVE  Inv'
    OBVIOUS
  <2>1. SnapshotInv' /\ DemandInv' /\ EndInv' /\ Derived'
    BY NextSnapshots, NextDemand, NextEnd, NextDerived, ServerAssumption, MarketAssumption
  <2>2. QED  BY <2>1, NextTypes, ServerAssumption, MarketAssumption
<1>3. Inv => TypeOK
  <2> SUFFICES ASSUME Inv
               PROVE  TypeOK
    OBVIOUS
  <2>1. /\ my_n_thread \in Nat /\ IsFiniteSet(Workers) /\ Cardinality(Workers) = my_n_thread
    BY WorkersCounted, ServerAssumption
  <2>2. my_ref_count \in 0 .. my_n_thread + 1
    <3>1. Cardinality(Refs) \in Nat /\ Refs \in SUBSET Workers
      BY RefsAreFinite, ServerAssumption DEF Refs
    <3>2. Cardinality(Refs) <= my_n_thread
      BY <2>1, <3>1, FS_Subset
    <3>3. my_ref_count = Cardinality(Refs) + IF Connected THEN 1 ELSE 0
      BY DEF EndInv, ServerRefs
    <3>4. QED  BY <2>1, <3>1, <3>2, <3>3
  <2>3. my_references \in 0 .. 2 * my_n_thread + 1
    <3>1. IsFiniteSet(Inside) /\ Inside \in SUBSET Workers
      BY <2>1, FS_Subset DEF Inside
    <3>2. Cardinality(Inside) \in Nat /\ Cardinality(Inside) <= my_n_thread
      BY <2>1, <3>1, FS_Subset, FS_CardinalityType
    <3>3. my_references = (IF InArena(Main) THEN 1 ELSE 0) + 2 * Cardinality(Inside)
      BY DEF EndInv, ArenaInv, Referenced
    <3>4. QED  BY <2>1, <3>2, <3>3
  <2>4. unfinished \in Nat /\ unfinished <= spawned /\ spawned \in 0 .. MaxSpawns
    BY FS_CardinalityType DEF EndInv, ArenaInv, Counted, TypesInv
  <2>5. tasks \in [Threads -> 0 .. MaxSpawns]
    <3>1. tasks \in [Threads -> Nat]
      BY StateTyped DEF Typed
    <3>2. \A t \in Threads : tasks[t] \in 0 .. MaxSpawns
      BY <2>4, <3>1, PoolsBounded, MarketAssumption DEF EndInv, ArenaInv, MarketAssumption
    <3>3. QED  BY <3>1, <3>2
  <2>6. /\ my_num_workers_requested \in Int /\ my_num_workers_allotted \in 0 .. my_n_thread
        /\ workers_requested \in Nat
    <3>1. my_num_workers_requested \in Int
      BY StateTyped
    <3>2. QED  BY <2>1, <3>1 DEF Derived, Smaller, my_max_num_workers
  <2>7. market_ref_count \in 0 .. 2
    <3>1. market_ref_count = (IF ArenaHeld THEN 1 ELSE 0) + (IF MainHolds THEN 1 ELSE 0)
      BY DEF EndInv, MarketRefs
    <3>2. QED  BY <3>1
  <2>8. freed \in BOOLEAN
    BY DEF EndInv, ArenaInv, Freed
  <2>9. my_pool_state \in {"empty", "full"} \cup Workers /\ my_slack \in Int
        /\ asleep_list \in Seq(Workers)
    BY DEF SnapshotInv, Typed, PoolStates
  <2>10. QED
    BY <2>2, <2>3, <2>4, <2>5, <2>6, <2>7, <2>8, <2>9, MarketAssumption
       DEF TypesInv, TypeOK, Monitors, WorkerStates, MarketAssumption
<1> HIDE DEF Inv
<1>4. QED  BY <1>1, <1>2, <1>3, PTL DEF Spec

(******************************************************************************)
(* Sums                                                                       *)
(******************************************************************************)

LEMMA AllNaturals ==
    ASSUME NEW T \in SUBSET Nat, 0 \in T, \A n \in T : n + 1 \in T
    PROVE  T = Nat
<1>1. SUFFICES ASSUME Nat \ T # {}
               PROVE  FALSE
  OBVIOUS
<1> DEFINE R == OpToRel(<, Nat)
<1>2. PICK x \in Nat \ T : \A y \in Nat \ T : <<y, x>> \notin R
  <2>1. IsWellFoundedOn(R, Nat) /\ Nat \ T \subseteq Nat
    BY NatLessThanWellFounded
  <2> HIDE DEF R
  <2>2. QED  BY <1>1, <2>1, WFMin
<1> HIDE DEF R
<1>3. x \in Nat /\ x # 0
  BY <1>2
<1>4. x - 1 \in Nat /\ x - 1 < x /\ (x - 1) + 1 = x
  BY <1>3
<1>5. <<x - 1, x>> \in R
  BY <1>3, <1>4 DEF R, OpToRel
<1>6. QED  BY <1>2, <1>4, <1>5

\* The element of s that a sum begins with.
Chosen(s) == CHOOSE x \in s : TRUE

LEMMA ChosenIn ==
    ASSUME NEW s, s # {}
    PROVE  Chosen(s) \in s
  BY DEF Chosen

\* g has, for each subset of S in D, the sum of v.
Sums(g, v, D) ==
    \A s \in D : g[s] = IF s = {} THEN 0 ELSE v[Chosen(s)] + g[s \ {Chosen(s)}]

UpTo(S, n) == {s \in SUBSET S : Cardinality(s) <= n}

LEMMA OneLess ==
    ASSUME NEW S, IsFiniteSet(S), NEW n \in Nat, NEW s \in UpTo(S, n + 1), s # {}
    PROVE  /\ s \ {Chosen(s)} \in UpTo(S, n) /\ Chosen(s) \in S
           /\ Chosen(s) \in s
<1>1. IsFiniteSet(s) /\ Chosen(s) \in s
  BY ChosenIn, FS_Subset DEF UpTo
<1>2. Cardinality(s \ {Chosen(s)}) = Cardinality(s) - 1 /\ Cardinality(s) \in Nat
  BY <1>1, FS_RemoveElement, FS_CardinalityType
<1>3. QED  BY <1>1, <1>2 DEF UpTo

LEMMA EmptyUpTo ==
    ASSUME NEW S, IsFiniteSet(S), NEW s \in UpTo(S, 0)
    PROVE  s = {}
<1>1. IsFiniteSet(s) /\ Cardinality(s) \in Nat /\ Cardinality(s) <= 0
  BY FS_Subset, FS_CardinalityType DEF UpTo
<1>2. QED  BY <1>1, FS_EmptySet

LEMMA AllUpTo ==
    ASSUME NEW S, IsFiniteSet(S)
    PROVE  \E n \in Nat : UpTo(S, n) = SUBSET S
<1>1. Cardinality(S) \in Nat /\ \A s \in SUBSET S : Cardinality(s) <= Cardinality(S)
  BY FS_CardinalityType, FS_Subset
<1>2. QED  BY <1>1 DEF UpTo

\* The sums exist.
LEMMA SumsExist ==
    ASSUME NEW S, IsFiniteSet(S), NEW v \in [S -> Int]
    PROVE  \E g \in [SUBSET S -> Int] : Sums(g, v, SUBSET S)
<1> DEFINE T == {n \in Nat : \E g \in [UpTo(S, n) -> Int] : Sums(g, v, UpTo(S, n))}
<1>1. 0 \in T
  <2> DEFINE g == [s \in UpTo(S, 0) |-> 0]
  <2>1. g \in [UpTo(S, 0) -> Int] /\ Sums(g, v, UpTo(S, 0))
    BY EmptyUpTo DEF Sums
  <2> HIDE DEF g
  <2>2. QED  BY <2>1
<1>2. ASSUME NEW n \in T
      PROVE  n + 1 \in T
  <2>1. PICK g \in [UpTo(S, n) -> Int] : Sums(g, v, UpTo(S, n))
    OBVIOUS
  <2> DEFINE h == [s \in UpTo(S, n + 1) |->
                      IF s = {} THEN 0 ELSE v[Chosen(s)] + g[s \ {Chosen(s)}]]
  <2>2. h \in [UpTo(S, n + 1) -> Int]
    BY OneLess
  <2>3. UpTo(S, n) \subseteq UpTo(S, n + 1)
    <3>1. ASSUME NEW s \in UpTo(S, n)
          PROVE  s \in UpTo(S, n + 1)
      <4>1. s \in SUBSET S /\ Cardinality(s) <= n /\ Cardinality(s) \in Nat
        BY FS_Subset, FS_CardinalityType DEF UpTo
      <4>2. QED  BY <4>1 DEF UpTo
    <3>2. QED  BY <3>1
  <2>4. \A s \in UpTo(S, n) : h[s] = g[s]
    BY <2>1, <2>3 DEF Sums
  <2>5. Sums(h, v, UpTo(S, n + 1))
    BY <2>4, OneLess DEF Sums
  <2> HIDE DEF h
  <2>6. QED  BY <2>2, <2>5
<1> HIDE DEF T
<1>3. T = Nat
  <2>1. T \in SUBSET Nat
    BY DEF T
  <2>2. QED  BY <1>1, <1>2, <2>1, AllNaturals
<1>4. PICK n \in Nat : UpTo(S, n) = SUBSET S
  BY AllUpTo
<1>5. n \in T
  BY <1>3
<1>6. \E g \in [UpTo(S, n) -> Int] : Sums(g, v, UpTo(S, n))
  BY <1>5 DEF T
<1>7. QED  BY <1>4, <1>6

\* v and w differ in t at most.
Differ(v, w, S, t) == \A u \in S : u # t => w[u] = v[u]

\* And are changed by what changes in one element.
LEMMA SumsChange ==
    ASSUME NEW S, IsFiniteSet(S), NEW v \in [S -> Int], NEW w \in [S -> Int],
           NEW g, NEW h, Sums(g, v, SUBSET S), Sums(h, w, SUBSET S),
           NEW t \in S, Differ(v, w, S, t)
    PROVE  g[S] \in Int /\ h[S] = g[S] + (w[t] - v[t])
<1> DEFINE Changes(s) == /\ g[s] \in Int /\ h[s] \in Int
                         /\ h[s] = g[s] + IF t \in s THEN w[t] - v[t] ELSE 0
           T == {n \in Nat : \A s \in UpTo(S, n) : Changes(s)}
<1>0. \A s \in SUBSET S :
         /\ s = {} => g[s] = 0 /\ h[s] = 0
         /\ s # {} => /\ g[s] = v[Chosen(s)] + g[s \ {Chosen(s)}]
                      /\ h[s] = w[Chosen(s)] + h[s \ {Chosen(s)}]
  BY DEF Sums
<1>01. ASSUME NEW s \in SUBSET S, s = {}
       PROVE  Changes(s)
  <2>1. g[s] = 0 /\ h[s] = 0
    BY <1>0, <1>01
  <2>2. PICK d : d = IF t \in s THEN w[t] - v[t] ELSE 0
    OBVIOUS
  <2>3. d = 0
    BY <1>01, <2>2
  <2>4. h[s] = g[s] + d
    BY <2>1, <2>3
  <2>5. g[s] \in Int /\ h[s] \in Int
    BY <2>1
  <2>6. QED  BY <2>2, <2>4, <2>5
<1>1. 0 \in T
  <2>1. \A s \in UpTo(S, 0) : s \in SUBSET S /\ s = {}
    BY EmptyUpTo DEF UpTo
  <2>2. QED  BY <1>01, <2>1
<1>2. ASSUME NEW n \in T
      PROVE  n + 1 \in T
  <2>1. ASSUME NEW s \in UpTo(S, n + 1)
        PROVE  Changes(s)
    <3>1. CASE s = {}
      BY <1>01, <3>1 DEF UpTo
    <3>2. CASE s # {}
      <4>1. PICK x \in S : x = Chosen(s)
        BY <3>2, OneLess
      <4>2. x \in s /\ Changes(s \ {x})
        BY <3>2, <4>1, OneLess
      <4>3. g[s] = v[x] + g[s \ {x}] /\ h[s] = w[x] + h[s \ {x}]
        BY <1>0, <3>2, <4>1 DEF UpTo
      <4>4. v[x] \in Int /\ w[x] \in Int /\ v[t] \in Int /\ w[t] \in Int
        OBVIOUS
      <4>5. CASE x = t
        <5>1. g[s \ {x}] \in Int /\ h[s \ {x}] = g[s \ {x}]
          BY <4>2, <4>5
        <5>2. t \in s
          BY <4>2, <4>5
        <5>3. h[s] = g[s] + (w[t] - v[t]) /\ g[s] \in Int /\ h[s] \in Int
          BY <4>3, <4>4, <4>5, <5>1
        <5>4. QED  BY <5>2, <5>3
      <4>6. CASE x # t
        <5>1. w[x] = v[x] /\ (t \in s \ {x} <=> t \in s)
          BY <4>6 DEF Differ
        <5>2. PICK d : d = IF t \in s THEN w[t] - v[t] ELSE 0
          OBVIOUS
        <5>3. d \in Int
          BY <4>4, <5>2
        <5>4. h[s \ {x}] = g[s \ {x}] + d /\ g[s \ {x}] \in Int
          BY <4>2, <5>1, <5>2
        <5>5. h[s] = g[s] + d /\ g[s] \in Int /\ h[s] \in Int
          BY <4>3, <4>4, <5>1, <5>3, <5>4
        <5>6. QED  BY <5>2, <5>5
      <4>7. QED  BY <4>5, <4>6
    <3>3. QED  BY <3>1, <3>2
  <2>2. QED  BY <2>1
<1>3. T = Nat
  <2>1. T \in SUBSET Nat
    OBVIOUS
  <2> HIDE DEF T
  <2>2. QED  BY <1>1, <1>2, <2>1, AllNaturals
<1>4. \A s \in SUBSET S : Changes(s)
  BY <1>3, AllUpTo
<1>5. Changes(S) /\ t \in S
  BY <1>4
<1>6. QED  BY <1>5

(******************************************************************************)
(* The slack                                                                  *)
(******************************************************************************)

Holding == {"estimate", "wake", "claim"}

\* What threads at p with locals l still hold.
HeldBy(p, l) == [t \in Threads |-> IF p[t] \in Holding THEN l[t].n ELSE 0]

SumHeld(p, l) ==
    MapThenSumSet(LAMBDA t : IF p[t] \in {"estimate", "wake", "claim"} THEN l[t].n ELSE 0, Threads)

LEMMA SumHeldIs ==
    ASSUME ServerAssumption, NEW p, NEW l, HeldBy(p, l) \in [Threads -> Int]
    PROVE  \E g : Sums(g, HeldBy(p, l), SUBSET Threads) /\ SumHeld(p, l) = g[Threads]
<1> DEFINE Share(t) == IF p[t] \in {"estimate", "wake", "claim"} THEN l[t].n ELSE 0
           P(g) == g = [s \in SUBSET Threads |->
                          IF s = {} THEN 0 ELSE Share(Chosen(s)) + g[s \ {Chosen(s)}]]
           f == CHOOSE g : P(g)
<1>0. \A s \in SUBSET Threads : s # {} => HeldBy(p, l)[Chosen(s)] = Share(Chosen(s))
  BY ChosenIn DEF HeldBy, Holding
<1>1. PICK g \in [SUBSET Threads -> Int] : Sums(g, HeldBy(p, l), SUBSET Threads)
  BY SumsExist, ThreadsAreFinite
<1> HIDE DEF Share
<1>2. P(g)
  BY <1>0, <1>1 DEF Sums
<1>3. P(f)
  BY <1>2
<1> HIDE DEF f
<1>4. Sums(f, HeldBy(p, l), SUBSET Threads)
  BY <1>0, <1>3 DEF Sums
<1>5. SumHeld(p, l) = f[Threads]
  BY DEF SumHeld, MapThenSumSet, MapThenFoldSet, Share, f, Chosen
<1>6. QED  BY <1>4, <1>5

LEMMA HeldChanges ==
    ASSUME ServerAssumption,
           NEW p, NEW l, HeldBy(p, l) \in [Threads -> Int],
           NEW q, NEW m, HeldBy(q, m) \in [Threads -> Int],
           NEW t \in Threads, \A u \in Threads : u # t => HeldBy(q, m)[u] = HeldBy(p, l)[u]
    PROVE  /\ SumHeld(p, l) \in Int
           /\ SumHeld(q, m) = SumHeld(p, l) + (HeldBy(q, m)[t] - HeldBy(p, l)[t])
<1>1. PICK g : Sums(g, HeldBy(p, l), SUBSET Threads) /\ SumHeld(p, l) = g[Threads]
  BY SumHeldIs
<1>2. PICK h : Sums(h, HeldBy(q, m), SUBSET Threads) /\ SumHeld(q, m) = h[Threads]
  BY SumHeldIs
<1>3. IsFiniteSet(Threads) /\ Differ(HeldBy(p, l), HeldBy(q, m), Threads, t)
  BY ThreadsAreFinite DEF Differ
<1>4. /\ g[Threads] \in Int
      /\ h[Threads] = g[Threads] + (HeldBy(q, m)[t] - HeldBy(p, l)[t])
  BY <1>1, <1>2, <1>3, SumsChange
<1>5. QED  BY <1>1, <1>2, <1>4

\* Units of the slack that thread t is about to give or claim, and those of all.
Share(t) == IF pc[t] \in Holding THEN local[t].n ELSE 0

Held == SumHeld(pc, local)

LEMMA SharesTyped ==
    ASSUME Typed
    PROVE  /\ HeldBy(pc, local) \in [Threads -> Int]
           /\ \A t \in Threads : HeldBy(pc, local)[t] = Share(t) /\ Share(t) \in Int
<1>1. \A t \in Threads : local[t].n \in Int
  BY DEF Typed, Locals
<1>2. QED  BY <1>1 DEF HeldBy, Share

LEMMA SharesTypedNext ==
    ASSUME Typed'
    PROVE  /\ HeldBy(pc', local') \in [Threads -> Int]
           /\ \A t \in Threads : HeldBy(pc', local')[t] = Share(t)' /\ Share(t)' \in Int
<1>1. \A t \in Threads : local'[t].n \in Int
  BY DEF Typed, Locals
<1>2. QED  BY <1>1 DEF HeldBy, Share

LEMMA HeldStep ==
    ASSUME ServerAssumption, Typed, Typed', NEW t \in Threads, Others(t)
    PROVE  Held \in Int /\ Held' = Held + (Share(t)' - Share(t))
<1>1. \A u \in Threads : u # t => HeldBy(pc', local')[u] = HeldBy(pc, local)[u]
  BY DEF Others, HeldBy, Holding
<1>2. /\ SumHeld(pc, local) \in Int
      /\ SumHeld(pc', local') =
            SumHeld(pc, local) + (HeldBy(pc', local')[t] - HeldBy(pc, local)[t])
  BY <1>1, SharesTyped, SharesTypedNext, HeldChanges
<1>3. QED  BY <1>2, SharesTyped, SharesTypedNext DEF Held

Up == Workers \ (Range(asleep_list) \cup {w \in Workers : At(w, "inserting")})

\* Nobody quits as long as the market is there.
NoneQuits == theMarket => \A w \in Workers : my_state[w] # "quit" /\ pc[w] # "cleanup"

Exact == theMarket => my_slack + Held = workers_requested - Cardinality(Up)

\* Who wakes others has no negative amount to give them.
Gives(t) == pc[t] \in {"wake", "claim"} => local[t].n >= 0

SlackInv == NoneQuits /\ Exact /\ \A t \in Threads : Gives(t)

LEMMA GivesStep ==
    ASSUME SlackInv, NEW t \in Threads, Others(t), Gives(t)'
    PROVE  \A u \in Threads : Gives(u)'
  BY DEF SlackInv, Others, Gives

LEMMA SlackIs ==
    SlackIsExact <=> Exact
<1>1. Total(Threads, LAMBDA t : IF pc[t] \in {"estimate", "wake", "claim"} THEN local[t].n ELSE 0)
        = Held
  BY DEF Total, Held, SumHeld, MapThenSumSet, MapThenFoldSet
<1>2. QED  BY <1>1 DEF SlackIsExact, Exact, Up

LEMMA UpIsFinite ==
    ASSUME ServerAssumption
    PROVE  IsFiniteSet(Up) /\ Cardinality(Up) \in Nat /\ IsFiniteSet(Up') /\ Cardinality(Up') \in Nat
<1>1. Up \in SUBSET Threads /\ Up' \in SUBSET Threads
  BY DEF Up, Threads
<1>2. QED  BY <1>1, ThreadsAreFinite, FS_Subset, FS_CardinalityType

\* What a step of t leaves as it is when the slack is exact.
Balance(t) == (my_slack + Share(t)) - workers_requested + Cardinality(Up)

NobodyMoreQuits == \A w \in Workers : my_state'[w] = "quit" => my_state[w] = "quit"

LEMMA SlackKept ==
    ASSUME ServerAssumption, SnapshotInv, SnapshotInv', SlackInv, NEW t \in Threads, Others(t),
           workers_requested \in Int, workers_requested' \in Int,
           theMarket' => theMarket, Gives(t)',
           theMarket => NobodyMoreQuits /\ pc'[t] # "cleanup" /\ Balance(t)' = Balance(t)
    PROVE  SlackInv'
<1>0. \A u \in Threads : Gives(u)'
  BY GivesStep
<1>1. SUFFICES ASSUME theMarket'
               PROVE  NoneQuits' /\ Exact'
  BY <1>0 DEF SlackInv, NoneQuits, Exact
<1>2. theMarket /\ NobodyMoreQuits /\ pc'[t] # "cleanup" /\ Balance(t)' = Balance(t)
  BY <1>1
<1>3. Held \in Int /\ Held' = Held + (Share(t)' - Share(t))
  BY HeldStep DEF SnapshotInv
<1>4. Share(t) \in Int /\ Share(t)' \in Int
  BY SharesTyped, SharesTypedNext DEF SnapshotInv
<1>5. my_slack \in Int /\ my_slack' \in Int
  BY DEF SnapshotInv, Typed
<1>6. Cardinality(Up) \in Nat /\ Cardinality(Up') \in Nat
  BY UpIsFinite
<1>7. my_slack + Held = workers_requested - Cardinality(Up)
  BY <1>2 DEF SlackInv, Exact
<1>8. (my_slack' + Share(t)') - workers_requested' + Cardinality(Up')
        = (my_slack + Share(t)) - workers_requested + Cardinality(Up)
  BY <1>2 DEF Balance
<1>9. my_slack' + Held' = workers_requested' - Cardinality(Up')
  <2>1. PICK a \in Int : a = my_slack
    BY <1>5
  <2>2. PICK a2 \in Int : a2 = my_slack'
    BY <1>5
  <2>3. PICK b \in Int : b = Share(t)
    BY <1>4
  <2>4. PICK b2 \in Int : b2 = Share(t)'
    BY <1>4
  <2>5. PICK c \in Int : c = Cardinality(Up)
    BY <1>6
  <2>6. PICK c2 \in Int : c2 = Cardinality(Up')
    BY <1>6
  <2>7. PICK d \in Int : d = workers_requested
    OBVIOUS
  <2>8. PICK d2 \in Int : d2 = workers_requested'
    OBVIOUS
  <2>9. PICK e \in Int : e = Held
    BY <1>3
  <2>10. Held' = e + (b2 - b)
    BY <1>3, <2>3, <2>4, <2>9
  <2>11. a + e = d - c
    BY <1>7, <2>1, <2>5, <2>7, <2>9
  <2>12. (a2 + b2) - d2 + c2 = (a + b) - d + c
    BY <1>8, <2>1, <2>2, <2>3, <2>4, <2>5, <2>6, <2>7, <2>8
  <2>13. a2 + (e + (b2 - b)) = d2 - c2
    BY <2>11, <2>12
  <2>14. QED  BY <2>2, <2>6, <2>8, <2>10, <2>13
<1>10. \A w \in Workers : my_state'[w] # "quit" /\ pc'[w] # "cleanup"
  <2>1. ASSUME NEW w \in Workers
        PROVE  my_state[w] # "quit" /\ pc[w] # "cleanup"
    BY <1>2 DEF SlackInv, NoneQuits
  <2>2. QED  BY <1>2, <2>1 DEF NobodyMoreQuits, Others, Threads
<1>11. QED  BY <1>9, <1>10 DEF NoneQuits, Exact

\* A step that has nothing to do with the slack.
LEMMA UpSame ==
    ASSUME NEW t \in Threads, Others(t), asleep_list' = asleep_list,
           pc'[t] = "inserting" <=> pc[t] = "inserting"
    PROVE  Up' = Up
<1>1. \A w \in Workers : At(w, "inserting")' <=> At(w, "inserting")
  BY DEF Others, At, Threads
<1>2. QED  BY <1>1 DEF Up

LEMMA SlackApart ==
    ASSUME ServerAssumption, SnapshotInv, SnapshotInv', SlackInv, NEW t \in Threads, Others(t),
           workers_requested \in Int, theMarket' => theMarket,
           UNCHANGED <<my_slack, workers_requested, asleep_list>>,
           pc'[t] = "inserting" <=> pc[t] = "inserting", Share(t)' = Share(t), Gives(t)',
           theMarket => NobodyMoreQuits /\ pc'[t] # "cleanup"
    PROVE  SlackInv'
<1>1. Up' = Up
  BY UpSame
<1>2. Balance(t)' = Balance(t)
  BY <1>1 DEF Balance
<1>3. QED  BY <1>2, SlackKept

\* Who is on the list is not on its way there.
LEMMA ListedElsewhere ==
    ASSUME SnapshotInv, SleepInv, theMarket, NEW w \in Range(asleep_list)
    PROVE  w \in Workers /\ pc[w] \in {"unborn", "commit", "sleep"}
<1>1. Asleep /\ asleep_list \in Seq(Workers)
  BY StateTyped DEF SleepInv
<1>2. w \in Workers /\ Kept(w)
  BY <1>1, ElementOfSeq, LenProperties DEF Range, Kept
<1>3. QED  BY <1>1, <1>2 DEF Asleep, KeptSleep, Sleeps

\* A worker gives its unit on its way to the list, or takes it back.
LEMMA UnitGiven ==
    ASSUME ServerAssumption, SnapshotInv, SleepInv, theMarket, NEW w \in Workers, Others(w),
           asleep_list' = asleep_list, pc[w] = "insert", pc'[w] = "inserting"
    PROVE  Cardinality(Up') = Cardinality(Up) - 1
<1>1. w \in Threads /\ w \notin Range(asleep_list)
  BY ListedElsewhere DEF Threads
<1>2. \A u \in Workers : u # w => (At(u, "inserting")' <=> At(u, "inserting"))
  BY DEF Others, At, Threads
<1>3. w \in Up /\ Up' = Up \ {w}
  BY <1>1, <1>2 DEF Up, At
<1>4. QED  BY <1>3, UpIsFinite, FS_RemoveElement

LEMMA UnitTaken ==
    ASSUME ServerAssumption, SnapshotInv, SleepInv, theMarket, NEW w \in Workers, Others(w),
           asleep_list' = asleep_list, pc[w] = "inserting", pc'[w] = "cancel"
    PROVE  Cardinality(Up') = Cardinality(Up) + 1
<1>1. w \in Threads /\ w \notin Range(asleep_list)
  BY ListedElsewhere DEF Threads
<1>2. \A u \in Workers : u # w => (At(u, "inserting")' <=> At(u, "inserting"))
  BY DEF Others, At, Threads
<1>3. w \notin Up /\ Up' = Up \cup {w}
  BY <1>1, <1>2 DEF Up, At
<1>4. QED  BY <1>3, UpIsFinite, FS_AddElement

LEMMA RangeOfPush ==
    ASSUME NEW S, NEW s \in Seq(S), NEW w \in S
    PROVE  Range(<<w>> \o s) = Range(s) \cup {w}
<1>1. <<w>> \in Seq(S) /\ Len(<<w>>) = 1 /\ <<w>>[1] = w
  OBVIOUS
<1>2. PICK n \in Nat : n = Len(s) /\ DOMAIN s = 1 .. n
  BY LenProperties
<1>3. /\ <<w>> \o s \in Seq(S) /\ Len(<<w>> \o s) = 1 + n
      /\ (<<w>> \o s)[1] = w /\ \A i \in 1 .. n : (<<w>> \o s)[i + 1] = s[i]
  BY <1>1, <1>2, ConcatProperties
<1>4. DOMAIN (<<w>> \o s) = 1 .. n + 1
  BY <1>2, <1>3, LenProperties
<1>5. \A i \in 1 .. n + 1 : i = 1 \/ (i - 1 \in 1 .. n /\ (i - 1) + 1 = i)
  BY <1>2
<1>6. \A i \in 1 .. n : i + 1 \in 1 .. n + 1
  BY <1>2
<1>7. ASSUME NEW x \in Range(<<w>> \o s)
      PROVE  x = w \/ x \in Range(s)
  <2>1. PICK i \in 1 .. n + 1 : (<<w>> \o s)[i] = x
    BY <1>4 DEF Range
  <2>2. CASE i = 1
    BY <1>3, <2>1, <2>2
  <2>3. CASE i # 1
    BY <1>2, <1>3, <1>5, <2>1, <2>3 DEF Range
  <2>4. QED  BY <2>2, <2>3
<1>8. w \in Range(<<w>> \o s)
  <2>1. 1 \in 1 .. n + 1
    BY <1>2
  <2>2. QED  BY <1>3, <1>4, <2>1 DEF Range
<1>9. ASSUME NEW x \in Range(s)
      PROVE  x \in Range(<<w>> \o s)
  <2>1. PICK i \in 1 .. n : s[i] = x
    BY <1>2 DEF Range
  <2>2. QED  BY <1>3, <1>4, <1>6, <2>1 DEF Range
<1>10. QED  BY <1>7, <1>8, <1>9

\* Who goes on the list is down before and after.
LEMMA Listed ==
    ASSUME ServerAssumption, SnapshotInv, NEW w \in Workers, Others(w),
           asleep_list' = <<w>> \o asleep_list, pc[w] = "inserting", pc'[w] = "commit"
    PROVE  Up' = Up
<1>1. Range(asleep_list') = Range(asleep_list) \cup {w}
  BY StateTyped, RangeOfPush
<1>2. \A u \in Workers : u # w => (At(u, "inserting")' <=> At(u, "inserting"))
  BY DEF Others, At, Threads
<1>3. QED  BY <1>1, <1>2 DEF Up, At

\* Who is claimed is up from then on.
LEMMA Unlisted ==
    ASSUME ServerAssumption, SnapshotInv, SleepInv, theMarket,
           asleep_list # <<>>, asleep_list' = Tail(asleep_list), pc' = pc
    PROVE  Cardinality(Up') = Cardinality(Up) + 1
<1>1. Asleep /\ asleep_list \in Seq(Workers)
  BY StateTyped DEF SleepInv
<1>2. PICK n \in Nat : n = Len(asleep_list) /\ DOMAIN asleep_list = 1 .. n /\ n # 0
  BY <1>1, LenProperties, EmptySeq
<1> DEFINE w == asleep_list[1]
<1>3. /\ Tail(asleep_list) \in Seq(Workers) /\ Len(Tail(asleep_list)) = n - 1
      /\ \A i \in 1 .. n - 1 : Tail(asleep_list)[i] = asleep_list[i + 1]
  BY <1>1, <1>2, HeadTailProperties
<1>4. DOMAIN (asleep_list') = 1 .. n - 1 /\ \A i \in 1 .. n - 1 : asleep_list'[i] = asleep_list[i + 1]
  BY <1>3, LenProperties
<1>5. w \in Range(asleep_list) /\ w \in Workers /\ pc[w] # "inserting"
  <2>1. w \in Range(asleep_list)
    BY <1>2 DEF Range
  <2>2. QED  BY <2>1, ListedElsewhere
<1>6. \A i, j \in 1 .. n : asleep_list[i] = asleep_list[j] => i = j
  BY <1>1, <1>2 DEF Asleep, ListedOnce
<1>7. Range(asleep_list') = Range(asleep_list) \ {w}
  <2>1. \A i \in 1 .. n - 1 : i + 1 \in 1 .. n /\ i + 1 # 1
    BY <1>2
  <2>2. \A i \in 1 .. n : i = 1 \/ (i - 1 \in 1 .. n - 1 /\ (i - 1) + 1 = i)
    BY <1>2
  <2>3. \A i \in 1 .. n - 1 : asleep_list'[i] # w
    BY <1>2, <1>4, <1>6, <2>1
  <2>4. ASSUME NEW x \in Range(asleep_list')
        PROVE  x \in Range(asleep_list) /\ x # w
    <3>1. PICK i \in 1 .. n - 1 : asleep_list'[i] = x
      BY <1>4 DEF Range
    <3>2. QED  BY <1>2, <1>4, <2>1, <2>3, <3>1 DEF Range
  <2>5. ASSUME NEW x \in Range(asleep_list), x # w
        PROVE  x \in Range(asleep_list')
    <3>1. PICK i \in 1 .. n : asleep_list[i] = x
      BY <1>2 DEF Range
    <3>2. i - 1 \in 1 .. n - 1 /\ (i - 1) + 1 = i
      BY <2>2, <2>5, <3>1
    <3>3. asleep_list'[i - 1] = x
      BY <1>4, <3>1, <3>2
    <3>4. QED  BY <1>4, <3>2, <3>3 DEF Range
  <2> HIDE DEF w
  <2>6. QED  BY <2>4, <2>5
<1> HIDE DEF w
<1>8. w \notin Up /\ Up' = Up \cup {w}
  BY <1>5, <1>7 DEF Up, At
<1>9. QED  BY <1>8, UpIsFinite, FS_AddElement

(******************************************************************************)
(* The steps of the server                                                    *)
(******************************************************************************)

LEMMA WorkerSlack ==
    ASSUME ServerAssumption, SnapshotInv, SnapshotInv', SleepInv, SlackInv,
           workers_requested \in Int, UNCHANGED elsewhere, NEW t \in Workers,
           \/ propagate_chain_reaction(t) \/ TestState(t) \/ TestSlack(t)
           \/ PrepareWait(t) \/ VerifyState(t) \/ GiveUnit(t) \/ Insert(t)
           \/ CancelWait(t) \/ CommitWait(t) \/ Cleanup(t) \/ Unref(t)
    PROVE  SlackInv'
<1>0. /\ Typed /\ t \in Threads /\ pc = [u \in Threads |-> pc[u]] /\ local \in [Threads -> Locals]
      /\ Others(t) /\ my_slack \in Int
  BY StateTyped, WorkerApart DEF Typed, Threads, Apart
<1>1. workers_requested' = workers_requested /\ (theMarket' <=> theMarket)
  BY DEF elsewhere, demand, lifetime, theMarket
<1>2. my_state' = my_state
  BY DEF propagate_chain_reaction, TestState, TestSlack, PrepareWait, VerifyState, GiveUnit, Insert,
         CancelWait, CommitWait, Cleanup, Unref, server
<1>3. NobodyMoreQuits
  BY <1>2 DEF NobodyMoreQuits
<1>4. theMarket => my_state[t] # "quit" /\ pc[t] # "cleanup"
  BY DEF SlackInv, NoneQuits
<1>5. CASE propagate_chain_reaction(t)
  <2>1. /\ pc[t] \in {"born", "woken"} /\ UNCHANGED <<my_slack, asleep_list>>
        /\ pc'[t] = "loop" \/ (pc'[t] = "wake" /\ local'[t].n = 0)
    BY <1>0, <1>5 DEF propagate_chain_reaction, Call, Goto, Locals, server
  <2>2. Share(t) = 0 /\ Share(t)' = 0 /\ Gives(t)'
    BY <2>1 DEF Share, Holding, Gives
  <2>3. QED  BY <1>0, <1>1, <1>3, <2>1, <2>2, SlackApart
<1>6. CASE TestState(t) \/ TestSlack(t) \/ PrepareWait(t) \/ VerifyState(t) \/ CancelWait(t)
           \/ CommitWait(t) \/ Unref(t)
  <2>1. /\ pc[t] \in {"loop", "slack", "prepare", "announce", "verify", "cancel", "commit", "sleep",
                      "unref"}
        /\ pc'[t] \in {"cleanup", "slack", "process", "prepare", "announce", "verify", "cancel",
                       "insert", "loop", "sleep", "woken", "gone"}
        /\ pc'[t] = "cleanup" => my_state[t] = "quit"
        /\ UNCHANGED <<my_slack, asleep_list>>
    BY <1>0, <1>6 DEF TestState, TestSlack, PrepareWait, VerifyState, CancelWait, CommitWait, Unref,
                      Goto, At, server
  <2>2. Share(t) = 0 /\ Share(t)' = 0 /\ Gives(t)'
    BY <2>1 DEF Share, Holding, Gives
  <2>3. QED  BY <1>0, <1>1, <1>3, <1>4, <2>1, <2>2, SlackApart
<1>7. CASE GiveUnit(t)
  <2>1. CASE list_locked
    <3>1. pc[t] = "insert" /\ pc'[t] = "cancel" /\ UNCHANGED <<my_slack, asleep_list>>
      BY <1>0, <1>7, <2>1 DEF GiveUnit, Goto, At
    <3>2. Share(t) = 0 /\ Share(t)' = 0 /\ Gives(t)'
      BY <3>1 DEF Share, Holding, Gives
    <3>3. QED  BY <1>0, <1>1, <1>3, <3>1, <3>2, SlackApart
  <2>2. CASE ~list_locked
    <3>1. /\ pc[t] = "insert" /\ pc'[t] = "inserting"
          /\ my_slack' = my_slack + 1 /\ asleep_list' = asleep_list
      BY <1>0, <1>7, <2>2 DEF GiveUnit, Goto, At
    <3>2. Share(t) = 0 /\ Share(t)' = 0 /\ Gives(t)'
      BY <3>1 DEF Share, Holding, Gives
    <3>3. ASSUME theMarket
          PROVE  Balance(t)' = Balance(t)
      <4>1. Cardinality(Up') = Cardinality(Up) - 1 /\ Cardinality(Up) \in Nat
        BY <1>0, <3>1, <3>3, UnitGiven, UpIsFinite
      <4>2. QED  BY <1>0, <1>1, <3>1, <3>2, <4>1 DEF Balance
    <3>4. QED  BY <1>0, <1>1, <1>3, <3>1, <3>2, <3>3, SlackKept
  <2>3. QED  BY <2>1, <2>2
<1>8. CASE Insert(t)
  <2>1. pc[t] = "inserting" /\ pc'[t] \in {"commit", "cancel"}
    BY <1>0, <1>8 DEF Insert, Goto, At
  <2>2. Share(t) = 0 /\ Share(t)' = 0 /\ Gives(t)'
    BY <2>1 DEF Share, Holding, Gives
  <2>3. CASE local[t].n <= 0
    <3>1. /\ pc'[t] = "commit" /\ asleep_list' = <<t>> \o asleep_list /\ my_slack' = my_slack
      BY <1>0, <1>8, <2>3 DEF Insert, Goto
    <3>2. Up' = Up
      BY <1>0, <2>1, <3>1, Listed
    <3>3. Balance(t)' = Balance(t)
      BY <1>1, <2>2, <3>1, <3>2 DEF Balance
    <3>4. QED  BY <1>0, <1>1, <1>3, <2>2, <3>1, <3>3, SlackKept
  <2>4. CASE ~(local[t].n <= 0)
    <3>1. pc'[t] = "cancel" /\ asleep_list' = asleep_list /\ my_slack' = my_slack - 1
      BY <1>0, <1>8, <2>4 DEF Insert, Goto
    <3>2. ASSUME theMarket
          PROVE  Balance(t)' = Balance(t)
      <4>1. Cardinality(Up') = Cardinality(Up) + 1 /\ Cardinality(Up) \in Nat
        BY <1>0, <2>1, <3>1, <3>2, UnitTaken, UpIsFinite
      <4>2. QED  BY <1>0, <1>1, <2>2, <3>1, <4>1 DEF Balance
    <3>3. QED  BY <1>0, <1>1, <1>3, <2>2, <3>1, <3>2, SlackKept
  <2>5. QED  BY <2>3, <2>4
<1>9. CASE Cleanup(t)
  <2>1. ~theMarket
    BY <1>4, <1>9 DEF Cleanup, At
  <2>2. Gives(t)'
    BY <1>0, <1>9 DEF Cleanup, Goto, Gives
  <2>3. \A u \in Threads : Gives(u)'
    BY <1>0, <2>2, GivesStep
  <2>4. QED  BY <1>1, <2>1, <2>3 DEF SlackInv, NoneQuits, Exact
<1>10. QED  BY <1>5, <1>6, <1>7, <1>8, <1>9

LEMMA ServerSlack ==
    ASSUME ServerAssumption, SnapshotInv, SnapshotInv', SleepInv, SlackInv,
           workers_requested \in Int, UNCHANGED elsewhere, NEW t \in Threads, ServerStep(t)
    PROVE  SlackInv'
<1>0. /\ Typed /\ pc = [u \in Threads |-> pc[u]] /\ local \in [Threads -> Locals]
      /\ Others(t) /\ my_slack \in Int /\ local[t].n \in Int
      /\ local[t].ret \in Returns /\ local'[t].n \in Int /\ Gives(t)
  BY StateTyped, ServerApart, LocalsTyped DEF Typed, Apart, SnapshotInv, Locals, SlackInv
<1>1. workers_requested' = workers_requested /\ (theMarket' <=> theMarket)
  BY DEF elsewhere, demand, lifetime, theMarket
<1>2. CASE t \in Workers /\ (\/ propagate_chain_reaction(t) \/ TestState(t) \/ TestSlack(t)
                             \/ PrepareWait(t) \/ VerifyState(t) \/ GiveUnit(t) \/ Insert(t)
                             \/ CancelWait(t) \/ CommitWait(t) \/ Cleanup(t) \/ Unref(t))
  BY <1>2, WorkerSlack
<1>3. CASE adjust_job_count_estimate(t)
  <2>1. /\ pc[t] = "estimate" /\ local' = local /\ UNCHANGED <<asleep_list, my_state>>
        /\ \/ pc'[t] = "wake" /\ my_slack' = my_slack /\ ~(local[t].n < 0)
           \/ pc'[t] = local[t].ret /\ my_slack' = my_slack + local[t].n
    BY <1>0, <1>3 DEF adjust_job_count_estimate, Goto, At
  <2>2. /\ Share(t) = local[t].n /\ pc'[t] \notin {"inserting", "cleanup"}
        /\ \/ Share(t)' = local[t].n /\ my_slack' = my_slack
           \/ Share(t)' = 0 /\ my_slack' = my_slack + local[t].n
        /\ Gives(t)'
    BY <1>0, <2>1 DEF Share, Holding, Returns, Gives
  <2>3. Up' = Up
    BY <1>0, <2>1, <2>2, UpSame
  <2>4. Balance(t)' = Balance(t)
    BY <1>0, <1>1, <2>2, <2>3 DEF Balance
  <2>5. QED  BY <1>0, <1>1, <2>1, <2>2, <2>4, SlackKept DEF NobodyMoreQuits
<1>4. CASE LockList(t)
  <2>1. /\ pc[t] = "wake" /\ pc'[t] = "claim" /\ local' = local
        /\ UNCHANGED <<my_slack, asleep_list, my_state>>
    BY <1>0, <1>4 DEF LockList, Goto, At
  <2>2. Share(t)' = Share(t) /\ Gives(t)'
    BY <1>0, <2>1 DEF Share, Holding, Gives
  <2>3. QED  BY <1>0, <1>1, <2>1, <2>2, SlackApart DEF NobodyMoreQuits
<1>5. CASE ClaimUnit(t)
  <2> DEFINE n == local[t].n
             mayPop == asleep_list # <<>> /\ Len(local[t].wakees) < 2
             claims == mayPop /\ IF n > 0 THEN n + my_slack > 0 ELSE my_slack > 0
  <2>1. pc[t] = "claim" /\ my_state' = my_state /\ Share(t) = local[t].n /\ local[t].n >= 0
    BY <1>0, <1>5 DEF ClaimUnit, At, Share, Holding, Gives
  <2>2. CASE claims
    <3>1. /\ asleep_list # <<>> /\ asleep_list' = Tail(asleep_list) /\ pc' = pc
          /\ local'[t].n = (IF n > 0 THEN n - 1 ELSE 0)
          /\ my_slack' = (IF n > 0 THEN my_slack ELSE my_slack - 1)
          /\ n > 0 \/ my_slack > 0
      BY <1>0, <1>5, <2>2 DEF ClaimUnit, Locals
    <3>2. Share(t)' = local'[t].n /\ pc'[t] = "claim" /\ Gives(t)'
      <4>1. local'[t].n >= 0
        BY <1>0, <2>1, <3>1
      <4>2. QED  BY <2>1, <3>1, <4>1 DEF Share, Holding, Gives
    <3>3. ASSUME theMarket
          PROVE  Balance(t)' = Balance(t)
      <4>1. Cardinality(Up') = Cardinality(Up) + 1 /\ Cardinality(Up) \in Nat
        BY <3>1, <3>3, Unlisted, UpIsFinite
      <4>2. PICK a \in Int : a = local[t].n
        BY <1>0
      <4>3. PICK b \in Int : b = local'[t].n
        BY <1>0
      <4>4. PICK c \in Int : c = my_slack
        BY <1>0
      <4>5. PICK d \in Int : d = my_slack'
        BY <1>0, <3>1, <4>4
      <4>6. b = (IF a > 0 THEN a - 1 ELSE 0) /\ d = (IF a > 0 THEN c ELSE c - 1) /\ a >= 0
        BY <2>1, <3>1, <4>2, <4>3, <4>4, <4>5
      <4>7. b + d = (a + c) - 1
        BY <4>6
      <4>8. PICK e \in Int : e = Cardinality(Up)
        BY <4>1
      <4>9. Balance(t) = (c + a) - workers_requested + e
        BY <2>1, <4>2, <4>4, <4>8 DEF Balance
      <4>10. Balance(t)' = (d + b) - workers_requested + (e + 1)
        BY <1>1, <3>2, <4>1, <4>3, <4>5, <4>8 DEF Balance
      <4>11. QED  BY <4>7, <4>9, <4>10
    <3>4. QED  BY <1>0, <1>1, <2>1, <3>2, <3>3, SlackKept DEF NobodyMoreQuits
  <2>3. CASE ~claims
    <3>1. /\ pc'[t] = "rouse" /\ my_slack' = my_slack + local[t].n /\ asleep_list' = asleep_list
      BY <1>0, <1>5, <2>3 DEF ClaimUnit, Goto
    <3>2. Share(t)' = 0 /\ Gives(t)'
      BY <3>1 DEF Share, Holding, Gives
    <3>3. Up' = Up
      BY <1>0, <2>1, <3>1, UpSame
    <3>4. Balance(t)' = Balance(t)
      BY <1>0, <1>1, <2>1, <3>1, <3>2, <3>3 DEF Balance
    <3>5. QED  BY <1>0, <1>1, <2>1, <3>1, <3>2, <3>4, SlackKept DEF NobodyMoreQuits
  <2>4. QED  BY <2>2, <2>3
<1>6. CASE Rouse(t) \/ Roused(t)
  <2>1. /\ pc[t] \in {"rouse", "launched", "signal"} /\ UNCHANGED <<my_slack, asleep_list>>
    BY <1>6 DEF Rouse, Roused, At
  <2>2. pc'[t] \notin Holding \cup {"inserting", "cleanup"} /\ NobodyMoreQuits
    <3>1. CASE Roused(t)
      <4>1. pc'[t] = "rouse"
        BY <1>0, <3>1 DEF Roused, Goto
      <4>2. \/ my_state' = my_state
            \/ \E v : my_state' = [my_state EXCEPT ![v] = IF @ = "starting" THEN "normal" ELSE @]
        BY <3>1 DEF Roused
      <4>3. my_state = [w \in Workers |-> my_state[w]]
        BY <1>0 DEF Typed
      <4>4. NobodyMoreQuits
        BY <4>2, <4>3 DEF NobodyMoreQuits
      <4>5. QED  BY <4>1, <4>4 DEF Holding
    <3>2. CASE Rouse(t) /\ (local[t].wakees = <<>> \/ my_state[Last(local[t].wakees)] # "init")
      <4>1. my_state' = my_state /\ (Goto(t, local[t].ret) \/ Goto(t, "signal"))
        BY <3>2 DEF Rouse
      <4>2. pc'[t] = local[t].ret \/ pc'[t] = "signal"
        BY <1>0, <4>1 DEF Goto
      <4>3. local[t].ret \notin Holding \cup {"inserting", "cleanup"}
        BY <1>0 DEF Holding, Returns
      <4>4. "signal" \notin Holding \cup {"inserting", "cleanup"}
        BY DEF Holding
      <4>5. pc'[t] \notin Holding \cup {"inserting", "cleanup"}
        BY <4>2, <4>3, <4>4, Zenon
      <4>6. QED  BY <4>1, <4>5 DEF NobodyMoreQuits
    <3>3. CASE /\ Rouse(t) /\ local[t].wakees # <<>> /\ my_state[Last(local[t].wakees)] = "init"
      <4>1. PICK w \in Workers : w = Last(local[t].wakees)
        BY <1>0, <3>3, LastWakee
      <4>2. /\ pc[t] = "rouse" /\ my_state[w] = "init"
            /\ my_state' = [my_state EXCEPT ![w] = "starting"]
            /\ pc' = [pc EXCEPT ![t] = "launched", ![w] = "born"]
        BY <3>3, <4>1 DEF Rouse, At
      <4>3. w # t
        BY <4>2 DEF SnapshotInv, NotLaunched, At
      <4>4. pc'[t] = "launched"
        BY <1>0, <4>2, <4>3
      <4>5. QED  BY <4>2, <4>4 DEF NobodyMoreQuits, Holding
    <3>4. QED  BY <1>6, <3>1, <3>2, <3>3
  <2>3. Share(t) = 0 /\ Share(t)' = 0 /\ Gives(t)'
    BY <2>1, <2>2 DEF Share, Holding, Gives
  <2>4. QED  BY <1>0, <1>1, <2>1, <2>2, <2>3, SlackApart
<1>7. CASE StartShutdown(t) \/ NotifyShutdown(t) \/ CloseConnection(t)
  <2>1. pc[t] \in Closing
    BY <1>7 DEF StartShutdown, NotifyShutdown, CloseConnection, Closing, At
  <2>2. ~theMarket
    BY <2>1 DEF SleepInv, Asleep, IsOpen
  <2>3. pc'[t] \in Closing \cup Returns
    BY <1>0, <1>7 DEF StartShutdown, NotifyShutdown, CloseConnection, Closing, Goto, At
  <2>4. Gives(t)'
    BY <2>3 DEF Gives, Closing, Returns
  <2>5. \A u \in Threads : Gives(u)'
    BY <1>0, <2>4, GivesStep
  <2>6. QED  BY <1>1, <2>2, <2>5 DEF SlackInv, NoneQuits, Exact
<1>8. QED  BY <1>2, <1>3, <1>4, <1>5, <1>6, <1>7 DEF ServerStep

(******************************************************************************)
(* The steps in the arena                                                     *)
(******************************************************************************)

\* Who neither holds a part of the slack nor changes it.
LEMMA SlackElsewhere ==
    ASSUME ServerAssumption, SnapshotInv, SnapshotInv', SlackInv, NEW t \in Threads, Others(t),
           workers_requested \in Int, workers_requested' = workers_requested,
           UNCHANGED server, theMarket' => theMarket,
           pc[t] \notin Holding \cup {"inserting", "cleanup"},
           pc'[t] \notin Holding \cup {"inserting", "cleanup"}
    PROVE  SlackInv'
<1>1. UNCHANGED <<my_slack, asleep_list, my_state>>
  BY DEF server
<1>2. Share(t) = 0 /\ Share(t)' = 0 /\ Gives(t)' /\ NobodyMoreQuits
  BY <1>1 DEF Share, Holding, Gives, NobodyMoreQuits
<1>3. QED  BY <1>1, <1>2, SlackApart

\* Who tells the market holds, from then on, what the slack is to change by.
LEMMA SlackToGive ==
    ASSUME ServerAssumption, SnapshotInv, SnapshotInv', SlackInv, NEW t \in Threads, Others(t),
           workers_requested \in Int, workers_requested' \in Int, adjust_demand(t)
    PROVE  SlackInv'
<1>0. /\ pc = [u \in Threads |-> pc[u]] /\ local \in [Threads -> Locals]
      /\ my_num_workers_requested \in Int /\ my_slack \in Int
      /\ local[t].n \in Int /\ local[t].ret \in Returns
  BY StateTyped, LocalsTyped DEF SnapshotInv, Typed
<1> DEFINE prev == my_num_workers_requested
           requested == prev + local[t].n
           delta == CASE requested <= 0 /\ prev > 0  -> -prev
                      [] requested <= 0 /\ prev <= 0 -> 0
                      [] requested > 0 /\ prev < 0   -> requested
                      [] OTHER                       -> local[t].n
<1>1. delta \in Int
  BY <1>0
<1>2. /\ pc[t] = "adjust" /\ workers_requested' = workers_requested + delta
      /\ SetN(t, delta) /\ Goto(t, IF delta = 0 THEN local[t].ret ELSE "estimate")
      /\ UNCHANGED <<server, lifetime>>
  BY DEF adjust_demand, At
<1> HIDE DEF delta
<1>3. PICK d \in Int : d = delta
  BY <1>1
<1>4. /\ local'[t].n = d /\ pc'[t] = IF d = 0 THEN local[t].ret ELSE "estimate"
      /\ UNCHANGED <<my_slack, asleep_list, my_state>> /\ (theMarket' <=> theMarket)
  BY <1>0, <1>2, <1>3 DEF SetN, Goto, server, lifetime, theMarket, Locals
<1>5. local[t].ret \notin Holding \cup {"inserting", "cleanup"}
  BY <1>0 DEF Returns, Holding
<1>6. /\ Share(t) = 0 /\ Share(t)' = d /\ Gives(t)'
      /\ pc'[t] \notin {"inserting", "cleanup"}
  BY <1>2, <1>4, <1>5 DEF Share, Holding, Gives
<1>7. Up' = Up
  BY <1>2, <1>4, <1>6, UpSame
<1>8. Balance(t)' = Balance(t)
  <2>1. PICK w \in Int : w = workers_requested
    OBVIOUS
  <2>2. PICK a \in Int : a = my_slack
    BY <1>0
  <2>3. PICK c \in Int : c = Cardinality(Up)
    BY UpIsFinite
  <2>4. Balance(t) = (a + 0) - w + c
    BY <1>6, <2>1, <2>2, <2>3 DEF Balance
  <2>5. Balance(t)' = (a + d) - (w + d) + c
    BY <1>2, <1>3, <1>4, <1>6, <1>7, <2>1, <2>2, <2>3 DEF Balance
  <2>6. QED  BY <2>4, <2>5
<1>9. NobodyMoreQuits
  BY <1>4 DEF NobodyMoreQuits
<1>10. QED  BY <1>4, <1>6, <1>8, <1>9, SlackKept

LEMMA ArenaSlack ==
    ASSUME ServerAssumption, MarketAssumption, SnapshotInv, SnapshotInv', DemandInv, SleepInv,
           SlackInv, workers_requested \in Int, workers_requested' \in Int, NEW t \in Threads,
           \/ Spawn(t) \/ SpawnUnfenced(t) \/ Store(t) \/ Advertise(t) \/ MarkFull(t) \/ MarkEmptyFull(t)
           \/ adjust_demand(t) \/ TryDestroy(t) \/ TryDestroyArena(t) \/ Release(t)
           \/ t = Main /\ (MasterTakes \/ MasterLeaves)
           \/ t \in Workers /\ (WorkerTakes(t) \/ EndTask(t) \/ SeekArena(t) \/ EnterArena(t)
                                \/ Relinquish(t) \/ LoopEnds(t) \/ WorkerLeaves(t)
                                \/ SnapshotBegins(t) \/ Scan(t) \/ UndoSnapshot(t)
                                \/ SnapshotEnds(t))
    PROVE  SlackInv'
<1>0. /\ Typed /\ pc = [u \in Threads |-> pc[u]] /\ local[t].ret \in Returns
      /\ market_ref_count \in Int
  BY StateTyped, LocalsTyped DEF Typed, SleepInv
<1>1. CASE adjust_demand(t)
  BY <1>1, DemandIsTold, SlackToGive
<1>2. ASSUME ~adjust_demand(t)
      PROVE  SlackInv'
  <2>1. Others(t)
    <3>1. CASE \/ MarkFull(t) \/ MarkEmptyFull(t)
               \/ t \in Workers /\ (SnapshotBegins(t) \/ Scan(t) \/ UndoSnapshot(t) \/ SnapshotEnds(t))
      BY <3>1, StateMarked
    <3>2. CASE \/ Spawn(t) \/ SpawnUnfenced(t) \/ Store(t) \/ Advertise(t)
               \/ TryDestroy(t) \/ TryDestroyArena(t) \/ Release(t)
               \/ t = Main /\ (MasterTakes \/ MasterLeaves)
               \/ t \in Workers /\ (WorkerTakes(t) \/ EndTask(t) \/ SeekArena(t) \/ EnterArena(t)
                                    \/ Relinquish(t) \/ LoopEnds(t) \/ WorkerLeaves(t))
      BY <3>2, ArenaApart DEF Apart
    <3>3. QED  BY <1>2, <3>1, <3>2
  <2>2. UNCHANGED server /\ workers_requested' = workers_requested
    BY <1>2 DEF Spawn, SpawnUnfenced, Store, Advertise, MarkFull, MarkEmptyFull, TryDestroy,
                TryDestroyArena, Release, MasterTakes, MasterLeaves, WorkerTakes, EndTask, SeekArena,
                EnterArena, Relinquish, LoopEnds, WorkerLeaves, SnapshotBegins, Scan, UndoSnapshot,
                SnapshotEnds, demand
  <2> DEFINE Places == {"main", "execute", "advertise", "store", "mark", "mark_empty", "adjust",
                        "destroy", "destroy_arena", "release", "done", "process", "close", "arena",
                        "need", "admit", "loop_end", "leave", "loop", "scan", "undo"}
  <2>3. ASSUME pc[t] \in Places, pc'[t] \in Places \cup Returns, theMarket' => theMarket
        PROVE  SlackInv'
    <3>1. /\ pc[t] \notin Holding \cup {"inserting", "cleanup"}
          /\ pc'[t] \notin Holding \cup {"inserting", "cleanup"}
      BY <2>3 DEF Holding, Returns
    <3>2. QED  BY <2>1, <2>2, <2>3, <3>1, SlackElsewhere
  <2>4. CASE Spawn(t) \/ SpawnUnfenced(t)
    <3>1. /\ pc[t] \in {"main", "execute"} /\ pc'[t] \in {"advertise", "store"}
          /\ market_ref_count' = market_ref_count
      BY <1>0, <2>4 DEF Spawn, SpawnUnfenced, MaySpawn, Running, Call, Goto, lifetime
    <3>2. QED  BY <2>3, <3>1 DEF theMarket
  <2>5. CASE Store(t) \/ Advertise(t) \/ MarkFull(t) \/ MarkEmptyFull(t)
    <3>1. /\ pc[t] \in {"store", "advertise", "mark", "mark_empty"}
          /\ pc'[t] \in {"mark", "mark_empty", "adjust"} \/ pc'[t] = local[t].ret
          /\ market_ref_count' = market_ref_count
      BY <1>0, <2>5 DEF Store, Advertise, MarkFull, MarkEmptyFull, At, Goto, lifetime
    <3>2. QED  BY <1>0, <2>3, <3>1 DEF theMarket
  <2>6. CASE TryDestroy(t) \/ TryDestroyArena(t)
    <3>1. /\ pc[t] \in {"destroy", "destroy_arena"}
          /\ pc'[t] \in {"destroy_arena", "release", "done", "process"}
          /\ theMarket' => theMarket
      BY <1>0, <2>6 DEF TryDestroy, TryDestroyArena, AfterLeaving, Call, At, Goto, lifetime, theMarket
    <3>2. QED  BY <2>3, <3>1
  <2>7. CASE Release(t)
    <3>1. /\ pc[t] = "release" /\ market_ref_count' = market_ref_count - 1
          /\ pc'[t] \in {"close", "release"} \/ pc'[t] = local[t].ret
      BY <1>0, <2>7 DEF Release, At, Goto
    <3>2. theMarket' => theMarket
      BY <1>0, <3>1 DEF theMarket
    <3>3. QED  BY <1>0, <2>3, <3>1, <3>2
  <2>8. CASE t = Main /\ (MasterTakes \/ MasterLeaves)
    <3>1. /\ pc[t] = "main" /\ pc'[t] \in {"main", "destroy", "done"}
          /\ market_ref_count' = market_ref_count
      BY <1>0, <2>8 DEF MasterTakes, MasterLeaves, At, Goto, lifetime
    <3>2. QED  BY <2>3, <3>1 DEF theMarket
  <2>9. CASE t \in Workers /\ (WorkerTakes(t) \/ EndTask(t) \/ SeekArena(t) \/ EnterArena(t)
                               \/ Relinquish(t) \/ LoopEnds(t) \/ WorkerLeaves(t))
    <3>1. /\ pc[t] \in {"arena", "execute", "process", "need", "admit", "loop_end", "leave"}
          /\ pc'[t] \in {"execute", "arena", "need", "loop", "admit", "loop_end", "leave", "destroy",
                         "process"}
          /\ market_ref_count' = market_ref_count
      BY <1>0, <2>9 DEF WorkerTakes, EndTask, SeekArena, EnterArena, Relinquish, LoopEnds,
                        WorkerLeaves, At, Goto, lifetime
    <3>2. QED  BY <2>3, <3>1 DEF theMarket
  <2>10. CASE t \in Workers /\ (SnapshotBegins(t) \/ Scan(t) \/ UndoSnapshot(t) \/ SnapshotEnds(t))
    <3>1. /\ pc[t] \in {"arena", "scan", "undo"}
          /\ market_ref_count' = market_ref_count
          /\ pc'[t] \in {"scan", "loop_end", "undo", "arena", "adjust"}
      BY <1>0, <2>10 DEF SnapshotBegins, Scan, UndoSnapshot, SnapshotEnds, Call, At, Goto, lifetime
    <3>2. QED  BY <2>3, <3>1 DEF theMarket
  <2>11. QED  BY <1>2, <2>4, <2>5, <2>6, <2>7, <2>8, <2>9, <2>10
<1>3. QED  BY <1>1, <1>2

LEMMA NextSlack ==
    ASSUME ServerAssumption, MarketAssumption, SnapshotInv, SnapshotInv', DemandInv, SleepInv,
           SlackInv, workers_requested \in Int, workers_requested' \in Int, [Next]_vars
    PROVE  SlackInv'
<1>1. ASSUME NEW t \in Threads, ThreadStep(t) \/ Spawn(t) \/ SpawnUnfenced(t)
      PROVE  SlackInv'
  <2>1. CASE ServerStep(t) /\ UNCHANGED <<my_pool_state, demand, lifetime, work>>
    BY <2>1, ServerSlack DEF elsewhere
  <2>2. CASE \/ Spawn(t) \/ SpawnUnfenced(t) \/ Store(t) \/ Advertise(t) \/ MarkFull(t)
             \/ MarkEmptyFull(t)
             \/ adjust_demand(t) \/ TryDestroy(t) \/ TryDestroyArena(t) \/ Release(t)
             \/ t = Main /\ (MasterTakes \/ MasterLeaves)
             \/ t \in Workers /\ (WorkerTakes(t) \/ EndTask(t) \/ SeekArena(t) \/ EnterArena(t)
                                  \/ Relinquish(t) \/ LoopEnds(t) \/ WorkerLeaves(t)
                                  \/ SnapshotBegins(t) \/ Scan(t) \/ UndoSnapshot(t)
                                  \/ SnapshotEnds(t))
    BY <2>2, ArenaSlack
  <2>3. QED  BY <1>1, <2>1, <2>2 DEF ThreadStep
<1>2. CASE UNCHANGED vars
  <2>1. UNCHANGED <<pc, local, my_slack, asleep_list, my_state, workers_requested, market_ref_count>>
    BY <1>2 DEF vars, server, demand, lifetime
  <2>2. Held' = Held
    BY <2>1 DEF Held
  <2>3. Up' = Up
    BY <2>1 DEF Up, At
  <2>4. (Exact' <=> Exact) /\ (NoneQuits' <=> NoneQuits)
    BY <2>1, <2>2, <2>3 DEF Exact, NoneQuits, theMarket
  <2>5. \A u \in Threads : Gives(u)' <=> Gives(u)
    BY <2>1 DEF Gives
  <2>6. QED  BY <2>4, <2>5 DEF SlackInv
<1>3. QED  BY <1>1, <1>2 DEF Next, Terminated

LEMMA InitSlack ==
    ASSUME ServerAssumption, Init
    PROVE  SlackInv
<1>1. /\ asleep_list = Reverse(my_thread_array) /\ my_slack = 0 /\ workers_requested = 0
      /\ my_state = [w \in Workers |-> "init"]
      /\ pc = [t \in Threads |-> IF t = Main THEN "main" ELSE "unborn"]
      /\ Main \in Threads
  BY DEF Init, ServerInit, Threads
<1>2. HeldBy(pc, local) = [t \in Threads |-> 0]
  BY <1>1 DEF HeldBy, Holding
<1>3. Held = 0
  <2> DEFINE v == [t \in Threads |-> 0]
             h == [s \in SUBSET Threads |-> 0]
  <2>1. HeldBy(pc, local) = v /\ v \in [Threads -> Int] /\ v[Main] = 0
    BY <1>1, <1>2
  <2>2. PICK g : Sums(g, v, SUBSET Threads) /\ Held = g[Threads]
    <3>1. HeldBy(pc, local) \in [Threads -> Int]
      BY <2>1
    <3>2. \E g : Sums(g, HeldBy(pc, local), SUBSET Threads) /\ Held = g[Threads]
      BY <3>1, SumHeldIs DEF Held
    <3>3. QED  BY <2>1, <3>2, Zenon
  <2>3. h[Threads] = 0 /\ Sums(h, v, SUBSET Threads)
    <3>1. \A s \in SUBSET Threads : s # {} => v[Chosen(s)] = 0
      BY ChosenIn
    <3>2. QED  BY <3>1 DEF Sums
  <2>4. IsFiniteSet(Threads) /\ Differ(v, v, Threads, Main)
    BY ThreadsAreFinite DEF Differ
  <2> HIDE DEF v, h
  <2>5. g[Threads] \in Int /\ h[Threads] = g[Threads] + (v[Main] - v[Main])
    BY <1>1, <2>1, <2>2, <2>3, <2>4, SumsChange
  <2>6. QED  BY <2>1, <2>2, <2>3, <2>5
<1>4. Up = {}
  <2>1. my_n_thread \in Nat /\ DOMAIN my_thread_array = 1 .. my_n_thread
    BY ArrayIsASequence
  <2>2. PICK n \in Nat : n = Len(my_thread_array) /\ DOMAIN my_thread_array = 1 .. n
    BY <2>1 DEF my_n_thread
  <2>3. asleep_list = [i \in 1 .. n |-> my_thread_array[(n - i) + 1]]
    BY <1>1, <2>2 DEF Reverse
  <2>4. ASSUME NEW w \in Workers
        PROVE  w \in Range(asleep_list)
    <3>1. PICK i \in 1 .. n : my_thread_array[i] = w
      BY <2>2 DEF ServerAssumption, Range
    <3>2. (n - i) + 1 \in 1 .. n /\ (n - ((n - i) + 1)) + 1 = i
      BY <2>2
    <3>3. PICK j \in 1 .. n : j = (n - i) + 1
      BY <3>2
    <3>4. asleep_list[j] = w /\ DOMAIN asleep_list = 1 .. n
      BY <2>3, <3>1, <3>2, <3>3
    <3>5. QED  BY <3>3, <3>4 DEF Range
  <2>5. QED  BY <2>4 DEF Up
<1>5. Exact
  BY <1>1, <1>3, <1>4, FS_EmptySet DEF Exact
<1>6. NoneQuits /\ \A t \in Threads : Gives(t)
  BY <1>1 DEF NoneQuits, Gives, Threads, ServerAssumption
<1>7. QED  BY <1>5, <1>6 DEF SlackInv

(* Until the server closes, my_slack is the demand of the market less the     *)
(* workers that are up, but for what calls in progress hold: no unit that     *)
(* adjust_job_count_estimate, wake_some and try_insert_in_asleep_list pass    *)
(* on is lost or made twice, if no notify is delayed until the worker waits   *)
(* again.                                                                     *)
THEOREM SlackExact ==
    ASSUME ~LateSignals
    PROVE  Spec => []SlackIsExact
<1> DEFINE Inv == SnapshotInv /\ DemandInv /\ SleepInv /\ Derived /\ SlackInv
<1>1. Init => Inv
  BY InitSnapshots, InitDemand, InitSleep, InitDerived, InitSlack, ServerAssumption
<1>2. Inv /\ [Next]_vars => Inv'
  <2>1. ASSUME Inv, [Next]_vars
        PROVE  Inv'
    <3>1. SnapshotInv' /\ NotLaunched'
      BY <2>1, NextSnapshots, ServerAssumption, MarketAssumption DEF SnapshotInv
    <3>2. DemandInv' /\ Derived'
      BY <2>1, NextDemand, NextDerived, ServerAssumption, MarketAssumption
    <3>3. SleepInv'
      BY <2>1, <3>1, NextSleep, ServerAssumption, MarketAssumption
    <3>4. workers_requested \in Int /\ workers_requested' \in Int
      <4>1. my_num_workers_requested \in Int /\ my_num_workers_requested' \in Int
        BY <2>1, <3>1 DEF SnapshotInv, Typed
      <4>2. QED  BY <2>1, <3>2, <4>1 DEF Derived
    <3>5. SlackInv'
      BY <2>1, <3>1, <3>4, NextSlack, ServerAssumption, MarketAssumption
    <3>6. QED  BY <3>1, <3>2, <3>3, <3>5
  <2>2. QED  BY <2>1
<1>3. Inv => SlackIsExact
  BY SlackIs DEF SlackInv
<1>4. QED  BY <1>1, <1>2, <1>3, PTL DEF Spec

================================================================================
