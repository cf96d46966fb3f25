--------------------------- MODULE TaskLogger_proofs ---------------------------
(******************************************************************************)
(* What class Task_Logger keeps, for any number of threads, slots and         *)
(* regions.  The slot behind a full row is another row's first, so everything *)
(* here rests on RowsApart: no two used rows are neighbours.  A thread's own  *)
(* slots are then its row's and the one behind it (OwnSlots), and a call      *)
(* touches no others (LogStores, IntermediateStores, RegionBuffered).         *)
(*                                                                            *)
(* LogInv is inductive.  buffer_info does not look for a full row: it writes  *)
(* inside the row because a region begins with log_intermediate_step, which   *)
(* does (RegionsInRow).  A full row's first slot is cleared by the next call, *)
(* which would lose work if the slot behind the row held any (ClearBehind).   *)
(* With those, a call is an action of StepLog: log closes the open entry      *)
(* (LogCloses), a region's begin and end gather for it, Fini finishes.        *)
(******************************************************************************)
EXTENDS TaskLogger, SequenceTheorems, TLAPS

\* No two threads that log have neighbouring rows.
RowsApart == \A t, u \in Used : u # t + 1

Slots == Rows \X (0 .. NUM_ENTRIES - 1)

Types == {ASYNC, FINISH, STEP}

IsClear(slot) == slot.work = 0 /\ slot.region_work = NoRegions

\* A region lasts while its step does, and its slot is in the thread's row.
RegionsInRow ==
    \A t \in Used : inRegion[t] => inStep[t] /\ last_allocated[t] < NUM_ENTRIES

\* The slot behind a full row is clear, like the one that the flush will clear.
ClearBehind ==
    \A t \in Used :
        last_allocated[t] = NUM_ENTRIES => IsClear(At(step_work_list, t, NUM_ENTRIES))

\* Between two steps nothing has been counted for a region.
NoneBetweenSteps ==
    \A t \in Used :
        ~inStep[t] => At(step_work_list, t, last_allocated[t]).region_work = NoRegions

LogInv == TypeOK /\ RegionsInRow /\ ClearBehind /\ NoneBetweenSteps /\ RegionWorkInSteps

(******************************************************************************)
(* Slots                                                                      *)
(******************************************************************************)

LEMMA Numbers ==
    ASSUME LoggerAssumption
    PROVE  /\ NUM_ENTRIES \in Nat \ {0} /\ NUM_THREADS \in Nat /\ MaxCalls \in Nat
           /\ Used \subseteq Rows /\ 0 \in Used /\ 0 \in Rows
           /\ \A t \in Used : t \in Nat /\ t + 1 \in Rows
  BY DEF LoggerAssumption, Rows

\* The slots that are a thread's own: those of its row and the one behind it.
LEMMA OwnSlots ==
    ASSUME LoggerAssumption, RowsApart, NEW t \in Used
    PROVE  /\ \A i \in 0 .. NUM_ENTRIES : Address(t, i) \in Slots
           /\ \A i, j \in 0 .. NUM_ENTRIES : Address(t, i) = Address(t, j) => i = j
           /\ \A u \in Used \ {t} : \A i, j \in 0 .. NUM_ENTRIES : Address(t, i) # Address(u, j)
<1>1. /\ NUM_ENTRIES \in Nat \ {0} /\ t \in Nat /\ t \in Rows /\ t + 1 \in Rows
      /\ \A u \in Used : u \in Nat
  BY Numbers
<1>2. \A i \in 0 .. NUM_ENTRIES : Address(t, i) \in Slots
  BY <1>1 DEF Address, Slots
<1>3. \A i, j \in 0 .. NUM_ENTRIES : Address(t, i) = Address(t, j) => i = j
  BY <1>1 DEF Address
<1>4. ASSUME NEW u \in Used \ {t}, NEW i \in 0 .. NUM_ENTRIES, NEW j \in 0 .. NUM_ENTRIES
      PROVE  Address(t, i) # Address(u, j)
  <2>1. u # t /\ u # t + 1 /\ t # u + 1
    BY <1>4 DEF RowsApart
  <2>2. QED  BY <1>1, <2>1 DEF Address
<1>5. QED  BY <1>2, <1>3, <1>4

LEMMA SlotTypes ==
    ASSUME NEW slot \in Slot
    PROVE  /\ Cleared(slot) \in Slot /\ IsClear(Cleared(slot))
           /\ \A n \in 0 .. MaxCalls + 1, type \in Types, count \in Nat :
                 /\ Stored(slot, n, type, count) \in Slot
                 /\ Stored(slot, n, type, count)
                        = [node_id |-> n, node_type |-> type, work |-> slot.work + count,
                           region_work |-> slot.region_work]
<1>1. NoRegions \in [Regions -> Nat]
  BY DEF NoRegions
<1>2. Cleared(slot) \in Slot /\ IsClear(Cleared(slot))
  BY <1>1 DEF Slot, Cleared, IsClear
<1>3. ASSUME NEW n \in 0 .. MaxCalls + 1, NEW type \in Types, NEW count \in Nat
      PROVE  /\ Stored(slot, n, type, count) \in Slot
             /\ Stored(slot, n, type, count)
                    = [node_id |-> n, node_type |-> type, work |-> slot.work + count,
                       region_work |-> slot.region_work]
  <2> DEFINE stored == Stored(slot, n, type, count)
  <2>1. stored \in Slot
    <3>1. slot.work + count \in Nat /\ type \in {0, ASYNC, FINISH, STEP}
      BY DEF Slot, Types
    <3>2. PICK sum \in Nat : sum = slot.work + count
      BY <3>1
    <3>3. stored = [slot EXCEPT !.node_id = n, !.node_type = type, !.work = sum]
      BY <3>2 DEF Stored
    <3> HIDE DEF stored
    <3>4. QED  BY <3>1, <3>2, <3>3 DEF Slot
  <2>2. /\ stored.node_id = n /\ stored.node_type = type /\ stored.work = slot.work + count
        /\ stored.region_work = slot.region_work
    BY DEF Slot, Stored
  <2> HIDE DEF stored
  <2>3. stored = [node_id |-> stored.node_id, node_type |-> stored.node_type,
                  work |-> stored.work, region_work |-> stored.region_work]
    BY <2>1 DEF Slot
  <2>4. QED  BY <2>1, <2>2, <2>3 DEF stored
<1>4. QED  BY <1>2, <1>3

(******************************************************************************)
(* What the methods do                                                        *)
(******************************************************************************)

\* What a call by t leaves alone.
OthersKept(t) ==
    /\ step_work_list' \in [Slots -> Slot]
    /\ last_allocated' \in [Rows -> 0 .. NUM_ENTRIES]
    /\ \A u \in Used \ {t} : /\ last_allocated'[u] = last_allocated[u]
                             /\ \A j \in 0 .. NUM_ENTRIES :
                                   At(step_work_list', u, j) = At(step_work_list, u, j)

\* The slot that the next entry goes to, as a call finds it or clears it.
NextSlot(t) ==
    IF Full(t) THEN Cleared(At(step_work_list, t, 0))
    ELSE At(step_work_list, t, last_allocated[t])

LEMMA NextSlotTypes ==
    ASSUME LoggerAssumption, RowsApart, LogInv, NEW t \in Used
    PROVE  /\ FlushedIndex(t) \in 0 .. NUM_ENTRIES - 1 /\ NextSlot(t) \in Slot
           /\ (Full(t) => FlushedIndex(t) = 0 /\ IsClear(NextSlot(t)))
           /\ (~Full(t) => FlushedIndex(t) = last_allocated[t])
           /\ \A j \in 0 .. NUM_ENTRIES : At(step_work_list, t, j) \in Slot
           /\ FlushedList(t) \in [Slots -> Slot]
           /\ At(FlushedList(t), t, FlushedIndex(t)) = NextSlot(t)
           /\ \A p \in Slots : p # Address(t, FlushedIndex(t)) =>
                 FlushedList(t)[p] = step_work_list[p]
<1>1. /\ NUM_ENTRIES \in Nat \ {0} /\ last_allocated[t] \in 0 .. NUM_ENTRIES
      /\ step_work_list \in [Slots -> Slot]
  BY Numbers DEF LogInv, TypeOK, Slots
<1>2. \A j \in 0 .. NUM_ENTRIES : Address(t, j) \in Slots /\ At(step_work_list, t, j) \in Slot
  BY <1>1, OwnSlots DEF At
<1>3. CASE Full(t)
  <2>1. FlushedIndex(t) = 0 /\ 0 \in 0 .. NUM_ENTRIES /\ 0 \in 0 .. NUM_ENTRIES - 1
    BY <1>1, <1>3 DEF FlushedIndex
  <2>2. NextSlot(t) = Cleared(At(step_work_list, t, 0)) /\ NextSlot(t) \in Slot
        /\ IsClear(NextSlot(t))
    BY <1>2, <1>3, <2>1, SlotTypes DEF NextSlot
  <2>3. FlushedList(t) = [step_work_list EXCEPT ![Address(t, 0)] = NextSlot(t)]
    BY <1>3, <2>2 DEF FlushedList, At
  <2>4. QED  BY <1>1, <1>2, <1>3, <2>1, <2>2, <2>3 DEF At
<1>4. CASE ~Full(t)
  <2>1. FlushedIndex(t) = last_allocated[t] /\ last_allocated[t] \in 0 .. NUM_ENTRIES - 1
    BY <1>1, <1>4 DEF FlushedIndex, Full
  <2>2. FlushedList(t) = step_work_list /\ NextSlot(t) = At(step_work_list, t, last_allocated[t])
    BY <1>4 DEF FlushedList, NextSlot
  <2>3. QED  BY <1>1, <1>2, <1>4, <2>1, <2>2
<1>5. QED  BY <1>3, <1>4

\* The files: a full row is written out.
LEMMA Flushed ==
    ASSUME LoggerAssumption, LogInv, NEW t \in Used, file' = FlushedFile(t)
    PROVE  /\ file'[t] = IF Full(t) THEN file[t] \o Row(step_work_list, t, NUM_ENTRIES) ELSE file[t]
           /\ \A u \in Rows \ {t} : file'[u] = file[u]
           /\ file' = [u \in Rows |-> file'[u]]
<1>1. file \in [Rows -> Seq(Slot)] /\ t \in Rows
  BY Numbers DEF LogInv, TypeOK
<1>2. QED  BY <1>1 DEF FlushedFile

LEMMA LogStores ==
    ASSUME LoggerAssumption, RowsApart, LogInv, NEW t \in Used, NEW n \in 0 .. MaxCalls + 1,
           NEW type \in Types, NEW count \in Nat, log(t, n, type, count)
    PROVE  /\ OthersKept(t)
           /\ last_allocated'[t] = FlushedIndex(t) + 1
           /\ At(step_work_list', t, FlushedIndex(t)) = Stored(NextSlot(t), n, type, count)
           /\ IsClear(At(step_work_list', t, FlushedIndex(t) + 1))
           /\ \A j \in 0 .. FlushedIndex(t) - 1 : At(step_work_list', t, j) = At(step_work_list, t, j)
<1>1. PICK i \in 0 .. NUM_ENTRIES - 1, slot \in Slot :
         i = FlushedIndex(t) /\ slot = NextSlot(t)
  BY NextSlotTypes
<1>2. /\ NUM_ENTRIES \in Nat \ {0} /\ last_allocated \in [Rows -> 0 .. NUM_ENTRIES]
      /\ t \in Rows /\ Used \subseteq Rows /\ i \in 0 .. NUM_ENTRIES /\ i + 1 \in 0 .. NUM_ENTRIES
      /\ i # i + 1
  <2>1. NUM_ENTRIES \in Nat \ {0} /\ t \in Rows /\ Used \subseteq Rows
    BY Numbers
  <2>2. last_allocated \in [Rows -> 0 .. NUM_ENTRIES]
    BY DEF LogInv, TypeOK
  <2>3. i \in 0 .. NUM_ENTRIES /\ i + 1 \in 0 .. NUM_ENTRIES /\ i # i + 1
    BY <2>1
  <2>4. QED  BY <2>1, <2>2, <2>3
<1>3. PICK p \in Slots, q \in Slots : p = Address(t, i) /\ q = Address(t, i + 1) /\ p # q
  BY <1>2, OwnSlots
<1>4. PICK stored \in Slot : stored = Stored(slot, n, type, count)
  BY SlotTypes
<1>5. PICK list \in [Slots -> Slot] :
         /\ list[p] = stored
         /\ \A r \in Slots \ {p} : list[r] = step_work_list[r]
         /\ list = [FlushedList(t) EXCEPT ![Address(t, FlushedIndex(t))] = Stored(@, n, type, count)]
  <2>1. FlushedList(t) \in [Slots -> Slot] /\ FlushedList(t)[p] = slot
        /\ \A r \in Slots \ {p} : FlushedList(t)[r] = step_work_list[r]
    BY <1>1, <1>3, NextSlotTypes DEF At
  <2>2. [FlushedList(t) EXCEPT ![Address(t, FlushedIndex(t))] = Stored(@, n, type, count)]
           = [FlushedList(t) EXCEPT ![p] = stored]
    BY <1>1, <1>3, <1>4, <2>1
  <2>3. QED  BY <2>1, <2>2
<1>6. /\ step_work_list' = [list EXCEPT ![q] = Cleared(list[q])]
      /\ last_allocated' = [last_allocated EXCEPT ![t] = i + 1]
  BY <1>1, <1>3, <1>5 DEF log
<1>7. Cleared(list[q]) \in Slot /\ IsClear(Cleared(list[q]))
  BY SlotTypes
<1>8. /\ step_work_list' \in [Slots -> Slot] /\ step_work_list'[p] = stored
      /\ IsClear(step_work_list'[q])
      /\ \A r \in Slots \ {p, q} : step_work_list'[r] = step_work_list[r]
  BY <1>3, <1>5, <1>6, <1>7
<1>9. \A j \in 0 .. i - 1 : At(step_work_list', t, j) = At(step_work_list, t, j)
  <2>1. ASSUME NEW j \in 0 .. i - 1
        PROVE  j \in 0 .. NUM_ENTRIES /\ j # i /\ j # i + 1
    BY <1>2
  <2>2. QED  BY <1>2, <1>3, <1>8, <2>1, OwnSlots DEF At
<1>10. OthersKept(t)
  <2>1. ASSUME NEW u \in Used \ {t}, NEW j \in 0 .. NUM_ENTRIES
        PROVE  At(step_work_list', u, j) = At(step_work_list, u, j)
    <3>1. Address(u, j) \in Slots /\ Address(u, j) # p /\ Address(u, j) # q
      BY <1>2, <1>3, OwnSlots
    <3>2. QED  BY <1>8, <3>1 DEF At
  <2>2. \A u \in Used \ {t} : last_allocated'[u] = last_allocated[u]
    BY <1>2, <1>6
  <2>3. last_allocated' \in [Rows -> 0 .. NUM_ENTRIES]
    BY <1>2, <1>6
  <2>4. QED  BY <1>8, <2>1, <2>2, <2>3 DEF OthersKept
<1>11. QED  BY <1>1, <1>2, <1>3, <1>4, <1>6, <1>8, <1>9, <1>10 DEF At

LEMMA IntermediateStores ==
    ASSUME LoggerAssumption, RowsApart, LogInv, NEW t \in Used, NEW n \in 0 .. MaxCalls + 1,
           NEW count \in Nat, log_intermediate_step(t, n, count)
    PROVE  /\ OthersKept(t)
           /\ last_allocated'[t] = FlushedIndex(t)
           /\ At(step_work_list', t, FlushedIndex(t)) = Stored(NextSlot(t), n, STEP, count)
           /\ \A j \in 0 .. FlushedIndex(t) - 1 : At(step_work_list', t, j) = At(step_work_list, t, j)
<1>1. PICK i \in 0 .. NUM_ENTRIES - 1, slot \in Slot :
         i = FlushedIndex(t) /\ slot = NextSlot(t)
  BY NextSlotTypes
<1>2. /\ NUM_ENTRIES \in Nat \ {0} /\ last_allocated \in [Rows -> 0 .. NUM_ENTRIES]
      /\ t \in Rows /\ Used \subseteq Rows /\ i \in 0 .. NUM_ENTRIES
  BY <1>1, Numbers DEF LogInv, TypeOK
<1>3. PICK p \in Slots : p = Address(t, i)
  BY <1>2, OwnSlots
<1>4. PICK stored \in Slot : stored = Stored(slot, n, STEP, count)
  BY SlotTypes DEF Types
<1>5. /\ FlushedList(t) \in [Slots -> Slot] /\ FlushedList(t)[p] = slot
      /\ \A r \in Slots \ {p} : FlushedList(t)[r] = step_work_list[r]
  BY <1>1, <1>3, NextSlotTypes DEF At
<1>6. /\ step_work_list' = [FlushedList(t) EXCEPT ![p] = stored]
      /\ last_allocated' = [last_allocated EXCEPT ![t] = i]
  BY <1>1, <1>3, <1>4, <1>5 DEF log_intermediate_step
<1>7. /\ step_work_list' \in [Slots -> Slot] /\ step_work_list'[p] = stored
      /\ \A r \in Slots \ {p} : step_work_list'[r] = step_work_list[r]
  BY <1>5, <1>6
<1>8. \A j \in 0 .. i - 1 : At(step_work_list', t, j) = At(step_work_list, t, j)
  <2>1. ASSUME NEW j \in 0 .. i - 1
        PROVE  j \in 0 .. NUM_ENTRIES /\ j # i
    BY <1>2
  <2>2. QED  BY <1>2, <1>3, <1>7, <2>1, OwnSlots DEF At
<1>9. OthersKept(t)
  <2>1. ASSUME NEW u \in Used \ {t}, NEW j \in 0 .. NUM_ENTRIES
        PROVE  At(step_work_list', u, j) = At(step_work_list, u, j)
    <3>1. Address(u, j) \in Slots /\ Address(u, j) # p
      BY <1>2, <1>3, OwnSlots
    <3>2. QED  BY <1>7, <3>1 DEF At
  <2>2. \A u \in Used \ {t} : last_allocated'[u] = last_allocated[u]
    BY <1>2, <1>6
  <2>3. last_allocated' \in [Rows -> 0 .. NUM_ENTRIES]
    BY <1>2, <1>6
  <2>4. QED  BY <1>7, <2>1, <2>2, <2>3 DEF OthersKept
<1>10. QED  BY <1>1, <1>2, <1>3, <1>4, <1>6, <1>7, <1>8, <1>9 DEF At

LEMMA RegionBuffered ==
    ASSUME LoggerAssumption, RowsApart, LogInv, NEW t \in Used, NEW n \in 0 .. MaxCalls + 1,
           NEW r \in Regions, NEW count \in Nat, BufferRegion(t, n, r, count),
           last_allocated[t] < NUM_ENTRIES
    PROVE  LET here == At(step_work_list, t, last_allocated[t])
               now == At(step_work_list', t, last_allocated[t])
           IN  /\ OthersKept(t) /\ last_allocated' = last_allocated /\ file' = file
               /\ here \in Slot /\ now \in Slot
               /\ now.node_type = STEP /\ now.work = here.work + count
               /\ now.region_work = [here.region_work EXCEPT ![r] = @ + count]
               /\ \A j \in 0 .. last_allocated[t] - 1 :
                     At(step_work_list', t, j) = At(step_work_list, t, j)
<1>1. PICK i \in 0 .. NUM_ENTRIES - 1 : i = last_allocated[t]
  BY Numbers DEF LogInv, TypeOK
<1>2. /\ NUM_ENTRIES \in Nat \ {0} /\ last_allocated \in [Rows -> 0 .. NUM_ENTRIES]
      /\ t \in Rows /\ Used \subseteq Rows /\ i \in 0 .. NUM_ENTRIES
      /\ step_work_list \in [Slots -> Slot]
  BY <1>1, Numbers DEF LogInv, TypeOK, Slots
<1>3. PICK p \in Slots, here \in Slot : p = Address(t, i) /\ here = At(step_work_list, t, i)
                                        /\ here = step_work_list[p]
  BY <1>2, OwnSlots DEF At
<1>4. PICK stored \in Slot : stored = Stored(here, n, STEP, count)
                             /\ stored = [node_id |-> n, node_type |-> STEP, work |-> here.work + count,
                                          region_work |-> here.region_work]
  <2>1. STEP \in Types
    BY DEF Types
  <2>2. /\ Stored(here, n, STEP, count) \in Slot
        /\ Stored(here, n, STEP, count)
               = [node_id |-> n, node_type |-> STEP, work |-> here.work + count,
                  region_work |-> here.region_work]
    BY <2>1, SlotTypes
  <2>3. QED  BY <2>2
<1>5. PICK now \in Slot : /\ now = [stored EXCEPT !.region_work[r] = @ + count]
                          /\ now.node_type = STEP /\ now.work = here.work + count
                          /\ now.region_work = [here.region_work EXCEPT ![r] = @ + count]
  <2>1. stored.region_work \in [Regions -> Nat] /\ stored.region_work = here.region_work
    BY <1>4 DEF Slot
  <2>2. PICK counted \in [Regions -> Nat] : counted = [stored.region_work EXCEPT ![r] = @ + count]
    <3>1. PICK f \in [Regions -> Nat] : f = stored.region_work
      BY <2>1
    <3>2. [f EXCEPT ![r] = @ + count] \in [Regions -> Nat]
      BY <3>1
    <3>3. QED  BY <3>1, <3>2
  <2>3. [stored EXCEPT !.region_work[r] = @ + count] = [stored EXCEPT !.region_work = counted]
    BY <1>4, <2>2 DEF Slot
  <2>4. [stored EXCEPT !.region_work = counted] \in Slot
    BY <2>2 DEF Slot
  <2>5. QED  BY <1>4, <2>1, <2>2, <2>3, <2>4 DEF Slot
<1>6. step_work_list' = [step_work_list EXCEPT ![p] = now]
      /\ last_allocated' = last_allocated /\ file' = file
  <2>1. Address(t, last_allocated[t]) = p /\ Stored(step_work_list[p], n, STEP, count) = stored
    BY <1>1, <1>3, <1>4
  <2>2. QED  BY <1>5, <2>1, Zenon DEF BufferRegion
<1>7. /\ step_work_list' \in [Slots -> Slot] /\ step_work_list'[p] = now
      /\ \A q \in Slots \ {p} : step_work_list'[q] = step_work_list[q]
  BY <1>2, <1>6
<1>8. \A j \in 0 .. i - 1 : At(step_work_list', t, j) = At(step_work_list, t, j)
  <2>1. ASSUME NEW j \in 0 .. i - 1
        PROVE  j \in 0 .. NUM_ENTRIES /\ j # i
    BY <1>2
  <2>2. QED  BY <1>2, <1>3, <1>7, <2>1, OwnSlots DEF At
<1>9. OthersKept(t)
  <2>1. ASSUME NEW u \in Used \ {t}, NEW j \in 0 .. NUM_ENTRIES
        PROVE  At(step_work_list', u, j) = At(step_work_list, u, j)
    <3>1. Address(u, j) \in Slots /\ Address(u, j) # p
      BY <1>2, <1>3, OwnSlots
    <3>2. QED  BY <1>7, <3>1 DEF At
  <2>2. QED  BY <1>2, <1>6, <1>7, <2>1 DEF OthersKept
<1>10. now = At(step_work_list', t, i)
  BY <1>3, <1>7 DEF At
<1>11. QED  BY <1>1, <1>3, <1>5, <1>6, <1>8, <1>9, <1>10

(******************************************************************************)
(* Rows                                                                       *)
(******************************************************************************)

LEMMA RowTypes ==
    ASSUME NEW list, NEW t, NEW n \in Nat, \A j \in 0 .. n - 1 : At(list, t, j) \in Slot
    PROVE  /\ Row(list, t, n) \in Seq(Slot) /\ Len(Row(list, t, n)) = n
           /\ \A i \in 1 .. n : Row(list, t, n)[i] = At(list, t, i - 1)
<1>1. \A i \in 1 .. n : i - 1 \in 0 .. n - 1
  OBVIOUS
<1>2. Row(list, t, n) \in [1 .. n -> Slot]
  BY <1>1 DEF Row
<1>3. QED  BY <1>2 DEF Row

LEMMA RowSame ==
    ASSUME NEW list, NEW list2, NEW t, NEW n \in Nat,
           \A j \in 0 .. n - 1 : At(list2, t, j) = At(list, t, j)
    PROVE  Row(list2, t, n) = Row(list, t, n)
<1>1. \A i \in 1 .. n : i - 1 \in 0 .. n - 1
  OBVIOUS
<1>2. QED  BY <1>1 DEF Row

LEMMA RowGrows ==
    ASSUME NEW list, NEW list2, NEW t, NEW n \in Nat,
           \A j \in 0 .. n - 1 : At(list, t, j) \in Slot /\ At(list2, t, j) = At(list, t, j),
           At(list2, t, n) \in Slot
    PROVE  Row(list2, t, n + 1) = Append(Row(list, t, n), At(list2, t, n))
<1>1. /\ Row(list, t, n) \in Seq(Slot) /\ Len(Row(list, t, n)) = n
      /\ \A i \in 1 .. n : Row(list, t, n)[i] = At(list, t, i - 1)
  BY RowTypes
<1>2. \A j \in 0 .. (n + 1) - 1 : At(list2, t, j) \in Slot
  <2>1. \A j \in 0 .. (n + 1) - 1 : j = n \/ j \in 0 .. n - 1
    OBVIOUS
  <2>2. QED  BY <2>1
<1>3. /\ Row(list2, t, n + 1) \in Seq(Slot) /\ Len(Row(list2, t, n + 1)) = n + 1
      /\ \A i \in 1 .. n + 1 : Row(list2, t, n + 1)[i] = At(list2, t, i - 1)
  BY <1>2, RowTypes
<1>4. /\ Append(Row(list, t, n), At(list2, t, n)) \in Seq(Slot)
      /\ Len(Append(Row(list, t, n), At(list2, t, n))) = n + 1
      /\ \A i \in 1 .. n : Append(Row(list, t, n), At(list2, t, n))[i] = Row(list, t, n)[i]
      /\ Append(Row(list, t, n), At(list2, t, n))[n + 1] = At(list2, t, n)
  BY <1>1, AppendProperties
<1>5. ASSUME NEW i \in 1 .. n + 1
      PROVE  Row(list2, t, n + 1)[i] = Append(Row(list, t, n), At(list2, t, n))[i]
  <2>1. CASE i = n + 1
    <3>1. i - 1 = n
      BY <2>1
    <3>2. QED  BY <1>3, <1>4, <2>1, <3>1
  <2>2. CASE i # n + 1
    <3>1. i \in 1 .. n /\ i - 1 \in 0 .. n - 1
      BY <2>2
    <3>2. QED  BY <1>1, <1>3, <1>4, <3>1
  <2>3. QED  BY <2>1, <2>2
<1>6. QED  BY <1>3, <1>4, <1>5, SeqEqual

LEMMA AppendInConcat ==
    ASSUME NEW s \in Seq(Slot), NEW r \in Seq(Slot), NEW x \in Slot
    PROVE  s \o Append(r, x) = Append(s \o r, x) /\ s \o <<x>> = Append(s, x)
<1>1. <<x>> \in Seq(Slot) /\ s \o r \in Seq(Slot)
  BY ConcatProperties
<1>2. Append(r, x) = r \o <<x>> /\ Append(s \o r, x) = (s \o r) \o <<x>> /\ Append(s, x) = s \o <<x>>
  BY <1>1, AppendIsConcat
<1>3. QED  BY <1>1, <1>2, ConcatAssociative

(******************************************************************************)
(* The invariant                                                              *)
(******************************************************************************)

LEMMA FilesTyped ==
    ASSUME LoggerAssumption, RowsApart, LogInv, NEW t \in Used, file' = FlushedFile(t)
    PROVE  file' \in [Rows -> Seq(Slot)]
<1>1. /\ file \in [Rows -> Seq(Slot)] /\ t \in Rows /\ NUM_ENTRIES \in Nat
      /\ \A j \in 0 .. NUM_ENTRIES : At(step_work_list, t, j) \in Slot
  BY Numbers, NextSlotTypes DEF LogInv, TypeOK
<1>2. \A j \in 0 .. NUM_ENTRIES - 1 : At(step_work_list, t, j) \in Slot
  BY <1>1
<1>3. Row(step_work_list, t, NUM_ENTRIES) \in Seq(Slot)
  BY <1>1, <1>2, RowTypes
<1>4. file[t] \in Seq(Slot) /\ file[t] \o Row(step_work_list, t, NUM_ENTRIES) \in Seq(Slot)
  BY <1>1, <1>3, ConcatProperties
<1>5. file'[t] \in Seq(Slot)
  BY <1>4, Flushed
<1>6. \A u \in Rows : file'[u] \in Seq(Slot)
  BY <1>1, <1>5, Flushed
<1>7. file' = [u \in Rows |-> file'[u]]
  BY Flushed
<1>8. QED  BY <1>6, <1>7

\* What the other threads' part of the invariant needs.
LEMMA OthersHold ==
    ASSUME LoggerAssumption, RowsApart, LogInv, NEW t \in Used, OthersKept(t),
           NEW u \in Used \ {t}, inStep'[u] = inStep[u], inRegion'[u] = inRegion[u]
    PROVE  /\ inRegion'[u] => inStep'[u] /\ last_allocated'[u] < NUM_ENTRIES
           /\ last_allocated'[u] = NUM_ENTRIES => IsClear(At(step_work_list', u, NUM_ENTRIES))
           /\ ~inStep'[u] => At(step_work_list', u, last_allocated'[u]).region_work = NoRegions
           /\ \A i \in 1 .. last_allocated'[u] :
                 At(step_work_list', u, i - 1).region_work # NoRegions =>
                     At(step_work_list', u, i - 1).node_type = STEP
<1>1. /\ NUM_ENTRIES \in Nat \ {0} /\ last_allocated[u] \in 0 .. NUM_ENTRIES
      /\ last_allocated'[u] = last_allocated[u] /\ NUM_ENTRIES \in 0 .. NUM_ENTRIES
  BY Numbers DEF LogInv, TypeOK, OthersKept
<1>2. \A j \in 0 .. NUM_ENTRIES : At(step_work_list', u, j) = At(step_work_list, u, j)
  BY DEF OthersKept
<1>3. \A i \in 1 .. last_allocated[u] : i - 1 \in 0 .. NUM_ENTRIES
  BY <1>1
<1>4. QED
  BY <1>1, <1>2, <1>3 DEF LogInv, RegionsInRow, ClearBehind, NoneBetweenSteps, RegionWorkInSteps

\* An entry is closed: EndStep and NewNode.
LEMMA LogKeepsInv ==
    ASSUME LoggerAssumption, RowsApart, LogInv, NEW t \in Used, NEW n \in 0 .. MaxCalls + 1,
           NEW type \in Types, NEW count \in Nat, log(t, n, type, count),
           calls' \in 0 .. MaxCalls, closed' \in BOOLEAN,
           inStep' \in [Used -> BOOLEAN], inRegion' = inRegion, ~inRegion[t],
           \A u \in Used \ {t} : inStep'[u] = inStep[u],
           type = STEP \/ ~inStep[t]
    PROVE  LogInv'
<1>1. /\ OthersKept(t)
      /\ last_allocated'[t] = FlushedIndex(t) + 1
      /\ At(step_work_list', t, FlushedIndex(t)) = Stored(NextSlot(t), n, type, count)
      /\ IsClear(At(step_work_list', t, FlushedIndex(t) + 1))
      /\ \A j \in 0 .. FlushedIndex(t) - 1 : At(step_work_list', t, j) = At(step_work_list, t, j)
  BY LogStores
<1>2. PICK i \in 0 .. NUM_ENTRIES - 1, slot \in Slot :
         i = FlushedIndex(t) /\ slot = NextSlot(t)
  BY NextSlotTypes
<1>3. TypeOK'
  <2>1. file' \in [Rows -> Seq(Slot)]
    BY FilesTyped DEF log
  <2>2. inRegion' \in [Used -> BOOLEAN]
    BY DEF LogInv, TypeOK
  <2>3. QED  BY <1>1, <2>1, <2>2 DEF OthersKept, TypeOK, Slots
<1>4. \A j \in 1 .. i + 1 :
         At(step_work_list', t, j - 1).region_work # NoRegions =>
             At(step_work_list', t, j - 1).node_type = STEP
  <2>1. ASSUME NEW j \in 1 .. i + 1, j - 1 = i,
               At(step_work_list', t, j - 1).region_work # NoRegions
        PROVE  At(step_work_list', t, j - 1).node_type = STEP
    <3>1. At(step_work_list', t, i) = [node_id |-> n, node_type |-> type, work |-> slot.work + count,
                                      region_work |-> slot.region_work]
      BY <1>1, <1>2, SlotTypes
    <3>2. slot.region_work # NoRegions
      BY <2>1, <3>1
    <3>3. inStep[t]
      <4>1. ~Full(t) /\ slot = At(step_work_list, t, last_allocated[t])
        BY <1>2, <3>2, NextSlotTypes DEF IsClear, NextSlot
      <4>2. QED  BY <3>2, <4>1 DEF LogInv, NoneBetweenSteps
    <3>4. QED  BY <2>1, <3>1, <3>3
  <2>2. ASSUME NEW j \in 1 .. i + 1, j - 1 # i,
               At(step_work_list', t, j - 1).region_work # NoRegions
        PROVE  At(step_work_list', t, j - 1).node_type = STEP
    <3>1. j - 1 \in 0 .. i - 1 /\ j \in 1 .. i
      BY <1>2, <2>2
    <3>2. ~Full(t)
      BY <1>2, <3>1, NextSlotTypes
    <3>3. i = last_allocated[t]
      BY <1>2, <3>2, NextSlotTypes
    <3>4. At(step_work_list', t, j - 1) = At(step_work_list, t, j - 1)
      BY <1>1, <1>2, <3>1
    <3>5. QED  BY <2>2, <3>1, <3>3, <3>4 DEF LogInv, RegionWorkInSteps
  <2>3. QED  BY <2>1, <2>2
<1>5. last_allocated'[t] = i + 1 /\ IsClear(At(step_work_list', t, i + 1))
  BY <1>1, <1>2
<1>6. \A u \in Used \ {t} : inStep'[u] = inStep[u] /\ inRegion'[u] = inRegion[u]
  OBVIOUS
<1>7. RegionsInRow' /\ ClearBehind' /\ NoneBetweenSteps' /\ RegionWorkInSteps'
  <2>1. RegionsInRow'
    BY <1>1, <1>6, OthersHold DEF RegionsInRow
  <2>2. ClearBehind'
    BY <1>1, <1>5, <1>6, OthersHold DEF ClearBehind
  <2>3. NoneBetweenSteps'
    BY <1>1, <1>5, <1>6, OthersHold DEF NoneBetweenSteps, IsClear
  <2>4. RegionWorkInSteps'
    BY <1>1, <1>4, <1>5, <1>6, OthersHold DEF RegionWorkInSteps
  <2>5. QED  BY <2>1, <2>2, <2>3, <2>4
<1>8. QED  BY <1>3, <1>7 DEF LogInv

\* Something is counted for the next entry: the two ends of a region.
LEMMA GatherKeepsInv ==
    ASSUME LoggerAssumption, RowsApart, LogInv, NEW t \in Used, OthersKept(t),
           NEW i \in 0 .. NUM_ENTRIES - 1, last_allocated'[t] = i,
           Full(t) => i = 0, ~Full(t) => i = last_allocated[t],
           \A j \in 0 .. i - 1 : At(step_work_list', t, j) = At(step_work_list, t, j),
           file' \in [Rows -> Seq(Slot)], calls' \in 0 .. MaxCalls, closed' \in BOOLEAN,
           inStep' = inStep, inStep[t], inRegion' \in [Used -> BOOLEAN],
           \A u \in Used \ {t} : inRegion'[u] = inRegion[u]
    PROVE  LogInv'
<1>1. TypeOK'
  BY DEF OthersKept, TypeOK, Slots, LogInv
<1>2. last_allocated'[t] < NUM_ENTRIES /\ last_allocated'[t] # NUM_ENTRIES
  BY Numbers
<1>3. \A j \in 1 .. i :
         At(step_work_list', t, j - 1).region_work # NoRegions =>
             At(step_work_list', t, j - 1).node_type = STEP
  <2>1. ASSUME NEW j \in 1 .. i,
               At(step_work_list', t, j - 1).region_work # NoRegions
        PROVE  At(step_work_list', t, j - 1).node_type = STEP
    <3>1. j - 1 \in 0 .. i - 1 /\ i # 0
      BY <2>1
    <3>2. i = last_allocated[t]
      BY <3>1
    <3>3. At(step_work_list', t, j - 1) = At(step_work_list, t, j - 1)
      BY <3>1
    <3>4. QED  BY <2>1, <3>2, <3>3 DEF LogInv, RegionWorkInSteps
  <2>2. QED  BY <2>1
<1>4. \A u \in Used \ {t} : inStep'[u] = inStep[u] /\ inRegion'[u] = inRegion[u]
  OBVIOUS
<1>5. RegionsInRow' /\ ClearBehind' /\ NoneBetweenSteps' /\ RegionWorkInSteps'
  <2>1. RegionsInRow'
    BY <1>2, <1>4, OthersHold DEF RegionsInRow
  <2>2. ClearBehind'
    BY <1>2, <1>4, OthersHold DEF ClearBehind
  <2>3. NoneBetweenSteps'
    BY <1>4, OthersHold DEF NoneBetweenSteps
  <2>4. RegionWorkInSteps'
    BY <1>3, <1>4, OthersHold DEF RegionWorkInSteps
  <2>5. QED  BY <2>1, <2>2, <2>3, <2>4
<1>6. QED  BY <1>1, <1>5 DEF LogInv

LEMMA InitLog == LoggerAssumption /\ Init => LogInv
<1> SUFFICES ASSUME LoggerAssumption, Init
             PROVE  LogInv
  OBVIOUS
<1>1. /\ NUM_ENTRIES \in Nat \ {0} /\ MaxCalls \in Nat /\ Used \subseteq Rows
      /\ \A t \in Used : t \in Nat
  BY Numbers
<1>2. NoRegions \in [Regions -> Nat]
  BY DEF NoRegions
<1>3. /\ last_allocated = [t \in Rows |-> 0] /\ 0 \in 0 .. NUM_ENTRIES
      /\ \A t \in Used : last_allocated[t] = 0 /\ ~inRegion[t]
  BY <1>1 DEF Init
<1>4. TypeOK
  <2>1. step_work_list \in [Rows \X (0 .. NUM_ENTRIES - 1) -> Slot]
    <3>1. [node_id |-> 0, node_type |-> 0, work |-> 0, region_work |-> NoRegions] \in Slot
      BY <1>1, <1>2 DEF Slot
    <3>2. QED  BY <3>1 DEF Init
  <2>2. file \in [Rows -> Seq(Slot)]
    BY DEF Init
  <2>3. QED  BY <1>1, <1>3, <2>1, <2>2 DEF Init, TypeOK
<1>5. RegionsInRow /\ ClearBehind /\ RegionWorkInSteps
  BY <1>1, <1>3 DEF RegionsInRow, ClearBehind, RegionWorkInSteps
<1>6. NoneBetweenSteps
  <2>1. ASSUME NEW t \in Used
        PROVE  At(step_work_list, t, last_allocated[t]).region_work = NoRegions
    <3>1. Address(t, 0) = <<t, 0>> /\ <<t, 0>> \in Rows \X (0 .. NUM_ENTRIES - 1)
      BY <1>1 DEF Address
    <3>2. QED  BY <1>3, <3>1 DEF At, Init
  <2>2. QED  BY <2>1 DEF NoneBetweenSteps
<1>7. QED  BY <1>4, <1>5, <1>6 DEF LogInv

LEMMA StepKeepsInv ==
    ASSUME LoggerAssumption, RowsApart, ~RegionsSpanSpawns, LogInv, NEW t \in Used,
           \/ EndStep(t) \/ NewNode(t) \/ StartStep(t)
           \/ TP_CaptureBeginOptimize(t) \/ TP_CaptureEndOptimize(t)
    PROVE  LogInv'
<1>0. /\ calls \in 0 .. MaxCalls /\ MaxCalls \in Nat /\ closed \in BOOLEAN
      /\ inStep \in [Used -> BOOLEAN] /\ inRegion \in [Used -> BOOLEAN]
      /\ Used \subseteq Rows /\ NUM_ENTRIES \in Nat \ {0}
  BY Numbers DEF LogInv, TypeOK
<1>1. ASSUME Call
      PROVE  calls' \in 0 .. MaxCalls /\ calls' \in 0 .. MaxCalls + 1
  BY <1>0, <1>1 DEF Call
<1>2. CASE EndStep(t)
  <2>1. /\ Call /\ ~inRegion[t] /\ log(t, calls', STEP, 1) /\ STEP \in Types /\ 1 \in Nat
        /\ inStep' = [inStep EXCEPT ![t] = FALSE] /\ inRegion' = inRegion /\ closed' = closed
    BY <1>2 DEF EndStep, Types
  <2>2. inStep' \in [Used -> BOOLEAN] /\ \A u \in Used \ {t} : inStep'[u] = inStep[u]
    BY <1>0, <2>1
  <2>3. calls' \in 0 .. MaxCalls /\ calls' \in 0 .. MaxCalls + 1 /\ closed' \in BOOLEAN
    BY <1>0, <1>1, <2>1
  <2>4. QED  BY <2>1, <2>2, <2>3, LogKeepsInv
<1>3. CASE NewNode(t)
  <2>1. PICK type \in Types :
           /\ Call /\ ~inStep[t] /\ log(t, calls', type, 0) /\ 0 \in Nat
           /\ inStep' = inStep /\ inRegion' = inRegion /\ closed' = closed
    BY <1>3 DEF NewNode, Types
  <2>2. ~inRegion[t]
    BY <2>1 DEF LogInv, RegionsInRow
  <2>3. /\ calls' \in 0 .. MaxCalls /\ calls' \in 0 .. MaxCalls + 1 /\ closed' \in BOOLEAN
        /\ inStep' \in [Used -> BOOLEAN] /\ \A u \in Used \ {t} : inStep'[u] = inStep[u]
    BY <1>0, <1>1, <2>1
  <2>4. QED  BY <2>1, <2>2, <2>3, LogKeepsInv
<1>4. CASE StartStep(t)
  <2>1. /\ UNCHANGED <<step_work_list, last_allocated, file, closed, inRegion, calls>>
        /\ inStep' = [inStep EXCEPT ![t] = TRUE]
    BY <1>4 DEF StartStep, buffer
  <2>2. \A u \in Used : inStep[u] => inStep'[u]
    BY <1>0, <2>1
  <2>3. TypeOK'
    BY <1>0, <2>1 DEF LogInv, TypeOK
  <2>4. RegionsInRow' /\ ClearBehind' /\ NoneBetweenSteps' /\ RegionWorkInSteps'
    BY <2>1, <2>2 DEF LogInv, RegionsInRow, ClearBehind, NoneBetweenSteps, RegionWorkInSteps
  <2>5. QED  BY <2>3, <2>4 DEF LogInv
<1>5. CASE TP_CaptureBeginOptimize(t)
  <2>1. /\ Call /\ inStep[t] /\ log_intermediate_step(t, calls', 1) /\ 1 \in Nat
        /\ inRegion' = [inRegion EXCEPT ![t] = TRUE] /\ inStep' = inStep /\ closed' = closed
    BY <1>5 DEF TP_CaptureBeginOptimize
  <2>2. /\ calls' \in 0 .. MaxCalls /\ calls' \in 0 .. MaxCalls + 1 /\ closed' \in BOOLEAN
        /\ inRegion' \in [Used -> BOOLEAN] /\ \A u \in Used \ {t} : inRegion'[u] = inRegion[u]
    BY <1>0, <1>1, <2>1
  <2>3. /\ OthersKept(t) /\ last_allocated'[t] = FlushedIndex(t)
        /\ \A j \in 0 .. FlushedIndex(t) - 1 : At(step_work_list', t, j) = At(step_work_list, t, j)
    BY <2>1, <2>2, IntermediateStores
  <2>4. /\ FlushedIndex(t) \in 0 .. NUM_ENTRIES - 1
        /\ (Full(t) => FlushedIndex(t) = 0) /\ (~Full(t) => FlushedIndex(t) = last_allocated[t])
    BY NextSlotTypes
  <2>5. file' \in [Rows -> Seq(Slot)]
    BY <2>1, FilesTyped DEF log_intermediate_step
  <2>6. QED  BY <2>1, <2>2, <2>3, <2>4, <2>5, GatherKeepsInv
<1>6. CASE TP_CaptureEndOptimize(t)
  <2>1. PICK r \in Regions :
           /\ Call /\ inStep[t] /\ inRegion[t] /\ BufferRegion(t, calls', r, 1) /\ 1 \in Nat
           /\ inRegion' = [inRegion EXCEPT ![t] = FALSE] /\ inStep' = inStep /\ closed' = closed
    BY <1>6 DEF TP_CaptureEndOptimize
  <2>2. /\ calls' \in 0 .. MaxCalls /\ calls' \in 0 .. MaxCalls + 1 /\ closed' \in BOOLEAN
        /\ inRegion' \in [Used -> BOOLEAN] /\ \A u \in Used \ {t} : inRegion'[u] = inRegion[u]
    BY <1>0, <1>1, <2>1
  <2>3. last_allocated[t] < NUM_ENTRIES
    BY <2>1 DEF LogInv, RegionsInRow
  <2>4. /\ OthersKept(t) /\ last_allocated' = last_allocated /\ file' = file
        /\ \A j \in 0 .. last_allocated[t] - 1 :
              At(step_work_list', t, j) = At(step_work_list, t, j)
    BY <2>1, <2>2, <2>3, RegionBuffered
  <2>5. last_allocated[t] \in 0 .. NUM_ENTRIES - 1 /\ file \in [Rows -> Seq(Slot)] /\ ~Full(t)
    BY <1>0, <2>3 DEF LogInv, TypeOK, Full
  <2>6. QED  BY <2>1, <2>2, <2>4, <2>5, GatherKeepsInv
<1>7. QED  BY <1>2, <1>3, <1>4, <1>5, <1>6

\* What Fini writes.
LEMMA FiniWrites ==
    ASSUME LoggerAssumption, RowsApart, LogInv, Fini
    PROVE  LET last == Stored(At(step_work_list, 0, last_allocated[0]), calls + 1, STEP, 1)
           IN  /\ file' \in [Rows -> Seq(Slot)] /\ last \in Slot
               /\ \A t \in Used :
                     /\ file[t] \o Row(step_work_list, t, last_allocated[t]) \in Seq(Slot)
                     /\ file'[t] = IF t = 0
                           THEN Append(file[t] \o Row(step_work_list, t, last_allocated[t]), last)
                           ELSE file[t] \o Row(step_work_list, t, last_allocated[t])
<1> DEFINE here == At(step_work_list, 0, last_allocated[0])
           last == Stored(here, calls + 1, STEP, 1)
           rest(t) == Row(step_work_list, t, last_allocated[t])
           tail(t) == IF t = 0 THEN <<last>> ELSE <<>>
<1>1. /\ file \in [Rows -> Seq(Slot)] /\ Used \subseteq Rows /\ NUM_ENTRIES \in Nat \ {0}
      /\ calls + 1 \in 0 .. MaxCalls + 1
      /\ last_allocated \in [Rows -> 0 .. NUM_ENTRIES]
      /\ step_work_list \in [Slots -> Slot]
      /\ 0 \in Used
  BY Numbers DEF LogInv, TypeOK, Slots
<1>2. last \in Slot
  <2>1. here \in Slot
    BY <1>1, NextSlotTypes
  <2>2. STEP \in Types /\ 1 \in Nat
    BY DEF Types
  <2>3. QED  BY <1>1, <2>1, <2>2, SlotTypes
<1> HIDE DEF last
<1>3. \A t \in Rows : rest(t) \in Seq(Slot)
  <2>1. ASSUME NEW t \in Rows
        PROVE  rest(t) \in Seq(Slot)
    <3>1. \A j \in 0 .. last_allocated[t] - 1 : Address(t, j) = <<t, j>> /\ <<t, j>> \in Slots
      BY <1>1 DEF Address, Slots
    <3>2. \A j \in 0 .. last_allocated[t] - 1 : At(step_work_list, t, j) \in Slot
      BY <1>1, <3>1 DEF At
    <3>3. last_allocated[t] \in Nat
      BY <1>1
    <3>4. QED  BY <3>2, <3>3, RowTypes
  <2>2. QED  BY <2>1
<1>4. \A t \in Rows : tail(t) \in Seq(Slot)
  BY <1>2
<1>5. file' = [t \in Rows |-> file[t] \o rest(t) \o tail(t)]
  BY DEF Fini, WriteAll, last
<1>6. \A t \in Rows : file[t] \o rest(t) \in Seq(Slot) /\ (file[t] \o rest(t)) \o tail(t) \in Seq(Slot)
  BY <1>1, <1>3, <1>4, ConcatProperties
<1>7. file' \in [Rows -> Seq(Slot)]
  BY <1>5, <1>6
<1>8. ASSUME NEW t \in Used
      PROVE  file'[t] = IF t = 0 THEN Append(file[t] \o rest(t), last) ELSE file[t] \o rest(t)
  <2>1. file'[t] = (file[t] \o rest(t)) \o tail(t) /\ file[t] \o rest(t) \in Seq(Slot)
    BY <1>1, <1>5, <1>6
  <2>2. CASE t = 0
    <3>1. Append(file[t] \o rest(t), last) = (file[t] \o rest(t)) \o <<last>>
      BY <1>2, <2>1, AppendIsConcat
    <3>2. QED  BY <2>1, <2>2, <3>1
  <2>3. CASE t # 0
    <3>1. (file[t] \o rest(t)) \o <<>> = file[t] \o rest(t)
      BY <2>1, ConcatEmptySeq
    <3>2. QED  BY <2>1, <2>3, <3>1
  <2>4. QED  BY <2>2, <2>3
<1>9. QED  BY <1>1, <1>2, <1>6, <1>7, <1>8 DEF last

LEMMA NextKeepsInv ==
    ASSUME LoggerAssumption, RowsApart, ~RegionsSpanSpawns, LogInv, [Next]_vars
    PROVE  LogInv'
<1>1. CASE Fini
  <2>1. /\ UNCHANGED <<step_work_list, last_allocated, inStep, inRegion, calls>> /\ closed' = TRUE
    BY <1>1 DEF Fini, WriteAll
  <2>2. file' \in [Rows -> Seq(Slot)]
    BY <1>1, FiniWrites
  <2>3. TypeOK'
    BY <2>1, <2>2 DEF LogInv, TypeOK
  <2>4. RegionsInRow' /\ ClearBehind' /\ NoneBetweenSteps' /\ RegionWorkInSteps'
    BY <2>1 DEF LogInv, RegionsInRow, ClearBehind, NoneBetweenSteps, RegionWorkInSteps
  <2>5. QED  BY <2>3, <2>4 DEF LogInv
<1>2. CASE UNCHANGED vars
  BY <1>2 DEF vars, buffer, LogInv, TypeOK, RegionsInRow, ClearBehind, NoneBetweenSteps,
              RegionWorkInSteps
<1>3. QED  BY <1>1, <1>2, StepKeepsInv DEF Next, Terminated, OutOfCalls

(* For any number of threads, entries and regions: only the end of a step     *)
(* carries region work, as log and log_intermediate_step assert it.  A region *)
(* must end in its step, and no two threads may have neighbouring rows.       *)
THEOREM RegionWorkKept ==
    ASSUME RowsApart, ~RegionsSpanSpawns
    PROVE  Spec => []RegionWorkInSteps
<1>1. Init => LogInv
  BY InitLog, LoggerAssumption
<1>2. LogInv /\ [Next]_vars => LogInv'
  BY NextKeepsInv, LoggerAssumption
<1>3. LogInv => RegionWorkInSteps
  BY DEF LogInv
<1>4. QED  BY <1>1, <1>2, <1>3, PTL DEF Spec

(******************************************************************************)
(* Every thread has a log of its own                                          *)
(******************************************************************************)

\* What StepLog has of a thread.
Log == [t \in Used |-> LoggedBy(t)]
Open == [t \in Used |-> Gathered(t)]

\* What has been gathered, as the next call finds it.
LEMMA Gathers ==
    ASSUME LoggerAssumption, RowsApart, LogInv, NEW t \in Used, ~closed
    PROVE  /\ Gathered(t).work = NextSlot(t).work
           /\ Gathered(t).region_work = NextSlot(t).region_work
           /\ Gathered(t) = [work |-> NextSlot(t).work, region_work |-> NextSlot(t).region_work]
<1>1. Gathered(t) = [work |-> At(step_work_list, t, last_allocated[t]).work,
                     region_work |-> At(step_work_list, t, last_allocated[t]).region_work]
  BY DEF Gathered
<1>2. CASE Full(t)
  <2>1. IsClear(At(step_work_list, t, last_allocated[t])) /\ IsClear(NextSlot(t))
    BY <1>2, NextSlotTypes DEF LogInv, ClearBehind, Full
  <2>2. QED  BY <1>1, <2>1 DEF IsClear
<1>3. CASE ~Full(t)
  BY <1>1, <1>3 DEF NextSlot
<1>4. QED  BY <1>2, <1>3

\* The others' logs are not concerned.
LEMMA OthersLogs ==
    ASSUME LoggerAssumption, RowsApart, LogInv, NEW t \in Used, OthersKept(t), ~closed, ~closed',
           NEW u \in Used \ {t}, file'[u] = file[u]
    PROVE  LoggedBy(u)' = LoggedBy(u) /\ Gathered(u)' = Gathered(u)
<1>1. /\ last_allocated'[u] = last_allocated[u] /\ last_allocated[u] \in 0 .. NUM_ENTRIES
      /\ NUM_ENTRIES \in Nat
      /\ \A j \in 0 .. NUM_ENTRIES : At(step_work_list', u, j) = At(step_work_list, u, j)
  BY Numbers DEF OthersKept, LogInv, TypeOK
<1>2. Row(step_work_list', u, last_allocated[u]) = Row(step_work_list, u, last_allocated[u])
  <2>1. \A j \in 0 .. last_allocated[u] - 1 : At(step_work_list', u, j) = At(step_work_list, u, j)
    BY <1>1
  <2>2. QED  BY <1>1, <2>1, RowSame
<1>3. LoggedBy(u)' = LoggedBy(u)
  BY <1>1, <1>2 DEF LoggedBy
<1>4. Gathered(u)' = Gathered(u)
  BY <1>1 DEF Gathered
<1>5. QED  BY <1>3, <1>4

\* The thread's own, up to the slot that the call is about.
LEMMA OwnLog ==
    ASSUME LoggerAssumption, RowsApart, LogInv, NEW t \in Used, OthersKept(t), ~closed,
           \A j \in 0 .. FlushedIndex(t) - 1 : At(step_work_list', t, j) = At(step_work_list, t, j),
           file' = FlushedFile(t)
    PROVE  /\ file'[t] \o Row(step_work_list', t, FlushedIndex(t)) = LoggedBy(t)
           /\ LoggedBy(t) \in Seq(Slot)
<1>1. /\ NUM_ENTRIES \in Nat \ {0} /\ t \in Rows /\ file[t] \in Seq(Slot)
      /\ last_allocated[t] \in 0 .. NUM_ENTRIES
      /\ \A j \in 0 .. NUM_ENTRIES : At(step_work_list, t, j) \in Slot
  BY Numbers, NextSlotTypes DEF LogInv, TypeOK
<1>2. LoggedBy(t) = file[t] \o Row(step_work_list, t, last_allocated[t])
  BY DEF LoggedBy
<1>3. LoggedBy(t) \in Seq(Slot)
  <2>1. \A j \in 0 .. last_allocated[t] - 1 : At(step_work_list, t, j) \in Slot
    BY <1>1
  <2>2. Row(step_work_list, t, last_allocated[t]) \in Seq(Slot)
    BY <1>1, <2>1, RowTypes
  <2>3. QED  BY <1>1, <1>2, <2>2, ConcatProperties
<1>4. CASE Full(t)
  <2>1. file'[t] = LoggedBy(t) /\ FlushedIndex(t) = 0
    BY <1>2, <1>4, Flushed, NextSlotTypes DEF Full
  <2>2. Row(step_work_list', t, 0) = <<>>
    BY DEF Row
  <2>3. QED  BY <1>3, <2>1, <2>2, ConcatEmptySeq
<1>5. CASE ~Full(t)
  <2>1. file'[t] = file[t] /\ FlushedIndex(t) = last_allocated[t]
    BY <1>5, Flushed, NextSlotTypes
  <2>2. Row(step_work_list', t, last_allocated[t]) = Row(step_work_list, t, last_allocated[t])
    BY <1>1, <2>1, RowSame
  <2>3. QED  BY <1>2, <1>3, <2>1, <2>2
<1>6. QED  BY <1>4, <1>5

\* An entry that the logger closes is closed in the thread's log.
LEMMA LogCloses ==
    ASSUME LoggerAssumption, RowsApart, LogInv, NEW t \in Used, NEW n \in 1 .. MaxCalls + 1,
           NEW type \in Types, NEW count \in Nat, log(t, n, type, count), ~closed, ~closed'
    PROVE  StepLog!Close(t, n, type, count)
<1>1. n \in 0 .. MaxCalls + 1 /\ t \in Rows /\ Used \subseteq Rows /\ NUM_ENTRIES \in Nat \ {0}
  BY Numbers
<1>2. /\ OthersKept(t)
      /\ last_allocated'[t] = FlushedIndex(t) + 1
      /\ At(step_work_list', t, FlushedIndex(t)) = Stored(NextSlot(t), n, type, count)
      /\ IsClear(At(step_work_list', t, FlushedIndex(t) + 1))
      /\ \A j \in 0 .. FlushedIndex(t) - 1 : At(step_work_list', t, j) = At(step_work_list, t, j)
  BY <1>1, LogStores
<1>3. PICK i \in 0 .. NUM_ENTRIES - 1, slot \in Slot :
         i = FlushedIndex(t) /\ slot = NextSlot(t)
  BY NextSlotTypes
<1>4. /\ Stored(slot, n, type, count) \in Slot
      /\ Stored(slot, n, type, count)
             = [node_id |-> n, node_type |-> type, work |-> slot.work + count,
                region_work |-> slot.region_work]
  BY <1>1, SlotTypes
<1>5. file' = FlushedFile(t)
  BY DEF log
<1>6. LoggedBy(t)' = Append(LoggedBy(t), Stored(slot, n, type, count))
  <2>1. /\ file'[t] \o Row(step_work_list', t, i) = LoggedBy(t) /\ LoggedBy(t) \in Seq(Slot)
        /\ file'[t] \in Seq(Slot)
    BY <1>1, <1>2, <1>3, <1>5, OwnLog, FilesTyped
  <2>2. LoggedBy(t)' = file'[t] \o Row(step_work_list', t, i + 1)
    BY <1>2, <1>3 DEF LoggedBy
  <2>3. \A j \in 0 .. i - 1 : At(step_work_list', t, j) \in Slot
    <3>1. \A j \in 0 .. i - 1 : j \in 0 .. NUM_ENTRIES
      BY <1>1, <1>3
    <3>2. QED  BY <1>2, <1>3, <3>1, NextSlotTypes
  <2>4. /\ Row(step_work_list', t, i + 1)
              = Append(Row(step_work_list', t, i), Stored(slot, n, type, count))
        /\ Row(step_work_list', t, i) \in Seq(Slot)
    <3>1. i \in Nat /\ At(step_work_list', t, i) = Stored(slot, n, type, count)
      BY <1>1, <1>2, <1>3
    <3>2. PICK new \in Slot : new = Stored(slot, n, type, count)
      BY <1>4
    <3>3. Row(step_work_list', t, i + 1) = Append(Row(step_work_list', t, i), new)
      BY <2>3, <3>1, <3>2, RowGrows
    <3>4. Row(step_work_list', t, i) \in Seq(Slot)
      BY <2>3, <3>1, RowTypes
    <3>5. QED  BY <3>2, <3>3, <3>4
  <2>5. file'[t] \o Append(Row(step_work_list', t, i), Stored(slot, n, type, count))
           = Append(file'[t] \o Row(step_work_list', t, i), Stored(slot, n, type, count))
    <3>1. PICK new \in Slot : new = Stored(slot, n, type, count)
      BY <1>4
    <3>2. PICK a \in Seq(Slot), b \in Seq(Slot) : a = file'[t] /\ b = Row(step_work_list', t, i)
      BY <2>1, <2>4
    <3>3. a \o Append(b, new) = Append(a \o b, new)
      BY AppendInConcat
    <3>4. QED  BY <3>1, <3>2, <3>3
  <2>6. QED  BY <2>1, <2>2, <2>4, <2>5
<1>7. Gathered(t)' = StepLog!NoWork
  <2>1. IsClear(At(step_work_list', t, last_allocated'[t]))
    BY <1>2
  <2>2. QED  BY <2>1 DEF Gathered, StepLog!NoWork, IsClear, NoRegions
<1>8. \A u \in Used \ {t} : LoggedBy(u)' = LoggedBy(u) /\ Gathered(u)' = Gathered(u)
  <2>1. \A u \in Used \ {t} : file'[u] = file[u]
    BY <1>1, <1>5, Flushed
  <2>2. QED  BY <1>2, <2>1, OthersLogs
<1>9. Stored(slot, n, type, count) = StepLog!Closed(t, n, type, count)
  <2>1. Open[t].work = slot.work /\ Open[t].region_work = slot.region_work
    BY <1>3, Gathers DEF Open
  <2>2. StepLog!Closed(t, n, type, count)
          = [node_id |-> n, node_type |-> type, work |-> Open[t].work + count,
             region_work |-> Open[t].region_work]
    BY DEF StepLog!Closed, Open
  <2>3. QED  BY <1>4, <2>1, <2>2
<1>10. Log' = [Log EXCEPT ![t] = Append(@, StepLog!Closed(t, n, type, count))]
  BY <1>6, <1>8, <1>9 DEF Log
<1>11. Open' = [Open EXCEPT ![t] = StepLog!NoWork]
  BY <1>7, <1>8 DEF Open
<1>12. QED  BY <1>10, <1>11 DEF StepLog!Close, Log, Open

\* What is counted for the next entry is gathered in the thread's log.
LEMMA Gathering ==
    ASSUME LoggerAssumption, RowsApart, LogInv, NEW t \in Used, OthersKept(t),
           ~closed, ~closed', file' = FlushedFile(t), last_allocated'[t] = FlushedIndex(t),
           \A j \in 0 .. FlushedIndex(t) - 1 : At(step_work_list', t, j) = At(step_work_list, t, j),
           NEW gathered, Gathered(t)' = gathered
    PROVE  Log' = Log /\ Open' = [Open EXCEPT ![t] = gathered]
<1>1. LoggedBy(t)' = LoggedBy(t)
  BY OwnLog DEF LoggedBy
<1>2. \A u \in Used \ {t} : LoggedBy(u)' = LoggedBy(u) /\ Gathered(u)' = Gathered(u)
  <2>1. \A u \in Used \ {t} : file'[u] = file[u]
    BY Numbers, Flushed
  <2>2. QED  BY <2>1, OthersLogs
<1>3. QED  BY <1>1, <1>2 DEF Log, Open

LEMMA BeginGathers ==
    ASSUME LoggerAssumption, RowsApart, LogInv, NEW t \in Used, NEW n \in 0 .. MaxCalls + 1,
           log_intermediate_step(t, n, 1), ~closed, closed' = closed
    PROVE  StepLog!Gather(t)
<1>1. /\ OthersKept(t)
      /\ last_allocated'[t] = FlushedIndex(t)
      /\ At(step_work_list', t, FlushedIndex(t)) = Stored(NextSlot(t), n, STEP, 1)
      /\ \A j \in 0 .. FlushedIndex(t) - 1 : At(step_work_list', t, j) = At(step_work_list, t, j)
      /\ file' = FlushedFile(t)
  BY IntermediateStores DEF log_intermediate_step
<1>2. PICK slot \in Slot : slot = NextSlot(t)
  BY NextSlotTypes
<1>3. Stored(slot, n, STEP, 1)
          = [node_id |-> n, node_type |-> STEP, work |-> slot.work + 1,
             region_work |-> slot.region_work]
  <2>1. STEP \in Types /\ 1 \in Nat
    BY DEF Types
  <2>2. PICK one \in Nat : one = 1
    BY <2>1
  <2>3. Stored(slot, n, STEP, one)
          = [node_id |-> n, node_type |-> STEP, work |-> slot.work + one,
             region_work |-> slot.region_work]
    BY <2>1, SlotTypes
  <2>4. QED  BY <2>2, <2>3, Zenon
<1>4. Gathered(t)' = [work |-> slot.work + 1, region_work |-> slot.region_work]
  BY <1>1, <1>2, <1>3 DEF Gathered
<1>5. /\ Log' = Log
      /\ Open' = [Open EXCEPT ![t] = [work |-> slot.work + 1, region_work |-> slot.region_work]]
  BY <1>1, <1>4, Gathering
<1>6. Open[t] = [work |-> slot.work, region_work |-> slot.region_work]
  BY <1>2, Gathers DEF Open
<1>7. [Open[t] EXCEPT !.work = @ + 1] = [work |-> slot.work + 1, region_work |-> slot.region_work]
  BY <1>6
<1>8. Open' = [Open EXCEPT ![t].work = @ + 1]
  BY <1>5, <1>7
<1>9. QED  BY <1>5, <1>8 DEF StepLog!Gather, Log, Open

LEMMA EndGathers ==
    ASSUME LoggerAssumption, RowsApart, LogInv, NEW t \in Used, NEW n \in 0 .. MaxCalls + 1,
           NEW r \in Regions, BufferRegion(t, n, r, 1), last_allocated[t] < NUM_ENTRIES,
           ~closed, closed' = closed
    PROVE  StepLog!GatherRegion(t)
<1>0. LET a == At(step_work_list, t, last_allocated[t])
          b == At(step_work_list', t, last_allocated[t])
      IN  /\ OthersKept(t) /\ last_allocated' = last_allocated /\ file' = file
          /\ a \in Slot /\ b \in Slot /\ b.work = a.work + 1
          /\ b.region_work = [a.region_work EXCEPT ![r] = @ + 1]
          /\ \A j \in 0 .. last_allocated[t] - 1 :
                At(step_work_list', t, j) = At(step_work_list, t, j)
  <2>1. PICK one \in Nat : one = 1
    OBVIOUS
  <2>2. BufferRegion(t, n, r, one)
    BY <2>1, Zenon
  <2>3. LET a == At(step_work_list, t, last_allocated[t])
            b == At(step_work_list', t, last_allocated[t])
        IN  /\ OthersKept(t) /\ last_allocated' = last_allocated /\ file' = file
            /\ a \in Slot /\ b \in Slot /\ b.work = a.work + one
            /\ b.region_work = [a.region_work EXCEPT ![r] = @ + one]
            /\ \A j \in 0 .. last_allocated[t] - 1 :
                  At(step_work_list', t, j) = At(step_work_list, t, j)
    BY <2>2, RegionBuffered
  <2>4. QED  BY <2>1, <2>3, Zenon
<1>1. PICK here \in Slot, now \in Slot :
         /\ here = At(step_work_list, t, last_allocated[t])
         /\ now = At(step_work_list', t, last_allocated[t])
         /\ now.work = here.work + 1
         /\ now.region_work = [here.region_work EXCEPT ![r] = @ + 1]
  BY <1>0
<1>2. /\ OthersKept(t) /\ last_allocated' = last_allocated /\ file' = file
      /\ \A j \in 0 .. last_allocated[t] - 1 : At(step_work_list', t, j) = At(step_work_list, t, j)
  BY <1>0
<1>3. /\ ~Full(t) /\ FlushedIndex(t) = last_allocated[t] /\ file' = FlushedFile(t)
      /\ here = NextSlot(t)
  <2>1. ~Full(t)
    BY Numbers DEF Full
  <2>2. QED  BY <1>1, <1>2, <2>1 DEF FlushedIndex, FlushedFile, NextSlot
<1>4. Gathered(t)' = [work |-> now.work, region_work |-> now.region_work]
  BY <1>1, <1>2 DEF Gathered
<1>5. /\ Log' = Log
      /\ Open' = [Open EXCEPT ![t] = [work |-> now.work, region_work |-> now.region_work]]
  BY <1>2, <1>3, <1>4, Gathering
<1>6. Open[t] = [work |-> here.work, region_work |-> here.region_work]
  BY <1>3, Gathers DEF Open
<1>7. StepLog!InRegion(t, r, 1) = [work |-> now.work, region_work |-> now.region_work]
  <2>1. Open[t].work = here.work /\ Open[t].region_work = here.region_work
    BY <1>6
  <2>2. StepLog!InRegion(t, r, 1)
           = [work |-> Open[t].work + 1, region_work |-> [Open[t].region_work EXCEPT ![r] = @ + 1]]
    BY DEF StepLog!InRegion, Open
  <2>3. QED  BY <1>1, <2>1, <2>2
<1>8. Open' = [Open EXCEPT ![t] = StepLog!InRegion(t, r, 1)]
  BY <1>5, <1>7
<1>9. QED  BY <1>5, <1>8 DEF StepLog!GatherRegion, Log, Open

\* Fini closes main's log with its last step, and leaves the others' as they are.
LEMMA FiniFinishes ==
    ASSUME LoggerAssumption, RowsApart, LogInv, Fini
    PROVE  StepLog!Finish
<1>1. /\ ~closed /\ closed' = TRUE /\ calls \in 0 .. MaxCalls /\ MaxCalls \in Nat /\ 0 \in Used
      /\ last_allocated' = last_allocated /\ step_work_list' = step_work_list
  BY Numbers DEF Fini, WriteAll, LogInv, TypeOK
<1>2. PICK n \in 1 .. MaxCalls + 1, main \in Slot :
         n = calls + 1 /\ main = At(step_work_list, 0, last_allocated[0])
  <2>1. last_allocated \in [Rows -> 0 .. NUM_ENTRIES] /\ 0 \in Rows
    BY Numbers DEF LogInv, TypeOK
  <2>2. At(step_work_list, 0, last_allocated[0]) \in Slot
    BY <1>1, <2>1, NextSlotTypes
  <2>3. QED  BY <1>1, <2>2
<1>3. /\ \A t \in Used \ {0} : file'[t] = LoggedBy(t)
      /\ file'[0] = Append(LoggedBy(0), Stored(main, n, STEP, 1))
  BY <1>1, <1>2, FiniWrites DEF LoggedBy
<1>4. Stored(main, n, STEP, 1) = StepLog!Closed(0, n, STEP, 1)
  <2>1. n \in 0 .. MaxCalls + 1 /\ STEP \in Types /\ 1 \in Nat
    BY <1>1 DEF Types
  <2>2. PICK one \in Nat : one = 1
    BY <2>1
  <2>3. Stored(main, n, STEP, one)
          = [node_id |-> n, node_type |-> STEP, work |-> main.work + one,
             region_work |-> main.region_work]
    BY <2>1, SlotTypes
  <2>4. Open[0].work = main.work /\ Open[0].region_work = main.region_work
    BY <1>1, <1>2 DEF Open, Gathered
  <2>5. StepLog!Closed(0, n, STEP, 1)
          = [node_id |-> n, node_type |-> STEP, work |-> Open[0].work + 1,
             region_work |-> Open[0].region_work]
    BY DEF StepLog!Closed, Open
  <2>6. StepLog!Closed(0, n, STEP, 1)
          = [node_id |-> n, node_type |-> STEP, work |-> main.work + 1,
             region_work |-> main.region_work]
    BY <2>4, <2>5
  <2>7. QED  BY <2>2, <2>3, <2>6, Zenon
<1>5. Log' = [Log EXCEPT ![0] = Append(@, StepLog!Closed(0, n, STEP, 1))]
  <2>1. \A t \in Used : LoggedBy(t)' = file'[t]
    BY <1>1 DEF LoggedBy
  <2>2. QED  BY <1>1, <1>3, <1>4, <2>1 DEF Log
<1>6. Open' = [Open EXCEPT ![0] = StepLog!NoWork]
  <2>1. Gathered(0)' = StepLog!NoWork
    BY <1>1 DEF Gathered, StepLog!NoWork, NoRegions
  <2>2. \A t \in Used \ {0} : Gathered(t)' = Gathered(t)
    BY <1>1 DEF Gathered
  <2>3. QED  BY <1>1, <2>1, <2>2 DEF Open
<1>7. StepLog!Close(0, n, STEP, 1)
  BY <1>5, <1>6 DEF StepLog!Close, Log, Open
<1>8. n \in 1 .. MaxCalls + 1 /\ STEP \in {ASYNC, FINISH, STEP} /\ 1 \in {1}
  OBVIOUS
<1>9. QED  BY <1>1, <1>7, <1>8 DEF StepLog!Finish

\* A call of the logger closes an entry, gathers work, or is none of the log's.
LEMMA StepMaps ==
    ASSUME LoggerAssumption, RowsApart, ~RegionsSpanSpawns, LogInv, NEW t \in Used,
           \/ EndStep(t) \/ NewNode(t) \/ StartStep(t)
           \/ TP_CaptureBeginOptimize(t) \/ TP_CaptureEndOptimize(t)
    PROVE  [StepLog!Next]_(StepLog!vars)
<1>1. calls \in 0 .. MaxCalls /\ MaxCalls \in Nat
  BY Numbers DEF LogInv, TypeOK
<1>2. ASSUME Call
      PROVE  /\ ~closed /\ calls' \in 1 .. MaxCalls + 1 /\ calls' \in 0 .. MaxCalls + 1
  BY <1>1, <1>2 DEF Call
<1>3. ASSUME Call, closed' = closed, NEW type \in Types, NEW count \in {0, 1},
             log(t, calls', type, count)
      PROVE  StepLog!LogNode(t)
  <2>1. count \in Nat /\ type \in {ASYNC, FINISH, STEP} /\ count \in {1} \cup {0} /\ ~closed'
    BY <1>2, <1>3 DEF Types
  <2>2. PICK n \in 1 .. MaxCalls + 1 : n = calls'
    BY <1>2, <1>3
  <2>3. log(t, n, type, count)
    BY <1>3, <2>2
  <2>4. StepLog!Close(t, n, type, count)
    BY <1>2, <1>3, <2>1, <2>3, LogCloses
  <2>5. QED  BY <1>2, <1>3, <2>1, <2>4 DEF StepLog!LogNode
<1>4. CASE EndStep(t)
  <2>1. /\ Call /\ log(t, calls', STEP, 1) /\ closed' = closed
        /\ STEP \in Types /\ 1 \in {0, 1}
    BY <1>4 DEF EndStep, Types
  <2>2. QED  BY <1>3, <2>1 DEF StepLog!Next
<1>5. CASE NewNode(t)
  <2>1. PICK type \in Types : log(t, calls', type, 0) /\ Call /\ closed' = closed /\ 0 \in {0, 1}
    BY <1>5 DEF NewNode, Types
  <2>2. QED  BY <1>3, <2>1 DEF StepLog!Next
<1>6. CASE StartStep(t)
  BY <1>6 DEF StartStep, buffer, StepLog!vars, LoggedBy, Gathered, Row, At
<1>7. CASE TP_CaptureBeginOptimize(t)
  <2>1. /\ Call /\ log_intermediate_step(t, calls', 1) /\ closed' = closed
    BY <1>7 DEF TP_CaptureBeginOptimize
  <2>2. StepLog!Gather(t)
    BY <1>2, <2>1, BeginGathers
  <2>3. QED  BY <2>2 DEF StepLog!Next
<1>8. CASE TP_CaptureEndOptimize(t)
  <2>1. PICK r \in Regions :
           Call /\ inRegion[t] /\ BufferRegion(t, calls', r, 1) /\ closed' = closed
    BY <1>8 DEF TP_CaptureEndOptimize
  <2>2. last_allocated[t] < NUM_ENTRIES
    BY <2>1 DEF LogInv, RegionsInRow
  <2>3. StepLog!GatherRegion(t)
    BY <1>2, <2>1, <2>2, EndGathers
  <2>4. QED  BY <2>3 DEF StepLog!Next
<1>9. QED  BY <1>4, <1>5, <1>6, <1>7, <1>8

LEMMA NextMaps ==
    ASSUME LoggerAssumption, RowsApart, ~RegionsSpanSpawns, LogInv, [Next]_vars
    PROVE  [StepLog!Next]_(StepLog!vars)
<1>1. CASE Fini
  BY <1>1, FiniFinishes DEF StepLog!Next
<1>2. CASE UNCHANGED vars
  BY <1>2 DEF vars, buffer, StepLog!vars, LoggedBy, Gathered, Row, At
<1>3. QED  BY <1>1, <1>2, StepMaps DEF Next, Terminated, OutOfCalls

LEMMA InitMaps == LoggerAssumption /\ Init => StepLog!Init
<1> SUFFICES ASSUME LoggerAssumption, Init
             PROVE  StepLog!Init
  OBVIOUS
<1>1. /\ ~closed /\ closed = FALSE /\ Used \subseteq Rows /\ NUM_ENTRIES \in Nat \ {0}
      /\ \A t \in Used : last_allocated[t] = 0 /\ file[t] = <<>>
  BY Numbers DEF Init
<1>2. \A t \in Used : LoggedBy(t) = <<>>
  <2>1. ASSUME NEW t \in Used
        PROVE  LoggedBy(t) = <<>>
    <3>1. Row(step_work_list, t, 0) = <<>>
      BY DEF Row
    <3>2. <<>> \o <<>> = <<>>
      BY ConcatEmptySeq, EmptySeq
    <3>3. QED  BY <1>1, <3>1, <3>2 DEF LoggedBy
  <2>2. QED  BY <2>1
<1>3. \A t \in Used : Gathered(t) = StepLog!NoWork
  <2>1. ASSUME NEW t \in Used
        PROVE  Gathered(t) = StepLog!NoWork
    <3>1. Address(t, 0) = <<t, 0>> /\ <<t, 0>> \in Rows \X (0 .. NUM_ENTRIES - 1)
      BY <1>1 DEF Address
    <3>2. At(step_work_list, t, 0) = [node_id |-> 0, node_type |-> 0, work |-> 0,
                                      region_work |-> NoRegions]
      BY <3>1 DEF Init, At
    <3>3. QED  BY <1>1, <3>2 DEF Gathered, StepLog!NoWork, NoRegions
  <2>2. QED  BY <2>1
<1>4. QED  BY <1>1, <1>2, <1>3 DEF StepLog!Init

(* The buffer, its flushing and Fini are invisible to the callers: each thread *)
(* has a log of its own, as StepLog specifies it, in which a closed entry has  *)
(* exactly the work that was counted for it and nothing closed ever changes.   *)
THEOREM BufferIsInvisible ==
    ASSUME RowsApart, ~RegionsSpanSpawns
    PROVE  Spec => KeepsEveryEntry
<1>1. Init => LogInv
  BY InitLog, LoggerAssumption
<1>2. LogInv /\ [Next]_vars => LogInv'
  BY NextKeepsInv, LoggerAssumption
<1>3. Init => StepLog!Init
  BY InitMaps, LoggerAssumption
<1>4. LogInv /\ [Next]_vars => [StepLog!Next]_(StepLog!vars)
  BY NextMaps, LoggerAssumption
<1>5. QED  BY <1>1, <1>2, <1>3, <1>4, PTL DEF Spec, KeepsEveryEntry, StepLog!Spec

(* The same, of the types: an index never leaves its row's entries, a slot     *)
(* never holds another kind of node.                                           *)
THEOREM TypeCorrect ==
    ASSUME RowsApart, ~RegionsSpanSpawns
    PROVE  Spec => []TypeOK
<1>1. Init => LogInv
  BY InitLog, LoggerAssumption
<1>2. LogInv /\ [Next]_vars => LogInv'
  BY NextKeepsInv, LoggerAssumption
<1>3. LogInv => TypeOK
  BY DEF LogInv
<1>4. QED  BY <1>1, <1>2, <1>3, PTL DEF Spec

\* A sequence is the beginning of itself, and of itself with an entry more.
LEMMA SeqUnchanged ==
    ASSUME NEW S, NEW seq \in Seq(S)
    PROVE  seq = SubSeq(seq, 1, Len(seq))
<1>1. Len(seq) \in Nat /\ Len(seq) <= Len(seq) /\ 1 \in 1 .. Len(seq) + 1
  BY LenProperties
<1>2. /\ SubSeq(seq, 1, Len(seq)) \in Seq(S) /\ Len(SubSeq(seq, 1, Len(seq))) = Len(seq)
      /\ \A i \in 1 .. Len(seq) : SubSeq(seq, 1, Len(seq))[i] = seq[i]
  BY <1>1, SubSeqProperties
<1>3. QED  BY <1>2, SeqEqual

LEMMA SeqGrew ==
    ASSUME NEW S, NEW seq \in Seq(S), NEW entry
    PROVE  seq = SubSeq(Append(seq, entry), 1, Len(seq))
  OBVIOUS

LEMMA StepKeepsEntries ==
    ASSUME LoggerAssumption, RowsApart, ~RegionsSpanSpawns, LogInv, [Next]_vars
    PROVE  \A t \in Used : LoggedBy(t) = SubSeq(LoggedBy(t)', 1, Len(LoggedBy(t)))
<1>1. \/ Log' = Log
      \/ \E u \in Used : \E entry : Log' = [Log EXCEPT ![u] = Append(@, entry)]
  <2>1. [StepLog!Next]_(StepLog!vars)
    BY NextMaps
  <2>2. 0 \in Used
    BY Numbers
  <2>3. QED  BY <2>1, <2>2 DEF StepLog!Next, StepLog!LogNode, StepLog!Gather, StepLog!GatherRegion,
                   StepLog!Finish, StepLog!Close, StepLog!vars, Log
<1>2. ASSUME NEW t \in Used
      PROVE  LoggedBy(t) = SubSeq(LoggedBy(t)', 1, Len(LoggedBy(t)))
  <2>1. Log[t] = LoggedBy(t) /\ Log'[t] = LoggedBy(t)'
    BY DEF Log
  <2>2. PICK kept \in Seq(Slot) : kept = LoggedBy(t)
    <3>1. file[t] \in Seq(Slot)
      BY Numbers DEF LogInv, TypeOK
    <3>2. \A j \in 0 .. last_allocated[t] - 1 : At(step_work_list, t, j) \in Slot
      <4>1. last_allocated[t] \in 0 .. NUM_ENTRIES /\ NUM_ENTRIES \in Nat
        BY Numbers DEF LogInv, TypeOK
      <4>2. \A j \in 0 .. last_allocated[t] - 1 : j \in 0 .. NUM_ENTRIES
        BY <4>1
      <4>3. QED  BY <4>2, NextSlotTypes
    <3>3. last_allocated[t] \in Nat
      BY Numbers DEF LogInv, TypeOK
    <3>4. Row(step_work_list, t, last_allocated[t]) \in Seq(Slot)
      BY <3>2, <3>3, RowTypes
    <3>5. QED  BY <3>1, <3>4, ConcatProperties DEF LoggedBy
  <2>3. CASE LoggedBy(t)' = LoggedBy(t)
    BY <2>2, <2>3, SeqUnchanged
  <2>4. CASE \E entry : LoggedBy(t)' = Append(LoggedBy(t), entry)
    BY <2>2, <2>4, SeqGrew
  <2>5. LoggedBy(t)' = LoggedBy(t) \/ \E entry : LoggedBy(t)' = Append(LoggedBy(t), entry)
    <3>1. CASE Log' = Log
      BY <2>1, <3>1
    <3>2. ASSUME NEW u \in Used, NEW entry, Log' = [Log EXCEPT ![u] = Append(@, entry)]
          PROVE  LoggedBy(t)' = LoggedBy(t) \/ LoggedBy(t)' = Append(LoggedBy(t), entry)
      <4>1. Log = [v \in Used |-> Log[v]]
        BY DEF Log
      <4>2. Log'[t] = IF t = u THEN Append(Log[u], entry) ELSE Log[t]
        BY <3>2, <4>1
      <4>3. QED  BY <2>1, <4>2
    <3>3. QED  BY <1>1, <3>1, <3>2
  <2>6. QED  BY <2>3, <2>4, <2>5
<1>3. QED  BY <1>2

(* An entry that log has taken stays as it is, in the buffer, through a flush  *)
(* and through Fini.                                                           *)
THEOREM EntriesStay ==
    ASSUME RowsApart, ~RegionsSpanSpawns
    PROVE  Spec => EntriesKept
<1>1. Init => LogInv
  BY InitLog, LoggerAssumption
<1>2. LogInv /\ [Next]_vars => LogInv'
  BY NextKeepsInv, LoggerAssumption
<1>3. LogInv /\ [Next]_vars
        => [\A t \in Used : LoggedBy(t) = SubSeq(LoggedBy(t)', 1, Len(LoggedBy(t)))]_vars
  BY StepKeepsEntries, LoggerAssumption
<1>4. QED  BY <1>1, <1>2, <1>3, PTL DEF Spec, EntriesKept

================================================================================
