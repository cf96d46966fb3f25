--------------------------- MODULE Scheduler_proofs ----------------------------
(******************************************************************************)
(* The task pools and the dispatch loops, for any number of threads, any size *)
(* of the pools and every program.                                            *)
(*                                                                            *)
(* What a slot holds is its deque: the cells from the first that no thief has *)
(* announced to take to the last, the one the owner has announced included.   *)
(* Each protocol step leaves the deque as it is, takes its first or its last  *)
(* task, or adds tasks at its end.                                            *)
(*                                                                            *)
(* What a reference count counts is stated from what has been launched and    *)
(* what has ended, not from the history of the count: ProgramInv relates the  *)
(* children a task has launched, the parent each task object points to, the   *)
(* loops that wait and the cells of the pools.                                *)
(******************************************************************************)
EXTENDS Scheduler, SequenceTheorems, FiniteSetTheorems, TLAPS

Cell == Tasks \cup {NoTask}

Slot == [task_pool : {"empty", "locked", "open"}, head : Nat, tail : Int, cells : Seq(Cell)]

\* The owner of slot t has announced that it takes the last task.
Got(t) == IF pc[t] \in {"get", "lock"} THEN 1 ELSE 0

\* A thief has announced that it takes the first.
Raided(t) == IF \E u \in Threads : At(u, "raid") /\ victim[u] = t THEN 1 ELSE 0

First(s, raided) == s.head - raided

End(s, got) == s.tail + got

Deque(s, got, raided) ==
    [i \in 1 .. End(s, got) - First(s, raided) |-> s.cells[First(s, raided) + i]]

DequeOf(t) == Deque(slots[t], Got(t), Raided(t))

SlotOK(s, got, raided) ==
    /\ s \in Slot
    /\ (s.task_pool = "locked") <=> raided = 1
    /\ 0 <= First(s, raided) /\ First(s, raided) <= End(s, got) /\ End(s, got) <= Len(s.cells)
    /\ s.task_pool = "empty" => s.head = 0 /\ s.tail = 0 /\ got = 0

OneThief ==
    \A t, u \in Threads : At(t, "raid") /\ At(u, "raid") /\ victim[t] = victim[u] => t = u

SlotsOK == \A t \in Threads : SlotOK(slots[t], Got(t), Raided(t))

AwayIsEmpty ==
    \A t \in Threads : pc[t] \in {"steal", "raid", "away"} => slots[t].task_pool = "empty"

Places == {"away", "run", "look", "get", "lock", "steal", "raid"}

ThreadsTyped ==
    /\ DOMAIN slots = Threads
    /\ slots = [t \in Threads |-> slots[t]]
    /\ pc \in [Threads -> Places]
    /\ victim \in [Threads -> Threads]

PoolInv == ThreadsTyped /\ SlotsOK /\ AwayIsEmpty /\ OneThief

(******************************************************************************)
(* One slot                                                                   *)
(******************************************************************************)

\* The tasks in use, in an array that has m more cells.
LEMMA BusyCells ==
    ASSUME NEW cells \in Seq(Cell), NEW head \in Nat, NEW tail \in Int,
           head <= tail, tail <= Len(cells), NEW m \in Nat
    PROVE  LET busy == SubSeq(cells, head + 1, tail)
               joined == busy \o Poisoned(m)
           IN  /\ Len(busy) = tail - head
               /\ joined \in Seq(Cell) /\ Len(joined) = tail - head + m
               /\ \A i \in 1 .. tail - head : joined[i] = cells[head + i]
<1>1. PICK busy : busy = SubSeq(cells, head + 1, tail)
  OBVIOUS
<1>2. /\ busy \in Seq(Cell) /\ Len(busy) = tail - head
      /\ \A i \in 1 .. tail - head : busy[i] = cells[head + i]
  <2>1. \A i \in head + 1 .. tail : cells[i] \in Cell
    OBVIOUS
  <2>2. /\ SubSeq(cells, head + 1, tail) \in Seq(Cell)
        /\ Len(SubSeq(cells, head + 1, tail)) =
              IF head + 1 <= tail THEN tail - (head + 1) + 1 ELSE 0
        /\ \A i \in 1 .. tail - (head + 1) + 1 :
              SubSeq(cells, head + 1, tail)[i] = cells[head + 1 + i - 1]
    BY <2>1, SubSeqProperties
  <2>3. \A i \in 1 .. tail - head : i \in 1 .. tail - (head + 1) + 1 /\ head + 1 + i - 1 = head + i
    OBVIOUS
  <2>4. QED  BY <1>1, <2>2, <2>3
<1>3. PICK poison : poison = Poisoned(m)
  OBVIOUS
<1>4. poison \in Seq(Cell) /\ Len(poison) = m
  BY <1>3 DEF Poisoned, Cell
<1>5. /\ busy \o poison \in Seq(Cell) /\ Len(busy \o poison) = Len(busy) + Len(poison)
      /\ \A i \in 1 .. Len(busy) + Len(poison) :
            (busy \o poison)[i] = IF i <= Len(busy) THEN busy[i] ELSE poison[i - Len(busy)]
  BY <1>2, <1>4, ConcatProperties
<1>6. tail - head \in Nat /\ \A i \in 1 .. tail - head : i \in 1 .. (tail - head) + m /\ i <= tail - head
  OBVIOUS
<1>7. PICK size \in Nat : size = tail - head
  BY <1>6
<1>8. \A i \in 1 .. size : (busy \o poison)[i] = busy[i]
  BY <1>2, <1>4, <1>5, <1>6, <1>7
<1>9. QED  BY <1>1, <1>2, <1>3, <1>4, <1>5, <1>7, <1>8

\* The tasks move to the beginning of the array or of a new one.
LEMMA Relocated ==
    ASSUME NEW s \in Slot, SlotOK(s, 0, 0), NEW r \in Slot,
           r.task_pool = s.task_pool, r.head = 0, r.tail = s.tail - s.head,
           r.tail <= Len(r.cells),
           \A i \in 1 .. r.tail : r.cells[i] = s.cells[s.head + i]
    PROVE  SlotOK(r, 0, 0) /\ Deque(r, 0, 0) = Deque(s, 0, 0)
<1>1. PICK cells \in Seq(Cell), head \in Nat, tail \in Int, next \in Seq(Cell) :
         cells = s.cells /\ head = s.head /\ tail = s.tail /\ next = r.cells
  BY DEF Slot
<1>2. /\ Len(cells) \in Nat /\ Len(next) \in Nat
      /\ head <= tail /\ tail <= Len(cells) /\ s.task_pool # "locked"
  BY <1>1 DEF SlotOK, First, End
<1>3. PICK size \in Nat : size = tail - head
  BY <1>2
<1>4. /\ First(r, 0) = 0 /\ End(r, 0) = size
      /\ First(s, 0) = head /\ End(s, 0) = tail
  BY <1>1, <1>2, <1>3 DEF First, End
<1>5. SlotOK(r, 0, 0)
  <2>1. s.task_pool = "empty" => size = 0
    <3>1. s.task_pool = "empty" => head = 0 /\ tail = 0
      BY <1>1 DEF SlotOK
    <3>2. QED  BY <1>3, <3>1
  <2>2. r.head = 0 /\ r.tail = size /\ size <= Len(next) /\ next = r.cells
    BY <1>1, <1>3
  <2>3. r.task_pool = "empty" => size = 0
    BY <2>1
  <2>4. (r.task_pool = "locked") <=> 0 = 1
    BY <1>2
  <2>5. /\ 0 <= First(r, 0) /\ First(r, 0) <= End(r, 0)
        /\ End(r, 0) <= Len(r.cells)
    <3>1. r.tail + 0 = size /\ r.head - 0 = 0 /\ 0 <= size /\ size <= Len(r.cells)
      BY <2>2
    <3>2. QED  BY <3>1 DEF First, End
  <2>6. r.task_pool = "empty" => r.head = 0 /\ r.tail = 0 /\ 0 = 0
    BY <2>2, <2>3
  <2>7. QED  BY <2>4, <2>5, <2>6 DEF SlotOK
<1>6. Deque(r, 0, 0) = [i \in 1 .. size |-> next[i]]
  <2>1. size - 0 = size /\ \A i \in 1 .. size : 0 + i = i
    OBVIOUS
  <2>2. QED  BY <1>1, <1>4, <2>1 DEF Deque
<1>7. Deque(s, 0, 0) = [i \in 1 .. size |-> cells[head + i]]
  BY <1>1, <1>3, <1>4 DEF Deque
<1>8. \A i \in 1 .. size : next[i] = cells[head + i]
  BY <1>1, <1>3
<1>9. QED  BY <1>5, <1>6, <1>7, <1>8

\* Deque e is d, of length n, and then new.
Continued(d, e, n, new) ==
    /\ DOMAIN d = 1 .. n /\ DOMAIN e = 1 .. n + Len(new)
    /\ \A i \in 1 .. n : e[i] = d[i]
    /\ \A i \in 1 .. Len(new) : e[n + i] = new[i]

\* Spawned tasks are written behind the last.
LEMMA Committed ==
    ASSUME NEW s \in Slot, NEW raided \in {0, 1}, SlotOK(s, 0, raided),
           NEW new \in Seq(Tasks), s.tail + Len(new) <= Len(s.cells),
           NEW r, r = [task_pool |-> IF s.task_pool = "empty" THEN "open" ELSE s.task_pool,
                       head |-> s.head, tail |-> s.tail + Len(new),
                       cells |-> [i \in DOMAIN s.cells |->
                                    IF i \in s.tail + 1 .. s.tail + Len(new)
                                    THEN new[i - s.tail] ELSE s.cells[i]]]
    PROVE  /\ SlotOK(r, 0, raided)
           /\ \E n \in Nat :
                 Continued(Deque(s, 0, raided), Deque(r, 0, raided), n, new)
<1>0. PICK cells \in Seq(Cell), head \in Nat, tail \in Int, n \in Nat :
         cells = s.cells /\ head = s.head /\ tail = s.tail /\ n = Len(new)
  BY DEF Slot
<1>1. PICK next : /\ cells = s.cells /\ head = s.head /\ tail = s.tail /\ n = Len(new)
                  /\ next = [i \in DOMAIN cells |->
                                IF i \in tail + 1 .. tail + n THEN new[i - tail] ELSE cells[i]]
  BY <1>0
<1>2. PICK first \in Nat : first = First(s, raided)
  BY <1>0 DEF SlotOK, First
<1>3. /\ Len(cells) \in Nat
      /\ DOMAIN cells = 1 .. Len(cells) /\ tail + n <= Len(cells)
      /\ first <= tail /\ tail <= Len(cells)
  <2>1. End(s, 0) = tail
    BY <1>1 DEF End
  <2>2. first <= End(s, 0) /\ End(s, 0) <= Len(cells)
    BY <1>1, <1>2 DEF SlotOK
  <2>3. QED  BY <1>1, <2>1, <2>2
<1>4. /\ r.head = head /\ r.tail = tail + n /\ r.cells = next
      /\ r.task_pool = IF s.task_pool = "empty" THEN "open" ELSE s.task_pool
  BY <1>1
<1>5. next \in Seq(Cell) /\ Len(next) = Len(cells)
  <2>1. \A i \in 1 .. Len(cells) : next[i] \in Cell
    <3>1. \A i \in tail + 1 .. tail + n : i - tail \in 1 .. n
      BY <1>3
    <3>2. \A i \in 1 .. n : new[i] \in Cell
      BY <1>1 DEF Cell
    <3>3. QED  BY <1>1, <1>3, <3>1, <3>2
  <2>2. next = [i \in 1 .. Len(cells) |-> next[i]]
    BY <1>1, <1>3
  <2>3. QED  BY <1>3, <2>1, <2>2
<1>6. /\ \A i \in 1 .. tail : next[i] = cells[i]
      /\ \A i \in tail + 1 .. tail + n : next[i] = new[i - tail]
  <2>1. next = [i \in 1 .. Len(cells) |->
                   IF i \in tail + 1 .. tail + n THEN new[i - tail] ELSE cells[i]]
    BY <1>1, <1>3
  <2>2. \A i \in 1 .. tail : i \in 1 .. Len(cells) /\ i \notin tail + 1 .. tail + n
    BY <1>3
  <2>3. 0 <= tail
    BY <1>3
  <2>4. \A i \in tail + 1 .. tail + n : i \in 1 .. Len(cells)
    BY <1>3, <2>3
  <2>5. QED  BY <2>1, <2>2, <2>4
<1>7. r \in Slot
  BY <1>1, <1>3, <1>5 DEF Slot
<1>8. First(r, raided) = first
  BY <1>1, <1>2, <1>4 DEF First
<1>9. SlotOK(r, 0, raided)
  BY <1>3, <1>4, <1>5, <1>7, <1>8 DEF SlotOK, End
<1>10. PICK old, deque : old = Deque(s, 0, raided) /\ deque = Deque(r, 0, raided)
  OBVIOUS
<1>11. old = [i \in 1 .. tail - first |-> cells[first + i]]
  BY <1>1, <1>2, <1>3, <1>10 DEF Deque, End
<1>12. deque = [i \in 1 .. tail + n - first |-> next[first + i]]
  BY <1>3, <1>4, <1>8, <1>10 DEF Deque, End
<1>13. PICK size \in Nat : size = tail - first
  BY <1>3
<1>14. Continued(old, deque, size, new)
  <2>0. \A i \in 1 .. size : first + i \in 1 .. tail /\ i \in 1 .. size + n
    BY <1>3, <1>13
  <2>1. /\ \A i \in 1 .. n : first + (size + i) \in tail + 1 .. tail + n
                            /\ first + (size + i) - tail = i
                            /\ size + i \in 1 .. size + n
        /\ tail + n - first = size + n
    BY <1>3, <1>13
  <2>2. /\ old = [i \in 1 .. size |-> cells[first + i]]
        /\ deque = [i \in 1 .. size + n |-> next[first + i]]
    BY <1>11, <1>12, <1>13, <2>1
  <2>3. \A i \in 1 .. size : deque[i] = old[i]
    BY <1>6, <2>0, <2>2
  <2>4. ASSUME NEW i \in 1 .. n
        PROVE  deque[size + i] = new[i]
    <3>1. PICK j \in Int : j = first + (size + i)
      BY <1>3, <1>13
    <3>2. j \in tail + 1 .. tail + n /\ j - tail = i
      <4>1. first + (size + i) \in tail + 1 .. tail + n /\ first + (size + i) - tail = i
        BY <2>1
      <4>2. QED  BY <3>1, <4>1
    <3>3. next[j] = new[i]
      BY <1>6, <3>2
    <3>4. deque[size + i] = next[j]
      BY <2>1, <2>2, <3>1
    <3>5. QED  BY <3>3, <3>4
  <2>5. QED  BY <1>1, <2>2, <2>3, <2>4 DEF Continued
<1>15. QED  BY <1>9, <1>10, <1>13, <1>14

\* Deque d is k and then e, and the other way round.
FirstTaken(d, e, k) ==
    \E n \in Nat : /\ DOMAIN d = 1 .. n + 1 /\ DOMAIN e = 1 .. n
                   /\ d[1] = k /\ \A i \in 1 .. n : e[i] = d[i + 1]

LastTaken(d, e, k) ==
    \E n \in Nat : /\ DOMAIN d = 1 .. n + 1 /\ DOMAIN e = 1 .. n
                   /\ d[n + 1] = k /\ \A i \in 1 .. n : e[i] = d[i]

\* A deque, from its place.
Piece(cells, first, n) == [i \in 1 .. n |-> cells[first + i]]

LEMMA DequeIs ==
    ASSUME NEW s, NEW got, NEW raided, NEW first \in Int, NEW n \in Int,
           First(s, raided) = first, End(s, got) = first + n
    PROVE  Deque(s, got, raided) = Piece(s.cells, first, n)
<1>1. first + n - first = n
  OBVIOUS
<1>2. QED  BY <1>1 DEF Deque, Piece

\* The owner announces.
LEMMA TailLowered ==
    ASSUME NEW s \in Slot, NEW raided \in {0, 1}, SlotOK(s, 0, raided), s.task_pool # "empty",
           NEW r \in Slot, r.task_pool = s.task_pool, r.head = s.head, r.tail = s.tail - 1,
           r.cells = s.cells
    PROVE  SlotOK(r, 1, raided) /\ Deque(r, 1, raided) = Deque(s, 0, raided)
<1>1. PICK head \in Nat, tail \in Int : s.head = head /\ s.tail = tail
  BY DEF Slot
<1>2. PICK first \in Int, n \in Int : first = head - raided /\ n = tail - first
  OBVIOUS
<1>3. First(s, raided) = first /\ End(s, 0) = first + n
  BY <1>1, <1>2 DEF First, End
<1>4. First(r, raided) = first /\ End(r, 1) = first + n
  BY <1>1, <1>2 DEF First, End
<1>5. SlotOK(r, 1, raided)
  BY <1>3, <1>4 DEF SlotOK
<1>6. /\ Deque(s, 0, raided) = Piece(s.cells, first, n)
      /\ Deque(r, 1, raided) = Piece(r.cells, first, n)
  BY <1>3, <1>4, DequeIs
<1>7. QED  BY <1>5, <1>6

\* A thief announces.
LEMMA HeadRaised ==
    ASSUME NEW s \in Slot, NEW got \in {0, 1}, SlotOK(s, got, 0), s.task_pool = "open",
           NEW r \in Slot, r.task_pool = "locked", r.head = s.head + 1, r.tail = s.tail,
           r.cells = s.cells
    PROVE  SlotOK(r, got, 1) /\ Deque(r, got, 1) = Deque(s, got, 0)
<1>1. PICK head \in Nat, tail \in Int : s.head = head /\ s.tail = tail
  BY DEF Slot
<1>2. PICK first \in Int, n \in Int : first = head /\ n = tail + got - first
  OBVIOUS
<1>3. First(s, 0) = first /\ End(s, got) = first + n
  BY <1>1, <1>2 DEF First, End
<1>4. First(r, 1) = first /\ End(r, got) = first + n
  BY <1>1, <1>2 DEF First, End
<1>5. SlotOK(r, got, 1)
  BY <1>3, <1>4 DEF SlotOK
<1>6. /\ Deque(s, got, 0) = Piece(s.cells, first, n)
      /\ Deque(r, got, 1) = Piece(r.cells, first, n)
  BY <1>3, <1>4, DequeIs
<1>7. QED  BY <1>5, <1>6

\* The thief withdraws.
LEMMA HeadLowered ==
    ASSUME NEW s \in Slot, NEW got \in {0, 1}, SlotOK(s, got, 1),
           NEW r \in Slot, r.task_pool = "open", r.head = s.head - 1, r.tail = s.tail,
           r.cells = s.cells
    PROVE  SlotOK(r, got, 0) /\ Deque(r, got, 0) = Deque(s, got, 1)
<1>1. PICK head \in Nat, tail \in Int : s.head = head /\ s.tail = tail
  BY DEF Slot
<1>2. PICK first \in Int, n \in Int : first = head - 1 /\ n = tail + got - first
  OBVIOUS
<1>3. First(s, 1) = first /\ End(s, got) = first + n
  BY <1>1, <1>2 DEF First, End
<1>4. First(r, 0) = first /\ End(r, got) = first + n
  BY <1>1, <1>2 DEF First, End
<1>5. SlotOK(r, got, 0)
  BY <1>3, <1>4 DEF SlotOK
<1>6. /\ Deque(s, got, 1) = Piece(s.cells, first, n)
      /\ Deque(r, got, 0) = Piece(r.cells, first, n)
  BY <1>3, <1>4, DequeIs
<1>7. QED  BY <1>5, <1>6

\* The thief takes the first task.
LEMMA Stolen ==
    ASSUME NEW s \in Slot, NEW got \in {0, 1}, SlotOK(s, got, 1), s.head <= s.tail,
           NEW r \in Slot, r.task_pool = "open", r.head = s.head, r.tail = s.tail,
           Len(r.cells) = Len(s.cells),
           \A i \in 1 .. Len(s.cells) : i # s.head => r.cells[i] = s.cells[i]
    PROVE  /\ SlotOK(r, got, 0) /\ s.head \in 1 .. Len(s.cells)
           /\ FirstTaken(Deque(s, got, 1), Deque(r, got, 0), s.cells[s.head])
<1>1. PICK cells \in Seq(Cell), left \in Seq(Cell), head \in Nat, tail \in Int :
         s.cells = cells /\ s.head = head /\ s.tail = tail /\ r.cells = left
  BY DEF Slot
<1>2. PICK first \in Int, m \in Int : first = head - 1 /\ m = tail + got - head
  OBVIOUS
<1>3. First(s, 1) = first /\ End(s, got) = first + (m + 1)
  BY <1>1, <1>2 DEF First, End
<1>4. First(r, 0) = head /\ End(r, got) = head + m
  BY <1>1, <1>2 DEF First, End
<1>5. 0 <= first /\ first + (m + 1) <= Len(cells) /\ Len(cells) \in Nat
  <2>1. 0 <= First(s, 1) /\ End(s, got) <= Len(s.cells)
    BY DEF SlotOK
  <2>2. QED  BY <1>1, <1>3, <2>1
<1>6. /\ m \in Nat /\ head = first + 1 /\ head \in 1 .. Len(cells)
      /\ 0 <= head /\ head <= head + m /\ head + m <= Len(cells)
  BY <1>1, <1>2, <1>5
<1>7. /\ Len(left) = Len(cells)
      /\ \A i \in 1 .. Len(cells) : i # head => left[i] = cells[i]
  BY <1>1
<1>8. SlotOK(r, got, 0)
  BY <1>1, <1>4, <1>6, <1>7 DEF SlotOK
<1>9. FirstTaken(Deque(s, got, 1), Deque(r, got, 0), s.cells[s.head])
  <2>1. PICK d, e : d = Deque(s, got, 1) /\ e = Deque(r, got, 0)
    OBVIOUS
  <2>2. d = [i \in 1 .. m + 1 |-> cells[first + i]] /\ e = [i \in 1 .. m |-> left[head + i]]
    <3>1. PICK n \in Int : n = m + 1
      OBVIOUS
    <3>2. Deque(s, got, 1) = Piece(s.cells, first, n)
      BY <1>3, <3>1, DequeIs
    <3>3. Deque(r, got, 0) = Piece(r.cells, head, m)
      BY <1>4, DequeIs
    <3>4. QED  BY <1>1, <2>1, <3>1, <3>2, <3>3 DEF Piece
  <2>3. d[1] = cells[head]
    BY <1>6, <2>2
  <2>4. ASSUME NEW i \in 1 .. m
        PROVE  e[i] = d[i + 1]
    <3>1. /\ head + i \in 1 .. Len(cells) /\ head + i # head /\ i + 1 \in 1 .. m + 1
          /\ first + (i + 1) = head + i
      BY <1>5, <1>6
    <3>2. left[head + i] = cells[head + i]
      BY <1>7, <3>1
    <3>3. QED  BY <2>2, <3>1, <3>2
  <2>5. DOMAIN d = 1 .. m + 1 /\ DOMAIN e = 1 .. m
    BY <2>2
  <2>6. FirstTaken(d, e, cells[head])
    BY <1>6, <2>3, <2>4, <2>5 DEF FirstTaken
  <2>7. QED  BY <1>1, <2>1, <2>6
<1>10. QED  BY <1>1, <1>6, <1>8, <1>9

\* The owner takes the last task.
LEMMA LastCellTaken ==
    ASSUME NEW s \in Slot, NEW raided \in {0, 1}, SlotOK(s, 1, raided), s.head <= s.tail,
           NEW r \in Slot, r.task_pool = s.task_pool, r.head = s.head, r.tail = s.tail,
           Len(r.cells) = Len(s.cells),
           \A i \in 1 .. Len(s.cells) : i # s.tail + 1 => r.cells[i] = s.cells[i]
    PROVE  /\ SlotOK(r, 0, raided) /\ s.tail + 1 \in 1 .. Len(s.cells)
           /\ LastTaken(Deque(s, 1, raided), Deque(r, 0, raided), s.cells[s.tail + 1])
<1>1. PICK cells \in Seq(Cell), left \in Seq(Cell), head \in Nat, tail \in Int :
         s.cells = cells /\ s.head = head /\ s.tail = tail /\ r.cells = left
  BY DEF Slot
<1>2. PICK first \in Int, m \in Int : first = head - raided /\ m = tail - first
  OBVIOUS
<1>3. First(s, raided) = first /\ End(s, 1) = first + (m + 1)
  BY <1>1, <1>2 DEF First, End
<1>4. First(r, raided) = first /\ End(r, 0) = first + m
  BY <1>1, <1>2 DEF First, End
<1>5. 0 <= first /\ first + (m + 1) <= Len(cells) /\ Len(cells) \in Nat
  <2>1. 0 <= First(s, raided) /\ End(s, 1) <= Len(s.cells)
    BY DEF SlotOK
  <2>2. QED  BY <1>1, <1>3, <2>1
<1>6. /\ m \in Nat /\ first + (m + 1) = tail + 1 /\ tail + 1 \in 1 .. Len(cells)
      /\ first <= first + m /\ first + m <= Len(cells)
  BY <1>1, <1>2, <1>5
<1>7. /\ Len(left) = Len(cells)
      /\ \A i \in 1 .. Len(cells) : i # tail + 1 => left[i] = cells[i]
  BY <1>1
<1>8. SlotOK(r, 0, raided)
  <2>1. ((s.task_pool = "locked") <=> raided = 1) /\ s.task_pool # "empty"
    BY DEF SlotOK
  <2>2. QED  BY <1>1, <1>4, <1>5, <1>6, <1>7, <2>1 DEF SlotOK
<1>9. LastTaken(Deque(s, 1, raided), Deque(r, 0, raided), s.cells[s.tail + 1])
  <2>1. PICK d, e : d = Deque(s, 1, raided) /\ e = Deque(r, 0, raided)
    OBVIOUS
  <2>2. d = [j \in 1 .. m + 1 |-> cells[first + j]] /\ e = [j \in 1 .. m |-> left[first + j]]
    <3>1. PICK n \in Int : n = m + 1
      OBVIOUS
    <3>2. Deque(s, 1, raided) = Piece(s.cells, first, n)
      BY <1>3, <3>1, DequeIs
    <3>3. Deque(r, 0, raided) = Piece(r.cells, first, m)
      BY <1>4, DequeIs
    <3>4. QED  BY <1>1, <2>1, <3>1, <3>2, <3>3 DEF Piece
  <2>3. d[m + 1] = cells[tail + 1]
    BY <1>6, <2>2
  <2>4. ASSUME NEW j \in 1 .. m
        PROVE  e[j] = d[j]
    <3>1. first + j \in 1 .. Len(cells) /\ first + j # tail + 1 /\ j \in 1 .. m + 1
      BY <1>5, <1>6
    <3>2. left[first + j] = cells[first + j]
      BY <1>7, <3>1
    <3>3. QED  BY <2>2, <3>1, <3>2
  <2>5. DOMAIN d = 1 .. m + 1 /\ DOMAIN e = 1 .. m
    BY <2>2
  <2>6. LastTaken(d, e, cells[tail + 1])
    BY <1>6, <2>3, <2>4, <2>5 DEF LastTaken
  <2>7. QED  BY <1>1, <2>1, <2>6
<1>10. QED  BY <1>1, <1>6, <1>8, <1>9

(******************************************************************************)
(* The slots of all threads                                                   *)
(******************************************************************************)

\* The thieves and the owners that have announced, when t is no thief.
LEMMA Moved ==
    ASSUME ThreadsTyped, OneThief, NEW t \in Threads, NEW w \in Places,
           pc[t] # "raid", w # "raid", pc' = [pc EXCEPT ![t] = w], victim' = victim
    PROVE  /\ pc' \in [Threads -> Places] /\ victim' \in [Threads -> Threads] /\ OneThief'
           /\ \A u \in Threads : Raided(u)' = Raided(u) /\ Raided(u) \in {0, 1}
           /\ \A u \in Threads : Got(u) \in {0, 1} /\ (u # t => Got(u)' = Got(u))
           /\ Got(t)' = IF w \in {"get", "lock"} THEN 1 ELSE 0
<1>1. /\ pc \in [Threads -> Places] /\ victim \in [Threads -> Threads]
      /\ pc' \in [Threads -> Places] /\ pc'[t] = w /\ \A u \in Threads \ {t} : pc'[u] = pc[u]
  BY DEF ThreadsTyped
<1>2. \A u \in Threads : (pc'[u] = "raid") <=> (pc[u] = "raid")
  BY <1>1
<1>3. \A u \in Threads : Raided(u)' = Raided(u) /\ Raided(u) \in {0, 1}
  BY <1>2 DEF Raided, At
<1>4. OneThief'
  BY <1>2 DEF OneThief, At
<1>5. /\ \A u \in Threads : Got(u) \in {0, 1} /\ (u # t => Got(u)' = Got(u))
      /\ Got(t)' = IF w \in {"get", "lock"} THEN 1 ELSE 0
  BY <1>1 DEF Got
<1>6. QED  BY <1>1, <1>3, <1>4, <1>5

\* A step of the program or of a dispatch loop, away from the slots.
LEMMA QuietStep ==
    ASSUME PoolInv, NEW t \in Threads, NEW w \in Places,
           pc[t] # "raid", w # "raid", pc[t] \in {"get", "lock"} <=> w \in {"get", "lock"},
           w \in {"steal", "away"} => ~in_arena(t),
           pc' = [pc EXCEPT ![t] = w], victim' = victim, slots' = slots
    PROVE  PoolInv' /\ \A u \in Threads : DequeOf(u)' = DequeOf(u)
<1>1. /\ pc' \in [Threads -> Places] /\ victim' \in [Threads -> Threads] /\ OneThief'
      /\ \A u \in Threads : Raided(u)' = Raided(u) /\ Raided(u) \in {0, 1}
      /\ \A u \in Threads : Got(u) \in {0, 1} /\ (u # t => Got(u)' = Got(u))
      /\ Got(t)' = IF w \in {"get", "lock"} THEN 1 ELSE 0
  BY Moved DEF PoolInv
<1>2. \A u \in Threads : Got(u)' = Got(u)
  BY <1>1 DEF Got
<1>3. \A u \in Threads : DequeOf(u)' = DequeOf(u)
  BY <1>1, <1>2 DEF DequeOf
<1>4. SlotsOK'
  BY <1>1, <1>2 DEF SlotsOK, PoolInv
<1>5. ThreadsTyped'
  BY <1>1 DEF ThreadsTyped, PoolInv
<1>6. AwayIsEmpty'
  <2>1. /\ pc'[t] = w /\ \A u \in Threads \ {t} : pc'[u] = pc[u]
    BY DEF ThreadsTyped, PoolInv
  <2>2. QED  BY <2>1 DEF AwayIsEmpty, PoolInv, in_arena
<1>7. QED  BY <1>1, <1>3, <1>4, <1>5, <1>6 DEF PoolInv

\* The owner t changes its slot.
LEMMA OwnSlotStep ==
    ASSUME PoolInv, NEW t \in Threads, NEW w \in Places,
           pc[t] # "raid", w # "raid", pc' = [pc EXCEPT ![t] = w], victim' = victim,
           NEW r, slots' = [slots EXCEPT ![t] = r],
           SlotOK(r, IF w \in {"get", "lock"} THEN 1 ELSE 0, Raided(t)),
           w \in {"steal", "away"} => r.task_pool = "empty"
    PROVE  /\ PoolInv' /\ \A u \in Threads \ {t} : DequeOf(u)' = DequeOf(u)
           /\ DequeOf(t)' = Deque(r, IF w \in {"get", "lock"} THEN 1 ELSE 0, Raided(t))
<1>1. /\ pc' \in [Threads -> Places] /\ victim' \in [Threads -> Threads] /\ OneThief'
      /\ \A u \in Threads : Raided(u)' = Raided(u) /\ Raided(u) \in {0, 1}
      /\ \A u \in Threads : Got(u) \in {0, 1} /\ (u # t => Got(u)' = Got(u))
      /\ Got(t)' = IF w \in {"get", "lock"} THEN 1 ELSE 0
  BY Moved DEF PoolInv
<1>2. /\ DOMAIN slots' = Threads /\ slots' = [u \in Threads |-> slots'[u]]
      /\ slots'[t] = r /\ \A u \in Threads \ {t} : slots'[u] = slots[u]
  BY DEF ThreadsTyped, PoolInv
<1>3. \A u \in Threads \ {t} : DequeOf(u)' = DequeOf(u)
  BY <1>1, <1>2 DEF DequeOf
<1>4. DequeOf(t)' = Deque(r, IF w \in {"get", "lock"} THEN 1 ELSE 0, Raided(t))
  <2>1. DequeOf(t)' = Deque(slots'[t], Got(t)', Raided(t)')
    BY DEF DequeOf
  <2>2. QED  BY <1>1, <1>2, <2>1
<1>5. SlotsOK'
  <2>1. ASSUME NEW u \in Threads
        PROVE  SlotOK(slots[u]', Got(u)', Raided(u)')
    <3>1. CASE u = t
      BY <1>1, <1>2, <3>1
    <3>2. CASE u # t
      BY <1>1, <1>2, <3>2 DEF SlotsOK, PoolInv
    <3>3. QED  BY <3>1, <3>2
  <2>2. QED  BY <2>1 DEF SlotsOK
<1>6. ThreadsTyped'
  BY <1>1, <1>2 DEF ThreadsTyped
<1>7. AwayIsEmpty'
  <2>1. /\ pc'[t] = w /\ \A u \in Threads \ {t} : pc'[u] = pc[u]
    BY DEF ThreadsTyped, PoolInv
  <2>2. QED  BY <1>2, <2>1 DEF AwayIsEmpty, PoolInv
<1>8. QED  BY <1>1, <1>3, <1>4, <1>5, <1>6, <1>7 DEF PoolInv

\* A thief t at slot v announces, or decides and leaves.
LEMMA RaidStep ==
    ASSUME PoolInv, NEW t \in Threads, NEW v \in Threads, NEW w \in Places,
           pc[t] \in {"steal", "raid"}, pc[t] = "raid" => victim[t] = v,
           w \in {"run", "steal", "raid"}, w = "raid" => pc[t] # "raid" /\ Raided(v) = 0 /\ in_arena(v),
           w # "raid" => pc[t] = "raid",
           pc' = [pc EXCEPT ![t] = w],
           victim' = [victim EXCEPT ![t] = v],
           NEW r, slots' = [slots EXCEPT ![v] = r],
           SlotOK(r, Got(v), IF w = "raid" THEN 1 ELSE 0)
    PROVE  /\ PoolInv' /\ \A u \in Threads \ {v} : DequeOf(u)' = DequeOf(u)
           /\ DequeOf(v)' = Deque(r, Got(v), IF w = "raid" THEN 1 ELSE 0)
           /\ Raided(v) = IF w = "raid" THEN 0 ELSE 1
<1>1. /\ pc \in [Threads -> Places] /\ victim \in [Threads -> Threads]
      /\ pc' \in [Threads -> Places] /\ victim' \in [Threads -> Threads]
      /\ pc'[t] = w /\ \A u \in Threads \ {t} : pc'[u] = pc[u]
      /\ victim'[t] = v /\ \A u \in Threads \ {t} : victim'[u] = victim[u]
  BY DEF ThreadsTyped, PoolInv
<1>2. Raided(v) = 1 => in_arena(v)
  BY DEF PoolInv, SlotsOK, SlotOK, in_arena
<1>3. Raided(v) = IF w = "raid" THEN 0 ELSE 1
  BY <1>1 DEF Raided, At
<1>4. Raided(v)' = IF w = "raid" THEN 1 ELSE 0
  <2>1. CASE w = "raid"
    BY <1>1, <2>1 DEF Raided, At
  <2>2. CASE w # "raid"
    <3>1. \A u \in Threads : pc'[u] = "raid" => u # t /\ pc[u] = "raid" /\ victim'[u] = victim[u]
      BY <1>1, <2>2
    <3>2. \A u \in Threads : pc'[u] = "raid" => victim'[u] # v
      BY <3>1, <2>2 DEF OneThief, PoolInv, At
    <3>3. QED  BY <2>2, <3>2 DEF Raided, At
  <2>3. QED  BY <2>1, <2>2
<1>5. \A u \in Threads \ {v} : Raided(u)' = Raided(u)
  <2>1. ASSUME NEW u \in Threads \ {v}, NEW x \in Threads
        PROVE  (pc'[x] = "raid" /\ victim'[x] = u) <=> (pc[x] = "raid" /\ victim[x] = u)
    BY <1>1
  <2>2. QED  BY <2>1 DEF Raided, At
<1>6. \A u \in Threads : Got(u)' = Got(u) /\ Got(u) \in {0, 1}
  BY <1>1 DEF Got
<1>7. OneThief'
  <2>1. SUFFICES ASSUME NEW x \in Threads, NEW y \in Threads, pc'[x] = "raid", pc'[y] = "raid",
                        victim'[x] = victim'[y], x # y
                 PROVE  FALSE
    BY DEF OneThief, At
  <2>2. CASE w = "raid"
    <3>1. \A u \in Threads : pc[u] = "raid" => victim[u] # v
      BY <2>2 DEF Raided, At
    <3>2. QED  BY <1>1, <2>1, <3>1 DEF OneThief, PoolInv, At
  <2>3. CASE w # "raid"
    BY <1>1, <2>1, <2>3 DEF OneThief, PoolInv, At
  <2>4. QED  BY <2>2, <2>3
<1>8. /\ DOMAIN slots' = Threads /\ slots' = [u \in Threads |-> slots'[u]]
      /\ slots'[v] = r /\ \A u \in Threads \ {v} : slots'[u] = slots[u]
  BY DEF ThreadsTyped, PoolInv
<1>9. \A u \in Threads \ {v} : DequeOf(u)' = DequeOf(u)
  BY <1>5, <1>6, <1>8 DEF DequeOf
<1>10. DequeOf(v)' = Deque(r, Got(v), IF w = "raid" THEN 1 ELSE 0)
  <2>1. DequeOf(v)' = Deque(slots'[v], Got(v)', Raided(v)')
    BY DEF DequeOf
  <2>2. QED  BY <1>4, <1>6, <1>8, <2>1
<1>11. SlotsOK'
  <2>1. ASSUME NEW u \in Threads
        PROVE  SlotOK(slots[u]', Got(u)', Raided(u)')
    <3>1. CASE u = v
      BY <1>4, <1>6, <1>8, <3>1
    <3>2. CASE u # v
      BY <1>5, <1>6, <1>8, <3>2 DEF SlotsOK, PoolInv
    <3>3. QED  BY <3>1, <3>2
  <2>2. QED  BY <2>1 DEF SlotsOK
<1>12. ThreadsTyped'
  BY <1>1, <1>8 DEF ThreadsTyped
<1>13. AwayIsEmpty'
  <2>1. in_arena(v)
    BY <1>2, <1>3
  <2>2. slots[t].task_pool = "empty" /\ v # t
    BY <2>1 DEF AwayIsEmpty, PoolInv, in_arena
  <2>3. pc[v] \notin {"steal", "raid", "away"}
    BY <2>1 DEF AwayIsEmpty, PoolInv, in_arena
  <2>4. QED  BY <1>1, <1>8, <2>2, <2>3 DEF AwayIsEmpty, PoolInv
<1>14. QED  BY <1>3, <1>7, <1>9, <1>10, <1>11, <1>12, <1>13 DEF PoolInv

(******************************************************************************)
(* The steps of the owner and of the thief                                    *)
(******************************************************************************)

ProgramTyped == program \in Programs /\ done \in [Tasks -> Nat]

LEMMA ToSpawn ==
    ASSUME ProgramTyped, NEW k \in Tasks
    PROVE  /\ Kids(k) \in Seq(1 .. N) /\ Kids(k) \in Seq(Tasks) /\ Style(k) \in Styles
           /\ Spawns(k) \in Seq(Tasks)
<1>1. /\ Kids(k) \in Seq(1 .. N) /\ Style(k) \in Styles /\ done[k] \in Nat
      /\ \A i \in 1 .. N : i \in Tasks
  BY SchedulerAssumption DEF ProgramTyped, Kids, Style, Tasks
<1>2. PICK kids \in Seq(1 .. N), n \in Nat : kids = Kids(k) /\ n = done[k]
  BY <1>1
<1>3. kids \in Seq(Tasks) /\ Len(kids) \in Nat /\ DOMAIN kids = 1 .. Len(kids)
  <2>1. 1 .. N \subseteq Tasks
    BY <1>1
  <2>2. QED  BY <2>1, SeqMonotonic, LenProperties
<1>4. Reverse(kids) \in Seq(Tasks)
  <2>1. \A i \in 1 .. Len(kids) : (Len(kids) - i) + 1 \in 1 .. Len(kids)
    BY <1>3
  <2>2. \A i \in 1 .. Len(kids) : kids[(Len(kids) - i) + 1] \in Tasks
    BY <1>3, <2>1
  <2>3. QED  BY <1>3, <2>2 DEF Reverse
<1>5. n + 1 <= Len(kids) => <<kids[n + 1]>> \in Seq(Tasks)
  BY <1>3
<1>6. <<>> \in Seq(Tasks)
  OBVIOUS
<1>7. PICK left \in Int : left = Len(kids) - n
  <2>1. PICK len \in Nat : len = Len(kids)
    BY <1>3
  <2>2. len - n \in Int
    OBVIOUS
  <2>3. QED  BY <2>1, <2>2
<1>8. Spawns(k) = CASE Style(k) = "list" /\ left > 0 -> Reverse(kids)
                    [] \/ Style(k) \in {"wait", "split"} /\ left > 0
                       \/ Style(k) = "both" /\ left > 1 -> <<kids[n + 1]>>
                    [] OTHER -> <<>>
  BY <1>2, <1>7 DEF Spawns
<1>9. Spawns(k) \in Seq(Tasks)
  <2>1. CASE Style(k) = "list" /\ left > 0
    <3>1. Spawns(k) = Reverse(kids)
      BY <1>8, <2>1
    <3>2. QED  BY <1>4, <3>1
  <2>2. CASE \/ Style(k) \in {"wait", "split"} /\ left > 0
             \/ Style(k) = "both" /\ left > 1
    <3>1. Spawns(k) = <<kids[n + 1]>>
      BY <1>8, <2>2
    <3>2. n + 1 <= Len(kids)
      BY <1>3, <1>7, <2>2
    <3>3. QED  BY <1>5, <3>1, <3>2
  <2>3. CASE /\ ~(Style(k) = "list" /\ left > 0)
             /\ ~(\/ Style(k) \in {"wait", "split"} /\ left > 0
                  \/ Style(k) = "both" /\ left > 1)
    <3>1. Spawns(k) = <<>>
      BY <1>8, <2>3
    <3>2. QED  BY <1>6, <3>1
  <2>4. QED  BY <2>1, <2>2, <2>3
<1>10. QED  BY <1>1, <1>2, <1>3, <1>9

\* What PoolInv says of the slot of t.
LEMMA OwnSlot ==
    ASSUME PoolInv, NEW t \in Threads
    PROVE  /\ slots[t] \in Slot /\ SlotOK(slots[t], Got(t), Raided(t))
           /\ Got(t) \in {0, 1} /\ Raided(t) \in {0, 1}
           /\ pc[t] \in Places /\ victim[t] \in Threads
           /\ (slots[t].task_pool = "locked") <=> Raided(t) = 1
           /\ pc[t] \in {"steal", "raid", "away"} => ~in_arena(t)
  BY DEF PoolInv, SlotsOK, SlotOK, Got, Raided, ThreadsTyped, AwayIsEmpty, in_arena

\* The tasks are moved, or get a larger array.
LEMMA MakeRoomStep ==
    ASSUME PoolInv, ProgramTyped, NEW t \in Threads, MakeRoom(t)
    PROVE  PoolInv' /\ \A u \in Threads : DequeOf(u)' = DequeOf(u)
<1>1. PICK s, n : s = slots[t] /\ n = Len(Spawns(Current(t)))
  OBVIOUS
<1>2. /\ s \in Slot /\ pc[t] = "run" /\ Got(t) = 0 /\ Raided(t) = 0
      /\ SlotOK(s, 0, 0) /\ n \in Nat
  <2>1. pc[t] = "run" /\ Current(t) \in Tasks /\ Unlocked(t)
    BY DEF MakeRoom, Executes, At, prepare_task_pool
  <2>2. Got(t) = 0 /\ Raided(t) = 0
    BY <2>1, OwnSlot DEF Got, Unlocked
  <2>3. Spawns(Current(t)) \in Seq(Tasks)
    BY <2>1, ToSpawn
  <2>4. QED  BY <1>1, <2>1, <2>2, <2>3, OwnSlot
<1>3. PICK cells \in Seq(Cell), head \in Nat, tail \in Int, size \in Nat :
         cells = s.cells /\ head = s.head /\ tail = s.tail /\ size = Len(cells)
  BY <1>2 DEF Slot
<1>4. head <= tail /\ tail <= size
  <2>1. First(s, 0) = head /\ End(s, 0) = tail
    BY <1>3 DEF First, End
  <2>2. QED  BY <1>2, <1>3, <2>1 DEF SlotOK
<1>5. PICK busy : busy = SubSeq(cells, head + 1, tail)
  OBVIOUS
<1>6. Len(busy) = tail - head /\ tail - head \in Nat
  <2>1. Len(SubSeq(cells, head + 1, tail)) = tail - head
    BY <1>3, <1>4, BusyCells, 0 \in Nat
  <2>2. QED  BY <1>4, <1>5, <2>1
<1>7. PICK used \in Nat : used = tail - head
  BY <1>6
<1>8. PICK m \in Nat :
         slots' = [slots EXCEPT ![t].head = 0, ![t].tail = used, ![t].cells = busy \o Poisoned(m)]
  <2>1. PICK grown :
           /\ grown = (IF used + n <= size - MinPoolSize \div 4 THEN size
                       ELSE Larger(used + n, IF size = 0 THEN MinPoolSize ELSE 2 * size))
           /\ slots' = [slots EXCEPT ![t].head = 0, ![t].tail = used,
                                     ![t].cells = busy \o Poisoned(grown - used)]
    BY <1>1, <1>3, <1>5, <1>6, <1>7 DEF MakeRoom, prepare_task_pool
  <2>2. grown \in Int /\ used <= grown
    <3>1. PICK q \in Nat : q = MinPoolSize \div 4
      BY TaskPoolAssumption
    <3>2. PICK larger \in Int : larger = IF size = 0 THEN MinPoolSize ELSE 2 * size
      BY TaskPoolAssumption
    <3>3. Larger(used + n, larger) \in Int /\ used + n <= Larger(used + n, larger)
      BY <1>2 DEF Larger
    <3>4. CASE used + n <= size - q
      BY <1>2, <2>1, <3>1, <3>4
    <3>5. CASE ~(used + n <= size - q)
      BY <1>2, <2>1, <3>1, <3>2, <3>3, <3>5
    <3>6. QED  BY <3>4, <3>5
  <2>3. grown - used \in Nat
    BY <2>2
  <2>4. QED  BY <2>1, <2>3
<1>9. PICK all : all = busy \o Poisoned(m)
  OBVIOUS
<1>10. /\ all \in Seq(Cell) /\ Len(all) = used + m
       /\ \A i \in 1 .. used : all[i] = cells[head + i]
  <2>1. /\ SubSeq(cells, head + 1, tail) \o Poisoned(m) \in Seq(Cell)
        /\ Len(SubSeq(cells, head + 1, tail) \o Poisoned(m)) = tail - head + m
        /\ \A i \in 1 .. tail - head :
              (SubSeq(cells, head + 1, tail) \o Poisoned(m))[i] = cells[head + i]
    <3>1. head <= tail /\ tail <= Len(cells)
      BY <1>3, <1>4
    <3>2. QED  BY <3>1, BusyCells
  <2>2. QED  BY <1>5, <1>7, <1>9, <2>1
<1>11. PICK r : r = [s EXCEPT !.head = 0, !.tail = used, !.cells = all]
  OBVIOUS
<1>12. /\ r \in Slot /\ r.task_pool = s.task_pool /\ r.head = 0 /\ r.tail = used
       /\ r.cells = all
  <2>1. r = [task_pool |-> s.task_pool, head |-> 0, tail |-> used, cells |-> all]
    BY <1>2, <1>11 DEF Slot
  <2>2. s.task_pool \in {"empty", "locked", "open"}
    BY <1>2 DEF Slot
  <2>3. QED  BY <1>10, <2>1, <2>2 DEF Slot
<1>13. slots' = [slots EXCEPT ![t] = r]
  BY <1>1, <1>8, <1>9, <1>11 DEF PoolInv, ThreadsTyped
<1>14. SlotOK(r, 0, 0) /\ Deque(r, 0, 0) = Deque(s, 0, 0)
  <2>1. r.tail = s.tail - s.head /\ r.tail <= Len(r.cells)
    BY <1>3, <1>7, <1>10, <1>12
  <2>2. \A i \in 1 .. r.tail : r.cells[i] = s.cells[s.head + i]
    BY <1>3, <1>10, <1>12
  <2>3. QED  BY <1>2, <1>12, <2>1, <2>2, Relocated
<1>15. pc' = [pc EXCEPT ![t] = "run"] /\ victim' = victim
  BY <1>2 DEF MakeRoom, PoolInv, ThreadsTyped
<1>16. /\ PoolInv' /\ \A u \in Threads \ {t} : DequeOf(u)' = DequeOf(u)
       /\ DequeOf(t)' = Deque(r, 0, 0)
  <2>1. "run" \in Places /\ "run" \notin {"get", "lock"} /\ "run" \notin {"steal", "away"}
    BY DEF Places
  <2>2. QED  BY <1>2, <1>13, <1>14, <1>15, <2>1, OwnSlotStep
<1>17. DequeOf(t)' = DequeOf(t)
  BY <1>1, <1>2, <1>14, <1>16 DEF DequeOf
<1>18. QED  BY <1>16, <1>17

\* A slot with other cells.
LEMMA SlotRecord ==
    ASSUME NEW s \in Slot, NEW cells
    PROVE  [s EXCEPT !.cells = cells] = [task_pool |-> s.task_pool, head |-> s.head,
                                        tail |-> s.tail, cells |-> cells]
<1>1. PICK a, b, c, d : s = [task_pool |-> a, head |-> b, tail |-> c, cells |-> d]
  BY DEF Slot
<1>2. s.task_pool = a /\ s.head = b /\ s.tail = c
  BY <1>1
<1>3. [s EXCEPT !.cells = cells] = [task_pool |-> a, head |-> b, tail |-> c, cells |-> cells]
  BY <1>1
<1>4. QED  BY <1>2, <1>3

\* Spawned tasks go behind the last.
LEMMA SpawnStep ==
    ASSUME PoolInv, ProgramTyped, NEW t \in Threads, local_spawn(t)
    PROVE  /\ PoolInv' /\ \A u \in Threads \ {t} : DequeOf(u)' = DequeOf(u)
           /\ \E n \in Nat : Continued(DequeOf(t), DequeOf(t)', n, Spawns(Current(t)))
<1>1. PICK s, new, raided : s = slots[t] /\ new = Spawns(Current(t)) /\ raided = Raided(t)
  OBVIOUS
<1>2. /\ s \in Slot /\ pc[t] = "run" /\ Got(t) = 0 /\ raided \in {0, 1}
      /\ SlotOK(s, 0, raided) /\ new \in Seq(Tasks)
  <2>1. pc[t] = "run" /\ Current(t) \in Tasks
    BY DEF local_spawn, Executes, At
  <2>2. Got(t) = 0
    BY <2>1 DEF Got
  <2>3. new \in Seq(Tasks)
    BY <1>1, <2>1, ToSpawn
  <2>4. QED  BY <1>1, <2>1, <2>2, <2>3, OwnSlot
<1>3. PICK r :
         r = [task_pool |-> IF s.task_pool = "empty" THEN "open" ELSE s.task_pool,
              head |-> s.head, tail |-> s.tail + Len(new),
              cells |-> [i \in DOMAIN s.cells |->
                           IF i \in s.tail + 1 .. s.tail + Len(new)
                           THEN new[i - s.tail] ELSE s.cells[i]]]
  OBVIOUS
<1>4. s.tail + Len(new) <= Len(s.cells)
  BY <1>1 DEF local_spawn, commit_spawned_tasks, HasRoom
<1>5. slots' = [slots EXCEPT ![t] = r]
  <2>1. slots' = [slots EXCEPT ![t].cells = r.cells, ![t].tail = r.tail,
                               ![t].task_pool = r.task_pool]
    BY <1>1, <1>3 DEF local_spawn, commit_spawned_tasks
  <2>2. slots' = [slots EXCEPT ![t] = [s EXCEPT !.cells = r.cells, !.tail = r.tail,
                                                !.task_pool = r.task_pool]]
    BY <1>1, <2>1 DEF PoolInv, ThreadsTyped
  <2>3. PICK x : x = [s EXCEPT !.cells = r.cells, !.tail = r.tail, !.task_pool = r.task_pool]
    OBVIOUS
  <2>4. x = [task_pool |-> r.task_pool, head |-> s.head, tail |-> r.tail, cells |-> r.cells]
    BY <1>2, <2>3 DEF Slot
  <2>5. r = [task_pool |-> r.task_pool, head |-> s.head, tail |-> r.tail, cells |-> r.cells]
    BY <1>3
  <2>6. QED  BY <2>2, <2>3, <2>4, <2>5
<1>6. SlotOK(r, 0, raided) /\ \E n \in Nat : Continued(Deque(s, 0, raided), Deque(r, 0, raided), n, new)
  BY <1>2, <1>3, <1>4, Committed
<1>7. pc' = [pc EXCEPT ![t] = "run"] /\ victim' = victim
  BY <1>2 DEF local_spawn, PoolInv, ThreadsTyped
<1>8. /\ PoolInv' /\ \A u \in Threads \ {t} : DequeOf(u)' = DequeOf(u)
      /\ DequeOf(t)' = Deque(r, 0, raided)
  <2>1. "run" \in Places /\ "run" \notin {"get", "lock"} /\ "run" \notin {"steal", "away"}
    BY DEF Places
  <2>2. QED  BY <1>1, <1>2, <1>5, <1>6, <1>7, <2>1, OwnSlotStep
<1>9. DequeOf(t) = Deque(s, 0, raided)
  BY <1>1, <1>2 DEF DequeOf
<1>10. QED  BY <1>1, <1>6, <1>8, <1>9

\* The owner announces.
LEMMA LookInPoolStep ==
    ASSUME PoolInv, NEW t \in Threads, LookInPool(t)
    PROVE  PoolInv' /\ \A u \in Threads : DequeOf(u)' = DequeOf(u)
<1>1. PICK s, raided : s = slots[t] /\ raided = Raided(t)
  OBVIOUS
<1>2. /\ s \in Slot /\ pc[t] = "look" /\ Got(t) = 0 /\ raided \in {0, 1}
      /\ SlotOK(s, 0, raided) /\ s.task_pool # "empty"
  <2>1. pc[t] = "look" /\ in_arena(t)
    BY DEF LookInPool, At, LowerTail
  <2>2. Got(t) = 0
    BY <2>1 DEF Got
  <2>3. QED  BY <1>1, <2>1, <2>2, OwnSlot DEF in_arena
<1>3. PICK r : r = [task_pool |-> s.task_pool, head |-> s.head, tail |-> s.tail - 1,
                    cells |-> s.cells]
  OBVIOUS
<1>4. /\ r \in Slot /\ r.task_pool = s.task_pool /\ r.head = s.head /\ r.tail = s.tail - 1
      /\ r.cells = s.cells
  BY <1>2, <1>3 DEF Slot
<1>5. slots' = [slots EXCEPT ![t] = r]
  <2>1. slots' = [slots EXCEPT ![t] = [s EXCEPT !.tail = @ - 1]]
    BY <1>1 DEF LookInPool, LowerTail, PoolInv, ThreadsTyped
  <2>2. [s EXCEPT !.tail = @ - 1] = r
    BY <1>2, <1>3 DEF Slot
  <2>3. QED  BY <2>1, <2>2
<1>6. SlotOK(r, 1, raided) /\ Deque(r, 1, raided) = Deque(s, 0, raided)
  BY <1>2, <1>4, TailLowered
<1>7. pc' = [pc EXCEPT ![t] = "get"] /\ victim' = victim
  BY DEF LookInPool, Goto
<1>8. /\ PoolInv' /\ \A u \in Threads \ {t} : DequeOf(u)' = DequeOf(u)
      /\ DequeOf(t)' = Deque(r, 1, raided)
  <2>1. "get" \in Places /\ "get" \in {"get", "lock"} /\ "get" \notin {"steal", "away"}
    BY DEF Places
  <2>2. QED  BY <1>1, <1>2, <1>5, <1>6, <1>7, <2>1, OwnSlotStep
<1>9. DequeOf(t) = Deque(s, 0, raided)
  BY <1>1, <1>2 DEF DequeOf
<1>10. QED  BY <1>6, <1>8, <1>9

\* A slot with one cell emptied.
LEMMA CellEmptied ==
    ASSUME NEW s \in Slot, NEW i \in 1 .. Len(s.cells)
    PROVE  /\ [s.cells EXCEPT ![i] = NoTask] \in Seq(Cell)
           /\ Len([s.cells EXCEPT ![i] = NoTask]) = Len(s.cells)
           /\ \A j \in 1 .. Len(s.cells) : j # i => [s.cells EXCEPT ![i] = NoTask][j] = s.cells[j]
<1>1. NoTask \in Cell /\ s.cells \in Seq(Cell)
  BY DEF Cell, Slot
<1>2. QED  BY <1>1, ExceptSeq

\* The owner takes the last task, undisputed.
LEMMA GetTaskStep ==
    ASSUME PoolInv, NEW t \in Threads, GetTask(t)
    PROVE  /\ PoolInv' /\ \A u \in Threads \ {t} : DequeOf(u)' = DequeOf(u)
           /\ LastTaken(DequeOf(t), DequeOf(t)', OwnTask(t))
<1>1. PICK s, raided : s = slots[t] /\ raided = Raided(t)
  OBVIOUS
<1>2. /\ s \in Slot /\ pc[t] = "get" /\ Got(t) = 1 /\ raided \in {0, 1}
      /\ SlotOK(s, 1, raided) /\ s.head <= s.tail
  <2>1. pc[t] = "get" /\ Undisputed(t)
    BY DEF GetTask, At, TakeOwn
  <2>2. Got(t) = 1
    BY <2>1 DEF Got
  <2>3. QED  BY <1>1, <2>1, <2>2, OwnSlot DEF Undisputed
<1>3. PICK i : i = s.tail + 1
  OBVIOUS
<1>4. i \in 1 .. Len(s.cells)
  <2>1. PICK head \in Nat, tail \in Int : head = s.head /\ tail = s.tail
    BY <1>2 DEF Slot
  <2>2. tail + 1 <= Len(s.cells) /\ Len(s.cells) \in Nat
    BY <1>2, <2>1 DEF SlotOK, End, Slot
  <2>3. QED  BY <1>2, <1>3, <2>1, <2>2
<1>5. PICK cells, r : /\ cells = [s.cells EXCEPT ![i] = NoTask]
                      /\ r = [task_pool |-> s.task_pool, head |-> s.head, tail |-> s.tail,
                              cells |-> cells]
  OBVIOUS
<1>6. /\ cells \in Seq(Cell) /\ Len(cells) = Len(s.cells)
      /\ \A j \in 1 .. Len(s.cells) : j # i => cells[j] = s.cells[j]
  BY <1>2, <1>4, <1>5, CellEmptied
<1>7. /\ r \in Slot /\ r.task_pool = s.task_pool /\ r.head = s.head /\ r.tail = s.tail
      /\ r.cells = cells
  BY <1>2, <1>5, <1>6 DEF Slot
<1>8. slots' = [slots EXCEPT ![t] = r]
  <2>1. slots' = [slots EXCEPT ![t] = [s EXCEPT !.cells = cells]]
    BY <1>1, <1>3, <1>5 DEF GetTask, TakeOwn, PoolInv, ThreadsTyped
  <2>2. [s EXCEPT !.cells = cells] = r
    BY <1>2, <1>5, SlotRecord
  <2>3. QED  BY <2>1, <2>2
<1>9. SlotOK(r, 0, raided) /\ LastTaken(Deque(s, 1, raided), Deque(r, 0, raided), s.cells[i])
  <2>1. Len(r.cells) = Len(s.cells)
        /\ \A j \in 1 .. Len(s.cells) : j # s.tail + 1 => r.cells[j] = s.cells[j]
    BY <1>3, <1>6, <1>7
  <2>2. QED  BY <1>2, <1>3, <1>7, <2>1, LastCellTaken
<1>10. pc' = [pc EXCEPT ![t] = "run"] /\ victim' = victim
  BY DEF GetTask, Goto
<1>11. /\ PoolInv' /\ \A u \in Threads \ {t} : DequeOf(u)' = DequeOf(u)
       /\ DequeOf(t)' = Deque(r, 0, raided)
  <2>1. "run" \in Places /\ "run" \notin {"get", "lock"} /\ "run" \notin {"steal", "away"}
    BY DEF Places
  <2>2. QED  BY <1>1, <1>2, <1>8, <1>9, <1>10, <2>1, OwnSlotStep
<1>12. DequeOf(t) = Deque(s, 1, raided) /\ OwnTask(t) = s.cells[i]
  BY <1>1, <1>2, <1>3 DEF DequeOf, OwnTask
<1>13. QED  BY <1>9, <1>11, <1>12

\* The deques hold tasks.
HoldTasks == \A u \in Threads : \A i \in DOMAIN DequeOf(u) : DequeOf(u)[i] \in Tasks

LEMMA NoTaskIsNone == NoTask \notin Tasks /\ NoTask \notin Objects
  BY SchedulerAssumption DEF NoTask, Tasks, Objects

\* A slot that is reset.
LEMMA SlotReset ==
    ASSUME NEW cells \in Seq(Cell),
           NEW r, r = [task_pool |-> "empty", head |-> 0, tail |-> 0, cells |-> cells]
    PROVE  SlotOK(r, 0, 0) /\ DOMAIN Deque(r, 0, 0) = {} /\ Deque(r, 0, 0) = Piece(cells, 0, 0)
<1>1. r \in Slot /\ First(r, 0) = 0 /\ End(r, 0) = 0 + 0 /\ r.cells = cells
  BY DEF Slot, First, End
<1>2. Deque(r, 0, 0) = Piece(cells, 0, 0)
  BY <1>1, DequeIs
<1>3. SlotOK(r, 0, 0)
  <2>1. 0 <= Len(r.cells)
    BY <1>1
  <2>2. First(r, 0) = 0 /\ End(r, 0) = 0
    BY <1>1
  <2>3. QED  BY <1>1, <2>1, <2>2 DEF SlotOK
<1>4. QED  BY <1>2, <1>3 DEF Piece

\* The owner decides under the lock.
LEMMA GetTaskLockedStep ==
    ASSUME PoolInv, HoldTasks, NEW t \in Threads, GetTaskLocked(t)
    PROVE  /\ PoolInv' /\ \A u \in Threads \ {t} : DequeOf(u)' = DequeOf(u)
           /\ Arbitrated(t) # NoTask => LastTaken(DequeOf(t), DequeOf(t)', Arbitrated(t))
           /\ Arbitrated(t) = NoTask => DequeOf(t)' = DequeOf(t)
<1>1. PICK s : s = slots[t]
  OBVIOUS
<1>2. /\ s \in Slot /\ pc[t] = "lock" /\ Got(t) = 1 /\ Raided(t) = 0
      /\ SlotOK(s, 1, 0)
  <2>1. pc[t] = "lock" /\ Unlocked(t)
    BY DEF GetTaskLocked, At, Arbitrate
  <2>2. Got(t) = 1 /\ Raided(t) = 0
    BY <2>1, OwnSlot DEF Got, Unlocked
  <2>3. QED  BY <1>1, <2>1, <2>2, OwnSlot
<1>3. PICK head \in Nat, tail \in Int, cells \in Seq(Cell) :
         head = s.head /\ tail = s.tail /\ cells = s.cells
  BY <1>2 DEF Slot
<1>4. head <= tail + 1 /\ tail + 1 <= Len(cells) /\ Len(cells) \in Nat
  <2>1. First(s, 0) = head /\ End(s, 1) = tail + 1
    BY <1>3 DEF First, End
  <2>2. QED  BY <1>2, <1>3, <2>1 DEF SlotOK
<1>5. DequeOf(t) = Deque(s, 1, 0)
  BY <1>1, <1>2 DEF DequeOf
<1>6. victim' = victim /\ pc' = [pc EXCEPT ![t] = IF Arbitrated(t) = NoTask THEN "steal" ELSE "run"]
  BY DEF GetTaskLocked, Goto
<1>7. (Undisputed(t) <=> head <= tail) /\ (s.head < s.tail <=> head < tail)
  BY <1>1, <1>3 DEF Undisputed
<1>8. PICK left :
         /\ left = IF head <= tail THEN [cells EXCEPT ![tail + 1] = NoTask] ELSE cells
         /\ slots' = [slots EXCEPT ![t] =
                IF head < tail THEN [s EXCEPT !.cells = left]
                ELSE [task_pool |-> "empty", head |-> 0, tail |-> 0, cells |-> left]]
  BY <1>1, <1>3, <1>7 DEF GetTaskLocked, Arbitrate
<1>9. /\ "run" \in Places /\ "run" \notin {"get", "lock"} /\ "run" \notin {"steal", "away"}
      /\ "steal" \in Places /\ "steal" \notin {"get", "lock"}
  BY DEF Places
<1>10. CASE head <= tail
  <2>1. PICK i \in Nat : i = tail + 1
    BY <1>10
  <2>2. i \in 1 .. Len(cells) /\ i \in 1 .. Len(s.cells)
    BY <1>3, <1>4, <1>10, <2>1
  <2>3. /\ left \in Seq(Cell) /\ Len(left) = Len(cells)
        /\ \A j \in 1 .. Len(cells) : j # i => left[j] = cells[j]
    <3>1. left = [s.cells EXCEPT ![i] = NoTask]
      BY <1>3, <1>8, <1>10, <2>1
    <3>2. QED  BY <1>2, <1>3, <2>2, <3>1, CellEmptied
  <2>4. Arbitrated(t) = s.cells[i]
    BY <1>1, <1>3, <1>7, <1>10, <2>1 DEF Arbitrated, OwnTask
  <2>5. PICK r : r = [task_pool |-> s.task_pool, head |-> s.head, tail |-> s.tail, cells |-> left]
    OBVIOUS
  <2>6. /\ r \in Slot /\ r.task_pool = s.task_pool /\ r.head = s.head /\ r.tail = s.tail
        /\ r.cells = left
    BY <1>2, <2>3, <2>5 DEF Slot
  <2>7. SlotOK(r, 0, 0) /\ LastTaken(Deque(s, 1, 0), Deque(r, 0, 0), s.cells[i])
    <3>1. s.head <= s.tail
      BY <1>3, <1>10
    <3>2. Len(r.cells) = Len(s.cells)
          /\ \A j \in 1 .. Len(s.cells) : j # s.tail + 1 => r.cells[j] = s.cells[j]
      BY <1>3, <2>1, <2>3, <2>6
    <3>3. s.cells[s.tail + 1] = s.cells[i]
      BY <1>3, <2>1
    <3>4. QED  BY <1>2, <2>6, <3>1, <3>2, <3>3, LastCellTaken
  <2>8. Arbitrated(t) # NoTask
    <3>1. PICK d, e, k : d = DequeOf(t) /\ e = Deque(r, 0, 0) /\ k = Arbitrated(t)
      OBVIOUS
    <3>2. LastTaken(d, e, k)
      BY <1>5, <2>4, <2>7, <3>1
    <3>3. PICK n \in Nat : DOMAIN d = 1 .. n + 1 /\ d[n + 1] = k
      BY <3>2 DEF LastTaken
    <3>4. n + 1 \in DOMAIN d
      BY <3>3
    <3>5. k \in Tasks
      BY <3>1, <3>3, <3>4 DEF HoldTasks
    <3>6. QED  BY <3>1, <3>5, NoTaskIsNone
  <2>9. pc' = [pc EXCEPT ![t] = "run"]
    BY <1>6, <2>8
  <2>10. CASE head < tail
    <3>1. slots' = [slots EXCEPT ![t] = r]
      <4>1. [s EXCEPT !.cells = left] = r
        BY <1>2, <2>5, SlotRecord
      <4>2. QED  BY <1>8, <2>10, <4>1
    <3>2. /\ PoolInv' /\ \A u \in Threads \ {t} : DequeOf(u)' = DequeOf(u)
          /\ DequeOf(t)' = Deque(r, 0, 0)
      BY <1>2, <1>6, <1>9, <2>7, <2>9, <3>1, OwnSlotStep
    <3>3. QED  BY <1>5, <2>4, <2>7, <2>8, <3>2
  <2>11. CASE ~(head < tail)
    <3>1. PICK q : q = [task_pool |-> "empty", head |-> 0, tail |-> 0, cells |-> left]
      OBVIOUS
    <3>2. SlotOK(q, 0, 0) /\ DOMAIN Deque(q, 0, 0) = {}
      BY <2>3, <3>1, SlotReset
    <3>3. slots' = [slots EXCEPT ![t] = q]
      BY <1>8, <2>11, <3>1
    <3>4. /\ PoolInv' /\ \A u \in Threads \ {t} : DequeOf(u)' = DequeOf(u)
          /\ DequeOf(t)' = Deque(q, 0, 0)
      BY <1>2, <1>6, <1>9, <2>9, <3>2, <3>3, OwnSlotStep
    <3>5. LastTaken(Deque(s, 1, 0), Deque(q, 0, 0), s.cells[i])
      <4>1. First(s, 0) = tail /\ End(s, 1) = tail + 1
        BY <1>3, <1>10, <2>11 DEF First, End
      <4>2. Deque(s, 1, 0) = Piece(s.cells, tail, 1)
        BY <4>1, DequeIs
      <4>3. PICK d, e : d = Deque(s, 1, 0) /\ e = Deque(q, 0, 0)
        OBVIOUS
      <4>4. DOMAIN d = 1 .. 0 + 1 /\ d[0 + 1] = s.cells[i] /\ DOMAIN e = 1 .. 0
        <5>1. d = [j \in 1 .. 1 |-> s.cells[tail + j]]
          BY <4>2, <4>3 DEF Piece
        <5>2. 1 \in 1 .. 1 /\ tail + 1 = i /\ 0 + 1 = 1
          BY <2>1
        <5>3. QED  BY <3>2, <4>3, <5>1, <5>2
      <4>5. LastTaken(d, e, s.cells[i])
        <5>1. PICK n \in Nat : n = 0
          OBVIOUS
        <5>2. DOMAIN d = 1 .. n + 1 /\ d[n + 1] = s.cells[i] /\ DOMAIN e = 1 .. n
          BY <4>4, <5>1
        <5>3. \A j \in 1 .. n : e[j] = d[j]
          BY <5>1
        <5>4. QED  BY <5>2, <5>3 DEF LastTaken
      <4>6. QED  BY <4>3, <4>5
    <3>6. QED  BY <1>5, <2>4, <2>8, <3>4, <3>5
  <2>12. QED  BY <2>10, <2>11
<1>11. CASE ~(head <= tail)
  <2>1. Arbitrated(t) = NoTask
    BY <1>7, <1>11 DEF Arbitrated
  <2>2. PICK q : q = [task_pool |-> "empty", head |-> 0, tail |-> 0, cells |-> cells]
    OBVIOUS
  <2>3. SlotOK(q, 0, 0) /\ Deque(q, 0, 0) = Piece(cells, 0, 0)
    BY <2>2, SlotReset
  <2>4. slots' = [slots EXCEPT ![t] = q]
    <3>1. left = cells /\ ~(head < tail)
      BY <1>8, <1>11
    <3>2. QED  BY <1>8, <2>2, <3>1
  <2>5. pc' = [pc EXCEPT ![t] = "steal"] /\ q.task_pool = "empty"
    BY <1>6, <2>1, <2>2
  <2>6. /\ PoolInv' /\ \A u \in Threads \ {t} : DequeOf(u)' = DequeOf(u)
        /\ DequeOf(t)' = Deque(q, 0, 0)
    BY <1>2, <1>6, <1>9, <2>3, <2>4, <2>5, OwnSlotStep
  <2>7. Deque(s, 1, 0) = Piece(s.cells, head, 0)
    <3>1. First(s, 0) = head /\ End(s, 1) = head + 0
      BY <1>3, <1>4, <1>11 DEF First, End
    <3>2. QED  BY <3>1, DequeIs
  <2>8. Piece(s.cells, head, 0) = Piece(cells, 0, 0)
    BY DEF Piece
  <2>9. QED  BY <1>5, <2>1, <2>3, <2>6, <2>7, <2>8
<1>12. QED  BY <1>10, <1>11

\* A thief announces.
LEMMA StealStep ==
    ASSUME PoolInv, NEW t \in Threads, NEW v \in Threads, Steal(t, v)
    PROVE  PoolInv' /\ \A u \in Threads : DequeOf(u)' = DequeOf(u)
<1>1. PICK s, got : s = slots[v] /\ got = Got(v)
  OBVIOUS
<1>2. /\ s \in Slot /\ pc[t] = "steal" /\ got \in {0, 1} /\ Raided(v) = 0
      /\ SlotOK(s, got, 0) /\ s.task_pool = "open" /\ in_arena(v)
  <2>1. pc[t] = "steal" /\ s.task_pool = "open"
    BY <1>1 DEF Steal, At, RaiseHead
  <2>2. Raided(v) = 0
    BY <1>1, <2>1, OwnSlot
  <2>3. QED  BY <1>1, <2>1, <2>2, OwnSlot DEF in_arena
<1>3. PICK r : r = [task_pool |-> "locked", head |-> s.head + 1, tail |-> s.tail,
                    cells |-> s.cells]
  OBVIOUS
<1>4. /\ r \in Slot /\ r.task_pool = "locked" /\ r.head = s.head + 1 /\ r.tail = s.tail
      /\ r.cells = s.cells
  BY <1>2, <1>3 DEF Slot
<1>5. slots' = [slots EXCEPT ![v] = r]
  <2>1. PICK x : x = [s EXCEPT !.task_pool = "locked", !.head = @ + 1]
    OBVIOUS
  <2>2. slots' = [slots EXCEPT ![v] = x]
    BY <1>1, <2>1 DEF Steal, RaiseHead, PoolInv, ThreadsTyped
  <2>3. x = [task_pool |-> "locked", head |-> s.head + 1, tail |-> s.tail, cells |-> s.cells]
    BY <1>2, <2>1 DEF Slot
  <2>4. QED  BY <1>3, <2>2, <2>3
<1>6. SlotOK(r, got, 1) /\ Deque(r, got, 1) = Deque(s, got, 0)
  BY <1>2, <1>4, HeadRaised
<1>7. pc' = [pc EXCEPT ![t] = "raid"] /\ victim' = [victim EXCEPT ![t] = v]
  BY DEF Steal, Goto
<1>8. /\ PoolInv' /\ \A u \in Threads \ {v} : DequeOf(u)' = DequeOf(u)
      /\ DequeOf(v)' = Deque(r, got, 1)
  <2>1. "raid" \in Places /\ "raid" \in {"run", "steal", "raid"}
    BY DEF Places
  <2>2. QED  BY <1>1, <1>2, <1>5, <1>6, <1>7, <2>1, RaidStep
<1>9. DequeOf(v) = Deque(s, got, 0)
  BY <1>1, <1>2 DEF DequeOf
<1>10. QED  BY <1>6, <1>8, <1>9

\* The thief withdraws.
LEMMA StealFailsStep ==
    ASSUME PoolInv, NEW t \in Threads, StealFails(t)
    PROVE  PoolInv' /\ \A u \in Threads : DequeOf(u)' = DequeOf(u)
<1>1. PICK v, s, got : v = victim[t] /\ s = slots[v] /\ got = Got(v)
  OBVIOUS
<1>2. /\ v \in Threads /\ s \in Slot /\ pc[t] = "raid" /\ got \in {0, 1} /\ Raided(v) = 1
      /\ SlotOK(s, got, 1)
  <2>1. pc[t] = "raid" /\ v \in Threads
    BY <1>1, OwnSlot DEF StealFails, At
  <2>2. Raided(v) = 1
    BY <1>1, <2>1 DEF Raided, At
  <2>3. QED  BY <1>1, <2>1, <2>2, OwnSlot
<1>3. PICK r : r = [task_pool |-> "open", head |-> s.head - 1, tail |-> s.tail,
                    cells |-> s.cells]
  OBVIOUS
<1>4. /\ r \in Slot /\ r.task_pool = "open" /\ r.head = s.head - 1 /\ r.tail = s.tail
      /\ r.cells = s.cells
  <2>1. s.head - 1 \in Nat
    <3>1. s.head \in Nat
      BY <1>2 DEF Slot
    <3>2. QED  BY <1>2, <3>1 DEF SlotOK, First
  <2>2. QED  BY <1>2, <1>3, <2>1 DEF Slot
<1>5. slots' = [slots EXCEPT ![v] = r]
  <2>1. PICK x : x = [s EXCEPT !.task_pool = "open", !.head = @ - 1]
    OBVIOUS
  <2>2. slots' = [slots EXCEPT ![v] = x]
    BY <1>1, <1>2, <2>1 DEF StealFails, BackOff, PoolInv, ThreadsTyped
  <2>3. x = [task_pool |-> "open", head |-> s.head - 1, tail |-> s.tail, cells |-> s.cells]
    BY <1>2, <2>1 DEF Slot
  <2>4. QED  BY <1>3, <2>2, <2>3
<1>6. SlotOK(r, got, 0) /\ Deque(r, got, 0) = Deque(s, got, 1)
  BY <1>2, <1>4, HeadLowered
<1>7. pc' = [pc EXCEPT ![t] = "steal"] /\ victim' = [victim EXCEPT ![t] = v]
  BY <1>1 DEF StealFails, Goto, PoolInv, ThreadsTyped
<1>8. /\ PoolInv' /\ \A u \in Threads \ {v} : DequeOf(u)' = DequeOf(u)
      /\ DequeOf(v)' = Deque(r, got, 0)
  <2>1. PICK w : w = "steal"
    OBVIOUS
  <2>2. w \in Places /\ w \in {"run", "steal", "raid"} /\ w # "raid" /\ pc' = [pc EXCEPT ![t] = w]
    BY <1>7, <2>1 DEF Places
  <2>3. SlotOK(r, Got(v), IF w = "raid" THEN 1 ELSE 0)
    BY <1>1, <1>6, <2>2
  <2>4. pc[t] \in {"steal", "raid"} /\ pc[t] = "raid" /\ victim[t] = v
    BY <1>1, <1>2
  <2>5. /\ PoolInv' /\ \A u \in Threads \ {v} : DequeOf(u)' = DequeOf(u)
        /\ DequeOf(v)' = Deque(r, Got(v), IF w = "raid" THEN 1 ELSE 0)
    BY <1>2, <1>5, <1>7, <2>2, <2>3, <2>4, RaidStep
  <2>6. QED  BY <1>1, <2>2, <2>5
<1>9. DequeOf(v) = Deque(s, got, 1)
  BY <1>1, <1>2 DEF DequeOf
<1>10. QED  BY <1>6, <1>8, <1>9

\* The thief takes the first task.
LEMMA StealSucceedsStep ==
    ASSUME PoolInv, NEW t \in Threads, NEW v, v = victim[t], StealSucceeds(t)
    PROVE  /\ PoolInv' /\ \A u \in Threads \ {v} : DequeOf(u)' = DequeOf(u)
           /\ FirstTaken(DequeOf(v), DequeOf(v)', StolenTask(v))
           /\ v \in Threads
<1>1. PICK s, got : v = victim[t] /\ s = slots[v] /\ got = Got(v)
  OBVIOUS
<1>2. /\ v \in Threads /\ s \in Slot /\ pc[t] = "raid" /\ got \in {0, 1} /\ Raided(v) = 1
      /\ SlotOK(s, got, 1) /\ s.head <= s.tail
  <2>1. pc[t] = "raid" /\ v \in Threads
    BY <1>1, OwnSlot DEF StealSucceeds, At
  <2>2. Raided(v) = 1
    BY <1>1, <2>1 DEF Raided, At
  <2>3. s.head <= s.tail
    BY <1>1 DEF StealSucceeds, TakeStolen
  <2>4. QED  BY <1>1, <2>1, <2>2, <2>3, OwnSlot
<1>3. PICK i : i = s.head
  OBVIOUS
<1>4. i \in 1 .. Len(s.cells)
  <2>1. PICK head \in Nat, tail \in Int : head = s.head /\ tail = s.tail
    BY <1>2 DEF Slot
  <2>2. 0 <= head - 1 /\ tail + got <= Len(s.cells) /\ Len(s.cells) \in Nat
    BY <1>2, <2>1 DEF SlotOK, First, End, Slot
  <2>3. QED  BY <1>2, <1>3, <2>1, <2>2
<1>5. PICK cells, r : /\ cells = [s.cells EXCEPT ![i] = NoTask]
                      /\ r = [task_pool |-> "open", head |-> s.head, tail |-> s.tail,
                              cells |-> cells]
  OBVIOUS
<1>6. /\ cells \in Seq(Cell) /\ Len(cells) = Len(s.cells)
      /\ \A j \in 1 .. Len(s.cells) : j # i => cells[j] = s.cells[j]
  BY <1>2, <1>4, <1>5, CellEmptied
<1>7. /\ r \in Slot /\ r.task_pool = "open" /\ r.head = s.head /\ r.tail = s.tail
      /\ r.cells = cells
  BY <1>2, <1>5, <1>6 DEF Slot
<1>8. slots' = [slots EXCEPT ![v] = r]
  <2>1. PICK x : x = [s EXCEPT !.task_pool = "open", !.cells = cells]
    OBVIOUS
  <2>2. slots' = [slots EXCEPT ![v] = x]
    <3>1. slots' = [slots EXCEPT ![v].task_pool = "open", ![v].cells[i] = NoTask]
      BY <1>1, <1>3 DEF StealSucceeds, TakeStolen
    <3>2. v \in DOMAIN slots /\ slots[v] = s /\ s \in Slot
      BY <1>1, <1>2 DEF PoolInv, ThreadsTyped
    <3>3. PICK y : y = [s EXCEPT !.task_pool = "open", !.cells[i] = NoTask]
      OBVIOUS
    <3>4. slots' = [slots EXCEPT ![v] = y]
      BY <3>1, <3>2, <3>3
    <3>5. y = x
      BY <1>5, <2>1, <3>2, <3>3 DEF Slot
    <3>6. QED  BY <3>4, <3>5
  <2>3. x = [task_pool |-> "open", head |-> s.head, tail |-> s.tail, cells |-> cells]
    BY <1>2, <2>1 DEF Slot
  <2>4. QED  BY <1>5, <2>2, <2>3
<1>9. SlotOK(r, got, 0) /\ FirstTaken(Deque(s, got, 1), Deque(r, got, 0), s.cells[i])
  <2>1. Len(r.cells) = Len(s.cells)
        /\ \A j \in 1 .. Len(s.cells) : j # s.head => r.cells[j] = s.cells[j]
    BY <1>3, <1>6, <1>7
  <2>2. QED  BY <1>2, <1>3, <1>7, <2>1, Stolen
<1>10. pc' = [pc EXCEPT ![t] = "run"] /\ victim' = [victim EXCEPT ![t] = v]
  BY <1>1 DEF StealSucceeds, Goto, PoolInv, ThreadsTyped
<1>11. /\ PoolInv' /\ \A u \in Threads \ {v} : DequeOf(u)' = DequeOf(u)
       /\ DequeOf(v)' = Deque(r, got, 0)
  <2>1. PICK w : w = "run"
    OBVIOUS
  <2>2. w \in Places /\ w \in {"run", "steal", "raid"} /\ w # "raid" /\ pc' = [pc EXCEPT ![t] = w]
    BY <1>10, <2>1 DEF Places
  <2>3. SlotOK(r, Got(v), IF w = "raid" THEN 1 ELSE 0)
    BY <1>1, <1>9, <2>2
  <2>4. pc[t] \in {"steal", "raid"} /\ pc[t] = "raid" /\ victim[t] = v
    BY <1>1, <1>2
  <2>5. /\ PoolInv' /\ \A u \in Threads \ {v} : DequeOf(u)' = DequeOf(u)
        /\ DequeOf(v)' = Deque(r, Got(v), IF w = "raid" THEN 1 ELSE 0)
    BY <1>2, <1>8, <1>10, <2>2, <2>3, <2>4, RaidStep
  <2>6. QED  BY <1>1, <2>2, <2>5
<1>12. DequeOf(v) = Deque(s, got, 1) /\ StolenTask(v) = s.cells[i]
  BY <1>1, <1>2, <1>3 DEF DequeOf, StolenTask
<1>13. QED  BY <1>1, <1>2, <1>9, <1>11, <1>12

(******************************************************************************)
(* The pools through every step                                               *)
(******************************************************************************)

\* The steps that leave the slots alone.
QuietStepOf(t) ==
    \/ local_wait_for_all_WithChild(t) \/ local_spawn_root_and_wait(t) \/ local_wait_for_all(t)
    \/ Return(t) \/ EndLoop(t) \/ SeekLock(t) \/ LookElsewhere(t)
    \/ EnterArena(t) \/ LeaveArena(t)

LEMMA QuietSteps ==
    ASSUME PoolInv, NEW t \in Threads, QuietStepOf(t)
    PROVE  PoolInv' /\ \A u \in Threads : DequeOf(u)' = DequeOf(u)
<1>1. SUFFICES
         \E w \in Places :
            /\ pc[t] # "raid" /\ w # "raid" /\ (pc[t] \in {"get", "lock"} <=> w \in {"get", "lock"})
            /\ w \in {"steal", "away"} => ~in_arena(t)
            /\ pc' = [pc EXCEPT ![t] = w] /\ victim' = victim /\ slots' = slots
  BY QuietStep
<1>2. pc = [pc EXCEPT ![t] = pc[t]] /\ pc[t] \in Places
  BY DEF PoolInv, ThreadsTyped
<1>3. /\ "run" \in Places /\ "look" \in Places /\ "lock" \in Places /\ "steal" \in Places
      /\ "away" \in Places
  BY DEF Places
<1>4. pc[t] \in {"steal", "away"} => ~in_arena(t)
  BY OwnSlot
<1>5. CASE local_wait_for_all_WithChild(t) \/ local_spawn_root_and_wait(t)
  BY <1>2, <1>3, <1>5 DEF local_wait_for_all_WithChild, local_spawn_root_and_wait, Executes, At
<1>6. CASE local_wait_for_all(t)
  BY <1>3, <1>6 DEF local_wait_for_all, Executes, At, Goto
<1>7. CASE Return(t)
  <2>1. PICK w : w = IF ref_count[parent[Current(t)]] = 1 THEN "run" ELSE "look"
    OBVIOUS
  <2>2. pc' = [pc EXCEPT ![t] = w] /\ pc[t] = "run" /\ victim' = victim /\ slots' = slots
    BY <1>7, <2>1 DEF Return, At, Goto
  <2>3. w \in {"run", "look"}
    BY <2>1
  <2>4. QED  BY <1>3, <2>2, <2>3
<1>8. CASE EndLoop(t)
  BY <1>3, <1>8 DEF EndLoop, Goto
<1>9. CASE SeekLock(t)
  BY <1>3, <1>9 DEF SeekLock, At, Goto
<1>10. CASE LookElsewhere(t)
  BY <1>3, <1>10 DEF LookElsewhere, At, Goto
<1>11. CASE EnterArena(t)
  BY <1>3, <1>4, <1>11 DEF EnterArena, At, Goto
<1>12. CASE LeaveArena(t)
  BY <1>3, <1>4, <1>12 DEF LeaveArena, At, Goto
<1>13. QED
  BY <1>5, <1>6, <1>7, <1>8, <1>9, <1>10, <1>11, <1>12 DEF QuietStepOf

\* All steps.
PoolStepOf(t) ==
    \/ MakeRoom(t) \/ local_spawn(t) \/ LookInPool(t) \/ GetTask(t) \/ GetTaskLocked(t)
    \/ (\E v \in Threads : Steal(t, v)) \/ StealFails(t) \/ StealSucceeds(t)

LEMMA StepsAre ==
    ASSUME [Next]_vars
    PROVE  UNCHANGED vars \/ \E t \in Threads : QuietStepOf(t) \/ PoolStepOf(t)
<1>1. CASE \E t \in Threads : ThreadStep(t)
  BY <1>1 DEF ThreadStep, QuietStepOf, PoolStepOf
<1>2. CASE \E w \in Workers : EnterArena(w) \/ LeaveArena(w)
  BY <1>2 DEF QuietStepOf, Workers
<1>3. CASE UNCHANGED vars \/ Terminated
  BY <1>3 DEF Terminated
<1>4. QED  BY <1>1, <1>2, <1>3 DEF Next

\* The number of launches grows.
LEMMA ProgramStep ==
    ASSUME ProgramTyped, [Next]_vars
    PROVE  ProgramTyped'
<1>1. ASSUME NEW k, NEW n \in Nat, program' = program, done' = [done EXCEPT ![k] = @ + n]
      PROVE  ProgramTyped'
  <2>1. done \in [Tasks -> Nat]
    BY DEF ProgramTyped
  <2>2. \A j \in Tasks : done'[j] = IF j = k THEN done[j] + n ELSE done[j]
    BY <1>1, <2>1
  <2>3. \A j \in Tasks : done'[j] \in Nat
    BY <2>1, <2>2
  <2>4. done' = [j \in Tasks |-> done'[j]]
    BY <1>1, <2>1
  <2>5. QED  BY <1>1, <2>3, <2>4 DEF ProgramTyped
<1>2. ASSUME program' = program, done' = done
      PROVE  ProgramTyped'
  BY <1>2 DEF ProgramTyped
<1>3. ASSUME UNCHANGED vars
      PROVE  ProgramTyped'
  BY <1>2, <1>3 DEF vars, dispatch
<1>4. ASSUME NEW t \in Threads, local_spawn(t)
      PROVE  ProgramTyped'
  <2>1. PICK n : n = Len(Spawns(Current(t)))
    OBVIOUS
  <2>2. n \in Nat
    <3>1. Spawns(Current(t)) \in Seq(Tasks)
      BY <1>4, ToSpawn DEF local_spawn, Executes
    <3>2. QED  BY <2>1, <3>1
  <2>3. program' = program /\ done' = [done EXCEPT ![Current(t)] = @ + n]
    BY <1>4, <2>1 DEF local_spawn, Launched
  <2>4. PICK k : k = Current(t)
    OBVIOUS
  <2>5. QED  BY <1>1, <2>2, <2>3, <2>4
<1>5. ASSUME NEW t \in Threads,
             local_wait_for_all_WithChild(t) \/ local_spawn_root_and_wait(t)
      PROVE  ProgramTyped'
  <2>1. program' = program /\ done' = [done EXCEPT ![Current(t)] = @ + 1]
    BY <1>5 DEF local_wait_for_all_WithChild, local_spawn_root_and_wait, Launched
  <2>2. PICK k, n : k = Current(t) /\ n = 1
    OBVIOUS
  <2>3. QED  BY <1>1, <2>1, <2>2
<1>6. ASSUME NEW t \in Threads, EndLoop(t)
      PROVE  ProgramTyped'
  <2>1. /\ program' = program
        /\ done' = done \/ done' = [done EXCEPT ![Inner(t).waits] = @ + 1]
    BY <1>6 DEF EndLoop
  <2>2. PICK k, n : k = Inner(t).waits /\ n = 1
    OBVIOUS
  <2>3. QED  BY <1>1, <1>2, <2>1, <2>2
<1>7. ASSUME NEW t \in Threads,
             \/ MakeRoom(t) \/ local_wait_for_all(t) \/ Return(t) \/ LookInPool(t) \/ GetTask(t)
             \/ SeekLock(t) \/ GetTaskLocked(t) \/ LookElsewhere(t)
             \/ (\E v \in Threads : Steal(t, v)) \/ StealFails(t) \/ StealSucceeds(t)
             \/ EnterArena(t) \/ LeaveArena(t)
      PROVE  ProgramTyped'
  <2>1. program' = program /\ done' = done
    BY <1>7 DEF MakeRoom, local_wait_for_all, Return, LookInPool, GetTask, SeekLock,
                GetTaskLocked, LookElsewhere, Steal, StealFails, StealSucceeds, EnterArena,
                LeaveArena, dispatch
  <2>2. QED  BY <1>2, <2>1
<1>8. UNCHANGED vars \/ \E t \in Threads : QuietStepOf(t) \/ PoolStepOf(t)
  BY StepsAre
<1>9. QED  BY <1>3, <1>4, <1>5, <1>6, <1>7, <1>8 DEF QuietStepOf, PoolStepOf

\* A deque that lost a task or was added to holds tasks.
LEMMA StillTasks ==
    ASSUME NEW d, NEW e, \A i \in DOMAIN d : d[i] \in Tasks,
           \/ \E k : FirstTaken(d, e, k) \/ LastTaken(d, e, k)
           \/ \E n \in Nat : \E new \in Seq(Tasks) : Continued(d, e, n, new)
    PROVE  \A i \in DOMAIN e : e[i] \in Tasks
<1>1. ASSUME NEW k, FirstTaken(d, e, k) \/ LastTaken(d, e, k)
      PROVE  \A i \in DOMAIN e : e[i] \in Tasks
  <2>1. PICK n \in Nat : /\ DOMAIN d = 1 .. n + 1 /\ DOMAIN e = 1 .. n
                         /\ \A i \in 1 .. n : e[i] = d[i + 1] \/ e[i] = d[i]
    BY <1>1 DEF FirstTaken, LastTaken
  <2>2. \A i \in 1 .. n : i \in 1 .. n + 1 /\ i + 1 \in 1 .. n + 1
    OBVIOUS
  <2>3. QED  BY <2>1, <2>2
<1>2. ASSUME NEW n \in Nat, NEW new \in Seq(Tasks), Continued(d, e, n, new)
      PROVE  \A i \in DOMAIN e : e[i] \in Tasks
  <2>1. PICK m \in Nat : m = Len(new) /\ \A i \in 1 .. m : new[i] \in Tasks
    BY LenProperties, ElementOfSeq
  <2>2. /\ DOMAIN d = 1 .. n /\ DOMAIN e = 1 .. n + m
        /\ \A i \in 1 .. n : e[i] = d[i]
        /\ \A i \in 1 .. m : e[n + i] = new[i]
    BY <1>2, <2>1 DEF Continued
  <2>3. ASSUME NEW i \in 1 .. n + m
        PROVE  e[i] \in Tasks
    <3>1. CASE i <= n
      BY <2>2, <3>1
    <3>2. CASE i > n
      <4>1. PICK j \in 1 .. m : i = n + j
        <5>1. i - n \in 1 .. m /\ i = n + (i - n)
          BY <3>2
        <5>2. QED  BY <5>1
      <4>2. QED  BY <2>1, <2>2, <4>1
    <3>3. QED  BY <3>1, <3>2
  <2>4. QED  BY <2>2, <2>3
<1>3. QED  BY <1>1, <1>2

\* Each step keeps the pools in order.
LEMMA PoolStep ==
    ASSUME PoolInv, HoldTasks, ProgramTyped, [Next]_vars
    PROVE  PoolInv' /\ HoldTasks'
<1>1. SUFFICES /\ PoolInv'
               /\ \E v \in Threads :
                     /\ \A u \in Threads \ {v} : DequeOf(u)' = DequeOf(u)
                     /\ \/ DequeOf(v)' = DequeOf(v)
                        \/ \E k : FirstTaken(DequeOf(v), DequeOf(v)', k)
                                  \/ LastTaken(DequeOf(v), DequeOf(v)', k)
                        \/ \E n \in Nat : \E new \in Seq(Tasks) :
                              Continued(DequeOf(v), DequeOf(v)', n, new)
  <2>1. SUFFICES ASSUME NEW v \in Threads,
                        \A u \in Threads \ {v} : DequeOf(u)' = DequeOf(u),
                        \/ DequeOf(v)' = DequeOf(v)
                        \/ \E k : FirstTaken(DequeOf(v), DequeOf(v)', k)
                                  \/ LastTaken(DequeOf(v), DequeOf(v)', k)
                        \/ \E n \in Nat : \E new \in Seq(Tasks) :
                              Continued(DequeOf(v), DequeOf(v)', n, new)
                 PROVE  HoldTasks'
    OBVIOUS
  <2>2. PICK d, e : d = DequeOf(v) /\ e = DequeOf(v)'
    OBVIOUS
  <2>3. \A i \in DOMAIN d : d[i] \in Tasks
    BY <2>2 DEF HoldTasks
  <2>4. \A i \in DOMAIN e : e[i] \in Tasks
    <3>1. CASE e = d
      BY <2>3, <3>1
    <3>2. CASE \/ \E k : FirstTaken(d, e, k) \/ LastTaken(d, e, k)
               \/ \E n \in Nat : \E new \in Seq(Tasks) : Continued(d, e, n, new)
      BY <2>3, <3>2, StillTasks
    <3>3. QED  BY <2>1, <2>2, <3>1, <3>2
  <2>5. QED  BY <2>1, <2>2, <2>4 DEF HoldTasks
<1>2. CASE UNCHANGED vars
  <2>1. PoolInv'
    BY <1>2 DEF vars, PoolInv, SlotsOK, AwayIsEmpty, OneThief, ThreadsTyped, Got, Raided, At
  <2>2. \A u \in Threads : DequeOf(u)' = DequeOf(u)
    BY <1>2 DEF vars, DequeOf, Got, Raided, At
  <2>3. QED  BY <2>1, <2>2, SchedulerAssumption
<1>3. ASSUME NEW t \in Threads, QuietStepOf(t)
      PROVE  PoolInv' /\ \A u \in Threads : DequeOf(u)' = DequeOf(u)
  BY <1>3, QuietSteps
<1>4. ASSUME NEW t \in Threads,
             \/ MakeRoom(t) \/ LookInPool(t) \/ (\E v \in Threads : Steal(t, v)) \/ StealFails(t)
      PROVE  PoolInv' /\ \A u \in Threads : DequeOf(u)' = DequeOf(u)
  BY <1>4, MakeRoomStep, LookInPoolStep, StealStep, StealFailsStep
<1>5. ASSUME NEW t \in Threads, local_spawn(t)
      PROVE  /\ PoolInv' /\ \A u \in Threads \ {t} : DequeOf(u)' = DequeOf(u)
             /\ \E n \in Nat : \E new \in Seq(Tasks) : Continued(DequeOf(t), DequeOf(t)', n, new)
  <2>1. Spawns(Current(t)) \in Seq(Tasks)
    BY <1>5, ToSpawn DEF local_spawn, Executes
  <2>2. QED  BY <1>5, <2>1, SpawnStep
<1>6. ASSUME NEW t \in Threads, GetTask(t) \/ GetTaskLocked(t)
      PROVE  /\ PoolInv' /\ \A u \in Threads \ {t} : DequeOf(u)' = DequeOf(u)
             /\ DequeOf(t)' = DequeOf(t) \/ \E k : LastTaken(DequeOf(t), DequeOf(t)', k)
  BY <1>6, GetTaskStep, GetTaskLockedStep
<1>7. ASSUME NEW t \in Threads, StealSucceeds(t)
      PROVE  /\ PoolInv'
             /\ \E v \in Threads : /\ \A u \in Threads \ {v} : DequeOf(u)' = DequeOf(u)
                                   /\ \E k : FirstTaken(DequeOf(v), DequeOf(v)', k)
  <2>1. PICK v : v = victim[t]
    OBVIOUS
  <2>2. QED  BY <1>7, <2>1, StealSucceedsStep
<1>8. UNCHANGED vars \/ \E t \in Threads : QuietStepOf(t) \/ PoolStepOf(t)
  BY StepsAre
<1>9. QED  BY <1>2, <1>3, <1>4, <1>5, <1>6, <1>7, <1>8 DEF PoolStepOf

LEMMA PoolInitially ==
    ASSUME Init
    PROVE  PoolInv /\ HoldTasks /\ ProgramTyped
<1>1. ASSUME NEW t \in Threads
      PROVE  /\ slots[t] = NewSlot /\ pc[t] \in Places /\ victim[t] = t
             /\ Got(t) = 0 /\ Raided(t) = 0
  BY DEF Init, PoolInit, Places, Got, Raided, At
<1>2. ThreadsTyped
  BY DEF Init, PoolInit, ThreadsTyped, Places
<1>3. \A t \in Threads : SlotOK(slots[t], 0, 0) /\ DOMAIN Deque(slots[t], 0, 0) = {}
  <2>1. <<>> \in Seq(Cell)
    OBVIOUS
  <2>2. QED  BY <1>1, <2>1, SlotReset DEF NewSlot
<1>4. SlotsOK
  BY <1>1, <1>3 DEF SlotsOK
<1>5. AwayIsEmpty
  BY <1>1 DEF AwayIsEmpty, NewSlot
<1>6. OneThief
  BY DEF OneThief, Init, At
<1>7. HoldTasks
  BY <1>1, <1>3 DEF HoldTasks, DequeOf
<1>8. ProgramTyped
  BY DEF ProgramTyped, Init
<1>9. QED  BY <1>2, <1>4, <1>5, <1>6, <1>7, <1>8 DEF PoolInv

\* The pools are in order and hold tasks.
THEOREM PoolsKept == Spec => [](PoolInv /\ HoldTasks /\ ProgramTyped)
<1>1. Init => PoolInv /\ HoldTasks /\ ProgramTyped
  BY PoolInitially
<1>2. PoolInv /\ HoldTasks /\ ProgramTyped /\ [Next]_vars => (PoolInv /\ HoldTasks /\ ProgramTyped)'
  BY PoolStep, ProgramStep
<1>3. QED  BY <1>1, <1>2, PTL DEF Spec

(* The owner that has the lock of its slot, and no thief there, finds the     *)
(* head at most one beyond the tail: if there is no task for it then the slot *)
(* is empty (the assertion of get_task), for any number of thieves.           *)
THEOREM ArbitrationIsSound == Spec => []Arbitration
<1>1. PoolInv => Arbitration
  <2>1. SUFFICES ASSUME PoolInv, NEW t \in Threads, pc[t] = "lock", Unlocked(t), ~Undisputed(t)
                 PROVE  slots[t].head = slots[t].tail + 1
    BY DEF Arbitration, At
  <2>2. Got(t) = 1 /\ Raided(t) = 0 /\ slots[t] \in Slot /\ SlotOK(slots[t], 1, 0)
    BY <2>1, OwnSlot DEF Got, Unlocked
  <2>3. PICK head \in Nat, tail \in Int : head = slots[t].head /\ tail = slots[t].tail
    BY <2>2 DEF Slot
  <2>4. head - 0 <= tail + 1
    BY <2>2, <2>3 DEF SlotOK, First, End
  <2>5. ~(head <= tail)
    BY <2>1, <2>3 DEF Undisputed
  <2>6. QED  BY <2>3, <2>4, <2>5
<1>2. QED  BY <1>1, PoolsKept, PTL

(* Who goes stealing or leaves the arena has left an empty slot, reset, to    *)
(* the slot's next owner.                                                     *)
THEOREM SlotsAreLeftEmpty == Spec => []LeavesEmptySlot
<1>1. PoolInv => LeavesEmptySlot
  <2>1. SUFFICES ASSUME PoolInv, NEW t \in Threads, pc[t] \in {"steal", "raid", "away"}
                 PROVE  ~in_arena(t) /\ slots[t].head = 0 /\ slots[t].tail = 0
    BY DEF LeavesEmptySlot
  <2>2. SlotOK(slots[t], Got(t), Raided(t)) /\ ~in_arena(t)
    BY <2>1, OwnSlot
  <2>3. QED  BY <2>2 DEF SlotOK, in_arena
<1>2. QED  BY <1>1, PoolsKept, PTL

(******************************************************************************)
(* The dispatch loops                                                         *)
(******************************************************************************)

Level == [waits : Objects \cup {NoTask}, task : Objects \cup {NoTask}]

LoopsTyped == loops \in [Threads -> Seq(Level)]

Awaited(p) == \E t \in Threads : \E i \in DOMAIN loops[t] : loops[t][i].waits = p

\* No task is executed twice.
OneLevelEach ==
    \A t, u \in Threads : \A i \in DOMAIN loops[t], j \in DOMAIN loops[u] :
        loops[t][i].task = loops[u][j].task /\ loops[t][i].task # NoTask => t = u /\ i = j

\* Thread t enters a loop, sets the task of its innermost, or leaves it.
Pushed(t, level) ==
    /\ LoopsTyped /\ LoopsTyped'
    /\ \A u \in Threads \ {t} : loops'[u] = loops[u]
    /\ \E n \in Nat : /\ DOMAIN loops[t] = 1 .. n /\ DOMAIN loops'[t] = 1 .. n + 1
                      /\ \A i \in 1 .. n : loops'[t][i] = loops[t][i]
                      /\ loops'[t][n + 1] = level /\ Inner(t)' = level

TaskSet(t, k) ==
    /\ LoopsTyped /\ LoopsTyped'
    /\ \A u \in Threads \ {t} : loops'[u] = loops[u]
    /\ \E n \in Nat : /\ DOMAIN loops[t] = 1 .. n + 1 /\ DOMAIN loops'[t] = 1 .. n + 1
                      /\ \A i \in 1 .. n : loops'[t][i] = loops[t][i]
                      /\ Inner(t) = loops[t][n + 1] /\ Inner(t)' = loops'[t][n + 1]
                      /\ loops'[t][n + 1].waits = Inner(t).waits
                      /\ loops'[t][n + 1].task = k

Popped(t) ==
    /\ LoopsTyped /\ LoopsTyped'
    /\ \A u \in Threads \ {t} : loops'[u] = loops[u]
    /\ \E n \in Nat : /\ DOMAIN loops[t] = 1 .. n + 1 /\ DOMAIN loops'[t] = 1 .. n
                      /\ \A i \in 1 .. n : loops'[t][i] = loops[t][i]
                      /\ Inner(t) = loops[t][n + 1]
                      /\ n > 0 => Inner(t)' = loops[t][n]

\* The levels of a thread.
LEMMA LevelsOf ==
    ASSUME LoopsTyped, NEW t \in Threads
    PROVE  /\ loops[t] \in Seq(Level) /\ Len(loops[t]) \in Nat /\ DOMAIN loops[t] = 1 .. Len(loops[t])
           /\ \A i \in DOMAIN loops[t] : loops[t][i] \in Level
           /\ Inner(t) = loops[t][Len(loops[t])]
           /\ loops[t] # <<>> => Len(loops[t]) \in DOMAIN loops[t] /\ Inner(t) \in Level
<1>1. loops[t] \in Seq(Level)
  BY DEF LoopsTyped
<1>2. PICK levels \in Seq(Level) : levels = loops[t]
  BY <1>1
<1>3. Len(levels) \in Nat /\ DOMAIN levels = 1 .. Len(levels)
  BY LenProperties
<1>4. \A i \in 1 .. Len(levels) : levels[i] \in Level
  BY ElementOfSeq
<1>5. Inner(t) = levels[Len(levels)]
  BY <1>2 DEF Inner, Last
<1>6. levels # <<>> => Len(levels) \in 1 .. Len(levels)
  BY <1>3, EmptySeq
<1>7. QED  BY <1>2, <1>3, <1>4, <1>5, <1>6

LEMMA PushedIs ==
    ASSUME LoopsTyped, NEW t \in Threads, NEW level \in Level,
           loops' = [loops EXCEPT ![t] = Append(@, level)]
    PROVE  Pushed(t, level)
<1>0. PICK levels \in Seq(Level) : levels = loops[t]
  BY DEF LoopsTyped
<1>1. PICK new : levels = loops[t] /\ new = Append(levels, level)
  BY <1>0
<1>2. /\ loops'[t] = new /\ \A u \in Threads \ {t} : loops'[u] = loops[u]
  BY <1>1 DEF LoopsTyped
<1>3. /\ new \in Seq(Level) /\ Len(new) = Len(levels) + 1 /\ new[Len(levels) + 1] = level
      /\ \A i \in 1 .. Len(levels) : new[i] = levels[i]
  BY <1>1, AppendProperties
<1>4. LoopsTyped'
  BY <1>1, <1>3 DEF LoopsTyped
<1>5. PICK n \in Nat : n = Len(levels) /\ DOMAIN levels = 1 .. n
  BY LenProperties
<1>6. DOMAIN new = 1 .. n + 1
  BY <1>3, <1>5, LenProperties
<1>7. Inner(t)' = level
  <2>1. Inner(t)' = new[Len(new)]
    BY <1>2 DEF Inner, Last
  <2>2. QED  BY <1>3, <2>1
<1>8. QED  BY <1>1, <1>2, <1>3, <1>4, <1>5, <1>6, <1>7 DEF Pushed

\* All levels but the innermost.
LEMMA FrontIs ==
    ASSUME NEW levels \in Seq(Level), levels # <<>>
    PROVE  \E n \in Nat : /\ Len(levels) = n + 1 /\ Front(levels) \in Seq(Level)
                          /\ Len(Front(levels)) = n
                          /\ \A i \in 1 .. n : Front(levels)[i] = levels[i]
<1>1. PICK n \in Nat : Len(levels) = n + 1
  <2>1. Len(levels) \in Nat \ {0}
    BY EmptySeq
  <2>2. Len(levels) - 1 \in Nat /\ Len(levels) = (Len(levels) - 1) + 1
    BY <2>1
  <2>3. QED  BY <2>2
<1>2. Front(levels) = SubSeq(levels, 1, n)
  <2>1. Len(levels) - 1 = n
    BY <1>1
  <2>2. QED  BY <2>1 DEF Front
<1>3. \A i \in 1 .. n : levels[i] \in Level
  BY <1>1, ElementOfSeq
<1>4. /\ SubSeq(levels, 1, n) \in Seq(Level)
      /\ Len(SubSeq(levels, 1, n)) = IF 1 <= n THEN n - 1 + 1 ELSE 0
      /\ \A i \in 1 .. n - 1 + 1 : SubSeq(levels, 1, n)[i] = levels[1 + i - 1]
  BY <1>3, SubSeqProperties
<1>5. \A i \in 1 .. n : i \in 1 .. n - 1 + 1 /\ 1 + i - 1 = i
  OBVIOUS
<1>6. QED  BY <1>1, <1>2, <1>4, <1>5

LEMMA TaskSetIs ==
    ASSUME LoopsTyped, NEW t \in Threads, NEW k \in Objects \cup {NoTask}, loops[t] # <<>>,
           SetTask(t, k)
    PROVE  TaskSet(t, k)
<1>0. PICK levels \in Seq(Level) : levels = loops[t] /\ levels # <<>>
  BY DEF LoopsTyped
<1>1. PICK front, level, new :
         /\ levels = loops[t] /\ levels # <<>>
         /\ front = Front(levels) /\ level = Loop(Last(levels).waits, k)
         /\ new = Append(front, level)
  BY <1>0
<1>2. PICK n \in Nat : /\ Len(levels) = n + 1 /\ front \in Seq(Level) /\ Len(front) = n
                       /\ \A i \in 1 .. n : front[i] = levels[i]
  BY <1>1, FrontIs
<1>3. Inner(t) = levels[n + 1] /\ Inner(t) = Last(levels)
  BY <1>1, <1>2 DEF Inner, Last
<1>4. level \in Level /\ level.waits = Inner(t).waits /\ level.task = k
  <2>1. levels[n + 1] \in Level
    BY <1>2, ElementOfSeq
  <2>2. QED  BY <1>1, <1>3, <2>1 DEF Level, Loop
<1>5. /\ loops'[t] = new /\ \A u \in Threads \ {t} : loops'[u] = loops[u]
  BY <1>1 DEF LoopsTyped, SetTask
<1>6. /\ new \in Seq(Level) /\ Len(new) = n + 1 /\ new[n + 1] = level
      /\ \A i \in 1 .. n : new[i] = levels[i]
  <2>1. /\ Append(front, level) \in Seq(Level) /\ Len(Append(front, level)) = Len(front) + 1
        /\ \A i \in 1 .. Len(front) : Append(front, level)[i] = front[i]
        /\ Append(front, level)[Len(front) + 1] = level
    BY <1>2, <1>4, AppendProperties
  <2>2. QED  BY <1>1, <1>2, <2>1
<1>7. LoopsTyped'
  <2>1. loops' = [loops EXCEPT ![t] = new]
    BY <1>1 DEF LoopsTyped, SetTask
  <2>2. QED  BY <1>6, <2>1 DEF LoopsTyped
<1>8. DOMAIN levels = 1 .. n + 1 /\ DOMAIN new = 1 .. n + 1
  BY <1>2, <1>6, LenProperties
<1>9. Inner(t)' = new[n + 1]
  <2>1. Inner(t)' = new[Len(new)]
    BY <1>5 DEF Inner, Last
  <2>2. QED  BY <1>6, <2>1
<1>10. QED  BY <1>1, <1>3, <1>4, <1>5, <1>6, <1>7, <1>8, <1>9 DEF TaskSet

LEMMA PoppedIs ==
    ASSUME LoopsTyped, NEW t \in Threads, loops[t] # <<>>,
           loops' = [loops EXCEPT ![t] = Front(@)]
    PROVE  Popped(t)
<1>0. PICK levels \in Seq(Level) : levels = loops[t] /\ levels # <<>>
  BY DEF LoopsTyped
<1>1. PICK front : levels = loops[t] /\ levels # <<>> /\ front = Front(levels)
  BY <1>0
<1>2. PICK n \in Nat : /\ Len(levels) = n + 1 /\ front \in Seq(Level) /\ Len(front) = n
                       /\ \A i \in 1 .. n : front[i] = levels[i]
  BY <1>1, FrontIs
<1>3. Inner(t) = levels[n + 1]
  BY <1>1, <1>2 DEF Inner, Last
<1>4. loops' = [loops EXCEPT ![t] = front]
  BY <1>1 DEF LoopsTyped
<1>5. /\ loops'[t] = front /\ \A u \in Threads \ {t} : loops'[u] = loops[u]
  BY <1>4 DEF LoopsTyped
<1>6. LoopsTyped'
  BY <1>2, <1>4 DEF LoopsTyped
<1>7. DOMAIN levels = 1 .. n + 1 /\ DOMAIN front = 1 .. n
  BY <1>2, LenProperties
<1>8. n > 0 => Inner(t)' = levels[n]
  <2>1. Inner(t)' = front[n]
    BY <1>2, <1>5 DEF Inner, Last
  <2>2. QED  BY <1>2, <2>1
<1>9. QED  BY <1>1, <1>2, <1>3, <1>5, <1>6, <1>7, <1>8 DEF Popped

\* What is executed and what is awaited after these.
LEMMA AfterPush ==
    ASSUME NEW t \in Threads, NEW level, Pushed(t, level)
    PROVE  /\ \A q : IsExecuting(q)' <=> IsExecuting(q) \/ q = level.task
           /\ \A p : Awaited(p)' <=> Awaited(p) \/ p = level.waits
           /\ (OneLevelEach /\ (level.task = NoTask \/ ~IsExecuting(level.task))) => OneLevelEach'
<1>1. PICK n \in Nat : /\ DOMAIN loops[t] = 1 .. n /\ DOMAIN loops'[t] = 1 .. n + 1
                       /\ \A i \in 1 .. n : loops'[t][i] = loops[t][i]
                       /\ loops'[t][n + 1] = level
  BY DEF Pushed
<1>2. \A u \in Threads \ {t} : loops'[u] = loops[u]
  BY DEF Pushed
<1>3. /\ \A i \in 1 .. n + 1 : i \in 1 .. n \/ i = n + 1
      /\ \A i \in 1 .. n : i \in 1 .. n + 1
      /\ n + 1 \in 1 .. n + 1 /\ n + 1 \notin 1 .. n
  OBVIOUS
<1>4. ASSUME NEW q
      PROVE  IsExecuting(q)' <=> IsExecuting(q) \/ q = level.task
  <2>1. ASSUME IsExecuting(q)'
        PROVE  IsExecuting(q) \/ q = level.task
    <3>1. PICK u, i : u \in Threads /\ i \in DOMAIN loops'[u] /\ loops'[u][i].task = q
      BY <2>1 DEF IsExecuting
    <3>2. QED  BY <1>1, <1>2, <1>3, <3>1 DEF IsExecuting
  <2>2. ASSUME IsExecuting(q)
        PROVE  IsExecuting(q)'
    <3>1. PICK u, i : u \in Threads /\ i \in DOMAIN loops[u] /\ loops[u][i].task = q
      BY <2>2 DEF IsExecuting
    <3>2. i \in DOMAIN loops'[u] /\ loops'[u][i] = loops[u][i]
      BY <1>1, <1>2, <1>3, <3>1
    <3>3. QED  BY <3>1, <3>2 DEF IsExecuting
  <2>3. ASSUME q = level.task
        PROVE  IsExecuting(q)'
    BY <1>1, <1>3, <2>3 DEF IsExecuting
  <2>4. QED  BY <2>1, <2>2, <2>3
<1>5. ASSUME NEW p
      PROVE  Awaited(p)' <=> Awaited(p) \/ p = level.waits
  <2>1. ASSUME Awaited(p)'
        PROVE  Awaited(p) \/ p = level.waits
    <3>1. PICK u, i : u \in Threads /\ i \in DOMAIN loops'[u] /\ loops'[u][i].waits = p
      BY <2>1 DEF Awaited
    <3>2. QED  BY <1>1, <1>2, <1>3, <3>1 DEF Awaited
  <2>2. ASSUME Awaited(p)
        PROVE  Awaited(p)'
    <3>1. PICK u, i : u \in Threads /\ i \in DOMAIN loops[u] /\ loops[u][i].waits = p
      BY <2>2 DEF Awaited
    <3>2. i \in DOMAIN loops'[u] /\ loops'[u][i] = loops[u][i]
      BY <1>1, <1>2, <1>3, <3>1
    <3>3. QED  BY <3>1, <3>2 DEF Awaited
  <2>3. ASSUME p = level.waits
        PROVE  Awaited(p)'
    BY <1>1, <1>3, <2>3 DEF Awaited
  <2>4. QED  BY <2>1, <2>2, <2>3
<1>6. ASSUME OneLevelEach, level.task = NoTask \/ ~IsExecuting(level.task)
      PROVE  OneLevelEach'
  <2>1. SUFFICES ASSUME NEW u \in Threads, NEW v \in Threads,
                        NEW i \in DOMAIN loops'[u], NEW j \in DOMAIN loops'[v],
                        loops'[u][i].task = loops'[v][j].task, loops'[u][i].task # NoTask
                 PROVE  u = v /\ i = j
    BY DEF OneLevelEach
  <2>2. \A x \in Threads : \A l \in DOMAIN loops'[x] :
           (x = t /\ l = n + 1) \/ (l \in DOMAIN loops[x] /\ loops'[x][l] = loops[x][l])
    BY <1>1, <1>2, <1>3
  <2>3. CASE (u = t /\ i = n + 1) /\ (v = t /\ j = n + 1)
    BY <2>3
  <2>4. CASE (u = t /\ i = n + 1) /\ ~(v = t /\ j = n + 1)
    <3>1. j \in DOMAIN loops[v] /\ loops[v][j].task = level.task /\ level.task # NoTask
      BY <1>1, <2>1, <2>2, <2>4
    <3>2. IsExecuting(level.task)
      BY <3>1 DEF IsExecuting
    <3>3. QED  BY <1>6, <3>1, <3>2
  <2>5. CASE ~(u = t /\ i = n + 1) /\ (v = t /\ j = n + 1)
    <3>1. i \in DOMAIN loops[u] /\ loops[u][i].task = level.task /\ level.task # NoTask
      BY <1>1, <2>1, <2>2, <2>5
    <3>2. IsExecuting(level.task)
      BY <3>1 DEF IsExecuting
    <3>3. QED  BY <1>6, <3>1, <3>2
  <2>6. CASE ~(u = t /\ i = n + 1) /\ ~(v = t /\ j = n + 1)
    <3>1. /\ i \in DOMAIN loops[u] /\ loops'[u][i] = loops[u][i]
          /\ j \in DOMAIN loops[v] /\ loops'[v][j] = loops[v][j]
      BY <2>2, <2>6
    <3>2. QED  BY <1>6, <2>1, <3>1 DEF OneLevelEach
  <2>7. QED  BY <2>3, <2>4, <2>5, <2>6
<1>7. QED  BY <1>4, <1>5, <1>6

LEMMA AfterTaskSet ==
    ASSUME NEW t \in Threads, NEW k, TaskSet(t, k), OneLevelEach, NEW old, old = Inner(t).task
    PROVE  /\ \A q : q # NoTask => (IsExecuting(q)' <=> q = k \/ (IsExecuting(q) /\ q # old))
           /\ \A p : Awaited(p)' <=> Awaited(p)
           /\ (k = NoTask \/ ~IsExecuting(k)) => OneLevelEach'
<1>1. PICK n \in Nat : /\ DOMAIN loops[t] = 1 .. n + 1 /\ DOMAIN loops'[t] = 1 .. n + 1
                       /\ \A i \in 1 .. n : loops'[t][i] = loops[t][i]
                       /\ loops[t][n + 1].task = old
                       /\ loops'[t][n + 1].waits = loops[t][n + 1].waits
                       /\ loops'[t][n + 1].task = k
  BY DEF TaskSet
<1>2. \A u \in Threads \ {t} : loops'[u] = loops[u]
  BY DEF TaskSet
<1>3. /\ \A i \in 1 .. n + 1 : i \in 1 .. n \/ i = n + 1
      /\ \A i \in 1 .. n : i \in 1 .. n + 1
      /\ n + 1 \in 1 .. n + 1 /\ n + 1 \notin 1 .. n
  OBVIOUS
<1>4. ASSUME NEW u \in Threads
      PROVE  /\ DOMAIN loops'[u] = DOMAIN loops[u]
             /\ \A i \in DOMAIN loops[u] :
                   /\ loops'[u][i].waits = loops[u][i].waits
                   /\ (u = t /\ i = n + 1) \/ loops'[u][i].task = loops[u][i].task
  BY <1>1, <1>2, <1>3
<1>5. ASSUME NEW q, q # NoTask
      PROVE  IsExecuting(q)' <=> q = k \/ (IsExecuting(q) /\ q # old)
  <2>1. ASSUME IsExecuting(q)', q # k
        PROVE  IsExecuting(q) /\ q # old
    <3>1. PICK u, i : u \in Threads /\ i \in DOMAIN loops'[u] /\ loops'[u][i].task = q
      BY <2>1 DEF IsExecuting
    <3>2. ~(u = t /\ i = n + 1) /\ i \in DOMAIN loops[u] /\ loops[u][i].task = q
      BY <1>1, <1>4, <2>1, <3>1
    <3>3. n + 1 \in DOMAIN loops[t]
      BY <1>1, <1>3
    <3>4. q # old
      BY <1>1, <1>5, <3>1, <3>2, <3>3 DEF OneLevelEach
    <3>5. QED  BY <3>1, <3>2, <3>4 DEF IsExecuting
  <2>2. ASSUME IsExecuting(q), q # old
        PROVE  IsExecuting(q)'
    <3>1. PICK u, i : u \in Threads /\ i \in DOMAIN loops[u] /\ loops[u][i].task = q
      BY <2>2 DEF IsExecuting
    <3>2. i \in DOMAIN loops'[u] /\ loops'[u][i].task = q
      BY <1>1, <1>4, <2>2, <3>1
    <3>3. QED  BY <3>1, <3>2 DEF IsExecuting
  <2>3. ASSUME q = k
        PROVE  IsExecuting(q)'
    BY <1>1, <1>3, <2>3 DEF IsExecuting
  <2>4. QED  BY <2>1, <2>2, <2>3
<1>6. ASSUME NEW p
      PROVE  Awaited(p)' <=> Awaited(p)
  BY <1>4 DEF Awaited
<1>7. ASSUME k = NoTask \/ ~IsExecuting(k)
      PROVE  OneLevelEach'
  <2>1. SUFFICES ASSUME NEW u \in Threads, NEW v \in Threads,
                        NEW i \in DOMAIN loops'[u], NEW j \in DOMAIN loops'[v],
                        loops'[u][i].task = loops'[v][j].task, loops'[u][i].task # NoTask
                 PROVE  u = v /\ i = j
    BY DEF OneLevelEach
  <2>2. i \in DOMAIN loops[u] /\ j \in DOMAIN loops[v]
    BY <1>4
  <2>3. CASE (u = t /\ i = n + 1) /\ (v = t /\ j = n + 1)
    BY <2>3
  <2>4. CASE (u = t /\ i = n + 1) /\ ~(v = t /\ j = n + 1)
    <3>1. loops[v][j].task = k /\ k # NoTask
      <4>1. loops'[u][i].task = k
        BY <1>1, <2>4
      <4>2. loops'[v][j].task = loops[v][j].task
        BY <1>4, <2>2, <2>4
      <4>3. QED  BY <2>1, <4>1, <4>2
    <3>2. IsExecuting(k)
      BY <2>2, <3>1 DEF IsExecuting
    <3>3. QED  BY <1>7, <3>1, <3>2
  <2>5. CASE ~(u = t /\ i = n + 1) /\ (v = t /\ j = n + 1)
    <3>1. loops[u][i].task = k /\ k # NoTask
      <4>1. loops'[v][j].task = k
        BY <1>1, <2>5
      <4>2. loops'[u][i].task = loops[u][i].task
        BY <1>4, <2>2, <2>5
      <4>3. QED  BY <2>1, <4>1, <4>2
    <3>2. IsExecuting(k)
      BY <2>2, <3>1 DEF IsExecuting
    <3>3. QED  BY <1>7, <3>1, <3>2
  <2>6. CASE ~(u = t /\ i = n + 1) /\ ~(v = t /\ j = n + 1)
    <3>1. loops'[u][i].task = loops[u][i].task /\ loops'[v][j].task = loops[v][j].task
      BY <1>4, <2>2, <2>6
    <3>2. loops[u][i].task = loops[v][j].task /\ loops[u][i].task # NoTask
      BY <2>1, <3>1
    <3>3. QED  BY <2>2, <3>2 DEF OneLevelEach
  <2>7. QED  BY <2>3, <2>4, <2>5, <2>6
<1>8. QED  BY <1>5, <1>6, <1>7

LEMMA AfterPop ==
    ASSUME NEW t \in Threads, Popped(t), Inner(t).task = NoTask, NEW w, w = Inner(t).waits
    PROVE  /\ \A q : q # NoTask => (IsExecuting(q)' <=> IsExecuting(q))
           /\ \A p : Awaited(p)' => Awaited(p)
           /\ \A p : p # w => (Awaited(p)' <=> Awaited(p))
           /\ OneLevelEach => OneLevelEach'
<1>1. PICK n \in Nat : /\ DOMAIN loops[t] = 1 .. n + 1 /\ DOMAIN loops'[t] = 1 .. n
                       /\ \A i \in 1 .. n : loops'[t][i] = loops[t][i]
                       /\ loops[t][n + 1].task = NoTask /\ loops[t][n + 1].waits = w
  BY DEF Popped
<1>2. \A u \in Threads \ {t} : loops'[u] = loops[u]
  BY DEF Popped
<1>3. /\ \A i \in 1 .. n + 1 : i \in 1 .. n \/ i = n + 1
      /\ \A i \in 1 .. n : i \in 1 .. n + 1
  OBVIOUS
<1>4. \A u \in Threads : \A i \in DOMAIN loops'[u] :
         i \in DOMAIN loops[u] /\ loops'[u][i] = loops[u][i]
  BY <1>1, <1>2, <1>3
<1>5. \A u \in Threads : \A i \in DOMAIN loops[u] :
         \/ i \in DOMAIN loops'[u] /\ loops'[u][i] = loops[u][i]
         \/ loops[u][i].task = NoTask /\ loops[u][i].waits = w
  BY <1>1, <1>2, <1>3
<1>6. \A q : q # NoTask => (IsExecuting(q)' <=> IsExecuting(q))
  <2>1. ASSUME NEW q, q # NoTask, IsExecuting(q)
        PROVE  IsExecuting(q)'
    <3>1. PICK u, i : u \in Threads /\ i \in DOMAIN loops[u] /\ loops[u][i].task = q
      BY <2>1 DEF IsExecuting
    <3>2. i \in DOMAIN loops'[u] /\ loops'[u][i].task = q
      BY <1>5, <2>1, <3>1
    <3>3. QED  BY <3>1, <3>2 DEF IsExecuting
  <2>2. ASSUME NEW q, IsExecuting(q)'
        PROVE  IsExecuting(q)
    BY <1>4, <2>2 DEF IsExecuting
  <2>3. QED  BY <2>1, <2>2
<1>7. \A p : Awaited(p)' => Awaited(p)
  BY <1>4 DEF Awaited
<1>8. ASSUME NEW p, p # w, Awaited(p)
      PROVE  Awaited(p)'
  <2>1. PICK u, i : u \in Threads /\ i \in DOMAIN loops[u] /\ loops[u][i].waits = p
    BY <1>8 DEF Awaited
  <2>2. i \in DOMAIN loops'[u] /\ loops'[u][i].waits = p
    BY <1>5, <1>8, <2>1
  <2>3. QED  BY <2>1, <2>2 DEF Awaited
<1>9. OneLevelEach => OneLevelEach'
  BY <1>4 DEF OneLevelEach
<1>10. QED  BY <1>6, <1>7, <1>8, <1>9

(******************************************************************************)
(* Where the waiting tasks are                                                *)
(******************************************************************************)

\* Each member of waiting is in one place of one deque, and nothing else is in any.
Placed(deques, waiting) ==
    /\ \A t \in Threads : \A i \in DOMAIN deques[t] : deques[t][i] \in waiting
    /\ \A c \in waiting : \E t \in Threads : \E i \in DOMAIN deques[t] : deques[t][i] = c
    /\ \A t, u \in Threads : \A i \in DOMAIN deques[t], j \in DOMAIN deques[u] :
          deques[t][i] = deques[u][j] => t = u /\ i = j

Deques == [t \in Threads |-> DequeOf(t)]

InCells == Placed(Deques, Waiting)

\* A task is taken from one end of the deque of v.
LEMMA PlacedTaken ==
    ASSUME NEW D, NEW E, NEW W, Placed(D, W), NEW v \in Threads, NEW k,
           FirstTaken(D[v], E[v], k) \/ LastTaken(D[v], E[v], k),
           \A u \in Threads \ {v} : E[u] = D[u]
    PROVE  k \in W /\ Placed(E, W \ {k})
<1>1. PICK n, gone, shift :
         /\ n \in Nat /\ DOMAIN D[v] = 1 .. n + 1 /\ DOMAIN E[v] = 1 .. n
         /\ (gone = 1 /\ shift = 1) \/ (gone = n + 1 /\ shift = 0)
         /\ D[v][gone] = k /\ \A i \in 1 .. n : E[v][i] = D[v][i + shift]
  <2>1. CASE FirstTaken(D[v], E[v], k)
    <3>1. PICK n \in Nat : /\ DOMAIN D[v] = 1 .. n + 1 /\ DOMAIN E[v] = 1 .. n
                           /\ D[v][1] = k /\ \A i \in 1 .. n : E[v][i] = D[v][i + 1]
      BY <2>1 DEF FirstTaken
    <3>2. PICK gone, shift : gone = 1 /\ shift = 1
      OBVIOUS
    <3>3. D[v][gone] = k /\ \A i \in 1 .. n : E[v][i] = D[v][i + shift]
      BY <3>1, <3>2
    <3>4. (gone = 1 /\ shift = 1) \/ (gone = n + 1 /\ shift = 0)
      BY <3>2
    <3>5. DOMAIN D[v] = 1 .. n + 1 /\ DOMAIN E[v] = 1 .. n
      BY <3>1
    <3>6. QED  BY <3>3, <3>4, <3>5, Zenon
  <2>2. CASE LastTaken(D[v], E[v], k)
    <3>1. PICK n \in Nat : /\ DOMAIN D[v] = 1 .. n + 1 /\ DOMAIN E[v] = 1 .. n
                           /\ D[v][n + 1] = k /\ \A i \in 1 .. n : E[v][i] = D[v][i]
      BY <2>2 DEF LastTaken
    <3>2. PICK gone, shift : gone = n + 1 /\ shift = 0 /\ \A i \in 1 .. n : i + shift = i
      <4>1. \A i \in 1 .. n : i + 0 = i
        OBVIOUS
      <4>2. QED  BY <4>1
    <3>3. \A i \in 1 .. n : E[v][i] = D[v][i + shift]
      BY <3>1, <3>2
    <3>4. QED  BY <3>1, <3>2, <3>3
  <2>3. QED  BY <2>1, <2>2
<1>2. gone \in 1 .. n + 1 /\ \A i \in 1 .. n : i + shift \in 1 .. n + 1 /\ i + shift # gone
  BY <1>1
<1>3. \A j \in 1 .. n + 1 : j = gone \/ (j - shift \in 1 .. n /\ (j - shift) + shift = j)
  BY <1>1
<1>4. k \in W
  BY <1>1, <1>2 DEF Placed
<1>5. ASSUME NEW t \in Threads, NEW i \in DOMAIN E[t]
      PROVE  \E j \in DOMAIN D[t] : /\ D[t][j] = E[t][i] /\ (t = v => j = i + shift /\ j # gone)
                                    /\ (t # v => j = i)
  <2>1. CASE t = v
    BY <1>1, <1>2, <2>1
  <2>2. CASE t # v
    BY <2>2
  <2>3. QED  BY <2>1, <2>2
<1>6. ASSUME NEW t \in Threads, NEW i \in DOMAIN E[t]
      PROVE  E[t][i] \in W \ {k}
  <2>1. PICK j \in DOMAIN D[t] : /\ D[t][j] = E[t][i] /\ (t = v => j # gone)
    BY <1>5
  <2>2. D[t][j] \in W
    BY DEF Placed
  <2>3. gone \in DOMAIN D[v]
    BY <1>1, <1>2
  <2>4. D[t][j] # k
    BY <1>1, <2>1, <2>3 DEF Placed
  <2>5. QED  BY <2>1, <2>2, <2>4
<1>7. ASSUME NEW c \in W \ {k}
      PROVE  \E t \in Threads : \E i \in DOMAIN E[t] : E[t][i] = c
  <2>1. PICK t \in Threads : \E j \in DOMAIN D[t] : D[t][j] = c
    BY DEF Placed
  <2>2. PICK j \in DOMAIN D[t] : D[t][j] = c
    BY <2>1
  <2>3. CASE t = v
    <3>1. j \in 1 .. n + 1 /\ j # gone
      BY <1>1, <2>2, <2>3
    <3>2. PICK i \in 1 .. n : i + shift = j
      BY <1>3, <3>1
    <3>3. i \in DOMAIN E[t] /\ E[t][i] = c
      BY <1>1, <2>2, <2>3, <3>2
    <3>4. QED  BY <3>3
  <2>4. CASE t # v
    BY <2>2, <2>4
  <2>5. QED  BY <2>3, <2>4
<1>8. ASSUME NEW t \in Threads, NEW u \in Threads, NEW i \in DOMAIN E[t], NEW j \in DOMAIN E[u],
             E[t][i] = E[u][j]
      PROVE  t = u /\ i = j
  <2>1. PICK x \in DOMAIN D[t] : /\ D[t][x] = E[t][i] /\ (t = v => x = i + shift) /\ (t # v => x = i)
    BY <1>5
  <2>2. PICK y \in DOMAIN D[u] : /\ D[u][y] = E[u][j] /\ (u = v => y = j + shift) /\ (u # v => y = j)
    BY <1>5
  <2>3. D[t][x] = D[u][y]
    BY <1>8, <2>1, <2>2
  <2>4. t = u /\ x = y
    BY <2>3 DEF Placed
  <2>5. CASE t = v
    <3>1. i \in 1 .. n /\ j \in 1 .. n
      BY <1>1, <2>4, <2>5
    <3>2. i + shift = j + shift
      BY <2>1, <2>2, <2>4, <2>5
    <3>3. i = j
      BY <1>1, <3>1, <3>2
    <3>4. QED  BY <2>4, <3>3
  <2>6. CASE t # v
    BY <2>1, <2>2, <2>4, <2>6
  <2>7. QED  BY <2>5, <2>6
<1>9. Placed(E, W \ {k})
  BY <1>6, <1>7, <1>8 DEF Placed
<1>10. QED  BY <1>4, <1>9

\* New tasks are added at the end of the deque of v.
LEMMA PlacedAdded ==
    ASSUME NEW D, NEW E, NEW W, Placed(D, W), NEW v \in Threads, NEW n \in Nat, NEW new, NEW X,
           Continued(D[v], E[v], n, new), \A u \in Threads \ {v} : E[u] = D[u], Len(new) \in Nat,
           \A i \in 1 .. Len(new) : new[i] \in X /\ new[i] \notin W,
           \A c \in X : c \in W \/ \E i \in 1 .. Len(new) : new[i] = c,
           W \subseteq X,
           \A i, j \in 1 .. Len(new) : new[i] = new[j] => i = j
    PROVE  Placed(E, X)
<1>1. PICK m \in Nat : m = Len(new)
  OBVIOUS
<1>2. /\ DOMAIN D[v] = 1 .. n /\ DOMAIN E[v] = 1 .. n + m
      /\ \A i \in 1 .. n : E[v][i] = D[v][i]
      /\ \A i \in 1 .. m : E[v][n + i] = new[i]
  BY <1>1 DEF Continued
<1>3. /\ \A i \in 1 .. n + m : i \in 1 .. n \/ \E j \in 1 .. m : i = n + j
      /\ \A i \in 1 .. n : i \in 1 .. n + m
      /\ \A j \in 1 .. m : n + j \in 1 .. n + m
  <2>1. ASSUME NEW i \in 1 .. n + m, i \notin 1 .. n
        PROVE  \E j \in 1 .. m : i = n + j
    <3>1. i - n \in 1 .. m /\ i = n + (i - n)
      BY <2>1
    <3>2. QED  BY <3>1
  <2>2. QED  BY <2>1
<1>4. ASSUME NEW t \in Threads, NEW i \in DOMAIN E[t]
      PROVE  \/ i \in DOMAIN D[t] /\ E[t][i] = D[t][i]
             \/ t = v /\ \E j \in 1 .. m : i = n + j /\ E[t][i] = new[j]
  <2>1. CASE t = v
    <3>1. i \in 1 .. n + m
      BY <1>2, <2>1
    <3>2. CASE i \in 1 .. n
      BY <1>2, <2>1, <3>2
    <3>3. CASE i \notin 1 .. n
      <4>1. PICK j \in 1 .. m : i = n + j
        BY <1>3, <3>1, <3>3
      <4>2. E[v][n + j] = new[j]
        BY <1>2
      <4>3. QED  BY <2>1, <4>1, <4>2
    <3>4. QED  BY <3>2, <3>3
  <2>2. CASE t # v
    BY <2>2
  <2>3. QED  BY <2>1, <2>2
<1>5. ASSUME NEW t \in Threads, NEW i \in DOMAIN E[t]
      PROVE  E[t][i] \in X
  BY <1>1, <1>4 DEF Placed
<1>6. ASSUME NEW c \in X
      PROVE  \E t \in Threads : \E i \in DOMAIN E[t] : E[t][i] = c
  <2>1. CASE c \in W
    <3>1. PICK t \in Threads : \E j \in DOMAIN D[t] : D[t][j] = c
      BY <2>1 DEF Placed
    <3>2. PICK j \in DOMAIN D[t] : D[t][j] = c
      BY <3>1
    <3>3. j \in DOMAIN E[t] /\ E[t][j] = c
      <4>1. CASE t = v
        BY <1>2, <1>3, <3>2, <4>1
      <4>2. CASE t # v
        BY <3>2, <4>2
      <4>3. QED  BY <4>1, <4>2
    <3>4. QED  BY <3>3
  <2>2. CASE \E i \in 1 .. m : new[i] = c
    <3>1. PICK i \in 1 .. m : new[i] = c
      BY <2>2
    <3>2. PICK j \in DOMAIN E[v] : j = n + i
      BY <1>2, <1>3
    <3>3. E[v][j] = c
      BY <1>2, <3>1, <3>2
    <3>4. QED  BY <3>3
  <2>3. QED  BY <1>1, <2>1, <2>2
<1>7. ASSUME NEW t \in Threads, NEW u \in Threads, NEW i \in DOMAIN E[t], NEW j \in DOMAIN E[u],
             E[t][i] = E[u][j]
      PROVE  t = u /\ i = j
  <2>1. CASE (i \in DOMAIN D[t] /\ E[t][i] = D[t][i]) /\ (j \in DOMAIN D[u] /\ E[u][j] = D[u][j])
    <3>1. D[t][i] = D[u][j]
      BY <1>7, <2>1
    <3>2. QED  BY <2>1, <3>1 DEF Placed
  <2>2. CASE /\ i \in DOMAIN D[t] /\ E[t][i] = D[t][i]
             /\ \E x \in 1 .. m : j = n + x /\ E[u][j] = new[x]
    <3>1. D[t][i] \in W
      BY <2>2 DEF Placed
    <3>2. E[u][j] \notin W
      BY <1>1, <2>2
    <3>3. QED  BY <1>7, <2>2, <3>1, <3>2
  <2>3. CASE /\ \E x \in 1 .. m : i = n + x /\ E[t][i] = new[x]
             /\ j \in DOMAIN D[u] /\ E[u][j] = D[u][j]
    <3>1. D[u][j] \in W
      BY <2>3 DEF Placed
    <3>2. E[t][i] \notin W
      BY <1>1, <2>3
    <3>3. QED  BY <1>7, <2>3, <3>1, <3>2
  <2>4. CASE /\ t = v /\ \E x \in 1 .. m : i = n + x /\ E[t][i] = new[x]
             /\ u = v /\ \E y \in 1 .. m : j = n + y /\ E[u][j] = new[y]
    <3>1. PICK x \in 1 .. m : i = n + x /\ E[t][i] = new[x]
      BY <2>4
    <3>2. PICK y \in 1 .. m : j = n + y /\ E[u][j] = new[y]
      BY <2>4
    <3>3. x = y
      BY <1>1, <1>7, <3>1, <3>2
    <3>4. QED  BY <2>4, <3>1, <3>2, <3>3
  <2>5. QED  BY <1>4, <2>1, <2>2, <2>3, <2>4
<1>8. QED  BY <1>5, <1>6, <1>7 DEF Placed

(******************************************************************************)
(* The program: launches, parents and reference counts                        *)
(******************************************************************************)

Joins(k) == Style(k) \notin {"root", "split"}

LaunchedBy(style, c) == \E k \in Tasks : Style(k) = style /\ HasLaunched(k, c)

\* Child c has been given its parent.
Attached(c) ==
    \E k \in Tasks : \E i \in DOMAIN Kids(k) :
        Kids(k)[i] = c /\ IF Joins(k) THEN done[k] > 0 ELSE i <= done[k]

Untold(q) == IF q \in Tasks THEN q \notin ended ELSE ref_count[q] > 0 \/ IsExecuting(q)

MustWait(k) == k \in Tasks /\ Style(k) \notin {"root", "split"} /\ done[k] \in 1 .. Len(Kids(k))

\* The children that p is still to be told of.
Kin(p) == {q \in Objects : parent[q] = p /\ Untold(q)}

Count(p) == Cardinality(Kin(p)) + IF MustWait(p) \/ Awaited(p) THEN 1 ELSE 0

Counts == \A p \in Objects : ref_count[p] = Count(p)

RecordsTyped ==
    /\ parent \in [Objects -> Objects \cup {NoTask}]
    /\ ref_count \in [Objects -> 0 .. N + 1]
    /\ ended \subseteq Tasks

\* Where a thread is, and its loops.
PcLevels ==
    \A t \in Threads :
        /\ pc[t] = "away" <=> loops[t] = <<>>
        /\ pc[t] \in {"look", "get", "lock", "steal", "raid"} => Inner(t).task = NoTask
        /\ pc[t] = "run" => Inner(t).task \in Objects
        /\ loops[t] # <<>> => loops[t][1].waits = NoTask

\* The task of level i waits in the loop of the level above it.
Joint(t, i) ==
    LET k == loops[t][i].task
        p == loops[t][i + 1].waits
    IN  /\ k \in Tasks
        /\ \/ p = k /\ Joins(k) /\ Kids(k) # <<>> /\ done[k] = Len(Kids(k))
           \/ \E c \in 1 .. N : p = Aux(c) /\ Style(k) = "root" /\ HasLaunched(k, c)

Joints == \A t \in Threads : \A i \in DOMAIN loops[t] : i + 1 \in DOMAIN loops[t] => Joint(t, i)

\* What is executed has been launched, or is a flag_task that has been told of all.
ExecutingIsCurrent ==
    /\ \A k \in Tasks : IsExecuting(k) => k \notin ended /\ (k = MainTask \/ IsLaunched(k))
    /\ \A c \in 1 .. N : IsExecuting(Aux(c)) => ref_count[Aux(c)] = 0 /\ parent[Aux(c)] # NoTask

EndedIsLaunched == \A k \in ended : IsLaunched(k)

Progress ==
    \A k \in Tasks :
        /\ done[k] <= Len(Kids(k)) + 1
        /\ done[k] > Len(Kids(k)) => Joins(k) /\ Kids(k) # <<>> /\ ref_count[k] = 0
        /\ Style(k) = "list" => done[k] = 0 \/ done[k] >= Len(Kids(k))
        /\ done[k] > 0 => k = MainTask \/ IsLaunched(k)

Parents ==
    /\ \A c \in Tasks : parent[c] # NoTask <=> Attached(c)
    /\ \A c \in 1 .. N : parent[Aux(c)] # NoTask <=> LaunchedBy("split", c)
    /\ \A c \in 1 .. N : \A q \in Objects :
          parent[q] = Aux(c) => LaunchedBy("split", c) \/ LaunchedBy("root", c)
    /\ \A p \in Tasks : \A q \in Objects : parent[q] = p => Joins(p) /\ done[p] > 0

DummiesAwaited ==
    \A c \in 1 .. N : LaunchedBy("root", c) /\ ref_count[Aux(c)] > 0 => Awaited(Aux(c))

ProgramInv ==
    /\ ProgramTyped /\ RecordsTyped /\ LoopsTyped /\ PcLevels /\ Joints /\ OneLevelEach
    /\ ExecutingIsCurrent /\ EndedIsLaunched /\ Progress /\ Parents /\ DummiesAwaited /\ Counts
    /\ InCells

\* Task objects.
LEMMA ObjectsAre ==
    /\ N \in Nat /\ MainTask \in Tasks /\ 1 .. N \subseteq Tasks /\ Tasks \subseteq Objects
    /\ MainTask \notin 1 .. N
    /\ \A c \in 1 .. N : Aux(c) \in Objects /\ Aux(c) \notin Tasks
    /\ \A c, d \in 1 .. N : Aux(c) = Aux(d) => c = d
    /\ \A q \in Objects : q \in Tasks \/ \E c \in 1 .. N : q = Aux(c)
    /\ NoTask \notin Objects /\ NoTask \notin Tasks /\ \A c \in 1 .. N : Aux(c) # NoTask
<1>1. N \in Nat
  BY SchedulerAssumption
<1>2. \A q \in Objects : q \in Tasks \/ \E c \in 1 .. N : q = Aux(c)
  <2>1. ASSUME NEW q \in Objects, q \notin Tasks
        PROVE  \E c \in 1 .. N : q = Aux(c)
    <3>1. q - N \in 1 .. N /\ q = N + (q - N)
      BY <1>1, <2>1 DEF Objects, Tasks
    <3>2. QED  BY <3>1 DEF Aux
  <2>2. QED  BY <2>1
<1>3. QED  BY <1>1, <1>2 DEF Objects, Tasks, MainTask, Aux, NoTask

\* A task is the child of one task, in one place.
LEMMA KidsAre ==
    ASSUME ProgramTyped
    PROVE  /\ \A k \in Tasks : /\ Kids(k) \in Seq(1 .. N) /\ Len(Kids(k)) \in Nat
                               /\ DOMAIN Kids(k) = 1 .. Len(Kids(k))
                               /\ \A i \in DOMAIN Kids(k) : Kids(k)[i] \in 1 .. N
                               /\ Style(k) \in Styles /\ done[k] \in Nat
           /\ \A j, k \in Tasks : \A i \in DOMAIN Kids(j), l \in DOMAIN Kids(k) :
                 Kids(j)[i] = Kids(k)[l] => j = k /\ i = l
           /\ Style(MainTask) # "split"
<1>1. \A k \in Tasks : Kids(k) \in Seq(1 .. N) /\ Style(k) \in Styles /\ done[k] \in Nat
  BY ToSpawn DEF ProgramTyped
<1>2. ASSUME NEW k \in Tasks
      PROVE  /\ Len(Kids(k)) \in Nat /\ DOMAIN Kids(k) = 1 .. Len(Kids(k))
             /\ \A i \in DOMAIN Kids(k) : Kids(k)[i] \in 1 .. N
  BY <1>1, LenProperties, ElementOfSeq
<1>3. \A j, k \in Tasks : \A i \in DOMAIN Kids(j), l \in DOMAIN Kids(k) :
         Kids(j)[i] = Kids(k)[l] => j = k /\ i = l
  BY ProgramsAreTrees DEF ProgramTyped, Kids
<1>4. Style(MainTask) # "split"
  BY SchedulerAssumption DEF ProgramTyped, Style
<1>5. QED  BY <1>1, <1>2, <1>3, <1>4

\* Who waits in a loop.
LEMMA AwaitedIs ==
    ASSUME LoopsTyped, PcLevels, Joints, NEW p, p # NoTask,
           NEW t \in Threads, NEW i \in DOMAIN loops[t], loops[t][i].waits = p
    PROVE  i - 1 \in DOMAIN loops[t] /\ Joint(t, i - 1) /\ (i - 1) + 1 = i /\ i \in Nat
<1>1. PICK n \in Nat : DOMAIN loops[t] = 1 .. n /\ n = Len(loops[t])
  BY LevelsOf
<1>2. loops[t] # <<>>
  BY <1>1
<1>3. loops[t][1].waits = NoTask
  BY <1>2 DEF PcLevels
<1>4. i \in 1 .. n /\ i # 1
  BY <1>1, <1>3
<1>5. i - 1 \in 1 .. n /\ (i - 1) + 1 = i /\ i \in Nat
  BY <1>4
<1>6. QED  BY <1>1, <1>4, <1>5 DEF Joints

\* A task that is waited for is executed and has launched all its children, or is a dummy root.
LEMMA AwaitedTask ==
    ASSUME LoopsTyped, PcLevels, Joints, NEW p \in Objects, Awaited(p)
    PROVE  \/ /\ p \in Tasks /\ IsExecuting(p) /\ Joins(p) /\ Kids(p) # <<>>
              /\ done[p] = Len(Kids(p))
           \/ \E c \in 1 .. N : p = Aux(c) /\ LaunchedBy("root", c)
<1>1. PICK t \in Threads : \E i \in DOMAIN loops[t] : loops[t][i].waits = p
  BY DEF Awaited
<1>2. PICK i \in DOMAIN loops[t] : loops[t][i].waits = p
  BY <1>1
<1>3. i - 1 \in DOMAIN loops[t] /\ Joint(t, i - 1) /\ (i - 1) + 1 = i
  BY <1>2, AwaitedIs, ObjectsAre
<1>4. PICK k : k = loops[t][i - 1].task
  OBVIOUS
<1>5. /\ k \in Tasks
      /\ \/ p = k /\ Joins(k) /\ Kids(k) # <<>> /\ done[k] = Len(Kids(k))
         \/ \E c \in 1 .. N : p = Aux(c) /\ Style(k) = "root" /\ HasLaunched(k, c)
  BY <1>2, <1>3, <1>4 DEF Joint
<1>6. IsExecuting(k)
  BY <1>3, <1>4 DEF IsExecuting
<1>7. QED  BY <1>5, <1>6 DEF LaunchedBy

\* One loop at most waits for a task.
LEMMA AwaitedOnce ==
    ASSUME ProgramTyped, LoopsTyped, PcLevels, Joints, OneLevelEach, NEW p \in Objects,
           NEW t \in Threads, NEW i \in DOMAIN loops[t], loops[t][i].waits = p,
           NEW u \in Threads, NEW j \in DOMAIN loops[u], loops[u][j].waits = p
    PROVE  t = u /\ i = j
<1>1. /\ i - 1 \in DOMAIN loops[t] /\ Joint(t, i - 1) /\ (i - 1) + 1 = i /\ i \in Nat
      /\ j - 1 \in DOMAIN loops[u] /\ Joint(u, j - 1) /\ (j - 1) + 1 = j /\ j \in Nat
  BY AwaitedIs, ObjectsAre
<1>2. PICK k, l : k = loops[t][i - 1].task /\ l = loops[u][j - 1].task
  OBVIOUS
<1>3. /\ k \in Tasks
      /\ p = k \/ \E c \in 1 .. N : p = Aux(c) /\ HasLaunched(k, c)
  BY <1>1, <1>2 DEF Joint
<1>4. /\ l \in Tasks
      /\ p = l \/ \E c \in 1 .. N : p = Aux(c) /\ HasLaunched(l, c)
  BY <1>1, <1>2 DEF Joint
<1>5. k = l
  <2>1. CASE p \in Tasks
    BY <1>3, <1>4, <2>1, ObjectsAre
  <2>2. CASE p \notin Tasks
    <3>1. PICK c \in 1 .. N : p = Aux(c) /\ HasLaunched(k, c)
      BY <1>3, <2>2
    <3>2. HasLaunched(l, c)
      BY <1>4, <2>2, <3>1, ObjectsAre
    <3>3. PICK x \in DOMAIN Kids(k) : Kids(k)[x] = c
      BY <3>1 DEF HasLaunched
    <3>4. PICK y \in DOMAIN Kids(l) : Kids(l)[y] = c
      BY <3>2 DEF HasLaunched
    <3>5. QED  BY <1>3, <1>4, <3>3, <3>4, KidsAre
  <2>3. QED  BY <2>1, <2>2
<1>6. k # NoTask
  BY <1>3, ObjectsAre
<1>7. t = u /\ i - 1 = j - 1
  <2>1. PICK a, b : a = i - 1 /\ b = j - 1
    OBVIOUS
  <2>2. /\ a \in DOMAIN loops[t] /\ b \in DOMAIN loops[u]
        /\ loops[t][a].task = loops[u][b].task /\ loops[t][a].task # NoTask
    BY <1>1, <1>2, <1>5, <1>6, <2>1
  <2>3. t = u /\ a = b
    BY <2>2 DEF OneLevelEach
  <2>4. QED  BY <2>1, <2>3
<1>8. QED  BY <1>1, <1>7

\* A child that has not been launched.
Unlaunched(c) ==
    /\ c \in 1 .. N /\ ~IsLaunched(c) /\ c \notin ended /\ ~IsExecuting(c) /\ done[c] = 0
    /\ ~Awaited(c) /\ ~MustWait(c)
    /\ \A style : ~LaunchedBy(style, c)
    /\ parent[Aux(c)] = NoTask /\ ref_count[Aux(c)] = 0
    /\ ~IsExecuting(Aux(c)) /\ ~Awaited(Aux(c))
    /\ \A q \in Objects : parent[q] # Aux(c)

\* The children of a task are finitely many.
LEMMA FiniteKin ==
    ASSUME NEW p
    PROVE  IsFiniteSet(Kin(p)) /\ Cardinality(Kin(p)) \in Nat
<1>1. IsFiniteSet(Objects)
  <2>1. 0 \in Int /\ 2 * N \in Int
    BY ObjectsAre
  <2>2. QED  BY <2>1, FS_Interval DEF Objects
<1>2. Kin(p) \subseteq Objects
  BY DEF Kin
<1>3. QED  BY <1>1, <1>2, FS_Subset, FS_CardinalityType

\* A child that is still to be launched has not been touched.
LEMMA NotLaunched ==
    ASSUME ProgramInv, NEW k \in Tasks, NEW i \in DOMAIN Kids(k), i > done[k],
           NEW c, c = Kids(k)[i]
    PROVE  Unlaunched(c)
<1>0. /\ ProgramTyped /\ RecordsTyped /\ LoopsTyped /\ PcLevels /\ Joints /\ OneLevelEach
      /\ ExecutingIsCurrent /\ EndedIsLaunched /\ Progress /\ Parents /\ Counts
  BY DEF ProgramInv
<1>1. c \in 1 .. N /\ c \in Tasks /\ c # MainTask
  BY <1>0, KidsAre, ObjectsAre
<1>2. \A j \in Tasks : ~HasLaunched(j, c)
  <2>1. SUFFICES ASSUME NEW j \in Tasks, NEW l \in DOMAIN Kids(j), l <= done[j], Kids(j)[l] = c
                 PROVE  FALSE
    BY DEF HasLaunched
  <2>2. j = k /\ l = i
    BY <1>0, <2>1, KidsAre
  <2>3. i \in Nat /\ done[k] \in Nat
    BY <1>0, KidsAre
  <2>4. QED  BY <2>1, <2>2, <2>3
<1>3. ~IsLaunched(c) /\ \A style : ~LaunchedBy(style, c)
  BY <1>2 DEF IsLaunched, LaunchedBy
<1>4. c \notin ended /\ ~IsExecuting(c)
  BY <1>0, <1>1, <1>3 DEF EndedIsLaunched, ExecutingIsCurrent
<1>5. done[c] = 0
  <2>1. done[c] \in Nat
    BY <1>0, <1>1, KidsAre
  <2>2. ~(done[c] > 0)
    BY <1>0, <1>1, <1>3 DEF Progress
  <2>3. QED  BY <2>1, <2>2
<1>6. ~MustWait(c)
  <2>1. Len(Kids(c)) \in Nat
    BY <1>0, <1>1, KidsAre
  <2>2. QED  BY <1>5, <2>1 DEF MustWait
<1>7. ~Awaited(c)
  <2>1. c \in Objects /\ \A d \in 1 .. N : c # Aux(d)
    BY <1>1, ObjectsAre
  <2>2. QED  BY <1>0, <1>4, <2>1, AwaitedTask
<1>8. Aux(c) \in Objects /\ Aux(c) \notin Tasks /\ \A d \in 1 .. N : Aux(d) = Aux(c) => d = c
  BY <1>1, ObjectsAre
<1>9. parent[Aux(c)] = NoTask /\ \A q \in Objects : parent[q] # Aux(c)
  BY <1>0, <1>1, <1>3 DEF Parents
<1>10. ~IsExecuting(Aux(c))
  BY <1>0, <1>1, <1>9 DEF ExecutingIsCurrent
<1>11. ~Awaited(Aux(c))
  BY <1>0, <1>3, <1>8, AwaitedTask
<1>12. ref_count[Aux(c)] = 0
  <2>1. Kin(Aux(c)) = {}
    BY <1>9 DEF Kin
  <2>2. ~MustWait(Aux(c))
    BY <1>8 DEF MustWait
  <2>3. Count(Aux(c)) = 0
    BY <1>11, <2>1, <2>2, FS_EmptySet DEF Count
  <2>4. QED  BY <1>0, <1>8, <2>3 DEF Counts
<1>13. QED
  BY <1>1, <1>3, <1>4, <1>5, <1>6, <1>7, <1>9, <1>10, <1>11, <1>12 DEF Unlaunched

(******************************************************************************)
(* Steps that launch nothing and complete nothing                             *)
(******************************************************************************)

\* A joint stays when its levels stay and its task has launched no more.
LEMMA JointKept ==
    ASSUME NEW t \in Threads, NEW i, Joint(t, i), program' = program,
           loops'[t][i].task = loops[t][i].task, loops'[t][i + 1].waits = loops[t][i + 1].waits,
           done'[loops[t][i].task] = done[loops[t][i].task]
    PROVE  Joint(t, i)'
<1>1. PICK k, p : k = loops[t][i].task /\ p = loops[t][i + 1].waits
  OBVIOUS
<1>2. /\ k \in Tasks
      /\ \/ p = k /\ Joins(k) /\ Kids(k) # <<>> /\ done[k] = Len(Kids(k))
         \/ \E c \in 1 .. N : p = Aux(c) /\ Style(k) = "root" /\ HasLaunched(k, c)
  BY <1>1 DEF Joint
<1>3. done'[k] = done[k] /\ k = loops'[t][i].task /\ p = loops'[t][i + 1].waits
  BY <1>1
<1>4. /\ Kids(k)' = Kids(k) /\ Style(k)' = Style(k) /\ (Joins(k)' <=> Joins(k))
      /\ \A c : HasLaunched(k, c)' <=> HasLaunched(k, c)
  BY <1>3 DEF Kids, Style, Joins, HasLaunched
<1>5. /\ k \in Tasks
      /\ \/ p = k /\ Joins(k)' /\ Kids(k)' # <<>> /\ done'[k] = Len(Kids(k)')
         \/ \E c \in 1 .. N : p = Aux(c) /\ Style(k)' = "root" /\ HasLaunched(k, c)'
  BY <1>2, <1>3, <1>4
<1>6. QED  BY <1>3, <1>5 DEF Joint

\* A count that no step reaches.
LEMMA CountSame ==
    ASSUME NEW p,
           \A q \in Objects : (parent'[q] = p /\ Untold(q)') <=> (parent[q] = p /\ Untold(q)),
           (MustWait(p)' \/ Awaited(p)') <=> (MustWait(p) \/ Awaited(p))
    PROVE  Count(p)' = Count(p)
<1>1. Kin(p)' = Kin(p)
  BY DEF Kin
<1>2. QED  BY <1>1 DEF Count

\* The step of a thread that keeps its loops.
LEMMA IdleStep ==
    ASSUME ProgramInv, UNCHANGED <<program, done, parent, ref_count, ended, loops>>, PcLevels',
           \A u \in Threads : DequeOf(u)' = DequeOf(u)
    PROVE  ProgramInv'
<1>1. /\ \A q : IsExecuting(q)' <=> IsExecuting(q)
      /\ \A p : Awaited(p)' <=> Awaited(p)
      /\ \A k, c : HasLaunched(k, c)' <=> HasLaunched(k, c)
      /\ \A k : Kids(k)' = Kids(k) /\ Style(k)' = Style(k)
  BY DEF IsExecuting, Awaited, HasLaunched, Kids, Style
<1>2. \A c : IsLaunched(c)' <=> IsLaunched(c)
  BY <1>1 DEF IsLaunched
<1>3. /\ \A style, c : LaunchedBy(style, c)' <=> LaunchedBy(style, c)
      /\ \A k : (Joins(k)' <=> Joins(k)) /\ (MustWait(k)' <=> MustWait(k))
      /\ \A q : Untold(q)' <=> Untold(q)
  BY <1>1 DEF LaunchedBy, Joins, MustWait, Untold
<1>4. \A c : Attached(c)' <=> Attached(c)
  BY <1>1, <1>3 DEF Attached
<1>5. ProgramTyped' /\ RecordsTyped' /\ LoopsTyped'
  BY DEF ProgramInv, ProgramTyped, RecordsTyped, LoopsTyped
<1>6. Joints'
  <2>1. \A t \in Threads : \A i : Joint(t, i) => Joint(t, i)'
    BY <1>1, <1>3 DEF Joint
  <2>2. QED  BY <2>1 DEF Joints, ProgramInv
<1>7. OneLevelEach'
  BY DEF OneLevelEach, ProgramInv
<1>8. ExecutingIsCurrent' /\ EndedIsLaunched'
  BY <1>1, <1>2 DEF ExecutingIsCurrent, EndedIsLaunched, ProgramInv
<1>9. Progress'
  BY <1>1, <1>2, <1>3 DEF Progress, ProgramInv
<1>10. Parents' /\ DummiesAwaited'
  BY <1>1, <1>3, <1>4 DEF Parents, DummiesAwaited, ProgramInv
<1>11. Counts'
  BY <1>1, <1>3, CountSame DEF Counts, ProgramInv
<1>12. InCells'
  <2>1. Waiting' = Waiting
    BY <1>1, <1>2 DEF Waiting
  <2>2. Deques' = Deques
    BY DEF Deques
  <2>3. QED  BY <2>1, <2>2 DEF InCells, ProgramInv
<1>13. QED
  BY <1>5, <1>6, <1>7, <1>8, <1>9, <1>10, <1>11, <1>12 DEF ProgramInv

\* What the loops' steps that launch nothing leave alone.
LEMMA RecordsKept ==
    ASSUME UNCHANGED <<program, done, parent, ref_count, ended>>
    PROVE  /\ \A k, c : HasLaunched(k, c)' <=> HasLaunched(k, c)
           /\ \A k : /\ Kids(k)' = Kids(k) /\ Style(k)' = Style(k) /\ (Joins(k)' <=> Joins(k))
                     /\ (MustWait(k)' <=> MustWait(k))
           /\ \A c : /\ IsLaunched(c)' <=> IsLaunched(c)
                     /\ Attached(c)' <=> Attached(c)
           /\ \A style, c : LaunchedBy(style, c)' <=> LaunchedBy(style, c)
           /\ (ProgramTyped => ProgramTyped') /\ (RecordsTyped => RecordsTyped')
           /\ (EndedIsLaunched => EndedIsLaunched') /\ (Progress => Progress')
           /\ (Parents => Parents')
<1>1. /\ \A k, c : HasLaunched(k, c)' <=> HasLaunched(k, c)
      /\ \A k : Kids(k)' = Kids(k) /\ Style(k)' = Style(k)
  BY DEF HasLaunched, Kids, Style
<1>2. \A c : IsLaunched(c)' <=> IsLaunched(c)
  BY <1>1 DEF IsLaunched
<1>3. /\ \A style, c : LaunchedBy(style, c)' <=> LaunchedBy(style, c)
      /\ \A k : (Joins(k)' <=> Joins(k)) /\ (MustWait(k)' <=> MustWait(k))
  BY <1>1 DEF LaunchedBy, Joins, MustWait
<1>4. \A c : Attached(c)' <=> Attached(c)
  BY <1>1, <1>3 DEF Attached
<1>5. (ProgramTyped => ProgramTyped') /\ (RecordsTyped => RecordsTyped')
  BY DEF ProgramTyped, RecordsTyped
<1>6. EndedIsLaunched => EndedIsLaunched'
  BY <1>2 DEF EndedIsLaunched
<1>7. Progress => Progress'
  BY <1>1, <1>2, <1>3 DEF Progress
<1>8. Parents => Parents'
  BY <1>3, <1>4 DEF Parents
<1>9. QED  BY <1>1, <1>2, <1>3, <1>4, <1>5, <1>6, <1>7, <1>8

\* A thread takes task k from a deque.
LEMMA TakeStep ==
    ASSUME ProgramInv, NEW t \in Threads, NEW k \in Waiting, SetTask(t, k),
           UNCHANGED <<program, done, parent, ref_count, ended>>,
           pc \in [Threads -> Places], pc[t] \in {"get", "lock", "raid"},
           pc' = [pc EXCEPT ![t] = "run"],
           Placed(Deques', Waiting \ {k})
    PROVE  ProgramInv'
<1>0. /\ LoopsTyped /\ PcLevels /\ Joints /\ OneLevelEach
      /\ ExecutingIsCurrent /\ DummiesAwaited /\ Counts
  BY DEF ProgramInv
<1>1. k \in Tasks /\ k \in Objects /\ k # NoTask /\ ~IsExecuting(k) /\ IsLaunched(k) /\ k \notin ended
  BY ObjectsAre DEF Waiting
<1>2. loops[t] # <<>> /\ Inner(t).task = NoTask
  BY <1>0 DEF PcLevels
<1>3. TaskSet(t, k)
  BY <1>0, <1>1, <1>2, TaskSetIs
<1>4. /\ \A q : q # NoTask => (IsExecuting(q)' <=> q = k \/ IsExecuting(q))
      /\ \A p : Awaited(p)' <=> Awaited(p)
      /\ OneLevelEach'
  <2>1. PICK old : old = Inner(t).task
    OBVIOUS
  <2>2. /\ \A q : q # NoTask => (IsExecuting(q)' <=> q = k \/ (IsExecuting(q) /\ q # old))
        /\ \A p : Awaited(p)' <=> Awaited(p)
        /\ OneLevelEach'
    BY <1>0, <1>1, <1>3, <2>1, AfterTaskSet
  <2>3. QED  BY <1>2, <2>1, <2>2
<1>5. /\ \A j, c : HasLaunched(j, c)' <=> HasLaunched(j, c)
      /\ \A j : /\ Kids(j)' = Kids(j) /\ Style(j)' = Style(j) /\ (Joins(j)' <=> Joins(j))
                /\ (MustWait(j)' <=> MustWait(j))
      /\ \A c : /\ IsLaunched(c)' <=> IsLaunched(c)
                /\ Attached(c)' <=> Attached(c)
      /\ \A style, c : LaunchedBy(style, c)' <=> LaunchedBy(style, c)
      /\ ProgramTyped' /\ RecordsTyped' /\ EndedIsLaunched' /\ Progress' /\ Parents'
  BY RecordsKept DEF ProgramInv
<1>6. LoopsTyped'
  BY <1>3 DEF TaskSet
<1>7. PICK n \in Nat : /\ DOMAIN loops[t] = 1 .. n + 1 /\ DOMAIN loops'[t] = 1 .. n + 1
                       /\ \A i \in 1 .. n : loops'[t][i] = loops[t][i]
                       /\ Inner(t)' = loops'[t][n + 1]
                       /\ loops'[t][n + 1].waits = loops[t][n + 1].waits
                       /\ loops'[t][n + 1].task = k
  BY <1>3 DEF TaskSet
<1>8. \A u \in Threads \ {t} : loops'[u] = loops[u]
  BY <1>3 DEF TaskSet
<1>9. PcLevels'
  <2>1. ASSUME NEW u \in Threads, u # t
        PROVE  loops'[u] = loops[u] /\ Inner(u)' = Inner(u) /\ pc'[u] = pc[u]
    BY <1>8, <2>1 DEF Inner
  <2>2. pc'[t] = "run" /\ Inner(t)'.task = k
    BY <1>7
  <2>3. loops'[t] # <<>> /\ loops'[t][1].waits = NoTask
    <3>1. 1 \in 1 .. n + 1 /\ (1 = n + 1 \/ 1 \in 1 .. n)
      OBVIOUS
    <3>2. loops[t][1].waits = NoTask
      BY <1>0, <1>2 DEF PcLevels
    <3>3. loops'[t][1].waits = NoTask
      BY <1>7, <3>1, <3>2
    <3>4. QED  BY <1>7, <3>1, <3>3
  <2>4. QED  BY <1>0, <1>1, <2>1, <2>2, <2>3 DEF PcLevels
<1>10. Joints'
  <2>1. SUFFICES ASSUME NEW u \in Threads, NEW i \in DOMAIN loops'[u], i + 1 \in DOMAIN loops'[u]
                 PROVE  Joint(u, i)'
    BY DEF Joints
  <2>2. /\ i \in DOMAIN loops[u] /\ i + 1 \in DOMAIN loops[u]
        /\ loops'[u][i].task = loops[u][i].task /\ loops'[u][i + 1].waits = loops[u][i + 1].waits
    <3>1. CASE u = t
      <4>1. i \in 1 .. n /\ (i + 1 \in 1 .. n \/ i + 1 = n + 1) /\ i \in 1 .. n + 1
        BY <1>7, <2>1, <3>1
      <4>2. QED  BY <1>7, <3>1, <4>1
    <3>2. CASE u # t
      BY <1>8, <2>1, <3>2
    <3>3. QED  BY <3>1, <3>2
  <2>3. Joint(u, i)
    BY <1>0, <2>2 DEF Joints
  <2>4. QED  BY <2>2, <2>3, JointKept
<1>11. ExecutingIsCurrent'
  <2>1. \A c \in 1 .. N : Aux(c) # k /\ Aux(c) # NoTask
    BY <1>1, ObjectsAre
  <2>2. NoTask \notin Tasks
    BY ObjectsAre
  <2>3. QED  BY <1>0, <1>1, <1>4, <1>5, <2>1, <2>2 DEF ExecutingIsCurrent
<1>12. DummiesAwaited'
  BY <1>0, <1>4, <1>5 DEF DummiesAwaited
<1>13. Counts'
  <2>1. \A q \in Objects : Untold(q)' <=> Untold(q)
    BY <1>1, <1>4, ObjectsAre DEF Untold
  <2>2. QED  BY <1>0, <1>4, <1>5, <2>1, CountSame DEF Counts
<1>14. InCells'
  <2>1. Waiting' = Waiting \ {k}
    BY <1>4, <1>5, ObjectsAre DEF Waiting
  <2>2. QED  BY <2>1 DEF InCells
<1>15. QED
  BY <1>4, <1>5, <1>6, <1>9, <1>10, <1>11, <1>12, <1>13, <1>14 DEF ProgramInv

(******************************************************************************)
(* Steps that launch                                                          *)
(******************************************************************************)

\* The next n children of k.
Fresh(k, n) == {c \in Tasks : \E i \in DOMAIN Kids(k) : done[k] < i /\ i <= done[k] + n /\ Kids(k)[i] = c}

\* Task k, which is executed, launches its next n children.
Launch(k, n) ==
    /\ k \in Tasks /\ n \in Nat /\ n > 0 /\ done[k] + n <= Len(Kids(k)) /\ IsExecuting(k)
    /\ program' = program /\ ended' = ended /\ Launched(k, n)
    /\ Style(k) = "list" => n = Len(Kids(k))
    /\ \A q : q \notin Fresh(k, n) /\ q # NoTask => (IsExecuting(q)' <=> IsExecuting(q))

\* What a launch changes of the program.
LEMMA LaunchFacts ==
    ASSUME ProgramInv, NEW k, NEW n, Launch(k, n)
    PROVE  /\ \A j : Kids(j)' = Kids(j) /\ Style(j)' = Style(j) /\ (Joins(j)' <=> Joins(j))
           /\ \A j \in Tasks : done'[j] = IF j = k THEN done[k] + n ELSE done[j]
           /\ \A j \in Tasks : \A c :
                 HasLaunched(j, c)' <=> HasLaunched(j, c) \/ (j = k /\ c \in Fresh(k, n))
           /\ \A c : IsLaunched(c)' <=> IsLaunched(c) \/ c \in Fresh(k, n)
           /\ \A style, c : LaunchedBy(style, c)' <=>
                               LaunchedBy(style, c) \/ (Style(k) = style /\ c \in Fresh(k, n))
           /\ \A c \in Fresh(k, n) : Unlaunched(c) /\ c # k
           /\ \A j \in Objects : j # k => (MustWait(j)' <=> MustWait(j))
           /\ MustWait(k)' <=> Joins(k)
           /\ ProgramTyped' /\ EndedIsLaunched'
<1>0. /\ ProgramTyped /\ EndedIsLaunched /\ ExecutingIsCurrent
      /\ k \in Tasks /\ n \in Nat /\ n > 0 /\ done[k] + n <= Len(Kids(k)) /\ IsExecuting(k)
      /\ program' = program /\ ended' = ended /\ done' = [done EXCEPT ![k] = @ + n]
  BY DEF ProgramInv, Launch, Launched
<1>1. \A j : Kids(j)' = Kids(j) /\ Style(j)' = Style(j) /\ (Joins(j)' <=> Joins(j))
  BY <1>0 DEF Kids, Style, Joins
<1>2. done \in [Tasks -> Nat] /\ done' \in [Tasks -> Nat]
      /\ \A j \in Tasks : done'[j] = IF j = k THEN done[k] + n ELSE done[j]
  <2>1. done \in [Tasks -> Nat]
    BY <1>0 DEF ProgramTyped
  <2>2. PICK m : m = done[k] + n
    OBVIOUS
  <2>3. m \in Nat /\ done' = [done EXCEPT ![k] = m]
    BY <1>0, <2>1, <2>2
  <2>4. QED  BY <1>0, <2>1, <2>2, <2>3
<1>3. ASSUME NEW j \in Tasks, NEW i \in DOMAIN Kids(j)
      PROVE  i \in Nat /\ Kids(j)[i] \in Tasks
  <2>1. DOMAIN Kids(j) = 1 .. Len(Kids(j)) /\ Kids(j)[i] \in 1 .. N
    BY <1>0, KidsAre
  <2>2. QED  BY <2>1, ObjectsAre
<1>4. ASSUME NEW j \in Tasks, NEW c
      PROVE  HasLaunched(j, c)' <=> HasLaunched(j, c) \/ (j = k /\ c \in Fresh(k, n))
  <2>1. HasLaunched(j, c)' <=> \E i \in DOMAIN Kids(j) : i <= done'[j] /\ Kids(j)[i] = c
    BY <1>1 DEF HasLaunched
  <2>2. CASE j # k
    BY <1>2, <2>1, <2>2 DEF HasLaunched
  <2>3. CASE j = k
    <3>1. \A i \in DOMAIN Kids(k) : i <= done[k] + n <=> i <= done[k] \/ (done[k] < i /\ i <= done[k] + n)
      BY <1>0, <1>2, <1>3
    <3>2. HasLaunched(j, c)' <=> \E i \in DOMAIN Kids(k) : i <= done[k] + n /\ Kids(k)[i] = c
      BY <1>2, <2>1, <2>3
    <3>3. QED  BY <1>0, <1>3, <2>3, <3>1, <3>2 DEF HasLaunched, Fresh
  <2>4. QED  BY <2>2, <2>3
<1>5. \A c : IsLaunched(c)' <=> IsLaunched(c) \/ c \in Fresh(k, n)
  BY <1>0, <1>4 DEF IsLaunched
<1>6. \A style, c : LaunchedBy(style, c)' <=>
                       LaunchedBy(style, c) \/ (Style(k) = style /\ c \in Fresh(k, n))
  BY <1>0, <1>1, <1>4 DEF LaunchedBy
<1>7. ASSUME NEW c \in Fresh(k, n)
      PROVE  Unlaunched(c) /\ c # k
  <2>1. PICK i \in DOMAIN Kids(k) : done[k] < i /\ Kids(k)[i] = c
    BY DEF Fresh
  <2>2. i > done[k]
    BY <1>0, <1>2, <1>3, <2>1
  <2>3. Unlaunched(c)
    BY <1>0, <2>1, <2>2, NotLaunched
  <2>4. QED  BY <1>0, <2>3 DEF Unlaunched
<1>8. \A j \in Objects : j # k => (MustWait(j)' <=> MustWait(j))
  BY <1>1, <1>2 DEF MustWait
<1>9. MustWait(k)' <=> Joins(k)
  <2>1. done'[k] \in 1 .. Len(Kids(k))
    <3>1. Len(Kids(k)) \in Nat
      BY <1>0, KidsAre
    <3>2. QED  BY <1>0, <1>2, <3>1
  <2>2. QED  BY <1>0, <1>1, <2>1 DEF MustWait, Joins
<1>10. ProgramTyped' /\ EndedIsLaunched'
  BY <1>0, <1>2, <1>5 DEF ProgramTyped, EndedIsLaunched
<1>11. QED  BY <1>1, <1>2, <1>4, <1>5, <1>6, <1>7, <1>8, <1>9, <1>10

\* Where no record changes but those of k, its children and what they bring.
LEMMA LaunchRest ==
    ASSUME ProgramInv, NEW k, NEW n, Launch(k, n),
           \A j \in Tasks : j # k => ref_count'[j] = ref_count[j],
           \A d \in 1 .. N : d \notin Fresh(k, n) =>
               ref_count'[Aux(d)] = ref_count[Aux(d)] /\ parent'[Aux(d)] = parent[Aux(d)]
    PROVE  Progress' /\ ExecutingIsCurrent'
<1>0. /\ ProgramTyped /\ Progress /\ ExecutingIsCurrent
      /\ k \in Tasks /\ n \in Nat /\ n > 0 /\ done[k] + n <= Len(Kids(k)) /\ IsExecuting(k)
      /\ ended' = ended
      /\ Style(k) = "list" => n = Len(Kids(k))
      /\ \A q : q \notin Fresh(k, n) /\ q # NoTask => (IsExecuting(q)' <=> IsExecuting(q))
  BY DEF ProgramInv, Launch
<1>1. /\ \A j : Kids(j)' = Kids(j) /\ Style(j)' = Style(j) /\ (Joins(j)' <=> Joins(j))
      /\ \A j \in Tasks : done'[j] = IF j = k THEN done[k] + n ELSE done[j]
      /\ \A c : IsLaunched(c)' <=> IsLaunched(c) \/ c \in Fresh(k, n)
      /\ \A c \in Fresh(k, n) : Unlaunched(c)
  BY LaunchFacts
<1>2. ASSUME NEW j \in Tasks
      PROVE  /\ done'[j] <= Len(Kids(j)) + 1
             /\ done'[j] > Len(Kids(j)) => Joins(j) /\ Kids(j) # <<>> /\ ref_count'[j] = 0
             /\ Style(j) = "list" => done'[j] = 0 \/ done'[j] >= Len(Kids(j))
             /\ done'[j] > 0 => j = MainTask \/ IsLaunched(j)'
  <2>1. CASE j # k
    BY <1>0, <1>1, <2>1 DEF Progress
  <2>2. CASE j = k
    <3>1. done[k] \in Nat /\ Len(Kids(k)) \in Nat
      BY <1>0, KidsAre
    <3>2. done'[k] = done[k] + n /\ (k = MainTask \/ IsLaunched(k)')
      BY <1>0, <1>1 DEF ExecutingIsCurrent
    <3>3. QED  BY <1>0, <2>2, <3>1, <3>2
  <2>3. QED  BY <2>1, <2>2
<1>3. Progress'
  BY <1>1, <1>2 DEF Progress
<1>4. \A j \in Tasks : IsExecuting(j)' => j \notin ended' /\ (j = MainTask \/ IsLaunched(j)')
  <2>1. \A j \in Tasks : j # NoTask
    BY ObjectsAre
  <2>2. \A c \in Fresh(k, n) : c \notin ended
    BY <1>1 DEF Unlaunched
  <2>3. QED  BY <1>0, <1>1, <2>1, <2>2 DEF ExecutingIsCurrent
<1>5. \A c \in 1 .. N : IsExecuting(Aux(c))' => ref_count'[Aux(c)] = 0 /\ parent'[Aux(c)] # NoTask
  <2>1. \A c \in 1 .. N : Aux(c) \notin Fresh(k, n) /\ Aux(c) # NoTask
    BY ObjectsAre DEF Fresh
  <2>2. \A c \in 1 .. N : IsExecuting(Aux(c))' => IsExecuting(Aux(c)) /\ c \notin Fresh(k, n)
    BY <1>0, <1>1, <2>1 DEF Unlaunched
  <2>3. QED  BY <1>0, <2>2 DEF ExecutingIsCurrent
<1>6. QED  BY <1>3, <1>4, <1>5 DEF ExecutingIsCurrent

\* The children of a task are as many as their places, and at most N.
LEMMA KidsCounted ==
    ASSUME ProgramTyped, NEW k \in Tasks
    PROVE  Cardinality(Range(Kids(k))) = Len(Kids(k)) /\ Len(Kids(k)) <= N
<1>0. Range(Kids(k)) \in SUBSET (1 .. N)
  BY KidsAre DEF Range
<1>1. PICK n \in Nat, S \in SUBSET (1 .. N) :
         n = Len(Kids(k)) /\ DOMAIN Kids(k) = 1 .. n /\ S = Range(Kids(k))
  BY <1>0, KidsAre
<1>2. Kids(k) \in [1 .. n -> S] /\ S \subseteq 1 .. N /\ \A c \in S : \E i \in 1 .. n : Kids(k)[i] = c
  <2>1. Kids(k) = [i \in 1 .. n |-> Kids(k)[i]]
    <3>1. PICK kids \in Seq(1 .. N) : kids = Kids(k)
      BY KidsAre
    <3>2. kids = [i \in 1 .. Len(kids) |-> kids[i]]
      OBVIOUS
    <3>3. QED  BY <1>1, <3>1, <3>2
  <2>2. \A i \in 1 .. n : Kids(k)[i] \in S
    BY <1>1 DEF Range
  <2>3. S \subseteq 1 .. N /\ \A c \in S : \E i \in 1 .. n : Kids(k)[i] = c
    BY <1>1, KidsAre DEF Range
  <2>4. QED  BY <2>1, <2>2, <2>3
<1>3. \A i, l \in 1 .. n : Kids(k)[i] = Kids(k)[l] => i = l
  BY <1>1, KidsAre
<1>4. Kids(k) \in Bijection(1 .. n, S)
  BY <1>2, <1>3 DEF Bijection, Injection, Surjection, IsInjective
<1>5. Cardinality(S) = n
  <2>1. ExistsBijection(1 .. n, S)
    BY <1>4 DEF ExistsBijection
  <2>2. QED  BY <2>1, FS_CountingElements
<1>6. IsFiniteSet(1 .. N) /\ Cardinality(1 .. N) = N
  <2>1. 1 \in Int /\ N \in Int /\ N \in Nat
    BY ObjectsAre
  <2>2. QED  BY <2>1, FS_Interval
<1>7. n <= N
  <2>1. S \in SUBSET (1 .. N)
    BY <1>2
  <2>2. Cardinality(S) <= Cardinality(1 .. N)
    BY <1>6, <2>1, FS_Subset
  <2>3. QED  BY <1>5, <1>6, <2>2
<1>8. QED  BY <1>1, <1>5, <1>7

\* The first launch of a task that will join: it becomes the parent of all its children.
LEMMA FirstJoinLaunch ==
    ASSUME ProgramInv, NEW k, NEW n, Launch(k, n), Joins(k), done[k] = 0,
           parent' = [p \in Objects |-> IF p \in Range(Kids(k)) THEN k ELSE parent[p]],
           ref_count' = [ref_count EXCEPT ![k] = Len(Kids(k)) + 1],
           \A p \in Objects : p # k => (Awaited(p)' <=> Awaited(p))
    PROVE  RecordsTyped' /\ Parents' /\ DummiesAwaited' /\ Counts' /\ Progress' /\ ExecutingIsCurrent'
<1>0. /\ ProgramTyped /\ RecordsTyped /\ Parents /\ DummiesAwaited /\ Counts
      /\ k \in Tasks /\ ended' = ended
      /\ \A q : q \notin Fresh(k, n) /\ q # NoTask => (IsExecuting(q)' <=> IsExecuting(q))
  BY DEF ProgramInv, Launch
<1>1. /\ \A j : Kids(j)' = Kids(j) /\ Style(j)' = Style(j) /\ (Joins(j)' <=> Joins(j))
      /\ \A j \in Tasks : done'[j] = IF j = k THEN done[k] + n ELSE done[j]
      /\ \A style, c : LaunchedBy(style, c)' <=>
                          LaunchedBy(style, c) \/ (Style(k) = style /\ c \in Fresh(k, n))
      /\ \A j \in Objects : j # k => (MustWait(j)' <=> MustWait(j))
      /\ MustWait(k)'
  BY LaunchFacts
<1>2. PICK m \in Nat, R \in SUBSET (1 .. N) :
         /\ R = Range(Kids(k)) /\ m = Len(Kids(k)) /\ m <= N
         /\ Cardinality(R) = m /\ R \subseteq 1 .. N
         /\ \A c : c \in R <=> \E i \in DOMAIN Kids(k) : Kids(k)[i] = c
  <2>1. Len(Kids(k)) \in Nat /\ Range(Kids(k)) \subseteq 1 .. N
    BY <1>0, KidsAre DEF Range
  <2>2. Cardinality(Range(Kids(k))) = Len(Kids(k)) /\ Len(Kids(k)) <= N
    BY <1>0, KidsCounted
  <2>3. \A c : c \in Range(Kids(k)) <=> \E i \in DOMAIN Kids(k) : Kids(k)[i] = c
    BY DEF Range
  <2>4. QED  BY <2>1, <2>2, <2>3
<1>3. k \in Objects /\ k # NoTask /\ R \subseteq Tasks /\ R \subseteq Objects
      /\ \A d \in 1 .. N : Aux(d) \in Objects /\ Aux(d) \notin R /\ Aux(d) # k /\ Aux(d) \notin Tasks
  BY <1>0, <1>2, ObjectsAre
<1>4. \A c \in R : Unlaunched(c)
  <2>1. ASSUME NEW c \in R
        PROVE  Unlaunched(c)
    <3>1. PICK i \in DOMAIN Kids(k) : Kids(k)[i] = c
      BY <1>2
    <3>2. i > done[k]
      BY <1>0, KidsAre
    <3>3. QED  BY <1>0, <3>1, <3>2, NotLaunched
  <2>2. QED  BY <2>1
<1>5. \A c \in Tasks : Attached(c)' <=> Attached(c) \/ c \in R
  <2>1. \A j \in Tasks : j # k /\ Joins(j) => (done'[j] > 0 <=> done[j] > 0)
    BY <1>1
  <2>2. done'[k] > 0 /\ done[k] = 0
    BY <1>1 DEF Launch
  <2>3. \A c : Attached(c)' <=> \E j \in Tasks : \E i \in DOMAIN Kids(j) :
                                  Kids(j)[i] = c /\ IF Joins(j) THEN done'[j] > 0 ELSE i <= done'[j]
    BY <1>1 DEF Attached
  <2>4. ASSUME NEW c \in Tasks, Attached(c)', c \notin R
        PROVE  Attached(c)
    <3>1. PICK j \in Tasks : \E i \in DOMAIN Kids(j) :
                                Kids(j)[i] = c /\ IF Joins(j) THEN done'[j] > 0 ELSE i <= done'[j]
      BY <2>3, <2>4
    <3>2. j # k
      BY <1>2, <2>4, <3>1
    <3>3. QED  BY <1>1, <3>1, <3>2 DEF Attached
  <2>5. ASSUME NEW c \in Tasks, Attached(c)
        PROVE  Attached(c)'
    <3>1. PICK j \in Tasks : \E i \in DOMAIN Kids(j) :
                                Kids(j)[i] = c /\ IF Joins(j) THEN done[j] > 0 ELSE i <= done[j]
      BY <2>5 DEF Attached
    <3>2. IF j = k THEN Joins(j) /\ done'[j] > 0 ELSE done'[j] = done[j]
      BY <1>1, <2>2
    <3>3. QED  BY <2>3, <3>1, <3>2
  <2>6. ASSUME NEW c \in R
        PROVE  Attached(c)'
    <3>1. \E i \in DOMAIN Kids(k) : Kids(k)[i] = c
      BY <1>2
    <3>2. QED  BY <1>0, <2>2, <2>3, <3>1
  <2>7. QED  BY <2>4, <2>5, <2>6
<1>6. /\ \A p \in Objects : parent'[p] = IF p \in R THEN k ELSE parent[p]
      /\ \A p \in Objects : ref_count'[p] = IF p = k THEN m + 1 ELSE ref_count[p]
      /\ \A c \in R : parent[c] = NoTask
      /\ \A p \in Objects : parent[p] # k
  <2>1. \A c \in R : parent[c] = NoTask
    <3>1. ASSUME NEW c \in R, Attached(c)
          PROVE  FALSE
      <4>1. PICK j \in Tasks : \E i \in DOMAIN Kids(j) :
                                Kids(j)[i] = c /\ IF Joins(j) THEN done[j] > 0 ELSE i <= done[j]
        BY <3>1 DEF Attached
      <4>2. j = k
        BY <1>0, <1>2, <4>1, KidsAre
      <4>3. QED  BY <4>1, <4>2
    <3>2. QED  BY <1>0, <1>3, <3>1 DEF Parents
  <2>2. \A p \in Objects : parent[p] # k
    BY <1>0 DEF Parents
  <2>3. QED  BY <1>0, <1>2, <2>1, <2>2 DEF RecordsTyped
<1>7. RecordsTyped'
  <2>1. m + 1 \in 0 .. N + 1
    BY <1>2, ObjectsAre
  <2>2. ref_count' \in [Objects -> 0 .. N + 1]
    BY <1>0, <1>2, <2>1 DEF RecordsTyped
  <2>3. parent' \in [Objects -> Objects \cup {NoTask}]
    BY <1>0, <1>3 DEF RecordsTyped
  <2>4. QED  BY <1>0, <2>2, <2>3 DEF RecordsTyped
<1>8. Progress' /\ ExecutingIsCurrent'
  <2>1. \A j \in Tasks : j # k => ref_count'[j] = ref_count[j]
    BY <1>6, ObjectsAre
  <2>2. \A d \in 1 .. N : ref_count'[Aux(d)] = ref_count[Aux(d)] /\ parent'[Aux(d)] = parent[Aux(d)]
    BY <1>3, <1>6
  <2>3. QED  BY <2>1, <2>2, LaunchRest
<1>9. \A style, c : style \in {"split", "root"} => (LaunchedBy(style, c)' <=> LaunchedBy(style, c))
  BY <1>1 DEF Joins
<1>18. ASSUME NEW c \in 1 .. N
       PROVE  /\ parent'[Aux(c)] = parent[Aux(c)] /\ ref_count'[Aux(c)] = ref_count[Aux(c)]
              /\ Awaited(Aux(c))' <=> Awaited(Aux(c))
              /\ LaunchedBy("split", c)' <=> LaunchedBy("split", c)
              /\ LaunchedBy("root", c)' <=> LaunchedBy("root", c)
  <2>1. Aux(c) \in Objects /\ Aux(c) # k /\ Aux(c) \notin R
    BY <1>3
  <2>2. /\ parent'[Aux(c)] = parent[Aux(c)] /\ ref_count'[Aux(c)] = ref_count[Aux(c)]
        /\ Awaited(Aux(c))' <=> Awaited(Aux(c))
    BY <1>6, <2>1
  <2>3. QED  BY <1>9, <2>2
<1>10. Parents'
  <2>1. \A c \in Tasks : parent'[c] # NoTask <=> Attached(c)'
    BY <1>0, <1>3, <1>5, <1>6, ObjectsAre DEF Parents
  <2>2. \A c \in 1 .. N : parent'[Aux(c)] # NoTask <=> LaunchedBy("split", c)'
    BY <1>0, <1>18 DEF Parents
  <2>3. \A c \in 1 .. N : \A q \in Objects :
           parent'[q] = Aux(c) => LaunchedBy("split", c)' \/ LaunchedBy("root", c)'
    BY <1>0, <1>3, <1>6, <1>9 DEF Parents
  <2>4. \A p \in Tasks : \A q \in Objects : parent'[q] = p => Joins(p)' /\ done'[p] > 0
    BY <1>0, <1>1, <1>6 DEF Parents, Launch
  <2>5. QED  BY <2>1, <2>2, <2>3, <2>4 DEF Parents
<1>11. DummiesAwaited'
  BY <1>0, <1>18 DEF DummiesAwaited
<1>12. \A q \in Objects : Untold(q)' <=> Untold(q)
  <2>1. \A q \in Objects : q \notin Tasks => q \notin Fresh(k, n) /\ q # NoTask /\ q # k
    BY <1>0, ObjectsAre DEF Fresh
  <2>2. QED  BY <1>0, <1>6, <2>1 DEF Untold
<1>13. Counts'
  <2>1. ASSUME NEW p \in Objects, p # k
        PROVE  ref_count'[p] = Count(p)'
    <3>1. \A q \in Objects : (parent'[q] = p /\ Untold(q)') <=> (parent[q] = p /\ Untold(q))
      BY <1>6, <1>12, <2>1, ObjectsAre
    <3>2. (MustWait(p)' \/ Awaited(p)') <=> (MustWait(p) \/ Awaited(p))
      BY <1>1, <2>1
    <3>3. Count(p)' = Count(p)
      BY <3>1, <3>2, CountSame
    <3>4. QED  BY <1>0, <1>6, <2>1, <3>3 DEF Counts
  <2>2. Kin(k)' = R
    <3>1. \A q \in R : Untold(q)'
      BY <1>0, <1>3, <1>4 DEF Untold, Unlaunched
    <3>2. QED  BY <1>3, <1>6, <3>1 DEF Kin
  <2>3. Count(k)' = m + 1
    BY <1>1, <1>2, <2>2 DEF Count
  <2>4. ref_count'[k] = Count(k)'
    BY <1>3, <1>6, <2>3
  <2>5. QED  BY <2>1, <2>4 DEF Counts
<1>14. QED  BY <1>7, <1>8, <1>10, <1>11, <1>13

\* A later launch changes no record.
LEMMA LaterJoinLaunch ==
    ASSUME ProgramInv, NEW k, NEW n, Launch(k, n), Joins(k), done[k] # 0,
           parent' = parent, ref_count' = ref_count,
           \A p \in Objects : p # k => (Awaited(p)' <=> Awaited(p))
    PROVE  RecordsTyped' /\ Parents' /\ DummiesAwaited' /\ Counts' /\ Progress' /\ ExecutingIsCurrent'
<1>0. /\ ProgramTyped /\ RecordsTyped /\ Parents /\ DummiesAwaited /\ Counts
      /\ k \in Tasks /\ ended' = ended /\ n \in Nat /\ n > 0 /\ done[k] + n <= Len(Kids(k))
      /\ \A q : q \notin Fresh(k, n) /\ q # NoTask => (IsExecuting(q)' <=> IsExecuting(q))
  BY DEF ProgramInv, Launch
<1>1. /\ \A j : Kids(j)' = Kids(j) /\ Style(j)' = Style(j) /\ (Joins(j)' <=> Joins(j))
      /\ \A j \in Tasks : done'[j] = IF j = k THEN done[k] + n ELSE done[j]
      /\ \A style, c : LaunchedBy(style, c)' <=>
                          LaunchedBy(style, c) \/ (Style(k) = style /\ c \in Fresh(k, n))
      /\ \A j \in Objects : j # k => (MustWait(j)' <=> MustWait(j))
      /\ MustWait(k)'
  BY LaunchFacts
<1>2. k \in Objects /\ done[k] \in Nat /\ done[k] > 0 /\ Len(Kids(k)) \in Nat
      /\ \A d \in 1 .. N : Aux(d) \in Objects /\ Aux(d) # k /\ Aux(d) \notin Tasks
  BY <1>0, KidsAre, ObjectsAre
<1>3. MustWait(k)
  BY <1>0, <1>2 DEF MustWait, Joins
<1>4. \A j \in Tasks : Joins(j) => (done'[j] > 0 <=> done[j] > 0)
  BY <1>0, <1>1, <1>2
<1>5. \A c : Attached(c)' <=> Attached(c)
  <2>1. \A j \in Tasks : ~Joins(j) => done'[j] = done[j]
    BY <1>1
  <2>2. QED  BY <1>1, <1>4, <2>1 DEF Attached
<1>6. \A style, c : style \in {"split", "root"} => (LaunchedBy(style, c)' <=> LaunchedBy(style, c))
  BY <1>1 DEF Joins
<1>7. RecordsTyped'
  BY <1>0 DEF RecordsTyped
<1>8. Progress' /\ ExecutingIsCurrent'
  BY LaunchRest
<1>9. Parents'
  BY <1>0, <1>1, <1>4, <1>5, <1>6 DEF Parents
<1>10. DummiesAwaited'
  BY <1>0, <1>2, <1>6 DEF DummiesAwaited
<1>11. \A q \in Objects : Untold(q)' <=> Untold(q)
  <2>1. \A q \in Objects : q \notin Tasks => q \notin Fresh(k, n) /\ q # NoTask
    BY <1>0, ObjectsAre DEF Fresh
  <2>2. QED  BY <1>0, <2>1 DEF Untold
<1>12. Counts'
  <2>1. \A p \in Objects : (MustWait(p)' \/ Awaited(p)') <=> (MustWait(p) \/ Awaited(p))
    BY <1>1, <1>3
  <2>2. \A p \in Objects : Count(p)' = Count(p)
    BY <1>11, <2>1, CountSame
  <2>3. QED  BY <1>0, <2>2 DEF Counts
<1>13. QED  BY <1>7, <1>8, <1>9, <1>10, <1>12

\* The next child.
LEMMA FreshOne ==
    ASSUME ProgramTyped, NEW k \in Tasks, done[k] + 1 <= Len(Kids(k)),
           NEW c, c = Kids(k)[done[k] + 1]
    PROVE  /\ Fresh(k, 1) = {c} /\ c \in 1 .. N /\ c \in Tasks /\ c \in Objects
           /\ done[k] + 1 \in DOMAIN Kids(k) /\ done[k] \in Nat
<1>1. PICK m \in Nat, l \in Nat : /\ m = done[k] /\ l = Len(Kids(k)) /\ m + 1 <= l
                                  /\ DOMAIN Kids(k) = 1 .. l
  BY KidsAre
<1>2. m + 1 \in 1 .. l /\ Kids(k)[m + 1] = c /\ c \in 1 .. N /\ c \in Tasks /\ c \in Objects
  <2>1. m + 1 \in 1 .. l
    BY <1>1
  <2>2. Kids(k)[m + 1] \in 1 .. N
    BY <1>1, <2>1, KidsAre
  <2>3. QED  BY <1>1, <2>1, <2>2, ObjectsAre
<1>3. Fresh(k, 1) = {c}
  <2>1. \A i \in 1 .. l : (m < i /\ i <= m + 1) <=> i = m + 1
    BY <1>1
  <2>2. QED  BY <1>1, <1>2, <2>1 DEF Fresh
<1>4. QED  BY <1>1, <1>2, <1>3

\* What a task that does not join launches, one child at a time.
LEMMA AttachedOne ==
    ASSUME ProgramInv, NEW k, Launch(k, 1), ~Joins(k), NEW c, c = Kids(k)[done[k] + 1]
    PROVE  /\ Fresh(k, 1) = {c} /\ c \in 1 .. N /\ c \in Tasks /\ c \in Objects /\ parent[c] = NoTask
           /\ \A x \in Tasks : Attached(x)' <=> Attached(x) \/ x = c
           /\ \A j \in Tasks : Joins(j) => done'[j] = done[j]
<1>0. /\ ProgramTyped /\ Parents
      /\ k \in Tasks /\ done[k] + 1 <= Len(Kids(k))
  BY DEF ProgramInv, Launch
<1>1. /\ \A j : Kids(j)' = Kids(j) /\ Style(j)' = Style(j) /\ (Joins(j)' <=> Joins(j))
      /\ \A j \in Tasks : done'[j] = IF j = k THEN done[k] + 1 ELSE done[j]
  BY LaunchFacts
<1>2. PICK m \in Nat, l \in Nat : /\ m = done[k] /\ l = Len(Kids(k)) /\ m + 1 <= l
                                  /\ DOMAIN Kids(k) = 1 .. l
  BY <1>0, KidsAre
<1>3. /\ m + 1 \in 1 .. l /\ Kids(k)[m + 1] = c
      /\ Fresh(k, 1) = {c} /\ c \in 1 .. N /\ c \in Tasks /\ c \in Objects
  <2>1. m + 1 \in 1 .. l /\ Kids(k)[m + 1] = c
    BY <1>2
  <2>2. QED  BY <1>0, <2>1, FreshOne
<1>4. \A j \in Tasks : Joins(j) => done'[j] = done[j]
  BY <1>1
<1>5. ASSUME NEW x \in Tasks
      PROVE  Attached(x)' <=> Attached(x) \/ x = c
  <2>1. Attached(x)' <=> \E j \in Tasks : \E i \in DOMAIN Kids(j) :
                            Kids(j)[i] = x /\ IF Joins(j) THEN done'[j] > 0 ELSE i <= done'[j]
    BY <1>1 DEF Attached
  <2>2. \A i \in 1 .. l : i <= m + 1 <=> i <= m \/ i = m + 1
    BY <1>2
  <2>3. \A i \in DOMAIN Kids(k) : i <= done'[k] <=> i <= done[k] \/ i = m + 1
    BY <1>0, <1>1, <1>2, <2>2
  <2>4. ASSUME Attached(x)', x # c
        PROVE  Attached(x)
    <3>1. PICK j \in Tasks : \E i \in DOMAIN Kids(j) :
                                Kids(j)[i] = x /\ IF Joins(j) THEN done'[j] > 0 ELSE i <= done'[j]
      BY <2>1, <2>4
    <3>2. CASE j = k
      BY <1>3, <2>3, <2>4, <3>1, <3>2 DEF Attached
    <3>3. CASE j # k
      BY <1>1, <3>1, <3>3 DEF Attached
    <3>4. QED  BY <3>2, <3>3
  <2>5. ASSUME Attached(x)
        PROVE  Attached(x)'
    <3>1. PICK j \in Tasks : \E i \in DOMAIN Kids(j) :
                                Kids(j)[i] = x /\ IF Joins(j) THEN done[j] > 0 ELSE i <= done[j]
      BY <2>5 DEF Attached
    <3>2. CASE j = k
      BY <2>1, <2>3, <3>1, <3>2
    <3>3. CASE j # k
      BY <1>1, <2>1, <3>1, <3>3
    <3>4. QED  BY <3>2, <3>3
  <2>6. ASSUME x = c
        PROVE  Attached(x)'
    BY <1>0, <1>2, <1>3, <2>1, <2>3, <2>6
  <2>7. QED  BY <2>4, <2>5, <2>6
<1>6. parent[c] = NoTask
  <2>1. ASSUME Attached(c)
        PROVE  FALSE
    <3>1. PICK j \in Tasks : \E i \in DOMAIN Kids(j) :
                                Kids(j)[i] = c /\ IF Joins(j) THEN done[j] > 0 ELSE i <= done[j]
      BY <2>1 DEF Attached
    <3>2. PICK i \in DOMAIN Kids(j) :
                                Kids(j)[i] = c /\ IF Joins(j) THEN done[j] > 0 ELSE i <= done[j]
      BY <3>1
    <3>3. j = k /\ i = m + 1
      BY <1>0, <1>2, <1>3, <3>2, KidsAre
    <3>4. QED  BY <1>2, <3>2, <3>3
  <2>2. QED  BY <1>0, <1>3, <2>1 DEF Parents
<1>7. QED  BY <1>3, <1>4, <1>5, <1>6

\* What is executed has a parent that is to be told.
LEMMA HasParent ==
    ASSUME ProgramInv, NEW k \in Objects, IsExecuting(k), k # MainTask
    PROVE  parent[k] \in Objects /\ Untold(k)
<1>0. ProgramTyped /\ RecordsTyped /\ Parents /\ ExecutingIsCurrent
  BY DEF ProgramInv
<1>1. parent[k] # NoTask
  <2>1. CASE k \in Tasks
    <3>1. IsLaunched(k)
      BY <1>0, <2>1 DEF ExecutingIsCurrent
    <3>2. PICK j \in Tasks : \E i \in DOMAIN Kids(j) : i <= done[j] /\ Kids(j)[i] = k
      BY <3>1 DEF IsLaunched, HasLaunched
    <3>3. PICK i \in DOMAIN Kids(j) : i <= done[j] /\ Kids(j)[i] = k
      BY <3>2
    <3>4. i \in 1 .. Len(Kids(j)) /\ Len(Kids(j)) \in Nat /\ done[j] \in Nat
      BY <1>0, KidsAre
    <3>5. done[j] > 0
      BY <3>3, <3>4
    <3>6. Attached(k)
      BY <3>3, <3>5 DEF Attached
    <3>7. QED  BY <1>0, <2>1, <3>6 DEF Parents
  <2>2. CASE k \notin Tasks
    BY <1>0, <2>2, ObjectsAre DEF ExecutingIsCurrent
  <2>3. QED  BY <2>1, <2>2
<1>2. parent[k] \in Objects
  BY <1>0, <1>1 DEF RecordsTyped
<1>3. Untold(k)
  BY <1>0 DEF Untold, ExecutingIsCurrent
<1>4. QED  BY <1>2, <1>3

\* A task that hands its place over to a flag_task.
LEMMA SplitLaunch ==
    ASSUME ProgramInv, NEW k, Launch(k, 1), Style(k) = "split", NEW c, c = Kids(k)[done[k] + 1],
           parent' = [parent EXCEPT ![c] = Aux(c), ![k] = Aux(c), ![Aux(c)] = parent[k]],
           ref_count' = [ref_count EXCEPT ![Aux(c)] = 2],
           \A p \in Objects : Awaited(p)' <=> Awaited(p)
    PROVE  RecordsTyped' /\ Parents' /\ DummiesAwaited' /\ Counts' /\ Progress' /\ ExecutingIsCurrent'
<1>0. /\ ProgramTyped /\ RecordsTyped /\ Parents /\ DummiesAwaited /\ Counts /\ ExecutingIsCurrent
      /\ k \in Tasks /\ ended' = ended /\ IsExecuting(k) /\ ~Joins(k)
      /\ \A q : q \notin Fresh(k, 1) /\ q # NoTask => (IsExecuting(q)' <=> IsExecuting(q))
  BY DEF ProgramInv, Launch, Joins
<1>1. /\ Fresh(k, 1) = {c} /\ c \in 1 .. N /\ c \in Tasks /\ c \in Objects /\ parent[c] = NoTask
      /\ \A x \in Tasks : Attached(x)' <=> Attached(x) \/ x = c
      /\ \A j \in Tasks : Joins(j) => done'[j] = done[j]
  BY <1>0, AttachedOne
<1>2. /\ \A j : Joins(j)' <=> Joins(j)
      /\ \A style, x : LaunchedBy(style, x)' <=>
                          LaunchedBy(style, x) \/ (Style(k) = style /\ x \in Fresh(k, 1))
      /\ \A j \in Objects : j # k => (MustWait(j)' <=> MustWait(j))
      /\ ~MustWait(k)'
      /\ Unlaunched(c) /\ c # k
  BY <1>0, <1>1, LaunchFacts
<1>3. PICK a, P : a = Aux(c) /\ P = parent[k]
  OBVIOUS
<1>4. /\ k # MainTask /\ P \in Objects
  <2>1. k # MainTask
    BY <1>0, KidsAre
  <2>2. QED  BY <1>0, <1>3, <2>1, HasParent, ObjectsAre
<1>5. /\ k \in Objects /\ a \in Objects /\ a \notin Tasks /\ a # k /\ a # c /\ a # NoTask
      /\ \A d \in 1 .. N : /\ Aux(d) \in Objects /\ Aux(d) \notin Tasks /\ Aux(d) # c /\ Aux(d) # k
                           /\ Aux(d) = a <=> d = c
  BY <1>0, <1>1, <1>3, ObjectsAre
<1>6. /\ parent[a] = NoTask /\ ref_count[a] = 0 /\ ~IsExecuting(a) /\ ~Awaited(a)
      /\ \A q \in Objects : parent[q] # a
      /\ c \notin ended /\ k \notin ended
  BY <1>0, <1>2, <1>3 DEF Unlaunched, ExecutingIsCurrent
<1>7. P # a /\ P # k /\ P # c
  <2>1. \A q \in Objects : parent[q] # k
    BY <1>0 DEF Parents
  <2>2. \A q \in Objects : parent[q] # c
    <3>1. done[c] = 0 /\ ~(done[c] > 0)
      BY <1>2 DEF Unlaunched
    <3>2. QED  BY <1>0, <1>1, <3>1 DEF Parents
  <2>3. QED  BY <1>3, <1>5, <1>6, <2>1, <2>2
<1>8. /\ \A q \in Objects : parent'[q] = IF q = c \/ q = k THEN a ELSE IF q = a THEN P ELSE parent[q]
      /\ \A q \in Objects : ref_count'[q] = IF q = a THEN 2 ELSE ref_count[q]
      /\ RecordsTyped'
  <2>1. parent' = [parent EXCEPT ![c] = a, ![k] = a, ![a] = P]
    BY <1>3
  <2>2. \A q \in Objects : parent'[q] = IF q = c \/ q = k THEN a ELSE IF q = a THEN P ELSE parent[q]
    BY <1>0, <1>1, <1>2, <1>5, <2>1 DEF RecordsTyped
  <2>3. \A q \in Objects : ref_count'[q] = IF q = a THEN 2 ELSE ref_count[q]
    BY <1>0, <1>3 DEF RecordsTyped
  <2>4. 2 \in 0 .. N + 1
    BY <1>1, ObjectsAre
  <2>5. ref_count' \in [Objects -> 0 .. N + 1]
    BY <1>0, <2>4 DEF RecordsTyped
  <2>6. parent' \in [Objects -> Objects \cup {NoTask}]
    BY <1>0, <1>4, <1>5, <2>1 DEF RecordsTyped
  <2>7. QED  BY <1>0, <2>2, <2>3, <2>5, <2>6 DEF RecordsTyped
<1>9. Progress' /\ ExecutingIsCurrent'
  <2>1. \A j \in Tasks : ref_count'[j] = ref_count[j]
    BY <1>5, <1>8, ObjectsAre
  <2>2. \A d \in 1 .. N : d \notin Fresh(k, 1) =>
           ref_count'[Aux(d)] = ref_count[Aux(d)] /\ parent'[Aux(d)] = parent[Aux(d)]
    BY <1>1, <1>5, <1>8
  <2>3. QED  BY <2>1, <2>2, LaunchRest
<1>10. /\ \A d : LaunchedBy("split", d)' <=> LaunchedBy("split", d) \/ d = c
       /\ \A d : LaunchedBy("root", d)' <=> LaunchedBy("root", d)
  BY <1>1, <1>2
<1>11. Parents'
  <2>1. \A x \in Tasks : parent'[x] # NoTask <=> Attached(x)'
    <3>1. parent[k] # NoTask
      BY <1>3, <1>4, ObjectsAre
    <3>2. \A x \in Tasks : x # a /\ x \in Objects
      BY <1>5, ObjectsAre
    <3>3. ASSUME NEW x \in Tasks
          PROVE  parent'[x] # NoTask <=> parent[x] # NoTask \/ x = c
      <4>1. parent'[x] = IF x = c \/ x = k THEN a ELSE IF x = a THEN P ELSE parent[x]
        BY <1>8, <3>2
      <4>2. x # a
        BY <3>2
      <4>3. a # NoTask
        BY <1>5
      <4>4. QED  BY <3>1, <4>1, <4>2, <4>3
    <3>4. \A x \in Tasks : parent[x] # NoTask <=> Attached(x)
      BY <1>0 DEF Parents
    <3>5. QED  BY <1>1, <3>3, <3>4
  <2>2. \A d \in 1 .. N : parent'[Aux(d)] # NoTask <=> LaunchedBy("split", d)'
    <3>1. P # NoTask
      BY <1>4, ObjectsAre
    <3>2. ASSUME NEW d \in 1 .. N
          PROVE  parent'[Aux(d)] # NoTask <=> parent[Aux(d)] # NoTask \/ d = c
      <4>1. PICK q \in Objects : q = Aux(d) /\ q # c /\ q # k /\ (q = a <=> d = c)
        BY <1>5
      <4>2. parent'[q] = IF q = a THEN P ELSE parent[q]
        BY <1>8, <4>1
      <4>3. QED  BY <3>1, <4>1, <4>2
    <3>3. \A d \in 1 .. N : parent[Aux(d)] # NoTask <=> LaunchedBy("split", d)
      BY <1>0 DEF Parents
    <3>4. QED  BY <1>10, <3>2, <3>3
  <2>3. \A d \in 1 .. N : \A q \in Objects :
           parent'[q] = Aux(d) => LaunchedBy("split", d)' \/ LaunchedBy("root", d)'
    <3>1. ASSUME NEW d \in 1 .. N, NEW q \in Objects, parent'[q] = Aux(d)
          PROVE  LaunchedBy("split", d)' \/ LaunchedBy("root", d)'
      <4>1. CASE q = c \/ q = k
        BY <1>5, <1>8, <1>10, <3>1, <4>1
      <4>2. CASE q # c /\ q # k
        <5>1. parent[k] = Aux(d) \/ parent[q] = Aux(d)
          BY <1>3, <1>8, <3>1, <4>2
        <5>2. QED  BY <1>0, <1>5, <1>10, <5>1 DEF Parents
      <4>3. QED  BY <4>1, <4>2
    <3>2. QED  BY <3>1
  <2>4. \A p \in Tasks : \A q \in Objects : parent'[q] = p => Joins(p)' /\ done'[p] > 0
    <3>1. ASSUME NEW p \in Tasks, NEW q \in Objects, parent'[q] = p
          PROVE  Joins(p)' /\ done'[p] > 0
      <4>1. parent[k] = p \/ parent[q] = p
        BY <1>3, <1>5, <1>8, <3>1
      <4>2. Joins(p) /\ done[p] > 0
        BY <1>0, <1>5, <4>1 DEF Parents
      <4>3. QED  BY <1>1, <1>2, <4>2
    <3>2. QED  BY <3>1
  <2>5. QED  BY <2>1, <2>2, <2>3, <2>4 DEF Parents
<1>12. DummiesAwaited'
  <2>1. ~LaunchedBy("root", c)
    BY <1>2 DEF Unlaunched
  <2>2. QED  BY <1>0, <1>5, <1>8, <1>10, <2>1 DEF DummiesAwaited
<1>13. \A q \in Objects : Untold(q)' <=> Untold(q) \/ q = a
  <2>1. \A q \in Objects : q \notin Tasks => q \notin Fresh(k, 1) /\ q # NoTask
    BY <1>0, ObjectsAre DEF Fresh
  <2>2. 2 > 0
    OBVIOUS
  <2>3. QED  BY <1>0, <1>5, <1>8, <2>1, <2>2 DEF Untold
<1>14. Untold(c) /\ Untold(k)
  BY <1>0, <1>1, <1>6 DEF Untold
<1>15. \A p \in Objects : (MustWait(p)' \/ Awaited(p)') <=> (MustWait(p) \/ Awaited(p))
  <2>1. ~MustWait(k)
    BY <1>0 DEF MustWait, Joins
  <2>2. QED  BY <1>2, <2>1
<1>16. Counts'
  <2>1. ASSUME NEW p \in Objects, p # a, p # P
        PROVE  ref_count'[p] = Count(p)'
    <3>1. p # NoTask
      BY ObjectsAre
    <3>2. ASSUME NEW q \in Objects
          PROVE  (parent'[q] = p /\ Untold(q)') <=> (parent[q] = p /\ Untold(q))
      <4>1. parent'[q] = p <=> parent[q] = p
        <5>1. CASE q = c \/ q = k
          <6>1. parent'[q] = a
            BY <1>8, <5>1
          <6>2. parent[q] = NoTask \/ parent[q] = P
            BY <1>1, <1>3, <5>1
          <6>3. QED  BY <2>1, <3>1, <6>1, <6>2
        <5>2. CASE q = a /\ q # c /\ q # k
          <6>1. parent'[q] = P /\ parent[q] = NoTask
            BY <1>6, <1>8, <5>2
          <6>2. QED  BY <2>1, <3>1, <6>1
        <5>3. CASE q # a /\ q # c /\ q # k
          BY <1>8, <5>3
        <5>4. QED  BY <5>1, <5>2, <5>3
      <4>2. parent[q] = p => q # a
        BY <1>6, <3>1
      <4>3. QED  BY <1>13, <4>1, <4>2
    <3>3. Count(p)' = Count(p)
      BY <1>15, <3>2, CountSame
    <3>4. QED  BY <1>0, <1>8, <2>1, <3>3 DEF Counts
  <2>2. ref_count'[a] = Count(a)'
    <3>1. Kin(a)' = {c, k}
      <4>1. ASSUME NEW q \in Objects
            PROVE  parent'[q] = a <=> q = c \/ q = k
        <5>1. CASE q = c \/ q = k
          BY <1>8, <5>1
        <5>2. CASE q # c /\ q # k
          <6>1. parent'[q] = P \/ parent'[q] = parent[q]
            BY <1>8, <5>2
          <6>2. QED  BY <1>6, <1>7, <5>2, <6>1
        <5>3. QED  BY <5>1, <5>2
      <4>2. c \in Objects /\ k \in Objects
        BY <1>1, <1>5
      <4>3. Untold(c)' /\ Untold(k)'
        BY <1>13, <1>14, <4>2
      <4>4. \A q \in Objects : (parent'[q] = a /\ Untold(q)') <=> q \in {c, k}
        BY <4>1, <4>3
      <4>5. PICK W : W = Kin(a)'
        OBVIOUS
      <4>6. \A q : q \in W <=> q \in Objects /\ parent'[q] = a /\ Untold(q)'
        BY <4>5 DEF Kin
      <4>7. W \subseteq {c, k}
        BY <4>4, <4>6
      <4>8. {c, k} \subseteq W
        BY <4>2, <4>4, <4>6
      <4>9. QED  BY <4>5, <4>7, <4>8
    <3>2. Cardinality({c, k}) = 2
      <4>1. Cardinality({c}) = 1 /\ IsFiniteSet({c}) /\ k \notin {c}
        BY <1>2, FS_Singleton
      <4>2. Cardinality({c} \cup {k}) = 1 + 1
        BY <4>1, FS_AddElement
      <4>3. {c} \cup {k} = {c, k}
        OBVIOUS
      <4>4. QED  BY <4>2, <4>3
    <3>3. ~MustWait(a)' /\ ~Awaited(a)'
      BY <1>5, <1>6, <1>2 DEF MustWait
    <3>4. Count(a)' = 2
      BY <3>1, <3>2, <3>3 DEF Count
    <3>5. QED  BY <1>5, <1>8, <3>4
  <2>3. ref_count'[P] = Count(P)'
    <3>1. k \in Kin(P) /\ a \notin Kin(P)
      BY <1>3, <1>4, <1>5, <1>6, <1>14, ObjectsAre DEF Kin
    <3>2. Kin(P)' = (Kin(P) \ {k}) \cup {a}
      <4>1. NoTask # P
        BY <1>4, ObjectsAre
      <4>2. \A q \in Objects : (parent'[q] = P /\ Untold(q)') <=>
                                 ((parent[q] = P /\ Untold(q) /\ q # k) \/ q = a)
        <5>1. SUFFICES ASSUME NEW q \in Objects
                       PROVE  (parent'[q] = P /\ Untold(q)') <=>
                                ((parent[q] = P /\ Untold(q) /\ q # k) \/ q = a)
          OBVIOUS
        <5>2. CASE q = c \/ q = k
          <6>1. parent'[q] = a /\ q # a
            BY <1>5, <1>8, <5>2
          <6>2. parent[q] = P => q = k
            BY <1>1, <1>3, <4>1, <5>2
          <6>3. QED  BY <1>7, <6>1, <6>2
        <5>3. CASE q = a
          <6>1. parent'[q] = P /\ Untold(q)'
            BY <1>5, <1>8, <1>13, <5>3
          <6>2. QED  BY <5>3, <6>1
        <5>4. CASE q # c /\ q # k /\ q # a
          <6>1. parent'[q] = parent[q] /\ (Untold(q)' <=> Untold(q))
            BY <1>8, <1>13, <5>4
          <6>2. QED  BY <5>4, <6>1
        <5>5. QED  BY <5>2, <5>3, <5>4
      <4>3. QED  BY <1>5, <4>2 DEF Kin
    <3>3. PICK m \in Nat, K \in SUBSET Objects :
             K = Kin(P) /\ IsFiniteSet(K) /\ m = Cardinality(K)
      <4>1. IsFiniteSet(Kin(P)) /\ Cardinality(Kin(P)) \in Nat
        BY FiniteKin
      <4>2. Kin(P) \in SUBSET Objects
        BY DEF Kin
      <4>3. QED  BY <4>1, <4>2
    <3>4. Cardinality((K \ {k}) \cup {a}) = m
      <4>1. IsFiniteSet(K \ {k}) /\ Cardinality(K \ {k}) = m - 1
        BY <3>1, <3>3, FS_RemoveElement
      <4>2. a \notin K \ {k}
        BY <3>1, <3>3
      <4>3. Cardinality((K \ {k}) \cup {a}) = m - 1 + 1
        BY <4>1, <4>2, FS_AddElement
      <4>4. QED  BY <3>3, <4>3
    <3>5. Cardinality(Kin(P)') = Cardinality(Kin(P))
      BY <3>2, <3>3, <3>4
    <3>6. Count(P)' = Count(P)
      BY <1>4, <1>15, <3>5 DEF Count
    <3>7. QED  BY <1>0, <1>4, <1>7, <1>8, <3>6 DEF Counts
  <2>4. QED  BY <2>1, <2>2, <2>3 DEF Counts
<1>17. QED  BY <1>8, <1>9, <1>11, <1>12, <1>16

\* A task that executes a child and waits for it under a dummy of its own.
LEMMA RootLaunch ==
    ASSUME ProgramInv, NEW k, Launch(k, 1), Style(k) = "root", NEW c, c = Kids(k)[done[k] + 1],
           parent' = [parent EXCEPT ![c] = Aux(c)],
           ref_count' = [ref_count EXCEPT ![Aux(c)] = 2],
           \A p \in Objects : Awaited(p)' <=> Awaited(p) \/ p = Aux(c)
    PROVE  RecordsTyped' /\ Parents' /\ DummiesAwaited' /\ Counts' /\ Progress' /\ ExecutingIsCurrent'
<1>0. /\ ProgramTyped /\ RecordsTyped /\ Parents /\ DummiesAwaited /\ Counts
      /\ k \in Tasks /\ ended' = ended /\ ~Joins(k)
      /\ \A q : q \notin Fresh(k, 1) /\ q # NoTask => (IsExecuting(q)' <=> IsExecuting(q))
  BY DEF ProgramInv, Launch, Joins
<1>1. /\ Fresh(k, 1) = {c} /\ c \in 1 .. N /\ c \in Tasks /\ c \in Objects /\ parent[c] = NoTask
      /\ \A x \in Tasks : Attached(x)' <=> Attached(x) \/ x = c
      /\ \A j \in Tasks : Joins(j) => done'[j] = done[j]
  BY <1>0, AttachedOne
<1>2. /\ \A j : Joins(j)' <=> Joins(j)
      /\ \A style, x : LaunchedBy(style, x)' <=>
                          LaunchedBy(style, x) \/ (Style(k) = style /\ x \in Fresh(k, 1))
      /\ \A j \in Objects : j # k => (MustWait(j)' <=> MustWait(j))
      /\ ~MustWait(k)'
      /\ Unlaunched(c) /\ c # k
  BY <1>0, <1>1, LaunchFacts
<1>3. PICK a : a = Aux(c)
  OBVIOUS
<1>4. /\ k \in Objects /\ a \in Objects /\ a \notin Tasks /\ a # k /\ a # c /\ a # NoTask
      /\ \A d \in 1 .. N : /\ Aux(d) \in Objects /\ Aux(d) \notin Tasks /\ Aux(d) # c
                           /\ Aux(d) = a <=> d = c
  BY <1>0, <1>1, <1>3, ObjectsAre
<1>5. /\ ref_count[a] = 0 /\ ~IsExecuting(a)
      /\ \A q \in Objects : parent[q] # a
      /\ c \notin ended
  BY <1>2, <1>3 DEF Unlaunched
<1>6. /\ \A q \in Objects : parent'[q] = IF q = c THEN a ELSE parent[q]
      /\ \A q \in Objects : ref_count'[q] = IF q = a THEN 2 ELSE ref_count[q]
      /\ RecordsTyped'
  <2>1. /\ \A q \in Objects : parent'[q] = IF q = c THEN a ELSE parent[q]
        /\ \A q \in Objects : ref_count'[q] = IF q = a THEN 2 ELSE ref_count[q]
    BY <1>0, <1>3 DEF RecordsTyped
  <2>2. 2 \in 0 .. N + 1
    BY <1>1, ObjectsAre
  <2>3. ref_count' \in [Objects -> 0 .. N + 1]
    BY <1>0, <2>2 DEF RecordsTyped
  <2>4. parent' \in [Objects -> Objects \cup {NoTask}]
    BY <1>0, <1>3, <1>4 DEF RecordsTyped
  <2>5. QED  BY <1>0, <2>1, <2>3, <2>4 DEF RecordsTyped
<1>7. Progress' /\ ExecutingIsCurrent'
  <2>1. \A j \in Tasks : ref_count'[j] = ref_count[j]
    BY <1>4, <1>6, ObjectsAre
  <2>2. \A d \in 1 .. N : d \notin Fresh(k, 1) =>
           ref_count'[Aux(d)] = ref_count[Aux(d)] /\ parent'[Aux(d)] = parent[Aux(d)]
    BY <1>1, <1>4, <1>6
  <2>3. QED  BY <2>1, <2>2, LaunchRest
<1>8. /\ \A d : LaunchedBy("split", d)' <=> LaunchedBy("split", d)
      /\ \A d : LaunchedBy("root", d)' <=> LaunchedBy("root", d) \/ d = c
  BY <1>1, <1>2
<1>9. Parents'
  <2>1. \A x \in Tasks : parent'[x] # NoTask <=> Attached(x)'
    <3>1. ASSUME NEW x \in Tasks
          PROVE  parent'[x] # NoTask <=> parent[x] # NoTask \/ x = c
      <4>1. x \in Objects
        BY ObjectsAre
      <4>2. QED  BY <1>4, <1>6, <4>1
    <3>2. \A x \in Tasks : parent[x] # NoTask <=> Attached(x)
      BY <1>0 DEF Parents
    <3>3. QED  BY <1>1, <3>1, <3>2
  <2>2. \A d \in 1 .. N : parent'[Aux(d)] # NoTask <=> LaunchedBy("split", d)'
    BY <1>0, <1>4, <1>6, <1>8 DEF Parents
  <2>3. \A d \in 1 .. N : \A q \in Objects :
           parent'[q] = Aux(d) => LaunchedBy("split", d)' \/ LaunchedBy("root", d)'
    BY <1>0, <1>4, <1>6, <1>8 DEF Parents
  <2>4. \A p \in Tasks : \A q \in Objects : parent'[q] = p => Joins(p)' /\ done'[p] > 0
    <3>1. ASSUME NEW p \in Tasks, NEW q \in Objects, parent'[q] = p
          PROVE  Joins(p)' /\ done'[p] > 0
      <4>1. parent[q] = p
        BY <1>4, <1>6, <3>1
      <4>2. Joins(p) /\ done[p] > 0
        BY <1>0, <4>1 DEF Parents
      <4>3. QED  BY <1>1, <1>2, <4>2
    <3>2. QED  BY <3>1
  <2>5. QED  BY <2>1, <2>2, <2>3, <2>4 DEF Parents
<1>10. DummiesAwaited'
  <2>1. ASSUME NEW d \in 1 .. N, LaunchedBy("root", d)', ref_count'[Aux(d)] > 0
        PROVE  Awaited(Aux(d))'
    <3>1. CASE d = c
      BY <1>3, <1>4, <3>1
    <3>2. CASE d # c
      <4>1. LaunchedBy("root", d) /\ ref_count[Aux(d)] > 0 /\ Aux(d) \in Objects
        BY <1>4, <1>6, <1>8, <2>1, <3>2
      <4>2. QED  BY <1>0, <4>1 DEF DummiesAwaited
    <3>3. QED  BY <3>1, <3>2
  <2>2. QED  BY <2>1 DEF DummiesAwaited
<1>11. \A q \in Objects : Untold(q)' <=> Untold(q) \/ q = a
  <2>1. \A q \in Objects : q \notin Tasks => q \notin Fresh(k, 1) /\ q # NoTask
    BY <1>0, ObjectsAre DEF Fresh
  <2>2. 2 > 0
    OBVIOUS
  <2>3. QED  BY <1>0, <1>4, <1>6, <2>1, <2>2 DEF Untold
<1>12. parent[a] = NoTask /\ Untold(c)
  BY <1>1, <1>2, <1>3, <1>5 DEF Unlaunched, Untold
<1>13. Counts'
  <2>1. ASSUME NEW p \in Objects, p # a
        PROVE  ref_count'[p] = Count(p)'
    <3>1. p # NoTask
      BY ObjectsAre
    <3>2. ASSUME NEW q \in Objects
          PROVE  (parent'[q] = p /\ Untold(q)') <=> (parent[q] = p /\ Untold(q))
      <4>1. parent'[q] = p <=> parent[q] = p
        BY <1>1, <1>6, <2>1, <3>1
      <4>2. parent[q] = p => q # a
        BY <1>12, <3>1
      <4>3. QED  BY <1>11, <4>1, <4>2
    <3>3. (MustWait(p)' \/ Awaited(p)') <=> (MustWait(p) \/ Awaited(p))
      <4>1. ~MustWait(k)
        BY <1>0 DEF MustWait, Joins
      <4>2. QED  BY <1>2, <1>3, <2>1, <4>1
    <3>4. Count(p)' = Count(p)
      BY <3>2, <3>3, CountSame
    <3>5. QED  BY <1>0, <1>6, <2>1, <3>4 DEF Counts
  <2>2. ref_count'[a] = Count(a)'
    <3>1. Kin(a)' = {c}
      <4>1. \A q \in Objects : parent'[q] = a <=> q = c
        BY <1>5, <1>6
      <4>2. Untold(c)'
        BY <1>1, <1>11, <1>12
      <4>3. Kin(a)' = {q \in Objects : parent'[q] = a /\ Untold(q)'}
        BY DEF Kin
      <4>4. QED  BY <1>1, <4>1, <4>2, <4>3
    <3>2. Cardinality({c}) = 1
      BY FS_Singleton
    <3>3. Awaited(a)'
      BY <1>3, <1>4
    <3>4. Count(a)' = 2
      BY <3>1, <3>2, <3>3 DEF Count
    <3>5. QED  BY <1>4, <1>6, <3>4
  <2>3. QED  BY <2>1, <2>2 DEF Counts
<1>14. QED  BY <1>6, <1>7, <1>9, <1>10, <1>13

(******************************************************************************)
(* The loops of a thread that launches                                        *)
(******************************************************************************)

\* The task a thread executes is that of its innermost level, and of no other.
LEMMA Innermost ==
    ASSUME LoopsTyped, OneLevelEach, PcLevels, NEW t \in Threads, pc[t] # "away",
           NEW k, k = Inner(t).task, k # NoTask
    PROVE  /\ loops[t] # <<>> /\ IsExecuting(k)
           /\ \A u \in Threads : \A i \in DOMAIN loops[u] :
                 i + 1 \in DOMAIN loops[u] => loops[u][i].task # k
<1>1. loops[t] # <<>>
  BY DEF PcLevels
<1>2. PICK n \in Nat : /\ n = Len(loops[t]) /\ DOMAIN loops[t] = 1 .. n
                       /\ n \in DOMAIN loops[t] /\ loops[t][n].task = k
  BY <1>1, LevelsOf
<1>3. IsExecuting(k)
  BY <1>2 DEF IsExecuting
<1>4. ASSUME NEW u \in Threads, NEW i \in DOMAIN loops[u], i + 1 \in DOMAIN loops[u],
             loops[u][i].task = k
      PROVE  FALSE
  <2>1. u = t /\ i = n
    BY <1>2, <1>4 DEF OneLevelEach
  <2>2. n + 1 \notin 1 .. n
    OBVIOUS
  <2>3. QED  BY <1>2, <1>4, <2>1, <2>2
<1>5. QED  BY <1>1, <1>3, <1>4

LEMMA JointsStay ==
    ASSUME LoopsTyped, OneLevelEach, PcLevels, Joints, NEW t \in Threads, pc[t] # "away",
           NEW k, k = Inner(t).task, k # NoTask, program' = program,
           \A j \in Tasks : j # k => done'[j] = done[j],
           NEW u \in Threads, NEW i \in DOMAIN loops[u], i + 1 \in DOMAIN loops[u],
           loops'[u][i].task = loops[u][i].task, loops'[u][i + 1].waits = loops[u][i + 1].waits
    PROVE  Joint(u, i)'
<1>1. Joint(u, i)
  BY DEF Joints
<1>2. loops[u][i].task # k
  BY Innermost
<1>3. loops[u][i].task \in Tasks
  BY <1>1 DEF Joint
<1>4. done'[loops[u][i].task] = done[loops[u][i].task]
  BY <1>2, <1>3
<1>5. QED  BY <1>1, <1>4, JointKept

\* The task enters a loop.
LEMMA LoopEntered ==
    ASSUME LoopsTyped, OneLevelEach, PcLevels, Joints, NEW t \in Threads, pc[t] # "away",
           NEW k, k = Inner(t).task, k \in Tasks, program' = program,
           \A j \in Tasks : j # k => done'[j] = done[j],
           NEW level, Pushed(t, level),
           \/ level.waits = k /\ Joins(k)' /\ Kids(k)' # <<>> /\ done'[k] = Len(Kids(k)')
           \/ \E c \in 1 .. N : level.waits = Aux(c) /\ Style(k)' = "root" /\ HasLaunched(k, c)',
           \A u \in Threads \ {t} : pc'[u] = pc[u],
           \/ pc'[t] = "run" /\ level.task \in Objects
           \/ pc'[t] = "look" /\ level.task = NoTask
    PROVE  Joints' /\ PcLevels'
<1>0. k # NoTask /\ loops[t] # <<>>
  BY Innermost, ObjectsAre
<1>1. PICK n \in Nat : /\ DOMAIN loops[t] = 1 .. n /\ DOMAIN loops'[t] = 1 .. n + 1
                       /\ \A i \in 1 .. n : loops'[t][i] = loops[t][i]
                       /\ loops'[t][n + 1] = level /\ Inner(t)' = level
  BY DEF Pushed
<1>2. \A u \in Threads \ {t} : loops'[u] = loops[u]
  BY DEF Pushed
<1>3. n \in 1 .. n /\ 1 \in 1 .. n /\ 1 \in 1 .. n + 1 /\ loops[t][n].task = k
  <2>1. n = Len(loops[t]) /\ n \in 1 .. n
    <3>1. Len(loops[t]) \in Nat /\ DOMAIN loops[t] = 1 .. Len(loops[t])
          /\ Len(loops[t]) \in DOMAIN loops[t]
      BY <1>0, LevelsOf
    <3>2. PICK m \in Nat : m = Len(loops[t])
      BY <3>1
    <3>3. 1 .. m = 1 .. n /\ m \in 1 .. n
      BY <1>1, <3>1, <3>2
    <3>4. m = n
      BY <3>3
    <3>5. QED  BY <3>2, <3>3, <3>4
  <2>2. QED  BY <2>1, LevelsOf
<1>4. Joints'
  <2>1. SUFFICES ASSUME NEW u \in Threads, NEW i \in DOMAIN loops'[u], i + 1 \in DOMAIN loops'[u]
                 PROVE  Joint(u, i)'
    BY DEF Joints
  <2>2. CASE u = t /\ i = n
    <3>1. loops'[u][i].task = k /\ loops'[u][i + 1].waits = level.waits
      BY <1>1, <1>3, <2>2
    <3>2. QED  BY <3>1 DEF Joint
  <2>3. CASE ~(u = t /\ i = n)
    <3>1. /\ i \in DOMAIN loops[u] /\ i + 1 \in DOMAIN loops[u]
          /\ loops'[u][i].task = loops[u][i].task /\ loops'[u][i + 1].waits = loops[u][i + 1].waits
      <4>1. CASE u = t
        <5>1. i \in 1 .. n /\ i + 1 \in 1 .. n
          BY <1>1, <2>1, <2>3, <4>1
        <5>2. QED  BY <1>1, <4>1, <5>1
      <4>2. CASE u # t
        BY <1>2, <2>1, <4>2
      <4>3. QED  BY <4>1, <4>2
    <3>2. QED  BY <1>0, <3>1, JointsStay
  <2>4. QED  BY <2>2, <2>3
<1>5. PcLevels'
  <2>1. ASSUME NEW u \in Threads, u # t
        PROVE  loops'[u] = loops[u] /\ Inner(u)' = Inner(u) /\ pc'[u] = pc[u]
    BY <1>2, <2>1 DEF Inner
  <2>2. loops'[t] # <<>> /\ loops'[t][1].waits = NoTask
    <3>1. loops[t][1].waits = NoTask
      BY <1>0 DEF PcLevels
    <3>2. QED  BY <1>1, <1>3, <3>1
  <2>3. NoTask \notin Objects
    BY ObjectsAre
  <2>4. QED  BY <1>1, <2>1, <2>2, <2>3 DEF PcLevels
<1>6. QED  BY <1>4, <1>5

(******************************************************************************)
(* The steps that launch                                                      *)
(******************************************************************************)

\* What a spawn call hands over are the next children, each once.
LEMMA SpawnsAre ==
    ASSUME ProgramTyped, Progress, NEW k \in Tasks, Spawns(k) # <<>>, NEW new, new = Spawns(k)
    PROVE  /\ Len(new) \in Nat /\ Len(new) > 0 /\ done[k] + Len(new) <= Len(Kids(k))
           /\ Style(k) = "list" => Len(new) = Len(Kids(k))
           /\ Style(k) = "split" => Len(new) = 1
           /\ Style(k) # "root"
           /\ \A i \in 1 .. Len(new) : new[i] \in Fresh(k, Len(new))
           /\ \A c \in Fresh(k, Len(new)) : \E i \in 1 .. Len(new) : new[i] = c
           /\ \A i, j \in 1 .. Len(new) : new[i] = new[j] => i = j
<1>1. PICK kids \in Seq(1 .. N), n \in Nat, m \in Nat :
         /\ kids = Kids(k) /\ n = done[k] /\ m = Len(kids) /\ DOMAIN kids = 1 .. m
  <2>1. Kids(k) \in Seq(1 .. N) /\ Len(Kids(k)) \in Nat /\ DOMAIN Kids(k) = 1 .. Len(Kids(k))
        /\ done[k] \in Nat
    BY KidsAre
  <2>2. QED  BY <2>1
<1>2. PICK left \in Int : left = m - n
  OBVIOUS
<1>3. Spawns(k) = CASE Style(k) = "list" /\ left > 0 -> Reverse(kids)
                    [] \/ Style(k) \in {"wait", "split"} /\ left > 0
                       \/ Style(k) = "both" /\ left > 1 -> <<kids[n + 1]>>
                    [] OTHER -> <<>>
  BY <1>1, <1>2 DEF Spawns
<1>4. /\ \A i \in 1 .. m : kids[i] \in Tasks
      /\ \A i, l \in 1 .. m : kids[i] = kids[l] => i = l
  <2>1. \A i \in DOMAIN Kids(k) : Kids(k)[i] \in Tasks
    BY KidsAre, ObjectsAre
  <2>2. \A i, l \in DOMAIN Kids(k) : Kids(k)[i] = Kids(k)[l] => i = l
    BY KidsAre
  <2>3. QED  BY <1>1, <2>1, <2>2
<1>5. CASE Style(k) = "list" /\ left > 0
  <2>1. new = Reverse(kids) /\ n = 0 /\ m > 0
    <3>1. n = 0 \/ n >= m
      BY <1>1, <1>5 DEF Progress
    <3>2. QED  BY <1>2, <1>3, <1>5, <3>1
  <2>2. /\ new = [i \in 1 .. m |-> kids[(m - i) + 1]] /\ Len(new) = m
    <3>1. new = [i \in 1 .. m |-> kids[(m - i) + 1]]
      BY <1>1, <2>1 DEF Reverse
    <3>2. QED  BY <3>1
  <2>3. \A i \in 1 .. m : (m - i) + 1 \in 1 .. m /\ (m - ((m - i) + 1)) + 1 = i
    OBVIOUS
  <2>4. \A i, j \in 1 .. m : (m - i) + 1 = (m - j) + 1 => i = j
    OBVIOUS
  <2>5. \A i \in 1 .. m : n < i /\ i <= n + m
    BY <2>1
  <2>6. Fresh(k, m) = {c \in Tasks : \E i \in 1 .. m : kids[i] = c}
    BY <1>1, <2>5 DEF Fresh
  <2>7. \A i \in 1 .. m : new[i] = kids[(m - i) + 1]
    BY <2>2
  <2>8. \A i \in 1 .. m : new[i] \in Fresh(k, m)
    BY <1>4, <2>3, <2>6, <2>7
  <2>9. \A c \in Fresh(k, m) : \E i \in 1 .. m : new[i] = c
    <3>1. ASSUME NEW l \in 1 .. m
          PROVE  \E i \in 1 .. m : new[i] = kids[l]
      <4>1. PICK i \in 1 .. m : i = (m - l) + 1 /\ (m - i) + 1 = l
        BY <2>3
      <4>2. QED  BY <2>7, <4>1
    <3>2. QED  BY <2>6, <3>1
  <2>10. \A i, j \in 1 .. m : new[i] = new[j] => i = j
    BY <1>4, <2>3, <2>4, <2>7
  <2>11. QED  BY <1>1, <1>5, <2>1, <2>2, <2>8, <2>9, <2>10
<1>6. CASE \/ Style(k) \in {"wait", "split"} /\ left > 0
           \/ Style(k) = "both" /\ left > 1
  <2>1. new = <<kids[n + 1]>> /\ n + 1 <= m
    BY <1>2, <1>3, <1>6
  <2>2. Len(new) = 1 /\ new[1] = kids[n + 1] /\ 1 .. 1 = {1} /\ n + 1 \in 1 .. m
    BY <2>1
  <2>3. \A i \in 1 .. m : (n < i /\ i <= n + 1) <=> i = n + 1
    OBVIOUS
  <2>4. Fresh(k, 1) = {kids[n + 1]}
    BY <1>1, <1>4, <2>2, <2>3 DEF Fresh
  <2>5. QED  BY <1>1, <1>6, <2>1, <2>2, <2>4
<1>7. CASE /\ ~(Style(k) = "list" /\ left > 0)
           /\ ~(\/ Style(k) \in {"wait", "split"} /\ left > 0
                \/ Style(k) = "both" /\ left > 1)
  BY <1>3, <1>7
<1>8. QED  BY <1>5, <1>6, <1>7

\* The records, when the task spawns or executes the child.
LEMMA JoinLaunch ==
    ASSUME ProgramInv, NEW k, NEW n, Launch(k, n), Joins(k), NEW c, SpawnParents(k, c),
           \A p \in Objects : p # k => (Awaited(p)' <=> Awaited(p))
    PROVE  RecordsTyped' /\ Parents' /\ DummiesAwaited' /\ Counts' /\ Progress' /\ ExecutingIsCurrent'
<1>1. Style(k) # "split"
  BY DEF Joins
<1>2. CASE done[k] = 0
  BY <1>1, <1>2, FirstJoinLaunch DEF SpawnParents
<1>3. CASE done[k] # 0
  BY <1>1, <1>3, LaterJoinLaunch DEF SpawnParents
<1>4. QED  BY <1>2, <1>3

LEMMA SpawnProgramStep ==
    ASSUME PoolInv, ProgramInv, NEW t \in Threads, local_spawn(t)
    PROVE  ProgramInv'
<1>0. /\ ProgramTyped /\ LoopsTyped /\ PcLevels /\ Joints /\ OneLevelEach /\ Progress /\ InCells
      /\ ExecutingIsCurrent
  BY DEF ProgramInv
<1>1. PICK k, c, new, n : /\ k = Current(t) /\ c = NextKid(t) /\ new = Spawns(k) /\ n = Len(new)
  OBVIOUS
<1>2. /\ pc[t] = "run" /\ k \in Tasks /\ new # <<>> /\ SpawnParents(k, c) /\ Launched(k, n)
      /\ UNCHANGED <<program, ended, loops, pc, victim>>
      /\ k = Inner(t).task /\ c = Kids(k)[done[k] + 1]
  BY <1>1 DEF local_spawn, Executes, At, Current, NextKid
<1>3. k # NoTask /\ IsExecuting(k)
  BY <1>0, <1>2, Innermost, ObjectsAre
<1>4. /\ n \in Nat /\ n > 0 /\ done[k] + n <= Len(Kids(k))
      /\ Style(k) = "list" => n = Len(Kids(k))
      /\ Style(k) = "split" => n = 1
      /\ Style(k) # "root"
      /\ \A i \in 1 .. n : new[i] \in Fresh(k, n)
      /\ \A d \in Fresh(k, n) : \E i \in 1 .. n : new[i] = d
      /\ \A i, j \in 1 .. n : new[i] = new[j] => i = j
  BY <1>0, <1>1, <1>2, SpawnsAre
<1>5. /\ \A q : IsExecuting(q)' <=> IsExecuting(q)
      /\ \A p : Awaited(p)' <=> Awaited(p)
  BY <1>2 DEF IsExecuting, Awaited
<1>6. Launch(k, n)
  BY <1>2, <1>3, <1>4, <1>5 DEF Launch
<1>7. /\ \A j \in Tasks : done'[j] = IF j = k THEN done[k] + n ELSE done[j]
      /\ \A d : IsLaunched(d)' <=> IsLaunched(d) \/ d \in Fresh(k, n)
      /\ \A d \in Fresh(k, n) : Unlaunched(d)
      /\ ProgramTyped' /\ EndedIsLaunched'
  BY <1>6, LaunchFacts
<1>8. RecordsTyped' /\ Parents' /\ DummiesAwaited' /\ Counts' /\ Progress' /\ ExecutingIsCurrent'
  <2>1. CASE Style(k) = "split"
    <3>1. Launch(k, 1)
      BY <1>4, <1>6, <2>1
    <3>2. /\ parent' = [parent EXCEPT ![c] = Aux(c), ![k] = Aux(c), ![Aux(c)] = parent[k]]
          /\ ref_count' = [ref_count EXCEPT ![Aux(c)] = 2]
      BY <1>2, <2>1 DEF SpawnParents
    <3>3. QED  BY <1>2, <1>5, <2>1, <3>1, <3>2, SplitLaunch
  <2>2. CASE Style(k) # "split"
    <3>1. Joins(k)
      BY <1>4, <2>2 DEF Joins
    <3>2. QED  BY <1>2, <1>5, <1>6, <3>1, JoinLaunch
  <2>3. QED  BY <2>1, <2>2
<1>9. LoopsTyped' /\ OneLevelEach'
  BY <1>0, <1>2 DEF LoopsTyped, OneLevelEach
<1>10. PcLevels'
  BY <1>0, <1>2 DEF PcLevels, Inner
<1>11. Joints'
  <2>1. ASSUME NEW u \in Threads, NEW i \in DOMAIN loops[u], i + 1 \in DOMAIN loops[u]
        PROVE  Joint(u, i)'
    <3>1. pc[t] # "away" /\ \A j \in Tasks : j # k => done'[j] = done[j]
      BY <1>2, <1>7
    <3>2. QED  BY <1>0, <1>2, <1>3, <2>1, <3>1, JointsStay
  <2>2. QED  BY <1>2, <2>1 DEF Joints
<1>12. InCells'
  <2>1. PICK D, E, W, X : D = Deques /\ E = Deques' /\ W = Waiting /\ X = Waiting'
    OBVIOUS
  <2>2. X = W \cup Fresh(k, n)
    <3>1. \A d \in Fresh(k, n) : d \in Tasks
      BY DEF Fresh
    <3>2. \A d \in Fresh(k, n) : d \notin ended /\ ~IsExecuting(d) /\ ~IsLaunched(d)
      BY <1>7 DEF Unlaunched
    <3>3. QED  BY <1>2, <1>5, <1>7, <2>1, <3>1, <3>2 DEF Waiting
  <2>3. \A d \in Fresh(k, n) : d \notin W
    BY <1>7, <2>1 DEF Waiting, Unlaunched
  <2>4. Placed(D, W)
    BY <1>0, <2>1 DEF InCells
  <2>5. PICK m \in Nat : Continued(DequeOf(t), DequeOf(t)', m, new)
    BY <1>0, <1>1, SpawnStep
  <2>6. Continued(D[t], E[t], m, new)
    BY <2>1, <2>5 DEF Deques
  <2>7. \A u \in Threads \ {t} : E[u] = D[u]
    <3>1. \A u \in Threads \ {t} : DequeOf(u)' = DequeOf(u)
      BY <1>0, SpawnStep
    <3>2. QED  BY <2>1, <3>1 DEF Deques
  <2>8. /\ \A i \in 1 .. Len(new) : new[i] \in X /\ new[i] \notin W
        /\ \A d \in X : d \in W \/ \E i \in 1 .. Len(new) : new[i] = d
        /\ W \subseteq X
        /\ \A i, j \in 1 .. Len(new) : new[i] = new[j] => i = j
        /\ Len(new) \in Nat
    BY <1>1, <1>4, <2>2, <2>3
  <2>9. Placed(E, X)
    BY <2>4, <2>6, <2>7, <2>8, PlacedAdded
  <2>10. QED  BY <2>1, <2>9 DEF InCells
<1>13. QED
  BY <1>7, <1>8, <1>9, <1>10, <1>11, <1>12 DEF ProgramInv

\* The task executes its next child itself, and waits.
LEMMA ChildStep ==
    ASSUME ProgramInv, NEW t \in Threads, NEW k, k = Current(t), NEW c, c = NextKid(t),
           NEW w \in Objects, Executes(t), done[k] + 1 <= Len(Kids(k)),
           \/ Style(k) = "both" /\ w = k /\ done[k] + 1 = Len(Kids(k)) /\ SpawnParents(k, c)
           \/ /\ Style(k) = "root" /\ w = Aux(c)
              /\ parent' = [parent EXCEPT ![c] = Aux(c)]
              /\ ref_count' = [ref_count EXCEPT ![Aux(c)] = 2],
           loops' = [loops EXCEPT ![t] = Append(@, Loop(w, c))],
           Launched(k, 1), UNCHANGED <<program, ended, pc>>,
           \A u \in Threads : DequeOf(u)' = DequeOf(u)
    PROVE  ProgramInv'
<1>0. /\ ProgramTyped /\ LoopsTyped /\ PcLevels /\ Joints /\ OneLevelEach /\ InCells
      /\ ExecutingIsCurrent
  BY DEF ProgramInv
<1>1. pc[t] = "run" /\ k \in Tasks /\ k = Inner(t).task /\ c = Kids(k)[done[k] + 1]
  BY DEF Executes, At, Current, NextKid
<1>2. k # NoTask /\ IsExecuting(k) /\ loops[t] # <<>>
  BY <1>0, <1>1, Innermost, ObjectsAre
<1>3. /\ Fresh(k, 1) = {c} /\ c \in 1 .. N /\ c \in Tasks /\ c \in Objects /\ c # NoTask
      /\ done[k] + 1 \in DOMAIN Kids(k) /\ done[k] \in Nat
  BY <1>0, <1>1, FreshOne, ObjectsAre
<1>4. Unlaunched(c)
  <2>1. PICK i \in DOMAIN Kids(k) : i = done[k] + 1
    BY <1>3
  <2>2. i > done[k]
    BY <1>3, <2>1
  <2>3. QED  BY <1>1, <2>1, <2>2, NotLaunched
<1>5. PICK level \in Level : level = Loop(w, c) /\ level.waits = w /\ level.task = c
  BY <1>3 DEF Loop, Level
<1>6. Pushed(t, level)
  BY <1>0, <1>5, PushedIs
<1>7. /\ \A q : IsExecuting(q)' <=> IsExecuting(q) \/ q = c
      /\ \A p : Awaited(p)' <=> Awaited(p) \/ p = w
      /\ OneLevelEach'
  BY <1>0, <1>4, <1>5, <1>6, AfterPush DEF Unlaunched
<1>8. Launch(k, 1)
  <2>1. Style(k) = "list" => 1 = Len(Kids(k))
    OBVIOUS
  <2>2. 1 \in Nat /\ 1 > 0
    OBVIOUS
  <2>3. \A q : q \notin Fresh(k, 1) /\ q # NoTask => (IsExecuting(q)' <=> IsExecuting(q))
    BY <1>3, <1>7
  <2>4. QED  BY <1>1, <1>2, <2>1, <2>2, <2>3 DEF Launch
<1>9. /\ \A j : Kids(j)' = Kids(j) /\ Style(j)' = Style(j) /\ (Joins(j)' <=> Joins(j))
      /\ \A j \in Tasks : done'[j] = IF j = k THEN done[k] + 1 ELSE done[j]
      /\ \A j \in Tasks : \A d :
            HasLaunched(j, d)' <=> HasLaunched(j, d) \/ (j = k /\ d \in Fresh(k, 1))
      /\ \A d : IsLaunched(d)' <=> IsLaunched(d) \/ d \in Fresh(k, 1)
      /\ ProgramTyped' /\ EndedIsLaunched'
  BY <1>8, LaunchFacts
<1>10. RecordsTyped' /\ Parents' /\ DummiesAwaited' /\ Counts' /\ Progress' /\ ExecutingIsCurrent'
  <2>1. CASE Style(k) = "both"
    <3>1. Joins(k) /\ w = k /\ SpawnParents(k, c)
      BY <2>1 DEF Joins
    <3>2. \A p \in Objects : p # k => (Awaited(p)' <=> Awaited(p))
      BY <1>7, <3>1
    <3>3. QED  BY <1>8, <3>1, <3>2, JoinLaunch
  <2>2. CASE Style(k) = "root"
    <3>1. \A p \in Objects : Awaited(p)' <=> Awaited(p) \/ p = Aux(c)
      BY <1>7, <2>2
    <3>2. QED  BY <1>1, <1>8, <2>2, <3>1, RootLaunch
  <2>3. QED  BY <2>1, <2>2
<1>11. Joints' /\ PcLevels'
  <2>1. \A j \in Tasks : j # k => done'[j] = done[j]
    BY <1>9
  <2>2. \/ level.waits = k /\ Joins(k)' /\ Kids(k)' # <<>> /\ done'[k] = Len(Kids(k)')
        \/ \E d \in 1 .. N : level.waits = Aux(d) /\ Style(k)' = "root" /\ HasLaunched(k, d)'
    <3>1. CASE Style(k) = "both"
      <4>1. Joins(k)' /\ level.waits = k /\ done'[k] = Len(Kids(k)')
        BY <1>1, <1>5, <1>9, <3>1 DEF Joins
      <4>2. Kids(k)' # <<>>
        BY <1>3, <1>9
      <4>3. QED  BY <4>1, <4>2
    <3>2. CASE Style(k) = "root"
      BY <1>1, <1>3, <1>5, <1>9, <3>2
    <3>3. QED  BY <3>1, <3>2
  <2>3. pc[t] # "away" /\ (\A u \in Threads \ {t} : pc'[u] = pc[u])
        /\ pc'[t] = "run" /\ level.task \in Objects /\ program' = program
    BY <1>1, <1>3, <1>5
  <2>4. QED  BY <1>0, <1>1, <1>6, <2>1, <2>2, <2>3, LoopEntered
<1>12. InCells'
  <2>1. Waiting' = Waiting
    <3>1. \A d : d \in Waiting' <=> d \in Waiting
      BY <1>3, <1>4, <1>7, <1>9 DEF Waiting, Unlaunched
    <3>2. QED  BY <3>1
  <2>2. Deques' = Deques
    BY DEF Deques
  <2>3. QED  BY <1>0, <2>1, <2>2 DEF InCells
<1>13. LoopsTyped'
  BY <1>6 DEF Pushed
<1>14. QED
  BY <1>7, <1>9, <1>10, <1>11, <1>12, <1>13 DEF ProgramInv

LEMMA WithChildStep ==
    ASSUME ProgramInv, NEW t \in Threads, local_wait_for_all_WithChild(t),
           \A u \in Threads : DequeOf(u)' = DequeOf(u)
    PROVE  ProgramInv'
<1>1. PICK k, c : k = Current(t) /\ c = NextKid(t)
  OBVIOUS
<1>2. /\ Executes(t) /\ Style(k) = "both" /\ done[k] + 1 = Len(Kids(k)) /\ SpawnParents(k, c)
      /\ loops' = [loops EXCEPT ![t] = Append(@, Loop(k, c))]
      /\ Launched(k, 1) /\ UNCHANGED <<program, ended, pc>>
  BY <1>1 DEF local_wait_for_all_WithChild
<1>3. k \in Tasks /\ k \in Objects
  BY <1>1, <1>2, ObjectsAre DEF Executes
<1>4. done[k] + 1 <= Len(Kids(k))
  <2>1. Len(Kids(k)) \in Nat
    BY <1>3, KidsAre DEF ProgramInv
  <2>2. QED  BY <1>2, <2>1
<1>5. QED  BY <1>1, <1>2, <1>3, <1>4, ChildStep

LEMMA RootStep ==
    ASSUME ProgramInv, NEW t \in Threads, local_spawn_root_and_wait(t),
           \A u \in Threads : DequeOf(u)' = DequeOf(u)
    PROVE  ProgramInv'
<1>1. PICK k, c, w : k = Current(t) /\ c = NextKid(t) /\ w = Aux(c)
  OBVIOUS
<1>2. /\ Executes(t) /\ Style(k) = "root" /\ done[k] < Len(Kids(k))
      /\ parent' = [parent EXCEPT ![c] = Aux(c)]
      /\ ref_count' = [ref_count EXCEPT ![Aux(c)] = 2]
      /\ loops' = [loops EXCEPT ![t] = Append(@, Loop(w, c))]
      /\ Launched(k, 1) /\ UNCHANGED <<program, ended, pc>>
  BY <1>1 DEF local_spawn_root_and_wait
<1>3. ProgramTyped /\ k \in Tasks /\ c = Kids(k)[done[k] + 1]
  BY <1>1, <1>2 DEF Executes, ProgramInv, NextKid
<1>4. done[k] + 1 <= Len(Kids(k))
  <2>1. Len(Kids(k)) \in Nat /\ done[k] \in Nat
    BY <1>3, KidsAre
  <2>2. QED  BY <1>2, <2>1
<1>5. w \in Objects
  <2>1. c \in 1 .. N
    BY <1>3, <1>4, FreshOne
  <2>2. QED  BY <1>1, <2>1, ObjectsAre
<1>6. QED  BY <1>1, <1>2, <1>4, <1>5, ChildStep

(******************************************************************************)
(* The steps that enter or leave a loop and change no record                  *)
(******************************************************************************)

\* A step that moves a dispatch loop and leaves the records as they are.
LEMMA LoopStep ==
    ASSUME ProgramInv, UNCHANGED <<program, done, parent, ref_count, ended>>,
           LoopsTyped', OneLevelEach', Joints', PcLevels',
           \A q \in Objects : IsExecuting(q)' <=> IsExecuting(q),
           \A p \in Objects : Awaited(p) => Awaited(p)',
           \A p \in Objects : Awaited(p)' => Awaited(p) \/ MustWait(p),
           \A u \in Threads : DequeOf(u)' = DequeOf(u)
    PROVE  ProgramInv'
<1>0. ExecutingIsCurrent /\ DummiesAwaited /\ Counts /\ InCells
  BY DEF ProgramInv
<1>1. /\ \A k : MustWait(k)' <=> MustWait(k)
      /\ \A c : IsLaunched(c)' <=> IsLaunched(c)
      /\ \A style, c : LaunchedBy(style, c)' <=> LaunchedBy(style, c)
      /\ ProgramTyped' /\ RecordsTyped' /\ EndedIsLaunched' /\ Progress' /\ Parents'
  BY RecordsKept DEF ProgramInv
<1>2. ExecutingIsCurrent'
  <2>1. \A c \in 1 .. N : Aux(c) \in Objects
    BY ObjectsAre
  <2>2. \A k \in Tasks : k \in Objects
    BY ObjectsAre
  <2>3. QED  BY <1>0, <1>1, <2>1, <2>2 DEF ExecutingIsCurrent
<1>3. DummiesAwaited'
  BY <1>0, <1>1, ObjectsAre DEF DummiesAwaited
<1>4. Counts'
  <2>1. \A q \in Objects : Untold(q)' <=> Untold(q)
    BY DEF Untold
  <2>2. \A p \in Objects : Count(p)' = Count(p)
    BY <1>1, <2>1, CountSame
  <2>3. QED  BY <1>0, <2>2 DEF Counts
<1>5. InCells'
  <2>1. Waiting' = Waiting
    <3>1. \A c \in Tasks : c \in Objects
      BY ObjectsAre
    <3>2. QED  BY <1>1, <3>1 DEF Waiting
  <2>2. Deques' = Deques
    BY DEF Deques
  <2>3. QED  BY <1>0, <2>1, <2>2 DEF InCells
<1>6. QED  BY <1>1, <1>2, <1>3, <1>4, <1>5 DEF ProgramInv

LEMMA WaitStep ==
    ASSUME PoolInv, ProgramInv, NEW t \in Threads, local_wait_for_all(t),
           \A u \in Threads : DequeOf(u)' = DequeOf(u)
    PROVE  ProgramInv'
<1>0. /\ ProgramTyped /\ LoopsTyped /\ PcLevels /\ Joints /\ OneLevelEach
      /\ pc \in [Threads -> Places]
  BY DEF ProgramInv, PoolInv, ThreadsTyped
<1>1. PICK k : k = Current(t)
  OBVIOUS
<1>2. /\ pc[t] = "run" /\ k \in Tasks /\ k = Inner(t).task
      /\ Style(k) \in {"wait", "list"} /\ Kids(k) # <<>> /\ done[k] = Len(Kids(k))
      /\ loops' = [loops EXCEPT ![t] = Append(@, Loop(k, NoTask))]
      /\ pc' = [pc EXCEPT ![t] = "look"]
      /\ UNCHANGED <<program, done, parent, ref_count, ended>>
  BY <1>1 DEF local_wait_for_all, Executes, At, Current, Goto, dispatch
<1>3. k \in Objects /\ NoTask \notin Objects /\ Joins(k)
  BY <1>2, ObjectsAre DEF Joins
<1>4. PICK level \in Level : level = Loop(k, NoTask) /\ level.waits = k /\ level.task = NoTask
  <2>1. /\ Loop(k, NoTask) \in Level
        /\ Loop(k, NoTask).waits = k /\ Loop(k, NoTask).task = NoTask
    BY <1>3 DEF Loop, Level
  <2>2. QED  BY <2>1
<1>5. Pushed(t, level)
  BY <1>0, <1>2, <1>4, PushedIs
<1>6. /\ \A q : IsExecuting(q)' <=> IsExecuting(q) \/ q = NoTask
      /\ \A p : Awaited(p)' <=> Awaited(p) \/ p = k
      /\ OneLevelEach'
  BY <1>0, <1>4, <1>5, AfterPush
<1>7. Joints' /\ PcLevels'
  <2>1. Joins(k)' /\ Kids(k)' # <<>> /\ done'[k] = Len(Kids(k)')
    BY <1>2, <1>3, RecordsKept
  <2>2. /\ \A u \in Threads \ {t} : pc'[u] = pc[u]
        /\ pc'[t] = "look" /\ pc[t] # "away" /\ \A j \in Tasks : j # k => done'[j] = done[j]
    BY <1>0, <1>2
  <2>3. QED  BY <1>0, <1>2, <1>4, <1>5, <2>1, <2>2, LoopEntered
<1>8. MustWait(k)
  <2>1. done[k] \in 1 .. Len(Kids(k))
    <3>1. PICK kids \in Seq(1 .. N) : kids = Kids(k)
      BY <1>0, <1>2, KidsAre
    <3>2. Len(kids) \in Nat \ {0}
      BY <1>2, <3>1, EmptySeq
    <3>3. Len(kids) \in 1 .. Len(kids)
      BY <3>2
    <3>4. QED  BY <1>2, <3>1, <3>3
  <2>2. QED  BY <1>2, <1>3, <2>1 DEF MustWait, Joins
<1>9. LoopsTyped'
  BY <1>5 DEF Pushed
<1>10. QED  BY <1>2, <1>3, <1>6, <1>7, <1>8, <1>9, LoopStep

LEMMA EnterStep ==
    ASSUME PoolInv, ProgramInv, NEW t \in Threads, EnterArena(t),
           \A u \in Threads : DequeOf(u)' = DequeOf(u)
    PROVE  ProgramInv'
<1>0. /\ LoopsTyped /\ PcLevels /\ Joints /\ OneLevelEach
      /\ pc \in [Threads -> Places]
  BY DEF ProgramInv, PoolInv, ThreadsTyped
<1>1. /\ pc[t] = "away" /\ loops[t] = <<>>
      /\ loops' = [loops EXCEPT ![t] = <<Loop(NoTask, NoTask)>>]
      /\ pc' = [pc EXCEPT ![t] = "steal"]
      /\ UNCHANGED <<program, done, parent, ref_count, ended>>
  BY <1>0 DEF EnterArena, At, Goto, dispatch, PcLevels
<1>2. PICK level \in Level : /\ level = Loop(NoTask, NoTask)
                             /\ level.waits = NoTask /\ level.task = NoTask
  <2>1. /\ Loop(NoTask, NoTask) \in Level
        /\ Loop(NoTask, NoTask).waits = NoTask /\ Loop(NoTask, NoTask).task = NoTask
    BY DEF Loop, Level
  <2>2. QED  BY <2>1
<1>3. Pushed(t, level)
  <2>1. Append(loops[t], level) = <<level>>
    BY <1>1
  <2>2. loops' = [loops EXCEPT ![t] = Append(@, level)]
    BY <1>1, <1>2, <2>1
  <2>3. QED  BY <1>0, <1>2, <2>2, PushedIs
<1>4. /\ \A q : IsExecuting(q)' <=> IsExecuting(q) \/ q = NoTask
      /\ \A p : Awaited(p)' <=> Awaited(p) \/ p = NoTask
      /\ OneLevelEach'
  BY <1>0, <1>2, <1>3, AfterPush
<1>5. PICK n \in Nat : /\ DOMAIN loops[t] = 1 .. n /\ DOMAIN loops'[t] = 1 .. n + 1
                       /\ loops'[t][n + 1] = level /\ Inner(t)' = level
  BY <1>3 DEF Pushed
<1>6. n = 0
  <2>1. Len(loops[t]) = 0 /\ DOMAIN loops[t] = 1 .. 0
    BY <1>1
  <2>2. 1 .. n = {}
    BY <1>5, <2>1
  <2>3. QED  BY <2>2
<1>7. DOMAIN loops'[t] = {1} /\ loops'[t][1] = level /\ loops'[t] # <<>>
  BY <1>5, <1>6
<1>8. \A u \in Threads \ {t} : loops'[u] = loops[u] /\ pc'[u] = pc[u]
  BY <1>0, <1>1 DEF LoopsTyped
<1>9. PcLevels'
  <2>1. ASSUME NEW u \in Threads, u # t
        PROVE  loops'[u] = loops[u] /\ Inner(u)' = Inner(u) /\ pc'[u] = pc[u]
    BY <1>8, <2>1 DEF Inner
  <2>2. pc'[t] = "steal"
    BY <1>0, <1>1
  <2>3. QED  BY <1>0, <1>2, <1>5, <1>7, <2>1, <2>2 DEF PcLevels
<1>10. Joints'
  <2>1. SUFFICES ASSUME NEW u \in Threads, NEW i \in DOMAIN loops'[u], i + 1 \in DOMAIN loops'[u]
                 PROVE  Joint(u, i)'
    BY DEF Joints
  <2>2. u # t
    BY <1>7, <2>1
  <2>3. loops'[u] = loops[u]
    BY <1>8, <2>2
  <2>4. Joint(u, i)
    BY <1>0, <2>1, <2>3 DEF Joints
  <2>5. QED  BY <1>1, <2>3, <2>4, JointKept
<1>11. LoopsTyped'
  BY <1>3 DEF Pushed
<1>12. NoTask \notin Objects
  BY ObjectsAre
<1>13. QED  BY <1>1, <1>4, <1>9, <1>10, <1>11, <1>12, LoopStep

\* What leaving a loop does to the levels below it.
LEMMA LoopLeft ==
    ASSUME LoopsTyped, PcLevels, Joints, program' = program, NEW t \in Threads, Popped(t),
           \A u \in Threads \ {t} : pc'[u] = pc[u],
           \/ Len(loops[t]) = 1 /\ pc'[t] = "away"
           \/ Len(loops[t]) # 1 /\ pc'[t] = "run",
           \A u \in Threads : \A i \in DOMAIN loops[u] :
              i + 1 \in DOMAIN loops[u] /\ i + 1 \in DOMAIN loops'[u] =>
                 done'[loops[u][i].task] = done[loops[u][i].task]
    PROVE  Joints' /\ PcLevels'
<1>1. PICK n \in Nat : /\ DOMAIN loops[t] = 1 .. n + 1 /\ DOMAIN loops'[t] = 1 .. n
                       /\ \A i \in 1 .. n : loops'[t][i] = loops[t][i]
                       /\ n > 0 => Inner(t)' = loops[t][n]
  BY DEF Popped
<1>2. /\ \A u \in Threads \ {t} : loops'[u] = loops[u]
      /\ LoopsTyped'
  BY DEF Popped
<1>3. Joints'
  <2>1. SUFFICES ASSUME NEW u \in Threads, NEW i \in DOMAIN loops'[u], i + 1 \in DOMAIN loops'[u]
                 PROVE  Joint(u, i)'
    BY DEF Joints
  <2>2. /\ i \in DOMAIN loops[u] /\ i + 1 \in DOMAIN loops[u]
        /\ loops'[u][i].task = loops[u][i].task /\ loops'[u][i + 1].waits = loops[u][i + 1].waits
    <3>1. CASE u = t
      <4>1. i \in 1 .. n + 1 /\ i + 1 \in 1 .. n + 1 /\ i \in 1 .. n /\ i + 1 \in 1 .. n
        BY <1>1, <2>1, <3>1
      <4>2. QED  BY <1>1, <3>1, <4>1
    <3>2. CASE u # t
      BY <1>2, <2>1, <3>2
    <3>3. QED  BY <3>1, <3>2
  <2>3. Joint(u, i)
    BY <2>2 DEF Joints
  <2>4. done'[loops[u][i].task] = done[loops[u][i].task]
    BY <2>1, <2>2
  <2>5. QED  BY <2>2, <2>3, <2>4, JointKept
<1>4. Len(loops[t]) = n + 1 /\ loops[t] # <<>>
  <2>1. Len(loops[t]) \in Nat /\ DOMAIN loops[t] = 1 .. Len(loops[t])
    BY LevelsOf
  <2>2. PICK m \in Nat : m = Len(loops[t])
    BY <2>1
  <2>3. 1 .. m = 1 .. n + 1
    BY <1>1, <2>1, <2>2
  <2>4. n + 1 \in 1 .. m /\ (m \in 1 .. m => m \in 1 .. n + 1)
    BY <2>3
  <2>5. m = n + 1
    BY <2>4
  <2>6. QED  BY <1>1, <2>2, <2>5
<1>5. IF n = 0 THEN pc'[t] = "away" /\ loops'[t] = <<>>
      ELSE pc'[t] = "run" /\ loops'[t] # <<>>
  <2>1. CASE n = 0
    <3>1. loops'[t] = <<>>
      <4>1. PICK levels \in Seq(Level) : levels = loops'[t]
        BY <1>2 DEF LoopsTyped
      <4>2. DOMAIN levels = 1 .. 0
        BY <1>1, <2>1, <4>1
      <4>3. PICK m \in Nat : m = Len(levels) /\ DOMAIN levels = 1 .. m
        BY LenProperties
      <4>4. 1 .. m = {}
        BY <4>2, <4>3
      <4>5. m = 0
        BY <4>4
      <4>6. QED  BY <4>1, <4>3, <4>5, EmptySeq
    <3>2. pc'[t] = "away"
      BY <1>4, <2>1
    <3>3. QED  BY <2>1, <3>1, <3>2
  <2>2. CASE n # 0
    <3>1. pc'[t] = "run"
      BY <1>4, <2>2
    <3>2. 1 \in DOMAIN loops'[t]
      BY <1>1, <2>2
    <3>3. QED  BY <2>2, <3>1, <3>2
  <2>3. QED  BY <2>1, <2>2
<1>6. n # 0 => Inner(t)'.task \in Objects /\ loops'[t][1].waits = NoTask
  <2>1. SUFFICES ASSUME n # 0
                 PROVE  Inner(t)'.task \in Objects /\ loops'[t][1].waits = NoTask
    OBVIOUS
  <2>2. n \in 1 .. n + 1 /\ n + 1 \in 1 .. n + 1 /\ 1 \in 1 .. n
    BY <2>1
  <2>3. Joint(t, n)
    BY <1>1, <2>2 DEF Joints
  <2>4. loops[t][n].task \in Tasks
    BY <2>3 DEF Joint
  <2>5. loops[t][1].waits = NoTask
    BY <1>4 DEF PcLevels
  <2>6. QED  BY <1>1, <2>1, <2>2, <2>4, <2>5, ObjectsAre
<1>7. PcLevels'
  <2>1. ASSUME NEW u \in Threads, u # t
        PROVE  loops'[u] = loops[u] /\ Inner(u)' = Inner(u) /\ pc'[u] = pc[u]
    BY <1>2, <2>1 DEF Inner
  <2>2. QED  BY <1>5, <1>6, <2>1 DEF PcLevels
<1>8. QED  BY <1>3, <1>7

LEMMA LeaveStep ==
    ASSUME PoolInv, ProgramInv, NEW t \in Threads, LeaveArena(t),
           \A u \in Threads : DequeOf(u)' = DequeOf(u)
    PROVE  ProgramInv'
<1>0. /\ LoopsTyped /\ PcLevels /\ Joints /\ OneLevelEach
      /\ pc \in [Threads -> Places]
  BY DEF ProgramInv, PoolInv, ThreadsTyped
<1>1. /\ pc[t] = "steal" /\ Len(loops[t]) = 1 /\ loops[t] # <<>> /\ Inner(t).task = NoTask
      /\ loops' = [loops EXCEPT ![t] = <<>>]
      /\ pc' = [pc EXCEPT ![t] = "away"]
      /\ UNCHANGED <<program, done, parent, ref_count, ended>>
  BY <1>0 DEF LeaveArena, At, Goto, dispatch, PcLevels
<1>2. Popped(t)
  <2>1. PICK levels \in Seq(Level) : levels = loops[t]
    BY <1>0 DEF LoopsTyped
  <2>2. Len(levels) - 1 = 0
    BY <1>1, <2>1
  <2>3. Front(levels) = SubSeq(levels, 1, 0)
    BY <2>2 DEF Front
  <2>4. SubSeq(levels, 1, 0) = <<>>
    BY <2>1
  <2>5. loops' = [loops EXCEPT ![t] = Front(@)]
    BY <1>1, <2>1, <2>3, <2>4
  <2>6. QED  BY <1>0, <1>1, <2>5, PoppedIs
<1>3. Inner(t).waits = NoTask
  <2>1. Inner(t) = loops[t][1]
    BY <1>0, <1>1, LevelsOf
  <2>2. QED  BY <1>0, <1>1, <2>1 DEF PcLevels
<1>4. /\ \A q : q # NoTask => (IsExecuting(q)' <=> IsExecuting(q))
      /\ \A p : Awaited(p)' => Awaited(p)
      /\ \A p : p # NoTask => (Awaited(p)' <=> Awaited(p))
      /\ OneLevelEach'
  BY <1>0, <1>1, <1>2, <1>3, AfterPop
<1>5. Joints' /\ PcLevels'
  <2>1. pc'[t] = "away" /\ \A u \in Threads \ {t} : pc'[u] = pc[u]
    BY <1>0, <1>1
  <2>2. QED  BY <1>0, <1>1, <1>2, <2>1, LoopLeft
<1>6. LoopsTyped'
  BY <1>2 DEF Popped
<1>7. NoTask \notin Objects
  BY ObjectsAre
<1>8. QED  BY <1>1, <1>4, <1>5, <1>6, <1>7, LoopStep

(******************************************************************************)
(* The steps that complete                                                    *)
(******************************************************************************)

\* The parent whose count falls to 0 is a flag_task that nobody executes.
LEMMA BypassIsFlag ==
    ASSUME ProgramInv, NEW k \in Objects, Untold(k), NEW p \in Objects, p = parent[k]
    PROVE  /\ ref_count[p] \in Nat /\ ref_count[p] > 0 /\ ~(p \in Tasks /\ done[p] > Len(Kids(p)))
           /\ ref_count[p] = 1 => \E c \in 1 .. N : p = Aux(c) /\ LaunchedBy("split", c)
<1>0. /\ ProgramTyped /\ RecordsTyped /\ Parents /\ DummiesAwaited /\ Counts /\ Progress
  BY DEF ProgramInv
<1>1. PICK m \in Nat, K \in SUBSET Objects :
         K = Kin(p) /\ IsFiniteSet(K) /\ m = Cardinality(K) /\ k \in K
  <2>1. IsFiniteSet(Kin(p)) /\ Cardinality(Kin(p)) \in Nat
    BY FiniteKin
  <2>2. k \in Kin(p) /\ Kin(p) \in SUBSET Objects
    BY DEF Kin
  <2>3. QED  BY <2>1, <2>2
<1>2. m > 0
  <2>1. m # 0
    BY <1>1, FS_EmptySet
  <2>2. QED  BY <2>1
<1>3. ref_count[p] = m + IF MustWait(p) \/ Awaited(p) THEN 1 ELSE 0
  BY <1>0, <1>1 DEF Counts, Count
<1>4. ref_count[p] \in Nat /\ ref_count[p] > 0
  BY <1>2, <1>3
<1>5. ~(p \in Tasks /\ done[p] > Len(Kids(p)))
  BY <1>0, <1>4 DEF Progress
<1>6. ASSUME ref_count[p] = 1
      PROVE  \E c \in 1 .. N : p = Aux(c) /\ LaunchedBy("split", c)
  <2>1. ~MustWait(p) /\ ~Awaited(p)
    BY <1>2, <1>3, <1>6
  <2>2. p \notin Tasks
    <3>1. SUFFICES ASSUME p \in Tasks
                   PROVE  FALSE
      OBVIOUS
    <3>2. Joins(p) /\ done[p] > 0 /\ done[p] \in Nat /\ Len(Kids(p)) \in Nat
      BY <1>0, <3>1, KidsAre DEF Parents
    <3>3. done[p] \in 1 .. Len(Kids(p))
      BY <1>5, <3>1, <3>2
    <3>4. QED  BY <2>1, <3>1, <3>2, <3>3 DEF MustWait, Joins
  <2>3. PICK c \in 1 .. N : p = Aux(c)
    BY <2>2, ObjectsAre
  <2>4. LaunchedBy("split", c) \/ LaunchedBy("root", c)
    BY <1>0, <2>3 DEF Parents
  <2>5. ~LaunchedBy("root", c)
    BY <1>0, <1>4, <2>1, <2>3 DEF DummiesAwaited
  <2>6. QED  BY <2>3, <2>4, <2>5
<1>7. QED  BY <1>4, <1>5, <1>6

\* The task set in the innermost level changes no joint.
LEMMA TaskSetLoops ==
    ASSUME LoopsTyped, PcLevels, Joints, UNCHANGED <<program, done>>,
           NEW t \in Threads, NEW k, TaskSet(t, k),
           \A u \in Threads \ {t} : pc'[u] = pc[u],
           \/ pc'[t] = "run" /\ k \in Objects
           \/ pc'[t] \in {"look", "steal"} /\ k = NoTask
    PROVE  Joints' /\ PcLevels'
<1>1. PICK n \in Nat : /\ DOMAIN loops[t] = 1 .. n + 1 /\ DOMAIN loops'[t] = 1 .. n + 1
                       /\ \A i \in 1 .. n : loops'[t][i] = loops[t][i]
                       /\ Inner(t) = loops[t][n + 1] /\ Inner(t)' = loops'[t][n + 1]
                       /\ loops'[t][n + 1].waits = loops[t][n + 1].waits
                       /\ loops'[t][n + 1].task = k
  BY DEF TaskSet
<1>2. \A u \in Threads \ {t} : loops'[u] = loops[u]
  BY DEF TaskSet
<1>3. Joints'
  <2>1. SUFFICES ASSUME NEW u \in Threads, NEW i \in DOMAIN loops'[u], i + 1 \in DOMAIN loops'[u]
                 PROVE  Joint(u, i)'
    BY DEF Joints
  <2>2. /\ i \in DOMAIN loops[u] /\ i + 1 \in DOMAIN loops[u]
        /\ loops'[u][i].task = loops[u][i].task /\ loops'[u][i + 1].waits = loops[u][i + 1].waits
    <3>1. CASE u = t
      <4>1. i \in 1 .. n /\ (i + 1 \in 1 .. n \/ i + 1 = n + 1) /\ i \in 1 .. n + 1
        BY <1>1, <2>1, <3>1
      <4>2. QED  BY <1>1, <3>1, <4>1
    <3>2. CASE u # t
      BY <1>2, <2>1, <3>2
    <3>3. QED  BY <3>1, <3>2
  <2>3. Joint(u, i)
    BY <2>2 DEF Joints
  <2>4. QED  BY <2>2, <2>3, JointKept
<1>4. PcLevels'
  <2>1. ASSUME NEW u \in Threads, u # t
        PROVE  loops'[u] = loops[u] /\ Inner(u)' = Inner(u) /\ pc'[u] = pc[u]
    BY <1>2, <2>1 DEF Inner
  <2>2. 1 \in 1 .. n + 1 /\ (1 = n + 1 \/ 1 \in 1 .. n)
    OBVIOUS
  <2>3. loops'[t] # <<>> /\ loops[t] # <<>> /\ Inner(t)'.task = k
    BY <1>1, <2>2
  <2>4. loops'[t][1].waits = NoTask
    <3>1. loops[t][1].waits = NoTask
      BY <2>3 DEF PcLevels
    <3>2. QED  BY <1>1, <2>2, <3>1
  <2>5. NoTask \notin Objects
    BY ObjectsAre
  <2>6. QED  BY <2>1, <2>3, <2>4, <2>5 DEF PcLevels
<1>5. QED  BY <1>3, <1>4

\* A task is executed to its end, its parent is told, and the parent may be next.
LEMMA ReturnStep ==
    ASSUME PoolInv, ProgramInv, NEW t \in Threads, Return(t),
           \A u \in Threads : DequeOf(u)' = DequeOf(u)
    PROVE  ProgramInv'
<1>0. /\ ProgramTyped /\ RecordsTyped /\ LoopsTyped /\ PcLevels /\ Joints /\ OneLevelEach
      /\ ExecutingIsCurrent /\ EndedIsLaunched /\ Progress /\ Parents /\ DummiesAwaited /\ Counts
      /\ InCells /\ pc \in [Threads -> Places]
  BY DEF ProgramInv, PoolInv, ThreadsTyped
<1>1. PICK k, p, nextTask, where :
         /\ k = Current(t) /\ p = parent[k]
         /\ nextTask = IF ref_count[p] = 1 THEN p ELSE NoTask
         /\ where = IF ref_count[p] = 1 THEN "run" ELSE "look"
  OBVIOUS
<1>2. /\ pc[t] = "run" /\ k # MainTask /\ k = Inner(t).task
      /\ ended' = ended \cup ({k} \cap Tasks)
      /\ ref_count' = [ref_count EXCEPT ![p] = @ - 1]
      /\ SetTask(t, nextTask) /\ pc' = [pc EXCEPT ![t] = where]
      /\ UNCHANGED <<slots, program, done, parent, victim>>
  BY <1>1 DEF Return, At, Current, Goto
<1>3. k \in Objects /\ k # NoTask /\ IsExecuting(k) /\ loops[t] # <<>>
  <2>1. k \in Objects /\ k # NoTask
    BY <1>0, <1>2, ObjectsAre DEF PcLevels
  <2>2. QED  BY <1>0, <1>2, <2>1, Innermost
<1>4. p \in Objects /\ p # NoTask /\ Untold(k)
  BY <1>1, <1>2, <1>3, HasParent, ObjectsAre
<1>5. /\ ref_count[p] \in Nat /\ ref_count[p] > 0 /\ ~(p \in Tasks /\ done[p] > Len(Kids(p)))
      /\ ref_count[p] = 1 => \E c \in 1 .. N : p = Aux(c) /\ LaunchedBy("split", c)
  BY <1>1, <1>4, <1>3, BypassIsFlag
<1>6. /\ k \in Tasks => k \notin ended /\ IsLaunched(k)
      /\ \A c \in 1 .. N : k = Aux(c) => ref_count[k] = 0
  BY <1>0, <1>2, <1>3 DEF ExecutingIsCurrent
<1>7. k \notin Tasks => p # k
  <2>1. k \notin Tasks => ref_count[k] = 0
    BY <1>3, <1>6, ObjectsAre
  <2>2. QED  BY <1>5, <2>1
<1>8. ref_count[p] = 1 => p \notin Tasks /\ parent[p] # NoTask /\ ~IsExecuting(p)
  <2>1. SUFFICES ASSUME ref_count[p] = 1
                 PROVE  p \notin Tasks /\ parent[p] # NoTask /\ ~IsExecuting(p)
    OBVIOUS
  <2>2. PICK c \in 1 .. N : p = Aux(c) /\ LaunchedBy("split", c)
    BY <1>5, <2>1
  <2>3. p \notin Tasks
    BY <2>2, ObjectsAre
  <2>4. parent[p] # NoTask
    BY <1>0, <2>2 DEF Parents
  <2>5. ~IsExecuting(p)
    BY <1>0, <2>1, <2>2 DEF ExecutingIsCurrent
  <2>6. QED  BY <2>3, <2>4, <2>5
<1>9. TaskSet(t, nextTask)
  BY <1>0, <1>1, <1>2, <1>3, <1>4, TaskSetIs
<1>10. /\ \A q : q # NoTask => (IsExecuting(q)' <=> q = nextTask \/ (IsExecuting(q) /\ q # k))
       /\ \A q : Awaited(q)' <=> Awaited(q)
       /\ OneLevelEach'
  BY <1>0, <1>1, <1>2, <1>8, <1>9, AfterTaskSet
<1>11. Joints' /\ PcLevels' /\ LoopsTyped'
  <2>1. /\ \A u \in Threads \ {t} : pc'[u] = pc[u]
        /\ pc'[t] = where
    BY <1>0, <1>2
  <2>2. \/ pc'[t] = "run" /\ nextTask \in Objects
        \/ pc'[t] \in {"look", "steal"} /\ nextTask = NoTask
    BY <1>1, <1>4, <2>1
  <2>3. LoopsTyped'
    BY <1>9 DEF TaskSet
  <2>4. LoopsTyped /\ PcLevels /\ Joints /\ UNCHANGED <<program, done>>
    BY <1>0, <1>2
  <2>5. \A u \in Threads \ {t} : pc'[u] = pc[u]
    BY <2>1
  <2>6. Joints' /\ PcLevels'
    BY <1>9, <2>2, <2>4, <2>5, TaskSetLoops
  <2>7. QED  BY <2>3, <2>6
<1>12. /\ \A q \in Objects : ref_count'[q] = IF q = p THEN ref_count[p] - 1 ELSE ref_count[q]
       /\ RecordsTyped'
  <2>1. \A q \in Objects : ref_count'[q] = IF q = p THEN ref_count[p] - 1 ELSE ref_count[q]
    BY <1>0, <1>2, <1>4 DEF RecordsTyped
  <2>2. ref_count[p] - 1 \in 0 .. N + 1
    <3>1. ref_count[p] \in 0 .. N + 1 /\ N \in Nat
      BY <1>0, <1>4, ObjectsAre DEF RecordsTyped
    <3>2. QED  BY <1>5, <3>1
  <2>3. ref_count' \in [Objects -> 0 .. N + 1]
    BY <1>0, <1>2, <2>2 DEF RecordsTyped
  <2>4. ended' \subseteq Tasks
    BY <1>0, <1>2 DEF RecordsTyped
  <2>5. QED  BY <1>0, <1>2, <2>1, <2>3, <2>4 DEF RecordsTyped
<1>13. /\ \A j : Kids(j)' = Kids(j) /\ Style(j)' = Style(j) /\ (Joins(j)' <=> Joins(j))
       /\ \A j : MustWait(j)' <=> MustWait(j)
       /\ \A j, c : HasLaunched(j, c)' <=> HasLaunched(j, c)
  BY <1>2 DEF Kids, Style, Joins, MustWait, HasLaunched
<1>14. /\ \A c : IsLaunched(c)' <=> IsLaunched(c)
       /\ \A style, c : LaunchedBy(style, c)' <=> LaunchedBy(style, c)
       /\ \A c : Attached(c)' <=> Attached(c)
  BY <1>2, <1>13 DEF IsLaunched, LaunchedBy, Attached
<1>15. ProgramTyped' /\ EndedIsLaunched' /\ Parents'
  <2>1. EndedIsLaunched'
    BY <1>0, <1>2, <1>6, <1>14 DEF EndedIsLaunched
  <2>2. Parents'
    BY <1>0, <1>2, <1>13, <1>14 DEF Parents
  <2>3. QED  BY <1>0, <1>2, <2>1, <2>2 DEF ProgramTyped
<1>16. Progress'
  <2>1. \A j \in Tasks : done[j] > Len(Kids(j)) => ref_count'[j] = 0
    BY <1>0, <1>5, <1>12, ObjectsAre DEF Progress
  <2>2. QED  BY <1>0, <1>2, <1>13, <1>14, <2>1 DEF Progress
<1>17. ExecutingIsCurrent'
  <2>1. ASSUME NEW j \in Tasks, IsExecuting(j)'
        PROVE  j \notin ended' /\ (j = MainTask \/ IsLaunched(j)')
    <3>1. j # NoTask
      BY ObjectsAre
    <3>2. IsExecuting(j) /\ j # k
      BY <1>1, <1>8, <1>10, <2>1, <3>1
    <3>3. QED  BY <1>0, <1>2, <1>14, <3>2 DEF ExecutingIsCurrent
  <2>2. ASSUME NEW c \in 1 .. N, IsExecuting(Aux(c))'
        PROVE  ref_count'[Aux(c)] = 0 /\ parent'[Aux(c)] # NoTask
    <3>1. Aux(c) # NoTask /\ Aux(c) \in Objects
      BY ObjectsAre
    <3>2. CASE Aux(c) = nextTask
      <4>1. ref_count[p] = 1 /\ Aux(c) = p
        BY <1>1, <3>1, <3>2
      <4>2. ref_count'[p] = 0 /\ parent'[p] # NoTask
        BY <1>2, <1>4, <1>8, <1>12, <4>1
      <4>3. QED  BY <4>1, <4>2
    <3>3. CASE Aux(c) # nextTask
      <4>1. ref_count[Aux(c)] = 0 /\ parent[Aux(c)] # NoTask
        BY <1>0, <1>10, <2>2, <3>1, <3>3 DEF ExecutingIsCurrent
      <4>2. Aux(c) # p
        BY <1>5, <4>1
      <4>3. QED  BY <1>2, <1>12, <3>1, <4>1, <4>2
    <3>4. QED  BY <3>2, <3>3
  <2>3. QED  BY <2>1, <2>2 DEF ExecutingIsCurrent
<1>18. DummiesAwaited'
  <2>1. \A q \in Objects : ref_count'[q] > 0 => ref_count[q] > 0
    BY <1>5, <1>12
  <2>2. QED  BY <1>0, <1>10, <1>14, <2>1, ObjectsAre DEF DummiesAwaited
<1>19. \A q \in Objects : Untold(q)' <=> Untold(q) /\ q # k
  <2>1. ASSUME NEW q \in Objects
        PROVE  Untold(q)' <=> Untold(q) /\ q # k
    <3>1. CASE q \in Tasks
      BY <1>2, <3>1 DEF Untold
    <3>2. CASE q \notin Tasks
      <4>1. Untold(q)' <=> ref_count'[q] > 0 \/ IsExecuting(q)'
        BY <3>2 DEF Untold
      <4>2. Untold(q) <=> ref_count[q] > 0 \/ IsExecuting(q)
        BY <3>2 DEF Untold
      <4>3. q # NoTask
        BY ObjectsAre
      <4>4. CASE q = p
        <5>1. q # k
          BY <1>7, <3>2, <4>4
        <5>2. Untold(q)
          BY <1>5, <4>2, <4>4
        <5>3. CASE ref_count[p] = 1
          <6>1. IsExecuting(q)'
            BY <1>1, <1>10, <4>3, <4>4, <5>3
          <6>2. QED  BY <4>1, <5>1, <5>2, <6>1
        <5>4. CASE ref_count[p] # 1
          <6>1. ref_count'[q] > 0
            BY <1>5, <1>12, <4>4, <5>4
          <6>2. QED  BY <4>1, <5>1, <5>2, <6>1
        <5>5. QED  BY <5>3, <5>4
      <4>5. CASE q # p
        <5>1. ref_count'[q] = ref_count[q]
          BY <1>12, <4>5
        <5>2. IsExecuting(q)' <=> IsExecuting(q) /\ q # k
          BY <1>1, <1>10, <4>3, <4>5
        <5>3. q = k => ref_count[q] = 0
          BY <1>6, <3>2, ObjectsAre
        <5>4. QED  BY <4>1, <4>2, <5>1, <5>2, <5>3
      <4>6. QED  BY <4>4, <4>5
    <3>3. QED  BY <3>1, <3>2
  <2>2. QED  BY <2>1
<1>20. Counts'
  <2>1. ASSUME NEW q \in Objects, q # p
        PROVE  ref_count'[q] = Count(q)'
    <3>1. \A r \in Objects : (parent'[r] = q /\ Untold(r)') <=> (parent[r] = q /\ Untold(r))
      BY <1>1, <1>2, <1>19, <2>1
    <3>2. Count(q)' = Count(q)
      BY <1>10, <1>13, <3>1, CountSame
    <3>3. QED  BY <1>0, <1>12, <2>1, <3>2 DEF Counts
  <2>2. ref_count'[p] = Count(p)'
    <3>1. PICK m \in Nat, K \in SUBSET Objects :
             K = Kin(p) /\ IsFiniteSet(K) /\ m = Cardinality(K) /\ k \in K
      <4>1. IsFiniteSet(Kin(p)) /\ Cardinality(Kin(p)) \in Nat
        BY FiniteKin
      <4>2. k \in Kin(p) /\ Kin(p) \in SUBSET Objects
        BY <1>1, <1>3, <1>4 DEF Kin
      <4>3. QED  BY <4>1, <4>2
    <3>2. Kin(p)' = K \ {k}
      BY <1>2, <1>19, <3>1 DEF Kin
    <3>3. Cardinality(K \ {k}) = m - 1
      BY <3>1, FS_RemoveElement
    <3>4. Count(p)' = m - 1 + IF MustWait(p) \/ Awaited(p) THEN 1 ELSE 0
      BY <1>10, <1>13, <3>2, <3>3 DEF Count
    <3>5. ref_count[p] = m + IF MustWait(p) \/ Awaited(p) THEN 1 ELSE 0
      BY <1>0, <1>4, <3>1 DEF Counts, Count
    <3>6. ref_count'[p] = ref_count[p] - 1
      BY <1>4, <1>12
    <3>7. QED  BY <3>4, <3>5, <3>6
  <2>3. QED  BY <2>1, <2>2 DEF Counts
<1>21. InCells'
  <2>1. Waiting' = Waiting
    <3>1. \A c \in Tasks : c # NoTask /\ c # nextTask
      BY <1>1, <1>8, ObjectsAre
    <3>2. ASSUME NEW c \in Tasks
          PROVE  (c \notin ended' /\ ~IsExecuting(c)') <=> (c \notin ended /\ ~IsExecuting(c))
      BY <1>2, <1>3, <1>10, <3>1
    <3>3. QED  BY <1>14, <3>2 DEF Waiting
  <2>2. Deques' = Deques
    BY DEF Deques
  <2>3. QED  BY <1>0, <2>1, <2>2 DEF InCells
<1>22. QED
  BY <1>10, <1>11, <1>12, <1>15, <1>16, <1>17, <1>18, <1>20, <1>21 DEF ProgramInv

\* The innermost loop ends: its level is given up and the task below goes on.
LEMMA EndLoopStep ==
    ASSUME PoolInv, ProgramInv, NEW t \in Threads, EndLoop(t),
           \A u \in Threads : DequeOf(u)' = DequeOf(u)
    PROVE  ProgramInv'
<1>0. /\ ProgramTyped /\ RecordsTyped /\ LoopsTyped /\ PcLevels /\ Joints /\ OneLevelEach
      /\ ExecutingIsCurrent /\ EndedIsLaunched /\ Progress /\ Parents /\ DummiesAwaited /\ Counts
      /\ InCells /\ pc \in [Threads -> Places]
  BY DEF ProgramInv, PoolInv, ThreadsTyped
<1>1. PICK p : p = Inner(t).waits
  OBVIOUS
<1>2. /\ pc[t] \in {"look", "steal"} /\ Inner(t).task = NoTask /\ loops[t] # <<>>
      /\ p \in Objects /\ ref_count[p] = 1
      /\ ref_count' = [ref_count EXCEPT ![p] = 0]
      /\ done' = IF p \in Tasks THEN [done EXCEPT ![p] = @ + 1] ELSE done
      /\ loops' = [loops EXCEPT ![t] = Front(@)]
      /\ pc' = [pc EXCEPT ![t] = "run"]
      /\ UNCHANGED <<program, parent, ended>>
  BY <1>0, <1>1 DEF EndLoop, Joined, Goto, PcLevels
<1>3. Popped(t)
  BY <1>0, <1>2, PoppedIs
<1>4. p # NoTask
  BY <1>2, ObjectsAre
<1>5. PICK n \in Nat : /\ DOMAIN loops[t] = 1 .. n + 1 /\ DOMAIN loops'[t] = 1 .. n
                       /\ \A i \in 1 .. n : loops'[t][i] = loops[t][i]
                       /\ Inner(t) = loops[t][n + 1]
  BY <1>3 DEF Popped
<1>6. \A u \in Threads \ {t} : loops'[u] = loops[u]
  BY <1>3 DEF Popped
<1>7. n + 1 \in DOMAIN loops[t] /\ loops[t][n + 1].waits = p
  BY <1>1, <1>5
<1>8. Awaited(p)
  BY <1>7 DEF Awaited
<1>9. ~Awaited(p)'
  <2>1. SUFFICES ASSUME NEW u \in Threads, NEW i \in DOMAIN loops'[u], loops'[u][i].waits = p
                 PROVE  FALSE
    BY DEF Awaited
  <2>2. CASE u = t
    <3>1. i \in 1 .. n /\ i \in 1 .. n + 1 /\ i # n + 1
      BY <1>5, <2>1, <2>2
    <3>2. i \in DOMAIN loops[u] /\ loops[u][i].waits = p
      BY <1>5, <2>1, <2>2, <3>1
    <3>3. PICK j : j = n + 1
      OBVIOUS
    <3>4. i = j
      BY <1>0, <1>2, <1>7, <2>2, <3>2, <3>3, AwaitedOnce
    <3>5. QED  BY <3>1, <3>3, <3>4
  <2>3. CASE u # t
    <3>1. i \in DOMAIN loops[u] /\ loops[u][i].waits = p
      BY <1>6, <2>1, <2>3
    <3>2. PICK j : j = n + 1
      OBVIOUS
    <3>3. u = t
      BY <1>0, <1>2, <1>7, <3>1, <3>2, AwaitedOnce
    <3>4. QED  BY <2>3, <3>3
  <2>4. QED  BY <2>2, <2>3
<1>10. /\ \A q : q # NoTask => (IsExecuting(q)' <=> IsExecuting(q))
       /\ \A q : q # p => (Awaited(q)' <=> Awaited(q))
       /\ OneLevelEach'
  BY <1>0, <1>1, <1>2, <1>3, AfterPop
<1>11. \/ /\ p \in Tasks /\ Joins(p) /\ Kids(p) # <<>> /\ done[p] = Len(Kids(p))
          /\ loops[t][n].task = p /\ n \in 1 .. n
       \/ \E c \in 1 .. N : p = Aux(c) /\ LaunchedBy("root", c)
  <2>1. PICK j : j = n + 1
    OBVIOUS
  <2>2. j - 1 \in DOMAIN loops[t] /\ Joint(t, j - 1) /\ (j - 1) + 1 = j
    BY <1>0, <1>4, <1>7, <2>1, AwaitedIs
  <2>3. j - 1 = n
    BY <2>1
  <2>4. n \in 1 .. n + 1 /\ n \in 1 .. n /\ Joint(t, n)
    BY <1>5, <2>2, <2>3
  <2>5. PICK k : k = loops[t][n].task
    OBVIOUS
  <2>6. /\ k \in Tasks
        /\ \/ p = k /\ Joins(k) /\ Kids(k) # <<>> /\ done[k] = Len(Kids(k))
           \/ \E c \in 1 .. N : p = Aux(c) /\ Style(k) = "root" /\ HasLaunched(k, c)
    BY <1>7, <2>4, <2>5 DEF Joint
  <2>7. QED  BY <2>4, <2>5, <2>6 DEF LaunchedBy
<1>12. Kin(p) = {} /\ ~MustWait(p)'
  <2>1. PICK m \in Nat, K \in SUBSET Objects :
           K = Kin(p) /\ IsFiniteSet(K) /\ m = Cardinality(K)
    <3>1. IsFiniteSet(Kin(p)) /\ Cardinality(Kin(p)) \in Nat
      BY FiniteKin
    <3>2. Kin(p) \in SUBSET Objects
      BY DEF Kin
    <3>3. QED  BY <3>1, <3>2
  <2>2. ref_count[p] = m + 1
    BY <1>0, <1>2, <1>8, <2>1 DEF Counts, Count
  <2>3. m = 0
    BY <1>2, <2>2
  <2>4. Kin(p) = {}
    BY <2>1, <2>3, FS_EmptySet
  <2>5. ~MustWait(p)'
    <3>1. CASE p \in Tasks
      <4>1. done[p] = Len(Kids(p)) /\ Len(Kids(p)) \in Nat /\ done \in [Tasks -> Nat]
        BY <1>0, <1>11, <3>1, ObjectsAre, KidsAre DEF ProgramTyped
      <4>2. done'[p] = Len(Kids(p)) + 1 /\ Kids(p)' = Kids(p)
        BY <1>2, <3>1, <4>1 DEF Kids
      <4>3. done'[p] \notin 1 .. Len(Kids(p))
        BY <4>1, <4>2
      <4>4. QED  BY <4>2, <4>3 DEF MustWait
    <3>2. CASE p \notin Tasks
      BY <3>2 DEF MustWait
    <3>3. QED  BY <3>1, <3>2
  <2>6. QED  BY <2>4, <2>5
<1>13. parent[p] = NoTask \/ p \in Tasks
  <2>1. SUFFICES ASSUME p \notin Tasks
                 PROVE  parent[p] = NoTask
    OBVIOUS
  <2>2. PICK c \in 1 .. N : p = Aux(c) /\ LaunchedBy("root", c)
    BY <1>11, <2>1
  <2>3. ~LaunchedBy("split", c)
    <3>1. SUFFICES ASSUME LaunchedBy("split", c)
                   PROVE  FALSE
      OBVIOUS
    <3>2. PICK j \in Tasks : Style(j) = "split" /\ \E i \in DOMAIN Kids(j) : Kids(j)[i] = c
      BY <3>1 DEF LaunchedBy, HasLaunched
    <3>3. PICK k \in Tasks : Style(k) = "root" /\ \E i \in DOMAIN Kids(k) : Kids(k)[i] = c
      BY <2>2 DEF LaunchedBy, HasLaunched
    <3>4. j = k
      BY <1>0, <3>2, <3>3, KidsAre
    <3>5. QED  BY <3>2, <3>3, <3>4
  <2>4. QED  BY <1>0, <2>2, <2>3 DEF Parents
<1>14. /\ \A j : Kids(j)' = Kids(j) /\ Style(j)' = Style(j) /\ (Joins(j)' <=> Joins(j))
       /\ \A j \in Tasks : done'[j] = IF j = p THEN done[p] + 1 ELSE done[j]
       /\ done' \in [Tasks -> Nat]
  <2>1. done \in [Tasks -> Nat]
    BY <1>0 DEF ProgramTyped
  <2>2. PICK m : m = done[p] + 1
    OBVIOUS
  <2>3. p \in Tasks => m \in Nat
    BY <2>1, <2>2
  <2>4. done' = IF p \in Tasks THEN [done EXCEPT ![p] = m] ELSE done
    BY <1>2, <2>2
  <2>5. /\ \A j \in Tasks : done'[j] = IF j = p THEN m ELSE done[j]
        /\ done' \in [Tasks -> Nat]
    BY <2>1, <2>3, <2>4
  <2>6. QED  BY <1>2, <2>2, <2>5 DEF Kids, Style, Joins
<1>15. \A j \in Tasks : \A c : HasLaunched(j, c)' <=> HasLaunched(j, c)
  <2>1. SUFFICES ASSUME NEW j \in Tasks, NEW c
                 PROVE  HasLaunched(j, c)' <=> HasLaunched(j, c)
    OBVIOUS
  <2>2. HasLaunched(j, c)' <=> \E i \in DOMAIN Kids(j) : i <= done'[j] /\ Kids(j)[i] = c
    BY <1>14 DEF HasLaunched
  <2>3. CASE j # p
    BY <1>14, <2>2, <2>3 DEF HasLaunched
  <2>4. CASE j = p
    <3>1. PICK l \in Nat : DOMAIN Kids(p) = 1 .. l /\ done[p] = l /\ done'[p] = l + 1
      BY <1>0, <1>11, <1>14, <2>4, KidsAre, ObjectsAre
    <3>2. \A i \in 1 .. l : i <= l /\ i <= l + 1
      OBVIOUS
    <3>3. QED  BY <2>2, <2>4, <3>1, <3>2 DEF HasLaunched
  <2>5. QED  BY <2>3, <2>4
<1>16. \A j \in Tasks : Joins(j) => (done'[j] > 0 <=> done[j] > 0)
  <2>1. p \in Tasks => done[p] > 0
    <3>1. SUFFICES ASSUME p \in Tasks
                   PROVE  done[p] > 0
      OBVIOUS
    <3>2. PICK kids \in Seq(1 .. N) : kids = Kids(p)
      BY <1>0, <3>1, KidsAre
    <3>3. Kids(p) # <<>> /\ done[p] = Len(Kids(p))
      BY <1>11, <3>1, ObjectsAre
    <3>4. Len(kids) \in Nat \ {0}
      BY <3>2, <3>3, EmptySeq
    <3>5. QED  BY <3>2, <3>3, <3>4
  <2>2. done \in [Tasks -> Nat]
    BY <1>0 DEF ProgramTyped
  <2>3. QED  BY <1>14, <2>1, <2>2
<1>17. /\ \A c : IsLaunched(c)' <=> IsLaunched(c)
       /\ \A style, c : LaunchedBy(style, c)' <=> LaunchedBy(style, c)
       /\ \A c : Attached(c)' <=> Attached(c)
  <2>1. \A j \in Tasks : ~Joins(j) => done'[j] = done[j]
    BY <1>11, <1>14, ObjectsAre
  <2>2. QED  BY <1>14, <1>15, <1>16, <2>1 DEF IsLaunched, LaunchedBy, Attached
<1>18. /\ \A q \in Objects : ref_count'[q] = IF q = p THEN 0 ELSE ref_count[q]
       /\ RecordsTyped'
  <2>1. 0 \in 0 .. N + 1
    BY ObjectsAre
  <2>2. QED  BY <1>0, <1>2, <2>1 DEF RecordsTyped
<1>19. ProgramTyped' /\ EndedIsLaunched' /\ Parents'
  <2>1. ProgramTyped' /\ EndedIsLaunched'
    BY <1>0, <1>2, <1>14, <1>17 DEF ProgramTyped, EndedIsLaunched
  <2>2. \A q \in Tasks : \A r \in Objects : parent'[r] = q => Joins(q)' /\ done'[q] > 0
    BY <1>0, <1>2, <1>14, <1>16 DEF Parents
  <2>3. QED  BY <1>0, <1>2, <1>17, <2>1, <2>2 DEF Parents
<1>20. Progress'
  <2>1. ASSUME NEW j \in Tasks
        PROVE  /\ done'[j] <= Len(Kids(j)) + 1
               /\ done'[j] > Len(Kids(j)) => Joins(j) /\ Kids(j) # <<>> /\ ref_count'[j] = 0
               /\ Style(j) = "list" => done'[j] = 0 \/ done'[j] >= Len(Kids(j))
               /\ done'[j] > 0 => j = MainTask \/ IsLaunched(j)'
    <3>1. j \in Objects /\ Len(Kids(j)) \in Nat
      BY <1>0, KidsAre, ObjectsAre
    <3>2. CASE j = p
      <4>1. /\ Joins(j) /\ Kids(j) # <<>> /\ done[j] = Len(Kids(j)) /\ done'[j] = Len(Kids(j)) + 1
            /\ ref_count'[j] = 0
        BY <1>11, <1>14, <1>18, <3>1, <3>2, ObjectsAre
      <4>2. done[j] > 0
        <5>1. done'[j] > 0
          BY <3>1, <4>1
        <5>2. QED  BY <1>16, <4>1, <5>1
      <4>3. QED  BY <1>0, <1>17, <3>1, <4>1, <4>2 DEF Progress
    <3>3. CASE j # p
      <4>1. done'[j] = done[j] /\ ref_count'[j] = ref_count[j]
        BY <1>14, <1>18, <3>1, <3>3
      <4>2. QED  BY <1>0, <1>17, <4>1 DEF Progress
    <3>4. QED  BY <3>2, <3>3
  <2>2. QED  BY <1>14, <2>1 DEF Progress
<1>21. ExecutingIsCurrent'
  <2>1. \A c \in 1 .. N : Aux(c) # NoTask /\ Aux(c) \in Objects
    BY ObjectsAre
  <2>2. \A j \in Tasks : j # NoTask
    BY ObjectsAre
  <2>3. QED  BY <1>0, <1>2, <1>10, <1>17, <1>18, <2>1, <2>2 DEF ExecutingIsCurrent
<1>22. DummiesAwaited'
  <2>1. ASSUME NEW c \in 1 .. N, LaunchedBy("root", c)', ref_count'[Aux(c)] > 0
        PROVE  Awaited(Aux(c))'
    <3>1. Aux(c) # p /\ ref_count[Aux(c)] > 0
      BY <1>18, <2>1, ObjectsAre
    <3>2. Awaited(Aux(c))
      BY <1>0, <1>17, <2>1, <3>1 DEF DummiesAwaited
    <3>3. QED  BY <1>10, <3>1, <3>2
  <2>2. QED  BY <2>1 DEF DummiesAwaited
<1>23. \A q \in Objects : q # p \/ q \in Tasks => (Untold(q)' <=> Untold(q))
  <2>1. \A q \in Objects : q # NoTask
    BY ObjectsAre
  <2>2. QED  BY <1>2, <1>10, <1>18, <2>1 DEF Untold
<1>24. Counts'
  <2>1. ASSUME NEW q \in Objects, NEW r \in Objects
        PROVE  (parent'[r] = q /\ Untold(r)') <=> (parent[r] = q /\ Untold(r))
    <3>1. q # NoTask
      BY ObjectsAre
    <3>2. QED  BY <1>2, <1>13, <1>23, <3>1
  <2>2. ASSUME NEW q \in Objects, q # p
        PROVE  ref_count'[q] = Count(q)'
    <3>1. MustWait(q)' <=> MustWait(q)
      BY <1>14, <2>2 DEF MustWait
    <3>2. Awaited(q)' <=> Awaited(q)
      BY <1>10, <2>2
    <3>3. Count(q)' = Count(q)
      BY <2>1, <3>1, <3>2, CountSame
    <3>4. QED  BY <1>0, <1>18, <2>2, <3>3 DEF Counts
  <2>3. ref_count'[p] = Count(p)'
    <3>1. Kin(p)' = Kin(p)
      BY <1>2, <2>1 DEF Kin
    <3>2. Count(p)' = 0
      BY <1>9, <1>12, <3>1, FS_EmptySet DEF Count
    <3>3. QED  BY <1>2, <1>18, <3>2
  <2>4. QED  BY <2>2, <2>3 DEF Counts
<1>25. InCells'
  <2>1. Waiting' = Waiting
    <3>1. \A c \in Tasks : c # NoTask
      BY ObjectsAre
    <3>2. QED  BY <1>2, <1>10, <1>17, <3>1 DEF Waiting
  <2>2. Deques' = Deques
    BY DEF Deques
  <2>3. QED  BY <1>0, <2>1, <2>2 DEF InCells
<1>26. Joints' /\ PcLevels'
  <2>1. Len(loops[t]) # 1
    <3>1. PICK m \in Nat : m = Len(loops[t]) /\ DOMAIN loops[t] = 1 .. m
      BY <1>0, LevelsOf
    <3>2. ASSUME m = 1
          PROVE  FALSE
      <4>1. n + 1 \in 1 .. 1
        BY <1>7, <3>1, <3>2
      <4>2. n + 1 = 1
        BY <4>1
      <4>3. loops[t][1].waits = NoTask
        BY <1>0, <1>2 DEF PcLevels
      <4>4. QED  BY <1>4, <1>7, <4>2, <4>3
    <3>3. QED  BY <3>1, <3>2
  <2>2. pc'[t] = "run" /\ \A u \in Threads \ {t} : pc'[u] = pc[u]
    BY <1>0, <1>2
  <2>3. ASSUME NEW u \in Threads, NEW i \in DOMAIN loops[u],
               i + 1 \in DOMAIN loops[u], i + 1 \in DOMAIN loops'[u]
        PROVE  done'[loops[u][i].task] = done[loops[u][i].task]
    <3>1. Joint(u, i)
      BY <1>0, <2>3 DEF Joints
    <3>2. PICK k : k = loops[u][i].task
      OBVIOUS
    <3>3. k \in Tasks
      BY <3>1, <3>2 DEF Joint
    <3>4. k # p
      <4>1. SUFFICES ASSUME k = p
                     PROVE  FALSE
        OBVIOUS
      <4>2. loops[t][n].task = p /\ n \in 1 .. n /\ n \in 1 .. n + 1
        BY <1>11, <3>3, <4>1, ObjectsAre
      <4>3. u = t /\ i = n
        <5>1. n \in DOMAIN loops[t]
          BY <1>5, <4>2
        <5>2. loops[u][i].task = loops[t][n].task /\ loops[u][i].task # NoTask
          BY <1>4, <3>2, <4>1, <4>2
        <5>3. QED  BY <1>0, <2>3, <5>1, <5>2 DEF OneLevelEach
      <4>4. n + 1 \notin 1 .. n
        OBVIOUS
      <4>5. QED  BY <1>5, <2>3, <4>3, <4>4
    <3>5. QED  BY <1>14, <3>2, <3>3, <3>4
  <2>4. QED  BY <1>0, <1>2, <1>3, <2>1, <2>2, <2>3, LoopLeft
<1>27. LoopsTyped'
  BY <1>3 DEF Popped
<1>28. QED
  BY <1>10, <1>18, <1>19, <1>20, <1>21, <1>22, <1>24, <1>25, <1>26, <1>27 DEF ProgramInv

(******************************************************************************)
(* All steps                                                                  *)
(******************************************************************************)

\* A thread looks in another place.
LEMMA LookingStep ==
    ASSUME PoolInv, ProgramInv, NEW t \in Threads, NEW w,
           \/ pc' = pc
           \/ pc' = [pc EXCEPT ![t] = w] /\ pc[t] \in {"look", "get", "lock", "steal", "raid"}
              /\ w \in {"look", "get", "lock", "steal", "raid"},
           UNCHANGED <<program, done, parent, ref_count, ended, loops>>,
           \A u \in Threads : DequeOf(u)' = DequeOf(u)
    PROVE  ProgramInv'
<1>1. PcLevels /\ pc \in [Threads -> Places]
  BY DEF ProgramInv, PoolInv, ThreadsTyped
<1>2. \A u \in Threads : Inner(u)' = Inner(u)
  BY DEF Inner
<1>3. PcLevels'
  <2>1. CASE pc' = pc
    BY <1>1, <1>2, <2>1 DEF PcLevels
  <2>2. CASE pc' # pc
    <3>1. \A u \in Threads : pc'[u] = IF u = t THEN w ELSE pc[u]
      BY <1>1, <2>2
    <3>2. pc[t] \in {"look", "get", "lock", "steal", "raid"} /\ w \in {"look", "get", "lock", "steal", "raid"}
      BY <2>2
    <3>3. QED  BY <1>1, <1>2, <3>1, <3>2 DEF PcLevels
  <2>3. QED  BY <2>1, <2>2
<1>4. QED  BY <1>3, IdleStep

\* A task is taken from one end of a deque.
LEMMA TakenStep ==
    ASSUME PoolInv, ProgramInv, NEW t \in Threads, NEW v \in Threads, NEW k,
           FirstTaken(DequeOf(v), DequeOf(v)', k) \/ LastTaken(DequeOf(v), DequeOf(v)', k),
           \A u \in Threads \ {v} : DequeOf(u)' = DequeOf(u),
           SetTask(t, k), UNCHANGED <<program, done, parent, ref_count, ended>>,
           pc[t] \in {"get", "lock", "raid"}, pc' = [pc EXCEPT ![t] = "run"]
    PROVE  ProgramInv'
<1>1. PICK D, E, W : D = Deques /\ E = Deques' /\ W = Waiting
  OBVIOUS
<1>2. Placed(D, W)
  BY <1>1 DEF ProgramInv, InCells
<1>3. FirstTaken(D[v], E[v], k) \/ LastTaken(D[v], E[v], k)
  BY <1>1 DEF Deques
<1>4. \A u \in Threads \ {v} : E[u] = D[u]
  BY <1>1 DEF Deques
<1>5. k \in W /\ Placed(E, W \ {k})
  BY <1>2, <1>3, <1>4, PlacedTaken, ZenonT(60)
<1>6. k \in Waiting /\ Placed(Deques', Waiting \ {k})
  BY <1>1, <1>5
<1>7. pc \in [Threads -> Places]
  BY DEF PoolInv, ThreadsTyped
<1>8. QED  BY <1>6, <1>7, TakeStep

LEMMA GetLockedStep ==
    ASSUME PoolInv, HoldTasks, ProgramInv, NEW t \in Threads, GetTaskLocked(t)
    PROVE  ProgramInv'
<1>0. /\ LoopsTyped /\ PcLevels /\ Joints /\ OneLevelEach
      /\ pc \in [Threads -> Places]
  BY DEF ProgramInv, PoolInv, ThreadsTyped
<1>1. PICK k, where : k = Arbitrated(t) /\ where = IF k = NoTask THEN "steal" ELSE "run"
  OBVIOUS
<1>2. /\ pc[t] = "lock" /\ SetTask(t, k) /\ pc' = [pc EXCEPT ![t] = where]
      /\ UNCHANGED <<program, done, parent, ref_count, ended>>
  BY <1>1 DEF GetTaskLocked, At, Goto, dispatch
<1>3. /\ \A u \in Threads \ {t} : DequeOf(u)' = DequeOf(u)
      /\ k # NoTask => LastTaken(DequeOf(t), DequeOf(t)', k)
      /\ k = NoTask => DequeOf(t)' = DequeOf(t)
  BY <1>1, GetTaskLockedStep
<1>4. CASE k # NoTask
  BY <1>1, <1>2, <1>3, <1>4, TakenStep
<1>5. CASE k = NoTask
  <2>1. Inner(t).task = NoTask /\ loops[t] # <<>>
    BY <1>0, <1>2 DEF PcLevels
  <2>2. TaskSet(t, k)
    BY <1>0, <1>2, <1>5, <2>1, TaskSetIs
  <2>3. PICK old : old = Inner(t).task
    OBVIOUS
  <2>4. /\ \A q : q # NoTask => (IsExecuting(q)' <=> q = k \/ (IsExecuting(q) /\ q # old))
        /\ \A p : Awaited(p)' <=> Awaited(p)
        /\ OneLevelEach'
    BY <1>0, <1>5, <2>2, <2>3, AfterTaskSet
  <2>5. \A q \in Objects : IsExecuting(q)' <=> IsExecuting(q)
    BY <1>5, <2>1, <2>3, <2>4, ObjectsAre
  <2>6. Joints' /\ PcLevels'
    <3>1. /\ \A u \in Threads \ {t} : pc'[u] = pc[u]
          /\ pc'[t] \in {"look", "steal"}
      BY <1>0, <1>1, <1>2, <1>5
    <3>2. QED  BY <1>0, <1>2, <1>5, <2>2, <3>1, TaskSetLoops
  <2>7. LoopsTyped'
    BY <2>2 DEF TaskSet
  <2>8. \A u \in Threads : DequeOf(u)' = DequeOf(u)
    BY <1>3, <1>5
  <2>9. QED  BY <1>2, <2>4, <2>5, <2>6, <2>7, <2>8, LoopStep
<1>6. QED  BY <1>4, <1>5

LEMMA ProgramInvStep ==
    ASSUME PoolInv, HoldTasks, ProgramInv, [Next]_vars
    PROVE  ProgramInv'
<1>1. ProgramTyped
  BY DEF ProgramInv
<1>2. CASE UNCHANGED vars
  <2>1. /\ UNCHANGED <<program, done, parent, ref_count, ended, loops>>
        /\ UNCHANGED <<slots, pc, victim>>
    BY <1>2 DEF vars, dispatch
  <2>2. PcLevels'
    BY <2>1 DEF PcLevels, Inner, ProgramInv
  <2>3. \A u \in Threads : DequeOf(u)' = DequeOf(u)
    BY <2>1 DEF DequeOf, Got, Raided, At
  <2>4. QED  BY <2>1, <2>2, <2>3, IdleStep
<1>3. ASSUME NEW t \in Threads, QuietStepOf(t)
      PROVE  ProgramInv'
  <2>1. \A u \in Threads : DequeOf(u)' = DequeOf(u)
    BY <1>3, QuietSteps
  <2>2. CASE local_wait_for_all_WithChild(t)
    BY <2>1, <2>2, WithChildStep
  <2>3. CASE local_spawn_root_and_wait(t)
    BY <2>1, <2>3, RootStep
  <2>4. CASE local_wait_for_all(t)
    BY <2>1, <2>4, WaitStep
  <2>5. CASE Return(t)
    BY <2>1, <2>5, ReturnStep
  <2>6. CASE EndLoop(t)
    BY <2>1, <2>6, EndLoopStep
  <2>7. CASE SeekLock(t) \/ LookElsewhere(t)
    <3>1. PICK w : w = IF SeekLock(t) THEN "lock" ELSE "steal"
      OBVIOUS
    <3>2. /\ pc' = [pc EXCEPT ![t] = w] /\ pc[t] \in {"look", "get", "lock", "steal", "raid"}
          /\ w \in {"look", "get", "lock", "steal", "raid"}
          /\ UNCHANGED <<program, done, parent, ref_count, ended, loops>>
      BY <2>7, <3>1 DEF SeekLock, LookElsewhere, At, Goto, dispatch
    <3>3. QED  BY <2>1, <3>2, LookingStep
  <2>8. CASE EnterArena(t)
    BY <2>1, <2>8, EnterStep
  <2>9. CASE LeaveArena(t)
    BY <2>1, <2>9, LeaveStep
  <2>10. QED
    BY <1>3, <2>2, <2>3, <2>4, <2>5, <2>6, <2>7, <2>8, <2>9 DEF QuietStepOf
<1>4. ASSUME NEW t \in Threads, PoolStepOf(t)
      PROVE  ProgramInv'
  <2>1. CASE MakeRoom(t)
    <3>1. \A u \in Threads : DequeOf(u)' = DequeOf(u)
      BY <1>1, <2>1, MakeRoomStep
    <3>2. pc' = pc /\ UNCHANGED <<program, done, parent, ref_count, ended, loops>>
      BY <2>1 DEF MakeRoom, dispatch
    <3>3. QED  BY <3>1, <3>2, LookingStep
  <2>2. CASE local_spawn(t)
    BY <2>2, SpawnProgramStep
  <2>3. CASE LookInPool(t)
    <3>1. \A u \in Threads : DequeOf(u)' = DequeOf(u)
      BY <2>3, LookInPoolStep
    <3>2. /\ pc' = [pc EXCEPT ![t] = "get"] /\ pc[t] = "look"
          /\ UNCHANGED <<program, done, parent, ref_count, ended, loops>>
      BY <2>3 DEF LookInPool, At, Goto, dispatch
    <3>3. QED  BY <3>1, <3>2, LookingStep
  <2>4. CASE GetTask(t)
    <3>1. PICK k : k = OwnTask(t)
      OBVIOUS
    <3>2. /\ pc[t] = "get" /\ SetTask(t, k) /\ pc' = [pc EXCEPT ![t] = "run"]
          /\ UNCHANGED <<program, done, parent, ref_count, ended>>
      BY <2>4, <3>1 DEF GetTask, At, Goto, dispatch
    <3>3. /\ \A u \in Threads \ {t} : DequeOf(u)' = DequeOf(u)
          /\ LastTaken(DequeOf(t), DequeOf(t)', k)
      BY <2>4, <3>1, GetTaskStep
    <3>4. QED  BY <3>2, <3>3, TakenStep
  <2>5. CASE GetTaskLocked(t)
    BY <2>5, GetLockedStep
  <2>6. ASSUME NEW v \in Threads, Steal(t, v)
        PROVE  ProgramInv'
    <3>1. \A u \in Threads : DequeOf(u)' = DequeOf(u)
      BY <2>6, StealStep
    <3>2. /\ pc' = [pc EXCEPT ![t] = "raid"] /\ pc[t] = "steal"
          /\ UNCHANGED <<program, done, parent, ref_count, ended, loops>>
      BY <2>6 DEF Steal, At, Goto, dispatch
    <3>3. QED  BY <3>1, <3>2, LookingStep
  <2>7. CASE StealFails(t)
    <3>1. \A u \in Threads : DequeOf(u)' = DequeOf(u)
      BY <2>7, StealFailsStep
    <3>2. /\ pc' = [pc EXCEPT ![t] = "steal"] /\ pc[t] = "raid"
          /\ UNCHANGED <<program, done, parent, ref_count, ended, loops>>
      BY <2>7 DEF StealFails, At, Goto, dispatch
    <3>3. QED  BY <3>1, <3>2, LookingStep
  <2>8. CASE StealSucceeds(t)
    <3>1. PICK v, k : v = victim[t] /\ k = StolenTask(v)
      OBVIOUS
    <3>2. /\ pc[t] = "raid" /\ SetTask(t, k) /\ pc' = [pc EXCEPT ![t] = "run"]
          /\ UNCHANGED <<program, done, parent, ref_count, ended>>
      BY <2>8, <3>1 DEF StealSucceeds, At, Goto, dispatch
    <3>3. /\ \A u \in Threads \ {v} : DequeOf(u)' = DequeOf(u)
          /\ FirstTaken(DequeOf(v), DequeOf(v)', k) /\ v \in Threads
      BY <2>8, <3>1, StealSucceedsStep
    <3>4. QED  BY <3>2, <3>3, TakenStep
  <2>9. QED
    BY <1>4, <2>1, <2>2, <2>3, <2>4, <2>5, <2>6, <2>7, <2>8 DEF PoolStepOf
<1>5. QED  BY <1>2, <1>3, <1>4, StepsAre

LEMMA ProgramInitially ==
    ASSUME Init
    PROVE  ProgramInv
<1>1. ProgramTyped /\ \A t \in Threads : DOMAIN DequeOf(t) = {}
  <2>1. ASSUME NEW t \in Threads
        PROVE  DOMAIN DequeOf(t) = {}
    <3>1. slots[t] = NewSlot /\ Got(t) = 0 /\ Raided(t) = 0
      BY DEF Init, PoolInit, Got, Raided, At
    <3>2. <<>> \in Seq(Cell)
      OBVIOUS
    <3>3. QED  BY <3>1, <3>2, SlotReset DEF NewSlot, DequeOf
  <2>2. QED  BY <2>1, PoolInitially
<1>2. PICK level \in Level : /\ level = Loop(NoTask, MainTask)
                             /\ level.waits = NoTask /\ level.task = MainTask
  <2>1. /\ Loop(NoTask, MainTask) \in Level
        /\ Loop(NoTask, MainTask).waits = NoTask /\ Loop(NoTask, MainTask).task = MainTask
    BY ObjectsAre DEF Loop, Level
  <2>2. QED  BY <2>1
<1>3. /\ Main \in Threads /\ loops[Main] = <<level>> /\ pc[Main] = "run"
      /\ \A t \in Threads \ {Main} : loops[t] = <<>> /\ pc[t] = "away"
      /\ LoopsTyped
  BY <1>2, SchedulerAssumption DEF Init, LoopsTyped
<1>4. \A t \in Threads : \A i \in DOMAIN loops[t] :
         t = Main /\ i = 1 /\ loops[t][i].task = MainTask /\ loops[t][i].waits = NoTask
  <2>1. ASSUME NEW t \in Threads, NEW i \in DOMAIN loops[t]
        PROVE  t = Main /\ i = 1 /\ loops[t][i].task = MainTask /\ loops[t][i].waits = NoTask
    <3>1. CASE t = Main
      BY <1>2, <1>3, <2>1, <3>1
    <3>2. CASE t # Main
      BY <1>3, <2>1, <3>2
    <3>3. QED  BY <3>1, <3>2
  <2>2. QED  BY <2>1
<1>5. Inner(Main).task = MainTask /\ loops[Main] # <<>> /\ loops[Main][1].waits = NoTask
  BY <1>2, <1>3 DEF Inner, Last
<1>6. PcLevels
  <2>1. ASSUME NEW t \in Threads
        PROVE  /\ pc[t] = "away" <=> loops[t] = <<>>
               /\ pc[t] \in {"look", "get", "lock", "steal", "raid"} => Inner(t).task = NoTask
               /\ pc[t] = "run" => Inner(t).task \in Objects
               /\ loops[t] # <<>> => loops[t][1].waits = NoTask
    BY <1>3, <1>5, ObjectsAre
  <2>2. QED  BY <2>1 DEF PcLevels
<1>7. Joints /\ OneLevelEach
  <2>1. OneLevelEach
    BY <1>4 DEF OneLevelEach
  <2>2. ASSUME NEW t \in Threads, NEW i \in DOMAIN loops[t], i + 1 \in DOMAIN loops[t]
        PROVE  FALSE
    <3>1. i = 1 /\ i + 1 = 1
      BY <1>4, <2>2
    <3>2. QED  BY <3>1
  <2>3. QED  BY <2>1, <2>2 DEF Joints
<1>8. /\ \A q : IsExecuting(q) => q = MainTask
      /\ \A p : Awaited(p) => p = NoTask
  BY <1>4 DEF IsExecuting, Awaited
<1>9. /\ \A k \in Tasks : done[k] = 0
      /\ \A p \in Objects : parent[p] = NoTask /\ ref_count[p] = 0
      /\ ended = {} /\ RecordsTyped
  <2>1. 0 \in 0 .. N + 1
    BY ObjectsAre
  <2>2. QED  BY <2>1 DEF Init, RecordsTyped
<1>10. \A k \in Tasks : \A i \in DOMAIN Kids(k) : ~(i <= done[k]) /\ ~(done[k] > 0)
  <2>1. ASSUME NEW k \in Tasks, NEW i \in DOMAIN Kids(k)
        PROVE  ~(i <= done[k]) /\ ~(done[k] > 0)
    <3>1. i \in 1 .. Len(Kids(k)) /\ Len(Kids(k)) \in Nat
      BY <1>1, KidsAre
    <3>2. QED  BY <1>9, <3>1
  <2>2. QED  BY <2>1
<1>11. /\ \A c : ~IsLaunched(c) /\ ~Attached(c)
       /\ \A style, c : ~LaunchedBy(style, c)
  BY <1>10 DEF IsLaunched, HasLaunched, Attached, LaunchedBy
<1>12. ExecutingIsCurrent /\ EndedIsLaunched
  <2>1. \A c \in 1 .. N : Aux(c) # MainTask
    BY ObjectsAre
  <2>2. QED  BY <1>8, <1>9, <2>1 DEF ExecutingIsCurrent, EndedIsLaunched
<1>13. Progress
  <2>1. \A k \in Tasks : Len(Kids(k)) \in Nat
    BY <1>1, KidsAre
  <2>2. QED  BY <1>9, <2>1 DEF Progress
<1>14. Parents
  <2>1. \A q \in Objects : q # NoTask
    BY ObjectsAre
  <2>2. \A c \in Tasks : parent[c] = NoTask /\ c # NoTask
    BY <1>9, ObjectsAre
  <2>3. \A c \in 1 .. N : parent[Aux(c)] = NoTask /\ Aux(c) # NoTask
    BY <1>9, ObjectsAre
  <2>4. QED  BY <1>9, <1>11, <2>2, <2>3 DEF Parents
<1>15. DummiesAwaited
  BY <1>11 DEF DummiesAwaited
<1>16. Counts
  <2>1. ASSUME NEW p \in Objects
        PROVE  ref_count[p] = Count(p)
    <3>1. p # NoTask
      BY ObjectsAre
    <3>2. Kin(p) = {}
      BY <1>9, <3>1 DEF Kin
    <3>3. ~Awaited(p)
      BY <1>8, <3>1
    <3>4. ~MustWait(p)
      <4>1. p \in Tasks => Len(Kids(p)) \in Nat /\ done[p] = 0
        BY <1>1, <1>9, KidsAre
      <4>2. p \in Tasks => done[p] \notin 1 .. Len(Kids(p))
        BY <4>1
      <4>3. QED  BY <4>2 DEF MustWait
    <3>5. QED  BY <1>9, <3>2, <3>3, <3>4, FS_EmptySet DEF Count
  <2>2. QED  BY <2>1 DEF Counts
<1>17. InCells
  <2>1. Waiting = {}
    BY <1>11 DEF Waiting
  <2>2. \A t \in Threads : DOMAIN Deques[t] = {}
    BY <1>1 DEF Deques
  <2>3. QED  BY <2>1, <2>2 DEF InCells, Placed
<1>18. QED
  BY <1>1, <1>3, <1>6, <1>7, <1>9, <1>12, <1>13, <1>14, <1>15, <1>16, <1>17 DEF ProgramInv

(* The inductive invariant: each task object is the child of the task that    *)
(* launched it or of the continuation that was put between them, its parent's *)
(* count is the number of children that have not told it of their end and the *)
(* one of a parent that waits, each loop waits for the task that runs in the  *)
(* loop below, and the pools hold the tasks spawned and not begun.            *)
THEOREM ProgramKept == Spec => [](PoolInv /\ HoldTasks /\ ProgramInv)
<1>1. Init => PoolInv /\ HoldTasks /\ ProgramInv
  BY PoolInitially, ProgramInitially
<1>2. PoolInv /\ HoldTasks /\ ProgramInv /\ [Next]_vars => (PoolInv /\ HoldTasks /\ ProgramInv)'
  <2>1. ProgramInv => ProgramTyped
    BY DEF ProgramInv
  <2>2. QED  BY <2>1, PoolStep, ProgramInvStep
<1>3. QED  BY <1>1, <1>2, PTL DEF Spec

(* The count that local_wait_for_all waits for, which the end of a child      *)
(* decrements, is what it stands for, for every program, any number of        *)
(* threads and every order of spawns, steals, ends and recycled tasks.        *)
THEOREM ReferenceCounts == Spec => []CountsAreRight
<1>1. ProgramInv => CountsAreRight
  BY DEF ProgramInv, Counts, Count, Kin, Untold, MustWait, Awaited, CountsAreRight
<1>2. QED  BY <1>1, ProgramKept, PTL

\* The window of a slot holds its deque, from the cell after its base on.
Base(t) == First(slots[t], Raided(t))

LEMMA WindowIs ==
    ASSUME PoolInv, NEW t \in Threads
    PROVE  \E first \in Nat, n \in Nat :
              /\ first = Base(t)
              /\ DOMAIN DequeOf(t) = 1 .. n
              /\ \A j \in 1 .. n : /\ first + j \in Window(t) /\ first + j \in DOMAIN slots[t].cells
                                   /\ DequeOf(t)[j] = slots[t].cells[first + j]
              /\ \A i \in Window(t) : \E j \in 1 .. n : i = first + j
<1>1. PICK s \in Slot, got \in {0, 1}, raided \in {0, 1} :
         /\ s = slots[t] /\ got = Got(t) /\ raided = Raided(t) /\ SlotOK(s, got, raided)
  BY OwnSlot
<1>2. s.head \in Nat /\ s.tail \in Int /\ s.cells \in Seq(Cell)
  BY DEF Slot
<1>3. PICK first \in Nat, n \in Nat, len \in Nat :
         /\ first = First(s, raided) /\ End(s, got) = first + n /\ first + n <= len
         /\ len = Len(s.cells) /\ DOMAIN s.cells = 1 .. len
  <2>1. PICK first \in Int, end \in Int : first = First(s, raided) /\ end = End(s, got)
    BY <1>2 DEF First, End
  <2>2. Len(s.cells) \in Nat /\ DOMAIN s.cells = 1 .. Len(s.cells)
    BY <1>2
  <2>3. 0 <= first /\ first <= end /\ end <= Len(s.cells)
    BY <1>1, <2>1 DEF SlotOK
  <2>4. first \in Nat /\ end - first \in Nat /\ end = first + (end - first)
    BY <2>3
  <2>5. QED  BY <2>1, <2>2, <2>3, <2>4
<1>4. DequeOf(t) = Piece(s.cells, first, n)
  BY <1>1, <1>3, DequeIs DEF DequeOf
<1>5. /\ DOMAIN DequeOf(t) = 1 .. n
      /\ \A j \in 1 .. n : DequeOf(t)[j] = s.cells[first + j]
  BY <1>4 DEF Piece
<1>6. \A j \in 1 .. n : first + j \in 1 .. len
  BY <1>3
<1>7. Window(t) = {i + 1 : i \in first .. first + n - 1}
  <2>1. first = s.head - IF \E u \in Threads : At(u, "raid") /\ victim[u] = t THEN 1 ELSE 0
    BY <1>1, <1>3 DEF First, Raided
  <2>2. first + n = s.tail + IF pc[t] \in {"get", "lock"} THEN 1 ELSE 0
    BY <1>1, <1>3 DEF End, Got
  <2>3. first + n - 1 = s.tail - IF pc[t] \in {"get", "lock"} THEN 0 ELSE 1
    <3>1. CASE pc[t] \in {"get", "lock"}
      <4>1. first + n = s.tail + 1
        BY <2>2, <3>1
      <4>2. first + n - 1 = s.tail /\ s.tail = s.tail - 0
        BY <1>2, <1>3, <4>1
      <4>3. QED  BY <3>1, <4>2
    <3>2. CASE pc[t] \notin {"get", "lock"}
      <4>1. first + n = s.tail + 0
        BY <2>2, <3>2
      <4>2. first + n - 1 = s.tail - 1
        BY <1>2, <1>3, <4>1
      <4>3. QED  BY <3>2, <4>2
    <3>3. QED  BY <3>1, <3>2
  <2>4. QED  BY <1>1, <2>1, <2>3 DEF Window
<1>8. \A j \in 1 .. n : first + j \in Window(t)
  <2>1. ASSUME NEW j \in 1 .. n
        PROVE  first + j \in Window(t)
    <3>1. first + j - 1 \in first .. first + n - 1 /\ first + j = (first + j - 1) + 1
      OBVIOUS
    <3>2. QED  BY <1>7, <3>1
  <2>2. QED  BY <2>1
<1>9. \A i \in Window(t) : \E j \in 1 .. n : i = first + j
  <2>1. ASSUME NEW l \in first .. first + n - 1
        PROVE  \E j \in 1 .. n : l + 1 = first + j
    <3>1. l - first + 1 \in 1 .. n /\ l + 1 = first + (l - first + 1)
      OBVIOUS
    <3>2. QED  BY <3>1
  <2>2. QED  BY <1>7, <2>1
<1>10. first = Base(t)
  BY <1>1, <1>3 DEF Base
<1>11. QED  BY <1>1, <1>3, <1>5, <1>6, <1>8, <1>9, <1>10

LEMMA WindowCell ==
    ASSUME PoolInv, NEW t \in Threads, NEW i \in Window(t)
    PROVE  /\ i \in DOMAIN slots[t].cells
           /\ \E j \in DOMAIN DequeOf(t) : i = Base(t) + j /\ slots[t].cells[i] = DequeOf(t)[j]
<1>1. \E first \in Nat, n \in Nat :
         /\ first = Base(t)
         /\ DOMAIN DequeOf(t) = 1 .. n
         /\ \A j \in 1 .. n : /\ first + j \in Window(t) /\ first + j \in DOMAIN slots[t].cells
                              /\ DequeOf(t)[j] = slots[t].cells[first + j]
         /\ \A k \in Window(t) : \E j \in 1 .. n : k = first + j
  BY WindowIs
<1>2. PICK first \in Nat, n \in Nat :
         /\ first = Base(t)
         /\ DOMAIN DequeOf(t) = 1 .. n
         /\ \A j \in 1 .. n : /\ first + j \in Window(t) /\ first + j \in DOMAIN slots[t].cells
                              /\ DequeOf(t)[j] = slots[t].cells[first + j]
         /\ \A k \in Window(t) : \E j \in 1 .. n : k = first + j
  BY <1>1
<1>3. PICK j \in 1 .. n : i = first + j
  BY <1>2
<1>4. QED  BY <1>2, <1>3

LEMMA CellsInUse ==
    ASSUME PoolInv, ProgramInv
    PROVE  EachTaskInOneCell
<1>1. PICK places : places = UNION {{<<t, i>> : i \in Window(t)} : t \in Threads}
  OBVIOUS
<1>2. Placed(Deques, Waiting) /\ \A t \in Threads : Deques[t] = DequeOf(t)
  BY DEF ProgramInv, InCells, Deques
<1>3. \A place \in places : \E t \in Threads : \E i \in Window(t) : place = <<t, i>>
  BY <1>1
<1>4. \A t \in Threads : \A i \in Window(t) : <<t, i>> \in places
  BY <1>1
<1>5. ASSUME NEW t \in Threads, NEW i \in Window(t)
      PROVE  /\ i \in DOMAIN slots[t].cells
             /\ \E j \in DOMAIN DequeOf(t) :
                   i = Base(t) + j /\ slots[t].cells[i] = DequeOf(t)[j]
  BY WindowCell
<1>6. \A place \in places : place[2] \in DOMAIN slots[place[1]].cells
  BY <1>3, <1>5
<1>7. ASSUME NEW place \in places
      PROVE  slots[place[1]].cells[place[2]] \in Waiting
  <2>1. PICK t \in Threads : \E i \in Window(t) : place = <<t, i>>
    BY <1>3, <1>7
  <2>2. PICK i \in Window(t) : place = <<t, i>>
    BY <2>1
  <2>3. PICK j \in DOMAIN DequeOf(t) : slots[t].cells[i] = DequeOf(t)[j]
    BY <1>5
  <2>4. DequeOf(t)[j] \in Waiting
    BY <1>2, <2>3 DEF Placed
  <2>5. QED  BY <2>2, <2>3, <2>4
<1>8. ASSUME NEW c \in Waiting
      PROVE  \E place \in places : slots[place[1]].cells[place[2]] = c
  <2>1. PICK t \in Threads : \E j \in DOMAIN DequeOf(t) : DequeOf(t)[j] = c
    BY <1>2 DEF Placed
  <2>2. PICK j \in DOMAIN DequeOf(t) : DequeOf(t)[j] = c
    BY <2>1
  <2>3. \E i \in Window(t) : slots[t].cells[i] = c
    BY <2>2, WindowIs
  <2>4. PICK i \in Window(t) : slots[t].cells[i] = c
    BY <2>3
  <2>5. <<t, i>> \in places /\ slots[<<t, i>>[1]].cells[<<t, i>>[2]] = c
    BY <1>4, <2>4
  <2>6. QED  BY <2>5
<1>9. ASSUME NEW p \in places, NEW q \in places,
             slots[p[1]].cells[p[2]] = slots[q[1]].cells[q[2]]
      PROVE  p = q
  <2>1. PICK t, i : t \in Threads /\ i \in Window(t) /\ p = <<t, i>>
    BY <1>3, <1>9
  <2>2. PICK u, j : u \in Threads /\ j \in Window(u) /\ q = <<u, j>>
    BY <1>3, <1>9
  <2>3. PICK a \in DOMAIN DequeOf(t) :
           i = Base(t) + a /\ slots[t].cells[i] = DequeOf(t)[a]
    BY <1>5, <2>1
  <2>4. PICK b \in DOMAIN DequeOf(u) :
           j = Base(u) + b /\ slots[u].cells[j] = DequeOf(u)[b]
    BY <1>5, <2>2
  <2>5. DequeOf(t)[a] = DequeOf(u)[b]
    BY <1>9, <2>1, <2>2, <2>3, <2>4
  <2>6. /\ a \in DOMAIN Deques[t] /\ b \in DOMAIN Deques[u]
        /\ Deques[t][a] = Deques[u][b]
    BY <1>2, <2>1, <2>2, <2>5
  <2>7. t = u /\ a = b
    BY <1>2, <2>1, <2>2, <2>6 DEF Placed
  <2>8. QED  BY <2>1, <2>2, <2>3, <2>4, <2>7
<1>10. QED
  <2>1. {slots[place[1]].cells[place[2]] : place \in places} = Waiting
    BY <1>7, <1>8
  <2>2. QED  BY <1>1, <1>6, <1>9, <2>1 DEF EachTaskInOneCell

(* A task that is spawned is in one cell of one pool until a thread takes it: *)
(* none is lost when a pool grows or is shifted, none is left to two threads. *)
THEOREM TasksInOneCell == Spec => []EachTaskInOneCell
<1>1. PoolInv /\ ProgramInv => EachTaskInOneCell
  BY CellsInUse
<1>2. QED  BY <1>1, ProgramKept, PTL

(* Type correctness. The tail may go to -1, when the owner has announced that *)
(* it takes a task and a thief has taken the last one.                        *)
THEOREM TypeCorrect == Spec => []TypeOK
<1>1. ASSUME PoolInv, ProgramInv
      PROVE  TypeOK
  <2>1. ProgramTyped /\ RecordsTyped /\ LoopsTyped /\ Progress /\ ThreadsTyped
    BY <1>1 DEF ProgramInv, PoolInv
  <2>2. ASSUME NEW t \in Threads
        PROVE  /\ slots[t].task_pool \in {"empty", "locked", "open"}
               /\ slots[t].head \in Nat
               /\ slots[t].tail \in Nat \cup {-1}
               /\ slots[t].cells \in Seq(Tasks \cup {NoTask})
    <3>1. PICK s \in Slot, got \in {0, 1}, raided \in {0, 1} :
             /\ s = slots[t] /\ got = Got(t) /\ raided = Raided(t) /\ SlotOK(s, got, raided)
      BY <1>1, OwnSlot
    <3>2. PICK head \in Int, tail \in Int : head = s.head /\ tail = s.tail
      BY DEF Slot
    <3>3. 0 <= head - raided /\ head - raided <= tail + got
      BY <3>1, <3>2 DEF SlotOK, First, End
    <3>4. head \in Nat /\ tail \in Nat \cup {-1}
      BY <3>3
    <3>5. s.task_pool \in {"empty", "locked", "open"} /\ s.cells \in Seq(Tasks \cup {NoTask})
      BY DEF Slot, Cell
    <3>6. QED  BY <3>1, <3>2, <3>4, <3>5
  <2>3. ASSUME NEW t \in Threads
        PROVE  /\ pc[t] \in {"away", "run", "look", "get", "lock", "steal", "raid"}
               /\ victim[t] \in Threads
    BY <2>1 DEF ThreadsTyped, Places
  <2>4. ASSUME NEW t \in Threads, NEW i \in DOMAIN loops[t]
        PROVE  loops[t][i] \in [waits : Objects \cup {NoTask}, task : Objects \cup {NoTask}]
    BY <2>1, LevelsOf DEF Level
  <2>5. done \in [Tasks -> 0 .. N + 1]
    <3>1. ASSUME NEW k \in Tasks
          PROVE  done[k] \in 0 .. N + 1
      <4>1. done[k] \in Nat /\ N \in Nat
        BY <2>1, ObjectsAre DEF ProgramTyped
      <4>2. Len(Kids(k)) \in Nat /\ Len(Kids(k)) <= N
        BY <2>1, KidsAre, KidsCounted
      <4>3. done[k] <= Len(Kids(k)) + 1
        BY <2>1 DEF Progress
      <4>4. QED  BY <4>1, <4>2, <4>3
    <3>2. QED  BY <2>1, <3>1 DEF ProgramTyped
  <2>6. program \in Programs
    BY <2>1 DEF ProgramTyped
  <2>7. QED  BY <2>1, <2>2, <2>3, <2>4, <2>5, <2>6 DEF TypeOK, RecordsTyped
<1>2. QED  BY <1>1, ProgramKept, PTL

(******************************************************************************)
(* What TaskRuntime sees: the ancestors of a task                             *)
(******************************************************************************)

\* A child has one creator.
LEMMA CreatorIs ==
    ASSUME ProgramTyped, NEW k \in Tasks, NEW i \in DOMAIN Kids(k), NEW c, c = Kids(k)[i]
    PROVE  c \in Tasks /\ c \in 1 .. N /\ IsKid(c) /\ Creator(c) = k
<1>1. c \in 1 .. N /\ c \in Tasks
  BY KidsAre, ObjectsAre
<1>2. IsKid(c)
  BY DEF IsKid
<1>3. \A j \in Tasks : (\E l \in DOMAIN Kids(j) : Kids(j)[l] = c) <=> j = k
  BY KidsAre
<1>4. Creator(c) = k
  BY <1>3 DEF Creator
<1>5. QED  BY <1>1, <1>2, <1>4

\* Each member of kids takes its f from above.
Ascends(f, S, kids, up) ==
    \A c \in S : f[c] = IF c \in kids THEN f[up[c]] \cup {up[c]} ELSE {}

\* The ancestors are well defined: take the least family of sets that is closed upwards.
LEMMA FamilyExists ==
    ASSUME NEW S, NEW kids \in SUBSET S, NEW up \in [kids -> S]
    PROVE  \E f \in [S -> SUBSET S] : Ascends(f, S, kids, up)
<1> DEFINE Closed(g) == \A c \in kids : g[up[c]] \cup {up[c]} \subseteq g[c]
           Least == [c \in S |-> {k \in S : \A g \in [S -> SUBSET S] : Closed(g) => k \in g[c]}]
           Derived(g) == [c \in S |-> IF c \in kids THEN g[up[c]] \cup {up[c]} ELSE {}]
<1>1. Least \in [S -> SUBSET S]
  OBVIOUS
<1>2. ASSUME NEW g \in [S -> SUBSET S], Closed(g), NEW c \in S
      PROVE  Least[c] \subseteq g[c]
  BY <1>2
<1>3. Closed(Least)
  <2>1. SUFFICES ASSUME NEW c \in kids, NEW k \in Least[up[c]] \cup {up[c]}
                 PROVE  k \in Least[c]
    OBVIOUS
  <2>2. up[c] \in S /\ c \in S /\ k \in S
    BY <2>1, <1>1
  <2>3. ASSUME NEW g \in [S -> SUBSET S], Closed(g)
        PROVE  k \in g[c]
    <3>1. Least[up[c]] \subseteq g[up[c]]
      BY <1>2, <2>2, <2>3
    <3>2. QED  BY <2>1, <2>3, <3>1
  <2>4. QED  BY <2>2, <2>3
<1>4. PICK l \in [S -> SUBSET S] : l = Least
  BY <1>1
<1>5. PICK m : m = Derived(l)
  OBVIOUS
<1>6. /\ m \in [S -> SUBSET S]
      /\ \A c \in S : m[c] = IF c \in kids THEN l[up[c]] \cup {up[c]} ELSE {}
  BY <1>5
<1>7. Closed(l)
  BY <1>3, <1>4
<1>8. \A c \in S : m[c] \subseteq l[c]
  BY <1>6, <1>7
<1>9. Closed(m)
  BY <1>6, <1>8
<1>10. \A c \in S : l[c] \subseteq m[c]
  BY <1>2, <1>4, <1>6, <1>9
<1>11. l = m
  <2>1. \A c \in S : l[c] = m[c]
    BY <1>8, <1>10
  <2>2. l = [c \in S |-> l[c]] /\ m = [c \in S |-> m[c]]
    BY <1>6
  <2>3. QED  BY <2>1, <2>2
<1>12. QED  BY <1>6, <1>11 DEF Ascends

\* So the ancestors of a child are its creator and the ancestors of that.
LEMMA AncestorsAre ==
    ASSUME ProgramTyped
    PROVE  /\ \A c \in Tasks : ~IsKid(c) => Ancestors[c] = {}
           /\ \A k \in Tasks : \A i \in DOMAIN Kids(k) :
                 Ancestors[Kids(k)[i]] = Ancestors[k] \cup {k}
           /\ Ancestors[MainTask] = {}
<1> DEFINE F(f) == [c \in Tasks |-> IF IsKid(c) THEN f[Creator(c)] \cup {Creator(c)} ELSE {}]
<1>1. PICK kids \in SUBSET Tasks : kids = {c \in Tasks : IsKid(c)}
  OBVIOUS
<1>2. \A c \in kids : Creator(c) \in Tasks
  BY <1>1 DEF IsKid, Creator
<1>3. PICK up \in [kids -> Tasks] : \A c \in kids : up[c] = Creator(c)
  <2>1. [c \in kids |-> Creator(c)] \in [kids -> Tasks]
    BY <1>2
  <2>2. QED  BY <2>1
<1>31. PICK f \in [Tasks -> SUBSET Tasks] : Ascends(f, Tasks, kids, up)
  <2>1. kids \in SUBSET Tasks /\ up \in [kids -> Tasks]
    OBVIOUS
  <2>2. QED  BY <2>1, FamilyExists, Zenon
<1>32. \A c \in Tasks : f[c] = IF c \in kids THEN f[up[c]] \cup {up[c]} ELSE {}
  BY <1>31 DEF Ascends
<1>4. f = F(f)
  BY <1>1, <1>3, <1>32
<1>5. Ancestors = CHOOSE g : g = F(g)
  BY DEF Ancestors
<1>6. Ancestors = F(Ancestors)
  BY <1>4, <1>5
<1>7. \A c \in Tasks : Ancestors[c] = IF IsKid(c) THEN Ancestors[Creator(c)] \cup {Creator(c)} ELSE {}
  BY <1>6
<1>8. ASSUME NEW k \in Tasks, NEW i \in DOMAIN Kids(k)
      PROVE  Ancestors[Kids(k)[i]] = Ancestors[k] \cup {k}
  <2>1. PICK c : c = Kids(k)[i]
    OBVIOUS
  <2>2. c \in Tasks /\ IsKid(c) /\ Creator(c) = k
    BY <2>1, CreatorIs
  <2>3. QED  BY <1>7, <2>1, <2>2
<1>9. ~IsKid(MainTask)
  BY KidsAre, ObjectsAre DEF IsKid
<1>10. QED  BY <1>7, <1>8, <1>9, ObjectsAre

\* The tasks that have been launched, and the main function.
Begun == {c \in Tasks : c = MainTask \/ IsLaunched(c)}

\* An ancestor has been launched before.
AboveBegun == \A c \in Begun : Ancestors[c] \subseteq Begun /\ c \notin Ancestors[c]

EndedComplete == \A c \in ended : Complete(c)

(* Each task that splits puts a flag_task between itself and its parent, and  *)
(* each further one between itself and the flag_task before.  Orig is the     *)
(* parent it was launched with.                                               *)
Orig(c) == IF Joins(Creator(c)) THEN Creator(c) ELSE Aux(c)

Splits(c) == IF Style(c) = "split" THEN done[c] ELSE 0

Link(c, i) == IF i = 0 THEN Orig(c) ELSE Aux(Kids(c)[i])

ChainOf(c) ==
    /\ parent[c] = Link(c, Splits(c))
    /\ \A i \in 1 .. Splits(c) : parent[Aux(Kids(c)[i])] = Link(c, i - 1)

Chains == \A c \in Tasks : Attached(c) => ChainOf(c)

TreeInv == Chains /\ AboveBegun /\ EndedComplete

\* What depends on the program alone.
LEMMA ProgramKeeps ==
    ASSUME program' = program
    PROVE  /\ Ancestors' = Ancestors
           /\ \A c : /\ Kids(c)' = Kids(c) /\ Style(c)' = Style(c) /\ (Joins(c)' <=> Joins(c))
                     /\ Creator(c)' = Creator(c) /\ Orig(c)' = Orig(c)
           /\ \A c, i : Link(c, i)' = Link(c, i)
<1>1. Ancestors' = Ancestors
  BY DEF Ancestors, IsKid, Creator, Kids
<1>2. \A c : Kids(c)' = Kids(c) /\ Style(c)' = Style(c) /\ (Joins(c)' <=> Joins(c))
  BY DEF Kids, Style, Joins
<1>3. \A c : Creator(c)' = Creator(c)
  BY DEF Creator, Kids
<1>4. \A c : Orig(c)' = Orig(c)
  BY <1>2, <1>3 DEF Orig
<1>5. \A c, i : Link(c, i)' = Link(c, i)
  BY <1>2, <1>4 DEF Link
<1>6. QED  BY <1>1, <1>2, <1>3, <1>4, <1>5

\* A chain stays as it is while its task splits nothing and no parent in it changes.
LEMMA ChainSame ==
    ASSUME NEW c, ChainOf(c), program' = program, Splits(c)' = Splits(c), parent'[c] = parent[c],
           \A i \in 1 .. Splits(c) : parent'[Aux(Kids(c)[i])] = parent[Aux(Kids(c)[i])]
    PROVE  ChainOf(c)'
<1>1. /\ Kids(c)' = Kids(c)
      /\ \A i : Link(c, i)' = Link(c, i)
  BY ProgramKeeps
<1>2. QED  BY <1>1 DEF ChainOf

\* The chain of a child that has split nothing yet: its parent alone.
LEMMA ChainBegins ==
    ASSUME ProgramTyped, NEW k \in Tasks, NEW i \in DOMAIN Kids(k), NEW c, c = Kids(k)[i],
           program' = program, Splits(c)' = 0, parent'[c] = IF Joins(k) THEN k ELSE Aux(c)
    PROVE  ChainOf(c)'
<1>1. Creator(c) = k
  BY CreatorIs
<1>2. Orig(c) = parent'[c] /\ Link(c, 0)' = Link(c, 0)
  BY <1>1, ProgramKeeps DEF Orig
<1>3. parent'[c] = Link(c, Splits(c))'
  BY <1>2 DEF Link
<1>4. 1 .. 0 = {}
  OBVIOUS
<1>5. QED  BY <1>3, <1>4 DEF ChainOf

\* A launch keeps all but the chains.
LEMMA LaunchKeeps ==
    ASSUME ProgramInv, TreeInv, NEW k, NEW n, Launch(k, n)
    PROVE  /\ AboveBegun' /\ EndedComplete'
           /\ \A x \in Tasks : Attached(x)' =>
                 Attached(x) \/ \E i \in DOMAIN Kids(k) : Kids(k)[i] = x /\ (Joins(k) => done[k] = 0)
           /\ \A x \in Tasks : x # k => Splits(x)' = Splits(x)
<1>0. /\ ProgramTyped /\ ExecutingIsCurrent /\ AboveBegun /\ EndedComplete
      /\ k \in Tasks /\ n \in Nat /\ n > 0 /\ IsExecuting(k) /\ program' = program /\ ended' = ended
  BY DEF ProgramInv, TreeInv, Launch
<1>1. /\ \A j : Kids(j)' = Kids(j) /\ Style(j)' = Style(j) /\ (Joins(j)' <=> Joins(j))
      /\ \A j \in Tasks : done'[j] = IF j = k THEN done[k] + n ELSE done[j]
      /\ \A c : IsLaunched(c)' <=> IsLaunched(c) \/ c \in Fresh(k, n)
      /\ \A c \in Fresh(k, n) : Unlaunched(c) /\ c # k
  BY LaunchFacts
<1>2. Ancestors' = Ancestors
  BY <1>0, ProgramKeeps
<1>3. k \notin ended /\ k \in Begun
  BY <1>0 DEF ExecutingIsCurrent, Begun
<1>4. EndedComplete'
  <2>1. ended \subseteq Tasks
    BY DEF ProgramInv, RecordsTyped
  <2>2. \A c \in ended : done'[c] = done[c]
    BY <1>1, <1>3, <2>1
  <2>3. QED  BY <1>0, <1>1, <2>2 DEF EndedComplete, Complete
<1>5. /\ Begun' = Begun \cup Fresh(k, n)
      /\ \A c \in Fresh(k, n) : c \notin Begun
  <2>1. \A c \in Fresh(k, n) : c \in Tasks
    BY DEF Fresh
  <2>2. \A c \in Fresh(k, n) : ~IsLaunched(c) /\ c # MainTask
    BY <1>1, ObjectsAre DEF Unlaunched
  <2>3. QED  BY <1>1, <2>1, <2>2 DEF Begun
<1>6. AboveBegun'
  <2>1. ASSUME NEW c \in Fresh(k, n)
        PROVE  Ancestors[c] = Ancestors[k] \cup {k}
    <3>1. PICK i \in DOMAIN Kids(k) : Kids(k)[i] = c
      BY DEF Fresh
    <3>2. QED  BY <1>0, <3>1, AncestorsAre
  <2>2. QED  BY <1>0, <1>2, <1>3, <1>5, <2>1 DEF AboveBegun
<1>7. ASSUME NEW x \in Tasks, Attached(x)', ~Attached(x)
      PROVE  \E i \in DOMAIN Kids(k) : Kids(k)[i] = x /\ (Joins(k) => done[k] = 0)
  <2>1. PICK j \in Tasks : \E i \in DOMAIN Kids(j) :
           Kids(j)[i] = x /\ IF Joins(j) THEN done'[j] > 0 ELSE i <= done'[j]
    BY <1>1, <1>7 DEF Attached
  <2>2. PICK i \in DOMAIN Kids(j) :
           Kids(j)[i] = x /\ IF Joins(j) THEN done'[j] > 0 ELSE i <= done'[j]
    BY <2>1
  <2>3. ~IF Joins(j) THEN done[j] > 0 ELSE i <= done[j]
    BY <1>7, <2>2 DEF Attached
  <2>4. j = k
    BY <1>1, <2>2, <2>3
  <2>5. done[k] \in Nat
    BY <1>0, KidsAre
  <2>6. QED  BY <2>2, <2>3, <2>4, <2>5
<1>8. \A x \in Tasks : x # k => Splits(x)' = Splits(x)
  BY <1>1 DEF Splits
<1>9. QED  BY <1>4, <1>6, <1>7, <1>8

\* The children that the flag_tasks of x came with are children of x alone.
LEMMA FlagsOf ==
    ASSUME ProgramTyped, Progress, NEW x \in Tasks, NEW i \in 1 .. Splits(x)
    PROVE  /\ i \in DOMAIN Kids(x) /\ Kids(x)[i] \in 1 .. N /\ Style(x) = "split" /\ i <= done[x]
           /\ Aux(Kids(x)[i]) \in Objects /\ Aux(Kids(x)[i]) \notin Tasks
<1>1. Style(x) = "split" /\ i \in 1 .. done[x]
  BY DEF Splits
<1>2. done[x] <= Len(Kids(x))
  <2>1. ~Joins(x)
    BY <1>1 DEF Joins
  <2>2. PICK m \in Nat, n \in Nat : m = done[x] /\ n = Len(Kids(x))
    BY KidsAre
  <2>3. ~(done[x] > Len(Kids(x)))
    BY <2>1 DEF Progress
  <2>4. QED  BY <2>2, <2>3
<1>3. i \in DOMAIN Kids(x) /\ i <= done[x]
  <2>1. PICK m \in Nat, n \in Nat : m = done[x] /\ n = Len(Kids(x)) /\ DOMAIN Kids(x) = 1 .. n
    BY KidsAre
  <2>2. QED  BY <1>1, <1>2, <2>1
<1>4. Kids(x)[i] \in 1 .. N
  BY <1>3, KidsAre
<1>5. QED  BY <1>1, <1>3, <1>4, ObjectsAre

\* A task that will join gives its children their parent.
LEMMA JoinChains ==
    ASSUME ProgramInv, TreeInv, NEW k, NEW n, Launch(k, n), Joins(k), NEW c, SpawnParents(k, c)
    PROVE  Chains'
<1>0. /\ ProgramTyped /\ Progress /\ RecordsTyped /\ Chains /\ k \in Tasks /\ program' = program
  BY DEF ProgramInv, TreeInv, Launch
<1>1. \/ done[k] # 0 /\ parent' = parent
      \/ /\ done[k] = 0
         /\ parent' = [p \in Objects |-> IF p \in Range(Kids(k)) THEN k ELSE parent[p]]
  BY DEF SpawnParents, Joins
<1>2. \A p \in Objects : parent'[p] = IF p \in Range(Kids(k)) /\ done[k] = 0 THEN k ELSE parent[p]
  BY <1>1
<1>3. \A p \in Objects : p \notin Tasks => parent'[p] = parent[p]
  <2>1. \A p \in Range(Kids(k)) : p \in Tasks
    BY <1>0, KidsAre, ObjectsAre DEF Range
  <2>2. QED  BY <1>2, <2>1
<1>4. ASSUME NEW x \in Tasks, Attached(x)'
      PROVE  ChainOf(x)'
  <2>1. CASE \E i \in DOMAIN Kids(k) : Kids(k)[i] = x /\ done[k] = 0
    <3>1. PICK i \in DOMAIN Kids(k) : Kids(k)[i] = x
      BY <2>1
    <3>2. parent'[x] = k
      <4>1. x \in Range(Kids(k)) /\ x \in Objects
        BY <3>1, ObjectsAre DEF Range
      <4>2. QED  BY <1>2, <2>1, <4>1
    <3>3. i > done[k]
      BY <1>0, <2>1, KidsAre
    <3>4. Unlaunched(x)
      BY <1>0, <3>1, <3>3, NotLaunched
    <3>5. x # k /\ Splits(x) = 0
      <4>1. IsExecuting(k) /\ ~IsExecuting(x) /\ done[x] = 0
        BY <3>4 DEF Launch, Unlaunched
      <4>2. QED  BY <4>1 DEF Splits
    <3>6. Splits(x)' = 0
      BY <3>5, LaunchKeeps
    <3>7. QED  BY <1>0, <3>1, <3>2, <3>6, ChainBegins
  <2>2. CASE ~\E i \in DOMAIN Kids(k) : Kids(k)[i] = x /\ done[k] = 0
    <3>1. ChainOf(x)
      <4>1. Attached(x)
        BY <1>4, <2>2, LaunchKeeps
      <4>2. QED  BY <1>0, <4>1 DEF Chains
    <3>2. Splits(x)' = Splits(x)
      <4>1. CASE x = k
        <5>1. Splits(x) = 0 /\ (Joins(x)' <=> Joins(x))
          BY <1>0, <4>1, ProgramKeeps DEF Splits, Joins
        <5>2. QED  BY <4>1, <5>1 DEF Splits, Joins
      <4>2. CASE x # k
        BY <4>2, LaunchKeeps
      <4>3. QED  BY <4>1, <4>2
    <3>3. parent'[x] = parent[x]
      <4>1. ~(x \in Range(Kids(k)) /\ done[k] = 0)
        BY <2>2 DEF Range
      <4>2. QED  BY <1>2, <4>1, ObjectsAre
    <3>4. \A i \in 1 .. Splits(x) : parent'[Aux(Kids(x)[i])] = parent[Aux(Kids(x)[i])]
      BY <1>0, <1>3, FlagsOf
    <3>5. QED  BY <1>0, <3>1, <3>2, <3>3, <3>4, ChainSame
  <2>3. QED  BY <2>1, <2>2
<1>5. QED  BY <1>4 DEF Chains

\* The launches of one child by a task that does not join.
LEMMA OneChains ==
    ASSUME ProgramInv, TreeInv, NEW k, Launch(k, 1), ~Joins(k), NEW c, c = Kids(k)[done[k] + 1],
           parent'[c] = Aux(c),
           \A p \in Objects : p # c /\ p # k /\ p # Aux(c) => parent'[p] = parent[p],
           \/ Style(k) = "split" /\ parent'[k] = Aux(c) /\ parent'[Aux(c)] = parent[k]
           \/ Style(k) = "root" /\ parent'[k] = parent[k]
    PROVE  Chains'
<1>0. /\ ProgramTyped /\ Progress /\ RecordsTyped /\ Chains /\ k \in Tasks /\ program' = program
      /\ IsExecuting(k) /\ done[k] + 1 <= Len(Kids(k))
  BY DEF ProgramInv, TreeInv, Launch
<1>1. /\ Fresh(k, 1) = {c} /\ c \in 1 .. N /\ c \in Tasks /\ c \in Objects
      /\ \A x \in Tasks : Attached(x)' <=> Attached(x) \/ x = c
  BY AttachedOne
<1>2. PICK m \in Nat : m = done[k] /\ m + 1 \in DOMAIN Kids(k) /\ Kids(k)[m + 1] = c
  BY <1>0, FreshOne
<1>3. Unlaunched(c)
  <2>1. m + 1 > done[k]
    BY <1>2
  <2>2. QED  BY <1>0, <1>2, <2>1, NotLaunched
<1>4. c # k /\ Splits(c)' = 0
  <2>1. c # k
    BY <1>0, <1>3 DEF Unlaunched
  <2>2. Splits(c) = 0
    BY <1>3 DEF Unlaunched, Splits
  <2>3. QED  BY <1>1, <2>1, <2>2, LaunchKeeps
<1>5. ChainOf(c)'
  <2>1. parent'[c] = IF Joins(k) THEN k ELSE Aux(c)
    OBVIOUS
  <2>2. PICK i : i = m + 1
    OBVIOUS
  <2>3. i \in DOMAIN Kids(k) /\ Kids(k)[i] = c
    BY <1>2, <2>2
  <2>4. QED  BY <1>0, <1>4, <2>1, <2>3, ChainBegins
\* The flag_tasks of others stay.
<1>6. ASSUME NEW x \in Tasks, NEW i \in 1 .. Splits(x), x # k \/ i # m + 1
      PROVE  parent'[Aux(Kids(x)[i])] = parent[Aux(Kids(x)[i])]
  <2>1. /\ i \in DOMAIN Kids(x) /\ Kids(x)[i] \in 1 .. N
        /\ Aux(Kids(x)[i]) \in Objects /\ Aux(Kids(x)[i]) \notin Tasks
    BY <1>0, FlagsOf
  <2>2. Kids(x)[i] # c
    BY <1>0, <1>2, <1>6, <2>1, KidsAre
  <2>3. Aux(Kids(x)[i]) # Aux(c)
    BY <1>1, <2>1, <2>2, ObjectsAre
  <2>4. QED  BY <1>0, <1>1, <2>1, <2>3
<1>7. ASSUME NEW x \in Tasks, Attached(x), x # c, x # k
      PROVE  ChainOf(x)'
  <2>1. ChainOf(x) /\ Splits(x)' = Splits(x)
    BY <1>0, <1>7, LaunchKeeps DEF Chains
  <2>2. parent'[x] = parent[x]
    <3>1. x \in Objects /\ x # Aux(c)
      BY <1>1, ObjectsAre
    <3>2. QED  BY <1>7, <3>1
  <2>3. \A i \in 1 .. Splits(x) : parent'[Aux(Kids(x)[i])] = parent[Aux(Kids(x)[i])]
    BY <1>6, <1>7
  <2>4. QED  BY <1>0, <2>1, <2>2, <2>3, ChainSame
<1>8. ASSUME Attached(k), Style(k) = "root"
      PROVE  ChainOf(k)'
  <2>1. ChainOf(k) /\ Splits(k) = 0
    BY <1>0, <1>8 DEF Chains, Splits
  <2>2. Splits(k)' = 0
    <3>1. Style(k)' = "root"
      BY <1>0, <1>8, ProgramKeeps
    <3>2. QED  BY <3>1 DEF Splits
  <2>3. parent'[k] = parent[k]
    BY <1>8
  <2>4. \A i \in 1 .. Splits(k) : parent'[Aux(Kids(k)[i])] = parent[Aux(Kids(k)[i])]
    BY <2>1
  <2>5. QED  BY <1>0, <2>1, <2>2, <2>3, <2>4, ChainSame
<1>9. ASSUME Attached(k), Style(k) = "split"
      PROVE  ChainOf(k)'
  <2>1. /\ parent[k] = Link(k, m)
        /\ \A i \in 1 .. m : parent[Aux(Kids(k)[i])] = Link(k, i - 1)
        /\ Splits(k) = m
    <3>1. ChainOf(k) /\ Splits(k) = m
      BY <1>0, <1>2, <1>9 DEF Chains, Splits
    <3>2. QED  BY <3>1 DEF ChainOf
  <2>2. /\ \A j : Link(k, j)' = Link(k, j)
        /\ Kids(k)' = Kids(k) /\ Style(k)' = Style(k)
    BY <1>0, ProgramKeeps
  <2>3. Splits(k)' = m + 1
    <3>1. done'[k] = m + 1
      BY <1>0, <1>2, LaunchFacts
    <3>2. QED  BY <1>9, <2>2, <3>1 DEF Splits
  <2>4. Link(k, m + 1) = Aux(c)
    <3>1. m + 1 # 0
      OBVIOUS
    <3>2. QED  BY <1>2, <3>1 DEF Link
  <2>5. parent'[k] = Link(k, m + 1) /\ parent'[Aux(Kids(k)[m + 1])] = Link(k, m)
    BY <1>2, <1>9, <2>1, <2>4
  <2>6. ASSUME NEW i \in 1 .. m + 1
        PROVE  parent'[Aux(Kids(k)[i])] = Link(k, i - 1)
    <3>1. CASE i = m + 1
      BY <2>5, <3>1
    <3>2. CASE i # m + 1
      <4>1. i \in 1 .. m
        BY <3>2
      <4>2. QED  BY <1>0, <1>6, <2>1, <3>2, <4>1
    <3>3. QED  BY <3>1, <3>2
  <2>7. QED  BY <2>2, <2>3, <2>5, <2>6 DEF ChainOf
<1>10. ASSUME NEW x \in Tasks, Attached(x)'
       PROVE  ChainOf(x)'
  BY <1>1, <1>5, <1>7, <1>8, <1>9, <1>10
<1>11. QED  BY <1>10 DEF Chains

\* A spawn call launches the tasks that it hands over.
LEMMA SpawnIs ==
    ASSUME ProgramInv, NEW t \in Threads, local_spawn(t), NEW k, k = Current(t),
           NEW n, n = Len(Spawns(k))
    PROVE  /\ pc[t] = "run" /\ k \in Tasks /\ IsExecuting(k) /\ Launch(k, n) /\ Style(k) # "root"
           /\ Style(k) = "split" => n = 1
           /\ SpawnParents(k, Kids(k)[done[k] + 1])
           /\ \A c : c \in Fresh(k, n) <=> c \in Range(Spawns(k))
           /\ n \in Nat /\ n > 0 /\ Fresh(k, n) # {}
           /\ UNCHANGED <<program, ended, loops>>
<1>0. /\ ProgramTyped /\ LoopsTyped /\ PcLevels /\ OneLevelEach /\ Progress
  BY DEF ProgramInv
<1>1. /\ pc[t] = "run" /\ k \in Tasks /\ Spawns(k) # <<>> /\ SpawnParents(k, Kids(k)[done[k] + 1])
      /\ Launched(k, n) /\ UNCHANGED <<program, ended, loops>> /\ k = Inner(t).task
  BY DEF local_spawn, Executes, At, Current, NextKid
<1>2. IsExecuting(k)
  BY <1>0, <1>1, Innermost, ObjectsAre
<1>3. PICK new : new = Spawns(k)
  OBVIOUS
<1>4. /\ n \in Nat /\ n > 0 /\ done[k] + n <= Len(Kids(k))
      /\ Style(k) = "list" => n = Len(Kids(k))
      /\ Style(k) = "split" => n = 1
      /\ Style(k) # "root"
      /\ \A i \in 1 .. n : new[i] \in Fresh(k, n)
      /\ \A d \in Fresh(k, n) : \E i \in 1 .. n : new[i] = d
  BY <1>0, <1>1, <1>3, SpawnsAre
<1>5. Launch(k, n)
  <2>1. \A q : IsExecuting(q)' <=> IsExecuting(q)
    BY <1>1 DEF IsExecuting
  <2>2. QED  BY <1>1, <1>2, <1>4, <2>1 DEF Launch
<1>6. DOMAIN new = 1 .. n
  <2>1. Spawns(k) \in Seq(Tasks)
    BY <1>0, <1>1, ToSpawn
  <2>2. QED  BY <1>3, <2>1, LenProperties
<1>7. \A c : c \in Fresh(k, n) <=> c \in Range(Spawns(k))
  BY <1>3, <1>4, <1>6 DEF Range
<1>8. 1 \in 1 .. n
  BY <1>4
<1>9. QED  BY <1>1, <1>2, <1>4, <1>5, <1>7, <1>8

\* A blocking spawn launches child c, and waits for w.
LEMMA ChildIs ==
    ASSUME ProgramInv, NEW t \in Threads, NEW k, k = Current(t), NEW c, c = NextKid(t), NEW w,
           \/ local_wait_for_all_WithChild(t) /\ w = k
           \/ local_spawn_root_and_wait(t) /\ w = Aux(c)
    PROVE  /\ pc[t] = "run" /\ k \in Tasks /\ k = Inner(t).task /\ IsExecuting(k)
           /\ Launch(k, 1) /\ Fresh(k, 1) = {c} /\ c \in 1 .. N /\ c \in Tasks
           /\ c = Kids(k)[done[k] + 1] /\ w \in Objects
           /\ \/ Style(k) = "both" /\ w = k /\ SpawnParents(k, c)
              \/ Style(k) = "root" /\ w = Aux(c) /\ parent' = [parent EXCEPT ![c] = Aux(c)]
           /\ loops' = [loops EXCEPT ![t] = Append(@, Loop(w, c))]
           /\ Pushed(t, Loop(w, c)) /\ Unlaunched(c)
           /\ \A q : IsExecuting(q)' <=> IsExecuting(q) \/ q = c
           /\ UNCHANGED <<program, ended>>
<1>0. /\ ProgramTyped /\ LoopsTyped /\ PcLevels /\ OneLevelEach
  BY DEF ProgramInv
<1>1. /\ pc[t] = "run" /\ k \in Tasks /\ k = Inner(t).task /\ c = Kids(k)[done[k] + 1]
      /\ \/ Style(k) = "both" /\ w = k /\ SpawnParents(k, c) /\ done[k] + 1 = Len(Kids(k))
         \/ /\ Style(k) = "root" /\ w = Aux(c) /\ parent' = [parent EXCEPT ![c] = Aux(c)]
            /\ done[k] < Len(Kids(k))
      /\ loops' = [loops EXCEPT ![t] = Append(@, Loop(w, c))]
      /\ Launched(k, 1) /\ UNCHANGED <<program, ended>>
  BY DEF local_wait_for_all_WithChild, local_spawn_root_and_wait, Executes, At, Current, NextKid
<1>2. done[k] + 1 <= Len(Kids(k))
  <2>1. Len(Kids(k)) \in Nat /\ done[k] \in Nat
    BY <1>0, <1>1, KidsAre
  <2>2. QED  BY <1>1, <2>1
<1>3. /\ Fresh(k, 1) = {c} /\ c \in 1 .. N /\ c \in Tasks /\ c \in Objects
      /\ done[k] + 1 \in DOMAIN Kids(k) /\ done[k] \in Nat
  BY <1>0, <1>1, <1>2, FreshOne
<1>4. w \in Objects /\ c # NoTask
  BY <1>1, <1>3, ObjectsAre
<1>5. IsExecuting(k)
  BY <1>0, <1>1, Innermost, ObjectsAre
<1>6. Unlaunched(c)
  <2>1. PICK i \in DOMAIN Kids(k) : i = done[k] + 1
    BY <1>3
  <2>2. i > done[k]
    BY <1>3, <2>1
  <2>3. QED  BY <1>1, <2>1, <2>2, NotLaunched
<1>7. PICK level \in Level : level = Loop(w, c) /\ level.waits = w /\ level.task = c
  <2>1. Loop(w, c) \in Level /\ Loop(w, c).waits = w /\ Loop(w, c).task = c
    BY <1>3, <1>4 DEF Loop, Level
  <2>2. QED  BY <2>1
<1>8. Pushed(t, level)
  BY <1>0, <1>1, <1>7, PushedIs
<1>9. \A q : IsExecuting(q)' <=> IsExecuting(q) \/ q = c
  BY <1>7, <1>8, AfterPush
<1>10. Launch(k, 1)
  <2>1. (Style(k) = "list" => 1 = Len(Kids(k))) /\ 1 \in Nat /\ 1 > 0
    BY <1>1
  <2>2. \A q : q \notin Fresh(k, 1) /\ q # NoTask => (IsExecuting(q)' <=> IsExecuting(q))
    BY <1>3, <1>9
  <2>3. QED  BY <1>1, <1>2, <1>5, <2>1, <2>2 DEF Launch
<1>11. QED  BY <1>1, <1>3, <1>4, <1>5, <1>6, <1>7, <1>8, <1>9, <1>10

\* What an EndLoop step does.
LEMMA EndLoopIs ==
    ASSUME ProgramInv, NEW t \in Threads, EndLoop(t), NEW p, p = Inner(t).waits
    PROVE  /\ loops[t] # <<>> /\ Inner(t).task = NoTask /\ p \in Objects /\ ref_count[p] = 1
           /\ done' = IF p \in Tasks THEN [done EXCEPT ![p] = @ + 1] ELSE done
           /\ loops' = [loops EXCEPT ![t] = Front(@)] /\ Popped(t) /\ Awaited(p)
           /\ UNCHANGED <<program, parent, ended>>
<1>0. LoopsTyped /\ PcLevels
  BY DEF ProgramInv
<1>1. /\ pc[t] \in {"look", "steal"} /\ Inner(t).task = NoTask /\ loops[t] # <<>>
      /\ p \in Objects /\ ref_count[p] = 1
      /\ done' = IF p \in Tasks THEN [done EXCEPT ![p] = @ + 1] ELSE done
      /\ loops' = [loops EXCEPT ![t] = Front(@)]
      /\ UNCHANGED <<program, parent, ended>>
  BY <1>0 DEF EndLoop, Joined, PcLevels
<1>2. Popped(t)
  BY <1>0, <1>1, PoppedIs
<1>3. Awaited(p)
  <2>1. Len(loops[t]) \in DOMAIN loops[t] /\ Inner(t) = loops[t][Len(loops[t])]
    BY <1>0, <1>1, LevelsOf
  <2>2. QED  BY <2>1 DEF Awaited
<1>4. QED  BY <1>1, <1>2, <1>3

\* The end of a loop, which only the wait of its task is a part of.
LEMMA TreeJoins ==
    ASSUME ProgramInv, TreeInv, NEW t \in Threads, EndLoop(t)
    PROVE  TreeInv' /\ Begun' = Begun /\ Ancestors' = Ancestors
<1>0. /\ ProgramTyped /\ RecordsTyped /\ ExecutingIsCurrent /\ LoopsTyped /\ PcLevels /\ Joints
      /\ Chains /\ AboveBegun /\ EndedComplete
  BY DEF ProgramInv, TreeInv
<1>1. PICK p : p = Inner(t).waits
  OBVIOUS
<1>2. /\ p \in Objects /\ Awaited(p) /\ UNCHANGED <<program, parent, ended>>
      /\ done' = IF p \in Tasks THEN [done EXCEPT ![p] = @ + 1] ELSE done
  BY <1>1, EndLoopIs
<1>3. p \in Tasks => IsExecuting(p) /\ Joins(p) /\ Kids(p) # <<>> /\ done[p] = Len(Kids(p))
  BY <1>0, <1>2, AwaitedTask, ObjectsAre
<1>4. p \notin ended
  BY <1>0, <1>2, <1>3 DEF ExecutingIsCurrent, RecordsTyped
<1>5. /\ Ancestors' = Ancestors
      /\ \A c : Kids(c)' = Kids(c) /\ Style(c)' = Style(c) /\ (Joins(c)' <=> Joins(c))
      /\ \A c, i : Link(c, i)' = Link(c, i)
  BY <1>2, ProgramKeeps
<1>6. /\ \A j \in Tasks : j # p => done'[j] = done[j]
      /\ p \in Tasks => done'[p] = done[p] + 1 /\ done[p] \in Nat
      /\ \A j \in Tasks : done[j] \in Nat
  BY <1>0, <1>2 DEF ProgramTyped
\* A task that joins has launched all its children.
<1>7. p \in Tasks => /\ done[p] > 0
                     /\ \A i \in DOMAIN Kids(p) : i <= done[p] /\ i <= done'[p]
  <2>1. SUFFICES ASSUME p \in Tasks
                 PROVE  done[p] > 0 /\ \A i \in DOMAIN Kids(p) : i <= done[p] /\ i <= done'[p]
    OBVIOUS
  <2>2. PICK kids \in Seq(1 .. N) : kids = Kids(p) /\ kids # <<>>
    BY <1>0, <1>3, <2>1, KidsAre
  <2>3. Len(kids) \in Nat \ {0} /\ DOMAIN kids = 1 .. Len(kids)
    BY <2>2, EmptySeq, LenProperties
  <2>4. PICK m \in Nat : m = Len(kids) /\ done[p] = m /\ done'[p] = m + 1 /\ DOMAIN kids = 1 .. m /\ m # 0
    BY <1>3, <1>6, <2>1, <2>2, <2>3
  <2>5. QED  BY <2>2, <2>4
<1>8. ASSUME NEW c
      PROVE  IsLaunched(c)' <=> IsLaunched(c)
  <2>1. \A j \in Tasks : HasLaunched(j, c)' <=> HasLaunched(j, c)
    BY <1>5, <1>6, <1>7 DEF HasLaunched
  <2>2. QED  BY <2>1 DEF IsLaunched
<1>9. Begun' = Begun
  BY <1>8 DEF Begun
<1>10. ASSUME NEW c, Attached(c)'
       PROVE  Attached(c)
  <2>1. PICK j \in Tasks : \E i \in DOMAIN Kids(j) :
           Kids(j)[i] = c /\ IF Joins(j) THEN done'[j] > 0 ELSE i <= done'[j]
    BY <1>5, <1>10 DEF Attached
  <2>2. CASE j # p
    BY <1>6, <2>1, <2>2 DEF Attached
  <2>3. CASE j = p
    BY <1>3, <1>7, <2>1, <2>3 DEF Attached
  <2>4. QED  BY <2>2, <2>3
<1>11. Chains'
  <2>1. SUFFICES ASSUME NEW c \in Tasks, Attached(c)'
                 PROVE  ChainOf(c)'
    BY DEF Chains
  <2>2. ChainOf(c)
    BY <1>0, <1>10, <2>1 DEF Chains
  <2>3. Splits(c)' = Splits(c)
    <3>1. CASE c = p
      BY <1>3, <1>5, <3>1 DEF Splits, Joins
    <3>2. CASE c # p
      BY <1>5, <1>6, <3>2 DEF Splits
    <3>3. QED  BY <3>1, <3>2
  <2>4. QED  BY <1>2, <2>2, <2>3, ChainSame
<1>12. AboveBegun'
  BY <1>0, <1>5, <1>9 DEF AboveBegun
<1>13. EndedComplete'
  <2>1. \A c \in ended : done'[c] = done[c]
    BY <1>0, <1>4, <1>6 DEF RecordsTyped
  <2>2. QED  BY <1>0, <1>2, <1>5, <2>1 DEF EndedComplete, Complete
<1>14. QED  BY <1>5, <1>9, <1>11, <1>12, <1>13 DEF TreeInv

\* The end of a task, and the steps that leave the records alone.
LEMMA TreeEnds ==
    ASSUME TreeInv, UNCHANGED <<program, done, parent>>, \A c \in ended' : c \in ended \/ Complete(c)
    PROVE  TreeInv' /\ Begun' = Begun /\ Ancestors' = Ancestors
<1>1. /\ Ancestors' = Ancestors
      /\ \A c : /\ Kids(c)' = Kids(c) /\ Style(c)' = Style(c) /\ (Joins(c)' <=> Joins(c))
      /\ \A c, i : Link(c, i)' = Link(c, i)
  BY ProgramKeeps
<1>2. Begun' = Begun
  BY <1>1 DEF Begun, IsLaunched, HasLaunched
<1>3. \A c : (Attached(c)' <=> Attached(c)) /\ Splits(c)' = Splits(c)
  BY <1>1 DEF Attached, Splits
<1>4. Chains'
  BY <1>1, <1>3 DEF TreeInv, Chains, ChainOf
<1>5. AboveBegun' /\ EndedComplete'
  BY <1>1, <1>2 DEF TreeInv, AboveBegun, EndedComplete, Complete
<1>6. QED  BY <1>1, <1>2, <1>4, <1>5 DEF TreeInv

\* Every step keeps the tree.
LEMMA TreeStep ==
    ASSUME ProgramInv, TreeInv, [Next]_vars
    PROVE  TreeInv'
<1>1. CASE UNCHANGED <<program, done, parent, ended>>
  BY <1>1, TreeEnds
<1>2. ASSUME NEW t \in Threads, local_spawn(t)
      PROVE  TreeInv'
  <2>1. PICK k, n, c : k = Current(t) /\ n = Len(Spawns(k)) /\ c = Kids(k)[done[k] + 1]
    OBVIOUS
  <2>2. /\ k \in Tasks /\ Launch(k, n) /\ Style(k) # "root" /\ (Style(k) = "split" => n = 1)
        /\ SpawnParents(k, c)
    BY <1>2, <2>1, SpawnIs
  <2>3. CASE Joins(k)
    BY <2>2, <2>3, JoinChains, LaunchKeeps DEF TreeInv
  <2>4. CASE ~Joins(k)
    <3>1. Style(k) = "split" /\ Launch(k, 1)
      BY <2>2, <2>4 DEF Joins
    <3>2. parent' = [parent EXCEPT ![c] = Aux(c), ![k] = Aux(c), ![Aux(c)] = parent[k]]
      BY <2>2, <3>1 DEF SpawnParents
    <3>3. /\ c \in 1 .. N /\ c \in Tasks /\ c \in Objects /\ c # k
      <4>1. Fresh(k, 1) = {c} /\ c \in 1 .. N /\ c \in Tasks /\ c \in Objects
        BY <2>1, <2>4, <3>1, AttachedOne
      <4>2. QED  BY <3>1, <4>1, LaunchFacts
    <3>4. parent'[c] = Aux(c) /\ parent'[k] = Aux(c) /\ parent'[Aux(c)] = parent[k]
      <4>1. Aux(c) \in Objects /\ Aux(c) # k /\ Aux(c) # c /\ k \in Objects
        BY <2>2, <3>3, ObjectsAre
      <4>2. QED  BY <3>2, <3>3, <4>1 DEF ProgramInv, RecordsTyped
    <3>5. \A p \in Objects : p # c /\ p # k /\ p # Aux(c) => parent'[p] = parent[p]
      BY <3>2 DEF ProgramInv, RecordsTyped
    <3>6. Chains'
      BY <2>1, <2>4, <3>1, <3>4, <3>5, OneChains
    <3>7. QED  BY <2>2, <3>6, LaunchKeeps DEF TreeInv
  <2>5. QED  BY <2>3, <2>4
<1>3. ASSUME NEW t \in Threads, local_wait_for_all_WithChild(t) \/ local_spawn_root_and_wait(t)
      PROVE  TreeInv'
  <2>1. PICK k, c, w : /\ k = Current(t) /\ c = NextKid(t)
                       /\ w = IF local_wait_for_all_WithChild(t) THEN k ELSE Aux(c)
    OBVIOUS
  <2>2. /\ k \in Tasks /\ Launch(k, 1) /\ Fresh(k, 1) = {c} /\ c \in 1 .. N /\ c \in Tasks
        /\ c = Kids(k)[done[k] + 1]
        /\ \/ Style(k) = "both" /\ w = k /\ SpawnParents(k, c)
           \/ Style(k) = "root" /\ w = Aux(c) /\ parent' = [parent EXCEPT ![c] = Aux(c)]
    BY <1>3, <2>1, ChildIs
  <2>3. CASE Style(k) = "both"
    BY <2>2, <2>3, JoinChains, LaunchKeeps DEF TreeInv, Joins
  <2>4. CASE Style(k) = "root" /\ parent' = [parent EXCEPT ![c] = Aux(c)]
    <3>1. ~Joins(k) /\ c # k /\ c \in Objects /\ k \in Objects
      BY <2>2, <2>4, LaunchFacts, ObjectsAre DEF Joins
    <3>2. /\ parent'[c] = Aux(c) /\ parent'[k] = parent[k]
          /\ \A p \in Objects : p # c /\ p # k /\ p # Aux(c) => parent'[p] = parent[p]
      BY <2>4, <3>1 DEF ProgramInv, RecordsTyped
    <3>3. Chains'
      BY <2>2, <2>4, <3>1, <3>2, OneChains
    <3>4. QED  BY <2>2, <3>3, LaunchKeeps DEF TreeInv
  <2>5. QED  BY <2>2, <2>3, <2>4
<1>4. ASSUME NEW t \in Threads, Return(t)
      PROVE  TreeInv'
  <2>1. UNCHANGED <<program, done, parent>> /\ \A c \in ended' : c \in ended \/ Complete(c)
    BY <1>4 DEF Return
  <2>2. QED  BY <2>1, TreeEnds
<1>5. ASSUME NEW t \in Threads, EndLoop(t)
      PROVE  TreeInv'
  BY <1>5, TreeJoins
<1>6. ASSUME NEW t \in Threads, QuietStepOf(t)
      PROVE  TreeInv'
  <2>1. CASE \/ local_wait_for_all(t) \/ SeekLock(t) \/ LookElsewhere(t)
             \/ EnterArena(t) \/ LeaveArena(t)
    <3>1. UNCHANGED <<program, done, parent, ended>>
      BY <2>1 DEF local_wait_for_all, SeekLock, LookElsewhere, EnterArena, LeaveArena, dispatch
    <3>2. QED  BY <1>1, <3>1
  <2>2. QED  BY <1>3, <1>4, <1>5, <1>6, <2>1 DEF QuietStepOf
<1>7. ASSUME NEW t \in Threads, PoolStepOf(t)
      PROVE  TreeInv'
  <2>1. CASE local_spawn(t)
    BY <1>2, <2>1
  <2>2. CASE ~local_spawn(t)
    <3>1. UNCHANGED <<program, done, parent, ended>>
      BY <1>7, <2>2 DEF PoolStepOf, MakeRoom, LookInPool, GetTask, GetTaskLocked, Steal, StealFails,
                        StealSucceeds, dispatch
    <3>2. QED  BY <1>1, <3>1
  <2>3. QED  BY <2>1, <2>2
<1>8. CASE UNCHANGED vars
  BY <1>1, <1>8 DEF vars, dispatch
<1>9. QED  BY <1>6, <1>7, <1>8, StepsAre

\* Nothing is attached at first.
LEMMA TreeInitially ==
    ASSUME Init
    PROVE  TreeInv
<1>1. ProgramTyped
  BY ProgramInitially DEF ProgramInv
<1>2. \A k \in Tasks : done[k] = 0
  BY DEF Init
<1>3. \A k \in Tasks : \A i \in DOMAIN Kids(k) : ~(i <= done[k]) /\ ~(done[k] > 0)
  BY <1>1, <1>2, KidsAre
<1>4. (\A c : ~Attached(c)) /\ (\A c : ~IsLaunched(c))
  BY <1>3 DEF Attached, IsLaunched, HasLaunched
<1>5. Begun = {MainTask}
  BY <1>4, ObjectsAre DEF Begun
<1>6. QED
  BY <1>1, <1>4, <1>5, AncestorsAre DEF Init, TreeInv, Chains, AboveBegun, EndedComplete

\* A set of numbers has a least one.
LEMMA LeastIs ==
    ASSUME NEW T \in SUBSET Nat, T # {}
    PROVE  \E x \in T : \A y \in T : x <= y
<1> DEFINE R == OpToRel(<, Nat)
<1>1. PICK x \in T : \A y \in T : <<y, x>> \notin R
  <2>1. IsWellFoundedOn(R, Nat) /\ T \subseteq Nat
    BY NatLessThanWellFounded
  <2> HIDE DEF R
  <2>2. QED  BY <2>1, WFMin
<1>2. \A y \in T : ~(y < x)
  BY <1>1 DEF OpToRel
<1>3. QED  BY <1>2

\* What is launched has a parent.
LEMMA LaunchedAttached ==
    ASSUME ProgramTyped, NEW c, IsLaunched(c)
    PROVE  Attached(c)
<1>1. PICK k \in Tasks : HasLaunched(k, c)
  BY DEF IsLaunched
<1>2. PICK i \in DOMAIN Kids(k) : i <= done[k] /\ Kids(k)[i] = c
  BY <1>1 DEF HasLaunched
<1>3. done[k] \in Nat /\ DOMAIN Kids(k) = 1 .. Len(Kids(k)) /\ Len(Kids(k)) \in Nat
  BY KidsAre
<1>4. done[k] > 0
  BY <1>2, <1>3
<1>5. QED  BY <1>2, <1>4 DEF Attached

\* Task c, or a flag_task that it put above itself, has still to tell its parent.
Active(c) == Untold(c) \/ \E i \in 1 .. Splits(c) : Untold(Aux(Kids(c)[i]))

\* A flag_task that is still to be told has still to tell.
LEMMA UntoldUp ==
    ASSUME ProgramInv, NEW q \in Objects, Untold(q), NEW p \in Objects, p = parent[q], p \notin Tasks
    PROVE  Untold(p)
<1>1. ref_count[p] > 0
  BY BypassIsFlag
<1>2. QED  BY <1>1 DEF Untold

\* Then the parent that c was launched with is still to be told.
LEMMA ActiveIsAwaited ==
    ASSUME ProgramInv, TreeInv, NEW c \in Tasks, Attached(c), Active(c)
    PROVE  Kin(Orig(c)) # {}
<1>0. ProgramTyped /\ Progress /\ ChainOf(c)
  BY DEF ProgramInv, TreeInv, Chains
<1>1. PICK m \in Nat : m = Splits(c)
  BY <1>0, KidsAre DEF Splits
<1>2. /\ parent[c] = Link(c, m)
      /\ \A i \in 1 .. m : /\ parent[Aux(Kids(c)[i])] = Link(c, i - 1)
                           /\ Aux(Kids(c)[i]) \in Objects /\ Aux(Kids(c)[i]) \notin Tasks
  BY <1>0, <1>1, FlagsOf DEF ChainOf
<1>3. Link(c, 0) = Orig(c) /\ \A i \in 1 .. m : Link(c, i) = Aux(Kids(c)[i])
  BY DEF Link
<1>4. ASSUME NEW q \in Objects, Untold(q), NEW i \in 1 .. m, parent[q] = Link(c, i)
      PROVE  Untold(Aux(Kids(c)[i]))
  <2>1. PICK p : p = Aux(Kids(c)[i]) /\ p = parent[q] /\ p \in Objects /\ p \notin Tasks
    BY <1>2, <1>3, <1>4
  <2>2. Untold(p)
    BY <1>4, <2>1, UntoldUp
  <2>3. QED  BY <2>1, <2>2
<1>5. CASE \E i \in 1 .. m : Untold(Aux(Kids(c)[i]))
  <2>1. PICK U \in SUBSET Nat : U = {i \in 1 .. m : Untold(Aux(Kids(c)[i]))}
    <3>1. {i \in 1 .. m : Untold(Aux(Kids(c)[i]))} \in SUBSET Nat
      OBVIOUS
    <3>2. QED  BY <3>1
  <2>2. U # {}
    BY <1>5, <2>1
  <2>3. PICK i \in U : \A j \in U : i <= j
    BY <2>2, LeastIs
  <2>4. i \in 1 .. m /\ Untold(Aux(Kids(c)[i]))
    BY <2>1, <2>3
  <2>5. i = 1
    <3>1. SUFFICES ASSUME i # 1
                   PROVE  FALSE
      OBVIOUS
    <3>2. PICK j : j = i - 1 /\ j \in 1 .. m /\ ~(i <= j)
      BY <2>4, <3>1
    <3>3. PICK q : q = Aux(Kids(c)[i]) /\ q \in Objects /\ Untold(q) /\ parent[q] = Link(c, j)
      BY <1>2, <2>4, <3>2
    <3>4. Untold(Aux(Kids(c)[j]))
      BY <1>4, <3>2, <3>3
    <3>5. QED  BY <2>1, <2>3, <3>2, <3>4
  <2>6. PICK q : q = Aux(Kids(c)[i]) /\ q \in Objects /\ Untold(q) /\ parent[q] = Orig(c)
    BY <1>2, <1>3, <2>4, <2>5
  <2>7. QED  BY <2>6 DEF Kin
<1>6. CASE ~\E i \in 1 .. m : Untold(Aux(Kids(c)[i]))
  <2>1. Untold(c) /\ c \in Objects
    BY <1>1, <1>6, ObjectsAre DEF Active
  <2>2. m = 0
    <3>1. SUFFICES ASSUME m # 0
                   PROVE  FALSE
      OBVIOUS
    <3>2. m \in 1 .. m
      BY <3>1
    <3>3. QED  BY <1>2, <1>4, <1>6, <2>1, <3>2
  <2>3. parent[c] = Orig(c)
    BY <1>2, <1>3, <2>2
  <2>4. QED  BY <2>1, <2>3 DEF Kin
<1>7. QED  BY <1>5, <1>6

\* A loop is left when only the wait is left in the count.
LEMMA NoKin ==
    ASSUME ProgramInv, NEW p \in Objects, Awaited(p), ref_count[p] = 1
    PROVE  Kin(p) = {}
<1>1. ref_count[p] = Cardinality(Kin(p)) + 1
  BY DEF ProgramInv, Counts, Count
<1>2. Cardinality(Kin(p)) \in Nat /\ IsFiniteSet(Kin(p))
  BY FiniteKin
<1>3. Cardinality(Kin(p)) = 0
  BY <1>1, <1>2
<1>4. QED  BY <1>2, <1>3, FS_EmptySet

\* What a task that has ended launched has been told of to where it was launched from.
LEMMA EndedHasNoKin ==
    ASSUME ProgramInv, TreeInv, NEW k \in ended, NEW i \in DOMAIN Kids(k), i <= done[k],
           NEW c, c = Kids(k)[i], Kin(Orig(c)) # {}
    PROVE  Style(k) = "split" /\ Active(k)
<1>0. /\ ProgramTyped /\ RecordsTyped /\ LoopsTyped /\ PcLevels /\ Joints /\ ExecutingIsCurrent
      /\ Progress /\ DummiesAwaited /\ Counts /\ k \in Tasks /\ Complete(k)
  BY DEF ProgramInv, TreeInv, EndedComplete, RecordsTyped
<1>1. c \in 1 .. N /\ Creator(c) = k /\ HasLaunched(k, c)
  BY <1>0, CreatorIs DEF HasLaunched
<1>2. PICK q \in Objects : parent[q] = Orig(c) /\ Untold(q)
  BY DEF Kin
<1>3. PICK p : p = Orig(c)
  OBVIOUS
<1>4. p \in Objects /\ (Joins(k) => p = k) /\ (~Joins(k) => p = Aux(c) /\ p \notin Tasks)
  BY <1>0, <1>1, <1>3, ObjectsAre DEF Orig
<1>5. ref_count[p] > 0
  BY <1>2, <1>3, <1>4, BypassIsFlag
<1>6. ~Joins(k)
  <2>1. SUFFICES ASSUME Joins(k)
                 PROVE  FALSE
    OBVIOUS
  <2>2. PICK m \in Nat, l \in Nat : /\ m = done[k] /\ l = Len(Kids(k)) /\ DOMAIN Kids(k) = 1 .. l
    BY <1>0, KidsAre
  <2>3. l # 0 /\ Kids(k) # <<>>
    <3>1. l # 0
      BY <2>2
    <3>2. QED  BY <2>2, <3>1
  <2>4. m = l + 1
    BY <1>0, <2>1, <2>2, <2>3 DEF Complete, Joins
  <2>5. done[k] > Len(Kids(k))
    BY <2>2, <2>4
  <2>6. ref_count[k] = 0
    BY <1>0, <2>5 DEF Progress
  <2>7. QED  BY <1>4, <1>5, <2>1, <2>6
<1>7. Style(k) # "root"
  <2>1. SUFFICES ASSUME Style(k) = "root"
                 PROVE  FALSE
    OBVIOUS
  <2>2. LaunchedBy("root", c)
    BY <1>0, <1>1, <2>1 DEF LaunchedBy
  <2>3. Awaited(Aux(c))
    BY <1>0, <1>1, <1>4, <1>5, <1>6, <2>2 DEF DummiesAwaited
  <2>4. PICK t \in Threads : \E l \in DOMAIN loops[t] : loops[t][l].waits = Aux(c)
    BY <2>3 DEF Awaited
  <2>5. PICK l \in DOMAIN loops[t] : loops[t][l].waits = Aux(c)
    BY <2>4
  <2>6. l - 1 \in DOMAIN loops[t] /\ Joint(t, l - 1) /\ (l - 1) + 1 = l
    BY <1>0, <1>1, <2>5, AwaitedIs, ObjectsAre
  <2>7. PICK j : j = loops[t][l - 1].task
    OBVIOUS
  <2>8. PICK d \in 1 .. N : j \in Tasks /\ Aux(c) = Aux(d) /\ HasLaunched(j, d)
    <3>1. Aux(c) \notin Tasks
      BY <1>1, ObjectsAre
    <3>2. QED  BY <2>5, <2>6, <2>7, <3>1 DEF Joint
  <2>9. d = c
    BY <1>1, <2>8, ObjectsAre
  <2>10. j = k
    BY <1>0, <1>1, <2>8, <2>9, KidsAre DEF HasLaunched
  <2>11. IsExecuting(k)
    BY <2>6, <2>7, <2>10 DEF IsExecuting
  <2>12. QED  BY <1>0, <2>11 DEF ExecutingIsCurrent
<1>8. Style(k) = "split"
  BY <1>6, <1>7 DEF Joins
<1>9. Untold(Aux(c))
  BY <1>4, <1>5, <1>6 DEF Untold
<1>10. i \in 1 .. Splits(k)
  <2>1. DOMAIN Kids(k) = 1 .. Len(Kids(k)) /\ Len(Kids(k)) \in Nat /\ done[k] \in Nat
    BY <1>0, KidsAre
  <2>2. Splits(k) = done[k]
    BY <1>8 DEF Splits
  <2>3. QED  BY <2>1, <2>2
<1>11. QED  BY <1>8, <1>9, <1>10 DEF Active

\* A task has one more ancestor than the task that launched it.
LEMMA OneMoreAncestor ==
    ASSUME ProgramInv, TreeInv, NEW j \in Tasks, NEW i \in DOMAIN Kids(j), i <= done[j],
           NEW c, c = Kids(j)[i]
    PROVE  /\ j \in Begun /\ Ancestors[c] = Ancestors[j] \cup {j}
           /\ Cardinality(Ancestors[j]) \in Nat /\ Cardinality(Ancestors[c]) \in Nat
           /\ Cardinality(Ancestors[j]) < Cardinality(Ancestors[c])
<1>0. ProgramTyped /\ Progress /\ AboveBegun
  BY DEF ProgramInv, TreeInv
<1>1. j \in Begun
  <2>1. done[j] > 0
    <3>1. PICK m \in Nat, l \in Nat : m = done[j] /\ DOMAIN Kids(j) = 1 .. l
      BY <1>0, KidsAre
    <3>2. QED  BY <3>1
  <2>2. QED  BY <1>0, <2>1 DEF Progress, Begun
<1>2. Ancestors[c] = Ancestors[j] \cup {j}
  BY <1>0, AncestorsAre
<1>3. IsFiniteSet(Ancestors[j]) /\ j \notin Ancestors[j]
  <2>1. IsFiniteSet(Tasks)
    <3>1. 0 \in Int /\ N \in Int
      BY ObjectsAre
    <3>2. QED  BY <3>1, FS_Interval DEF Tasks
  <2>2. Ancestors[j] \in SUBSET Tasks /\ j \notin Ancestors[j]
    BY <1>0, <1>1 DEF AboveBegun, Begun
  <2>3. QED  BY <2>1, <2>2, FS_Subset
<1>4. PICK S : S = Ancestors[j]
  OBVIOUS
<1>5. Cardinality(S \cup {j}) = Cardinality(S) + 1 /\ Cardinality(S) \in Nat
  BY <1>3, <1>4, FS_AddElement, FS_CardinalityType
<1>6. QED  BY <1>1, <1>2, <1>4, <1>5

\* So when a loop is left, all that was launched below its task, or by its root task, has ended.
LEMMA JoinIsComplete ==
    ASSUME ProgramInv, TreeInv, NEW w \in Objects, Awaited(w), ref_count[w] = 1,
           NEW k \in Tasks, NEW s \in Tasks,
           \/ w = k /\ s = k /\ Joins(k)
           \/ w = Aux(s) /\ s \in 1 .. N /\ Style(k) = "root" /\ HasLaunched(k, s),
           NEW x \in Tasks, IsLaunched(x), x # k, s \in Ancestors[x] \cup {x}
    PROVE  x \in ended
<1>0. /\ ProgramTyped /\ Progress /\ AboveBegun
  BY DEF ProgramInv, TreeInv
<1> DEFINE Inside(c) == c \in Tasks /\ IsLaunched(c) /\ c # k /\ s \in Ancestors[c] \cup {c}
           A == {c \in Tasks : Inside(c) /\ Active(c)}
           Depths == {Cardinality(Ancestors[c]) : c \in A}
<1>1. Kin(w) = {}
  BY NoKin
<1>2. SUFFICES ASSUME x \notin ended
               PROVE  FALSE
  OBVIOUS
<1>3. x \in A
  BY <1>2 DEF Active, Untold
<1>4. Depths \in SUBSET Nat /\ Depths # {}
  <2>1. ASSUME NEW c \in A
        PROVE  Cardinality(Ancestors[c]) \in Nat
    <3>1. IsLaunched(c)
      BY <2>1
    <3>2. PICK j \in Tasks : \E i \in DOMAIN Kids(j) : i <= done[j] /\ Kids(j)[i] = c
      BY <3>1 DEF IsLaunched, HasLaunched
    <3>3. QED  BY <3>2, OneMoreAncestor
  <2>2. QED  BY <1>3, <2>1
<1>5. PICK c \in A : \A d \in A : Cardinality(Ancestors[c]) <= Cardinality(Ancestors[d])
  <2> HIDE DEF A
  <2>1. PICK n \in Depths : \A m \in Depths : n <= m
    <3> HIDE DEF Depths
    <3>1. QED  BY <1>4, LeastIs
  <2>2. QED  BY <2>1
<1>6. Inside(c) /\ Active(c)
  BY <1>5
<1>7. PICK j \in Tasks : \E i \in DOMAIN Kids(j) : i <= done[j] /\ Kids(j)[i] = c
  BY <1>6 DEF IsLaunched, HasLaunched
<1>8. PICK i \in DOMAIN Kids(j) : i <= done[j] /\ Kids(j)[i] = c
  BY <1>7
<1>9. /\ j \in Begun /\ Ancestors[c] = Ancestors[j] \cup {j} /\ Creator(c) = j /\ c \in 1 .. N
      /\ Cardinality(Ancestors[j]) \in Nat /\ Cardinality(Ancestors[c]) \in Nat
      /\ Cardinality(Ancestors[j]) < Cardinality(Ancestors[c])
  BY <1>0, <1>8, OneMoreAncestor, CreatorIs
<1>10. Kin(Orig(c)) # {} /\ Orig(c) # w
  <2>1. Kin(Orig(c)) # {}
    BY <1>0, <1>6, LaunchedAttached, ActiveIsAwaited
  <2>2. QED  BY <1>1, <2>1
<1>11. CASE s = c
  <2>1. w = Aux(c) /\ Style(k) = "root" /\ HasLaunched(k, c)
    BY <1>6, <1>11
  <2>2. j = k
    BY <1>0, <1>8, <2>1, KidsAre DEF HasLaunched
  <2>3. Orig(c) = w
    BY <1>9, <2>1, <2>2 DEF Orig, Joins
  <2>4. QED  BY <1>10, <2>3
<1>12. CASE s # c /\ j = k
  <2>1. CASE w = k /\ Joins(k)
    BY <1>9, <1>10, <1>12, <2>1 DEF Orig
  <2>2. CASE w = Aux(s) /\ Style(k) = "root" /\ HasLaunched(k, s)
    <3>1. PICK l \in DOMAIN Kids(k) : l <= done[k] /\ Kids(k)[l] = s
      BY <2>2 DEF HasLaunched
    <3>2. Ancestors[s] = Ancestors[k] \cup {k}
      BY <1>0, <3>1, AncestorsAre
    <3>3. s \in Ancestors[s]
      BY <1>6, <1>9, <1>12, <3>2
    <3>4. s \in Begun
      BY <2>2 DEF Begun, IsLaunched
    <3>5. QED  BY <1>0, <3>3, <3>4 DEF AboveBegun
  <2>3. QED  BY <2>1, <2>2
<1>13. CASE s # c /\ j # k
  <2>1. s \in Ancestors[j] \cup {j}
    BY <1>6, <1>9, <1>13
  <2>2. j # MainTask
    <3>1. SUFFICES ASSUME j = MainTask
                   PROVE  FALSE
      OBVIOUS
    <3>2. s = MainTask
      BY <1>0, <2>1, <3>1, AncestorsAre
    <3>3. QED  BY <1>13, <3>1, <3>2, ObjectsAre
  <2>3. IsLaunched(j)
    BY <1>9, <2>2 DEF Begun
  <2>4. Inside(j)
    BY <1>13, <2>1, <2>3
  <2>5. ~Active(j)
    <3>1. j \notin A
      BY <1>5, <1>9
    <3>2. QED  BY <2>4, <3>1
  <2>6. j \in ended
    BY <2>5 DEF Active, Untold
  <2>7. QED  BY <1>8, <1>10, <2>5, <2>6, EndedHasNoKin
<1>14. QED  BY <1>11, <1>12, <1>13

(******************************************************************************)
(* A thread's loops as the stack of TaskRuntime                               *)
(******************************************************************************)

\* A sequence with one element more.
LEMMA LongerBy ==
    ASSUME NEW S, NEW a \in Seq(S), NEW b \in Seq(S), Len(b) = Len(a) + 1,
           \A i \in 1 .. Len(a) : b[i] = a[i]
    PROVE  b = Append(a, b[Len(b)]) /\ b # <<>>
<1>1. PICK n \in Nat : n = Len(a) /\ Len(b) = n + 1
  BY LenProperties
<1>2. PICK x \in S : x = b[n + 1]
  <2>1. n + 1 \in 1 .. Len(b)
    BY <1>1
  <2>2. QED  BY <2>1, ElementOfSeq
<1>3. PICK c \in Seq(S) : c = Append(a, x)
  BY AppendProperties
<1>4. /\ Len(c) = n + 1 /\ c[n + 1] = x /\ \A i \in 1 .. n : c[i] = a[i]
  BY <1>1, <1>3, AppendProperties
<1>5. \A i \in 1 .. n + 1 : b[i] = c[i]
  BY <1>1, <1>2, <1>4
<1>6. b = c
  BY <1>1, <1>4, <1>5, SeqEqual
<1>7. b # <<>>
  BY <1>1, EmptySeq
<1>8. QED  BY <1>1, <1>2, <1>3, <1>6, <1>7

\* All but the last element.
LEMMA FrontOf ==
    ASSUME NEW S, NEW a \in Seq(S), a # <<>>
    PROVE  /\ Front(a) \in Seq(S) /\ Len(a) \in Nat \ {0} /\ Len(Front(a)) = Len(a) - 1
           /\ \A i \in 1 .. Len(a) - 1 : Front(a)[i] = a[i]
<1>1. PICK n \in Nat : Len(a) = n + 1
  <2>1. Len(a) \in Nat /\ Len(a) # 0
    BY EmptySeq
  <2>2. Len(a) - 1 \in Nat /\ Len(a) = Len(a) - 1 + 1
    BY <2>1
  <2>3. QED  BY <2>2
<1>2. PICK one \in Nat : one = 1
  OBVIOUS
<1>3. \A i \in one .. n : a[i] \in S
  <2>1. \A i \in one .. n : i \in 1 .. Len(a)
    BY <1>1, <1>2
  <2>2. QED  BY <2>1, ElementOfSeq
<1>4. /\ SubSeq(a, one, n) \in Seq(S)
      /\ Len(SubSeq(a, one, n)) = IF one <= n THEN n - one + 1 ELSE 0
      /\ \A i \in 1 .. n - one + 1 : SubSeq(a, one, n)[i] = a[one + i - 1]
  BY <1>3, SubSeqProperties
<1>5. Front(a) = SubSeq(a, one, n)
  <2>1. Len(a) - 1 = n
    BY <1>1
  <2>2. QED  BY <1>2, <2>1 DEF Front
<1>6. PICK f : f = SubSeq(a, one, n)
  OBVIOUS
<1>7. f \in Seq(S) /\ Len(f) = n /\ \A i \in 1 .. n : f[i] = a[i]
  BY <1>2, <1>4, <1>6
<1>8. QED  BY <1>1, <1>5, <1>6, <1>7

\* A sequence without its last element.
LEMMA ShorterBy ==
    ASSUME NEW S, NEW a \in Seq(S), NEW b \in Seq(S), Len(a) = Len(b) + 1,
           \A i \in 1 .. Len(b) : b[i] = a[i]
    PROVE  b = Front(a) /\ a # <<>>
<1>1. PICK n \in Nat : n = Len(b) /\ Len(a) = n + 1
  BY LenProperties
<1>2. a # <<>>
  BY <1>1, EmptySeq
<1>3. PICK f \in Seq(S) : f = Front(a) /\ Len(f) = n /\ \A i \in 1 .. n : f[i] = a[i]
  BY <1>1, <1>2, FrontOf
<1>4. b = f
  BY <1>1, <1>3, SeqEqual
<1>5. QED  BY <1>2, <1>3, <1>4

\* A sequence with another last element.
LEMMA TopOther ==
    ASSUME NEW S, NEW a \in Seq(S), NEW b \in Seq(S), a # <<>>, Len(b) = Len(a),
           \A i \in 1 .. Len(a) - 1 : b[i] = a[i]
    PROVE  b = Append(Front(a), b[Len(b)])
<1>1. PICK n \in Nat, f \in Seq(S) : /\ Len(a) = n + 1 /\ f = Front(a) /\ Len(f) = n
                                     /\ \A i \in 1 .. n : f[i] = a[i]
  <2>1. PICK f \in Seq(S) : /\ f = Front(a) /\ Len(f) = Len(a) - 1 /\ Len(a) \in Nat \ {0}
                            /\ \A i \in 1 .. Len(a) - 1 : f[i] = a[i]
    BY FrontOf
  <2>2. PICK n \in Nat : n = Len(a) - 1
    BY <2>1
  <2>3. Len(a) = n + 1
    BY <2>1, <2>2
  <2>4. QED  BY <2>1, <2>2, <2>3
<1>2. Len(b) = Len(f) + 1 /\ \A i \in 1 .. Len(f) : b[i] = f[i]
  BY <1>1
<1>3. b = Append(f, b[Len(b)])
  BY <1>2, LongerBy
<1>4. QED  BY <1>1, <1>3

StackLevel == [task : Tasks, blocked : BOOLEAN, scope : Tasks]

ScopeOf(p) == IF p \in Tasks THEN p ELSE p - N

Height(levels) ==
    IF levels = <<>> THEN 0
    ELSE Len(levels) - IF Last(levels).task \in Tasks THEN 0 ELSE 1

Seen(levels, i) ==
    [ task |-> levels[i].task,
      blocked |-> i < Len(levels),
      scope |-> IF i < Len(levels) THEN ScopeOf(levels[i + 1].waits) ELSE levels[i].task ]

View(levels) == [i \in 1 .. Height(levels) |-> Seen(levels, i)]

Jointed(levels) ==
    \A i \in DOMAIN levels : i + 1 \in DOMAIN levels =>
        levels[i].task \in Tasks /\ ScopeOf(levels[i + 1].waits) \in Tasks

\* The stack of a thread is a view of its loops alone.
LEMMA StackIsView ==
    /\ \A t : RuntimeStack(t) = View(loops[t])
    /\ \A t : RuntimeStack(t)' = View(loops'[t])
<1>1. ASSUME NEW t
      PROVE  RuntimeStack(t) = View(loops[t])
  BY <1>1 DEF RuntimeStack, View, Seen, Height, ScopeOf
<1>2. ASSUME NEW t
      PROVE  RuntimeStack(t)' = View(loops'[t])
  BY <1>2 DEF RuntimeStack, View, Seen, Height, ScopeOf
<1>3. QED  BY <1>1, <1>2

\* Levels of TaskRuntime.
LEMMA LevelsTyped ==
    ASSUME NEW k \in Tasks, NEW s \in Tasks
    PROVE  Runtime!Level(k, TRUE, s) \in StackLevel /\ Runtime!Running(k) \in StackLevel
BY DEF Runtime!Running, Runtime!Level, StackLevel

\* The loops of n + 1 levels.
Shows(v, levels, n, h) ==
    /\ v \in Seq(StackLevel) /\ Len(v) = h
    /\ \A i \in 1 .. n : v[i] = Runtime!Level(levels[i].task, TRUE, ScopeOf(levels[i + 1].waits))
    /\ h = n + 1 => v[n + 1] = Runtime!Running(levels[n + 1].task)

\* The view of n + 1 loops.
LEMMA ViewIs ==
    ASSUME NEW levels \in Seq(Level), Jointed(levels), NEW n \in Nat, Len(levels) = n + 1,
           NEW h, h = IF levels[n + 1].task \in Tasks THEN n + 1 ELSE n
    PROVE  Shows(View(levels), levels, n, h)
<1>1. DOMAIN levels = 1 .. n + 1 /\ levels # <<>> /\ h \in Nat
  BY LenProperties, EmptySeq
<1>2. Height(levels) = h
  <2>1. Last(levels) = levels[n + 1]
    BY DEF Last
  <2>2. QED  BY <1>1, <2>1 DEF Height
<1>3. \A i \in 1 .. n : levels[i].task \in Tasks /\ ScopeOf(levels[i + 1].waits) \in Tasks
  <2>1. \A i \in 1 .. n : i \in 1 .. n + 1 /\ i + 1 \in 1 .. n + 1
    OBVIOUS
  <2>2. QED  BY <1>1, <2>1 DEF Jointed
<1>4. \A i \in 1 .. n :
         Seen(levels, i) = Runtime!Level(levels[i].task, TRUE, ScopeOf(levels[i + 1].waits))
  <2>1. \A i \in 1 .. n : i < Len(levels)
    OBVIOUS
  <2>2. QED  BY <2>1 DEF Seen, Runtime!Level
<1>5. Seen(levels, n + 1) = Runtime!Running(levels[n + 1].task)
  <2>1. ~(n + 1 < Len(levels))
    OBVIOUS
  <2>2. PICK k, m : k = levels[n + 1].task /\ m = n + 1 /\ ~(m < Len(levels))
    BY <2>1
  <2>3. Seen(levels, m) = [task |-> k, blocked |-> m < Len(levels), scope |-> k]
    BY <2>2 DEF Seen
  <2>4. (m < Len(levels)) = FALSE
    BY <2>2
  <2>5. Seen(levels, m) = [task |-> k, blocked |-> FALSE, scope |-> k]
    BY <2>3, <2>4, Zenon
  <2>6. QED  BY <2>2, <2>5, Zenon DEF Runtime!Running, Runtime!Level
<1>6. \A i \in 1 .. h : Seen(levels, i) \in StackLevel
  <2>1. SUFFICES ASSUME NEW i \in 1 .. h
                 PROVE  Seen(levels, i) \in StackLevel
    OBVIOUS
  <2>2. CASE i \in 1 .. n
    BY <1>3, <1>4, <2>2, LevelsTyped
  <2>3. CASE i \notin 1 .. n
    <3>1. i = n + 1 /\ levels[n + 1].task \in Tasks
      BY <2>1, <2>3
    <3>2. QED  BY <1>5, <3>1, LevelsTyped
  <2>4. QED  BY <2>2, <2>3
<1>7. PICK v : v = [i \in 1 .. h |-> Seen(levels, i)]
  OBVIOUS
<1>8. v = View(levels)
  BY <1>2, <1>7 DEF View
<1>9. v \in Seq(StackLevel) /\ Len(v) = h
  BY <1>1, <1>6, <1>7
<1>10. \A i \in 1 .. h : v[i] = Seen(levels, i)
  BY <1>7
<1>11. (\A i \in 1 .. n : i \in 1 .. h) /\ (h = n + 1 => n + 1 \in 1 .. h)
  OBVIOUS
<1>12. \A i \in 1 .. n :
          v[i] = Runtime!Level(levels[i].task, TRUE, ScopeOf(levels[i + 1].waits))
  BY <1>4, <1>10, <1>11
<1>13. h = n + 1 => v[n + 1] = Runtime!Running(levels[n + 1].task)
  BY <1>5, <1>10, <1>11
<1>14. QED  BY <1>8, <1>9, <1>12, <1>13 DEF Shows

\* And of none.
LEMMA ViewOfNone == View(<<>>) = <<>>
  BY DEF View, Height

\* A thread that executes a task is not in a join.
LEMMA TopRuns ==
    ASSUME NEW a \in Seq(Level), Jointed(a), a # <<>>, NEW k \in Tasks, Last(a).task = k
    PROVE  View(a) # <<>> /\ Last(View(a)) = Runtime!Running(k)
<1>1. PICK n \in Nat : Len(a) = n + 1 /\ a[n + 1].task = k
  BY FrontIs DEF Last
<1>2. PICK h : h = n + 1
  OBVIOUS
<1>3. h = IF a[n + 1].task \in Tasks THEN n + 1 ELSE n
  BY <1>1, <1>2
<1>4. /\ View(a) \in Seq(StackLevel) /\ Len(View(a)) = h
      /\ h = n + 1 => View(a)[n + 1] = Runtime!Running(k)
  <2>1. Shows(View(a), a, n, h)
    BY <1>1, <1>3, ViewIs
  <2>2. QED  BY <1>1, <1>3, <2>1 DEF Shows
<1>5. PICK v \in Seq(StackLevel) : v = View(a) /\ Len(v) = n + 1 /\ v[n + 1] = Runtime!Running(k)
  BY <1>2, <1>4
<1>6. v # <<>> /\ Last(v) = Runtime!Running(k)
  BY <1>5, EmptySeq DEF Last
<1>7. QED  BY <1>5, <1>6

\* One that looks for a task has none, or is in a join.
LEMMA TopWaits ==
    ASSUME NEW a \in Seq(Level), Jointed(a), NEW n \in Nat, Len(a) = n + 1, a[n + 1].task \notin Tasks
    PROVE  /\ n = 0 => View(a) = <<>>
           /\ n > 0 => /\ View(a) # <<>>
                       /\ Last(View(a)) = Runtime!Level(a[n].task, TRUE, ScopeOf(a[n + 1].waits))
<1>1. /\ View(a) \in Seq(StackLevel) /\ Len(View(a)) = n
      /\ \A i \in 1 .. n :
            View(a)[i] = Runtime!Level(a[i].task, TRUE, ScopeOf(a[i + 1].waits))
  <2>1. Shows(View(a), a, n, n)
    BY ViewIs
  <2>2. QED  BY <2>1 DEF Shows
<1>2. n = 0 => View(a) = <<>>
  BY <1>1, EmptySeq
<1>3. n > 0 => /\ View(a) # <<>>
               /\ Last(View(a)) = Runtime!Level(a[n].task, TRUE, ScopeOf(a[n + 1].waits))
  <2>1. SUFFICES ASSUME n > 0
                 PROVE  /\ View(a) # <<>>
                        /\ Last(View(a)) = Runtime!Level(a[n].task, TRUE, ScopeOf(a[n + 1].waits))
    OBVIOUS
  <2>2. PICK v \in Seq(StackLevel) : v = View(a) /\ Len(v) = n
    BY <1>1
  <2>3. PICK x : x = v[n]
    OBVIOUS
  <2>4. x = Runtime!Level(a[n].task, TRUE, ScopeOf(a[n + 1].waits))
    <3>1. n \in 1 .. n
      BY <2>1
    <3>2. QED  BY <1>1, <2>2, <2>3, <3>1
  <2>5. v # <<>> /\ Last(v) = x
    BY <2>1, <2>2, <2>3, EmptySeq DEF Last
  <2>6. QED  BY <2>2, <2>4, <2>5
<1>4. QED  BY <1>2, <1>3

\* The levels below the n-th.
SameBelow(a, b, n) == \A i \in 1 .. n : b[i] = a[i]

Pushing(a, b, n, k, l, c) ==
    /\ a \in Seq(Level) /\ Jointed(a) /\ Len(a) = n + 1
    /\ b \in Seq(Level) /\ Jointed(b) /\ Len(b) = n + 2
    /\ SameBelow(a, b, n + 1)
    /\ a[n + 1].task = k
    /\ l = Runtime!Level(k, TRUE, ScopeOf(b[n + 2].waits))
    /\ c = b[n + 2].task

PushedView(v, w, l, c) ==
    /\ c \notin Tasks => w = Append(Front(v), l)
    /\ c \in Tasks => w = Append(Append(Front(v), l), Runtime!Running(c))

\* The task enters a loop, in which task c comes first, if there is one.
LEMMA ViewPushed ==
    ASSUME NEW a, NEW b, NEW n \in Nat, NEW k \in Tasks, NEW l, NEW c, Pushing(a, b, n, k, l, c)
    PROVE  PushedView(View(a), View(b), l, c)
<1> SUFFICES ASSUME a \in Seq(Level), Jointed(a), b \in Seq(Level), Jointed(b),
                    Len(a) = n + 1, Len(b) = n + 2, SameBelow(a, b, n + 1), a[n + 1].task = k,
                    l = Runtime!Level(k, TRUE, ScopeOf(b[n + 2].waits)),
                    c = b[n + 2].task
             PROVE  /\ c \notin Tasks => View(b) = Append(Front(View(a)), l)
                    /\ c \in Tasks =>
                          View(b) = Append(Append(Front(View(a)), l), Runtime!Running(c))
  BY DEF Pushing, PushedView
<1>1. PICK m \in Nat : m = n + 1 /\ Len(b) = m + 1
  OBVIOUS
<1>2. PICK h : h = IF b[m + 1].task \in Tasks THEN m + 1 ELSE m
  OBVIOUS
<1>3. PICK g : g = n + 1 /\ g = IF a[n + 1].task \in Tasks THEN n + 1 ELSE n
  OBVIOUS
<1>4. /\ View(a) \in Seq(StackLevel) /\ Len(View(a)) = m
      /\ \A i \in 1 .. n :
            View(a)[i] = Runtime!Level(a[i].task, TRUE, ScopeOf(a[i + 1].waits))
  <2>1. Shows(View(a), a, n, g)
    BY <1>1, <1>3, ViewIs
  <2>2. QED  BY <1>1, <1>3, <2>1 DEF Shows
<1>5. /\ View(b) \in Seq(StackLevel) /\ Len(View(b)) = h
      /\ \A i \in 1 .. m :
            View(b)[i] = Runtime!Level(b[i].task, TRUE, ScopeOf(b[i + 1].waits))
      /\ h = m + 1 => View(b)[m + 1] = Runtime!Running(b[m + 1].task)
  <2>1. Shows(View(b), b, m, h)
    BY <1>1, <1>2, ViewIs
  <2>2. QED  BY <1>1, <1>2, <2>1 DEF Shows
<1>6. PICK v \in Seq(StackLevel), u \in Seq(StackLevel) : v = View(a) /\ u = View(b)
  BY <1>4, <1>5
<1>7. ASSUME NEW i \in 1 .. n
      PROVE  u[i] = v[i]
  <2>1. i \in 1 .. n + 1 /\ i + 1 \in 1 .. n + 1 /\ i \in 1 .. m
    BY <1>1
  <2>2. b[i] = a[i] /\ b[i + 1] = a[i + 1]
    BY <2>1 DEF SameBelow
  <2>3. QED  BY <1>4, <1>5, <1>6, <2>1, <2>2
<1>8. u[m] = l
  <2>1. m \in 1 .. m /\ m + 1 = n + 2 /\ n + 1 \in 1 .. n + 1
    BY <1>1
  <2>2. b[m].task = k
    BY <1>1, <2>1 DEF SameBelow
  <2>3. u[m] = Runtime!Level(b[m].task, TRUE, ScopeOf(b[m + 1].waits))
    BY <1>5, <1>6, <2>1
  <2>4. QED  BY <2>1, <2>2, <2>3
<1>9. v # <<>> /\ Len(v) - 1 = n
  BY <1>1, <1>4, <1>6, EmptySeq
<1>10. ASSUME c \notin Tasks
       PROVE  u = Append(Front(v), l)
  <2>1. Len(u) = m
    BY <1>1, <1>2, <1>5, <1>6, <1>10
  <2>2. Len(u) = Len(v) /\ \A i \in 1 .. Len(v) - 1 : u[i] = v[i]
    BY <1>4, <1>6, <1>7, <1>9, <2>1
  <2>3. u = Append(Front(v), u[Len(u)])
    BY <1>9, <2>2, TopOther
  <2>4. QED  BY <1>8, <2>1, <2>3
<1>11. ASSUME c \in Tasks
       PROVE  u = Append(Append(Front(v), l), Runtime!Running(c))
  <2>1. Len(u) = m + 1 /\ u[m + 1] = Runtime!Running(c)
    BY <1>1, <1>2, <1>5, <1>6, <1>11
  <2>2. u # <<>>
    BY <2>1, EmptySeq
  <2>3. PICK f \in Seq(StackLevel) : f = Front(u) /\ Len(f) = m /\ \A i \in 1 .. m : f[i] = u[i]
    <3>1. PICK f \in Seq(StackLevel) : /\ f = Front(u) /\ Len(f) = Len(u) - 1
                                       /\ \A i \in 1 .. Len(u) - 1 : f[i] = u[i]
      BY <2>2, FrontOf
    <3>2. Len(u) - 1 = m
      BY <2>1
    <3>3. QED  BY <3>1, <3>2
  <2>4. Len(f) = Len(v) /\ \A i \in 1 .. Len(v) - 1 : f[i] = v[i]
    BY <1>1, <1>4, <1>6, <1>7, <1>9, <2>3
  <2>5. f = Append(Front(v), f[Len(f)])
    BY <1>9, <2>4, TopOther
  <2>6. f = Append(Front(v), l)
    <3>1. m \in 1 .. m
      BY <1>1
    <3>2. f[Len(f)] = l
      BY <1>8, <2>3, <3>1
    <3>3. QED  BY <2>5, <3>2
  <2>7. Len(u) = Len(f) + 1 /\ \A i \in 1 .. Len(f) : u[i] = f[i]
    BY <2>1, <2>3
  <2>8. u = Append(f, u[Len(u)])
    BY <2>7, LongerBy
  <2>9. QED  BY <2>1, <2>6, <2>8
<1>12. QED  BY <1>6, <1>10, <1>11

Setting(a, b, n, j, k) ==
    /\ a \in Seq(Level) /\ Jointed(a) /\ Len(a) = n + 1
    /\ b \in Seq(Level) /\ Jointed(b) /\ Len(b) = n + 1
    /\ SameBelow(a, b, n) /\ b[n + 1].waits = a[n + 1].waits
    /\ j = a[n + 1].task /\ k = b[n + 1].task

SetView(v, w, j, k) ==
    /\ j \notin Tasks /\ k \in Tasks => w = Append(v, Runtime!Running(k))
    /\ j \in Tasks /\ k \notin Tasks => w = Front(v)
    /\ j \notin Tasks /\ k \notin Tasks => w = v

\* The innermost loop sets its task.
LEMMA ViewSet ==
    ASSUME NEW a, NEW b, NEW n \in Nat, NEW j, NEW k, Setting(a, b, n, j, k)
    PROVE  SetView(View(a), View(b), j, k)
<1> SUFFICES ASSUME a \in Seq(Level), Jointed(a), b \in Seq(Level), Jointed(b),
                    Len(a) = n + 1, Len(b) = n + 1, SameBelow(a, b, n),
                    b[n + 1].waits = a[n + 1].waits, j = a[n + 1].task, k = b[n + 1].task
             PROVE  /\ j \notin Tasks /\ k \in Tasks => View(b) = Append(View(a), Runtime!Running(k))
                    /\ j \in Tasks /\ k \notin Tasks => View(b) = Front(View(a))
                    /\ j \notin Tasks /\ k \notin Tasks => View(b) = View(a)
  BY DEF Setting, SetView
<1>1. PICK g, h : /\ g = IF a[n + 1].task \in Tasks THEN n + 1 ELSE n
                  /\ h = IF b[n + 1].task \in Tasks THEN n + 1 ELSE n
  OBVIOUS
<1>2. /\ View(a) \in Seq(StackLevel) /\ Len(View(a)) = g
      /\ \A i \in 1 .. n :
            View(a)[i] = Runtime!Level(a[i].task, TRUE, ScopeOf(a[i + 1].waits))
  <2>1. Shows(View(a), a, n, g)
    BY <1>1, ViewIs
  <2>2. QED  BY <1>1, <2>1 DEF Shows
<1>3. /\ View(b) \in Seq(StackLevel) /\ Len(View(b)) = h
      /\ \A i \in 1 .. n :
            View(b)[i] = Runtime!Level(b[i].task, TRUE, ScopeOf(b[i + 1].waits))
      /\ h = n + 1 => View(b)[n + 1] = Runtime!Running(b[n + 1].task)
  <2>1. Shows(View(b), b, n, h)
    BY <1>1, ViewIs
  <2>2. QED  BY <1>1, <2>1 DEF Shows
<1>4. PICK v \in Seq(StackLevel), u \in Seq(StackLevel) : v = View(a) /\ u = View(b)
  BY <1>2, <1>3
<1>5. ASSUME NEW i \in 1 .. n
      PROVE  u[i] = v[i]
  <2>1. b[i] = a[i] /\ b[i + 1].waits = a[i + 1].waits
    <3>1. b[i] = a[i]
      BY DEF SameBelow
    <3>2. CASE i = n
      BY <3>1, <3>2
    <3>3. CASE i # n
      <4>1. PICK m \in 1 .. n : m = i + 1
        BY <3>3
      <4>2. b[m] = a[m]
        BY DEF SameBelow
      <4>3. QED  BY <3>1, <4>1, <4>2
    <3>4. QED  BY <3>2, <3>3
  <2>2. QED  BY <1>2, <1>3, <1>4, <2>1
<1>6. ASSUME j \notin Tasks, k \in Tasks
      PROVE  u = Append(v, Runtime!Running(k))
  <2>1. Len(v) = n /\ Len(u) = n + 1 /\ u[n + 1] = Runtime!Running(k)
    BY <1>1, <1>2, <1>3, <1>4, <1>6
  <2>2. Len(u) = Len(v) + 1 /\ \A i \in 1 .. Len(v) : u[i] = v[i]
    BY <1>5, <2>1
  <2>3. u = Append(v, u[Len(u)])
    BY <2>2, LongerBy
  <2>4. QED  BY <2>1, <2>3
<1>7. ASSUME j \in Tasks, k \notin Tasks
      PROVE  u = Front(v)
  <2>1. Len(v) = n + 1 /\ Len(u) = n
    BY <1>1, <1>2, <1>3, <1>4, <1>7
  <2>2. Len(v) = Len(u) + 1 /\ \A i \in 1 .. Len(u) : u[i] = v[i]
    BY <1>5, <2>1
  <2>3. QED  BY <2>2, ShorterBy
<1>8. ASSUME j \notin Tasks, k \notin Tasks
      PROVE  u = v
  <2>1. Len(v) = n /\ Len(u) = n
    BY <1>1, <1>2, <1>3, <1>4, <1>8
  <2>2. Len(u) = Len(v) /\ \A i \in 1 .. Len(u) : u[i] = v[i]
    BY <1>5, <2>1
  <2>3. QED  BY <2>2, SeqEqual
<1>9. QED  BY <1>4, <1>6, <1>7, <1>8

Popping(a, b, n, k) ==
    /\ a \in Seq(Level) /\ Jointed(a) /\ Len(a) = n + 2
    /\ b \in Seq(Level) /\ Jointed(b) /\ Len(b) = n + 1
    /\ SameBelow(a, b, n + 1)
    /\ a[n + 2].task \notin Tasks /\ a[n + 1].task = k

\* The loop is left.
LEMMA ViewPopped ==
    ASSUME NEW a, NEW b, NEW n \in Nat, NEW k \in Tasks, Popping(a, b, n, k)
    PROVE  View(b) = Append(Front(View(a)), Runtime!Running(k))
<1> SUFFICES ASSUME a \in Seq(Level), Jointed(a), b \in Seq(Level), Jointed(b),
                    Len(a) = n + 2, Len(b) = n + 1, SameBelow(a, b, n + 1),
                    a[n + 2].task \notin Tasks, a[n + 1].task = k
             PROVE  View(b) = Append(Front(View(a)), Runtime!Running(k))
  BY DEF Popping
<1>1. PICK m \in Nat : m = n + 1 /\ Len(a) = m + 1
  OBVIOUS
<1>2. b[n + 1].task = k
  <2>1. n + 1 \in 1 .. n + 1
    OBVIOUS
  <2>2. QED  BY <2>1 DEF SameBelow
<1>3. PICK g, h : /\ g = m /\ g = IF a[m + 1].task \in Tasks THEN m + 1 ELSE m
                  /\ h = m /\ h = IF b[n + 1].task \in Tasks THEN n + 1 ELSE n
  <2>1. m + 1 = n + 2
    BY <1>1
  <2>2. QED  BY <1>1, <1>2, <2>1
<1>4. /\ View(a) \in Seq(StackLevel) /\ Len(View(a)) = g
      /\ \A i \in 1 .. m :
            View(a)[i] = Runtime!Level(a[i].task, TRUE, ScopeOf(a[i + 1].waits))
  <2>1. Shows(View(a), a, m, g)
    BY <1>1, <1>3, ViewIs
  <2>2. QED  BY <1>1, <1>3, <2>1 DEF Shows
<1>5. /\ View(b) \in Seq(StackLevel) /\ Len(View(b)) = h
      /\ \A i \in 1 .. n :
            View(b)[i] = Runtime!Level(b[i].task, TRUE, ScopeOf(b[i + 1].waits))
      /\ h = n + 1 => View(b)[n + 1] = Runtime!Running(b[n + 1].task)
  <2>1. Shows(View(b), b, n, h)
    BY <1>3, ViewIs
  <2>2. QED  BY <1>3, <2>1 DEF Shows
<1>6. PICK v \in Seq(StackLevel), u \in Seq(StackLevel) : v = View(a) /\ u = View(b)
  BY <1>4, <1>5
<1>7. ASSUME NEW i \in 1 .. n
      PROVE  u[i] = v[i]
  <2>1. i \in 1 .. n + 1 /\ i + 1 \in 1 .. n + 1 /\ i \in 1 .. m
    BY <1>1
  <2>2. b[i] = a[i] /\ b[i + 1] = a[i + 1]
    BY <2>1 DEF SameBelow
  <2>3. QED  BY <1>4, <1>5, <1>6, <2>1, <2>2
<1>8. Len(u) = m /\ Len(v) = m /\ u[m] = Runtime!Running(k)
  BY <1>1, <1>2, <1>3, <1>4, <1>5, <1>6
<1>9. v # <<>> /\ Len(v) - 1 = n
  BY <1>1, <1>8, EmptySeq
<1>10. Len(u) = Len(v) /\ \A i \in 1 .. Len(v) - 1 : u[i] = v[i]
  BY <1>7, <1>8, <1>9
<1>11. u = Append(Front(v), u[Len(u)])
  BY <1>9, <1>10, TopOther
<1>12. QED  BY <1>6, <1>8, <1>11

(******************************************************************************)
(* Each step is a step of TaskRuntime, or none                                *)
(******************************************************************************)

Stacks == [t \in Threads |-> RuntimeStack(t)]

Above == [c \in Tasks |-> IF c # MainTask /\ IsLaunched(c) THEN Ancestors[c] ELSE {}]

\* The scope of a join: a task, or the root task of a dummy.
LEMMA ScopesAre ==
    /\ \A k \in Tasks : ScopeOf(k) = k
    /\ \A c \in 1 .. N : ScopeOf(Aux(c)) = c /\ c \in Tasks
<1>1. SUFFICES ASSUME NEW c \in 1 .. N
               PROVE  ScopeOf(Aux(c)) = c
  BY ObjectsAre DEF ScopeOf
<1>2. Aux(c) \notin Tasks /\ N \in Nat
  BY ObjectsAre
<1>3. Aux(c) - N = c
  BY <1>2 DEF Aux
<1>4. QED  BY <1>2, <1>3 DEF ScopeOf

\* The loops of a thread are nested by their joins.
LEMMA JointedLoops ==
    ASSUME LoopsTyped, Joints, NEW t \in Threads
    PROVE  loops[t] \in Seq(Level) /\ Jointed(loops[t])
<1>1. ASSUME NEW i \in DOMAIN loops[t], i + 1 \in DOMAIN loops[t]
      PROVE  loops[t][i].task \in Tasks /\ ScopeOf(loops[t][i + 1].waits) \in Tasks
  <2>1. Joint(t, i)
    BY <1>1 DEF Joints
  <2>2. QED  BY <2>1, ScopesAre DEF Joint
<1>2. QED  BY <1>1 DEF Jointed, LoopsTyped

\* The same after a step.
LEMMA JointedNext ==
    ASSUME LoopsTyped', Joints', NEW t \in Threads
    PROVE  loops'[t] \in Seq(Level) /\ Jointed(loops'[t])
<1>1. ASSUME NEW i \in DOMAIN loops'[t], i + 1 \in DOMAIN loops'[t]
      PROVE  loops'[t][i].task \in Tasks /\ ScopeOf(loops'[t][i + 1].waits) \in Tasks
  <2>1. Joint(t, i)'
    BY <1>1 DEF Joints
  <2>2. QED  BY <2>1, ScopesAre DEF Joint
<1>2. QED  BY <1>1 DEF Jointed, LoopsTyped

\* One stack changes with the loops of its thread.
LEMMA StackMoves ==
    ASSUME NEW t \in Threads, \A u \in Threads \ {t} : loops'[u] = loops[u]
    PROVE  /\ Stacks[t] = View(loops[t])
           /\ Stacks' = [Stacks EXCEPT ![t] = View(loops'[t])]
<1>1. /\ \A u : RuntimeStack(u) = View(loops[u])
      /\ \A u : RuntimeStack(u)' = View(loops'[u])
  BY StackIsView
<1>2. Stacks' = [u \in Threads |-> IF u = t THEN View(loops'[t]) ELSE View(loops[u])]
  BY <1>1 DEF Stacks
<1>3. Stacks = [u \in Threads |-> View(loops[u])]
  BY <1>1 DEF Stacks
<1>4. QED  BY <1>2, <1>3

\* The stacks change with the loops only.
LEMMA SameStacks ==
    ASSUME loops' = loops
    PROVE  Stacks' = Stacks
BY StackIsView DEF Stacks

\* What is above a task changes with what is launched only.
LEMMA SameAbove ==
    ASSUME Begun' = Begun, Ancestors' = Ancestors
    PROVE  Above' = Above
<1>1. \A c \in Tasks \ {MainTask} : IsLaunched(c)' <=> IsLaunched(c)
  BY DEF Begun
<1>2. QED  BY <1>1 DEF Above

\* The top of the stack of a thread that executes a task.
LEMMA StacksOf ==
    ASSUME ProgramInv, NEW t \in Threads, pc[t] = "run", NEW k \in Tasks, k = Inner(t).task
    PROVE  /\ Stacks[t] = View(loops[t]) /\ Stacks[t] # <<>>
           /\ Last(Stacks[t]) = Runtime!Running(k)
           /\ k = Last(Stacks[t]).task /\ ~Last(Stacks[t]).blocked
<1>0. LoopsTyped /\ PcLevels /\ Joints
  BY DEF ProgramInv
<1>1. loops[t] \in Seq(Level) /\ loops[t] # <<>> /\ Last(loops[t]).task = k
  BY <1>0 DEF LoopsTyped, PcLevels, Inner
<1>2. Jointed(loops[t])
  BY <1>0, JointedLoops
<1>3. PICK a \in Seq(Level) : a = loops[t] /\ Jointed(a) /\ a # <<>> /\ Last(a).task = k
  BY <1>1, <1>2
<1>4. View(a) # <<>> /\ Last(View(a)) = Runtime!Running(k)
  BY <1>3, TopRuns
<1>5. Stacks[t] = View(a)
  BY <1>3, StackIsView DEF Stacks
<1>6. Runtime!Running(k).task = k /\ ~Runtime!Running(k).blocked
  BY DEF Runtime!Running, Runtime!Level
<1>7. QED  BY <1>3, <1>4, <1>5, <1>6

\* The operators of SequencesExt are the same seen through TaskRuntime.
LEMMA SameEnds == \A s : Runtime!Last(s) = Last(s) /\ Runtime!Front(s) = Front(s)
  BY DEF Runtime!Last, Runtime!Front, Last, Front

\* A child that is not launched is not in any stack.
LEMMA UnlaunchedUnused ==
    ASSUME ProgramInv, NEW c \in Tasks, c # MainTask, Unlaunched(c)
    PROVE  /\ c \notin Waiting \cup ended
           /\ \A t \in Threads : \A i \in DOMAIN Stacks[t] : Stacks[t][i].task # c
<1>1. c \notin Waiting \cup ended
  BY DEF Unlaunched, Waiting
<1>2. ASSUME NEW t \in Threads, NEW i \in DOMAIN Stacks[t], Stacks[t][i].task = c
      PROVE  FALSE
  <2>0. LoopsTyped
    BY DEF ProgramInv
  <2>1. Stacks[t] = View(loops[t])
    BY StackIsView DEF Stacks
  <2>2. PICK a \in Seq(Level) : a = loops[t]
    BY <2>0 DEF LoopsTyped
  <2>3. i \in 1 .. Height(a) /\ Stacks[t][i] = Seen(a, i)
    BY <1>2, <2>1, <2>2 DEF View
  <2>4. i \in DOMAIN a
    <3>1. DOMAIN a = 1 .. Len(a) /\ Len(a) \in Nat
      BY LenProperties
    <3>2. a # <<>>
      BY <2>3 DEF Height
    <3>3. Height(a) \in Int /\ Height(a) <= Len(a)
      BY <3>1, <3>2 DEF Height
    <3>4. QED  BY <2>3, <3>1, <3>3
  <2>5. a[i].task = c
    BY <1>2, <2>3 DEF Seen
  <2>6. IsExecuting(c)
    BY <2>2, <2>4, <2>5 DEF IsExecuting
  <2>7. QED  BY <2>6 DEF Unlaunched
<1>3. QED  BY <1>1, <1>2

\* What a launch changes.
LEMMA LaunchSeen ==
    ASSUME ProgramInv, TreeInv, NEW k, NEW n, Launch(k, n)
    PROVE  /\ Above' = [c \in Tasks |-> IF c \in Fresh(k, n) THEN Above[k] \cup {k} ELSE Above[c]]
           /\ \A c \in Fresh(k, n) : c \in Tasks \ {MainTask} /\ Unlaunched(c)
           /\ \A c \in Tasks : c \notin Fresh(k, n) => (c \in Waiting' <=> c \in Waiting)
           /\ \A c \in Fresh(k, n) : c \in Waiting' <=> ~IsExecuting(c)'
           /\ k \in Tasks /\ ended' = ended
<1>0. /\ ProgramTyped /\ ExecutingIsCurrent /\ AboveBegun
      /\ k \in Tasks /\ n \in Nat /\ n > 0 /\ IsExecuting(k) /\ program' = program /\ ended' = ended
      /\ \A q : q \notin Fresh(k, n) /\ q # NoTask => (IsExecuting(q)' <=> IsExecuting(q))
  BY DEF ProgramInv, TreeInv, Launch
<1>1. /\ \A c : IsLaunched(c)' <=> IsLaunched(c) \/ c \in Fresh(k, n)
      /\ \A c \in Fresh(k, n) : Unlaunched(c) /\ c # k
  BY LaunchFacts
<1>2. Ancestors' = Ancestors
  BY <1>0, ProgramKeeps
<1>3. \A c \in Fresh(k, n) : c \in Tasks \ {MainTask} /\ Unlaunched(c)
  BY <1>1, ObjectsAre DEF Unlaunched
<1>4. Above[k] = Ancestors[k]
  <2>1. CASE k = MainTask
    BY <1>0, <2>1, AncestorsAre DEF Above
  <2>2. CASE k # MainTask
    BY <1>0, <2>2 DEF Above, ExecutingIsCurrent
  <2>3. QED  BY <2>1, <2>2
<1>5. ASSUME NEW c \in Fresh(k, n)
      PROVE  Ancestors[c] = Ancestors[k] \cup {k}
  <2>1. PICK i \in DOMAIN Kids(k) : Kids(k)[i] = c
    BY DEF Fresh
  <2>2. QED  BY <1>0, <2>1, AncestorsAre
<1>6. ASSUME NEW c \in Tasks
      PROVE  (IF c # MainTask /\ IsLaunched(c)' THEN Ancestors'[c] ELSE {})
             = IF c \in Fresh(k, n) THEN Above[k] \cup {k} ELSE Above[c]
  <2>1. CASE c \in Fresh(k, n)
    BY <1>1, <1>2, <1>3, <1>4, <1>5, <2>1
  <2>2. CASE c \notin Fresh(k, n)
    BY <1>1, <1>2, <2>2 DEF Above
  <2>3. QED  BY <2>1, <2>2
<1>7. Above' = [c \in Tasks |-> IF c \in Fresh(k, n) THEN Above[k] \cup {k} ELSE Above[c]]
  BY <1>6 DEF Above
<1>8. ASSUME NEW c \in Tasks, c \notin Fresh(k, n)
      PROVE  c \in Waiting' <=> c \in Waiting
  BY <1>0, <1>1, <1>8, ObjectsAre DEF Waiting
<1>9. ASSUME NEW c \in Fresh(k, n)
      PROVE  c \in Waiting' <=> ~IsExecuting(c)'
  <2>1. c \in Tasks /\ c \notin ended /\ IsLaunched(c)'
    BY <1>1, <1>3 DEF Unlaunched
  <2>2. QED  BY <1>0, <2>1 DEF Waiting
<1>10. QED  BY <1>0, <1>3, <1>7, <1>8, <1>9

\* local_spawn is a spawn of the children it hands over.
LEMMA SpawnSeen ==
    ASSUME ProgramInv, TreeInv, NEW t \in Threads, local_spawn(t)
    PROVE  \E K \in SUBSET Runtime!Unused : Runtime!Spawn(t, K)
<1>1. PICK k, n, K : k = Current(t) /\ n = Len(Spawns(k)) /\ K = Fresh(k, n)
  OBVIOUS
<1>2. /\ pc[t] = "run" /\ k \in Tasks /\ k = Inner(t).task /\ Launch(k, n) /\ K # {}
      /\ UNCHANGED <<ended, loops>>
  BY <1>1, SpawnIs DEF Current
<1>3. /\ Above' = [c \in Tasks |-> IF c \in K THEN Above[k] \cup {k} ELSE Above[c]]
      /\ \A c \in K : c \in Tasks \ {MainTask} /\ Unlaunched(c)
      /\ \A c \in Tasks : c \notin K => (c \in Waiting' <=> c \in Waiting)
      /\ \A c \in K : c \in Waiting' <=> ~IsExecuting(c)'
  BY <1>1, <1>2, LaunchSeen
<1>4. Waiting' = Waiting \cup K
  <2>1. \A c \in K : ~IsExecuting(c)'
    BY <1>2, <1>3 DEF Unlaunched, IsExecuting
  <2>2. Waiting \subseteq Tasks /\ Waiting' \subseteq Tasks
    BY DEF Waiting
  <2>3. QED  BY <1>3, <2>1, <2>2
<1>5. Stacks' = Stacks
  BY <1>2, SameStacks
<1>6. /\ Stacks[t] # <<>> /\ k = Last(Stacks[t]).task /\ ~Last(Stacks[t]).blocked
  BY <1>2, StacksOf
<1>7. K \in SUBSET Runtime!Unused
  <2>1. ASSUME NEW c \in K
        PROVE  /\ c \notin Waiting \cup ended
               /\ \A u \in Threads : \A i \in DOMAIN Stacks[u] : Stacks[u][i].task # c
    BY <1>3, UnlaunchedUnused
  <2>2. QED  BY <1>3, <2>1 DEF Runtime!Unused, Stacks
<1>8. Runtime!Spawn(t, K)
  <2>1. Runtime!Executes(t)
    BY <1>6, SameEnds DEF Runtime!Executes, Stacks
  <2>2. QED
    BY <1>2, <1>3, <1>4, <1>5, <1>6, <2>1, SameEnds DEF Runtime!Spawn, Runtime!Below, Stacks, Above
<1>9. QED  BY <1>7, <1>8

StackBecomes(t, v) == Stacks' = [Stacks EXCEPT ![t] = v]

\* A task enters a loop.
LEMMA PushSeen ==
    ASSUME ProgramInv, ProgramInv', NEW t \in Threads, NEW k \in Tasks, k = Inner(t).task,
           NEW w, NEW c, Pushed(t, Loop(w, c)), loops[t] # <<>>,
           NEW l, l = Runtime!Level(k, TRUE, ScopeOf(w))
    PROVE  \E v : PushedView(Stacks[t], v, l, c) /\ StackBecomes(t, v)
<1>0. LoopsTyped /\ Joints /\ LoopsTyped' /\ Joints'
  BY DEF ProgramInv
<1>1. PICK a \in Seq(Level), b \in Seq(Level) :
         a = loops[t] /\ b = loops'[t] /\ Jointed(a) /\ Jointed(b) /\ a # <<>>
  BY <1>0, JointedLoops, JointedNext
<1>2. PICK m \in Nat : /\ DOMAIN a = 1 .. m /\ DOMAIN b = 1 .. m + 1
                       /\ \A i \in 1 .. m : b[i] = a[i]
                       /\ b[m + 1] = Loop(w, c)
  BY <1>1 DEF Pushed
<1>3. Len(a) = m /\ Len(b) = m + 1
  <2>1. /\ DOMAIN a = 1 .. Len(a) /\ Len(a) \in Nat
        /\ DOMAIN b = 1 .. Len(b) /\ Len(b) \in Nat
    BY LenProperties
  <2>2. QED  BY <1>2, <2>1
<1>4. m # 0
  BY <1>1, <1>3, EmptySeq
<1>5. PICK n \in Nat : m = n + 1
  <2>1. m - 1 \in Nat /\ m = m - 1 + 1
    BY <1>4
  <2>2. QED  BY <2>1
<1>6. Len(a) = n + 1 /\ Len(b) = n + 2 /\ SameBelow(a, b, n + 1) /\ b[n + 2] = Loop(w, c)
  <2>1. m + 1 = n + 2
    BY <1>5
  <2>2. QED  BY <1>2, <1>3, <1>5, <2>1 DEF SameBelow
<1>7. a[n + 1].task = k
  BY <1>1, <1>6 DEF Inner, Last
<1>8. b[n + 2].waits = w /\ b[n + 2].task = c
  BY <1>6 DEF Loop
<1>9. l = Runtime!Level(k, TRUE, ScopeOf(b[n + 2].waits)) /\ c = b[n + 2].task
  BY <1>8
<1>10. Pushing(a, b, n, k, l, c)
  BY <1>1, <1>6, <1>7, <1>9 DEF Pushing
<1>11. PushedView(View(a), View(b), l, c)
  BY <1>10, ViewPushed, Zenon
<1>12. Stacks[t] = View(a) /\ Stacks' = [Stacks EXCEPT ![t] = View(b)]
  BY <1>1, StackMoves DEF Pushed
<1>13. QED  BY <1>11, <1>12 DEF StackBecomes

\* A child that is executed first, by its spawner.
LEMMA CallSeen ==
    ASSUME ProgramInv, TreeInv, ProgramInv', NEW t \in Threads,
           local_wait_for_all_WithChild(t) \/ local_spawn_root_and_wait(t)
    PROVE  \E c \in Runtime!Unused : \E scope \in Tasks : Runtime!Call(t, c, scope)
<1>1. PICK k, c, w : /\ k = Current(t) /\ c = NextKid(t)
                     /\ w = IF local_wait_for_all_WithChild(t) THEN k ELSE Aux(c)
  OBVIOUS
<1>2. /\ pc[t] = "run" /\ k \in Tasks /\ k = Inner(t).task
      /\ Launch(k, 1) /\ Fresh(k, 1) = {c} /\ c \in 1 .. N /\ c \in Tasks
      /\ w = k \/ w = Aux(c)
      /\ Pushed(t, Loop(w, c))
      /\ \A q : IsExecuting(q)' <=> IsExecuting(q) \/ q = c
      /\ ended' = ended
  BY <1>1, ChildIs
<1>3. /\ Above' = [x \in Tasks |-> IF x \in Fresh(k, 1) THEN Above[k] \cup {k} ELSE Above[x]]
      /\ \A x \in Fresh(k, 1) : x \in Tasks \ {MainTask} /\ Unlaunched(x)
      /\ \A x \in Tasks : x \notin Fresh(k, 1) => (x \in Waiting' <=> x \in Waiting)
      /\ \A x \in Fresh(k, 1) : x \in Waiting' <=> ~IsExecuting(x)'
  BY <1>2, LaunchSeen
<1>4. c \in Tasks \ {MainTask} /\ Unlaunched(c)
  BY <1>2, <1>3
<1>5. Waiting' = Waiting
  <2>1. c \notin Waiting /\ c \notin Waiting'
    BY <1>2, <1>3, <1>4 DEF Unlaunched, Waiting
  <2>2. Waiting \subseteq Tasks /\ Waiting' \subseteq Tasks
    BY DEF Waiting
  <2>3. QED  BY <1>2, <1>3, <2>1, <2>2
<1>6. Above' = [Above EXCEPT ![c] = Above[k] \cup {k}]
  BY <1>2, <1>3 DEF Above
<1>7. /\ Stacks[t] # <<>> /\ k = Last(Stacks[t]).task /\ ~Last(Stacks[t]).blocked
  BY <1>2, StacksOf
<1>8. PICK scope \in Tasks : scope = ScopeOf(w) /\ scope \in {c, k}
  BY <1>2, ScopesAre
<1>9. PICK l : l = Runtime!Level(k, TRUE, scope)
  OBVIOUS
<1>10. Stacks' = [Stacks EXCEPT ![t] = Append(Append(Front(@), l), Runtime!Running(c))]
  <2>1. loops[t] # <<>>
    BY <1>2 DEF ProgramInv, PcLevels
  <2>2. l = Runtime!Level(k, TRUE, ScopeOf(w)) /\ Pushed(t, Loop(w, c))
    BY <1>2, <1>8, <1>9
  <2>3. PICK v : PushedView(Stacks[t], v, l, c) /\ StackBecomes(t, v)
    BY <1>2, <2>1, <2>2, PushSeen, Zenon
  <2>4. QED  BY <1>2, <2>3 DEF PushedView, StackBecomes
<1>11. c \in Runtime!Unused
  <2>1. /\ c \notin Waiting \cup ended
        /\ \A u \in Threads : \A i \in DOMAIN Stacks[u] : Stacks[u][i].task # c
    BY <1>4, UnlaunchedUnused
  <2>2. QED  BY <1>4, <2>1 DEF Runtime!Unused, Stacks
<1>12. Runtime!Call(t, c, scope)
  <2>1. Runtime!Executes(t)
    BY <1>7, SameEnds DEF Runtime!Executes, Stacks
  <2>2. QED
    BY <1>2, <1>5, <1>6, <1>7, <1>8, <1>9, <1>10, <2>1, SameEnds
       DEF Runtime!Call, Runtime!Below, Runtime!WithTop, Stacks, Above
<1>13. QED  BY <1>8, <1>11, <1>12

\* wait_for_all.
LEMMA WaitSeen ==
    ASSUME ProgramInv, TreeInv, ProgramInv', NEW t \in Threads, local_wait_for_all(t)
    PROVE  Runtime!Wait(t)
<1>0. LoopsTyped /\ PcLevels
  BY DEF ProgramInv
<1>1. PICK k : k = Current(t)
  OBVIOUS
<1>2. /\ pc[t] = "run" /\ k \in Tasks /\ k = Inner(t).task
      /\ loops' = [loops EXCEPT ![t] = Append(@, Loop(k, NoTask))]
      /\ UNCHANGED <<program, done, parent, ref_count, ended>>
  BY <1>1 DEF local_wait_for_all, Executes, At, Current, dispatch
<1>3. k \in Objects /\ loops[t] # <<>>
  BY <1>0, <1>2, ObjectsAre DEF PcLevels
<1>4. PICK level \in Level : /\ level = Loop(k, NoTask) /\ level.waits = k /\ level.task = NoTask
  <2>1. /\ Loop(k, NoTask) \in Level
        /\ Loop(k, NoTask).waits = k /\ Loop(k, NoTask).task = NoTask
    BY <1>3 DEF Loop, Level
  <2>2. QED  BY <2>1
<1>5. Pushed(t, level)
  BY <1>0, <1>2, <1>4, PushedIs
<1>6. \A q : q # NoTask => (IsExecuting(q)' <=> IsExecuting(q))
  BY <1>4, <1>5, AfterPush
<1>7. Waiting' = Waiting
  <2>1. \A c : IsLaunched(c)' <=> IsLaunched(c)
    BY <1>2, RecordsKept
  <2>2. QED  BY <1>2, <1>6, <2>1, ObjectsAre DEF Waiting
<1>8. Above' = Above
  BY <1>2, TreeEnds, SameAbove
<1>9. /\ Stacks[t] # <<>> /\ k = Last(Stacks[t]).task /\ ~Last(Stacks[t]).blocked
  BY <1>2, StacksOf
<1>10. PICK l : l = Runtime!Level(k, TRUE, ScopeOf(k)) /\ l = Runtime!Level(k, TRUE, k)
  BY <1>2, ScopesAre
<1>11. Stacks' = [Stacks EXCEPT ![t] = Append(Front(@), l)]
  <2>1. Pushed(t, Loop(k, NoTask)) /\ NoTask \notin Tasks
    BY <1>4, <1>5, ObjectsAre
  <2>2. PICK v : PushedView(Stacks[t], v, l, NoTask) /\ StackBecomes(t, v)
    BY <1>2, <1>3, <1>10, <2>1, PushSeen, Zenon
  <2>3. QED  BY <2>1, <2>2 DEF PushedView, StackBecomes
<1>12. Runtime!Executes(t)
  BY <1>9, SameEnds DEF Runtime!Executes, Stacks
<1>13. QED
  BY <1>2, <1>7, <1>8, <1>9, <1>10, <1>11, <1>12, SameEnds
     DEF Runtime!Wait, Runtime!WithTop, Stacks, Above

\* The innermost loop of a thread sets its task.
LEMMA SetSeen ==
    ASSUME ProgramInv, ProgramInv', NEW t \in Threads, NEW k, TaskSet(t, k),
           NEW j, j = Inner(t).task
    PROVE  \E v : SetView(Stacks[t], v, j, k) /\ StackBecomes(t, v)
<1>0. LoopsTyped /\ Joints /\ LoopsTyped' /\ Joints'
  BY DEF ProgramInv
<1>1. PICK a \in Seq(Level), b \in Seq(Level) :
         a = loops[t] /\ b = loops'[t] /\ Jointed(a) /\ Jointed(b)
  BY <1>0, JointedLoops, JointedNext
<1>2. PICK n \in Nat : /\ DOMAIN a = 1 .. n + 1 /\ DOMAIN b = 1 .. n + 1
                       /\ \A i \in 1 .. n : b[i] = a[i]
                       /\ j = a[n + 1].task
                       /\ b[n + 1].waits = a[n + 1].waits
                       /\ b[n + 1].task = k
  BY <1>1 DEF TaskSet
<1>3. Len(a) = n + 1 /\ Len(b) = n + 1
  <2>1. /\ DOMAIN a = 1 .. Len(a) /\ Len(a) \in Nat
        /\ DOMAIN b = 1 .. Len(b) /\ Len(b) \in Nat
    BY LenProperties
  <2>2. QED  BY <1>2, <2>1
<1>4. Setting(a, b, n, j, k)
  BY <1>1, <1>2, <1>3 DEF Setting, SameBelow
<1>5. SetView(View(a), View(b), j, k)
  BY <1>4, ViewSet, Zenon
<1>6. Stacks[t] = View(a) /\ Stacks' = [Stacks EXCEPT ![t] = View(b)]
  BY <1>1, StackMoves DEF TaskSet
<1>7. QED  BY <1>5, <1>6 DEF StackBecomes

\* A thread that looks for a task has nothing of its own to do.
LEMMA AvailableSeen ==
    ASSUME ProgramInv, NEW t \in Threads, loops[t] # <<>>, Inner(t).task = NoTask
    PROVE  Runtime!Available(t)
<1>0. LoopsTyped /\ Joints
  BY DEF ProgramInv
<1>1. PICK a \in Seq(Level) : a = loops[t] /\ Jointed(a) /\ a # <<>> /\ Last(a).task = NoTask
  BY <1>0, JointedLoops DEF Inner
<1>2. PICK n \in Nat : Len(a) = n + 1
  BY <1>1, FrontIs
<1>3. a[n + 1].task \notin Tasks
  BY <1>1, <1>2, ObjectsAre DEF Last
<1>4. Stacks[t] = View(a)
  BY <1>1, StackIsView DEF Stacks
<1>5. CASE n = 0
  <2>1. View(a) = <<>>
    BY <1>1, <1>2, <1>3, <1>5, TopWaits
  <2>2. QED  BY <1>4, <2>1 DEF Runtime!Available, Stacks
<1>6. CASE n > 0
  <2>1. Last(View(a)) = Runtime!Level(a[n].task, TRUE, ScopeOf(a[n + 1].waits))
    BY <1>1, <1>2, <1>3, <1>6, TopWaits
  <2>2. Last(View(a)).blocked
    BY <2>1 DEF Runtime!Level
  <2>3. QED  BY <1>4, <2>2, SameEnds DEF Runtime!Available, Stacks
<1>7. QED  BY <1>5, <1>6

\* Task k is taken from a deque.
LEMMA TakeSeen ==
    ASSUME ProgramInv, TreeInv, ProgramInv', NEW t \in Threads, NEW v \in Threads, NEW k,
           FirstTaken(DequeOf(v), DequeOf(v)', k) \/ LastTaken(DequeOf(v), DequeOf(v)', k),
           \A u \in Threads \ {v} : DequeOf(u)' = DequeOf(u),
           SetTask(t, k), UNCHANGED <<program, done, parent, ref_count, ended>>,
           pc[t] \in {"get", "lock", "raid"}
    PROVE  \E c \in Waiting : Runtime!Take(t, c)
<1>0. /\ LoopsTyped /\ PcLevels /\ Joints /\ OneLevelEach
  BY DEF ProgramInv
<1>1. k \in Waiting
  <2>1. PICK D, E, W : D = Deques /\ E = Deques' /\ W = Waiting
    OBVIOUS
  <2>2. Placed(D, W)
    BY <2>1 DEF ProgramInv, InCells
  <2>3. FirstTaken(D[v], E[v], k) \/ LastTaken(D[v], E[v], k)
    BY <2>1 DEF Deques
  <2>4. \A u \in Threads \ {v} : E[u] = D[u]
    BY <2>1 DEF Deques
  <2>5. k \in W /\ Placed(E, W \ {k})
    BY <2>2, <2>3, <2>4, PlacedTaken, ZenonT(60)
  <2>6. QED  BY <2>1, <2>5
<1>2. k \in Tasks /\ k \in Objects /\ k # NoTask
  BY <1>1, ObjectsAre DEF Waiting
<1>3. loops[t] # <<>> /\ Inner(t).task = NoTask
  BY <1>0 DEF PcLevels
<1>4. TaskSet(t, k)
  BY <1>0, <1>2, <1>3, TaskSetIs
<1>5. \A q : q # NoTask => (IsExecuting(q)' <=> q = k \/ IsExecuting(q))
  <2>1. PICK old : old = Inner(t).task
    OBVIOUS
  <2>2. \A q : q # NoTask => (IsExecuting(q)' <=> q = k \/ (IsExecuting(q) /\ q # old))
    BY <1>0, <1>4, <2>1, AfterTaskSet
  <2>3. QED  BY <1>3, <2>1, <2>2
<1>6. Waiting' = Waiting \ {k}
  <2>1. \A c : IsLaunched(c)' <=> IsLaunched(c)
    BY RecordsKept
  <2>2. ASSUME NEW c \in Tasks
        PROVE  c \in Waiting' <=> c \in Waiting \ {k}
    BY <1>5, <2>1, ObjectsAre DEF Waiting
  <2>3. Waiting \subseteq Tasks /\ Waiting' \subseteq Tasks
    BY DEF Waiting
  <2>4. QED  BY <2>2, <2>3
<1>7. Above' = Above
  BY TreeEnds, SameAbove
<1>8. PICK j : j = Inner(t).task
  OBVIOUS
<1>9. PICK w : SetView(Stacks[t], w, j, k) /\ StackBecomes(t, w)
  BY <1>4, <1>8, SetSeen
<1>10. Stacks' = [Stacks EXCEPT ![t] = Append(@, Runtime!Running(k))]
  BY <1>2, <1>3, <1>8, <1>9, ObjectsAre DEF SetView, StackBecomes
<1>11. Runtime!Available(t)
  BY <1>3, AvailableSeen
<1>12. Runtime!Take(t, k)
  BY <1>6, <1>7, <1>10, <1>11 DEF Runtime!Take, Stacks, Above
<1>13. QED  BY <1>1, <1>12

\* Nothing is seen when the records, the loops and what is executed are unchanged.
LEMMA StutterSeen ==
    ASSUME TreeInv, UNCHANGED <<program, done, parent, ended>>,
           \A q \in Tasks : IsExecuting(q)' <=> IsExecuting(q), Stacks' = Stacks
    PROVE  UNCHANGED Runtime!vars
<1>1. Above' = Above
  BY TreeEnds, SameAbove
<1>2. Waiting' = Waiting
  BY DEF Waiting, IsLaunched, HasLaunched, Kids
<1>3. QED  BY <1>1, <1>2 DEF Runtime!vars, Stacks, Above

\* A thread that looked for a task is given none.
LEMMA NoneSeen ==
    ASSUME ProgramInv, TreeInv, ProgramInv', NEW t \in Threads, SetTask(t, NoTask),
           UNCHANGED <<program, done, parent, ref_count, ended>>,
           pc[t] \in {"get", "lock", "raid"}
    PROVE  UNCHANGED Runtime!vars
<1>0. /\ LoopsTyped /\ PcLevels /\ OneLevelEach /\ NoTask \notin Tasks
  BY ObjectsAre DEF ProgramInv
<1>1. loops[t] # <<>> /\ Inner(t).task = NoTask
  BY <1>0 DEF PcLevels
<1>2. PICK none : none = NoTask
  OBVIOUS
<1>3. TaskSet(t, none)
  BY <1>0, <1>1, <1>2, TaskSetIs
<1>4. PICK j : j = Inner(t).task
  OBVIOUS
<1>5. \A q : q # NoTask => (IsExecuting(q)' <=> q = none \/ (IsExecuting(q) /\ q # j))
  BY <1>0, <1>3, <1>4, AfterTaskSet
<1>6. PICK w : SetView(Stacks[t], w, j, none) /\ StackBecomes(t, w)
  BY <1>3, <1>4, SetSeen
<1>7. Stacks' = Stacks
  <2>1. w = Stacks[t]
    BY <1>0, <1>1, <1>2, <1>4, <1>6 DEF SetView
  <2>2. QED  BY <1>6, <2>1 DEF StackBecomes, Stacks
<1>8. QED  BY <1>0, <1>1, <1>2, <1>4, <1>5, <1>7, StutterSeen

\* A task returns, and a flag_task is not seen.
LEMMA ReturnSeen ==
    ASSUME ProgramInv, TreeInv, ProgramInv', NEW t \in Threads, Return(t)
    PROVE  Runtime!End(t) \/ UNCHANGED Runtime!vars
<1>0. /\ LoopsTyped /\ PcLevels /\ OneLevelEach /\ ExecutingIsCurrent /\ NoTask \notin Tasks
  BY ObjectsAre DEF ProgramInv
<1>1. PICK k, p, nextTask :
         /\ k = Current(t) /\ p = parent[k]
         /\ nextTask = IF ref_count[p] = 1 THEN p ELSE NoTask
  OBVIOUS
<1>2. /\ pc[t] = "run" /\ k # MainTask /\ k = Inner(t).task
      /\ k \in Tasks => Complete(k)
      /\ ended' = ended \cup ({k} \cap Tasks)
      /\ SetTask(t, nextTask)
      /\ UNCHANGED <<program, done, parent>>
  BY <1>1 DEF Return, At, Current
<1>3. k \in Objects /\ k # NoTask /\ IsExecuting(k) /\ loops[t] # <<>>
  <2>1. k \in Objects /\ k # NoTask
    BY <1>0, <1>2, ObjectsAre DEF PcLevels
  <2>2. QED  BY <1>0, <1>2, <2>1, Innermost
<1>4. p \in Objects /\ p # NoTask /\ Untold(k)
  BY <1>1, <1>2, <1>3, HasParent, ObjectsAre
<1>5. nextTask \notin Tasks /\ nextTask \in Objects \cup {NoTask}
  <2>1. ref_count[p] = 1 => \E c \in 1 .. N : p = Aux(c) /\ LaunchedBy("split", c)
    BY <1>1, <1>4, <1>3, BypassIsFlag
  <2>2. QED  BY <1>0, <1>1, <1>4, <2>1, ObjectsAre
<1>6. TaskSet(t, nextTask)
  BY <1>0, <1>2, <1>3, <1>5, TaskSetIs
<1>7. \A q : q # NoTask => (IsExecuting(q)' <=> q = nextTask \/ (IsExecuting(q) /\ q # k))
  BY <1>0, <1>2, <1>6, AfterTaskSet
<1>8. PICK w : SetView(Stacks[t], w, k, nextTask) /\ StackBecomes(t, w)
  BY <1>2, <1>6, SetSeen
<1>9. Above' = Above
  <2>1. \A c \in ended' : c \in ended \/ Complete(c)
    BY <1>2
  <2>2. QED  BY <1>2, <2>1, TreeEnds, SameAbove
<1>10. CASE k \in Tasks
  <2>1. Stacks' = [Stacks EXCEPT ![t] = Front(@)]
    BY <1>5, <1>8, <1>10 DEF SetView, StackBecomes
  <2>2. /\ Stacks[t] # <<>> /\ k = Last(Stacks[t]).task /\ ~Last(Stacks[t]).blocked
    BY <1>2, <1>10, StacksOf
  <2>3. Waiting' = Waiting
    <3>1. \A c : IsLaunched(c)' <=> IsLaunched(c)
      BY <1>2 DEF IsLaunched, HasLaunched, Kids
    <3>2. ended' = ended \cup {k}
      BY <1>2, <1>10
    <3>3. QED  BY <1>0, <1>3, <1>5, <1>7, <3>1, <3>2 DEF Waiting
  <2>4. Runtime!Executes(t)
    BY <2>2, SameEnds DEF Runtime!Executes, Stacks
  <2>5. Runtime!End(t)
    BY <1>2, <1>9, <1>10, <2>1, <2>2, <2>3, <2>4, SameEnds DEF Runtime!End, Stacks, Above
  <2>6. QED  BY <2>5
<1>11. CASE k \notin Tasks
  <2>1. Stacks' = Stacks
    <3>1. w = Stacks[t]
      BY <1>5, <1>8, <1>11 DEF SetView
    <3>2. QED  BY <1>8, <3>1 DEF StackBecomes, Stacks
  <2>2. \A q \in Tasks : IsExecuting(q)' <=> IsExecuting(q)
    BY <1>0, <1>5, <1>7, <1>11
  <2>3. ended' = ended
    BY <1>2, <1>11
  <2>4. QED  BY <1>2, <2>1, <2>2, <2>3, StutterSeen
<1>12. QED  BY <1>10, <1>11

\* A loop is left, and all that its task waited for has ended.
LEMMA EndLoopSeen ==
    ASSUME ProgramInv, TreeInv, ProgramInv', NEW t \in Threads, EndLoop(t)
    PROVE  Runtime!Join(t)
<1>0. /\ LoopsTyped /\ PcLevels /\ Joints /\ LoopsTyped' /\ Joints' /\ ProgramTyped
  BY DEF ProgramInv
<1>1. PICK w : w = Inner(t).waits
  OBVIOUS
<1>2. /\ loops[t] # <<>> /\ Inner(t).task = NoTask /\ w \in Objects /\ ref_count[w] = 1
      /\ Popped(t) /\ Awaited(w) /\ UNCHANGED <<program, parent, ended>>
  BY <1>1, EndLoopIs
<1>3. PICK a \in Seq(Level), b \in Seq(Level) :
         a = loops[t] /\ b = loops'[t] /\ Jointed(a) /\ Jointed(b)
  BY <1>0, JointedLoops, JointedNext
<1>4. PICK m \in Nat : /\ DOMAIN a = 1 .. m + 1 /\ DOMAIN b = 1 .. m
                       /\ \A i \in 1 .. m : b[i] = a[i]
                       /\ a[m + 1].task = NoTask /\ a[m + 1].waits = w
  BY <1>1, <1>2, <1>3 DEF Popped
<1>5. Len(a) = m + 1 /\ Len(b) = m
  <2>1. /\ DOMAIN a = 1 .. Len(a) /\ Len(a) \in Nat
        /\ DOMAIN b = 1 .. Len(b) /\ Len(b) \in Nat
    BY LenProperties
  <2>2. QED  BY <1>4, <2>1
<1>6. m # 0
  <2>1. a[1].waits = NoTask
    BY <1>0, <1>2, <1>3 DEF PcLevels
  <2>2. w # NoTask
    BY <1>2, ObjectsAre
  <2>3. QED  BY <1>4, <2>1, <2>2
<1>7. PICK n \in Nat : m = n + 1
  <2>1. m - 1 \in Nat /\ m = m - 1 + 1
    BY <1>6
  <2>2. QED  BY <2>1
<1>8. PICK k \in Tasks, s \in Tasks :
         /\ k = a[m].task /\ s = ScopeOf(w)
         /\ \/ w = k /\ s = k /\ Joins(k)
            \/ w = Aux(s) /\ s \in 1 .. N /\ Style(k) = "root" /\ HasLaunched(k, s)
  <2>1. m \in DOMAIN loops[t] /\ m + 1 \in DOMAIN loops[t]
    BY <1>3, <1>4, <1>6
  <2>2. Joint(t, m)
    BY <1>0, <2>1 DEF Joints
  <2>3. PICK k : k = a[m].task
    OBVIOUS
  <2>4. /\ k \in Tasks
        /\ \/ w = k /\ Joins(k)
           \/ \E c \in 1 .. N : w = Aux(c) /\ Style(k) = "root" /\ HasLaunched(k, c)
    BY <1>3, <1>4, <2>2, <2>3 DEF Joint
  <2>5. QED  BY <2>3, <2>4, ScopesAre
<1>9. Popping(a, b, n, k)
  <2>1. m + 1 = n + 2 /\ NoTask \notin Tasks
    BY <1>7, ObjectsAre
  <2>2. QED  BY <1>3, <1>4, <1>5, <1>7, <1>8, <2>1 DEF Popping, SameBelow
<1>10. View(b) = Append(Front(View(a)), Runtime!Running(k))
  BY <1>9, ViewPopped
<1>11. Stacks[t] = View(a) /\ Stacks' = [Stacks EXCEPT ![t] = View(b)]
  BY <1>2, <1>3, StackMoves DEF Popped
<1>12. View(a) # <<>> /\ Last(View(a)) = Runtime!Level(k, TRUE, s)
  <2>1. a[m + 1].task \notin Tasks /\ m > 0
    BY <1>4, <1>6, ObjectsAre
  <2>2. /\ View(a) # <<>>
        /\ Last(View(a)) = Runtime!Level(a[m].task, TRUE, ScopeOf(a[m + 1].waits))
    BY <1>3, <1>5, <2>1, TopWaits
  <2>3. QED  BY <1>4, <1>8, <2>2
<1>13. PICK top : /\ top = Last(Stacks[t]) /\ top.task = k /\ top.blocked /\ top.scope = s
                  /\ Stacks[t] # <<>>
  BY <1>11, <1>12 DEF Runtime!Level
<1>14. ASSUME NEW x \in Tasks, x # k, s \in Above[x] \cup {x}
       PROVE  x \in ended
  <2>1. CASE x # MainTask /\ IsLaunched(x)
    <3>1. s \in Ancestors[x] \cup {x}
      BY <1>14, <2>1 DEF Above
    <3>2. QED  BY <1>2, <1>8, <1>14, <2>1, <3>1, JoinIsComplete
  <2>2. CASE ~(x # MainTask /\ IsLaunched(x))
    <3>1. s = x
      BY <1>14, <2>2 DEF Above
    <3>2. x \in 1 .. N /\ HasLaunched(k, x)
      BY <1>8, <1>14, <3>1
    <3>3. QED  BY <1>8, <2>2, <3>2, ObjectsAre DEF IsLaunched
  <2>3. QED  BY <2>1, <2>2
<1>15. Above' = Above /\ Begun' = Begun
  BY TreeJoins, SameAbove
<1>16. Waiting' = Waiting
  <2>1. \A q : q # NoTask => (IsExecuting(q)' <=> IsExecuting(q))
    BY <1>1, <1>2, AfterPop
  <2>2. (IsLaunched(MainTask) => FALSE) /\ (IsLaunched(MainTask)' => FALSE)
    <3>1. \A j \in Tasks : \A i \in DOMAIN Kids(j) : Kids(j)[i] # MainTask
      BY <1>0, KidsAre, ObjectsAre
    <3>2. \A j \in Tasks : Kids(j)' = Kids(j)
      BY <1>2 DEF Kids
    <3>3. QED  BY <3>1, <3>2 DEF IsLaunched, HasLaunched
  <2>3. \A c \in Tasks : IsLaunched(c)' <=> IsLaunched(c)
    <3>1. \A c \in Tasks \ {MainTask} : IsLaunched(c)' <=> IsLaunched(c)
      BY <1>15 DEF Begun
    <3>2. QED  BY <2>2, <3>1
  <2>4. QED  BY <1>2, <2>1, <2>3, ObjectsAre DEF Waiting
<1>17. Runtime!Awaited(top) \subseteq ended
  BY <1>13, <1>14 DEF Runtime!Awaited, Above
<1>18. Stacks' = [Stacks EXCEPT ![t] = Append(Front(@), Runtime!Running(top.task))]
  BY <1>10, <1>11, <1>13
<1>19. QED
  BY <1>2, <1>13, <1>15, <1>16, <1>17, <1>18, SameEnds DEF Runtime!Join, Runtime!WithTop, Stacks, Above

\* A worker comes, or goes: neither has a task.
LEMMA ArenaSeen ==
    ASSUME ProgramInv, TreeInv, ProgramInv', NEW t \in Threads, EnterArena(t) \/ LeaveArena(t)
    PROVE  UNCHANGED Runtime!vars
<1>0. /\ LoopsTyped /\ PcLevels /\ Joints /\ LoopsTyped' /\ PcLevels' /\ Joints'
  BY DEF ProgramInv
<1>1. PICK a \in Seq(Level), b \in Seq(Level) :
         a = loops[t] /\ b = loops'[t] /\ Jointed(a) /\ Jointed(b)
  BY <1>0, JointedLoops, JointedNext
<1>2. PICK level \in Level : level = Loop(NoTask, NoTask) /\ level.task = NoTask
  <2>1. Loop(NoTask, NoTask) \in Level /\ Loop(NoTask, NoTask).task = NoTask
    BY DEF Loop, Level
  <2>2. QED  BY <2>1
<1>3. /\ loops' = [loops EXCEPT ![t] = b]
      /\ \/ a = <<>> /\ b = <<level>>
         \/ b = <<>> /\ Len(a) = 1 /\ a[1].task = NoTask
      /\ UNCHANGED <<program, done, parent, ended>>
  <2>1. CASE EnterArena(t)
    <3>1. /\ pc[t] = "away" /\ loops' = [loops EXCEPT ![t] = <<Loop(NoTask, NoTask)>>]
          /\ UNCHANGED <<program, done, parent, ended>>
      BY <2>1 DEF EnterArena, At, dispatch
    <3>2. a = <<>>
      BY <1>0, <1>1, <3>1 DEF PcLevels
    <3>3. loops' = [loops EXCEPT ![t] = <<level>>]
      BY <1>2, <3>1
    <3>4. b = <<level>>
      BY <1>0, <1>1, <3>3 DEF LoopsTyped
    <3>5. QED  BY <3>1, <3>2, <3>3, <3>4
  <2>2. CASE LeaveArena(t)
    <3>1. Len(a) = 1 /\ b = <<>> /\ loops' = [loops EXCEPT ![t] = b]
      BY <1>0, <1>1, <2>2 DEF LeaveArena, LoopsTyped
    <3>2. Inner(t).task = NoTask
      BY <1>0, <2>2 DEF LeaveArena, At, PcLevels
    <3>3. a[1].task = NoTask
      BY <1>1, <3>1, <3>2 DEF Inner, Last
    <3>4. QED  BY <2>2, <3>1, <3>3 DEF LeaveArena, dispatch
  <2>3. QED  BY <2>1, <2>2
<1>4. View(a) = <<>> /\ View(b) = <<>>
  <2>1. ASSUME NEW s \in Seq(Level), Jointed(s), Len(s) = 1, s[1].task = NoTask
        PROVE  View(s) = <<>>
    <3>1. PICK n \in Nat : n = 0
      OBVIOUS
    <3>2. Len(s) = n + 1 /\ s[n + 1].task \notin Tasks
      BY <2>1, <3>1, ObjectsAre
    <3>3. QED  BY <2>1, <3>1, <3>2, TopWaits
  <2>2. <<level>> = b => Len(b) = 1 /\ b[1].task = NoTask
    BY <1>2
  <2>3. QED  BY <1>1, <1>3, <2>1, <2>2, ViewOfNone
<1>5. Stacks' = Stacks
  <2>1. \A u \in Threads \ {t} : loops'[u] = loops[u]
    BY <1>0, <1>3 DEF LoopsTyped
  <2>2. Stacks[t] = View(a) /\ Stacks' = [Stacks EXCEPT ![t] = View(b)]
    BY <1>1, <2>1, StackMoves
  <2>3. QED  BY <1>4, <2>2 DEF Stacks
<1>6. ASSUME NEW q \in Tasks
      PROVE  IsExecuting(q)' <=> IsExecuting(q)
  <2>1. \A u \in Threads \ {t} : loops'[u] = loops[u]
    BY <1>0, <1>3 DEF LoopsTyped
  <2>2. (\A i \in DOMAIN a : a[i].task # q) /\ \A i \in DOMAIN b : b[i].task # q
    BY <1>1, <1>2, <1>3, ObjectsAre, LenProperties
  <2>3. QED  BY <1>1, <2>1, <2>2 DEF IsExecuting
<1>7. QED  BY <1>3, <1>5, <1>6, StutterSeen

\* The initial state is TaskRuntime's.
LEMMA RuntimeInitially ==
    ASSUME Init
    PROVE  Runtime!Init
<1>0. ProgramTyped /\ LoopsTyped /\ Joints
  BY ProgramInitially DEF ProgramInv
<1>1. \A c : ~IsLaunched(c)
  <2>1. \A k \in Tasks : done[k] = 0
    BY DEF Init
  <2>2. \A k \in Tasks : \A i \in DOMAIN Kids(k) : ~(i <= done[k])
    BY <1>0, <2>1, KidsAre
  <2>3. QED  BY <2>2 DEF IsLaunched, HasLaunched
<1>2. Waiting = {} /\ ended = {}
  BY <1>1 DEF Waiting, Init
<1>3. Above = [c \in Tasks |-> {}]
  BY <1>1 DEF Above
<1>4. PICK level \in Level : level = Loop(NoTask, MainTask) /\ level.task = MainTask
  <2>1. Loop(NoTask, MainTask) \in Level /\ Loop(NoTask, MainTask).task = MainTask
    BY ObjectsAre DEF Loop, Level
  <2>2. QED  BY <2>1
<1>5. loops = [t \in Threads |-> IF t = Main THEN <<level>> ELSE <<>>]
  BY <1>4 DEF Init
<1>6. View(<<level>>) = <<Runtime!Running(MainTask)>>
  <2>1. PICK a \in Seq(Level) : a = <<level>>
    <3>1. <<level>> \in Seq(Level)
      OBVIOUS
    <3>2. QED  BY <3>1
  <2>2. Len(a) = 1 /\ a[1] = level
    BY <2>1
  <2>3. Jointed(a)
    BY <2>2, LenProperties DEF Jointed
  <2>4. PICK n \in Nat : n = 0
    OBVIOUS
  <2>5. PICK h : h = IF a[n + 1].task \in Tasks THEN n + 1 ELSE n
    OBVIOUS
  <2>6. Len(a) = n + 1 /\ h = 1 /\ a[1].task = MainTask
    BY <1>4, <2>2, <2>4, <2>5, ObjectsAre
  <2>7. Shows(View(a), a, n, h)
    BY <2>3, <2>5, <2>6, ViewIs
  <2>8. /\ View(a) \in Seq(StackLevel) /\ Len(View(a)) = 1
        /\ View(a)[1] = Runtime!Running(MainTask)
    BY <2>4, <2>6, <2>7 DEF Shows
  <2>9. PICK v \in Seq(StackLevel), x \in StackLevel : v = View(a) /\ x = Runtime!Running(MainTask)
    BY <2>8, LevelsTyped, ObjectsAre
  <2>10. v = <<x>>
    BY <2>8, <2>9
  <2>11. QED  BY <2>1, <2>9, <2>10
<1>7. Stacks = [t \in Threads |-> IF t = Main THEN <<Runtime!Running(MainTask)>> ELSE <<>>]
  BY <1>5, <1>6, StackIsView, ViewOfNone DEF Stacks
<1>8. QED  BY <1>2, <1>3, <1>7 DEF Runtime!Init, Stacks, Above

\* Neither is a look at a deque, a lock or another slot.
LEMMA LookSeen ==
    ASSUME TreeInv, UNCHANGED <<program, done, parent, ended, loops>>
    PROVE  UNCHANGED Runtime!vars
<1>1. \A q : IsExecuting(q)' <=> IsExecuting(q)
  BY DEF IsExecuting
<1>2. QED  BY <1>1, SameStacks, StutterSeen

\* The steps that leave the deques as they are.
LEMMA QuietSeen ==
    ASSUME ProgramInv, TreeInv, ProgramInv', NEW t \in Threads, QuietStepOf(t)
    PROVE  [Runtime!Next]_(Runtime!vars)
<1>1. CASE local_wait_for_all_WithChild(t) \/ local_spawn_root_and_wait(t)
  <2>1. \E c \in Runtime!Unused : \E scope \in Tasks : Runtime!Call(t, c, scope)
    BY <1>1, CallSeen
  <2>2. QED  BY <2>1 DEF Runtime!Next
<1>2. CASE local_wait_for_all(t)
  BY <1>2, WaitSeen DEF Runtime!Next
<1>3. CASE Return(t)
  BY <1>3, ReturnSeen DEF Runtime!Next
<1>4. CASE EndLoop(t)
  BY <1>4, EndLoopSeen DEF Runtime!Next
<1>5. CASE SeekLock(t) \/ LookElsewhere(t)
  <2>1. UNCHANGED <<program, done, parent, ended, loops>>
    BY <1>5 DEF SeekLock, LookElsewhere, dispatch
  <2>2. QED  BY <2>1, LookSeen
<1>6. CASE EnterArena(t) \/ LeaveArena(t)
  BY <1>6, ArenaSeen
<1>7. QED  BY <1>1, <1>2, <1>3, <1>4, <1>5, <1>6 DEF QuietStepOf

\* The steps at the deques.
LEMMA PoolSeen ==
    ASSUME PoolInv, HoldTasks, ProgramInv, TreeInv, ProgramInv', NEW t \in Threads, PoolStepOf(t)
    PROVE  [Runtime!Next]_(Runtime!vars)
<1>1. CASE MakeRoom(t) \/ LookInPool(t) \/ StealFails(t) \/ \E v \in Threads : Steal(t, v)
  <2>1. UNCHANGED <<program, done, parent, ended, loops>>
    BY <1>1 DEF MakeRoom, LookInPool, StealFails, Steal, dispatch
  <2>2. QED  BY <2>1, LookSeen
<1>2. CASE local_spawn(t)
  <2>1. \E K \in SUBSET Runtime!Unused : Runtime!Spawn(t, K)
    BY <1>2, SpawnSeen
  <2>2. QED  BY <2>1 DEF Runtime!Next
<1>3. ASSUME NEW v \in Threads, NEW k,
             FirstTaken(DequeOf(v), DequeOf(v)', k) \/ LastTaken(DequeOf(v), DequeOf(v)', k),
             \A u \in Threads \ {v} : DequeOf(u)' = DequeOf(u),
             SetTask(t, k), UNCHANGED <<program, done, parent, ref_count, ended>>,
             pc[t] \in {"get", "lock", "raid"}
      PROVE  [Runtime!Next]_(Runtime!vars)
  <2>1. \E c \in Waiting : Runtime!Take(t, c)
    BY <1>3, TakeSeen
  <2>2. QED  BY <2>1 DEF Runtime!Next
<1>4. CASE GetTask(t)
  <2>1. PICK k : k = OwnTask(t)
    OBVIOUS
  <2>2. /\ pc[t] = "get" /\ SetTask(t, k)
        /\ UNCHANGED <<program, done, parent, ref_count, ended>>
    BY <1>4, <2>1 DEF GetTask, At, dispatch
  <2>3. /\ \A u \in Threads \ {t} : DequeOf(u)' = DequeOf(u)
        /\ LastTaken(DequeOf(t), DequeOf(t)', k)
    BY <1>4, <2>1, GetTaskStep
  <2>4. QED  BY <1>3, <2>2, <2>3
<1>5. CASE GetTaskLocked(t)
  <2>1. PICK k : k = Arbitrated(t)
    OBVIOUS
  <2>2. /\ pc[t] = "lock" /\ SetTask(t, k)
        /\ UNCHANGED <<program, done, parent, ref_count, ended>>
    BY <1>5, <2>1 DEF GetTaskLocked, At, dispatch
  <2>3. /\ \A u \in Threads \ {t} : DequeOf(u)' = DequeOf(u)
        /\ k # NoTask => LastTaken(DequeOf(t), DequeOf(t)', k)
    BY <1>5, <2>1, GetTaskLockedStep
  <2>4. CASE k = NoTask
    BY <2>2, <2>4, NoneSeen
  <2>5. CASE k # NoTask
    BY <1>3, <2>2, <2>3, <2>5
  <2>6. QED  BY <2>4, <2>5
<1>6. CASE StealSucceeds(t)
  <2>1. PICK v, k : v = victim[t] /\ k = StolenTask(v)
    OBVIOUS
  <2>2. /\ pc[t] = "raid" /\ SetTask(t, k)
        /\ UNCHANGED <<program, done, parent, ref_count, ended>>
    BY <1>6, <2>1 DEF StealSucceeds, At, dispatch
  <2>3. /\ \A u \in Threads \ {v} : DequeOf(u)' = DequeOf(u)
        /\ FirstTaken(DequeOf(v), DequeOf(v)', k) /\ v \in Threads
    BY <1>6, <2>1, StealSucceedsStep
  <2>4. QED  BY <1>3, <2>2, <2>3
<1>7. QED  BY <1>1, <1>2, <1>4, <1>5, <1>6 DEF PoolStepOf

\* Every step is a step of TaskRuntime, or is not seen.
LEMMA RuntimeStep ==
    ASSUME PoolInv, HoldTasks, ProgramInv, TreeInv, [Next]_vars
    PROVE  [Runtime!Next]_(Runtime!vars)
<1>1. ProgramInv'
  BY ProgramInvStep
<1>2. CASE UNCHANGED vars
  <2>1. UNCHANGED <<program, done, parent, ended, loops>>
    BY <1>2 DEF vars, dispatch
  <2>2. QED  BY <2>1, LookSeen
<1>3. ASSUME NEW t \in Threads, QuietStepOf(t)
      PROVE  [Runtime!Next]_(Runtime!vars)
  BY <1>1, <1>3, QuietSeen
<1>4. ASSUME NEW t \in Threads, PoolStepOf(t)
      PROVE  [Runtime!Next]_(Runtime!vars)
  BY <1>1, <1>4, PoolSeen
<1>5. QED  BY <1>2, <1>3, <1>4, StepsAre

\* The tree is kept.
LEMMA TreesKept == Spec => []TreeInv
<1>1. Init => TreeInv
  BY TreeInitially
<1>2. ProgramInv /\ TreeInv /\ [Next]_vars => TreeInv'
  BY TreeStep
<1>3. QED  BY <1>1, <1>2, ProgramKept, PTL DEF Spec

(* The work-stealing scheduler implements TaskRuntime: through every overlap  *)
(* of spawning, stealing and waiting, a spawned task is executed once, on top *)
(* of whatever its thread waits for, and a join returns only when each task   *)
(* in its scope, at whatever depth, has ended.                                *)
THEOREM ImplementsTheRuntime == Spec => ImplementsRuntime
<1>1. Init => Runtime!Init
  BY RuntimeInitially
<1>2. PoolInv /\ HoldTasks /\ ProgramInv /\ TreeInv /\ [Next]_vars => [Runtime!Next]_(Runtime!vars)
  BY RuntimeStep
<1>3. QED  BY <1>1, <1>2, ProgramKept, TreesKept, PTL DEF Spec, ImplementsRuntime, Runtime!Spec

================================================================================
