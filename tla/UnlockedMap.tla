------------------------------ MODULE UnlockedMap ------------------------------
(******************************************************************************)
(* A std::unordered_map in which threads count a key, and insert it if it is  *)
(* absent, without a lock: callSiteMap and regionMap of the collection phase. *)
(*                                                                            *)
(* An insertion that overlaps another access is undefined behaviour.  What    *)
(* the library does: a count that overlaps an insertion may miss a key and    *)
(* may follow a pointer into buckets that are being replaced; of insertions   *)
(* that overlap each may be lost.                                             *)
(******************************************************************************)
EXTENDS Naturals

CONSTANT Threads

VARIABLES
    map,     \* the keys that are found
    use,     \* per thread, its access to the map
    clashed  \* whether insertions have ever overlapped

Idle == [op |-> "none", key |-> 0, torn |-> FALSE]

Init ==
    /\ map = {}
    /\ use = [t \in Threads |-> Idle]
    /\ clashed = FALSE

Others(t, op) == \E u \in Threads \ {t} : use[u].op = op

Count(t, key) ==
    /\ use[t].op = "none"
    /\ use' = [use EXCEPT ![t] = [op |-> "count", key |-> key, torn |-> Others(t, "insert")]]
    /\ UNCHANGED <<map, clashed>>

Found(t) ==
    /\ use[t].op = "count"
    /\ \/ use[t].key \in map
       \/ \E u \in Threads : use[u].op = "insert" /\ use[u].key = use[t].key
    /\ use' = [use EXCEPT ![t] = [@ EXCEPT !.op = "done", !.torn = FALSE]]
    /\ UNCHANGED <<map, clashed>>

\* It inserts whether the key is there or not.
Insert_Always(t) ==
    /\ use[t].op = "count"
    /\ use' = [u \in Threads |->
                  IF u = t THEN [use[t] EXCEPT !.op = "insert", !.torn = Others(t, "insert")]
                  ELSE [use[u] EXCEPT !.torn = @ \/ use[u].op \in {"count", "insert"}]]
    /\ clashed' = (clashed \/ Others(t, "insert"))
    /\ UNCHANGED map

\* Absent, or missed: the insertion begins, and tears what is under way.
Insert(t) ==
    /\ use[t].op = "count"
    /\ use[t].key \notin map \/ use[t].torn
    /\ use' = [u \in Threads |->
                  IF u = t THEN [use[t] EXCEPT !.op = "insert", !.torn = Others(t, "insert")]
                  ELSE [use[u] EXCEPT !.torn = @ \/ use[u].op \in {"count", "insert"}]]
    /\ clashed' = (clashed \/ Others(t, "insert"))
    /\ UNCHANGED map

Inserted(t) ==
    /\ use[t].op = "insert"
    /\ \/ map' = map \cup {use[t].key}
       \/ use[t].torn /\ map' = map
    /\ use' = [use EXCEPT ![t] = [@ EXCEPT !.op = "done", !.torn = FALSE]]
    /\ UNCHANGED clashed

Access(t) == Found(t) \/ Insert(t) \/ Inserted(t)

Leave(t) ==
    /\ use[t].op = "done"
    /\ use' = [use EXCEPT ![t] = Idle]
    /\ UNCHANGED <<map, clashed>>

\* The access of thread t may end the program.
MayFail(t) == use[t].torn

================================================================================
