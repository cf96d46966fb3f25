------------------------------ MODULE Hooks_proofs -----------------------------
(******************************************************************************)
(* get_cur_tid gives each thread an id of its own and main the id 0, for any  *)
(* number of workers and whatever the threads do in the maps.                 *)
(*                                                                            *)
(* That main is 0 needs more than get_cur_tid: until main has its id, no      *)
(* other thread has anything to call a hook for (Quiet), since nothing is     *)
(* spawned by a thread without one.                                           *)
(*                                                                            *)
(* The hooks only hold the program up (HooksAreInvisible), so all that is     *)
(* proved of Collection holds here too.  What is written at the end needs it: *)
(* the files are complete because a thread that is still inserting is in a    *)
(* spawn or a step, and after Fini only main is anywhere (MainIsLast).  Every *)
(* site in the reports is in its map or being inserted, as long as insertions *)
(* have not overlapped (SitesKnown), and the same of regions; the lemmas      *)
(* about the one map come again for the other.                                *)
(******************************************************************************)
EXTENDS Hooks, Collection_proofs

Inserting == \E t \in Threads : hook[t] = "insert"

\* Before the first thread has an id: there is only main.
Quiet ==
    /\ pool = {}
    /\ \A t \in Threads \ {Main} : frames[t] = <<>> /\ hook[t] = "out"

\* The ids given so far are the numbers below this one.
Given == tid_ctr - (IF Inserting THEN 1 ELSE 0)

IdsInv ==
    /\ tid_ctr \in Nat
    /\ hook \in [Threads -> {"out", "insert", "at", "torn", "in"}]
    /\ DOMAIN tid_map \subseteq Threads
    /\ \A t, u \in Threads : hook[t] = "insert" /\ hook[u] = "insert" => t = u
    /\ \A t \in Threads : hook[t] = "insert" => t \notin DOMAIN tid_map /\ tid_ctr > 0
    /\ \A t \in DOMAIN tid_map : tid_map[t] \in 0 .. Given - 1
    /\ \A n \in 0 .. Given - 1 : \E t \in DOMAIN tid_map : tid_map[t] = n
    /\ \A t, u \in DOMAIN tid_map : tid_map[t] = tid_map[u] => t = u
    /\ DOMAIN tid_map # {} => Main \in DOMAIN tid_map /\ tid_map[Main] = 0
    /\ \A t \in Threads : hook[t] \in {"at", "torn", "in"} => t \in DOMAIN tid_map
    /\ DOMAIN tid_map = {} => Quiet

LEMMA IdsInvImplies == IdsInv => ThreadIds
<1> SUFFICES ASSUME IdsInv
             PROVE  ThreadIds
  OBVIOUS
<1>1. {tid_map[t] : t \in DOMAIN tid_map} = 0 .. Given - 1
  BY DEF IdsInv
<1>2. Given - 1 = tid_ctr - (IF Inserting THEN 2 ELSE 1)
  BY DEF Given, IdsInv
<1>3. QED  BY <1>1, <1>2 DEF IdsInv, ThreadIds, Inserting

LEMMA InitIds == HooksInit => IdsInv
<1> SUFFICES ASSUME HooksInit
             PROVE  IdsInv
  OBVIOUS
<1>1. /\ DOMAIN tid_map = {} /\ tid_ctr = 0
      /\ hook = [t \in Threads |-> "out"]
      /\ pool = {}
      /\ \A t \in Threads \ {Main} : frames[t] = <<>>
  BY DEF HooksInit, Init
<1>2. ~Inserting
  BY <1>1 DEF Inserting
<1>3. Given = 0
  <2>1. tid_ctr = 0
    BY <1>1
  <2>2. (IF Inserting THEN 1 ELSE 0) = 0
    BY <1>2
  <2>3. Given = 0 - 0
    BY <2>1, <2>2, Zenon DEF Given
  <2>4. QED  BY <2>3
<1>4. 0 .. Given - 1 = {}
  BY <1>3
<1>5. QED  BY <1>1, <1>4 DEF IdsInv, Quiet

\* A thread that is in no task and is given none calls no hook.
LEMMA QuietCallsNothing ==
    ASSUME IdsInv, Quiet, NEW t \in Threads, CallsHook(t)
    PROVE  t = Main
  BY DEF Quiet, CallsHook, At, Launching

LEMMA LockAndCountIds ==
    ASSUME IdsInv, NEW t \in Threads, LockAndCount(t)
    PROVE  IdsInv'
<1>1. /\ hook[t] = "out" /\ CallsHook(t) /\ ~Inserting
      /\ tid_map' = tid_map /\ pool' = pool /\ frames' = frames
  BY DEF LockAndCount, tid_map_lock_free, Inserting, vars, scheduler
<1>2. CASE t \in DOMAIN tid_map
  <2>1. hook' = [hook EXCEPT ![t] = "at"] /\ tid_ctr' = tid_ctr
    BY <1>2 DEF LockAndCount
  <2>2. ~Inserting' /\ Given' = Given
    BY <1>1, <2>1 DEF Inserting, Given, IdsInv
  <2>3. QED  BY <1>1, <1>2, <2>1, <2>2 DEF IdsInv
<1>3. CASE t \notin DOMAIN tid_map
  <2>1. /\ hook' = [u \in Threads |-> IF u = t THEN "insert"
                                      ELSE IF hook[u] = "at" THEN "torn" ELSE hook[u]]
        /\ tid_ctr' = tid_ctr + 1
    BY <1>3 DEF LockAndCount
  <2>2. /\ hook'[t] = "insert" /\ Inserting'
        /\ \A u \in Threads \ {t} : hook'[u] # "insert"
    BY <1>1, <2>1 DEF Inserting
  <2>3. Given = tid_ctr /\ Given' = tid_ctr
    BY <1>1, <2>1, <2>2 DEF Given, IdsInv
  <2>4. DOMAIN tid_map' = {} => Quiet'
    <3> SUFFICES ASSUME DOMAIN tid_map = {}
                 PROVE  Quiet'
      BY <1>1
    <3>1. Quiet /\ t = Main
      BY <1>1, QuietCallsNothing DEF IdsInv
    <3>2. QED  BY <1>1, <2>1, <3>1 DEF Quiet
  <2>5. /\ tid_ctr' \in Nat /\ tid_ctr' > 0
        /\ hook' \in [Threads -> {"out", "insert", "at", "torn", "in"}]
        /\ \A u \in Threads : hook'[u] \in {"at", "torn", "in"} => u \in DOMAIN tid_map
    BY <2>1 DEF IdsInv
  <2>6. QED  BY <1>1, <1>3, <2>2, <2>3, <2>4, <2>5 DEF IdsInv
<1>4. QED  BY <1>2, <1>3

LEMMA InsertTidIds ==
    ASSUME IdsInv, MainAssumption, NEW t \in Threads, InsertTid(t)
    PROVE  IdsInv'
<1>1. /\ hook[t] = "insert" /\ t \notin DOMAIN tid_map /\ tid_ctr \in Nat \ {0}
      /\ tid_map' = [u \in DOMAIN tid_map \cup {t} |-> IF u = t THEN tid_ctr - 1 ELSE tid_map[u]]
      /\ hook' = [hook EXCEPT ![t] = "in"]
      /\ tid_ctr' = tid_ctr /\ pool' = pool /\ frames' = frames
  BY DEF InsertTid, IdsInv, vars, scheduler
<1>2. Inserting /\ Given = tid_ctr - 1
  BY <1>1 DEF Inserting, Given
<1>3. \A u \in Threads : hook'[u] # "insert"
  BY <1>1 DEF IdsInv
<1>4. ~Inserting' /\ Given' = tid_ctr
  BY <1>1, <1>3 DEF Inserting, Given
<1>5. /\ DOMAIN tid_map' = DOMAIN tid_map \cup {t} /\ tid_map'[t] = tid_ctr - 1
      /\ \A u \in DOMAIN tid_map : u # t /\ tid_map'[u] = tid_map[u]
                                   /\ tid_map[u] \in 0 .. tid_ctr - 2
  BY <1>1, <1>2 DEF IdsInv
<1>6. \A u \in DOMAIN tid_map' : tid_map'[u] \in 0 .. Given' - 1
  BY <1>1, <1>4, <1>5
<1>7. \A n \in 0 .. Given' - 1 : \E u \in DOMAIN tid_map' : tid_map'[u] = n
  <2> SUFFICES ASSUME NEW n \in 0 .. tid_ctr - 1
               PROVE  \E u \in DOMAIN tid_map' : tid_map'[u] = n
    BY <1>4
  <2>1. CASE n = tid_ctr - 1
    BY <1>5, <2>1
  <2>2. CASE n # tid_ctr - 1
    <3>1. n \in 0 .. Given - 1
      BY <1>1, <1>2, <2>2
    <3>2. QED  BY <1>5, <3>1 DEF IdsInv
  <2>3. QED  BY <2>1, <2>2
<1>8. \A u, v \in DOMAIN tid_map' : tid_map'[u] = tid_map'[v] => u = v
  BY <1>1, <1>5 DEF IdsInv
<1>9. Main \in DOMAIN tid_map' /\ tid_map'[Main] = 0
  <2>1. CASE DOMAIN tid_map = {}
    <3>1. t = Main
      BY <1>1, <2>1 DEF IdsInv, Quiet
    <3>2. 0 .. tid_ctr - 2 = {}
      BY <1>1, <1>2, <2>1 DEF IdsInv
    <3>3. tid_ctr = 1
      BY <1>1, <3>2
    <3>4. QED  BY <1>5, <3>1, <3>3
  <2>2. CASE DOMAIN tid_map # {}
    BY <1>5, <2>2 DEF IdsInv
  <2>3. QED  BY <2>1, <2>2
<1>10. /\ hook' \in [Threads -> {"out", "insert", "at", "torn", "in"}]
       /\ DOMAIN tid_map' \subseteq Threads
       /\ \A u \in Threads : hook'[u] \in {"at", "torn", "in"} => u \in DOMAIN tid_map'
  BY <1>1, <1>5 DEF IdsInv
<1>11. QED  BY <1>1, <1>3, <1>6, <1>7, <1>8, <1>9, <1>10 DEF IdsInv

\* A thread that has its id goes on, and gives none to anybody.
LEMMA OwnHookIds ==
    ASSUME IdsInv, NEW t \in Threads, t \in DOMAIN tid_map,
           UNCHANGED tids, hook[t] # "insert",
           hook' = hook \/ \E h \in {"in", "out"} : hook' = [hook EXCEPT ![t] = h]
    PROVE  IdsInv'
<1>1. /\ tid_map' = tid_map /\ tid_ctr' = tid_ctr
      /\ \A u \in Threads : hook'[u] = "insert" <=> hook[u] = "insert"
      /\ hook' \in [Threads -> {"out", "insert", "at", "torn", "in"}]
      /\ \A u \in Threads : hook'[u] \in {"at", "torn", "in"} => u \in DOMAIN tid_map
  BY DEF IdsInv, tids
<1>2. Given' = Given
  BY <1>1 DEF Given, Inserting
<1>3. QED  BY <1>1, <1>2 DEF IdsInv

\* A step that takes no thread into or out of a task.
LEMMA SameFramesIds ==
    ASSUME IdsInv, UNCHANGED <<tids, hook, pool, frames>>
    PROVE  IdsInv'
  BY DEF IdsInv, tids, Given, Inserting, Quiet

LEMMA HooksNextIds ==
    ASSUME MainAssumption, IdsInv, [HooksNext]_hookVars
    PROVE  IdsInv'
<1>1. ASSUME NEW t \in Threads, HookStep(t)
      PROVE  IdsInv'
  <2>1. CASE LockAndCount(t)
    BY <2>1, LockAndCountIds
  <2>2. CASE InsertTid(t)
    BY <2>2, InsertTidIds
  <2>3. ASSUME hook[t] \in {"at", "torn", "in"}, UNCHANGED tids,
               hook' = hook \/ \E h \in {"in", "out"} : hook' = [hook EXCEPT ![t] = h]
        PROVE  IdsInv'
    BY <2>3, OwnHookIds DEF IdsInv
  <2>4. CASE ReadTid(t)
    BY <2>3, <2>4 DEF ReadTid
  <2>5. CASE LookUpSite(t)
    BY <2>3, <2>5 DEF LookUpSite
  <2>6. CASE LookUpRegion(t)
    BY <2>3, <2>6 DEF LookUpRegion
  <2>7. CASE Recorded(t)
    BY <2>3, <2>7 DEF Recorded
  <2>8. QED  BY <1>1, <2>1, <2>2, <2>4, <2>5, <2>6, <2>7 DEF HookStep
<1>2. ASSUME NEW t \in Threads, Fails(t)
      PROVE  IdsInv'
  BY <1>2, SameFramesIds DEF Fails, vars, scheduler
<1>3. CASE Ends
  BY <1>3, SameFramesIds DEF Ends, Fini
<1>4. CASE UNCHANGED hookVars
  BY <1>4, SameFramesIds DEF hookVars, vars, scheduler
<1>5. QED  BY <1>1, <1>2, <1>3, <1>4 DEF HooksNext

\* Threads have different ids, counted from 0, and main has 0, though no lock
\* is held when an id is read and main is not told to come first.
THEOREM IdsOfThreads == HooksSpec => []ThreadIds
<1>1. HooksInit => IdsInv
  BY InitIds
<1>2. IdsInv /\ [HooksNext]_hookVars => IdsInv'
  BY HooksNextIds, MainAssumption
<1>3. HooksSpec => []IdsInv
  BY <1>1, <1>2, PTL DEF HooksSpec
<1>4. QED  BY <1>3, IdsInvImplies, PTL

(******************************************************************************)
(* The hooks only hold the program up                                         *)
(******************************************************************************)

LEMMA HooksNextIsNext ==
    ASSUME [HooksNext]_hookVars
    PROVE  [Next]_vars
<1>1. ASSUME NEW t \in Threads, HookStep(t)
      PROVE  (\E u \in Threads : ThreadStep(u)) \/ UNCHANGED vars
  <2>1. CASE Recorded(t)
    BY <2>1 DEF Recorded, ThreadStep, SpawnCapture
  <2>2. CASE ~Recorded(t)
    BY <1>1, <2>2 DEF HookStep, LockAndCount, InsertTid, ReadTid, LookUpSite, LookUpRegion
  <2>3. QED  BY <2>1, <2>2
<1>2. ASSUME NEW t \in Threads, Fails(t)
      PROVE  UNCHANGED vars
  BY <1>2 DEF Fails
<1>3. CASE Ends
  BY <1>3 DEF Ends, Next
<1>4. CASE UNCHANGED hookVars
  BY <1>4 DEF hookVars
<1>5. QED  BY <1>1, <1>2, <1>3, <1>4 DEF HooksNext, Next

\* What a run with the hooks does to the graph, the reports and the tasks is a
\* run of Collection: whatever holds there holds under the hooks.
THEOREM HooksAreInvisible == HooksSpec => Spec
<1>1. HooksInit => Init
  BY DEF HooksInit
<1>2. [HooksNext]_hookVars => [Next]_vars
  BY HooksNextIsNext
<1>3. QED  BY <1>1, <1>2, PTL DEF HooksSpec, Spec

(******************************************************************************)
(* callSiteMap and regionMap                                                  *)
(******************************************************************************)
Keys(K) == K \cup {0}

Accesses(K) == [op : {"none", "count", "insert", "done"}, key : Keys(K), torn : BOOLEAN]

\* The key is in the map, or about to be.
KeyIn(map, use, key) ==
    \/ key \in map
    \/ \E u \in Threads : use[u].op = "insert" /\ use[u].key = key

\* A map of keys in K.  While insertions have not overlapped, there is one at a
\* time and it will succeed; and what a thread is done with is found.
MapInv(map, use, clashed, K) ==
    /\ use \in [Threads -> Accesses(K)]
    /\ \A t \in Threads : use[t].op # "none" => use[t].key \in K
    /\ \/ clashed
       \/ /\ \A t, u \in Threads : use[t].op = "insert" /\ use[u].op = "insert" => t = u
          /\ \A t \in Threads : use[t].op = "insert" => ~use[t].torn
          /\ \A t \in Threads : use[t].op = "done" => KeyIn(map, use, use[t].key)

SiteKeys == (SpawnSites \cup RootSites) \ {0}

SitesInv == MapInv(callSiteMap, site_use, sites_clashed, SiteKeys)
RegionsInv == MapInv(regionMap, region_use, regions_clashed, Regions)

LEMMA AccessDone ==
    ASSUME NEW K, NEW a \in Accesses(K)
    PROVE  [a EXCEPT !.op = "done", !.torn = FALSE] = [op |-> "done", key |-> a.key, torn |-> FALSE]
<1> DEFINE b == [a EXCEPT !.op = "done", !.torn = FALSE]
<1>1. b \in Accesses(K)
  BY DEF Accesses
<1>2. b.op = "done" /\ b.key = a.key /\ b.torn = FALSE
  BY DEF Accesses
<1> HIDE DEF b
<1>3. b = [op |-> "done", key |-> a.key, torn |-> FALSE]
  BY <1>1, <1>2 DEF Accesses
<1>4. QED  BY <1>3 DEF b

LEMMA SiteCounted ==
    ASSUME SitesInv, NEW t \in Threads, NEW key \in SiteKeys, CallSites!Count(t, key)
    PROVE  /\ SitesInv' /\ (\A u \in Threads \ {t} : site_use'[u] = site_use[u])
           /\ \A k : KeyIn(callSiteMap, site_use, k) => KeyIn(callSiteMap', site_use', k)
<1>1. /\ site_use[t].op = "none" /\ callSiteMap' = callSiteMap /\ sites_clashed' = sites_clashed
      /\ site_use' = [site_use EXCEPT ![t] = [op |-> "count", key |-> key,
                                              torn |-> CallSites!Others(t, "insert")]]
      /\ site_use \in [Threads -> Accesses(SiteKeys)]
  BY DEF CallSites!Count, SitesInv, MapInv
<1>2. CallSites!Others(t, "insert") \in BOOLEAN
  BY DEF CallSites!Others
<1>3. PICK torn \in BOOLEAN : torn = CallSites!Others(t, "insert")
  BY <1>2
<1>4. /\ site_use'[t] = [op |-> "count", key |-> key, torn |-> torn]
      /\ \A u \in Threads \ {t} : site_use'[u] = site_use[u]
      /\ site_use' \in [Threads -> Accesses(SiteKeys)]
  BY <1>1, <1>3 DEF Accesses, Keys
<1>5. \A k : KeyIn(callSiteMap, site_use, k) => KeyIn(callSiteMap', site_use', k)
  BY <1>1, <1>4 DEF KeyIn
<1>6. QED  BY <1>1, <1>4, <1>5 DEF SitesInv, MapInv

LEMMA SiteAccessed ==
    ASSUME SitesInv, NEW t \in Threads, CallSites!Access(t)
    PROVE  /\ SitesInv'
           /\ \A u \in Threads \ {t} : site_use[u].op = "none" => site_use'[u].op = "none"
           /\ site_use[t].op # "none"
           /\ (sites_clashed => sites_clashed') /\ callSiteMap \subseteq callSiteMap'
           /\ \/ sites_clashed'
              \/ \A k : KeyIn(callSiteMap, site_use, k) => KeyIn(callSiteMap', site_use', k)
<1> DEFINE Access(op, torn) == [op |-> op, key |-> site_use[t].key, torn |-> torn]
<1>1. /\ site_use \in [Threads -> Accesses(SiteKeys)]
      /\ \A u \in Threads : site_use[u] \in Accesses(SiteKeys)
      /\ \A op \in {"none", "count", "insert", "done"}, torn \in BOOLEAN :
            Access(op, torn) \in Accesses(SiteKeys)
  BY DEF SitesInv, MapInv, Accesses
<1>2. CASE CallSites!Found(t)
  <2>1. /\ site_use[t].op = "count" /\ KeyIn(callSiteMap, site_use, site_use[t].key)
        /\ callSiteMap' = callSiteMap /\ sites_clashed' = sites_clashed
    BY <1>2 DEF CallSites!Found, KeyIn
  <2>2. /\ site_use'[t] = Access("done", FALSE)
        /\ \A u \in Threads \ {t} : site_use'[u] = site_use[u]
    <3>1. PICK a \in Accesses(SiteKeys) : a = site_use[t]
      BY <1>1
    <3>2. /\ site_use'[t] = [a EXCEPT !.op = "done", !.torn = FALSE]
          /\ \A u \in Threads \ {t} : site_use'[u] = site_use[u]
      BY <1>1, <1>2, <3>1 DEF CallSites!Found
    <3>3. [a EXCEPT !.op = "done", !.torn = FALSE] = [op |-> "done", key |-> a.key, torn |-> FALSE]
      BY AccessDone
    <3>4. QED  BY <3>1, <3>2, <3>3
  <2>3. site_use' \in [Threads -> Accesses(SiteKeys)]
    BY <1>1, <1>2, <2>2 DEF CallSites!Found
  <2>4. \A k : KeyIn(callSiteMap, site_use, k) => KeyIn(callSiteMap', site_use', k)
    BY <2>1, <2>2 DEF KeyIn
  <2>5. QED  BY <2>1, <2>2, <2>3, <2>4 DEF SitesInv, MapInv
<1>3. CASE CallSites!Insert(t)
  <2>1. /\ site_use[t].op = "count" /\ callSiteMap' = callSiteMap
        /\ sites_clashed' = (sites_clashed \/ CallSites!Others(t, "insert"))
    BY <1>3 DEF CallSites!Insert
  <2>2. PICK torn \in BOOLEAN : torn = CallSites!Others(t, "insert")
    BY DEF CallSites!Others
  <2>3. site_use'[t] = Access("insert", torn)
    BY <1>1, <1>3, <2>2 DEF CallSites!Insert, Accesses
  <2>4. \A u \in Threads \ {t} :
           /\ site_use'[u].op = site_use[u].op /\ site_use'[u].key = site_use[u].key
           /\ site_use'[u] \in Accesses(SiteKeys)
           /\ site_use[u].op # "insert" \/ torn
    <3>1. ASSUME NEW u \in Threads \ {t}
          PROVE  /\ site_use'[u].op = site_use[u].op /\ site_use'[u].key = site_use[u].key
                 /\ site_use'[u] \in Accesses(SiteKeys)
                 /\ site_use[u].op # "insert" \/ torn
      <4>1. PICK b \in BOOLEAN :
               b = (site_use[u].torn \/ site_use[u].op \in {"count", "insert"})
        OBVIOUS
      <4>2. site_use'[u] = [site_use[u] EXCEPT !.torn = b]
        BY <1>3, <3>1, <4>1 DEF CallSites!Insert
      <4>3. PICK a \in Accesses(SiteKeys) : a = site_use[u]
        BY <1>1
      <4>4. site_use'[u] = [a EXCEPT !.torn = b]
        BY <4>2, <4>3
      <4>5. [a EXCEPT !.torn = b] = [op |-> a.op, key |-> a.key, torn |-> b]
        BY DEF Accesses
      <4>6. site_use[u].op # "insert" \/ torn
        BY <2>2 DEF CallSites!Others
      <4>7. QED  BY <4>3, <4>4, <4>5, <4>6 DEF Accesses
    <3>2. QED  BY <3>1
  <2>5. site_use' \in [Threads -> Accesses(SiteKeys)]
    <3>1. site_use' = [u \in Threads |-> site_use'[u]]
      BY <1>3 DEF CallSites!Insert
    <3>2. \A u \in Threads : site_use'[u] \in Accesses(SiteKeys)
      BY <1>1, <2>3, <2>4
    <3>3. QED  BY <3>1, <3>2
  <2>6. \A k : KeyIn(callSiteMap, site_use, k) => KeyIn(callSiteMap', site_use', k)
    BY <2>1, <2>4 DEF KeyIn
  <2>7. \A u \in Threads : site_use'[u].op # "none" => site_use'[u].key \in SiteKeys
    BY <2>1, <2>3, <2>4 DEF SitesInv, MapInv
  <2>8. CASE torn
    BY <2>1, <2>2, <2>4, <2>5, <2>7, <2>8 DEF SitesInv, MapInv
  <2>9. CASE ~torn
    <3>0. sites_clashed' <=> sites_clashed
      BY <2>1, <2>2, <2>9, Zenon
    <3>1. /\ \A u \in Threads : site_use'[u].op = "insert" => u = t
          /\ ~site_use'[t].torn
      BY <2>3, <2>4, <2>9
    <3>2. \A u \in Threads : site_use'[u].op = "done" => site_use[u].op = "done" /\ u # t
      BY <2>3, <2>4
    <3>3. QED  BY <2>1, <2>4, <2>5, <2>6, <2>7, <3>0, <3>1, <3>2 DEF SitesInv, MapInv
  <2>10. QED  BY <2>8, <2>9
<1>4. CASE CallSites!Inserted(t)
  <2>1. /\ site_use[t].op = "insert" /\ sites_clashed' = sites_clashed
        /\ callSiteMap \subseteq callSiteMap'
        /\ site_use[t].torn \/ site_use[t].key \in callSiteMap'
    BY <1>4 DEF CallSites!Inserted
  <2>2. /\ site_use'[t] = Access("done", FALSE)
        /\ \A u \in Threads \ {t} : site_use'[u] = site_use[u]
    <3>1. PICK a \in Accesses(SiteKeys) : a = site_use[t]
      BY <1>1
    <3>2. /\ site_use'[t] = [a EXCEPT !.op = "done", !.torn = FALSE]
          /\ \A u \in Threads \ {t} : site_use'[u] = site_use[u]
      BY <1>1, <1>4, <3>1 DEF CallSites!Inserted
    <3>3. [a EXCEPT !.op = "done", !.torn = FALSE] = [op |-> "done", key |-> a.key, torn |-> FALSE]
      BY AccessDone
    <3>4. QED  BY <3>1, <3>2, <3>3
  <2>3. site_use' \in [Threads -> Accesses(SiteKeys)]
    BY <1>1, <1>4, <2>2 DEF CallSites!Inserted
  <2>4. sites_clashed \/ ~site_use[t].torn
    BY <2>1 DEF SitesInv, MapInv
  <2>5. \/ sites_clashed
        \/ \A k : KeyIn(callSiteMap, site_use, k) => KeyIn(callSiteMap', site_use', k)
    BY <2>1, <2>2, <2>4 DEF KeyIn
  <2>6. sites_clashed \/ KeyIn(callSiteMap', site_use', site_use[t].key)
    BY <2>1, <2>4 DEF KeyIn
  <2>7. QED  BY <2>1, <2>2, <2>3, <2>5, <2>6 DEF SitesInv, MapInv
<1>5. QED  BY <1>2, <1>3, <1>4 DEF CallSites!Access

LEMMA SiteLeft ==
    ASSUME SitesInv, NEW t \in Threads, CallSites!Leave(t)
    PROVE  /\ SitesInv' /\ (\A u \in Threads \ {t} : site_use'[u] = site_use[u])
           /\ site_use[t].op = "done" /\ site_use'[t].op = "none"
           /\ sites_clashed' = sites_clashed
           /\ \A k : KeyIn(callSiteMap, site_use, k) => KeyIn(callSiteMap', site_use', k)
           /\ sites_clashed \/ KeyIn(callSiteMap, site_use, site_use[t].key)
<1>1. /\ site_use[t].op = "done" /\ callSiteMap' = callSiteMap /\ sites_clashed' = sites_clashed
      /\ site_use' = [site_use EXCEPT ![t] = CallSites!Idle]
      /\ site_use \in [Threads -> Accesses(SiteKeys)]
  BY DEF CallSites!Leave, SitesInv, MapInv
<1>2. /\ site_use'[t] = CallSites!Idle /\ site_use'[t].op = "none"
      /\ \A u \in Threads \ {t} : site_use'[u] = site_use[u]
      /\ site_use' \in [Threads -> Accesses(SiteKeys)]
  BY <1>1 DEF Accesses, Keys, CallSites!Idle
<1>3. \A k : KeyIn(callSiteMap, site_use, k) => KeyIn(callSiteMap', site_use', k)
  BY <1>1, <1>2 DEF KeyIn
<1>4. QED  BY <1>1, <1>2, <1>3 DEF SitesInv, MapInv

\* The same of regionMap.
LEMMA RegionCounted ==
    ASSUME RegionsInv, NEW t \in Threads, NEW key \in Regions, RegionSites!Count(t, key)
    PROVE  /\ RegionsInv' /\ (\A u \in Threads \ {t} : region_use'[u] = region_use[u])
           /\ \A k : KeyIn(regionMap, region_use, k) => KeyIn(regionMap', region_use', k)
<1>1. /\ region_use[t].op = "none" /\ regionMap' = regionMap /\ regions_clashed' = regions_clashed
      /\ region_use' = [region_use EXCEPT ![t] = [op |-> "count", key |-> key,
                                                  torn |-> RegionSites!Others(t, "insert")]]
      /\ region_use \in [Threads -> Accesses(Regions)]
  BY DEF RegionSites!Count, RegionsInv, MapInv
<1>2. RegionSites!Others(t, "insert") \in BOOLEAN
  BY DEF RegionSites!Others
<1>3. PICK torn \in BOOLEAN : torn = RegionSites!Others(t, "insert")
  BY <1>2
<1>4. /\ region_use'[t] = [op |-> "count", key |-> key, torn |-> torn]
      /\ \A u \in Threads \ {t} : region_use'[u] = region_use[u]
      /\ region_use' \in [Threads -> Accesses(Regions)]
  BY <1>1, <1>3 DEF Accesses, Keys
<1>5. \A k : KeyIn(regionMap, region_use, k) => KeyIn(regionMap', region_use', k)
  BY <1>1, <1>4 DEF KeyIn
<1>6. QED  BY <1>1, <1>4, <1>5 DEF RegionsInv, MapInv

LEMMA RegionAccessed ==
    ASSUME RegionsInv, NEW t \in Threads, RegionSites!Access(t)
    PROVE  /\ RegionsInv'
           /\ \A u \in Threads \ {t} : region_use[u].op = "none" => region_use'[u].op = "none"
           /\ region_use[t].op # "none"
           /\ (regions_clashed => regions_clashed') /\ regionMap \subseteq regionMap'
           /\ \/ regions_clashed'
              \/ \A k : KeyIn(regionMap, region_use, k) => KeyIn(regionMap', region_use', k)
<1> DEFINE Access(op, torn) == [op |-> op, key |-> region_use[t].key, torn |-> torn]
<1>1. /\ region_use \in [Threads -> Accesses(Regions)]
      /\ \A u \in Threads : region_use[u] \in Accesses(Regions)
      /\ \A op \in {"none", "count", "insert", "done"}, torn \in BOOLEAN :
            Access(op, torn) \in Accesses(Regions)
  BY DEF RegionsInv, MapInv, Accesses
<1>2. CASE RegionSites!Found(t)
  <2>1. /\ region_use[t].op = "count" /\ KeyIn(regionMap, region_use, region_use[t].key)
        /\ regionMap' = regionMap /\ regions_clashed' = regions_clashed
    BY <1>2 DEF RegionSites!Found, KeyIn
  <2>2. /\ region_use'[t] = Access("done", FALSE)
        /\ \A u \in Threads \ {t} : region_use'[u] = region_use[u]
    <3>1. PICK a \in Accesses(Regions) : a = region_use[t]
      BY <1>1
    <3>2. /\ region_use'[t] = [a EXCEPT !.op = "done", !.torn = FALSE]
          /\ \A u \in Threads \ {t} : region_use'[u] = region_use[u]
      BY <1>1, <1>2, <3>1 DEF RegionSites!Found
    <3>3. [a EXCEPT !.op = "done", !.torn = FALSE] = [op |-> "done", key |-> a.key, torn |-> FALSE]
      BY AccessDone
    <3>4. QED  BY <3>1, <3>2, <3>3
  <2>3. region_use' \in [Threads -> Accesses(Regions)]
    BY <1>1, <1>2, <2>2 DEF RegionSites!Found
  <2>4. \A k : KeyIn(regionMap, region_use, k) => KeyIn(regionMap', region_use', k)
    BY <2>1, <2>2 DEF KeyIn
  <2>5. QED  BY <2>1, <2>2, <2>3, <2>4 DEF RegionsInv, MapInv
<1>3. CASE RegionSites!Insert(t)
  <2>1. /\ region_use[t].op = "count" /\ regionMap' = regionMap
        /\ regions_clashed' = (regions_clashed \/ RegionSites!Others(t, "insert"))
    BY <1>3 DEF RegionSites!Insert
  <2>2. PICK torn \in BOOLEAN : torn = RegionSites!Others(t, "insert")
    BY DEF RegionSites!Others
  <2>3. region_use'[t] = Access("insert", torn)
    BY <1>1, <1>3, <2>2 DEF RegionSites!Insert, Accesses
  <2>4. \A u \in Threads \ {t} :
           /\ region_use'[u].op = region_use[u].op /\ region_use'[u].key = region_use[u].key
           /\ region_use'[u] \in Accesses(Regions)
           /\ region_use[u].op # "insert" \/ torn
    <3>1. ASSUME NEW u \in Threads \ {t}
          PROVE  /\ region_use'[u].op = region_use[u].op /\ region_use'[u].key = region_use[u].key
                 /\ region_use'[u] \in Accesses(Regions)
                 /\ region_use[u].op # "insert" \/ torn
      <4>1. PICK b \in BOOLEAN :
               b = (region_use[u].torn \/ region_use[u].op \in {"count", "insert"})
        OBVIOUS
      <4>2. region_use'[u] = [region_use[u] EXCEPT !.torn = b]
        BY <1>3, <3>1, <4>1 DEF RegionSites!Insert
      <4>3. PICK a \in Accesses(Regions) : a = region_use[u]
        BY <1>1
      <4>4. region_use'[u] = [a EXCEPT !.torn = b]
        BY <4>2, <4>3
      <4>5. [a EXCEPT !.torn = b] = [op |-> a.op, key |-> a.key, torn |-> b]
        BY DEF Accesses
      <4>6. region_use[u].op # "insert" \/ torn
        BY <2>2 DEF RegionSites!Others
      <4>7. QED  BY <4>3, <4>4, <4>5, <4>6 DEF Accesses
    <3>2. QED  BY <3>1
  <2>5. region_use' \in [Threads -> Accesses(Regions)]
    <3>1. region_use' = [u \in Threads |-> region_use'[u]]
      BY <1>3 DEF RegionSites!Insert
    <3>2. \A u \in Threads : region_use'[u] \in Accesses(Regions)
      BY <1>1, <2>3, <2>4
    <3>3. QED  BY <3>1, <3>2
  <2>6. \A k : KeyIn(regionMap, region_use, k) => KeyIn(regionMap', region_use', k)
    BY <2>1, <2>4 DEF KeyIn
  <2>7. \A u \in Threads : region_use'[u].op # "none" => region_use'[u].key \in Regions
    BY <2>1, <2>3, <2>4 DEF RegionsInv, MapInv
  <2>8. CASE torn
    BY <2>1, <2>2, <2>4, <2>5, <2>7, <2>8 DEF RegionsInv, MapInv
  <2>9. CASE ~torn
    <3>0. regions_clashed' <=> regions_clashed
      BY <2>1, <2>2, <2>9, Zenon
    <3>1. /\ \A u \in Threads : region_use'[u].op = "insert" => u = t
          /\ ~region_use'[t].torn
      BY <2>3, <2>4, <2>9
    <3>2. \A u \in Threads : region_use'[u].op = "done" => region_use[u].op = "done" /\ u # t
      BY <2>3, <2>4
    <3>3. QED  BY <2>1, <2>4, <2>5, <2>6, <2>7, <3>0, <3>1, <3>2 DEF RegionsInv, MapInv
  <2>10. QED  BY <2>8, <2>9
<1>4. CASE RegionSites!Inserted(t)
  <2>1. /\ region_use[t].op = "insert" /\ regions_clashed' = regions_clashed
        /\ regionMap \subseteq regionMap'
        /\ region_use[t].torn \/ region_use[t].key \in regionMap'
    BY <1>4 DEF RegionSites!Inserted
  <2>2. /\ region_use'[t] = Access("done", FALSE)
        /\ \A u \in Threads \ {t} : region_use'[u] = region_use[u]
    <3>1. PICK a \in Accesses(Regions) : a = region_use[t]
      BY <1>1
    <3>2. /\ region_use'[t] = [a EXCEPT !.op = "done", !.torn = FALSE]
          /\ \A u \in Threads \ {t} : region_use'[u] = region_use[u]
      BY <1>1, <1>4, <3>1 DEF RegionSites!Inserted
    <3>3. [a EXCEPT !.op = "done", !.torn = FALSE] = [op |-> "done", key |-> a.key, torn |-> FALSE]
      BY AccessDone
    <3>4. QED  BY <3>1, <3>2, <3>3
  <2>3. region_use' \in [Threads -> Accesses(Regions)]
    BY <1>1, <1>4, <2>2 DEF RegionSites!Inserted
  <2>4. regions_clashed \/ ~region_use[t].torn
    BY <2>1 DEF RegionsInv, MapInv
  <2>5. \/ regions_clashed
        \/ \A k : KeyIn(regionMap, region_use, k) => KeyIn(regionMap', region_use', k)
    BY <2>1, <2>2, <2>4 DEF KeyIn
  <2>6. regions_clashed \/ KeyIn(regionMap', region_use', region_use[t].key)
    BY <2>1, <2>4 DEF KeyIn
  <2>7. QED  BY <2>1, <2>2, <2>3, <2>5, <2>6 DEF RegionsInv, MapInv
<1>5. QED  BY <1>2, <1>3, <1>4 DEF RegionSites!Access

LEMMA RegionLeft ==
    ASSUME RegionsInv, NEW t \in Threads, RegionSites!Leave(t)
    PROVE  /\ RegionsInv' /\ (\A u \in Threads \ {t} : region_use'[u] = region_use[u])
           /\ region_use[t].op = "done" /\ region_use'[t].op = "none"
           /\ regions_clashed' = regions_clashed
           /\ \A k : KeyIn(regionMap, region_use, k) => KeyIn(regionMap', region_use', k)
           /\ regions_clashed \/ KeyIn(regionMap, region_use, region_use[t].key)
<1>1. /\ region_use[t].op = "done" /\ regionMap' = regionMap /\ regions_clashed' = regions_clashed
      /\ region_use' = [region_use EXCEPT ![t] = RegionSites!Idle]
      /\ region_use \in [Threads -> Accesses(Regions)]
  BY DEF RegionSites!Leave, RegionsInv, MapInv
<1>2. /\ region_use'[t] = RegionSites!Idle /\ region_use'[t].op = "none"
      /\ \A u \in Threads \ {t} : region_use'[u] = region_use[u]
      /\ region_use' \in [Threads -> Accesses(Regions)]
  BY <1>1 DEF Accesses, Keys, RegionSites!Idle
<1>3. \A k : KeyIn(regionMap, region_use, k) => KeyIn(regionMap', region_use', k)
  BY <1>1, <1>2 DEF KeyIn
<1>4. QED  BY <1>1, <1>2, <1>3 DEF RegionsInv, MapInv

(******************************************************************************)
(* The maps and the hooks                                                     *)
(******************************************************************************)

\* A thread looks up a site in CaptureSetTaskId, a region in __optimize_end__.
SitesInSpawns ==
    \A t \in Threads : site_use[t].op # "none" => hook[t] = "in" /\ At(t, "capture")

RegionsInSteps ==
    \A t \in Threads : region_use[t].op # "none" => hook[t] = "in" /\ At(t, "run")

\* Every site in the reports, and every region that has ended, is in its map or
\* about to be.
SitesKnown ==
    sites_clashed \/ \A e \in Entries : e.ret_addr # 0 => KeyIn(callSiteMap, site_use, e.ret_addr)

RegionsKnown ==
    regions_clashed \/ \A r \in annotated : KeyIn(regionMap, region_use, r)

\* Main may come to a region's end after Fini, when nobody else is anywhere.
RegionsWritten ==
    finished => /\ regions_clashed \/ annotated \subseteq regionMap
                /\ \A t \in Threads \ {Main} : region_use[t].op = "none"

MapsInv ==
    /\ SitesInv /\ RegionsInv /\ SitesInSpawns /\ RegionsInSteps
    /\ SitesKnown /\ RegionsKnown /\ RegionsWritten

\* What is logged joins the entries, and nothing else does.
LEMMA LogAdds ==
    ASSUME GraphTypeOK, NEW t \in Threads, NEW es \in Seq(LogEntry), Log(t, es)
    PROVE  \A e \in Entries' : e \in Entries \/ \E i \in DOMAIN es : e = es[i]
<1>1. /\ report[t] \in Seq(LogEntry)
      /\ report'[t] = report[t] \o es /\ \A u \in Threads \ {t} : report'[u] = report[u]
  BY DEF Log, GraphTypeOK
<1>2. \A i \in DOMAIN report'[t] :
         \/ \E j \in DOMAIN report[t] : report'[t][i] = report[t][j]
         \/ \E j \in DOMAIN es : report'[t][i] = es[j]
  <2>1. PICK old \in Seq(LogEntry) : old = report[t]
    BY <1>1
  <2>2. \A i \in DOMAIN (old \o es) :
           \/ \E j \in DOMAIN old : (old \o es)[i] = old[j]
           \/ \E j \in DOMAIN es : (old \o es)[i] = es[j]
    <3>1. ASSUME NEW i \in 1 .. Len(old) + Len(es)
          PROVE  \/ \E j \in DOMAIN old : (old \o es)[i] = old[j]
                 \/ \E j \in DOMAIN es : (old \o es)[i] = es[j]
      <4>1. CASE i <= Len(old)
        BY <4>1, ConcatProperties, LenProperties
      <4>2. CASE i > Len(old)
        <5>1. i - Len(old) \in 1 .. Len(es) /\ (old \o es)[i] = es[i - Len(old)]
          BY <4>2, ConcatProperties, LenProperties
        <5>2. QED  BY <5>1, LenProperties
      <4>3. QED  BY <4>1, <4>2, LenProperties
    <3>2. DOMAIN (old \o es) = 1 .. Len(old) + Len(es)
      BY ConcatProperties, LenProperties
    <3>3. QED  BY <3>1, <3>2
  <2>3. QED  BY <1>1, <2>1, <2>2
<1>3. ASSUME NEW e \in Entries'
      PROVE  e \in Entries \/ \E i \in DOMAIN es : e = es[i]
  <2>1. PICK u \in Threads : \E i \in DOMAIN report'[u] : e = report'[u][i]
    BY DEF Entries, Logged
  <2>2. \A j \in DOMAIN report[u] : report[u][j] \in Entries
    BY DEF Entries, Logged
  <2>3. PICK i \in DOMAIN report'[u] : e = report'[u][i]
    BY <2>1
  <2>4. CASE u = t
    <3>1. i \in DOMAIN report'[t] /\ e = report'[t][i]
      BY <2>3, <2>4
    <3>2. CASE \E j \in DOMAIN report[t] : report'[t][i] = report[t][j]
      BY <2>2, <2>4, <3>1, <3>2
    <3>3. CASE \E j \in DOMAIN es : report'[t][i] = es[j]
      BY <3>1, <3>3
    <3>4. QED  BY <1>2, <3>1, <3>2, <3>3
  <2>5. CASE u # t
    <3>1. report'[u] = report[u]
      BY <1>1, <2>5
    <3>2. QED  BY <2>2, <2>3, <3>1
  <2>6. QED  BY <2>4, <2>5
<1>4. QED  BY <1>3

\* The steps log no site.
LEMMA StepLogged ==
    ASSUME TypeOK, NEW t \in Threads, LogStep(t), cur_dpst_index[t] # <<>>,
           NoDangling
    PROVE  \A e \in Entries' : e \in Entries \/ e.ret_addr = 0
<1>1. PICK entry \in LogEntry : entry = Entry(getCurStepId(t), getCurStepParent(t), STEP, 0)
  BY TopAllocated DEF TypeOK, GraphTypeOK, AFTask, Entry, LogEntry, getCurStepId, getCurStepParent
<1>2. Log(t, <<entry>>) /\ entry.ret_addr = 0 /\ <<entry>> \in Seq(LogEntry)
  BY <1>1 DEF LogStep, Entry
<1>3. GraphTypeOK /\ DOMAIN <<entry>> = {1} /\ <<entry>>[1] = entry
  BY DEF TypeOK
<1>4. \A e \in Entries' : e \in Entries \/ \E i \in DOMAIN <<entry>> : e = <<entry>>[i]
  BY <1>2, <1>3, LogAdds
<1>5. QED  BY <1>2, <1>3, <1>4

\* A spawn logs its site.
LEMMA SpawnLogged ==
    ASSUME CollectionAssumption, TypeOK, NoDangling, NEW t \in Threads,
           NEW site \in SpawnSites \cup RootSites, SpawnCaptureAt(t, site)
    PROVE  \A e \in Entries' : e \in Entries \/ e.ret_addr \in {0, site}
<1> DEFINE new == last_allocated_node
<1>1. GraphTypeOK /\ site \in Nat /\ new \in Nat
  BY DEF TypeOK, GraphTypeOK, CollectionAssumption
<1>2. cur_dpst_index[t] # <<>>
  BY DEF SpawnCaptureAt, CaptureSpawnOnly, CaptureSpawnAndWait, CaptureSpawnAndWaitForAll
<1>3. PICK cur \in Nat : cur = Top(t)
  BY <1>1, <1>2, TopAllocated
<1>4. /\ Entry(new, cur, ASYNC, site) \in LogEntry /\ Entry(new, cur, FINISH, site) \in LogEntry
      /\ Entry(new, cur, FINISH, 0) \in LogEntry /\ Entry(new + 1, new, ASYNC, site) \in LogEntry
  BY <1>1 DEF Entry, LogEntry
<1>5. \/ Log(t, <<Entry(new, cur, ASYNC, site)>>)
      \/ Log(t, <<Entry(new, cur, FINISH, site)>>)
      \/ Log(t, <<Entry(new, cur, FINISH, 0), Entry(new + 1, new, ASYNC, site)>>)
  BY <1>3 DEF SpawnCaptureAt, CaptureSpawnOnly, CaptureSpawnAndWait, CaptureSpawnAndWaitForAll,
              AddAsync, AddFinishAndAsync
<1>6. ASSUME NEW entry \in LogEntry, entry.ret_addr \in {0, site}, Log(t, <<entry>>)
      PROVE  \A e \in Entries' : e \in Entries \/ e.ret_addr \in {0, site}
  <2>1. <<entry>> \in Seq(LogEntry) /\ DOMAIN <<entry>> = {1} /\ <<entry>>[1] = entry
    OBVIOUS
  <2>2. \A e \in Entries' : e \in Entries \/ \E i \in DOMAIN <<entry>> : e = <<entry>>[i]
    BY <1>1, <1>6, <2>1, LogAdds
  <2>3. QED  BY <1>6, <2>1, <2>2
<1>7. ASSUME NEW one \in LogEntry, NEW two \in LogEntry, Log(t, <<one, two>>),
             one.ret_addr \in {0, site}, two.ret_addr \in {0, site}
      PROVE  \A e \in Entries' : e \in Entries \/ e.ret_addr \in {0, site}
  <2>1. /\ <<one, two>> \in Seq(LogEntry) /\ DOMAIN <<one, two>> = {1, 2}
        /\ <<one, two>>[1] = one /\ <<one, two>>[2] = two
    OBVIOUS
  <2>2. \A e \in Entries' : e \in Entries \/ \E i \in DOMAIN <<one, two>> : e = <<one, two>>[i]
    BY <1>1, <1>7, <2>1, LogAdds
  <2>3. QED  BY <1>7, <2>1, <2>2
<1>8. /\ Entry(new, cur, ASYNC, site).ret_addr = site /\ Entry(new, cur, FINISH, site).ret_addr = site
      /\ Entry(new, cur, FINISH, 0).ret_addr = 0 /\ Entry(new + 1, new, ASYNC, site).ret_addr = site
  BY DEF Entry
<1> HIDE DEF new
<1>9. QED  BY <1>4, <1>5, <1>6, <1>7, <1>8

\* A step of the program is of the thread's own tasks, and does not end it.
LEMMA OwnTasks ==
    ASSUME TypeOK, NEW t \in Threads, ThreadStep(t)
    PROVE  /\ \A u \in Threads \ {t} : frames'[u] = frames[u]
           /\ finished' = finished
  BY DEF TypeOK, ThreadStep, SpawnEntry, SpawnCapture, SpawnCaptureAt, SpawnExit, WaitEntry, Join,
         TakeTask, RunChild, ExecEnd, Begin, SetTop

\* All but the spawn itself log no site.
LEMMA OthersLogged ==
    ASSUME TypeOK, NoDangling, NEW t \in Threads,
           \/ \E k \in Tasks : TakeTask(t, k)
           \/ \E op \in {"spawn", "root", "both"} : SpawnEntry(t, op)
           \/ SpawnExit(t) \/ WaitEntry(t) \/ Join(t) \/ RunChild(t) \/ ExecEnd(t)
    PROVE  \A e \in Entries' : e \in Entries \/ e.ret_addr = 0
<1>1. CASE LogStep(t)
  BY <1>1, StepLogged DEF LogStep
<1>2. CASE report' = report
  BY <1>2 DEF Entries, Logged
<1>3. LogStep(t) \/ report' = report
  BY DEF TakeTask, SpawnEntry, SpawnExit, WaitEntry, Join, RunChild, ExecEnd, Begin
<1>4. QED  BY <1>1, <1>2, <1>3

\* What a thread is doing in the maps is not disturbed by another one's hook.
LEMMA StillThere ==
    ASSUME NEW use, NEW where, NEW u \in Threads,
           use[u].op # "none" => hook[u] = "in" /\ At(u, where),
           hook[u] = "in" => hook'[u] = "in", frames'[u] = frames[u]
    PROVE  use[u].op # "none" => hook'[u] = "in" /\ At(u, where)'
  BY DEF At, TopFrame

LEMMA RecordedKeepsMaps ==
    ASSUME CollectionAssumption, IInv, IdsInv, MapsInv, NEW t \in Threads, Recorded(t)
    PROVE  MapsInv'
<1>1. /\ ThreadStep(t) /\ hook[t] = "in" /\ region_use[t].op = "none"
      /\ hook' = [hook EXCEPT ![t] = "out"]
      /\ regionMap' = regionMap /\ region_use' = region_use
      /\ regions_clashed' = regions_clashed /\ annotated' = annotated
  BY DEF Recorded, ThreadStep, SpawnCapture, regionVars
<1>2. /\ TypeOK /\ NoDangling
      /\ \A u \in Threads \ {t} : frames'[u] = frames[u] /\ hook'[u] = hook[u]
      /\ finished' = finished
  BY <1>1, OwnTasks DEF IInv, NodeOwnership, IdsInv
<1>3. RegionsInv' /\ RegionsKnown' /\ RegionsWritten'
  BY <1>1, <1>2 DEF MapsInv, RegionsInv, RegionsKnown, RegionsWritten, MapInv, KeyIn
<1>4. RegionsInSteps'
  BY <1>1, <1>2, StillThere DEF MapsInv, RegionsInSteps
<1>5. ASSUME SitesInv', site_use'[t].op = "none", \A u \in Threads \ {t} : site_use'[u] = site_use[u],
             sites_clashed' = sites_clashed,
             \A k : KeyIn(callSiteMap, site_use, k) => KeyIn(callSiteMap', site_use', k),
             NEW site, \A e \in Entries' : e \in Entries \/ e.ret_addr \in {0, site},
             site = 0 \/ sites_clashed \/ KeyIn(callSiteMap, site_use, site)
      PROVE  MapsInv'
  <2>1. SitesInSpawns'
    BY <1>2, <1>5, StillThere DEF MapsInv, SitesInSpawns
  <2>2. SitesKnown'
    BY <1>5 DEF MapsInv, SitesKnown
  <2>3. QED  BY <1>3, <1>4, <1>5, <2>1, <2>2 DEF MapsInv
<1>6. ASSUME NEW site \in SpawnSites \cup RootSites, SpawnCaptureAt(t, site), Registered(t, site)
      PROVE  MapsInv'
  <2>1. \A e \in Entries' : e \in Entries \/ e.ret_addr \in {0, site}
    BY <1>2, <1>6, SpawnLogged
  <2>2. CASE site = 0
    <3>1. /\ site_use[t].op = "none" /\ site_use' = site_use /\ callSiteMap' = callSiteMap
          /\ sites_clashed' = sites_clashed
      BY <1>6, <2>2 DEF Registered, siteVars
    <3>2. SitesInv'
      BY <3>1 DEF MapsInv, SitesInv, MapInv, KeyIn
    <3>3. \A k : KeyIn(callSiteMap, site_use, k) => KeyIn(callSiteMap', site_use', k)
      BY <3>1 DEF KeyIn
    <3>4. QED  BY <1>5, <2>1, <2>2, <3>1, <3>2, <3>3
  <2>3. CASE site # 0
    <3>1. site_use[t].key = site /\ CallSites!Leave(t)
      BY <1>6, <2>3 DEF Registered
    <3>2. /\ SitesInv' /\ (\A u \in Threads \ {t} : site_use'[u] = site_use[u])
          /\ site_use'[t].op = "none" /\ sites_clashed' = sites_clashed
          /\ \A k : KeyIn(callSiteMap, site_use, k) => KeyIn(callSiteMap', site_use', k)
          /\ sites_clashed \/ KeyIn(callSiteMap, site_use, site_use[t].key)
      BY <3>1, SiteLeft DEF MapsInv
    <3>3. QED  BY <1>5, <2>1, <3>1, <3>2
  <2>4. QED  BY <2>2, <2>3
<1>7. ASSUME \/ \E k \in Tasks : TakeTask(t, k)
             \/ \E op \in {"spawn", "root", "both"} : SpawnEntry(t, op)
             \/ SpawnExit(t) \/ WaitEntry(t) \/ Join(t) \/ RunChild(t) \/ ExecEnd(t),
             UNCHANGED siteVars
      PROVE  MapsInv'
  <2>1. \A e \in Entries' : e \in Entries \/ e.ret_addr = 0
    BY <1>2, <1>7, OthersLogged
  <2>2. ~At(t, "capture")
    BY <1>7 DEF TakeTask, SpawnEntry, SpawnExit, WaitEntry, Join, RunChild, ExecEnd, At
  <2>3. /\ site_use[t].op = "none" /\ site_use' = site_use /\ callSiteMap' = callSiteMap
        /\ sites_clashed' = sites_clashed
    BY <1>7, <2>2 DEF MapsInv, SitesInSpawns, siteVars
  <2>4. SitesInv'
    BY <2>3 DEF MapsInv, SitesInv, MapInv, KeyIn
  <2>5. \A k : KeyIn(callSiteMap, site_use, k) => KeyIn(callSiteMap', site_use', k)
    BY <2>3 DEF KeyIn
  <2>6. \A e \in Entries' : e \in Entries \/ e.ret_addr \in {0, 0}
    BY <2>1
  <2>7. QED  BY <1>5, <2>3, <2>4, <2>5, <2>6
<1>8. QED  BY <1>6, <1>7 DEF Recorded

LEMMA LookUpSiteKeepsMaps ==
    ASSUME MapsInv, NEW t \in Threads, LookUpSite(t)
    PROVE  MapsInv'
<1>1. /\ hook[t] = "in" /\ At(t, "capture") /\ frames' = frames /\ hook' = hook
      /\ regionMap' = regionMap /\ region_use' = region_use /\ report' = report
      /\ regions_clashed' = regions_clashed /\ annotated' = annotated /\ finished' = finished
  BY DEF LookUpSite, vars, scheduler, regionVars
<1>2. /\ SitesInv' /\ (sites_clashed => sites_clashed')
      /\ \A u \in Threads \ {t} : site_use[u].op = "none" => site_use'[u].op = "none"
      /\ \/ sites_clashed'
         \/ \A k : KeyIn(callSiteMap, site_use, k) => KeyIn(callSiteMap', site_use', k)
  <2>1. CASE CallSites!Access(t)
    BY <2>1, SiteAccessed DEF MapsInv
  <2>2. ASSUME NEW site \in (IF TopFrame(t).op = "root" THEN RootSites ELSE SpawnSites) \ {0},
               CallSites!Count(t, site)
        PROVE  /\ SitesInv' /\ (\A u \in Threads \ {t} : site_use'[u] = site_use[u])
               /\ sites_clashed' = sites_clashed
               /\ \A k : KeyIn(callSiteMap, site_use, k) => KeyIn(callSiteMap', site_use', k)
    <3>1. site \in SiteKeys
      BY <2>2 DEF SiteKeys
    <3>2. QED  BY <2>2, <3>1, SiteCounted DEF MapsInv, CallSites!Count
  <2>3. QED  BY <2>1, <2>2 DEF LookUpSite
<1>3. SitesInSpawns' /\ RegionsInSteps'
  BY <1>1, <1>2 DEF MapsInv, SitesInSpawns, RegionsInSteps, At, TopFrame
<1>4. SitesKnown'
  <2>1. Entries' = Entries
    BY <1>1 DEF Entries, Logged
  <2>2. QED  BY <1>2, <2>1 DEF MapsInv, SitesKnown
<1>5. RegionsInv' /\ RegionsKnown' /\ RegionsWritten'
  BY <1>1 DEF MapsInv, RegionsInv, RegionsKnown, RegionsWritten, MapInv, KeyIn
<1>6. QED  BY <1>2, <1>3, <1>4, <1>5 DEF MapsInv

\* Only main is anywhere when Fini has run.
LEMMA MainIsLast ==
    ASSUME AllJoined, finished, NEW t \in Threads, At(t, "run") \/ At(t, "capture")
    PROVE  t = Main /\ At(t, "run")
  BY DEF AllJoined, At

LEMMA LookUpRegionKeepsMaps ==
    ASSUME JInv, IdsInv, MapsInv, NEW t \in Threads, LookUpRegion(t)
    PROVE  MapsInv'
<1>1. /\ hook[t] = "in" /\ At(t, "run") /\ frames' = frames /\ report' = report
      /\ callSiteMap' = callSiteMap /\ site_use' = site_use /\ sites_clashed' = sites_clashed
      /\ finished' = finished
  BY DEF LookUpRegion, vars, scheduler, siteVars
<1>2. SitesInv' /\ SitesKnown'
  BY <1>1 DEF MapsInv, SitesInv, SitesKnown, MapInv, KeyIn, Entries, Logged
<1>3. finished => t = Main /\ \A u \in Threads \ {Main} : region_use[u].op = "none"
  <2>1. AllJoined
    BY DEF JInv
  <2>2. QED  BY <1>1, <2>1, MainIsLast DEF MapsInv, RegionsWritten
<1>4. ASSUME RegionsInv',
             \A u \in Threads \ {t} : region_use[u].op = "none" => region_use'[u].op = "none",
             regions_clashed => regions_clashed', regionMap \subseteq regionMap',
             \/ regions_clashed'
             \/ \A k : KeyIn(regionMap, region_use, k) => KeyIn(regionMap', region_use', k),
             annotated' = annotated, hook' = hook
      PROVE  MapsInv'
  <2>1. SitesInSpawns' /\ RegionsInSteps'
    BY <1>1, <1>4 DEF MapsInv, SitesInSpawns, RegionsInSteps, At, TopFrame
  <2>2. RegionsKnown'
    BY <1>4 DEF MapsInv, RegionsKnown
  <2>3. RegionsWritten'
    BY <1>1, <1>3, <1>4 DEF MapsInv, RegionsWritten
  <2>4. QED  BY <1>2, <1>4, <2>1, <2>2, <2>3 DEF MapsInv
<1>5. CASE (\E r \in Regions : RegionSites!Count(t, r)) /\ UNCHANGED <<annotated, hook>>
  <2>1. PICK r \in Regions : RegionSites!Count(t, r)
    BY <1>5
  <2>2. /\ RegionsInv' /\ (\A u \in Threads \ {t} : region_use'[u] = region_use[u])
        /\ \A k : KeyIn(regionMap, region_use, k) => KeyIn(regionMap', region_use', k)
        /\ regionMap' = regionMap /\ regions_clashed' = regions_clashed
    BY <2>1, RegionCounted DEF MapsInv, RegionSites!Count
  <2>3. QED  BY <1>4, <1>5, <2>2
<1>6. CASE RegionSites!Access(t) /\ UNCHANGED <<annotated, hook>>
  BY <1>4, <1>6, RegionAccessed DEF MapsInv
<1>7. CASE /\ RegionSites!Leave(t) /\ annotated' = annotated \cup {region_use[t].key}
           /\ hook' = [hook EXCEPT ![t] = "out"]
  <2>1. /\ RegionsInv' /\ (\A u \in Threads \ {t} : region_use'[u] = region_use[u])
        /\ region_use[t].op = "done" /\ region_use'[t].op = "none"
        /\ regions_clashed' = regions_clashed /\ regionMap' = regionMap
        /\ \A k : KeyIn(regionMap, region_use, k) => KeyIn(regionMap', region_use', k)
        /\ regions_clashed \/ KeyIn(regionMap, region_use, region_use[t].key)
    BY <1>7, RegionLeft DEF MapsInv, RegionSites!Leave
  <2>2. \A u \in Threads \ {t} : hook'[u] = hook[u]
    BY <1>7 DEF IdsInv
  <2>3. site_use[t].op = "none"
    BY <1>1 DEF MapsInv, SitesInSpawns, At
  <2>4. SitesInSpawns' /\ RegionsInSteps'
    BY <1>1, <2>1, <2>2, <2>3 DEF MapsInv, SitesInSpawns, RegionsInSteps, At, TopFrame
  <2>5. RegionsKnown'
    BY <1>7, <2>1 DEF MapsInv, RegionsKnown
  <2>6. RegionsWritten'
    <3>1. finished => regions_clashed \/ region_use[t].key \in regionMap
      BY <1>3, <2>1 DEF KeyIn
    <3>2. QED  BY <1>1, <1>3, <1>7, <2>1, <3>1 DEF MapsInv, RegionsWritten
  <2>7. QED  BY <1>2, <2>1, <2>4, <2>5, <2>6 DEF MapsInv
<1>8. QED  BY <1>5, <1>6, <1>7 DEF LookUpRegion

LEMMA EndsKeepsMaps ==
    ASSUME IInv, JInv', MapsInv, Ends
    PROVE  MapsInv'
<1>1. /\ frames' = frames /\ hook' = hook /\ annotated' = annotated
      /\ callSiteMap' = callSiteMap /\ site_use' = site_use /\ sites_clashed' = sites_clashed
      /\ regionMap' = regionMap /\ region_use' = region_use /\ regions_clashed' = regions_clashed
      /\ LogStep(Main) /\ finished' = TRUE /\ region_use[Main].op = "none" /\ Main \in Threads
  BY DEF Ends, Fini, siteVars, regionVars, Threads
<1>2. SitesInv' /\ RegionsInv' /\ SitesInSpawns' /\ RegionsInSteps' /\ RegionsKnown'
  BY <1>1 DEF MapsInv, SitesInv, RegionsInv, SitesInSpawns, RegionsInSteps, RegionsKnown,
              MapInv, KeyIn, At, TopFrame
<1>3. SitesKnown'
  <2>1. \A e \in Entries' : e \in Entries \/ e.ret_addr = 0
    BY <1>1, StepLogged DEF LogStep, IInv, NodeOwnership
  <2>2. QED  BY <1>1, <2>1 DEF MapsInv, SitesKnown, KeyIn
<1>4. \A t \in Threads : region_use[t].op = "none"
  <2>1. \A t \in Threads \ {Main} : frames[t] = <<>>
    BY <1>1 DEF JInv, AllJoined
  <2>2. QED  BY <1>1, <2>1 DEF MapsInv, RegionsInSteps, At
<1>5. RegionsWritten'
  BY <1>1, <1>4 DEF MapsInv, RegionsKnown, RegionsWritten, KeyIn
<1>6. QED  BY <1>2, <1>3, <1>5 DEF MapsInv

\* What passes between the program and the maps.
LEMMA ElsewhereKeepsMaps ==
    ASSUME MapsInv, UNCHANGED <<vars, siteVars, regionVars>>,
           \A t \in Threads : hook[t] = "in" => hook'[t] = "in"
    PROVE  MapsInv'
<1>1. /\ frames' = frames /\ annotated' = annotated /\ report' = report /\ finished' = finished
      /\ callSiteMap' = callSiteMap /\ site_use' = site_use /\ sites_clashed' = sites_clashed
      /\ regionMap' = regionMap /\ region_use' = region_use /\ regions_clashed' = regions_clashed
  BY DEF vars, scheduler, siteVars, regionVars
<1>2. SitesInv' /\ RegionsInv' /\ SitesInSpawns' /\ RegionsInSteps' /\ RegionsKnown'
  BY <1>1 DEF MapsInv, SitesInv, RegionsInv, SitesInSpawns, RegionsInSteps, RegionsKnown,
              MapInv, KeyIn, At, TopFrame
<1>3. SitesKnown' /\ RegionsWritten'
  BY <1>1 DEF MapsInv, SitesKnown, RegionsWritten, KeyIn, Entries, Logged
<1>4. QED  BY <1>2, <1>3 DEF MapsInv

LEMMA HooksNextMaps ==
    ASSUME CollectionAssumption, IInv, JInv, JInv', IdsInv, MapsInv, [HooksNext]_hookVars
    PROVE  MapsInv'
<1>1. ASSUME NEW t \in Threads, HookStep(t)
      PROVE  MapsInv'
  <2>1. CASE Recorded(t)
    BY <2>1, RecordedKeepsMaps
  <2>2. CASE LookUpSite(t)
    BY <2>2, LookUpSiteKeepsMaps
  <2>3. CASE LookUpRegion(t)
    BY <2>3, LookUpRegionKeepsMaps
  <2>4. CASE LockAndCount(t)
    <3>1. \A u \in Threads : hook[u] = "in" => hook'[u] = "in"
      BY <2>4 DEF LockAndCount, IdsInv
    <3>2. QED  BY <2>4, <3>1, ElsewhereKeepsMaps DEF LockAndCount
  <2>5. CASE InsertTid(t) \/ ReadTid(t)
    <3>1. \A u \in Threads : hook[u] = "in" => hook'[u] = "in"
      BY <2>5 DEF InsertTid, ReadTid, IdsInv
    <3>2. QED  BY <2>5, <3>1, ElsewhereKeepsMaps DEF InsertTid, ReadTid
  <2>6. QED  BY <1>1, <2>1, <2>2, <2>3, <2>4, <2>5 DEF HookStep
<1>2. ASSUME NEW t \in Threads, Fails(t)
      PROVE  MapsInv'
  BY <1>2, ElsewhereKeepsMaps DEF Fails
<1>3. CASE Ends
  BY <1>3, EndsKeepsMaps
<1>4. CASE UNCHANGED hookVars
  BY <1>4, ElsewhereKeepsMaps DEF hookVars
<1>5. QED  BY <1>1, <1>2, <1>3, <1>4 DEF HooksNext

LEMMA InitMaps == HooksInit => MapsInv
<1> SUFFICES ASSUME HooksInit
             PROVE  MapsInv
  OBVIOUS
<1>1. /\ site_use = [t \in Threads |-> CallSites!Idle] /\ region_use = [t \in Threads |-> RegionSites!Idle]
      /\ annotated = {} /\ finished = FALSE
      /\ report = [t \in Threads |-> IF t = Main THEN <<Entry(1, 0, FINISH, 0)>> ELSE <<>>]
  BY DEF HooksInit, Init, GraphInit, CallSites!Init, RegionSites!Init
<1>2. CallSites!Idle.op = "none" /\ RegionSites!Idle.op = "none"
  BY DEF CallSites!Idle, RegionSites!Idle
<1>3. SitesInv /\ RegionsInv
  BY <1>1 DEF SitesInv, RegionsInv, MapInv, Accesses, Keys, CallSites!Idle, RegionSites!Idle
<1>4. SitesInSpawns /\ RegionsInSteps /\ RegionsKnown /\ RegionsWritten
  BY <1>1, <1>2 DEF SitesInSpawns, RegionsInSteps, RegionsKnown, RegionsWritten
<1>5. SitesKnown
  <2>1. ASSUME NEW e \in Entries
        PROVE  e.ret_addr = 0
    <3>1. PICK t \in Threads : \E i \in DOMAIN report[t] : e = report[t][i]
      BY DEF Entries, Logged
    <3>2. DOMAIN <<>> = {} /\ DOMAIN <<Entry(1, 0, FINISH, 0)>> = {1}
      OBVIOUS
    <3>3. e = Entry(1, 0, FINISH, 0)
      BY <1>1, <3>1, <3>2
    <3>4. QED  BY <3>3 DEF Entry
  <2>2. QED  BY <2>1 DEF SitesKnown
<1>6. QED  BY <1>3, <1>4, <1>5 DEF MapsInv

THEOREM MapsKept == HooksSpec => [](IInv /\ JInv /\ IdsInv /\ MapsInv)
<1>1. HooksInit => MapsInv
  BY InitMaps
<1>2. IInv /\ JInv /\ JInv' /\ IdsInv /\ MapsInv /\ [HooksNext]_hookVars => MapsInv'
  BY HooksNextMaps, CollectionAssumption
<1>3. HooksInit => IdsInv
  BY InitIds
<1>4. IdsInv /\ [HooksNext]_hookVars => IdsInv'
  BY HooksNextIds, MainAssumption
<1>5. HooksSpec => []IdsInv
  BY <1>3, <1>4, PTL DEF HooksSpec
<1>6. HooksSpec => []IInv /\ []JInv
  BY HooksAreInvisible, Invariance, Placement, PTL
<1>7. QED  BY <1>1, <1>2, <1>5, <1>6, PTL DEF HooksSpec

(* dumpCallsiteInfo and dumpRegionInfo write every site of the reports and    *)
(* every region that has ended, for any number of workers, unless insertions  *)
(* have overlapped.                                                           *)
THEOREM CompleteFiles == HooksSpec => []FilesAreComplete
<1>1. ASSUME JInv, MapsInv
      PROVE  FilesAreComplete
  <2> SUFFICES ASSUME finished
               PROVE  /\ sites_clashed \/ {e.ret_addr : e \in Entries} \ {0} \subseteq callSiteMap
                      /\ regions_clashed \/ annotated \subseteq regionMap
    BY DEF FilesAreComplete
  <2>1. AllJoined
    BY <1>1 DEF JInv
  <2>2. \A t \in Threads : site_use[t].op = "none"
    BY <1>1, <2>1, MainIsLast DEF MapsInv, SitesInSpawns, At
  <2>3. sites_clashed \/ {e.ret_addr : e \in Entries} \ {0} \subseteq callSiteMap
    BY <1>1, <2>2 DEF MapsInv, SitesKnown, KeyIn
  <2>4. QED  BY <1>1, <2>3 DEF MapsInv, RegionsWritten
<1>2. QED  BY <1>1, MapsKept, PTL

LEMMA SettledStays ==
    ASSUME IdsInv, MapsInv, Settled, [HooksNext]_hookVars
    PROVE  [Settled' /\ ~crashed']_hookVars
<1> SUFFICES ASSUME ~UNCHANGED hookVars
             PROVE  Settled' /\ ~crashed'
  OBVIOUS
<1>1. /\ ~crashed /\ DOMAIN tid_map = Threads
      /\ SiteKeys \subseteq callSiteMap /\ Regions \subseteq regionMap
      /\ \A t \in Threads : /\ hook[t] # "torn" /\ hook[t] # "insert"
                            /\ site_use[t].op # "insert" /\ ~site_use[t].torn
                            /\ region_use[t].op # "insert" /\ ~region_use[t].torn
  BY DEF HooksNext, Settled, SiteKeys, CallSites!MayFail, RegionSites!MayFail, IdsInv
<1>2. /\ site_use \in [Threads -> Accesses(SiteKeys)] /\ region_use \in [Threads -> Accesses(Regions)]
      /\ \A t \in Threads : site_use[t].op # "none" => site_use[t].key \in SiteKeys
      /\ \A t \in Threads : region_use[t].op # "none" => region_use[t].key \in Regions
  BY DEF MapsInv, SitesInv, RegionsInv, MapInv
<1>3. /\ \A t \in Threads : ~CallSites!Others(t, "insert") /\ ~RegionSites!Others(t, "insert")
      /\ CallSites!Idle.op = "none" /\ ~CallSites!Idle.torn
      /\ RegionSites!Idle.op = "none" /\ ~RegionSites!Idle.torn
  BY <1>1 DEF CallSites!Others, RegionSites!Others, CallSites!Idle, RegionSites!Idle
<1> DEFINE SitesQuiet == \A u \in Threads : site_use[u].op # "insert" /\ ~site_use[u].torn
           RegionsQuiet == \A u \in Threads : region_use[u].op # "insert" /\ ~region_use[u].torn
<1>4. ASSUME NEW t \in Threads, NEW key,
             CallSites!Count(t, key) \/ CallSites!Access(t) \/ CallSites!Leave(t)
      PROVE  callSiteMap' = callSiteMap /\ SitesQuiet'
  <2>1. ~CallSites!Insert(t) /\ ~CallSites!Inserted(t)
    BY <1>1, <1>2 DEF CallSites!Insert, CallSites!Inserted
  <2>2. CASE CallSites!Found(t)
    <3>1. PICK a \in Accesses(SiteKeys) : a = site_use[t]
      BY <1>2
    <3>2. /\ site_use'[t] = [op |-> "done", key |-> a.key, torn |-> FALSE]
          /\ \A u \in Threads \ {t} : site_use'[u] = site_use[u]
      BY <1>2, <2>2, <3>1, AccessDone DEF CallSites!Found
    <3>3. QED  BY <1>1, <2>2, <3>2 DEF CallSites!Found
  <2>3. CASE CallSites!Count(t, key)
    <3>1. /\ site_use'[t] = [op |-> "count", key |-> key, torn |-> CallSites!Others(t, "insert")]
          /\ \A u \in Threads \ {t} : site_use'[u] = site_use[u]
      BY <1>2, <2>3 DEF CallSites!Count
    <3>2. site_use'[t].op = "count" /\ ~site_use'[t].torn
      BY <1>3, <3>1
    <3>3. QED  BY <1>1, <2>3, <3>1, <3>2 DEF CallSites!Count
  <2>4. CASE CallSites!Leave(t)
    BY <1>1, <1>2, <1>3, <2>4 DEF CallSites!Leave
  <2>5. QED  BY <1>4, <2>1, <2>2, <2>3, <2>4 DEF CallSites!Access
<1>5. ASSUME NEW t \in Threads, NEW key,
             RegionSites!Count(t, key) \/ RegionSites!Access(t) \/ RegionSites!Leave(t)
      PROVE  regionMap' = regionMap /\ RegionsQuiet'
  <2>1. ~RegionSites!Insert(t) /\ ~RegionSites!Inserted(t)
    BY <1>1, <1>2 DEF RegionSites!Insert, RegionSites!Inserted
  <2>2. CASE RegionSites!Found(t)
    <3>1. PICK a \in Accesses(Regions) : a = region_use[t]
      BY <1>2
    <3>2. /\ region_use'[t] = [op |-> "done", key |-> a.key, torn |-> FALSE]
          /\ \A u \in Threads \ {t} : region_use'[u] = region_use[u]
      BY <1>2, <2>2, <3>1, AccessDone DEF RegionSites!Found
    <3>3. QED  BY <1>1, <2>2, <3>2 DEF RegionSites!Found
  <2>3. CASE RegionSites!Count(t, key)
    <3>1. /\ region_use'[t] = [op |-> "count", key |-> key, torn |-> RegionSites!Others(t, "insert")]
          /\ \A u \in Threads \ {t} : region_use'[u] = region_use[u]
      BY <1>2, <2>3 DEF RegionSites!Count
    <3>2. region_use'[t].op = "count" /\ ~region_use'[t].torn
      BY <1>3, <3>1
    <3>3. QED  BY <1>1, <2>3, <3>1, <3>2 DEF RegionSites!Count
  <2>4. CASE RegionSites!Leave(t)
    BY <1>1, <1>2, <1>3, <2>4 DEF RegionSites!Leave
  <2>5. QED  BY <1>5, <2>1, <2>2, <2>3, <2>4 DEF RegionSites!Access
<1>6. SitesQuiet /\ RegionsQuiet
  BY <1>1
<1>7. ASSUME NEW t \in Threads, HookStep(t)
      PROVE  /\ callSiteMap' = callSiteMap /\ SitesQuiet' /\ regionMap' = regionMap /\ RegionsQuiet'
             /\ DOMAIN tid_map' = Threads /\ crashed' = crashed
             /\ \A u \in Threads : hook'[u] # "torn"
  <2>1. CASE LockAndCount(t)
    BY <1>1, <1>6, <2>1 DEF LockAndCount, IdsInv, siteVars, regionVars
  <2>2. CASE InsertTid(t)
    BY <1>1, <2>2 DEF InsertTid
  <2>3. CASE ReadTid(t)
    BY <1>1, <1>6, <2>3 DEF ReadTid, IdsInv, tids, siteVars, regionVars
  <2>4. CASE LookUpSite(t)
    BY <1>1, <1>4, <1>6, <2>4 DEF LookUpSite, tids, regionVars
  <2>5. CASE LookUpRegion(t)
    BY <1>1, <1>5, <1>6, <2>5 DEF LookUpRegion, IdsInv, tids, siteVars
  <2>6. CASE Recorded(t)
    <3>1. /\ hook' = [hook EXCEPT ![t] = "out"] /\ UNCHANGED <<tids, regionVars, crashed>>
          /\ UNCHANGED siteVars \/ CallSites!Leave(t)
      BY <2>6 DEF Recorded, Registered
    <3>2. QED  BY <1>1, <1>4, <1>6, <3>1 DEF IdsInv, tids, siteVars, regionVars
  <2>7. QED  BY <1>7, <2>1, <2>2, <2>3, <2>4, <2>5, <2>6 DEF HookStep
<1>8. CASE Ends
  BY <1>1, <1>8 DEF Ends, Settled, SiteKeys, CallSites!MayFail, RegionSites!MayFail, tids, siteVars, regionVars
<1>9. \A t \in Threads : ~Fails(t)
  BY <1>1 DEF Fails, CallSites!MayFail, RegionSites!MayFail
<1>10. CASE \E t \in Threads : HookStep(t)
  BY <1>1, <1>7, <1>10 DEF Settled, SiteKeys, CallSites!MayFail, RegionSites!MayFail
<1>11. QED  BY <1>8, <1>9, <1>10 DEF HooksNext

(* When every thread has an id and every site and region its entry, the maps  *)
(* are only read, whatever the number of workers: nothing can fail any more.  *)
THEOREM SafeForever == HooksSpec => StaysSafe
<1>1. IdsInv /\ MapsInv /\ [HooksNext]_hookVars => [Settled => Settled' /\ ~crashed']_hookVars
  BY SettledStays
<1>2. QED  BY <1>1, MapsKept, PTL DEF HooksSpec, StaysSafe

================================================================================
