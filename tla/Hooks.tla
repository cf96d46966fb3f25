--------------------------------- MODULE Hooks ---------------------------------
(******************************************************************************)
(* The hooks of the collection phase around AFTaskGraph: what Collection has  *)
(* done in the name of thread t is done in the name of get_cur_tid(), and a   *)
(* spawn first registers its call site, an __optimize_end__ its region, in a  *)
(* map that no lock protects.                                                 *)
(*                                                                            *)
(* get_cur_tid is called several times in a spawn; here it is called once for *)
(* each of the spawn's steps in Collection.  It counts and inserts a thread   *)
(* under a lock, but reads the id with tid_map.at when it has released the    *)
(* lock: a thread that is inserted meanwhile may hide the entry, and at()     *)
(* throws.                                                                    *)
(******************************************************************************)
EXTENDS Collection

CONSTANT Regions  \* the return addresses of __optimize_end__ calls

VARIABLES
    tid_map, tid_ctr,
    hook,         \* per thread, where in get_cur_tid it is: "out", "insert",
                  \* "at", "torn" (when an insertion has begun meanwhile), "in"
                  \* (it has its id)
    claim,        \* the task a thread has been given to execute
    callSiteMap, site_use, sites_clashed,
    regionMap, region_use, regions_clashed,
    annotated,    \* regions that have ended
    crashed

tids == <<tid_map, tid_ctr>>
siteVars == <<callSiteMap, site_use, sites_clashed>>
regionVars == <<regionMap, region_use, regions_clashed, annotated>>
hookVars == <<vars, tids, hook, claim, siteVars, regionVars, crashed>>

CallSites == INSTANCE UnlockedMap WITH
    map <- callSiteMap, use <- site_use, clashed <- sites_clashed

RegionSites == INSTANCE UnlockedMap WITH
    map <- regionMap, use <- region_use, clashed <- regions_clashed

HooksInit ==
    /\ Init
    /\ tid_map = [t \in {} |-> 0]
    /\ tid_ctr = 0
    /\ hook = [t \in Threads |-> "out"]
    /\ claim = [t \in Threads |-> MainTask]
    /\ CallSites!Init
    /\ RegionSites!Init
    /\ annotated = {}
    /\ crashed = FALSE

(******************************************************************************)
(* get_cur_tid                                                                *)
(******************************************************************************)

\* Thread t is about to call a hook: from its task, after a join, or because
\* it begins a task that it has been given.
CallsHook(t) ==
    \/ (At(t, "run") \/ Launching(t)) /\ UNCHANGED claim
    \/ At(t, "wait") /\ Awaited(t) \subseteq ended /\ UNCHANGED claim
    \/ /\ frames[t] = <<>> \/ At(t, "wait")
       /\ \E k \in pool : /\ \A u \in Threads : claim[u] # k
                          /\ claim' = [claim EXCEPT ![t] = k]

tid_map_lock_free == \A t \in Threads : hook[t] # "insert"

\* It draws a number before it looks whether the thread has one.
LockAndCount_DrawsFirst(t) ==
    /\ hook[t] = "out" /\ ~finished
    /\ CallsHook(t)
    /\ tid_map_lock_free
    /\ hook' = [u \in Threads |-> IF u = t THEN (IF t \in DOMAIN tid_map THEN "at" ELSE "insert")
                                  ELSE IF hook[u] = "at" /\ t \notin DOMAIN tid_map THEN "torn"
                                  ELSE hook[u]]
    /\ tid_ctr' = tid_ctr + 1
    /\ UNCHANGED <<vars, tid_map, siteVars, regionVars, crashed>>

LockAndCount(t) ==
    /\ hook[t] = "out" /\ ~finished
    /\ CallsHook(t)
    /\ tid_map_lock_free
    /\ IF t \in DOMAIN tid_map
       THEN hook' = [hook EXCEPT ![t] = "at"] /\ UNCHANGED tid_ctr
       ELSE /\ hook' = [u \in Threads |-> IF u = t THEN "insert"
                                          ELSE IF hook[u] = "at" THEN "torn" ELSE hook[u]]
            /\ tid_ctr' = tid_ctr + 1
    /\ UNCHANGED <<vars, tid_map, siteVars, regionVars, crashed>>

InsertTid(t) ==
    /\ hook[t] = "insert"
    /\ tid_map' = [u \in DOMAIN tid_map \cup {t} |-> IF u = t THEN tid_ctr - 1 ELSE tid_map[u]]
    /\ hook' = [hook EXCEPT ![t] = "in"]
    /\ UNCHANGED <<vars, tid_ctr, claim, siteVars, regionVars, crashed>>

ReadTid(t) ==
    /\ hook[t] \in {"at", "torn"}
    /\ hook' = [hook EXCEPT ![t] = "in"]
    /\ UNCHANGED <<vars, tids, claim, siteVars, regionVars, crashed>>

(******************************************************************************)
(* CaptureSetTaskId up to the Capture call, and __optimize_end__              *)
(******************************************************************************)

\* A spawn without a file, which gets site 0, makes no entry.
LookUpSite(t) ==
    /\ hook[t] = "in" /\ At(t, "capture")
    /\ \/ \E site \in (IF TopFrame(t).op = "root" THEN RootSites ELSE SpawnSites) \ {0} :
             CallSites!Count(t, site)
       \/ CallSites!Access(t)
    /\ UNCHANGED <<vars, tids, hook, claim, regionVars, crashed>>

\* The region that ends here; TaskLogger logs its work.
LookUpRegion(t) ==
    /\ hook[t] = "in" /\ At(t, "run")
    /\ \/ /\ (\E r \in Regions : RegionSites!Count(t, r)) \/ RegionSites!Access(t)
          /\ UNCHANGED <<annotated, hook>>
       \/ /\ RegionSites!Leave(t)
          /\ annotated' = annotated \cup {region_use[t].key}
          /\ hook' = [hook EXCEPT ![t] = "out"]
    /\ UNCHANGED <<vars, tids, claim, siteVars, crashed>>

\* std::out_of_range from tid_map.at, or a fault in one of the other maps.
Fails(t) ==
    /\ hook[t] = "torn" \/ CallSites!MayFail(t) \/ RegionSites!MayFail(t)
    /\ crashed' = TRUE
    /\ UNCHANGED <<vars, tids, hook, claim, siteVars, regionVars>>

(******************************************************************************)
(* What the hook is called for                                                *)
(******************************************************************************)
\* The overload for spawn_and_wait_for_all makes no entry.
Registered_NotOnWait(t, site) ==
    IF site = 0 \/ TopFrame(t).op = "both" THEN site_use[t].op = "none" /\ UNCHANGED siteVars
    ELSE site_use[t].key = site /\ CallSites!Leave(t)

Registered(t, site) ==
    IF site = 0 THEN site_use[t].op = "none" /\ UNCHANGED siteVars
    ELSE site_use[t].key = site /\ CallSites!Leave(t)

Recorded(t) ==
    /\ hook[t] = "in" /\ region_use[t].op = "none"
    /\ \/ \E site \in SpawnSites \cup RootSites :
             SpawnCaptureAt(t, site) /\ Registered(t, site) /\ UNCHANGED claim
       \/ /\ \E k \in Tasks \ {MainTask} : claim[t] = k /\ TakeTask(t, k)
          /\ claim' = [claim EXCEPT ![t] = MainTask]
          /\ UNCHANGED siteVars
       \/ /\ claim[t] = MainTask
          /\ \/ \E op \in {"spawn", "root", "both"} : SpawnEntry(t, op)
             \/ SpawnExit(t) \/ WaitEntry(t) \/ Join(t) \/ RunChild(t) \/ ExecEnd(t)
          /\ UNCHANGED <<claim, siteVars>>
    /\ hook' = [hook EXCEPT ![t] = "out"]
    /\ UNCHANGED <<tids, regionVars, crashed>>

\* Fini does not call get_cur_tid: it takes main for thread 0.
Ends ==
    /\ hook[Main] \in {"out", "in"} /\ region_use[Main].op = "none"
    /\ Fini
    /\ UNCHANGED <<tids, hook, claim, siteVars, regionVars, crashed>>

HookStep(t) ==
    \/ LockAndCount(t) \/ InsertTid(t) \/ ReadTid(t)
    \/ LookUpSite(t) \/ LookUpRegion(t)
    \/ Recorded(t)

HooksNext ==
    \/ ~crashed /\ (Ends \/ \E t \in Threads : HookStep(t) \/ Fails(t))
    \/ (finished \/ crashed) /\ UNCHANGED hookVars

HooksSpec == HooksInit /\ [][HooksNext]_hookVars

(* Threads are scheduled fairly, and no task goes through regions forever.    *)
HooksFairness ==
    /\ \A t \in Threads : /\ WF_hookVars(~crashed /\ HookStep(t))
                          /\ SF_hookVars(~crashed /\ Recorded(t))
    /\ SF_hookVars(~crashed /\ Ends)

HooksFairSpec == HooksSpec /\ HooksFairness

(******************************************************************************)
(* Properties                                                                 *)
(******************************************************************************)

(* get_cur_tid gives threads different ids, counted from 0, and main is 0,    *)
(* as TD_Activate and Fini take for granted: no worker calls a hook before    *)
(* main has, and none records in the row of another one.                      *)
ThreadIds ==
    LET inserting == \E t \in Threads : hook[t] = "insert"
    IN  /\ {tid_map[t] : t \in DOMAIN tid_map} = 0 .. tid_ctr - (IF inserting THEN 2 ELSE 1)
        /\ \A t, u \in DOMAIN tid_map : tid_map[t] = tid_map[u] => t = u
        /\ DOMAIN tid_map # {} => Main \in DOMAIN tid_map /\ tid_map[Main] = 0
        /\ \A t \in Threads : hook[t] \in {"at", "torn", "in"} => t \in DOMAIN tid_map

(* What dumpCallsiteInfo and dumpRegionInfo write has every site and region   *)
(* of the reports, which the analysis looks up with callSiteMap.at, unless    *)
(* insertions of two threads have overlapped.                                 *)
FilesAreComplete ==
    finished =>
        /\ sites_clashed \/ {e.ret_addr : e \in Entries} \ {0} \subseteq callSiteMap
        /\ regions_clashed \/ annotated \subseteq regionMap

(* When every thread has an id, every site has been spawned at and every      *)
(* region has ended once, recording is safe from then on: the maps are only   *)
(* read, and no access is torn any more.                                      *)
Settled ==
    /\ DOMAIN tid_map = Threads
    /\ (SpawnSites \cup RootSites) \ {0} \subseteq callSiteMap /\ Regions \subseteq regionMap
    /\ \A t \in Threads : /\ hook[t] # "torn"
                          /\ site_use[t].op # "insert" /\ ~CallSites!MayFail(t)
                          /\ region_use[t].op # "insert" /\ ~RegionSites!MayFail(t)

StaysSafe == [][Settled => Settled' /\ ~crashed']_hookVars

(* Whatever the threads do to each other in the maps, the program ends: it    *)
(* writes its files, or a fault ends it.                                      *)
ProgramEnds == <>(finished \/ crashed)

================================================================================
