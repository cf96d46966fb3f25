-------------------------------- MODULE WorkSpan -------------------------------
(******************************************************************************)
(* The analysis phase, a program of its own: class AFTaskGraph of gentprof    *)
(* reads the tree from the step_work files, and Task_Profiler goes over it,   *)
(* once for the profile and then several times for the what-if reports of the *)
(* annotated regions.                                                         *)
(*                                                                            *)
(* A pass visits the nodes by id.  A node is calculated, and its results go   *)
(* to its parent, when it is visited if it has no children, and else when its *)
(* last child has been calculated: the recursion that climbs to the parent    *)
(* counts the finished children.  A visit and each level of the climb is a    *)
(* step here.                                                                 *)
(*                                                                            *)
(* The files are the input: create_dpst(lines) starts the analysis of a set   *)
(* of lines.  Where they come from is said in Pipeline.                       *)
(*                                                                            *)
(* A map from call sites to work is a function on Sites, 0 for a site without *)
(* an entry; a map that was moved to the parent or deleted is empty.          *)
(* Operators with an underscore behind a definition's name are mutants of it. *)
(******************************************************************************)
EXTENDS NodeTypes, Sequences, SequencesExt

CONSTANTS
    Sites,        \* the return addresses in the files; 0 is "no file or line given"
    ParForSites,  \* the sites callsite_info.csv marks par_for
    Regions,      \* the annotated regions of region_info.csv
    PAR_INC_COUNT, PAR_INC_INIT, PAR_INC_FACTOR,
    SIZE          \* 2^w for the width w of size_t

ASSUME WorkSpanAssumption ==
    /\ Sites \subseteq Nat /\ 0 \in Sites /\ ParForSites \subseteq Sites \ {0}
    /\ {PAR_INC_COUNT, PAR_INC_INIT, PAR_INC_FACTOR} \subseteq Nat \ {0}
    /\ SIZE \in Nat \ {0}
    /\ IsFiniteSet(Sites) /\ IsFiniteSet(Regions)

VARIABLES
    phase,                \* idle before the files are there, then profile, region, done
    tgraph_nodes,         \* what the files say of each node; node 0 is a scratch parent
    t_prof,               \* the results of each node
    critical_call_sites,  \* per node, the work of each site on its critical path
    workSpanMap,          \* the rows of ws_profile.csv
    num_processed,        \* per node, its children calculated in this pass
    index,                \* the node the loop visits next
    climb,                \* the node whose child has just been calculated, or 0
    pass,                 \* the regions this pass optimizes, and by how much
    pending               \* the what-if passes still to come

loop == <<num_processed, index, climb>>
analysis == <<phase, tgraph_nodes, t_prof, critical_call_sites, workSpanMap, loop, pass, pending>>

Ids == 1 .. Cardinality(DOMAIN tgraph_nodes) - 1

TaskNode == [ parent : Nat, type : {NO_TYPE, ASYNC, FINISH, STEP}, call_site : Sites,
              num_children : Nat, sp_root_n_wt_flag : BOOLEAN,
              region_work : [Regions -> Nat] ]

ProfilerData == [ work : Nat, local_work : Nat, critical_child : Nat, parent_work : Nat,
                  local_local_work : Nat ]

NoProfile == [ work |-> 0, local_work |-> 0, critical_child |-> 0, parent_work |-> 0,
               local_local_work |-> 0 ]

NoSites == [s \in Sites |-> 0]

\* The first pass optimizes no region.
Profiling == [regions |-> {}, par_increase |-> 1]

Parent(n) == tgraph_nodes[n].parent

\* n and the nodes above it.
Ancestry(n) ==
    LET path[m \in 0 .. n] == IF m = 0 THEN {} ELSE path[Parent(m)] \cup {m}
    IN  path[n]

(******************************************************************************)
(* create_dpst and initialize_task, for files whose ids are 1 .. n            *)
(******************************************************************************)
create_dpst(lines) ==
    LET ids == 0 .. Cardinality(lines)
        LineOf(i) == CHOOSE l \in lines : l.node_id = i
    IN  /\ phase = "idle"
        /\ phase' = "profile"
        /\ tgraph_nodes' =
              [i \in ids |->
                 IF i = 0
                 THEN [parent |-> 0, type |-> NO_TYPE, call_site |-> 0, num_children |-> 0,
                       sp_root_n_wt_flag |-> FALSE, region_work |-> [r \in Regions |-> 0]]
                 ELSE [parent |-> LineOf(i).step_parent,
                       type |-> LineOf(i).node_type,
                       call_site |-> LineOf(i).ret_addr,
                       num_children |-> Cardinality({l \in lines : l.step_parent = i}),
                       sp_root_n_wt_flag |-> LineOf(i).node_type = FINISH
                                             /\ LineOf(i).ret_addr # 0,
                       region_work |-> LineOf(i).region_work]]
        /\ t_prof' = [i \in ids |->
              IF i # 0 /\ LineOf(i).node_type = STEP
              THEN [NoProfile EXCEPT !.work = LineOf(i).work] ELSE NoProfile]
        /\ critical_call_sites' = [i \in ids |-> NoSites]
        /\ workSpanMap' = [s \in Sites |-> [work |-> 0, span |-> 0, call_count |-> 0]]
        /\ num_processed' = [i \in ids |-> 0]
        /\ index' = 1
        /\ climb' = 0
        /\ pass' = Profiling
        /\ pending' = <<>>

(******************************************************************************)
(* calculateWorkSpan                                                          *)
(******************************************************************************)

insert_cs_data_Replaces(map, site, work) == [map EXCEPT ![site] = work]

insert_cs_data(map, site, work) == [map EXCEPT ![site] = @ + work]

merge_critical_call_sites(source, dest) == [s \in Sites |-> dest[s] + source[s]]

\* The span of a subtree: its serial work or the path through a child task.
Critical(n) == Max({t_prof[n].local_work, t_prof[n].critical_child})

StepCalculated(n) ==
    LET w == t_prof[n].work
    IN  /\ t_prof' = [t_prof EXCEPT ![Parent(n)].work = @ + w,
                                    ![Parent(n)].local_work = @ + w,
                                    ![Parent(n)].local_local_work = (@ + w) % SIZE]
        /\ UNCHANGED critical_call_sites

\* The work before the child in its parent and the child's own span may make
\* the longest path through the parent.
AsyncCalculated(n) ==
    LET p == Parent(n)
        cc == Critical(n)
        path == cc + t_prof[n].parent_work
        sites == insert_cs_data(critical_call_sites[n], tgraph_nodes[n].call_site,
                                t_prof[n].local_local_work)
        results == [t_prof EXCEPT ![n].critical_child = cc,
                                  ![p].work = @ + t_prof[n].work]
    IN  \/ /\ path > t_prof[p].critical_child
           /\ t_prof' = [results EXCEPT ![p].critical_child = path]
           /\ critical_call_sites' = [critical_call_sites EXCEPT ![n] = NoSites, ![p] = sites]
        \/ /\ path <= t_prof[p].critical_child
           /\ t_prof' = results
           /\ critical_call_sites' = [critical_call_sites EXCEPT ![n] = sites]

FinishJoins_DropsWork(n, sites, share) ==
    LET p == Parent(n)
    IN  /\ t_prof' = [t_prof EXCEPT ![n].critical_child = Critical(n),
                                    ![p].local_work = @ + Critical(n),
                                    ![p].local_local_work = (@ + share) % SIZE]
        /\ critical_call_sites' =
              [critical_call_sites EXCEPT
                  ![n] = sites,
                  ![p] = IF p = 0 THEN @ ELSE merge_critical_call_sites(sites, @)]

\* A finish is serial for its parent.  sites are its critical sites, share the
\* part of its critical path that is the parent's own.
FinishJoins(n, sites, share) ==
    LET p == Parent(n)
    IN  /\ t_prof' = [t_prof EXCEPT ![n].critical_child = Critical(n),
                                    ![p].work = @ + t_prof[n].work,
                                    ![p].local_work = @ + Critical(n),
                                    ![p].local_local_work = (@ + share) % SIZE]
        /\ critical_call_sites' =
              [critical_call_sites EXCEPT
                  ![n] = sites,
                  ![p] = IF p = 0 THEN @ ELSE merge_critical_call_sites(sites, @)]

FinishCalculated(n) ==
    LET me == t_prof[n]
        site == tgraph_nodes[n].call_site
        root == tgraph_nodes[n].sp_root_n_wt_flag
        serial == me.local_work >= me.critical_child
        sites == critical_call_sites[n]
    IN  \/ /\ serial /\ root /\ site \in ParForSites
           /\ FinishJoins(n, insert_cs_data(NoSites, site, me.local_work), 0)
        \/ /\ serial /\ root /\ site \notin ParForSites
           /\ FinishJoins(n, insert_cs_data(sites, site, me.local_local_work), 0)
        \/ /\ serial /\ ~root /\ Parent(n) # 0
           /\ FinishJoins(n, NoSites, me.local_local_work)
        \/ /\ serial /\ ~root /\ Parent(n) = 0
           /\ FinishJoins(n, sites, 0)
        \/ /\ ~serial
           /\ FinishJoins(n, sites, (me.critical_child - SumFunction(sites)) % SIZE)

calculateWorkSpan(n) ==
    \/ tgraph_nodes[n].type = STEP /\ StepCalculated(n)
    \/ tgraph_nodes[n].type = ASYNC /\ AsyncCalculated(n)
    \/ tgraph_nodes[n].type = FINISH /\ FinishCalculated(n)

(******************************************************************************)
(* calculateWorkSpan_region: spans only, with less work in the regions        *)
(******************************************************************************)
ReducedWork(n) ==
    LET decrease == [r \in pass.regions |->
            tgraph_nodes[n].region_work[r] - tgraph_nodes[n].region_work[r] \div pass.par_increase]
    IN  (t_prof[n].work - SumFunction(decrease)) % SIZE

calculateWorkSpan_region(n) ==
    LET p == Parent(n)
        path == Critical(n) + t_prof[n].parent_work
    IN  /\ \/ /\ tgraph_nodes[n].type = STEP
              /\ t_prof' = [t_prof EXCEPT ![p].local_work = @ + ReducedWork(n)]
           \/ /\ tgraph_nodes[n].type = ASYNC
              /\ t_prof' = [t_prof EXCEPT ![n].critical_child = Critical(n),
                                          ![p].critical_child = Max({@, path})]
           \/ /\ tgraph_nodes[n].type = FINISH
              /\ t_prof' = [t_prof EXCEPT ![n].critical_child = Critical(n),
                                          ![p].local_work = @ + Critical(n)]
        /\ UNCHANGED critical_call_sites

(******************************************************************************)
(* The rows of the profile                                                    *)
(******************************************************************************)

\* checkRecursiveCall: some node on the way up has its parent's call site.
recursiveCall(n) ==
    \E m \in Ancestry(n) :
        Parent(m) # 0 /\ tgraph_nodes[Parent(m)].call_site = tgraph_nodes[m].call_site

\* After calculateWorkSpan(n), with the results it has left.
SiteReported(n) ==
    LET site == tgraph_nodes[n].call_site
    IN  workSpanMap' =
          IF phase = "profile" /\ site # 0 /\ ~recursiveCall(n)
          THEN [workSpanMap EXCEPT ![site] =
                  [work |-> @.work + t_prof'[n].work,
                   span |-> @.span + t_prof'[n].critical_child,
                   call_count |-> @.call_count + 1]]
          ELSE workSpanMap

Calculate(n) ==
    /\ \/ phase = "profile" /\ calculateWorkSpan(n)
       \/ phase = "region" /\ calculateWorkSpan_region(n)
    /\ SiteReported(n)

(******************************************************************************)
(* calculateRecurse and checkUpdateParentWorkSpan, and their region versions  *)
(******************************************************************************)
WorkBefore_All(n) == t_prof[Parent(n)].work

\* The serial work that the parent of a new task has done so far.
WorkBefore(n) == t_prof[Parent(n)].local_work

Running == phase \in {"profile", "region"}

\* One turn of the loop over the ids.
VisitLeaf ==
    /\ Running /\ climb = 0 /\ index \in Ids
    /\ tgraph_nodes[index].num_children = num_processed[index]
    /\ Calculate(index)
    /\ climb' = Parent(index)
    /\ index' = index + 1
    /\ UNCHANGED <<phase, tgraph_nodes, num_processed, pass, pending>>

\* The map of call sites made here is the empty one the node has already: its
\* children have larger ids.
VisitInner ==
    /\ Running /\ climb = 0 /\ index \in Ids
    /\ tgraph_nodes[index].num_children # num_processed[index]
    /\ t_prof' = IF tgraph_nodes[index].type = ASYNC
                 THEN [t_prof EXCEPT ![index].parent_work = WorkBefore(index)] ELSE t_prof
    /\ index' = index + 1
    /\ UNCHANGED <<phase, tgraph_nodes, critical_call_sites, workSpanMap, num_processed,
                   climb, pass, pending>>

\* One level of the climb: it goes on when this was the last child.
Climb ==
    /\ Running /\ climb # 0
    /\ num_processed' = [num_processed EXCEPT ![climb] = @ + 1]
    /\ \/ /\ tgraph_nodes[climb].num_children = num_processed'[climb]
          /\ Calculate(climb)
          /\ climb' = Parent(climb)
       \/ /\ tgraph_nodes[climb].num_children # num_processed'[climb]
          /\ climb' = 0
          /\ UNCHANGED <<t_prof, critical_call_sites, workSpanMap>>
    /\ UNCHANGED <<phase, tgraph_nodes, index, pass, pending>>

PassEnds == Running /\ climb = 0 /\ index \notin Ids

(******************************************************************************)
(* report_region_increase_par: every region alone, in the order of a hash     *)
(* map, then all of them, each with PAR_INC_COUNT factors                     *)
(******************************************************************************)

\* The factor of a report's line i.
Increase[i \in 0 .. PAR_INC_COUNT - 1] ==
    IF i = 0 THEN PAR_INC_INIT ELSE Increase[i - 1] * PAR_INC_FACTOR

Rounds(regions) ==
    [i \in 1 .. PAR_INC_COUNT |-> [regions |-> regions, par_increase |-> Increase[i - 1]]]

Passes(order) ==
    IF Regions = {} THEN <<>>
    ELSE FlattenSeq([i \in DOMAIN order |-> Rounds({order[i]})]) \o Rounds(Regions)

reset_work_span_KeepsSpans ==
    t_prof' = [i \in DOMAIN t_prof |->
        IF i = 0 \/ tgraph_nodes[i].type = STEP THEN t_prof[i]
        ELSE [t_prof[i] EXCEPT !.local_work = 0, !.parent_work = 0]]

reset_work_span ==
    t_prof' = [i \in DOMAIN t_prof |->
        IF i = 0 \/ tgraph_nodes[i].type = STEP THEN t_prof[i]
        ELSE [t_prof[i] EXCEPT !.critical_child = 0, !.local_work = 0, !.parent_work = 0]]

StartPass_KeepsCount(passes) ==
    /\ passes # <<>>
    /\ phase' = "region"
    /\ pass' = Head(passes)
    /\ pending' = Tail(passes)
    /\ reset_work_span
    /\ index' = 1
    /\ UNCHANGED <<tgraph_nodes, critical_call_sites, workSpanMap, num_processed, climb>>

StartPass(passes) ==
    /\ passes # <<>>
    /\ phase' = "region"
    /\ pass' = Head(passes)
    /\ pending' = Tail(passes)
    /\ reset_work_span
    /\ num_processed' = [i \in DOMAIN num_processed |-> 0]
    /\ index' = 1
    /\ UNCHANGED <<tgraph_nodes, critical_call_sites, workSpanMap, climb>>

Stop(passes) ==
    /\ passes = <<>>
    /\ phase' = "done"
    /\ UNCHANGED <<tgraph_nodes, t_prof, critical_call_sites, workSpanMap, loop, pass, pending>>

EndProfile ==
    /\ PassEnds /\ phase = "profile"
    /\ \E order \in SetToSeqs(Regions) : StartPass(Passes(order)) \/ Stop(Passes(order))

EndRegionPass ==
    /\ PassEnds /\ phase = "region"
    /\ StartPass(pending) \/ Stop(pending)

AnalysisInit ==
    /\ phase = "idle"
    /\ tgraph_nodes = [i \in {} |-> 0]
    /\ t_prof = [i \in {} |-> 0]
    /\ critical_call_sites = [i \in {} |-> 0]
    /\ workSpanMap = [s \in Sites |-> [work |-> 0, span |-> 0, call_count |-> 0]]
    /\ num_processed = [i \in {} |-> 0]
    /\ index = 1
    /\ climb = 0
    /\ pass = Profiling
    /\ pending = <<>>

AnalysisNext == VisitLeaf \/ VisitInner \/ Climb \/ EndProfile \/ EndRegionPass

================================================================================
