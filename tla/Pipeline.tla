-------------------------------- MODULE Pipeline -------------------------------
(******************************************************************************)
(* TaskProf from end to end: a run of the instrumented program writes the     *)
(* step_work files (Collection), and gentprof reads them and computes the     *)
(* profile and the what-if reports (WorkSpan).  The two programs share        *)
(* nothing but the files, so the second starts when the first has ended.      *)
(*                                                                            *)
(* What a step costs is not known to Collection.  It is chosen here, when the *)
(* files are read: at most MaxHeavy steps are HEAVY, the others LIGHT, and a  *)
(* heavy step may have all but LIGHT of its work in one annotated region.     *)
(* The files are taken to be complete, as they are while Task_Logger does not *)
(* overflow into a neighbour's rows (TaskLogger).                             *)
(******************************************************************************)
EXTENDS Collection, WorkSpan

CONSTANTS MaxHeavy, LIGHT, HEAVY

ASSUME PipelineAssumption ==
    /\ SpawnSites \cup RootSites \subseteq Sites
    /\ {MaxHeavy, LIGHT, HEAVY} \subseteq Nat /\ LIGHT <= HEAVY

\* The line of an entry when `heavy` maps the heavy steps to their regions.
Line(e, heavy) ==
    LET s == e.node_id
    IN  [ node_id |-> s, step_parent |-> e.step_parent, node_type |-> e.node_type,
          ret_addr |-> e.ret_addr,
          work |-> IF e.node_type # STEP THEN 0
                   ELSE IF s \in DOMAIN heavy THEN HEAVY ELSE LIGHT,
          region_work |-> [r \in Regions |->
              IF s \in DOMAIN heavy /\ r \in heavy[s] THEN HEAVY - LIGHT ELSE 0] ]

\* gentprof reads the files.
Load ==
    /\ finished
    /\ \E S \in {H \in SUBSET DOMAIN before : Cardinality(H) <= MaxHeavy} :
          \E heavy \in [S -> {{}} \cup {{r} : r \in Regions}] :
              create_dpst({Line(e, heavy) : e \in Entries})
    /\ UNCHANGED vars

PipelineVars == <<vars, analysis>>

PipelineInit == Init /\ AnalysisInit

PipelineNext ==
    \/ ~finished /\ Next /\ UNCHANGED analysis
    \/ Load
    \/ AnalysisNext /\ UNCHANGED vars
    \/ phase = "done" /\ UNCHANGED PipelineVars

PipelineSpec == PipelineInit /\ [][PipelineNext]_PipelineVars

(******************************************************************************)
(* Reference definitions: work and span from the program's own order          *)
(******************************************************************************)
StepsBelow(n) == {s \in DOMAIN before : n \in Ancestry(s)}

\* The heaviest chain of steps of S, each after the one before it.
HeaviestChain(S, weight(_)) ==
    LET chain[s \in S] ==
            weight(s) + Max({0} \cup {chain[r] : r \in S \cap before[s]})
    IN  Max({0} \cup {chain[s] : s \in S})

InnerNodes == {n \in Ids : tgraph_nodes[n].type # STEP}

getHead == 1

ProfileDone == PassEnds /\ phase = "profile"

\* A root task among spawned tasks that have not been waited for.
RootAmongSpawns ==
    \E n \in Ids : tgraph_nodes[n].sp_root_n_wt_flag /\ Parent(n) # getHead
                   /\ tgraph_nodes[Parent(n)].type = FINISH
                   /\ ~tgraph_nodes[Parent(n)].sp_root_n_wt_flag

(******************************************************************************)
(* Properties                                                                 *)
(******************************************************************************)

(* Type correctness; no node is told of more children than it has, so it is   *)
(* calculated once in a pass.                                                 *)
AnalysisTypeOK ==
    /\ phase \in {"idle", "profile", "region", "done"}
    /\ tgraph_nodes \in [DOMAIN tgraph_nodes -> TaskNode]
    /\ t_prof \in [DOMAIN tgraph_nodes -> ProfilerData]
    /\ critical_call_sites \in [DOMAIN tgraph_nodes -> [Sites -> Nat]]
    /\ workSpanMap \in [Sites -> [work : Nat, span : Nat, call_count : Nat]]
    /\ \A n \in Ids : num_processed[n] \in 0 .. tgraph_nodes[n].num_children
    /\ index \in 1 .. Cardinality(Ids) + 1
    /\ climb \in Ids \cup {0}

(* The work that calculateWorkSpan gives a node is that of all the steps      *)
(* beneath it, each counted once, and no later pass changes it.               *)
WorkIsTotal ==
    PassEnds => \A n \in InnerNodes :
        t_prof[n].work = SumFunction([s \in StepsBelow(n) |-> t_prof[s].work])

(* The span of every task and every finish in the profile is the weight of    *)
(* the heaviest chain of its steps in the order in which the program          *)
(* synchronized them.  calculateRecurse takes parent_work when it first sees  *)
(* a task; that this is the work before the task depends on the order of ids. *)
SpanIsHeaviestChain ==
    ProfileDone => \A n \in InnerNodes :
        LET weight(s) == t_prof[s].work
        IN  t_prof[n].critical_child = HeaviestChain(StepsBelow(n), weight)

(* At the end of each what-if pass the span of the program is its heaviest    *)
(* chain when the work in the regions of this pass, and in no other, is       *)
(* divided by par_increase: nothing of an earlier pass is left.               *)
WhatIfSpan ==
    PassEnds /\ phase = "region" =>
        LET weight(s) == t_prof[s].work - SumFunction([r \in pass.regions |->
                LET w == tgraph_nodes[s].region_work[r] IN w - w \div pass.par_increase])
        IN  t_prof[getHead].critical_child = HeaviestChain(DOMAIN before, weight)

CriticalPathAttributed ==
    LET own == t_prof[getHead].local_local_work
    IN  /\ own + SumFunction(critical_call_sites[getHead]) = t_prof[getHead].critical_child
        /\ own <= t_prof[getHead].critical_child

(* The "Percent critical work" of main and of the spawn sites adds up to the  *)
(* span, what check_critical_work of GenerateProfile is summed up for: no     *)
(* work on the critical path is lost or counted twice when the maps of call   *)
(* sites are moved, merged and deleted on the way up.  A program that runs a  *)
(* root task among spawned ones is excepted.                                  *)
CriticalWorkAddsUp == ProfileDone /\ ~RootAmongSpawns => CriticalPathAttributed

(* The same with no exception, as the percentages are described.              *)
CriticalWorkAlwaysAddsUp == ProfileDone => CriticalPathAttributed

(* The row of a spawn site has the work of the site's calls, recursive ones   *)
(* left out: a task beneath another task of the same site is part of the      *)
(* other's work already.  calculateRecurse adds up what is not recursiveCall. *)
RowsAreOutermostCalls ==
    ProfileDone => \A s \in Sites \ {0} :
        LET calls == {n \in Ids : tgraph_nodes[n].call_site = s}
            outermost == {n \in calls : Ancestry(n) \cap calls = {n}}
        IN  workSpanMap[s].work = SumFunction([n \in outermost |-> t_prof[n].work])

================================================================================
