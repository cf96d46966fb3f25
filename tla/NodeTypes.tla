------------------------------- MODULE NodeTypes -------------------------------
(******************************************************************************)
(* enum NodeType, which both phases declare alike: what a line of a           *)
(* step_work file says of its node.                                           *)
(******************************************************************************)
EXTENDS Integers

NO_TYPE == 0
ASYNC   == 1
FINISH  == 2
STEP    == 3

================================================================================
