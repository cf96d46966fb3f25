----------------------------- MODULE MCScheduler -------------------------------
(* Instances of Scheduler for TLC: the programs. *)
EXTENDS Scheduler

\* A program of four tasks: the children of main, of 1 and of 2, and the
\* styles of 1 and of 2.
Tree(main, one, two, styleOne, styleTwo) ==
    [ kids |-> [k \in Tasks |-> CASE k = 0 -> main [] k = 1 -> one [] k = 2 -> two
                                  [] OTHER -> <<>>],
      style |-> [k \in Tasks |-> CASE k = 0 -> "root" [] k = 1 -> styleOne
                                   [] k = 2 -> styleTwo [] OTHER -> "wait"] ]

\* A task with a child that has one of its own, in every combination of styles;
\* three children of one task; and two root tasks, of which one splits.
SmallPrograms ==
    { Tree(<<1>>, <<2, 3>>, <<4>>, one, two) : one \in Styles, two \in {"wait", "both", "split"} }
    \cup { Tree(<<1>>, <<2, 3, 4>>, <<>>, one, "wait") : one \in {"list", "both"} }
    \cup { Tree(<<1, 4>>, <<2, 3>>, <<>>, "split", "wait") }

================================================================================
