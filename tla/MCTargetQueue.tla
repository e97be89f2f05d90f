---------------------------- MODULE MCTargetQueue ----------------------------
(***************************************************************************)
(* The campaigns that TLC runs TargetQueue for: one that starts from the   *)
(* recorded seeds, and a resumed one that imports test cases and takes a   *)
(* seed's timeout for fatal.                                               *)
(***************************************************************************)
EXTENDS TargetQueue

Fresh ==
  [resume |-> FALSE, timeoutGiven |-> TRUE, foreignSync |-> FALSE, maxSeeds |-> MaxItems]
Resumed ==
  [resume |-> TRUE, timeoutGiven |-> FALSE, foreignSync |-> TRUE, maxSeeds |-> 2]

FreshOnly == {Fresh}
FreshAndResumed == {Fresh, Resumed}
=============================================================================
