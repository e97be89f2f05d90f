---------------------------- MODULE MCAlgorithms ----------------------------
(***************************************************************************)
(* The two pure algorithms, over all of their inputs: the alias tables of  *)
(* afl-fuzz and the treatment of arguments in libgen.  They have nothing   *)
(* to do with each other; a behaviour is one of the one or of the other.   *)
(***************************************************************************)
EXTENDS MCArguments, AliasTable

NoTable ==
  /\ built = TRUE /\ weight = <<1>> /\ left = 0 /\ P = <<1>> /\ S = <<>> /\ L = <<>>
  /\ prob = <<1>> /\ alias = <<1>>
NoCall ==
  /\ round = "none" /\ target = [types |-> <<>>, constraints |-> <<>>]
  /\ host = <<>> /\ args = <<>> /\ order = <<>> /\ visited = 0 /\ buffer = <<>>
  /\ failed = FALSE /\ replay = FALSE /\ offset = 0 /\ stale = 0

MCInit == (Init /\ NoTable) \/ (NoCall /\ TableInit)
MCNext == (Next /\ UNCHANGED tableVars) \/ (TableNext /\ UNCHANGED vars)
MCSpec == MCInit /\ [][MCNext]_<<vars, tableVars>>
=============================================================================
