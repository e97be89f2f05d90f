---------------------------- MODULE Dependencies ----------------------------
(***************************************************************************)
(* DependencyManager (libgen): in which order the arguments of a target    *)
(* are visited.  boost::topological_sort is a depth-first search, which is *)
(* modelled from what Dependencies.cc makes of it.                         *)
(***************************************************************************)
EXTENDS Integers, Sequences, SequencesExt

(* addDependency: from a constraint's right-hand side to its left-hand     *)
(* side.                                                                   *)
Edges(constraints) ==
  LET dep == SelectSeq(constraints, LAMBDA c : c.rel # "is_file" /\ c.rhs.from = "arg")
  IN  [k \in DOMAIN dep |-> <<dep[k].rhs.val, dep[k].lhs>>]

Dependants(edges, v) == LET out == SelectSeq(edges, LAMBDA e : e[1] = v)
                        IN  [k \in DOMAIN out |-> out[k][2]]

Dfs(n, edges) ==
  LET search[s \in [finished : Seq(1 .. n), grey : SUBSET (1 .. n), cycle : BOOLEAN],
             v \in 1 .. n] ==
        IF s.cycle \/ v \in Range(s.finished) THEN s
        ELSE IF v \in s.grey THEN [s EXCEPT !.cycle = TRUE]
        ELSE LET after == FoldLeft(LAMBDA a, w : search[a, w], [s EXCEPT !.grey = @ \cup {v}],
                                   Dependants(edges, v))
             IN  IF after.cycle THEN after ELSE [after EXCEPT !.finished = Append(@, v)]
  IN  search

(* The vertices in the reverse order of their finishing.  The exception    *)
(* that a cycle raises is caught, and leaves those finished before it.     *)
visitInOrder(n, edges) ==
  Reverse(FoldLeft(LAMBDA s, v : Dfs(n, edges)[s, v],
                   [finished |-> <<>>, grey |-> {}, cycle |-> FALSE],
                   [v \in 1 .. n |-> v]).finished)
=============================================================================
