----------------------------- MODULE AliasTable -----------------------------
(***************************************************************************)
(* create_multi_alias_table (for one target) and create_single_alias_table *)
(* in afl-fuzz-queue.c, and the selection that uses the table.  Weights    *)
(* are whole numbers, and every probability is kept as a multiple of       *)
(* 1/sum, so that P[s] < 1 reads P[s] < sum; rounding is not modelled.     *)
(* Weights that are not numbers are left to TargetQueue.                   *)
(***************************************************************************)
EXTENDS Integers, Sequences, Functions, Iteration

CONSTANTS
  MaxN,        \* bound on the number of entries
  MaxWeight    \* bound on an entry's weight; 0 is a disabled entry's

ASSUME TableAssumption == MaxN \in Nat /\ MaxWeight \in Nat

VARIABLES
  built, weight,
  left,               \* slots that the first loop has not sorted yet
  P,                  \* what is left of each entry's share
  S, L,               \* stacks of the entries with less, and with not less, than 1
  prob, alias         \* the table: alias_probability and alias_table

tableVars == <<built, weight, left, P, S, L, prob, alias>>

N == Len(weight)
Slot == 1 .. N
sum == Total(weight)

(* P[s] < 1.  With no weight at all P is 0/0, which is less than nothing.  *)
BelowOne(p) == sum # 0 /\ p < sum

TableInit ==
  /\ weight \in UNION {[1 .. k -> 0 .. MaxWeight] : k \in 1 .. MaxN}
  /\ built = FALSE /\ left = N
  /\ P = [s \in Slot |-> weight[s] * N]
  /\ S = <<>> /\ L = <<>>
  /\ prob = [s \in Slot |-> 0] /\ alias = [s \in Slot |-> 1]

(* for (s = n - 1; s >= 0; --s): the last entry ends up at the bottom.     *)
Split ==
  /\ left > 0 /\ left' = left - 1
  /\ IF BelowOne(P[left]) THEN S' = Append(S, left) /\ UNCHANGED L
                          ELSE L' = Append(L, left) /\ UNCHANGED S
  /\ UNCHANGED <<built, weight, P, prob, alias>>

Top(stack) == stack[Len(stack)]
Popped(stack) == SubSeq(stack, 1, Len(stack) - 1)

(* The slot of a small entry is filled up with a part of a large one.      *)
Pair ==
  /\ left = 0 /\ S # <<>> /\ L # <<>>
  /\ LET a == Top(S)
         g == Top(L)
         rest == P[g] + P[a] - sum
     IN  /\ prob' = [prob EXCEPT ![a] = P[a]]
         /\ alias' = [alias EXCEPT ![a] = g]
         /\ P' = [P EXCEPT ![g] = rest]
         /\ S' = IF BelowOne(rest) THEN Append(Popped(S), g) ELSE Popped(S)
         /\ L' = IF BelowOne(rest) THEN Popped(L) ELSE L
  /\ UNCHANGED <<built, weight, left>>

(* while (nL) ... while (nS): what is left fills its slot alone.  One      *)
(* stands for any bound on p when there is no weight.                      *)
One == IF sum = 0 THEN 1 ELSE sum
UnfilledFill ==   \* faulty: the first of the two loops is missing
  /\ left = 0 /\ ~built /\ (S = <<>> \/ L = <<>>)
  /\ built' = TRUE
  /\ prob' = [s \in Slot |-> IF s \in Range(S) THEN One ELSE prob[s]]
  /\ S' = <<>> /\ L' = <<>>
  /\ UNCHANGED <<weight, left, P, alias>>
Fill ==
  /\ left = 0 /\ ~built /\ (S = <<>> \/ L = <<>>)
  /\ built' = TRUE
  /\ prob' = [s \in Slot |-> IF s \in Range(S) \cup Range(L) THEN One ELSE prob[s]]
  /\ S' = <<>> /\ L' = <<>>
  /\ UNCHANGED <<weight, left, P, alias>>

TableDone == built /\ UNCHANGED tableVars

TableNext == Split \/ Pair \/ Fill \/ TableDone

TableSpec == TableInit /\ [][TableNext]_tableVars

(* p < prob[s] ? s : alias[s]: how much of the slots leads to i.           *)
Chance(i) ==
  Total([s \in Slot |-> (IF s = i THEN prob[s] ELSE 0)
                          + (IF alias[s] = i THEN One - prob[s] ELSE 0)])

-----------------------------------------------------------------------------
(* A slot leads to each entry exactly in proportion to its weight: no      *)
(* entry is starved and a disabled one (weight 0) is never drawn, however  *)
(* the pairing runs, as long as the weights are numbers.                   *)
Proportional ==
  built /\ sum # 0 => \A i \in Slot : Chance(i) = weight[i] * N
=============================================================================
