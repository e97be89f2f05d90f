------------------------- MODULE TargetQueueProofs -------------------------
(* Proofs about TargetQueue, for any number of targets and of entries.     *)
EXTENDS TargetQueue, FiniteSetTheorems, TLAPS

(* Unless a step says otherwise: Zenon for a moment, SMT, Zenon.           *)
USE ZenonT(2), SMTT(30), ZenonT(30)

(* Up to the end of the dry run: pending_not_fuzzed counts the entries     *)
(* that are left, the seeds still to be run are untouched, and of every    *)
(* active target a seed has been calibrated.                               *)
DryRunInv ==
  pc \in {"dry", "dedup"} =>
    /\ queue_cur = 0 /\ nextTarget = 0 /\ ~firstCycleDone
    /\ pending_not_fuzzed = Cardinality(Enabled(Items))
    /\ pc = "dry" => \A i \in idx .. Len(queue) :
                       ~queue[i].disabled /\ queue[i].cal_failed = 0
    /\ pc = "dedup" => idx = Len(queue)
    /\ \A t \in targetActive : \E i \in Calibrated(t) : pc = "dry" => i < idx

(* The recorded seeds stay favoured until the first cycle is over, since   *)
(* there are no more of them than targets.                                 *)
NSeeds == IF pc = "dry" THEN Len(queue) ELSE idx
FavouredInv ==
  ~mode.resume /\ ~firstCycleDone =>
    NSeeds <= NTargets /\ \A i \in 1 .. NSeeds : queue[i].favored

(* An active target has an entry that can be selected, and the target whose*)
(* turn it is is active.                                                   *)
ActiveInv ==
  /\ \A t \in targetActive : Enabled(EntriesOf(t)) # {}
  /\ pc \notin {"dry", "dedup", "spin", "fatal"} => nextTarget \in targetActive

(* The tables in use hold the entries there were when they were built, and *)
(* yield no others.                                                        *)
TableInv ==
  /\ IF firstCycleDone THEN single_alias = 1 .. prev_queued_items
     ELSE \A t \in Target :
            multi_alias[t] = {i \in 1 .. prev_queued_items : queue[i].tgt = t}
  /\ pc = "select" => prev_queued_items = Len(queue)
  /\ \A t \in Target : yields[t] \subseteq multi_alias[t]

(* The current entry is there, of the target whose turn it is when it is   *)
(* handed to fuzz_one, and the fork server is on its target.               *)
CurInv ==
  /\ pc \in {"fuzz", "mutate", "abandon"} => queue_cur # 0
  /\ pc = "fuzz" /\ ~firstCycleDone => Cur.tgt = nextTarget
  /\ queue_cur # 0 /\ ~mode.foreignSync => fsrvTarget = Cur.tgt

(* In the first cycle the active targets before the present one have had   *)
(* their turn, and the present one too once an entry has been selected.    *)
TurnInv ==
  /\ ~firstCycleDone /\ pc \notin {"dry", "dedup", "spin", "fatal"} =>
       /\ \A t \in targetActive : t < nextTarget => t \in attended
       /\ queue_cur # 0 => nextTarget \in attended
  /\ AttentionFirst

IInv ==
  TypeOK /\ DryRunInv /\ FavouredInv /\ ActiveInv /\ TableInv /\ CurInv /\ TurnInv

-----------------------------------------------------------------------------
(* The operators                                                           *)

(* A sequence with one element replaced.                                   *)
LEMMA ExceptSeq ==
  ASSUME NEW A, NEW s \in Seq(A), NEW i \in 1 .. Len(s), NEW e \in A
  PROVE  [s EXCEPT ![i] = e] \in Seq(A) /\ Len([s EXCEPT ![i] = e]) = Len(s)
OBVIOUS

(* A sequence with one element more.                                       *)
LEMMA AppendProperties ==
  ASSUME NEW A, NEW s \in Seq(A), NEW e \in A
  PROVE  /\ Append(s, e) \in Seq(A) /\ Len(Append(s, e)) = Len(s) + 1
         /\ \A i \in 1 .. Len(s) : Append(s, e)[i] = s[i]
OBVIOUS

(* Every nonempty set of naturals has a least element: the intervals that  *)
(* end in its elements are finite, hence one of them contains no other.    *)
LEMMA LeastElement ==
  ASSUME NEW S \in SUBSET Nat, S # {}
  PROVE  \E m \in S : \A k \in S : m <= k
<1> DEFINE T == {0 .. n : n \in S}
<1>1. T \subseteq FiniteSubsetsOf(Nat) /\ T # {}
  <2>1. \A n \in S : 0 .. n \in SUBSET Nat /\ IsFiniteSet(0 .. n)
    BY FS_Interval
  <2> QED
    BY <2>1 DEF FiniteSubsetsOf
<1>2. PICK x \in T : \A y \in T : <<y, x>> \notin StrictSubsetOrdering(Nat)
  <2>1. IsWellFoundedOn(StrictSubsetOrdering(Nat), FiniteSubsetsOf(Nat))
    BY FS_StrictSubsetOrderingWellFounded
  <2> HIDE DEF T
  <2> QED
    BY <1>1, <2>1, WFMin
<1>3. PICK m \in S : x = 0 .. m
  BY <1>2
<1>4. ASSUME NEW k \in S, k < m PROVE FALSE
  <2>1. 0 .. k \subseteq 0 .. m /\ 0 .. k # 0 .. m
    <3>1. m \in 0 .. m /\ m \notin 0 .. k
      BY <1>4
    <3> QED
      BY <1>4, <3>1
  <2>2. <<0 .. k, 0 .. m>> \in StrictSubsetOrdering(Nat)
    BY <2>1 DEF StrictSubsetOrdering
  <2> QED
    BY <1>2, <1>3, <2>2
<1> QED
  BY <1>4

(* Min yields the least element.                                           *)
LEMMA MinIsLeast ==
  ASSUME NEW S \in SUBSET Nat, S # {}
  PROVE  Min(S) \in S /\ \A k \in S : Min(S) <= k
BY LeastElement DEF Min

(* An index that is less than two rounds beyond 0 is reduced by one round. *)
LEMMA OneRound ==
  ASSUME NEW a \in 0 .. 2 * NTargets - 1
  PROVE  a % NTargets = IF a < NTargets THEN a ELSE a - NTargets
BY TargetsAssumption

(* cycleTarget yields an active target, and passes over none.              *)
LEMMA CycleTargetNext ==
  ASSUME nextTarget \in Target, targetActive \subseteq Target, targetActive # {}
  PROVE  /\ cycleTarget \in targetActive
         /\ \A t \in targetActive :
              IF nextTarget < cycleTarget THEN t <= nextTarget \/ cycleTarget <= t
              ELSE t <= nextTarget
<1> DEFINE steps == {n \in 1 .. NTargets : (nextTarget + n) % NTargets \in targetActive}
           At(n) == IF nextTarget + n < NTargets THEN nextTarget + n
                    ELSE nextTarget + n - NTargets
<1> USE TargetsAssumption DEF Target
<1>1. \A n \in 1 .. NTargets : (nextTarget + n) % NTargets = At(n)
  BY OneRound
<1>2. \A t \in targetActive : \E n \in steps : At(n) = t
  <2> TAKE t \in targetActive
  <2>1. CASE t > nextTarget
    <3>1. t - nextTarget \in 1 .. NTargets /\ At(t - nextTarget) = t
      BY <2>1
    <3> QED
      BY <1>1, <3>1
  <2>2. CASE t <= nextTarget
    <3>1. t + NTargets - nextTarget \in 1 .. NTargets /\ At(t + NTargets - nextTarget) = t
      BY <2>2
    <3> QED
      BY <1>1, <3>1
  <2> QED
    BY <2>1, <2>2
<1>3. Min(steps) \in steps /\ \A k \in steps : Min(steps) <= k
  <2>1. steps \in SUBSET Nat /\ steps # {}
    <3>1. PICK t \in targetActive : TRUE
      OBVIOUS
    <3>2. \E n \in steps : At(n) = t
      BY <1>2
    <3>3. steps \subseteq 1 .. NTargets
      OBVIOUS
    <3> HIDE DEF steps, At
    <3> QED
      BY <3>2, <3>3
  <2> HIDE DEF steps
  <2> QED
    BY <2>1, MinIsLeast
<1>4. cycleTarget = At(Min(steps))
  BY <1>1, <1>3 DEF cycleTarget
<1>5. cycleTarget \in targetActive
  BY <1>3 DEF cycleTarget
<1>6. ASSUME NEW t \in targetActive
      PROVE  IF nextTarget < cycleTarget THEN t <= nextTarget \/ cycleTarget <= t
             ELSE t <= nextTarget
  <2>1. PICK n \in steps : At(n) = t
    BY <1>2
  <2>2. PICK m \in 1 .. NTargets : m = Min(steps)
    BY <1>3
  <2>3. m <= n /\ n \in 1 .. NTargets /\ cycleTarget = At(m)
    BY <1>3, <1>4, <2>2
  <2> HIDE DEF steps
  <2> QED
    BY <2>1, <2>3
<1> QED
  BY <1>5, <1>6

(* The entries of the queue are its indexes.                               *)
LEMMA ItemsOfQueue == TypeOK => Items = 1 .. Len(queue) /\ Len(queue) \in Nat
BY DEF TypeOK, Items

-----------------------------------------------------------------------------
(* Steps that leave the queue alone                                        *)

(* A step that changes neither the queue nor what is counted, and moves on *)
(* inside the main loop.                                                   *)
LEMMA SkipInv == IInv /\ UNCHANGED mode /\ (Skip \/ Begin) => IInv'
<1> SUFFICES ASSUME IInv, UNCHANGED mode, Skip \/ Begin PROVE IInv'
  OBVIOUS
<1>1. /\ UNCHANGED <<mode, queue, seedVars, cycleVars, countVars, scoreVars, tableVars, curVars>>
      /\ pc = "fuzz" /\ pc' \in {"table", "mutate"}
  BY DEF Skip, Begin
<1>2. TypeOK'
  BY <1>1 DEF IInv, TypeOK, Items, seedVars, cycleVars, countVars, scoreVars, tableVars, curVars
<1> USE <1>1 DEF IInv, seedVars, cycleVars, countVars, scoreVars, tableVars, curVars
<1>3. DryRunInv' /\ FavouredInv' /\ ActiveInv'
  BY DEF DryRunInv, FavouredInv, NSeeds, ActiveInv, EntriesOf, Enabled, Items
<1>4. TableInv' /\ CurInv' /\ TurnInv'
  BY DEF TableInv, CurInv, Cur, TurnInv, AttentionFirst
<1> QED
  BY <1>2, <1>3, <1>4

(* cycleTarget's endless search.                                           *)
LEMMA SpinInv == IInv /\ UNCHANGED mode /\ Spin => IInv'
<1> SUFFICES ASSUME IInv, UNCHANGED mode, Spin PROVE IInv'
  OBVIOUS
<1> USE DEF IInv, Spin, seedVars, countVars, scoreVars, tableVars, curVars
<1>1. nextTarget' \in Target
  BY TargetsAssumption DEF TypeOK, Target
<1>2. TypeOK'
  BY <1>1 DEF TypeOK, Items
<1>3. DryRunInv' /\ FavouredInv' /\ ActiveInv'
  BY DEF DryRunInv, FavouredInv, NSeeds, ActiveInv, EntriesOf, Enabled, Items
<1>4. TableInv' /\ CurInv' /\ TurnInv'
  BY DEF TableInv, CurInv, Cur, TurnInv, AttentionFirst
<1> QED
  BY <1>2, <1>3, <1>4

(* create_single_alias_table leaves the tables of the targets as they are. *)
LEMMA SingleTable ==
  ASSUME CreateSingleAliasTable, yields \in [Target \cup {NoTarget} -> SUBSET Items]
  PROVE  /\ single_alias' = Items /\ multi_alias' = multi_alias
         /\ yields' \in [Target \cup {NoTarget} -> SUBSET Items]
         /\ \A t \in Target : yields'[t] = yields[t]
<1>1. PICK nan \in BOOLEAN : yields' = [yields EXCEPT ![NoTarget] = Yield(Items, nan)]
  BY DEF CreateSingleAliasTable
<1>2. Yield(Items, nan) \subseteq Items
  BY DEF Yield, Enabled
<1>3. NoTarget \notin Target
  BY TargetsAssumption DEF NoTarget, Target
<1> QED
  BY <1>1, <1>2, <1>3 DEF CreateSingleAliasTable

(* The table of a target yields entries of the target only.                *)
LEMMA MultiTables ==
  ASSUME CreateMultiAliasTable, yields \in [Target \cup {NoTarget} -> SUBSET Items]
  PROVE  /\ single_alias' = single_alias
         /\ multi_alias' \in [Target -> SUBSET Items]
         /\ yields' \in [Target \cup {NoTarget} -> SUBSET Items]
         /\ \A t \in Target : multi_alias'[t] = EntriesOf(t) /\ yields'[t] \subseteq EntriesOf(t)
<1>1. PICK nan \in SUBSET Target :
        yields' = [t \in Target \cup {NoTarget} |->
                     IF t = NoTarget THEN yields[t] ELSE Yield(EntriesOf(t), t \in nan)]
  BY DEF CreateMultiAliasTable
<1>2. \A t \in Target : EntriesOf(t) \subseteq Items /\ Yield(EntriesOf(t), t \in nan) \subseteq EntriesOf(t)
  BY DEF EntriesOf, Yield, Enabled
<1>3. NoTarget \notin Target
  BY TargetsAssumption DEF NoTarget, Target
<1>4. \A t \in Target \cup {NoTarget} : yields'[t] \in SUBSET Items
  BY <1>1, <1>2, <1>3
<1>5. \A t \in Target : yields'[t] \subseteq EntriesOf(t)
  BY <1>1, <1>2, <1>3
<1>6. yields' \in [Target \cup {NoTarget} -> SUBSET Items]
  BY <1>1, <1>4
<1> QED
  BY <1>2, <1>5, <1>6 DEF CreateMultiAliasTable

(* The tables are built for the entries there are.                         *)
LEMMA CreateAliasTableInv == IInv /\ UNCHANGED mode /\ CreateAliasTable => IInv'
<1> SUFFICES ASSUME IInv, UNCHANGED mode, CreateAliasTable PROVE IInv'
  OBVIOUS
<1> USE DEF IInv, CreateAliasTable, seedVars, cycleVars, countVars, scoreVars, curVars
<1>0. Items = 1 .. Len(queue) /\ Len(queue) \in Nat
  BY ItemsOfQueue
<1>1. /\ reinit_table' \in BOOLEAN /\ prev_queued_items' = Len(queue)
      /\ multi_alias' \in [Target -> SUBSET Items] /\ single_alias' \subseteq Items
      /\ yields' \in [Target \cup {NoTarget} -> SUBSET Items]
      /\ \A t \in Target : yields'[t] \subseteq multi_alias'[t]
  <2>1. CASE (prev_queued_items < Len(queue) \/ reinit_table) /\ firstCycleDone
    BY <2>1, SingleTable DEF TypeOK, TableInv
  <2>2. CASE (prev_queued_items < Len(queue) \/ reinit_table) /\ ~firstCycleDone
    BY <2>2, MultiTables DEF TypeOK
  <2>3. CASE ~(prev_queued_items < Len(queue) \/ reinit_table)
    <3>1. UNCHANGED tableVars
      BY <2>3
    <3>2. ~(prev_queued_items < Len(queue)) /\ prev_queued_items \in 0 .. Len(queue)
      BY <2>3 DEF TypeOK
    <3>3. prev_queued_items = Len(queue)
      BY <1>0, <3>2
    <3> QED
      BY <3>1, <3>3 DEF TypeOK, TableInv, tableVars
  <2> QED
    BY <2>1, <2>2, <2>3
<1>2. TypeOK'
  BY <1>0, <1>1 DEF TypeOK, Items
<1>3. DryRunInv' /\ FavouredInv' /\ ActiveInv'
  BY DEF DryRunInv, FavouredInv, NSeeds, ActiveInv, EntriesOf, Enabled, Items
<1>6. UNCHANGED <<queue, firstCycleDone>>
  OBVIOUS
<1>7. yields \in [Target \cup {NoTarget} -> SUBSET Items]
  BY DEF TypeOK
<1>4. TableInv'
  <2>1. CASE prev_queued_items < Len(queue) \/ reinit_table
    <3>1. CASE firstCycleDone
      <4>1. single_alias' = Items
        BY <1>7, <2>1, <3>1, SingleTable
      <4> HIDE DEF IInv, CreateAliasTable
      <4> QED
        BY <1>0, <1>1, <1>6, <3>1, <4>1 DEF TableInv
    <3>2. CASE ~firstCycleDone
      <4>1. \A t \in Target : multi_alias'[t] = EntriesOf(t)
        BY <1>7, <2>1, <3>2, MultiTables
      <4> HIDE DEF IInv, CreateAliasTable
      <4> QED
        BY <1>0, <1>1, <1>6, <3>2, <4>1 DEF TableInv, EntriesOf
    <3> QED
      BY <3>1, <3>2
  <2>2. CASE ~(prev_queued_items < Len(queue) \/ reinit_table)
    BY <1>1, <2>2 DEF TableInv, tableVars
  <2> QED
    BY <2>1, <2>2
<1>5. CurInv' /\ TurnInv'
  BY DEF CurInv, Cur, TurnInv, AttentionFirst
<1> QED
  BY <1>2, <1>3, <1>4, <1>5

-----------------------------------------------------------------------------
(* The selection of an entry                                               *)

(* What the selection of an entry does.                                    *)
LEMMA SelectedInv ==
  ASSUME IInv, UNCHANGED <<mode, multi_alias, prev_queued_items>>, pc = "select",
         NEW i \in Items, SetQueueCur(i),
         reinit_table' \in BOOLEAN, single_alias' \subseteq Items,
         yields' \in [Target \cup {NoTarget} -> SUBSET Items],
         \A t \in Target : yields'[t] = yields[t],
         nextTarget' \in targetActive, firstCycleDone' \in BOOLEAN,
         firstCycleDone' => single_alias' = Items,
         ~firstCycleDone' => ~firstCycleDone /\ queue[i].tgt = nextTarget',
         \A t \in targetActive :
           firstCycleDone' \/ t < nextTarget' => t \in attended \cup {queue[i].tgt}
  PROVE  IInv'
<1> USE DEF IInv, SetQueueCur, seedVars, countVars, scoreVars
<1>0. Items = 1 .. Len(queue) /\ Len(queue) \in Nat
  BY ItemsOfQueue
<1>1. queue[i] \in QueueEntry
  BY <1>0 DEF TypeOK
<1>2. TypeOK'
  <2>1. fsrvTarget' \in Target \cup {NoTarget} /\ attended' \subseteq Target
    BY <1>1 DEF TypeOK, QueueEntry
  <2> QED
    BY <1>0, <2>1 DEF TypeOK, Items
<1>3. DryRunInv' /\ FavouredInv' /\ ActiveInv'
  BY DEF DryRunInv, FavouredInv, NSeeds, ActiveInv, EntriesOf, Enabled, Items
<1>4. TableInv'
  BY <1>0 DEF TableInv
<1>5. CurInv'
  BY <1>0, <1>1 DEF CurInv, Cur
<1>6. TurnInv'
  BY DEF TurnInv, AttentionFirst
<1> QED
  BY <1>2, <1>3, <1>4, <1>5, <1>6

(* In the first cycle a target's table yields an entry of that target.     *)
LEMMA YieldOfTarget ==
  ASSUME IInv, pc = "select", ~firstCycleDone,
         NEW t \in targetActive, NEW i \in yields[t]
  PROVE  i \in Items /\ queue[i].tgt = t
<1>1. t \in Target /\ multi_alias[t] = EntriesOf(t)
  BY ItemsOfQueue DEF IInv, TypeOK, TableInv, EntriesOf
<1> QED
  BY <1>1 DEF IInv, TableInv, EntriesOf

(* An entry of the target whose turn it is.                                *)
LEMMA SelectFromTargetInv == IInv /\ UNCHANGED mode /\ SelectFromTarget => IInv'
<1> SUFFICES ASSUME IInv, UNCHANGED mode, SelectFromTarget PROVE IInv'
  OBVIOUS
<1>1. PICK i \in yields[nextTarget] : SetQueueCur(i)
  BY DEF SelectFromTarget
<1>2. pc = "select" /\ ~firstCycleDone /\ UNCHANGED <<cycleVars, tableVars>>
  BY DEF SelectFromTarget
<1>3. nextTarget \in targetActive
  BY <1>2 DEF IInv, ActiveInv
<1>4. i \in Items /\ queue[i].tgt = nextTarget
  BY <1>1, <1>2, <1>3, YieldOfTarget
<1>5. \A t \in targetActive : t < nextTarget => t \in attended
  BY <1>2 DEF IInv, TurnInv
<1>6. /\ single_alias \subseteq Items /\ {reinit_table, firstCycleDone} \subseteq BOOLEAN
      /\ yields \in [Target \cup {NoTarget} -> SUBSET Items]
  BY DEF IInv, TypeOK
<1> QED
  BY <1>1, <1>2, <1>3, <1>4, <1>5, <1>6, SelectedInv DEF cycleVars, tableVars

(* On to the next active target.  It is the wrap if none follows, and then *)
(* all of them have had their turn.                                        *)
LEMMA SwitchTargetInv == IInv /\ UNCHANGED mode /\ SwitchTarget => IInv'
<1> SUFFICES ASSUME IInv, UNCHANGED mode, SwitchTarget PROVE IInv'
  OBVIOUS
<1>1. PICK i \in yields[nextTarget'] : SetQueueCur(i)
  BY DEF SwitchTarget
<1>2. /\ pc = "select" /\ ~firstCycleDone /\ queue_cur # 0
      /\ nextTarget' = cycleTarget /\ firstCycleDone' = (nextTarget > nextTarget')
      /\ UNCHANGED prev_queued_items
      /\ reinit_table' \in {FALSE, reinit_table}
      /\ IF firstCycleDone' THEN CreateSingleAliasTable
         ELSE UNCHANGED <<multi_alias, single_alias, yields>>
  BY DEF SwitchTarget
<1>9. /\ {reinit_table, reinit_table'} \subseteq BOOLEAN /\ single_alias \subseteq Items
      /\ yields \in [Target \cup {NoTarget} -> SUBSET Items]
  BY <1>2 DEF IInv, TypeOK
<1>3. /\ single_alias' \subseteq Items /\ UNCHANGED multi_alias
      /\ firstCycleDone' => single_alias' = Items
      /\ yields' \in [Target \cup {NoTarget} -> SUBSET Items]
      /\ \A t \in Target : yields'[t] = yields[t]
  BY <1>2, <1>9, SingleTable
<1>4. nextTarget \in Target /\ nextTarget \in targetActive /\ targetActive \subseteq Target
  BY <1>2 DEF IInv, TypeOK, ActiveInv
<1>5. /\ cycleTarget \in targetActive
      /\ \A t \in targetActive :
           IF nextTarget < cycleTarget THEN t <= nextTarget \/ cycleTarget <= t
           ELSE t <= nextTarget
  BY <1>4, CycleTargetNext
<1>6. i \in Items /\ queue[i].tgt = nextTarget'
  BY <1>1, <1>2, <1>5, YieldOfTarget
<1>7. ASSUME NEW t \in targetActive, firstCycleDone' \/ t < nextTarget'
      PROVE  t \in attended
  <2>3. nextTarget > cycleTarget \/ t < cycleTarget
    BY <1>2, <1>7
  <2>1. t <= nextTarget
    BY <1>4, <1>5, <2>3 DEF Target
  <2>2. (t < nextTarget => t \in attended) /\ nextTarget \in attended
    BY <1>2 DEF IInv, TurnInv
  <2> QED
    BY <1>4, <2>1, <2>2 DEF Target
<1>8. firstCycleDone' \in BOOLEAN
  BY <1>2
<1> QED
  BY <1>1, <1>2, <1>3, <1>5, <1>6, <1>7, <1>8, <1>9, SelectedInv

(* After the first cycle, any entry.                                       *)
LEMMA SelectFromAllInv == IInv /\ UNCHANGED mode /\ SelectFromAll => IInv'
<1> SUFFICES ASSUME IInv, UNCHANGED mode, SelectFromAll PROVE IInv'
  OBVIOUS
<1>1. PICK i \in yields[NoTarget] : SetQueueCur(i)
  BY DEF SelectFromAll
<1>2. pc = "select" /\ firstCycleDone /\ UNCHANGED <<cycleVars, tableVars>>
  BY DEF SelectFromAll
<1>3. nextTarget \in targetActive /\ Enabled(EntriesOf(nextTarget)) # {}
  BY <1>2 DEF IInv, ActiveInv
<1>4. single_alias = Items
  BY <1>2, ItemsOfQueue DEF IInv, TableInv
<1>5. i \in Items /\ yields \in [Target \cup {NoTarget} -> SUBSET Items]
  BY <1>1 DEF IInv, TypeOK
<1>6. \A t \in targetActive : t \in attended
  BY <1>2 DEF IInv, TurnInv, AttentionFirst
<1>7. reinit_table \in BOOLEAN
  BY DEF IInv, TypeOK
<1> QED
  BY <1>1, <1>2, <1>3, <1>4, <1>5, <1>6, <1>7, SelectedInv DEF cycleVars, tableVars

-----------------------------------------------------------------------------
(* Steps that change the queue                                             *)

(* Flags of entries change, but neither their number, their targets nor    *)
(* which are disabled.                                                     *)
FlagsOnly ==
  /\ queue' \in Seq(QueueEntry) /\ Len(queue') = Len(queue)
  /\ \A i \in 1 .. Len(queue) :
       queue'[i].tgt = queue[i].tgt /\ queue'[i].disabled = queue[i].disabled

(* A step of the main loop that changes no more than that keeps what does  *)
(* not depend on the other flags.                                          *)
LEMMA FlagsOnlyInv ==
  ASSUME IInv, FlagsOnly, pc' \notin {"dry", "dedup", "select"},
         UNCHANGED <<mode, seedVars, cycleVars, multi_alias, single_alias, yields,
                     prev_queued_items, queue_cur, attended>>,
         fsrvTarget' \in {fsrvTarget, Cur.tgt},
         pc' \notin {"spin", "fatal"} => pc \notin {"dry", "dedup", "spin", "fatal"},
         pc' = "fuzz" => pc = "fuzz",
         pc' \in {"mutate", "abandon"} => pc \in {"fuzz", "mutate", "abandon"}
  PROVE  DryRunInv' /\ ActiveInv' /\ TableInv' /\ CurInv' /\ TurnInv'
<1> USE DEF IInv, FlagsOnly, seedVars, cycleVars
<1>0. Items = 1 .. Len(queue) /\ Len(queue) \in Nat /\ Items' = Items
  BY ItemsOfQueue DEF Items
<1>1. DryRunInv'
  BY DEF DryRunInv
<1>2. ActiveInv'
  <2>1. \A t : Enabled(EntriesOf(t))' = Enabled(EntriesOf(t))
    BY <1>0 DEF Enabled, EntriesOf
  <2> QED
    BY <2>1 DEF ActiveInv
<1>3. TableInv'
  <2>1. \A i \in 1 .. prev_queued_items : i \in 1 .. Len(queue)
    BY <1>0 DEF TypeOK
  <2> QED
    BY <2>1 DEF TableInv
<1>4. CurInv'
  <2>1. queue_cur # 0 => queue_cur \in 1 .. Len(queue)
    BY <1>0 DEF TypeOK
  <2> QED
    BY <2>1 DEF CurInv, Cur
<1>5. TurnInv'
  BY DEF TurnInv, AttentionFirst
<1> QED
  BY <1>1, <1>2, <1>3, <1>4, <1>5

(* A u32 that is counted down wraps only at 0, and one counted up stays in *)
(* its range.                                                              *)
LEMMA Counting ==
  ASSUME NEW n \in 0 .. U32 - 1
  PROVE  /\ Dec(n) \in 0 .. U32 - 1 /\ (n + 1) % U32 \in 0 .. U32 - 1
         /\ n > 0 => Dec(n) = n - 1
<1>1. U32 \in Nat \ {0}
  BY ItemsAssumption
<1>2. n > 0 => (n + U32 - 1) % U32 = n - 1
  BY <1>1
<1> QED
  BY <1>1, <1>2 DEF Dec

(* An entry that is taken out of the queue keeps its target and its mark   *)
(* as a favourite.                                                         *)
LEMMA DisabledEntry ==
  ASSUME NEW e \in QueueEntry
  PROVE  /\ Disabled(e) \in QueueEntry /\ Disabled(e).disabled
         /\ Disabled(e).tgt = e.tgt /\ Disabled(e).favored = e.favored
<1>1. Disabled(e) \in QueueEntry
  BY DEF Disabled, QueueEntry
<1>2. Disabled(e).disabled /\ Disabled(e).tgt = e.tgt /\ Disabled(e).favored = e.favored
  BY DEF Disabled, QueueEntry
<1> QED
  BY <1>1, <1>2

(* A set of entries has no more members than a u32 can count.              *)
LEMMA CountFits ==
  ASSUME TypeOK, NEW S \in SUBSET Items
  PROVE  IsFiniteSet(S) /\ Cardinality(S) \in 0 .. Len(queue) /\ Len(queue) < U32
<1>1. Items = 1 .. Len(queue) /\ Len(queue) \in Nat
  BY ItemsOfQueue
<1>2. IsFiniteSet(Items) /\ Cardinality(Items) = Len(queue)
  <2>1. /\ IsFiniteSet(1 .. Len(queue))
        /\ Cardinality(1 .. Len(queue)) = IF 1 > Len(queue) THEN 0 ELSE Len(queue) - 1 + 1
    <3>1. 1 \in Int /\ Len(queue) \in Int
      BY <1>1
    <3> QED
      BY ZenonT(30), <3>1, FS_Interval
  <2> QED
    BY <1>1, <2>1
<1>3. IsFiniteSet(S) /\ Cardinality(S) <= Len(queue) /\ Cardinality(S) \in Nat
  BY <1>2, FS_Subset, FS_CardinalityType
<1> QED
  BY <1>1, <1>3, ItemsAssumption DEF TypeOK

(* cull_queue: the winners change, the seeds stay favoured.                *)
LEMMA CullQueueInv ==
  ASSUME IInv, CullQueue, pc \in {"start", "loop"}, pc' \in {"fatal", "loop", "table"},
         UNCHANGED <<mode, seedVars, cycleVars, pending_not_fuzzed, top_rated,
                     tableVars, curVars>>
  PROVE  IInv'
<1>0. Items = 1 .. Len(queue) /\ Len(queue) \in Nat
  BY ItemsOfQueue DEF IInv
<1>1. /\ FlagsOnly /\ pending_favored' \in 0 .. U32 - 1 /\ score_changed' \in BOOLEAN
      /\ \A i \in Items : queue[i].favored /\ ~firstCycleDone /\ i <= NTargets => queue'[i].favored
  <2>1. CASE ~score_changed
    BY <1>0, <2>1 DEF CullQueue, FlagsOnly, IInv, TypeOK
  <2>2. CASE score_changed
    <3>1. PICK F \in SUBSET top_rated :
            /\ queue' = [i \in Items |->
                 [queue[i] EXCEPT !.favored = i \in F \cup Seeds,
                                  !.fuzz_level = IF i \in Seeds THEN 0 ELSE @,
                                  !.was_fuzzed = @ /\ i \notin Seeds]]
            /\ pending_favored' =
                 Cardinality({i \in F : ~queue[i].was_fuzzed} \cup (Seeds \ F))
            /\ score_changed' = FALSE
      BY <2>2 DEF CullQueue
    <3>2. {i \in F : ~queue[i].was_fuzzed} \cup (Seeds \ F) \in SUBSET Items
      BY <3>1 DEF IInv, TypeOK, Seeds
    <3>3. pending_favored' \in 0 .. U32 - 1
      <4>1. pending_favored' \in 0 .. Len(queue) /\ Len(queue) < U32
        BY <3>1, <3>2, CountFits DEF IInv
      <4> QED
        BY <1>0, <4>1, ItemsAssumption
    <3>4. ASSUME NEW i \in 1 .. Len(queue)
          PROVE  /\ queue'[i] \in QueueEntry
                 /\ queue'[i].tgt = queue[i].tgt /\ queue'[i].disabled = queue[i].disabled
                 /\ ~firstCycleDone /\ i <= NTargets => queue'[i].favored
      <4>1. queue[i] \in QueueEntry
        BY DEF IInv, TypeOK
      <4>2. queue'[i] = [queue[i] EXCEPT !.favored = i \in F \cup Seeds,
                                  !.fuzz_level = IF i \in Seeds THEN 0 ELSE @,
                                  !.was_fuzzed = @ /\ i \notin Seeds]
        BY <1>0, <3>1
      <4>3. (i \in F \cup Seeds) \in BOOLEAN /\ (queue[i].was_fuzzed /\ i \notin Seeds) \in BOOLEAN
        OBVIOUS
      <4>4. (IF i \in Seeds THEN 0 ELSE queue[i].fuzz_level) \in 0 .. 1
        BY <4>1 DEF QueueEntry
      <4>5. /\ queue'[i].tgt = queue[i].tgt /\ queue'[i].disabled = queue[i].disabled
            /\ queue'[i].cal_failed = queue[i].cal_failed
            /\ queue'[i].favored = (i \in F \cup Seeds)
        BY <4>1, <4>2 DEF QueueEntry
      <4>6. queue'[i] \in QueueEntry
        BY <4>1, <4>2, <4>3, <4>4 DEF QueueEntry
      <4>7. ~firstCycleDone /\ i <= NTargets => i \in Seeds
        BY <1>0 DEF Seeds
      <4> QED
        BY <4>5, <4>6, <4>7
    <3>5. queue' \in Seq(QueueEntry) /\ Len(queue') = Len(queue)
      <4>1. queue' \in [1 .. Len(queue) -> QueueEntry]
        BY <1>0, <3>1, <3>4
      <4> QED
        BY <1>0, <4>1
    <3> QED
      BY <1>0, <3>1, <3>3, <3>4, <3>5 DEF FlagsOnly
  <2> QED
    BY <2>1, <2>2
<1>2. Items' = Items
  BY <1>0, <1>1 DEF FlagsOnly, Items
<1> USE DEF seedVars, cycleVars, tableVars, curVars
<1>3. TypeOK'
  BY <1>1, <1>2 DEF IInv, TypeOK, FlagsOnly
<1>4. FavouredInv'
  <2>1. NSeeds = idx /\ NSeeds' = idx /\ idx \in 1 .. Len(queue)
    BY DEF NSeeds, IInv, TypeOK
  <2>2. ASSUME ~mode.resume, ~firstCycleDone, NEW i \in 1 .. idx
        PROVE  idx <= NTargets /\ queue'[i].favored
    <3>1. idx <= NTargets /\ queue[i].favored
      BY <2>1, <2>2 DEF IInv, FavouredInv
    <3>2. i \in Items /\ i <= NTargets
      BY <1>0, <2>1, <3>1, TargetsAssumption
    <3> QED
      BY <1>1, <2>2, <3>1, <3>2
  <2> QED
    BY <2>1, <2>2 DEF FavouredInv
<1>5. DryRunInv' /\ ActiveInv' /\ TableInv' /\ CurInv' /\ TurnInv'
  BY <1>1, FlagsOnlyInv
<1> QED
  BY <1>3, <1>4, <1>5 DEF IInv

(* An entry whose calibration failed is run again.                         *)
LEMMA RecalibrateInv == IInv /\ UNCHANGED mode /\ Recalibrate => IInv'
<1> SUFFICES ASSUME IInv, UNCHANGED mode, Recalibrate PROVE IInv'
  OBVIOUS
<1>0. Items = 1 .. Len(queue) /\ Len(queue) \in Nat
  BY ItemsOfQueue DEF IInv
<1>1. queue_cur \in 1 .. Len(queue) /\ pc = "fuzz" /\ Cur \in QueueEntry
  BY <1>0 DEF Recalibrate, IInv, CurInv, TypeOK, Cur
<1>2. /\ UNCHANGED <<seedVars, cycleVars, countVars, tableVars, queue_cur, attended>>
      /\ pc' \in {"mutate", "abandon"} /\ fsrvTarget' \in {fsrvTarget, Cur.tgt}
  BY DEF Recalibrate
<1>3. top_rated' \subseteq Items /\ score_changed' \in BOOLEAN
  BY <1>0, <1>1 DEF Recalibrate, UpdateBitmapScore, scoreVars, IInv, TypeOK
<1>4. FlagsOnly /\ \A i \in 1 .. Len(queue) : queue'[i].favored = queue[i].favored
  <2>1. CASE UNCHANGED queue
    BY <2>1 DEF FlagsOnly, IInv, TypeOK
  <2>2. ASSUME NEW n \in 0 .. CalChances, queue' = [queue EXCEPT ![queue_cur].cal_failed = n]
        PROVE  FlagsOnly /\ \A i \in 1 .. Len(queue) : queue'[i].favored = queue[i].favored
    <3> DEFINE e == [Cur EXCEPT !.cal_failed = n]
    <3>1. e \in QueueEntry /\ e.tgt = Cur.tgt /\ e.disabled = Cur.disabled /\ e.favored = Cur.favored
      BY <1>1 DEF QueueEntry
    <3>2. queue' = [queue EXCEPT ![queue_cur] = e]
      BY <2>2 DEF Cur
    <3> HIDE DEF e
    <3>3. queue' \in Seq(QueueEntry) /\ Len(queue') = Len(queue)
      BY <1>1, <3>1, <3>2, ExceptSeq DEF IInv, TypeOK
    <3>4. \A i \in 1 .. Len(queue) : queue'[i] = IF i = queue_cur THEN e ELSE queue[i]
      BY <3>2 DEF IInv, TypeOK
    <3> QED
      BY ZenonT(30), <3>1, <3>3, <3>4 DEF FlagsOnly, Cur
  <2>3. CASE Cur.cal_failed < CalChances /\ queue' = [queue EXCEPT ![queue_cur].cal_failed = @ + 1]
    <3>1. Cur.cal_failed + 1 \in 0 .. CalChances
      BY <1>1, <2>3, ItemsAssumption DEF QueueEntry
    <3> QED
      BY <2>2, <2>3, <3>1 DEF Cur
  <2>4. 0 \in 0 .. CalChances
    BY ItemsAssumption
  <2> QED
    BY <2>1, <2>2, <2>3, <2>4 DEF Recalibrate
<1>5. Items' = Items
  BY <1>0, <1>4 DEF FlagsOnly, Items
<1> USE DEF seedVars, cycleVars, tableVars, countVars
<1>6. TypeOK'
  <2>1. queue' \in Seq(QueueEntry) /\ Len(queue') = Len(queue)
    BY ZenonT(30), <1>4 DEF FlagsOnly
  <2>2. pc' \in {"mutate", "abandon"} /\ fsrvTarget' \in Target \cup {NoTarget}
    BY <1>1, <1>2 DEF IInv, TypeOK, QueueEntry
  <2> QED
    BY ZenonT(30), <1>2, <1>3, <1>5, <2>1, <2>2 DEF IInv, TypeOK
<1>7. FavouredInv'
  <2>1. NSeeds = idx /\ NSeeds' = idx /\ idx \in 1 .. Len(queue)
    BY ZenonT(30), <1>1, <1>2 DEF NSeeds, IInv, TypeOK
  <2>2. \A i \in 1 .. idx : i \in 1 .. Len(queue)
    BY <1>0, <2>1
  <2> QED
    BY ZenonT(30), <1>2, <1>4, <2>1, <2>2 DEF IInv, FavouredInv
<1>8. DryRunInv' /\ ActiveInv' /\ TableInv' /\ CurInv' /\ TurnInv'
  BY <1>1, <1>2, <1>4, FlagsOnlyInv
<1> QED
  BY <1>6, <1>7, <1>8 DEF IInv

(* The end of a turn of fuzz_one.                                          *)
LEMMA AbandonEntryInv == IInv /\ UNCHANGED mode /\ AbandonEntry => IInv'
<1> SUFFICES ASSUME IInv, UNCHANGED mode, AbandonEntry PROVE IInv'
  OBVIOUS
<1> DEFINE first == Cur.cal_failed = 0 /\ ~Cur.was_fuzzed /\ ~Cur.disabled
<1>0. Items = 1 .. Len(queue) /\ Len(queue) \in Nat
  BY ItemsOfQueue DEF IInv
<1>1. queue_cur \in 1 .. Len(queue) /\ pc \in {"mutate", "abandon"} /\ Cur \in QueueEntry
  BY <1>0 DEF AbandonEntry, IInv, CurInv, TypeOK, Cur
<1>2. /\ UNCHANGED <<seedVars, cycleVars, scoreVars, prev_queued_items, multi_alias,
                      single_alias, yields, curVars>>
      /\ pc' \in {"loop", "table"}
  BY DEF AbandonEntry
<1>3. /\ pending_not_fuzzed' \in 0 .. U32 - 1 /\ pending_favored' \in 0 .. U32 - 1
      /\ reinit_table' \in BOOLEAN
  <2>1. /\ pending_not_fuzzed \in 0 .. U32 - 1 /\ pending_favored \in 0 .. U32 - 1
        /\ pending_not_fuzzed' \in {pending_not_fuzzed, Dec(pending_not_fuzzed)}
        /\ pending_favored' \in {pending_favored, Dec(pending_favored)}
        /\ reinit_table' = (reinit_table \/ first)
    BY DEF AbandonEntry, IInv, TypeOK
  <2> QED
    BY <2>1, Counting
<1>4. FlagsOnly /\ \A i \in 1 .. Len(queue) : queue'[i].favored = queue[i].favored
  <2> DEFINE e == [Cur EXCEPT !.fuzz_level = 1, !.was_fuzzed = @ \/ first]
  <2>1. e \in QueueEntry /\ e.tgt = Cur.tgt /\ e.disabled = Cur.disabled /\ e.favored = Cur.favored
    <3>1. (Cur.was_fuzzed \/ first) \in BOOLEAN /\ 1 \in 0 .. 1
      OBVIOUS
    <3> HIDE DEF first
    <3> QED
      BY <1>1, <3>1 DEF QueueEntry
  <2>2. queue' = [queue EXCEPT ![queue_cur] = e]
    <3>1. queue' = [queue EXCEPT ![queue_cur].fuzz_level = 1,
                                 ![queue_cur].was_fuzzed = @ \/ first]
      BY DEF AbandonEntry
    <3> HIDE DEF first
    <3> QED
      BY <1>1, <3>1 DEF Cur, IInv, TypeOK, QueueEntry
  <2> HIDE DEF e
  <2>3. queue' \in Seq(QueueEntry) /\ Len(queue') = Len(queue)
    BY <1>1, <2>1, <2>2, ExceptSeq DEF IInv, TypeOK
  <2>4. \A i \in 1 .. Len(queue) : queue'[i] = IF i = queue_cur THEN e ELSE queue[i]
    BY <2>2 DEF IInv, TypeOK
  <2> QED
    BY ZenonT(30), <2>1, <2>3, <2>4 DEF FlagsOnly, Cur
<1>5. Items' = Items
  BY <1>0, <1>4 DEF FlagsOnly, Items
<1> USE DEF seedVars, cycleVars, scoreVars, curVars
<1>6. TypeOK'
  <2>1. queue' \in Seq(QueueEntry) /\ Len(queue') = Len(queue)
    BY ZenonT(30), <1>4 DEF FlagsOnly
  <2> QED
    BY <1>2, <1>3, <1>5, <2>1 DEF IInv, TypeOK
<1>7. FavouredInv'
  <2>1. NSeeds = idx /\ NSeeds' = idx /\ idx \in 1 .. Len(queue)
    BY ZenonT(30), <1>1, <1>2 DEF NSeeds, IInv, TypeOK
  <2>2. \A i \in 1 .. idx : i \in 1 .. Len(queue)
    BY <1>0, <2>1
  <2> QED
    BY ZenonT(30), <1>2, <1>4, <2>1, <2>2 DEF IInv, FavouredInv
<1>8. DryRunInv' /\ ActiveInv' /\ TableInv' /\ CurInv' /\ TurnInv'
  BY <1>1, <1>2, <1>4, FlagsOnlyInv
<1> QED
  BY <1>6, <1>7, <1>8 DEF IInv

(* add_to_queue: one more entry at the end, for any target.                *)
LEMMA AddToQueueInv ==
  ASSUME IInv, UNCHANGED <<mode, pc>>, pc \in {"mutate", "loop"},
         NEW t \in Target, AddToQueue(t),
         mode.foreignSync \/ t = Cur.tgt
  PROVE  IInv'
<1>0. Items = 1 .. Len(queue) /\ Len(queue) \in Nat
  BY ItemsOfQueue DEF IInv
<1>1. /\ Len(queue) < MaxItems /\ fsrvTarget' = t
      /\ UNCHANGED <<seedVars, cycleVars, pending_favored, tableVars, queue_cur, attended>>
  BY DEF AddToQueue
<1>2. pending_not_fuzzed' \in 0 .. U32 - 1
  BY Counting DEF AddToQueue, IInv, TypeOK
<1>3. PICK e \in QueueEntry : queue' = Append(queue, e)
  <2> DEFINE failed == [Entry(t, FALSE) EXCEPT !.cal_failed = 1]
  <2>1. Entry(t, FALSE) \in QueueEntry /\ failed \in QueueEntry
    <3>1. 0 \in 0 .. CalChances /\ 1 \in 0 .. CalChances /\ 0 \in 0 .. 1
      BY ItemsAssumption
    <3> QED
      BY <3>1 DEF Entry, QueueEntry
  <2>2. queue' = Append(queue, Entry(t, FALSE)) \/ queue' = Append(queue, failed)
    BY DEF AddToQueue
  <2> HIDE DEF failed
  <2> QED
    BY <2>1, <2>2
<1>4. /\ queue' \in Seq(QueueEntry) /\ Len(queue') = Len(queue) + 1
      /\ \A i \in 1 .. Len(queue) : queue'[i] = queue[i]
  BY <1>3, AppendProperties DEF IInv, TypeOK
<1>5. Items' = 1 .. Len(queue) + 1
  BY <1>0, <1>4 DEF Items
<1>6. top_rated' \subseteq Items' /\ score_changed' \in BOOLEAN
  <2>1. UpdateBitmapScore(Len(queue) + 1) \/ UNCHANGED scoreVars
    BY DEF AddToQueue
  <2>2. top_rated' \subseteq top_rated \cup {Len(queue) + 1} /\ score_changed' \in BOOLEAN
    BY <2>1 DEF UpdateBitmapScore, scoreVars, IInv, TypeOK
  <2> QED
    BY <1>0, <1>5, <2>2 DEF IInv, TypeOK
<1> USE DEF seedVars, cycleVars, tableVars
<1>7. TypeOK'
  <2>1. Len(queue') <= MaxItems /\ idx' \in 1 .. Len(queue') /\ queue_cur' \in 0 .. Len(queue')
          /\ prev_queued_items' \in 0 .. Len(queue')
    <3>1. /\ idx' \in 1 .. Len(queue) /\ queue_cur' \in 0 .. Len(queue)
          /\ prev_queued_items' \in 0 .. Len(queue)
      BY ZenonT(30), <1>1 DEF IInv, TypeOK
    <3>2. Len(queue) < MaxItems /\ Len(queue') = Len(queue) + 1
      BY ZenonT(30), <1>1, <1>4
    <3> QED
      BY <1>0, <3>1, <3>2, ItemsAssumption
  <2>2. /\ multi_alias' \in [Target -> SUBSET Items'] /\ single_alias' \subseteq Items'
        /\ yields' \in [Target \cup {NoTarget} -> SUBSET Items']
    BY <1>0, <1>1, <1>5 DEF IInv, TypeOK
  <2> QED
    BY <1>1, <1>2, <1>4, <1>6, <2>1, <2>2 DEF IInv, TypeOK
<1>8. DryRunInv'
  BY DEF DryRunInv
<1>9. FavouredInv'
  <2>1. NSeeds = idx /\ NSeeds' = idx /\ idx \in 1 .. Len(queue)
    BY <1>1 DEF NSeeds, IInv, TypeOK
  <2>2. \A i \in 1 .. idx : i \in 1 .. Len(queue)
    BY <1>0, <2>1
  <2> QED
    BY <1>1, <1>4, <2>1, <2>2 DEF IInv, FavouredInv
<1>10. ActiveInv'
  <2>1. \A u \in Target : Enabled(EntriesOf(u)) \subseteq Enabled(EntriesOf(u))'
    BY <1>0, <1>4, <1>5 DEF Enabled, EntriesOf
  <2> QED
    BY <1>1, <2>1 DEF IInv, TypeOK, ActiveInv
<1>11. TableInv'
  <2>1. \A i \in 1 .. prev_queued_items : i \in 1 .. Len(queue)
    BY <1>0 DEF IInv, TypeOK
  <2> QED
    BY <1>1, <1>4, <2>1 DEF IInv, TableInv
<1>12. CurInv'
  <2>1. queue_cur # 0 => queue_cur \in 1 .. Len(queue)
    BY <1>0 DEF IInv, TypeOK
  <2> QED
    BY <1>1, <1>4, <2>1 DEF IInv, CurInv, Cur
<1>13. TurnInv'
  BY <1>1 DEF IInv, TurnInv, AttentionFirst
<1> QED
  BY <1>7, <1>8, <1>9, <1>10, <1>11, <1>12, <1>13 DEF IInv

-----------------------------------------------------------------------------
(* The dry run                                                             *)

(* The step from one seed to the next: it may drop the seed or else make   *)
(* its target active.                                                      *)
LEMMA NextSeedInv ==
  ASSUME IInv, UNCHANGED mode, pc = "dry", NextSeed,
         queue' \in Seq(QueueEntry), Len(queue') = Len(queue),
         \A i \in Items : /\ i # idx => queue'[i] = queue[i]
                          /\ queue'[i].tgt = queue[i].tgt
                          /\ queue'[i].favored = queue[i].favored,
         \/ targetActive' = targetActive
         \/ queue' = queue /\ targetActive' = targetActive \cup {queue[idx].tgt},
         pending_not_fuzzed' = Cardinality(Enabled(Items)'),
         top_rated' \subseteq Items, score_changed' \in BOOLEAN
  PROVE  IInv'
<1>0. Items = 1 .. Len(queue) /\ Len(queue) \in Nat /\ Items' = Items /\ idx \in Items
  BY ItemsOfQueue DEF IInv, TypeOK, Items
<1>1. /\ UNCHANGED <<cycleVars, tableVars, queue_cur, attended, pending_favored>>
      /\ pc' = IF idx = Len(queue) THEN "dedup" ELSE "dry"
      /\ idx' = IF idx = Len(queue) THEN idx ELSE idx + 1
      /\ fsrvTarget' = queue[idx].tgt
  BY DEF NextSeed
<1>2. queue[idx] \in QueueEntry /\ queue[idx].tgt \in Target
  <2>1. queue[idx] \in QueueEntry
    BY <1>0 DEF IInv, TypeOK
  <2> QED
    BY <2>1 DEF QueueEntry
<1> USE DEF cycleVars, tableVars
<1>3. TypeOK'
  <2>1. idx' \in 1 .. Len(queue')
    BY <1>0, <1>1
  <2>2. pending_not_fuzzed' \in 0 .. U32 - 1
    <3>1. Enabled(Items)' \in SUBSET Items
      BY <1>0 DEF Enabled
    <3>2. pending_not_fuzzed' \in 0 .. Len(queue) /\ Len(queue) < U32
      BY <3>1, CountFits DEF IInv
    <3> QED
      BY <1>0, <3>2, ItemsAssumption
  <2>3. targetActive' \subseteq Target
    BY <1>2 DEF IInv, TypeOK
  <2> QED
    BY <1>0, <1>1, <1>2, <2>1, <2>2, <2>3 DEF IInv, TypeOK
<1>4. DryRunInv'
  <2>1. queue_cur' = 0 /\ nextTarget' = 0 /\ ~firstCycleDone'
    BY <1>1 DEF IInv, DryRunInv
  <2>2. ASSUME pc' = "dry", NEW i \in idx' .. Len(queue')
        PROVE  ~queue'[i].disabled /\ queue'[i].cal_failed = 0
    <3>1. i \in idx .. Len(queue) /\ i # idx /\ i \in Items
      BY <1>0, <1>1, <2>2
    <3> QED
      BY <3>1 DEF IInv, DryRunInv
  <2>3. pc' = "dedup" => idx' = Len(queue')
    BY <1>1
  <2>4. ASSUME NEW t \in targetActive' PROVE \E i \in Calibrated(t)' : pc' = "dry" => i < idx'
    <3>1. CASE t \in targetActive
      <4>1. PICK i \in Calibrated(t) : i < idx
        BY <3>1 DEF IInv, DryRunInv
      <4>2. i \in Items /\ i # idx /\ queue'[i] = queue[i]
        BY <1>0, <4>1 DEF Calibrated, EntriesOf
      <4>3. i \in Calibrated(t)'
        BY <1>0, <4>1, <4>2 DEF Calibrated, EntriesOf
      <4>4. pc' = "dry" => i < idx'
        BY <1>0, <1>1, <4>1, <4>2
      <4> QED
        BY <4>3, <4>4
    <3>2. CASE t \notin targetActive
      <4>1. queue' = queue /\ t = queue[idx].tgt
        BY <3>2
      <4>2. idx \in idx .. Len(queue)
        BY <1>0
      <4>3. idx \in Calibrated(t)'
        BY <1>0, <4>1, <4>2 DEF IInv, DryRunInv, Calibrated, EntriesOf
      <4>4. pc' = "dry" => idx < idx'
        BY <1>0, <1>1
      <4> QED
        BY <4>3, <4>4
    <3> QED
      BY <3>1, <3>2
  <2> QED
    BY <2>1, <2>2, <2>3, <2>4 DEF DryRunInv
<1>5. FavouredInv'
  <2>1. NSeeds' = Len(queue) /\ NSeeds = Len(queue)
    BY <1>1 DEF NSeeds
  <2> QED
    BY <1>0, <1>1, <2>1 DEF IInv, FavouredInv
<1>6. ActiveInv'
  <2>1. \A t : Calibrated(t)' \subseteq Enabled(EntriesOf(t))'
    BY DEF Calibrated, Enabled
  <2>2. \A t \in targetActive' : Calibrated(t)' # {}
    BY <1>1, <1>4 DEF DryRunInv
  <2> QED
    BY <1>1, <2>1, <2>2 DEF ActiveInv
<1>7. TableInv'
  <2>1. \A i \in 1 .. prev_queued_items : i \in Items
    BY <1>0 DEF IInv, TypeOK
  <2> QED
    BY <1>1, <2>1 DEF IInv, TableInv
<1>8. CurInv' /\ TurnInv'
  BY <1>1 DEF IInv, DryRunInv, CurInv, TurnInv, AttentionFirst
<1> QED
  BY <1>3, <1>4, <1>5, <1>6, <1>7, <1>8 DEF IInv

(* A seed that runs, with something new to show or not.                    *)
LEMMA DryRunOkInv == IInv /\ UNCHANGED mode /\ (DryRunOk \/ DryRunNoBits) => IInv'
<1> SUFFICES ASSUME IInv, UNCHANGED mode, DryRunOk \/ DryRunNoBits PROVE IInv'
  OBVIOUS
<1>1. /\ pc = "dry" /\ NextSeed /\ UpdateBitmapScore(idx)
      /\ UNCHANGED <<queue, pending_not_fuzzed>>
      /\ targetActive' \in {targetActive, targetActive \cup {queue[idx].tgt}}
  BY DEF DryRunOk, DryRunNoBits
<1>2. top_rated' \subseteq Items /\ score_changed' \in BOOLEAN
  <2>1. idx \in Items
    BY ItemsOfQueue DEF IInv, TypeOK
  <2> QED
    BY <1>1, <2>1 DEF UpdateBitmapScore, IInv, TypeOK
<1>3. pending_not_fuzzed' = Cardinality(Enabled(Items)')
  BY <1>1 DEF IInv, DryRunInv, Enabled, Items
<1>4. queue \in Seq(QueueEntry)
  BY DEF IInv, TypeOK
<1> QED
  BY <1>1, <1>2, <1>3, <1>4, NextSeedInv

(* A seed that crashes or is too slow, and is taken out of the queue.      *)
LEMMA DropSeedInv ==
  ASSUME IInv, UNCHANGED mode, pc = "dry", NEW n \in 0 .. CalChances, DropSeed(n)
  PROVE  IInv'
<1> DEFINE e == [Disabled(queue[idx]) EXCEPT !.cal_failed = n]
<1>0. Items = 1 .. Len(queue) /\ Len(queue) \in Nat /\ idx \in Items
  BY ItemsOfQueue DEF IInv, TypeOK
<1>1. queue[idx] \in QueueEntry
  BY <1>0 DEF IInv, TypeOK
<1>2. /\ e \in QueueEntry /\ e.tgt = queue[idx].tgt /\ e.favored = queue[idx].favored
      /\ e.disabled
  <2>1. PICK d \in QueueEntry : d = Disabled(queue[idx])
    BY <1>1, DisabledEntry
  <2>2. e = [d EXCEPT !.cal_failed = n]
    BY <2>1
  <2>3. e \in QueueEntry /\ e.tgt = d.tgt /\ e.favored = d.favored /\ e.disabled = d.disabled
    BY <2>2 DEF QueueEntry
  <2> HIDE DEF e
  <2> QED
    BY <1>1, <2>1, <2>3, DisabledEntry
<1>3. /\ queue' = [queue EXCEPT ![idx] = e] /\ NextSeed
      /\ pending_not_fuzzed' = Dec(pending_not_fuzzed) /\ UNCHANGED <<targetActive, scoreVars>>
  BY DEF DropSeed
<1> HIDE DEF e
<1>4. queue' \in Seq(QueueEntry) /\ Len(queue') = Len(queue) /\ Items' = Items
  <2>1. queue' \in Seq(QueueEntry) /\ Len(queue') = Len(queue)
    BY <1>0, <1>2, <1>3, ExceptSeq DEF IInv, TypeOK
  <2> QED
    BY <1>0, <2>1 DEF Items
<1>5. \A i \in Items : queue'[i] = IF i = idx THEN e ELSE queue[i]
  BY <1>0, <1>3 DEF IInv, TypeOK
<1>6. pending_not_fuzzed' = Cardinality(Enabled(Items)')
  <2>1. Enabled(Items)' = Enabled(Items) \ {idx}
    BY <1>2, <1>4, <1>5 DEF Enabled
  <2>2. idx \in Enabled(Items)
    <3>1. idx \in idx .. Len(queue)
      BY <1>0
    <3> QED
      BY <1>0, <3>1 DEF IInv, DryRunInv, Enabled
  <2>3. IsFiniteSet(Enabled(Items)) /\ Cardinality(Enabled(Items)) \in Nat
    BY CountFits DEF IInv, Enabled
  <2>4. Cardinality(Enabled(Items)) # 0
    BY <2>2, <2>3, FS_EmptySet
  <2>5. Cardinality(Enabled(Items)') = Cardinality(Enabled(Items)) - 1
    BY <2>1, <2>2, <2>3, FS_RemoveElement
  <2>6. /\ pending_not_fuzzed \in 0 .. U32 - 1
        /\ pending_not_fuzzed = Cardinality(Enabled(Items))
    BY DEF IInv, TypeOK, DryRunInv
  <2>7. Dec(pending_not_fuzzed) = pending_not_fuzzed - 1
    BY <2>3, <2>4, <2>6, Counting
  <2> QED
    BY <1>3, <2>5, <2>6, <2>7
<1>7. top_rated' \subseteq Items /\ score_changed' \in BOOLEAN
  BY <1>3 DEF IInv, TypeOK, scoreVars
<1>8. \A i \in Items : /\ i # idx => queue'[i] = queue[i]
                       /\ queue'[i].tgt = queue[i].tgt
                       /\ queue'[i].favored = queue[i].favored
  BY <1>2, <1>5
<1> QED
  BY <1>3, <1>4, <1>6, <1>7, <1>8, NextSeedInv

(* A seed that is too slow ends the campaign unless -t was given.          *)
LEMMA DryRunFailsInv == IInv /\ UNCHANGED mode /\ (DryRunTimeout \/ DryRunCrash) => IInv'
<1> SUFFICES ASSUME IInv, UNCHANGED mode, DryRunTimeout \/ DryRunCrash PROVE IInv'
  OBVIOUS
<1>1. CalChances \in 0 .. CalChances /\ 1 \in 0 .. CalChances
  BY ItemsAssumption
<1>2. CASE pc = "dry" /\ (DropSeed(CalChances) \/ DropSeed(1))
  BY <1>1, <1>2, DropSeedInv
<1>3. CASE /\ pc = "dry" /\ pc' = "fatal"
           /\ UNCHANGED <<queue, seedVars, cycleVars, countVars, scoreVars, tableVars, curVars>>
  <2> USE <1>3 DEF IInv, seedVars, cycleVars, countVars, scoreVars, tableVars, curVars
  <2>1. TypeOK'
    BY DEF TypeOK, Items
  <2>2. FavouredInv'
    <3>1. NSeeds = Len(queue) /\ NSeeds' = idx /\ idx \in 1 .. Len(queue)
      BY DEF NSeeds, TypeOK
    <3>2. \A i \in 1 .. idx : i \in 1 .. Len(queue)
      BY <3>1, ItemsOfQueue
    <3>3. Len(queue) <= NTargets => idx <= NTargets
      BY <3>1, ItemsOfQueue, TargetsAssumption
    <3> QED
      BY <3>1, <3>2, <3>3 DEF FavouredInv
  <2>3. DryRunInv' /\ ActiveInv'
    BY DEF DryRunInv, ActiveInv, EntriesOf, Enabled, Items
  <2>4. TableInv' /\ CurInv' /\ TurnInv'
    BY DEF TableInv, CurInv, Cur, TurnInv, AttentionFirst
  <2> QED
    BY <2>1, <2>2, <2>3, <2>4
<1> QED
  BY <1>2, <1>3 DEF DryRunTimeout, DryRunCrash

(* The end of the dry run.  The duplicates leave an entry to each active   *)
(* target, and the first active target comes first.                        *)
LEMMA DryRunEndInv == IInv /\ UNCHANGED mode /\ DryRunEnd => IInv'
<1> SUFFICES ASSUME IInv, UNCHANGED mode, DryRunEnd PROVE IInv'
  OBVIOUS
<1>0. Items = 1 .. Len(queue) /\ Len(queue) \in Nat
  BY ItemsOfQueue DEF IInv
<1>1. /\ pc = "dedup" /\ queue_cur = 0 /\ nextTarget = 0 /\ ~firstCycleDone
      /\ idx = Len(queue) /\ pending_not_fuzzed = Cardinality(Enabled(Items))
      /\ \A t \in targetActive : Calibrated(t) # {}
      /\ UNCHANGED <<seedVars, firstCycleDone, pending_favored, scoreVars, tableVars, curVars>>
  BY DEF DryRunEnd, IInv, DryRunInv
<1>2. /\ queue' \in Seq(QueueEntry) /\ Len(queue') = Len(queue)
      /\ \A i \in Items : queue'[i].tgt = queue[i].tgt /\ queue'[i].favored = queue[i].favored
      /\ \A t \in targetActive : Enabled(EntriesOf(t))' # {}
      /\ pending_not_fuzzed' \in 0 .. U32 - 1
  <2>1. CASE UNCHANGED <<queue, pending_not_fuzzed>>
    BY <2>1 DEF IInv, TypeOK, ActiveInv, Enabled, EntriesOf, Items
  <2>2. ASSUME NEW D \in Duplicates,
               queue' = [i \in Items |-> IF i \in D THEN Disabled(queue[i]) ELSE queue[i]],
               pending_not_fuzzed' = pending_not_fuzzed - Cardinality(D)
        PROVE  /\ queue' \in Seq(QueueEntry) /\ Len(queue') = Len(queue)
               /\ \A i \in Items : /\ queue'[i].tgt = queue[i].tgt
                                   /\ queue'[i].favored = queue[i].favored
               /\ \A t \in targetActive : Enabled(EntriesOf(t))' # {}
               /\ pending_not_fuzzed' \in 0 .. U32 - 1
    <3>1. ASSUME NEW i \in Items
          PROVE  /\ queue'[i] \in QueueEntry
                 /\ queue'[i].tgt = queue[i].tgt /\ queue'[i].favored = queue[i].favored
                 /\ i \notin D => queue'[i].disabled = queue[i].disabled
      <4>1. queue[i] \in QueueEntry
        BY <1>0 DEF IInv, TypeOK
      <4>2. CASE i \in D
        <5>1. queue'[i] = Disabled(queue[i])
          BY <2>2, <4>2
        <5> QED
          BY <4>1, <4>2, <5>1, DisabledEntry
      <4>3. CASE i \notin D
        BY <2>2, <4>1, <4>3
      <4> QED
        BY <4>2, <4>3
    <3>2. queue' \in Seq(QueueEntry) /\ Len(queue') = Len(queue) /\ Items' = Items
      <4>1. queue' \in [1 .. Len(queue) -> QueueEntry] /\ Items' = Items
        BY <1>0, <2>2, <3>1 DEF Items
      <4> QED
        BY <1>0, <4>1
    <3>3. ASSUME NEW t \in targetActive PROVE Enabled(EntriesOf(t))' # {}
      <4>1. t \in Target /\ Calibrated(t) # {}
        BY <1>1 DEF IInv, TypeOK
      <4>2. PICK i \in Calibrated(t) : i \notin D
        BY <4>1 DEF Duplicates
      <4>3. i \in Enabled(EntriesOf(t))'
        BY <3>1, <3>2, <4>2 DEF Calibrated, Enabled, EntriesOf
      <4> QED
        BY <4>3
    <3>4. pending_not_fuzzed' \in 0 .. U32 - 1
      <4>1. D \in SUBSET Enabled(Items) /\ Enabled(Items) \in SUBSET Items
        BY DEF Duplicates, Calibrated, EntriesOf, Enabled
      <4>2. /\ IsFiniteSet(Enabled(Items)) /\ Cardinality(Enabled(Items)) \in 0 .. Len(queue)
            /\ Len(queue) < U32
        BY <4>1, CountFits DEF IInv
      <4>3. Cardinality(D) <= Cardinality(Enabled(Items)) /\ Cardinality(D) \in Nat
        BY <4>1, <4>2, FS_Subset, FS_CardinalityType
      <4> QED
        BY <1>0, <1>1, <2>2, <4>2, <4>3, ItemsAssumption
    <3> QED
      BY <3>1, <3>2, <3>3, <3>4
  <2> QED
    BY <2>1, <2>2 DEF DryRunEnd
<1>3. /\ pc' \in {"fatal", "spin", "start"} /\ nextTarget' \in Target
      /\ pc' = "start" => /\ nextTarget' \in targetActive
                          /\ \A t \in targetActive : nextTarget' <= t
  <2>0. nextTarget \in Target /\ targetActive \subseteq Target
    BY DEF IInv, TypeOK
  <2>1. CASE pc' \in {"fatal", "spin"} /\ UNCHANGED nextTarget
    BY <2>0, <2>1
  <2>2. CASE 0 \in targetActive /\ pc' = "start" /\ UNCHANGED nextTarget
    BY <1>1, <2>0, <2>2, TargetsAssumption DEF Target
  <2>3. CASE /\ 0 \notin targetActive /\ targetActive # {}
             /\ pc' = "start" /\ nextTarget' = cycleTarget
    <3>1. /\ cycleTarget \in targetActive
          /\ \A t \in targetActive :
               IF nextTarget < cycleTarget THEN t <= nextTarget \/ cycleTarget <= t
               ELSE t <= nextTarget
      BY <2>0, <2>3, CycleTargetNext
    <3>2. \A t \in targetActive : t > 0 /\ t \in Nat
      BY <2>0, <2>3, TargetsAssumption DEF Target
    <3> QED
      BY <1>1, <2>0, <2>3, <3>1, <3>2
  <2> QED
    BY <2>1, <2>2, <2>3 DEF DryRunEnd
<1>4. Items' = Items
  BY <1>0, <1>2 DEF Items
<1> USE DEF seedVars, scoreVars, tableVars, curVars
<1>5. TypeOK'
  BY <1>1, <1>2, <1>3, <1>4 DEF IInv, TypeOK
<1>6. FavouredInv'
  <2>1. NSeeds = idx /\ NSeeds' = idx /\ 1 .. idx = Items
    BY <1>0, <1>1, <1>3 DEF NSeeds
  <2> QED
    BY <1>1, <1>2, <2>1 DEF IInv, FavouredInv
<1>7. DryRunInv' /\ ActiveInv'
  BY <1>1, <1>2, <1>3 DEF DryRunInv, ActiveInv
<1>8. TableInv'
  <2>1. \A i \in 1 .. prev_queued_items : i \in Items
    BY <1>0 DEF IInv, TypeOK
  <2>2. \A t \in Target : multi_alias[t] = {i \in 1 .. prev_queued_items : queue[i].tgt = t}
    BY <1>1 DEF IInv, TableInv
  <2>3. \A t \in Target :
          {i \in 1 .. prev_queued_items : queue'[i].tgt = t}
            = {i \in 1 .. prev_queued_items : queue[i].tgt = t}
    BY <1>2, <2>1
  <2>4. \A t \in Target : yields[t] \subseteq multi_alias[t]
    BY DEF IInv, TableInv
  <2> QED
    BY <1>1, <1>3, <2>2, <2>3, <2>4 DEF TableInv
<1>9. CurInv'
  BY <1>1, <1>3 DEF CurInv
<1>10. TurnInv'
  <2>1. \A t \in targetActive : pc' = "start" => ~(t < nextTarget')
    BY <1>3, TargetsAssumption DEF IInv, TypeOK, Target
  <2> QED
    BY <1>1, <1>3, <2>1 DEF TurnInv, AttentionFirst
<1> QED
  BY <1>5, <1>6, <1>7, <1>8, <1>9, <1>10 DEF IInv

-----------------------------------------------------------------------------
(* The invariant                                                           *)

(* Seeds of different targets are no more than there are targets.          *)
LEMMA FewSeeds ==
  ASSUME NEW n \in Nat, NEW s \in [1 .. n -> Target],
         \A i, j \in 1 .. n : s[i] = s[j] => i = j
  PROVE  n <= NTargets
<1>1. IsFiniteSet(Target) /\ Cardinality(Target) = NTargets
  <2>1. /\ IsFiniteSet(0 .. NTargets - 1)
        /\ Cardinality(0 .. NTargets - 1) =
             IF 0 > NTargets - 1 THEN 0 ELSE (NTargets - 1) - 0 + 1
    BY FS_Interval, TargetsAssumption
  <2> QED
    BY <2>1, TargetsAssumption DEF Target
<1>2. IsFiniteSet(1 .. n) /\ Cardinality(1 .. n) = n
  <2>1. /\ IsFiniteSet(1 .. n) /\ Cardinality(1 .. n) = IF 1 > n THEN 0 ELSE n - 1 + 1
    BY FS_Interval
  <2> QED
    BY <2>1
<1>3. ~(Cardinality(Target) < Cardinality(1 .. n))
  BY <1>1, <1>2, FS_PigeonHole
<1> QED
  BY <1>1, <1>2, <1>3, TargetsAssumption

(* The queue that the campaign starts with.                                *)
LEMMA InitInv == Init => IInv
<1> SUFFICES ASSUME Init PROVE IInv
  OBVIOUS
<1>1. PICK s \in SeedLists : queue = [i \in DOMAIN s |-> Entry(s[i], ~mode.resume)]
  BY DEF Init
<1>2. PICK n \in 1 .. mode.maxSeeds : s \in [1 .. n -> Target]
  <2>1. s \in UNION {[1 .. k -> Target] : k \in 1 .. mode.maxSeeds}
    BY <1>1 DEF SeedLists
  <2> QED
    BY <2>1
<1>3. ~mode.resume => \A i, j \in 1 .. n : s[i] = s[j] => i = j
  BY <1>1, <1>2 DEF SeedLists
<1>4. n \in Nat /\ n <= MaxItems /\ n < U32
  <2>1. mode.maxSeeds \in 1 .. MaxItems
    BY ModesAssumption DEF Init
  <2> QED
    BY <1>2, <2>1, ItemsAssumption
<1>5. ASSUME NEW i \in 1 .. n
      PROVE  /\ queue[i] \in QueueEntry /\ queue[i].favored = ~mode.resume
             /\ ~queue[i].disabled /\ queue[i].cal_failed = 0
  <2>1. queue[i] = Entry(s[i], ~mode.resume) /\ s[i] \in Target
    BY <1>1, <1>2
  <2>2. 0 \in 0 .. CalChances /\ 0 \in 0 .. 1 /\ (~mode.resume) \in BOOLEAN
    BY ItemsAssumption
  <2>3. Entry(s[i], ~mode.resume) \in QueueEntry
    BY <2>1, <2>2 DEF Entry, QueueEntry
  <2> QED
    BY <2>1, <2>3 DEF Entry
<1>6. queue \in Seq(QueueEntry) /\ Len(queue) = n /\ Items = 1 .. n
  <2>1. queue \in [1 .. n -> QueueEntry]
    BY <1>1, <1>2, <1>5
  <2> QED
    BY <1>4, <2>1 DEF Items
<1>7. TypeOK
  <2>1. idx \in 1 .. Len(queue) /\ pending_not_fuzzed \in 0 .. U32 - 1
          /\ pending_favored \in 0 .. U32 - 1 /\ nextTarget \in Target
    BY <1>2, <1>4, <1>6, ItemsAssumption, TargetsAssumption DEF Init, Target
  <2>2. /\ mode \in Modes /\ pc = "dry" /\ targetActive \subseteq Target
        /\ {firstCycleDone, score_changed, reinit_table} \subseteq BOOLEAN
        /\ top_rated \subseteq Items /\ single_alias \subseteq Items
        /\ multi_alias \in [Target -> SUBSET Items]
        /\ yields \in [Target \cup {NoTarget} -> SUBSET Items]
        /\ fsrvTarget \in Target \cup {NoTarget} /\ attended \subseteq Target
    BY DEF Init
  <2>3. prev_queued_items \in 0 .. Len(queue) /\ queue_cur \in 0 .. Len(queue)
    BY <1>4, <1>6 DEF Init
  <2> QED
    BY <1>4, <1>6, <2>1, <2>2, <2>3 DEF TypeOK
<1>8. DryRunInv
  <2>1. Enabled(Items) = 1 .. n
    BY <1>5, <1>6 DEF Enabled
  <2>2. Cardinality(1 .. n) = IF 1 > n THEN 0 ELSE n - 1 + 1
    BY <1>4, FS_Interval
  <2>3. Cardinality(Enabled(Items)) = Len(queue)
    BY <1>4, <1>6, <2>1, <2>2
  <2> QED
    BY <1>4, <1>5, <1>6, <2>3 DEF Init, DryRunInv
<1>9. FavouredInv
  <2>1. ~mode.resume => n <= NTargets
    BY <1>2, <1>3, <1>4, FewSeeds
  <2> QED
    BY <1>5, <1>6, <2>1 DEF Init, FavouredInv, NSeeds
<1>10. ActiveInv /\ TableInv /\ CurInv /\ TurnInv
  BY DEF Init, ActiveInv, TableInv, CurInv, TurnInv, AttentionFirst
<1> QED
  BY <1>7, <1>8, <1>9, <1>10 DEF IInv

(* Every step of the campaign keeps the invariant.                         *)
LEMMA NextInv == IInv /\ [Next]_vars => IInv'
<1> SUFFICES ASSUME IInv, [Next]_vars PROVE IInv'
  OBVIOUS
<1>1. CASE UNCHANGED vars
  <2> USE <1>1 DEF IInv, vars, seedVars, cycleVars, countVars, scoreVars, tableVars, curVars
  <2>1. TypeOK'
    BY DEF TypeOK, Items
  <2>4. DryRunInv'
    <3>1. Enabled(Items)' = Enabled(Items)
      BY DEF Enabled, Items
    <3>2. \A t \in targetActive : Calibrated(t)' = Calibrated(t)
      BY DEF Calibrated, EntriesOf, Items
    <3> QED
      BY <3>1, <3>2 DEF DryRunInv
  <2>2. FavouredInv' /\ ActiveInv'
    BY DEF FavouredInv, NSeeds, ActiveInv, EntriesOf, Enabled, Items
  <2>3. TableInv' /\ CurInv' /\ TurnInv'
    BY DEF TableInv, CurInv, Cur, TurnInv, AttentionFirst
  <2> QED
    BY <2>1, <2>2, <2>3, <2>4
<1>2. CASE UNCHANGED mode /\ DryRun
  BY <1>2, DryRunOkInv, DryRunFailsInv, DryRunEndInv, SpinInv DEF DryRun
<1>3. CASE UNCHANGED mode /\ (StartUp \/ LoopHead)
  BY <1>3, CullQueueInv DEF StartUp, LoopHead
<1>4. CASE UNCHANGED mode /\ (CreateAliasTable \/ SelectFromTarget \/ SwitchTarget \/ SelectFromAll)
  BY <1>4, CreateAliasTableInv, SelectFromTargetInv, SwitchTargetInv, SelectFromAllInv
<1>5. CASE UNCHANGED mode /\ FuzzOne
  <2>1. CASE Discover
    <3>1. Cur.tgt \in Target
      <4>1. queue_cur \in 1 .. Len(queue)
        BY <2>1, ItemsOfQueue DEF Discover, IInv, CurInv, TypeOK
      <4>2. Cur \in QueueEntry
        BY <4>1 DEF Cur, IInv, TypeOK
      <4> QED
        BY <4>2 DEF QueueEntry
    <3> QED
      BY <1>5, <2>1, <3>1, AddToQueueInv DEF Discover
  <2> QED
    BY <1>5, <2>1, SkipInv, RecalibrateInv, AbandonEntryInv DEF FuzzOne
<1>6. CASE UNCHANGED mode /\ ForeignImport
  BY <1>6, AddToQueueInv DEF ForeignImport
<1> QED
  BY <1>1, <1>2, <1>3, <1>4, <1>5, <1>6 DEF Next, Step, MainLoop, Stopped

(* The invariant holds throughout.                                         *)
THEOREM Invariant == Spec => []IInv
BY InitInv, NextInv, PTL DEF Spec

-----------------------------------------------------------------------------
(* What follows                                                            *)

(* Every variable keeps to its type: no index of an entry, current or in a *)
(* table, lies outside the queue.                                          *)
THEOREM Types == Spec => []TypeOK
<1>1. IInv => TypeOK
  BY DEF IInv
<1> QED
  BY <1>1, Invariant, PTL

(* The alias table that a selection indexes was built for the entries      *)
(* there are, one of which at least is not disabled; in the first cycle    *)
(* fuzz_one is given an entry of the target whose turn it is.              *)
THEOREM SelectionIsSound == Spec => []SelectionSound
<1>1. IInv => SelectionSound
  <2> SUFFICES ASSUME IInv PROVE SelectionSound
    OBVIOUS
  <2>1. pc = "select" => Enabled(EntriesOf(nextTarget)) # {}
    BY DEF IInv, ActiveInv
  <2>2. Enabled(EntriesOf(nextTarget)) \subseteq Enabled(Items)
    BY DEF Enabled, EntriesOf
  <2> QED
    BY <2>1, <2>2, ItemsOfQueue DEF IInv, TableInv, CurInv, SelectionSound, EntriesOf
<1> QED
  BY <1>1, Invariant, PTL

(* Without -F the server works on the current entry's target while inputs  *)
(* are mutated.                                                            *)
THEOREM ServerIsRight == Spec => []RightServer
<1>1. IInv => RightServer
  BY DEF IInv, CurInv, RightServer
<1> QED
  BY <1>1, Invariant, PTL

(* The first cycle is declared over only when every active target has had  *)
(* its turn.                                                               *)
THEOREM EveryTargetAttended == Spec => []AttentionFirst
<1>1. IInv => AttentionFirst
  BY DEF IInv, TurnInv
<1> QED
  BY <1>1, Invariant, PTL

(* fuzz_one does not skip a recorded seed in the first cycle.              *)
THEOREM SeedsGetTheirTurn == Spec => SeedNotSkipped
<1>1. IInv /\ [Next]_vars => [Skip /\ ~mode.resume /\ ~firstCycleDone => queue_cur > idx]_vars
  <2> SUFFICES ASSUME IInv, Skip, ~mode.resume, ~firstCycleDone PROVE queue_cur > idx
    OBVIOUS
  <2>1. ~Cur.favored /\ pc = "fuzz"
    BY DEF Skip, MaySkip
  <2>2. queue_cur \in 1 .. Len(queue) /\ Len(queue) \in Nat /\ idx \in 1 .. Len(queue)
    BY <2>1, ItemsOfQueue DEF IInv, CurInv, TypeOK
  <2>3. queue_cur \notin 1 .. idx
    BY <2>1 DEF IInv, FavouredInv, NSeeds, Cur
  <2> QED
    BY <2>2, <2>3
<1> QED
  BY <1>1, Invariant, PTL DEF Spec, SeedNotSkipped
=============================================================================
