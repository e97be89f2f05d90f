----------------------------- MODULE SyncProofs -----------------------------
(* Proofs about Sync, for any set of instances and any number of ends,     *)
(* kills and restarts.                                                     *)
EXTENDS Sync, FiniteSetTheorems, TLAPS

(* Unless a step says otherwise: Zenon for a moment, SMT, Zenon.           *)
USE ZenonT(2), SMTT(30), ZenonT(30)

(* What the invariants need to be inductive: a running instance has its    *)
(* directory, and a scan passes over the instance's own.                   *)
IInv ==
  /\ TypeOK /\ FileIsTrue
  /\ \A i \in Instance : (Up(i) => i \in dirs) /\ i \notin todo[i]

(* With names that start with a target, strncmp never finds "id:", so a    *)
(* scan takes nothing from any queue.                                      *)
LEMMA NothingNew == \A i, j \in Instance : News(i, j) = {}
BY DEF News, Matches, FileName

(* The empty sync directory satisfies the invariant.                       *)
LEMMA InitInv == Init => IInv
BY BoundsAssumption DEF Init, IInv, TypeOK, FileIsTrue, Up

(* Every step of every instance keeps the invariant.                       *)
LEMMA NextInv == IInv /\ [Next]_vars => IInv'
<1> SUFFICES ASSUME IInv, [Next]_vars PROVE IInv'
  OBVIOUS
<1> USE BoundsAssumption, MainAssumption DEF IInv, TypeOK, FileIsTrue, Up, Goto, Secondary
<1>1. CASE UNCHANGED vars
  BY <1>1 DEF vars, scan, data
<1>2. ASSUME NEW i \in Instance, Start(i) PROVE IInv'
  <2>1. dirs \subseteq dirs' /\ UNCHANGED todo
    BY <1>2 DEF Start, scan
  <2>2. todo' \in [Instance -> SUBSET dirs']
    BY <2>1
  <2>6. /\ accepted' \in [Instance -> [Instance -> 0 .. Items]]
        /\ looked' \in [Instance -> [Instance -> SUBSET (0 .. Items - 1)]]
    <3>1. CASE UNCHANGED data
      BY <3>1 DEF data
    <3>2. CASE /\ accepted' = [accepted EXCEPT ![i] = [j \in Instance |-> 0]]
               /\ looked' = [looked EXCEPT ![i] = [j \in Instance |-> {}]]
      <4>1. [j \in Instance |-> 0] \in [Instance -> 0 .. Items]
        OBVIOUS
      <4> QED
        BY <3>2, <4>1
    <3> QED
      BY <1>2, <3>1, <3>2 DEF Start
  <2>3. TypeOK'
    <3>1. /\ pc' \in [Instance -> {"off", "fuzz", "scan", "act"}]
          /\ isMain' \in [Instance -> BOOLEAN] /\ dirs' \subseteq Instance
          /\ mainFile' \subseteq dirs' /\ UNCHANGED <<cur, saw, entries, synced, stops, killed>>
      BY <1>2 DEF Start, scan
    <3> QED
      BY <2>2, <2>6, <3>1
  <2>4. FileIsTrue'
    BY <1>2 DEF Start
  <2>5. \A k \in Instance : (Up(k)' => k \in dirs') /\ k \notin todo'[k]
    BY <1>2, <2>1 DEF Start
  <2> QED
    BY <2>3, <2>4, <2>5
<1>3. ASSUME NEW i \in Instance, BeginSync(i) PROVE IInv'
  BY <1>3 DEF BeginSync, data
<1>4. ASSUME NEW i \in Instance, NEW j \in Instance, Look(i, j) PROVE IInv'
  BY <1>4 DEF Look, data
<1>5. ASSUME NEW i \in Instance, Act(i) PROVE IInv'
  <2>1. cur[i] \in Instance /\ News(i, cur[i]) = {} /\ Cardinality({}) = 0
    BY NothingNew, FS_EmptySet
  <2>2. UNCHANGED data
    BY <1>5, <2>1 DEF Act, SyncFrom, data
  <2>3. synced' \in [Instance -> BOOLEAN]
    BY <1>5 DEF Act, SyncFrom
  <2> QED
    BY <1>5, <2>2, <2>3 DEF Act, LeaveEntry, Demoted, data
<1>6. ASSUME NEW i \in Instance, EndSync(i) PROVE IInv'
  BY <1>6 DEF EndSync, LeaveScan, LeaveEntry, Elected, data
<1>7. ASSUME NEW i \in Instance, Exit(i) PROVE IInv'
  BY <1>7 DEF Exit, scan, data
<1>8. ASSUME NEW i \in Instance, Kill(i) PROVE IInv'
  BY <1>8 DEF Kill, LeaveScan, LeaveEntry, data
<1> QED
  BY <1>1, <1>2, <1>3, <1>4, <1>5, <1>6, <1>7, <1>8 DEF Next, Step

(* Every variable of sync_fuzzers keeps to its type, for any number of     *)
(* instances.                                                              *)
THEOREM TypesKept == Spec => []TypeOK
<1>1. IInv => TypeOK
  BY DEF IInv
<1> QED
  BY InitInv, NextInv, <1>1, PTL DEF Spec

(* is_main_node and afl->is_main_node agree, up to a kill.                 *)
THEOREM FilesAreTrue == Spec => []FileIsTrue
<1>1. IInv => FileIsTrue
  BY DEF IInv
<1> QED
  BY InitInv, NextInv, <1>1, PTL DEF Spec

(* One step of any instance leaves a settled group settled.                *)
LEMMA SettledStep ==
  ASSUME IInv, NEW m \in Instance, [Next]_vars, Settled(m), stops' = stops,
         \A i \in Main : Up(i)' = Up(i)
  PROVE  Settled(m)'
<1> USE BoundsAssumption, MainAssumption DEF IInv, TypeOK, Up, Goto, Secondary, Settled
<1>1. CASE UNCHANGED vars
  BY <1>1 DEF vars, scan
<1>2. ASSUME NEW i \in Instance, Start(i) PROVE Settled(m)'
  BY <1>2 DEF Start, scan
<1>3. ASSUME NEW i \in Instance, BeginSync(i) PROVE Settled(m)'
  BY <1>3 DEF BeginSync
<1>4. ASSUME NEW i \in Instance, NEW j \in Instance, Look(i, j) PROVE Settled(m)'
  BY <1>4 DEF Look
<1>5. ASSUME NEW i \in Instance, Act(i) PROVE Settled(m)'
  <2>1. ~Demoted(i)
    BY <1>5 DEF Act, Demoted
  <2>2. UNCHANGED <<isMain, mainFile, dirs, todo>>
    BY <1>5, <2>1 DEF Act
  <2>3. synced' = IF Skips(i) THEN synced ELSE [synced EXCEPT ![i] = TRUE]
    BY <1>5 DEF Act, SyncFrom
  <2>4. i # m /\ saw[i] => ~Skips(i)
    BY DEF Skips
  <2>5. saw' = [saw EXCEPT ![i] = FALSE] /\ pc' = [pc EXCEPT ![i] = "scan"] /\ pc[i] = "act"
    BY <1>5 DEF Act, LeaveEntry
  <2> QED
    BY <2>2, <2>3, <2>4, <2>5
<1>6. ASSUME NEW i \in Instance, EndSync(i) PROVE Settled(m)'
  BY <1>6 DEF EndSync, LeaveScan, LeaveEntry, Elected
<1>7. ASSUME NEW i \in Instance, Exit(i) PROVE Settled(m)'
  BY <1>7 DEF Exit
<1>8. ASSUME NEW i \in Instance, Kill(i) PROVE Settled(m)'
  BY <1>8 DEF Kill
<1> QED
  BY <1>1, <1>2, <1>3, <1>4, <1>5, <1>6, <1>7, <1>8 DEF Next, Step

(* Scans never make a second main node beside one that nobody is about to  *)
(* overlook, and never take it away.                                       *)
THEOREM SettledStays == Spec => StaysSettled
<1>1. IInv /\ [Next]_vars =>
        [\A m \in Instance : Settled(m) /\ stops' = stops
           /\ (\A i \in Main : Up(i)' = Up(i)) => Settled(m)']_vars
  BY SettledStep
<1> QED
  BY InitInv, NextInv, <1>1, PTL DEF Spec, StaysSettled
=============================================================================
