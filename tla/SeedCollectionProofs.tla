------------------------ MODULE SeedCollectionProofs ------------------------
(***************************************************************************)
(* Proofs about the recording of the first test cases, for any typeinfo    *)
(* file, any blacklist and any length of arguments.  The walk of afl-fuzz  *)
(* goes by the lengths in the map, which the entry of a complete recording *)
(* has and a failed or old one may seem to have; the invariant says where  *)
(* the entries really are, and what else the walk may come across.         *)
(***************************************************************************)
EXTENDS SeedCollection, FiniteSetTheorems, TLAPS

(* Unless a step says otherwise: Zenon for a moment, SMT, Zenon.           *)
USE ZenonT(2), SMTT(30), ZenonT(30)

(* Behind the arguments of the k-th entry, and where the k-th starts; the  *)
(* last start is the one of the entry to come.                             *)
EntryEnd(k) == order[k] + 2 + arg_map[order[k] + 1]
Start(k) == IF k = Len(order) + 1 THEN ahArgOffset ELSE order[k]

(* The entries lie one behind the other ...                                *)
ChainInv ==
  /\ \A k \in 1 .. Len(order) + 1 : Start(k) = IF k = 1 THEN 0 ELSE EntryEnd(k - 1)
  /\ ahArgOffset <= Len(order) * EntrySize

(* ... and each, no matter what is written after it, has the name of its   *)
(* function, the length of the arguments and the arguments.                *)
EntryInv(k) ==
  /\ order[k] \in 0 .. (k - 1) * EntrySize
  /\ arg_map[order[k]] \in recorded
  /\ arg_map[order[k] + 1] \in 0 .. MaxArgs
  /\ InMap(EntryEnd(k) - 1) /\ EntryEnd(k) <= ahArgOffset
  /\ args[arg_map[order[k]]] =
       [i \in 1 .. arg_map[order[k] + 1] |-> arg_map[order[k] + 1 + i]]
EntriesInv == \A k \in 1 .. Len(order) : EntryInv(k)

(* No function has two entries, one with arguments has one, and none is on *)
(* the blacklist.                                                          *)
NamesInv ==
  /\ \A j, k \in 1 .. Len(order) : arg_map[order[j]] = arg_map[order[k]] => j = k
  /\ \A f \in Fn : args[f] # <<>> => \E k \in 1 .. Len(order) : arg_map[order[k]] = f
  /\ recorded \cap blacklist = {}
  /\ failed => \E f \in recorded : args[f] = <<>>

(* In the part of the map that has been cleared for this process nothing   *)
(* lies behind the last entry, unless a recording has failed; and what is  *)
(* left of a crash is a name without a length.                             *)
LeftOverInv ==
  /\ pc \in {"run", "seeds"} /\ ~failed =>
       \A i \in Cell : i < amountOfTargets * EntrySize /\ i >= ahArgOffset => arg_map[i] = 0
  /\ pc = "judge" /\ crashed # NoFn =>
       /\ InMap(ahArgOffset + 1) /\ arg_map[ahArgOffset] = crashed
       /\ ~failed /\ ahArgOffset + 1 < amountOfTargets * EntrySize => arg_map[ahArgOffset + 1] = 0

(* Seeds come at the end, the targets are those that the user has left as  *)
(* long as none has been added to the blacklist, and a call is recorded or *)
(* of a name in the blacklist.                                             *)
PhaseInv ==
  /\ pc \in {"run", "judge", "seeds"} => seeds = {}
  /\ pc = "run" => crashed = NoFn
  /\ amountOfTargets = Len(targetNames) => targetNames = GetTargets(blacklist)
  /\ pc \in {"run", "seeds", "done"} => \A t \in called : t \in recorded \/ PartOfBlacklist(t)

IInv ==
  /\ TypeOK /\ ChainInv /\ EntriesInv /\ NamesInv /\ LeftOverInv /\ PhaseInv
  /\ SeedsAreRecorded

-----------------------------------------------------------------------------
(* Facts about the constants and about numbers.                            *)

(* The sizes are numbers, and names are none.                              *)
LEMMA Sizes ==
  /\ EntrySize \in Nat /\ EntrySize > 2 /\ EntrySize = 2 + MaxArgs /\ MaxArgs \in Nat
  /\ Undefined \in Nat /\ Undefined >= EntrySize /\ Cell = 0 .. Undefined - 1
  /\ Fn \cap Nat = {} /\ NoFn \notin Fn
<1>1. /\ EntrySize \in Nat /\ EntrySize > 2 /\ EntrySize = 2 + MaxArgs /\ MaxArgs \in Nat
      /\ MAX_TARGETS \in Nat /\ MAX_TARGETS >= 1
  BY BoundsAssumption DEF EntrySize
<1>2. MAX_TARGETS * EntrySize \in Nat /\ MAX_TARGETS * EntrySize >= EntrySize
  BY <1>1
<1>3. Fn \cap Nat = {} /\ NoFn \notin Fn
  BY TypeInfoAssumption
<1> QED
  BY <1>1, <1>2, <1>3 DEF Undefined, Cell

(* What lies before a place in the map is in the map.                      *)
LEMMA Below ==
  ASSUME TypeOK, NEW x \in Int, NEW y \in Nat, InMap(x), y <= x
  PROVE  InMap(y) /\ y \in Cell /\ x \in Cell
<1>1. Len(targetNames) * EntrySize \in Int
  BY Sizes DEF TypeOK
<1> QED
  BY <1>1, Sizes DEF InMap

(* Multiples of the size of an entry.                                      *)
LEMMA Multiples ==
  ASSUME NEW a \in Nat, NEW b \in Nat
  PROVE  /\ a * EntrySize \in Nat /\ (a + 1) * EntrySize = a * EntrySize + EntrySize
         /\ a <= b => a * EntrySize <= b * EntrySize
<1>1. EntrySize \in Nat
  BY Sizes
<1>2. a * EntrySize \in Nat /\ (a + 1) * EntrySize = a * EntrySize + EntrySize
  BY <1>1
<1>3. ASSUME a <= b PROVE a * EntrySize <= b * EntrySize
  <2>1. PICK d \in Nat : b = a + d
    BY <1>3
  <2>2. b * EntrySize = a * EntrySize + d * EntrySize /\ d * EntrySize \in Nat
    BY <1>1, <2>1
  <2> QED
    BY <1>2, <2>2
<1> QED
  BY <1>2, <1>3

(* A set of numbers that is not empty has a least one.                     *)
LEMMA LeastElement ==
  ASSUME NEW S \in SUBSET Nat, S # {}
  PROVE  \E m \in S : \A k \in S : m <= k
<1> DEFINE T == {0 .. n : n \in S}
<1>1. T \subseteq FiniteSubsetsOf(Nat) /\ T # {}
  <2>1. \A n \in S : 0 .. n \in SUBSET Nat /\ IsFiniteSet(0 .. n)
    BY FS_Interval
  <2> QED
    BY ZenonT(30), <2>1 DEF FiniteSubsetsOf
<1>2. PICK x \in T : \A y \in T : <<y, x>> \notin StrictSubsetOrdering(Nat)
  <2>1. IsWellFoundedOn(StrictSubsetOrdering(Nat), FiniteSubsetsOf(Nat))
    BY FS_StrictSubsetOrderingWellFounded
  <2> HIDE DEF T
  <2> QED
    BY <1>1, <2>1, WFMin
<1>3. PICK m \in S : x = 0 .. m
  BY <1>2
<1>4. ASSUME NEW k \in S, k < m PROVE FALSE
  <2>1. 0 .. k \subseteq 0 .. m /\ 0 .. k # 0 .. m
    <3>1. m \in 0 .. m /\ m \notin 0 .. k
      BY <1>4
    <3> QED
      BY <1>4, <3>1
  <2>2. <<0 .. k, 0 .. m>> \in StrictSubsetOrdering(Nat)
    BY <2>1 DEF StrictSubsetOrdering
  <2> QED
    BY ZenonT(30), <1>2, <1>3, <2>2
<1> QED
  BY <1>4

(* get_targets yields names of the file, each of the allowed ones as far   *)
(* as there is room.                                                       *)
LEMMA TargetNames ==
  ASSUME NEW user
  PROVE  /\ GetTargets(user) \in Seq(Fn) /\ Len(GetTargets(user)) = Amount(user)
         /\ Amount(user) \in Nat
         /\ IsFiniteSet(Allowed(user)) /\ Cardinality(Allowed(user)) \in Nat
         /\ Cardinality(Allowed(user)) <= Len(TypeInfo)
<1> DEFINE S == Allowed(user)
           Before(i) == {j \in S : j < i}
           rank == [i \in S |-> Cardinality(Before(i)) + 1]
<1>1. TypeInfo \in Seq(Fn) /\ Len(TypeInfo) \in Nat /\ DOMAIN TypeInfo = 1 .. Len(TypeInfo)
  BY TypeInfoAssumption
<1>2. IsFiniteSet(1 .. Len(TypeInfo)) /\ Cardinality(1 .. Len(TypeInfo)) = Len(TypeInfo)
  <2>1. \A n \in Nat : /\ IsFiniteSet(1 .. n)
                       /\ Cardinality(1 .. n) = IF 1 > n THEN 0 ELSE n - 1 + 1
    BY FS_Interval
  <2> QED
    BY <1>1, <2>1
<1>3. S \in SUBSET (1 .. Len(TypeInfo))
  BY <1>1 DEF Allowed
<1>4. IsFiniteSet(S) /\ Cardinality(S) <= Len(TypeInfo)
  BY <1>2, <1>3, FS_Subset
<1>5. Cardinality(S) \in Nat
  BY <1>4, FS_CardinalityType
<1>6. Amount(user) \in Nat /\ Amount(user) <= Cardinality(S)
  BY <1>5, BoundsAssumption DEF Amount
<1>7. ASSUME NEW i \in S
      PROVE  IsFiniteSet(Before(i)) /\ Cardinality(Before(i)) \in Nat
             /\ Cardinality(Before(i)) + 1 <= Cardinality(S)
  <2>1. Before(i) \in SUBSET (S \ {i})
    BY <1>1, <1>3
  <2>2. IsFiniteSet(S \ {i}) /\ Cardinality(S \ {i}) = Cardinality(S) - 1
    BY <1>4, FS_RemoveElement
  <2>3. IsFiniteSet(Before(i)) /\ Cardinality(Before(i)) <= Cardinality(S \ {i})
    BY <2>1, <2>2, FS_Subset
  <2>4. Cardinality(Before(i)) \in Nat
    BY <2>3, FS_CardinalityType
  <2> QED
    BY <1>5, <2>2, <2>3, <2>4
<1>8. ASSUME NEW i \in S, NEW j \in S, i < j
      PROVE  Cardinality(Before(i)) < Cardinality(Before(j))
  <2>1. Before(i) \in SUBSET Before(j) /\ i \in Before(j) /\ i \notin Before(i)
    BY <1>1, <1>3, <1>8
  <2>2. IsFiniteSet(Before(j)) /\ Cardinality(Before(j)) \in Nat /\ Cardinality(Before(i)) \in Nat
    BY <1>7
  <2>3. /\ Cardinality(Before(i)) <= Cardinality(Before(j))
        /\ Cardinality(Before(j)) = Cardinality(Before(i)) => Before(i) = Before(j)
    <3> HIDE DEF Before
    <3> QED
      BY <2>1, <2>2, FS_Subset
  <2>4. Before(i) # Before(j)
    BY <2>1
  <2> QED
    BY <2>2, <2>3, <2>4
<1>9. rank \in Injection(S, 1 .. Cardinality(S))
  <2>1. rank \in [S -> 1 .. Cardinality(S)]
    BY <1>5, <1>7
  <2>2. \A i, j \in S : rank[i] = rank[j] => i = j
    <3> SUFFICES ASSUME NEW i \in S, NEW j \in S, i # j PROVE rank[i] # rank[j]
      OBVIOUS
    <3>1. Cardinality(Before(i)) # Cardinality(Before(j))
      <4>1. i < j \/ j < i
        BY <1>1, <1>3
      <4>2. Cardinality(Before(i)) \in Nat /\ Cardinality(Before(j)) \in Nat
        BY ZenonT(30), <1>7
      <4> HIDE DEF Before, S
      <4> QED
        BY <1>8, <4>1, <4>2
    <3>2. Cardinality(Before(i)) \in Nat /\ Cardinality(Before(j)) \in Nat
      BY ZenonT(30), <1>7
    <3>3. rank[i] = Cardinality(Before(i)) + 1 /\ rank[j] = Cardinality(Before(j)) + 1
      OBVIOUS
    <3> HIDE DEF Before, S, rank
    <3> QED
      BY <3>1, <3>2, <3>3
  <2> QED
    BY ZenonT(30), <2>1, <2>2 DEF Injection, IsInjective
<1>10. rank \in Surjection(S, 1 .. Cardinality(S))
  <2>1. IsFiniteSet(1 .. Cardinality(S)) /\ Cardinality(1 .. Cardinality(S)) = Cardinality(S)
    BY <1>5, FS_Interval
  <2> HIDE DEF rank, S
  <2> QED
    BY <1>9, <2>1, FS_Injection
<1>11. ASSUME NEW n \in 1 .. Amount(user) PROVE Nth(S, n) \in S
  <2>1. n \in 1 .. Cardinality(S)
    BY <1>5, <1>6
  <2>2. PICK i \in S : rank[i] = n
    BY ZenonT(30), <1>10, <2>1 DEF Surjection
  <2>3. Cardinality(Before(i)) = n - 1
    <3>1. rank[i] = Cardinality(Before(i)) + 1 /\ Cardinality(Before(i)) \in Nat
      BY ZenonT(30), <1>7
    <3> HIDE DEF rank, Before
    <3> QED
      BY <2>2, <3>1
  <2> QED
    BY ZenonT(30), <2>3 DEF Nth
<1>12. \A n \in 1 .. Amount(user) : TypeInfo[Nth(S, n)] \in Fn
  BY <1>1, <1>3, <1>11
<1>13. GetTargets(user) = [n \in 1 .. Amount(user) |-> TypeInfo[Nth(S, n)]]
  BY DEF GetTargets
<1>14. GetTargets(user) \in Seq(Fn) /\ Len(GetTargets(user)) = Amount(user)
  <2> HIDE DEF S
  <2> QED
    BY <1>6, <1>12, <1>13
<1> QED
  BY <1>4, <1>5, <1>6, <1>14
-----------------------------------------------------------------------------
(* The walk of get_seeds_from_runtime.                                     *)

(* The walk is defined: each entry starts where the length of the one      *)
(* before says.                                                            *)
LEMMA EntriesDef ==
  ASSUME amountOfTargets \in Nat
  PROVE  Entries = [i \in 1 .. amountOfTargets |->
                      IF i = 1 THEN 0 ELSE AfterEntry(Entries[i - 1])]
<1> DEFINE Walk(g, n) == g = [i \in 1 .. n |-> IF i = 1 THEN 0 ELSE AfterEntry(g[i - 1])]
           Bad == {n \in Nat : ~ \E g : Walk(g, n)}
<1>1. Bad = {}
  <2> SUFFICES ASSUME Bad # {} PROVE FALSE
    OBVIOUS
  <2>1. PICK n \in Bad : \A k \in Bad : n <= k
    <3>1. Bad \in SUBSET Nat
      OBVIOUS
    <3> HIDE DEF Bad
    <3> QED
      BY <3>1, LeastElement
  <2>2. n # 0
    <3>1. Walk([i \in 1 .. 0 |-> 0], 0)
      OBVIOUS
    <3> QED
      BY ZenonT(30), <3>1
  <2>3. n \in Nat /\ n - 1 \in Nat /\ n - 1 \notin Bad
    <3>1. n \in Nat
      OBVIOUS
    <3> HIDE DEF Bad
    <3> QED
      BY <2>1, <2>2, <3>1
  <2>4. PICK g : Walk(g, n - 1)
    BY <2>3
  <2> DEFINE h == [i \in 1 .. n |-> IF i = 1 THEN 0 ELSE AfterEntry(g[i - 1])]
  <2>5. \A i \in 1 .. n - 1 : h[i] = g[i]
    <3> TAKE i \in 1 .. n - 1
    <3>1. i \in 1 .. n
      BY <2>3
    <3>2. h[i] = IF i = 1 THEN 0 ELSE AfterEntry(g[i - 1])
      BY <3>1
    <3>3. g[i] = IF i = 1 THEN 0 ELSE AfterEntry(g[i - 1])
      BY <2>4
    <3> QED
      BY <3>2, <3>3
  <2>6. \A i \in 1 .. n : i # 1 => h[i - 1] = g[i - 1]
    <3> HIDE DEF h
    <3> QED
      BY <2>3, <2>5
  <2>7. Walk(h, n)
    <3>1. [i \in 1 .. n |-> IF i = 1 THEN 0 ELSE AfterEntry(h[i - 1])]
          = [i \in 1 .. n |-> IF i = 1 THEN 0 ELSE AfterEntry(g[i - 1])]
      <4> HIDE DEF h
      <4> QED
        BY <2>6
    <3> QED
      BY ZenonT(30), <3>1
  <2> QED
    BY ZenonT(30), <2>1, <2>7
<1>2. \E g : Walk(g, amountOfTargets)
  BY ZenonT(30), <1>1
<1> QED
  BY <1>2 DEF Entries

(* The name and the length of an entry that has been recorded are in the   *)
(* map, and so are the arguments.                                          *)
LEMMA EntryInMap ==
  ASSUME TypeOK, NEW k \in 1 .. Len(order), EntryInv(k)
  PROVE  /\ order[k] \in Nat /\ arg_map[order[k] + 1] \in Nat
         /\ InMap(order[k] + 1) /\ order[k] \in Cell /\ order[k] + 1 \in Cell
<1> DEFINE e == order[k]
           l == arg_map[e + 1]
<1>1. e \in Cell /\ l \in 0 .. MaxArgs
  BY DEF EntryInv, TypeOK
<1>2. EntryEnd(k) = e + 2 + l /\ InMap(EntryEnd(k) - 1)
  BY DEF EntryEnd, EntryInv
<1> HIDE DEF e, l
<1>3. e \in Nat /\ l \in Nat
  BY <1>1, Sizes
<1>4. EntryEnd(k) - 1 \in Int /\ e + 1 \in Nat /\ e + 1 <= EntryEnd(k) - 1
  BY <1>2, <1>3
<1>5. InMap(e + 1) /\ e + 1 \in Cell
  BY <1>2, <1>4, Below
<1> QED
  BY <1>1, <1>3, <1>5 DEF e, l

(* It comes by every entry that the process has recorded, and by the one   *)
(* it was recording, as far as there are targets.                          *)
LEMMA WalkFindsEntries ==
  ASSUME TypeOK, ChainInv, EntriesInv,
         NEW i \in 1 .. amountOfTargets, i <= Len(order) + 1, InMap(Start(i) + 1)
  PROVE  Entries[i] = Start(i)
<1> DEFINE Good(k) == k <= Len(order) + 1 /\ InMap(Start(k) + 1) => Entries[k] = Start(k)
           Bad == {k \in 1 .. amountOfTargets : ~ Good(k)}
<1>1. amountOfTargets \in Nat /\ Len(order) \in Nat
  BY DEF TypeOK
<1>2. \A k \in 1 .. amountOfTargets :
        Entries[k] = IF k = 1 THEN 0 ELSE AfterEntry(Entries[k - 1])
  BY <1>1, EntriesDef
<1>3. Bad = {}
  <2> SUFFICES ASSUME Bad # {} PROVE FALSE
    OBVIOUS
  <2>1. PICK k \in Bad : \A j \in Bad : k <= j
    <3>1. Bad \in SUBSET Nat
      BY <1>1
    <3> HIDE DEF Bad
    <3> QED
      BY <3>1, LeastElement
  <2>2. k \in 1 .. amountOfTargets /\ k <= Len(order) + 1 /\ InMap(Start(k) + 1)
        /\ Entries[k] # Start(k)
    OBVIOUS
  <2>3. Start(k) = IF k = 1 THEN 0 ELSE EntryEnd(k - 1)
    BY <1>1, <2>2 DEF ChainInv
  <2>4. k # 1
    BY <1>2, <2>2, <2>3
  <2>5. k - 1 \in 1 .. amountOfTargets /\ k - 1 \notin Bad /\ k - 1 \in 1 .. Len(order)
    BY <1>1, <2>1, <2>2, <2>4
  <2>6. EntryInv(k - 1) /\ Start(k - 1) = order[k - 1] /\ k - 1 <= Len(order) + 1
    BY <1>1, <2>5 DEF Start, EntriesInv
  <2> DEFINE e == order[k - 1]
  <2>7. e \in Nat /\ arg_map[e + 1] \in Nat /\ InMap(e + 1)
    BY <1>1, <2>5, <2>6, EntryInMap
  <2>9. Entries[k - 1] = e
    BY <2>5, <2>6, <2>7
  <2>10. Entries[k] = AfterEntry(e)
    BY <1>2, <2>2, <2>4, <2>9
  <2>11. Start(k) = e + 2 + arg_map[e + 1]
    BY <2>3, <2>4 DEF EntryEnd
  <2>12. AfterEntry(e) = Start(k)
    BY <2>7, <2>11 DEF AfterEntry
  <2> QED
    BY <2>2, <2>10, <2>12
<1> QED
  BY <1>3

(* In particular by those of complete recordings.                          *)
LEMMA WalkFindsOrder ==
  ASSUME TypeOK, ChainInv, EntriesInv, NEW k \in 1 .. amountOfTargets, k <= Len(order)
  PROVE  Entries[k] = order[k] /\ InMap(Entries[k] + 1)
<1>1. k \in 1 .. Len(order) /\ k <= Len(order) + 1 /\ k # Len(order) + 1
  BY DEF TypeOK
<1>2. EntryInv(k) /\ Start(k) = order[k]
  BY <1>1 DEF EntriesInv, Start
<1>3. InMap(order[k] + 1)
  BY <1>1, <1>2, EntryInMap
<1>4. Entries[k] = Start(k)
  BY <1>1, <1>2, <1>3, WalkFindsEntries
<1> QED
  BY <1>2, <1>3, <1>4

(* It never goes back behind the start of the map.                         *)
LEMMA WalkForward ==
  ASSUME TypeOK, NEW i \in 1 .. amountOfTargets
  PROVE  Entries[i] \in Nat
<1> DEFINE Bad == {k \in 1 .. amountOfTargets : Entries[k] \notin Nat}
<1>1. amountOfTargets \in Nat
  BY DEF TypeOK
<1>2. \A k \in 1 .. amountOfTargets :
        Entries[k] = IF k = 1 THEN 0 ELSE AfterEntry(Entries[k - 1])
  BY <1>1, EntriesDef
<1>3. Bad = {}
  <2> SUFFICES ASSUME Bad # {} PROVE FALSE
    OBVIOUS
  <2>1. PICK k \in Bad : \A j \in Bad : k <= j
    <3>1. Bad \in SUBSET Nat
      BY <1>1
    <3> HIDE DEF Bad
    <3> QED
      BY <3>1, LeastElement
  <2>2. k \in 1 .. amountOfTargets /\ Entries[k] \notin Nat
    OBVIOUS
  <2>3. k # 1
    BY <1>2, <2>2
  <2>4. k - 1 \in 1 .. amountOfTargets /\ k - 1 \notin Bad
    BY <1>1, <2>1, <2>2, <2>3
  <2>5. Entries[k - 1] \in Nat
    BY <2>4
  <2>6. AfterEntry(Entries[k - 1]) \in Nat
    BY <2>5, Sizes DEF AfterEntry
  <2> QED
    BY <1>2, <2>2, <2>3, <2>6
<1> QED
  BY <1>3

(* If no recording has failed it does not leave the part of the map that   *)
(* was cleared, in which nothing follows the last entry.                   *)
LEMMA WalkKeepsToMap ==
  ASSUME TypeOK, ChainInv, EntriesInv, LeftOverInv, pc = "seeds", ~failed,
         NEW i \in 1 .. amountOfTargets
  PROVE  InMap(Entries[i] + 1) /\ (i > Len(order) => arg_map[Entries[i]] = 0)
<1> DEFINE Good(k) == /\ Entries[k] \in Nat /\ Entries[k] <= (k - 1) * EntrySize
                      /\ k > Len(order) => Entries[k] >= ahArgOffset
           Bad == {k \in 1 .. amountOfTargets : ~ Good(k)}
<1>1. /\ amountOfTargets \in Nat /\ Len(order) \in Nat /\ ahArgOffset \in Nat
      /\ amountOfTargets <= Len(targetNames) /\ Len(targetNames) \in Nat
      /\ Len(targetNames) <= MAX_TARGETS /\ MAX_TARGETS \in Nat
  BY BoundsAssumption DEF TypeOK
<1>2. \A k \in 1 .. amountOfTargets :
        Entries[k] = IF k = 1 THEN 0 ELSE AfterEntry(Entries[k - 1])
  BY <1>1, EntriesDef
<1>3. \A j \in Cell : j < amountOfTargets * EntrySize /\ j >= ahArgOffset => arg_map[j] = 0
  BY DEF LeftOverInv
<1>4. ASSUME NEW k \in 1 .. amountOfTargets, Good(k)
      PROVE  /\ InMap(Entries[k] + 1) /\ Entries[k] + 1 < amountOfTargets * EntrySize
             /\ Entries[k] \in Cell /\ Entries[k] + 1 \in Cell
  <2>1. k - 1 \in Nat /\ k \in Nat /\ (k - 1) + 1 = k /\ k <= amountOfTargets
    BY <1>1
  <2>2. k * EntrySize = (k - 1) * EntrySize + EntrySize /\ (k - 1) * EntrySize \in Nat
    BY <2>1, Multiples
  <2>3. k * EntrySize <= amountOfTargets * EntrySize /\ amountOfTargets * EntrySize \in Nat
    BY <1>1, <2>1, Multiples
  <2>4. amountOfTargets * EntrySize <= Len(targetNames) * EntrySize
        /\ Len(targetNames) * EntrySize \in Nat
    BY <1>1, Multiples
  <2>5. Len(targetNames) * EntrySize <= Undefined
    BY <1>1, Multiples DEF Undefined
  <2>6. Entries[k] \in Nat /\ Entries[k] <= (k - 1) * EntrySize
    BY <1>4
  <2> HIDE DEF Good
  <2>7. Entries[k] + 1 < amountOfTargets * EntrySize
    BY <2>2, <2>3, <2>6, Sizes
  <2>8. Entries[k] \in Cell /\ Entries[k] + 1 \in Cell
    BY <2>3, <2>4, <2>5, <2>6, <2>7, Sizes
  <2> QED
    BY <2>3, <2>4, <2>6, <2>7, <2>8 DEF InMap
<1>5. Bad = {}
  <2> SUFFICES ASSUME Bad # {} PROVE FALSE
    OBVIOUS
  <2>1. PICK k \in Bad : \A j \in Bad : k <= j
    <3>1. Bad \in SUBSET Nat
      BY <1>1
    <3> HIDE DEF Bad
    <3> QED
      BY <3>1, LeastElement
  <2>2. k \in 1 .. amountOfTargets /\ ~ Good(k)
    OBVIOUS
  <2>3. k # 1
    <3>1. Entries[1] = 0 /\ (1 - 1) * EntrySize = 0
      BY <1>1, <1>2, <2>2, Sizes
    <3>2. 1 > Len(order) => ahArgOffset <= 0
      <4>1. 1 > Len(order) => Len(order) = 0 /\ 0 * EntrySize = 0
        BY <1>1, Sizes
      <4> QED
        BY <1>1, <4>1 DEF ChainInv
    <3> QED
      BY <1>1, <2>2, <3>1, <3>2
  <2>4. k - 1 \in 1 .. amountOfTargets /\ k - 1 \notin Bad
    BY <1>1, <2>1, <2>2, <2>3
  <2>5. Good(k - 1)
    BY <2>4
  <2> DEFINE e == Entries[k - 1]
             l == arg_map[e + 1]
             m == (k - 2) * EntrySize
  <2>6. Entries[k] = AfterEntry(e)
    BY <1>2, <2>2, <2>3
  <2>7. /\ InMap(e + 1) /\ e + 1 < amountOfTargets * EntrySize /\ e + 1 \in Cell
        /\ e \in Nat /\ e <= m /\ (k - 1 > Len(order) => e >= ahArgOffset)
    <3>1. (k - 1) - 1 = k - 2
      BY <1>1, <2>2
    <3> QED
      BY <1>4, <2>4, <2>5, <3>1
  <2>8. m \in Nat /\ (k - 1) * EntrySize = m + EntrySize
    <3>1. k - 2 \in Nat /\ (k - 2) + 1 = k - 1
      BY <1>1, <2>2, <2>3
    <3> QED
      BY <3>1, Multiples
  <2> HIDE DEF Good, Bad
  <2>9. CASE k - 1 <= Len(order)
    <3>1. k - 1 \in 1 .. Len(order)
      BY <1>1, <2>4, <2>9
    <3>2. e = order[k - 1] /\ EntryInv(k - 1)
      BY <2>4, <2>9, <3>1, WalkFindsOrder DEF EntriesInv
    <3>3. l \in Nat /\ l <= MaxArgs
      BY <3>2, Sizes DEF EntryInv
    <3>4. Entries[k] = e + 2 + l
      BY <2>6, <2>7, <3>3 DEF AfterEntry
    <3>5. k > Len(order) => Entries[k] >= ahArgOffset
      <4> SUFFICES ASSUME k > Len(order) PROVE Entries[k] >= ahArgOffset
        OBVIOUS
      <4>1. k = Len(order) + 1 /\ k \in 1 .. Len(order) + 1
        BY <1>1, <2>2, <2>9
      <4>2. Start(k) = ahArgOffset
        BY <4>1 DEF Start
      <4>3. Start(k) = EntryEnd(k - 1)
        BY <2>3, <4>1 DEF ChainInv
      <4>4. EntryEnd(k - 1) = e + 2 + l
        BY <3>2 DEF EntryEnd
      <4> QED
        BY <1>1, <3>4, <4>2, <4>3, <4>4
    <3>6. Entries[k] \in Nat /\ Entries[k] <= (k - 1) * EntrySize
      <4> HIDE DEF e, l, m
      <4> QED
        BY <2>7, <2>8, <3>3, <3>4, Sizes
    <3> QED
      BY <2>2, <3>5, <3>6 DEF Good
  <2>10. CASE ~ (k - 1 <= Len(order))
    <3>1. k - 1 > Len(order)
      BY <1>1, <2>2, <2>10
    <3>2. e >= ahArgOffset /\ e + 1 >= ahArgOffset
      BY <1>1, <2>7, <3>1
    <3>3. l = 0
      BY <1>3, <2>7, <3>2
    <3>4. Entries[k] = e + 2
      <4>1. AfterEntry(e) = e + 2 + l
        BY <2>7, <3>3 DEF AfterEntry
      <4> QED
        BY <2>6, <2>7, <3>3, <4>1
    <3>5. Entries[k] \in Nat /\ Entries[k] <= (k - 1) * EntrySize /\ Entries[k] >= ahArgOffset
      <4> HIDE DEF e, m
      <4> QED
        BY <1>1, <2>7, <2>8, <3>2, <3>4, Sizes
    <3> QED
      BY <2>2, <3>5 DEF Good
  <2> QED
    BY <2>9, <2>10
<1>6. Good(i)
  BY <1>5
<1>7. /\ InMap(Entries[i] + 1) /\ Entries[i] + 1 < amountOfTargets * EntrySize
      /\ Entries[i] \in Cell /\ Entries[i] \in Nat
  BY <1>4, <1>6
<1>8. Entries[i] < amountOfTargets * EntrySize
  <2>1. amountOfTargets * EntrySize \in Nat
    BY <1>1, Multiples
  <2> QED
    BY <1>7, <2>1
<1> QED
  BY <1>3, <1>6, <1>7, <1>8
-----------------------------------------------------------------------------
(* The steps of the recorded process.                                      *)

(* What gen_values writes for a function: nothing before the offset.       *)
LEMMA Written ==
  ASSUME TypeOK, NEW f \in Fn, NEW n \in 0 .. MaxArgs, NEW d \in Nat, Fits(n)
  PROVE  /\ Serialized(f, n, d) \in [Cell -> Fn \cup Nat]
         /\ ahArgOffset \in Cell /\ ahArgOffset + 1 \in Cell /\ InMap(ahArgOffset + 1)
         /\ Serialized(f, n, d)[ahArgOffset] = f
         /\ \A i \in 1 .. n : ahArgOffset + 1 + i \in Cell
                              /\ Serialized(f, n, d)[ahArgOffset + 1 + i] = d
         /\ \A i \in Cell : i < ahArgOffset \/ i = ahArgOffset + 1
                              => Serialized(f, n, d)[i] = arg_map[i]
         /\ \A i \in Cell : \/ Serialized(f, n, d)[i] = arg_map[i]
                            \/ i >= ahArgOffset /\ Serialized(f, n, d)[i] = d
                            \/ i = ahArgOffset
<1> DEFINE S == Serialized(f, n, d)
<1>1. n \in Nat /\ n <= MaxArgs /\ ahArgOffset \in Nat /\ arg_map \in [Cell -> Fn \cup Nat]
  BY Sizes DEF TypeOK
<1>2. d \in Nat
  OBVIOUS
<1>3. ahArgOffset + n + 1 \in Cell /\ InMap(ahArgOffset + n + 1)
  BY DEF Fits, InMap
<1>4. ahArgOffset \in Cell /\ ahArgOffset + 1 \in Cell /\ InMap(ahArgOffset + 1)
  <2>1. ahArgOffset + 1 \in Nat /\ ahArgOffset + n + 1 \in Int /\ ahArgOffset + 1 <= ahArgOffset + n + 1
    BY <1>1
  <2>2. InMap(ahArgOffset + 1) /\ ahArgOffset + 1 \in Cell
    BY <1>3, <2>1, Below
  <2> QED
    BY <1>1, <2>2, Sizes
<1>5. \A i \in 1 .. n : ahArgOffset + 1 + i \in Cell
  BY <1>1, <1>3, Sizes
<1>6. \A i \in Cell : S[i] = IF i = ahArgOffset THEN f
                             ELSE IF i - ahArgOffset \in 2 .. n + 1 THEN d
                             ELSE arg_map[i]
  BY DEF Serialized
<1>7. \A i \in Cell : S[i] \in Fn \cup Nat
  BY <1>1, <1>2, <1>6
<1>8. S \in [Cell -> Fn \cup Nat]
  <2>1. S = [i \in Cell |-> S[i]]
    BY DEF Serialized
  <2> HIDE DEF S
  <2> QED
    BY <1>7, <2>1
<1>9. \A i \in Cell : i \in Nat
  BY Sizes
<1> HIDE DEF S
<1>10. \A i \in 1 .. n : S[ahArgOffset + 1 + i] = d
  <2> TAKE i \in 1 .. n
  <2>1. /\ ahArgOffset + 1 + i \in Cell /\ ahArgOffset + 1 + i # ahArgOffset
        /\ (ahArgOffset + 1 + i) - ahArgOffset \in 2 .. n + 1
    BY <1>1, <1>5
  <2> QED
    BY <1>6, <2>1
<1>11. \A i \in Cell : i < ahArgOffset \/ i = ahArgOffset + 1 => S[i] = arg_map[i]
  BY <1>1, <1>6, <1>9
<1>12. \A i \in Cell : \/ S[i] = arg_map[i]
                       \/ i >= ahArgOffset /\ S[i] = d
                       \/ i = ahArgOffset
  BY <1>1, <1>6, <1>9
<1> QED
  BY <1>4, <1>5, <1>6, <1>8, <1>10, <1>11, <1>12 DEF S

(* An entry lasts as long as nothing is written before the offset.         *)
LEMMA EntryLasts ==
  ASSUME TypeOK, NEW k \in 1 .. Len(order), EntryInv(k),
         \A i \in Cell : i < ahArgOffset => arg_map'[i] = arg_map[i],
         order'[k] = order[k], recorded \subseteq recorded', targetNames' = targetNames,
         args'[arg_map[order[k]]] = args[arg_map[order[k]]],
         ahArgOffset' \in Nat, ahArgOffset <= ahArgOffset'
  PROVE  /\ EntryInv(k)' /\ EntryEnd(k)' = EntryEnd(k)
         /\ arg_map'[order'[k]] = arg_map[order[k]]
<1> DEFINE e == order[k]
           l == arg_map[e + 1]
<1>1. e \in Cell /\ ahArgOffset \in Nat
  BY DEF TypeOK
<1>2. /\ l \in 0 .. MaxArgs /\ InMap(EntryEnd(k) - 1) /\ EntryEnd(k) - 1 \in Cell
      /\ EntryEnd(k) <= ahArgOffset
  BY DEF EntryInv, InMap
<1>3. EntryEnd(k) = e + 2 + l
  BY DEF EntryEnd
<1>4. e \in Nat /\ l \in Nat
  <2> HIDE DEF e, l
  <2> QED
    BY <1>1, <1>2, Sizes
<1>5. \A j \in 0 .. l + 1 : e + j \in Cell /\ e + j < ahArgOffset
  <2> HIDE DEF e, l
  <2> QED
    BY <1>1, <1>2, <1>3, <1>4, Sizes
<1>6. \A j \in 0 .. l + 1 : arg_map'[e + j] = arg_map[e + j]
  <2> HIDE DEF e, l
  <2> QED
    BY <1>5
<1>7. arg_map'[e] = arg_map[e] /\ arg_map'[e + 1] = l
  <2>1. 0 \in 0 .. l + 1 /\ 1 \in 0 .. l + 1 /\ e + 0 = e
    BY <1>4
  <2> QED
    BY <1>6, <2>1
<1>8. EntryEnd(k)' = EntryEnd(k)
  BY <1>7 DEF EntryEnd
<1>9. [i \in 1 .. l |-> arg_map'[e + 1 + i]] = [i \in 1 .. l |-> arg_map[e + 1 + i]]
  <2>1. \A i \in 1 .. l : arg_map'[e + 1 + i] = arg_map[e + 1 + i]
    <3> HIDE DEF e, l
    <3> TAKE i \in 1 .. l
    <3>1. 1 + i \in 0 .. l + 1 /\ e + (1 + i) = e + 1 + i
      BY <1>4
    <3> QED
      BY <1>6, <3>1
  <2> QED
    BY <2>1
<1>10. EntryEnd(k) <= ahArgOffset'
  BY <1>1, <1>2, <1>3, <1>4
<1>11. EntryInv(k)'
  <2>1. /\ order'[k] \in 0 .. (k - 1) * EntrySize /\ arg_map'[order'[k]] \in recorded'
        /\ arg_map'[order'[k] + 1] \in 0 .. MaxArgs
    BY <1>7 DEF EntryInv
  <2>2. InMap(EntryEnd(k) - 1)' /\ EntryEnd(k)' <= ahArgOffset'
    BY <1>2, <1>8, <1>10 DEF InMap
  <2>3. args'[arg_map'[order'[k]]] =
          [i \in 1 .. arg_map'[order'[k] + 1] |-> arg_map'[order'[k] + 1 + i]]
    <3>1. args[arg_map[e]] = [i \in 1 .. l |-> arg_map[e + 1 + i]]
      BY DEF EntryInv
    <3>2. args'[arg_map'[e]] = args[arg_map[e]]
      BY ZenonT(30), <1>7
    <3>3. [i \in 1 .. arg_map'[e + 1] |-> arg_map'[e + 1 + i]]
          = [i \in 1 .. l |-> arg_map'[e + 1 + i]]
      BY ZenonT(30), <1>7
    <3>4. args'[arg_map'[e]] = [i \in 1 .. arg_map'[e + 1] |-> arg_map'[e + 1 + i]]
      BY ZenonT(30), <1>9, <3>1, <3>2, <3>3
    <3> QED
      BY ZenonT(30), <3>4
  <2> QED
    BY <2>1, <2>2, <2>3 DEF EntryInv
<1> QED
  BY <1>7, <1>8, <1>11

(* So do all of them when none is added.                                   *)
LEMMA EntriesLast ==
  ASSUME TypeOK, ChainInv, EntriesInv, NamesInv,
         \A i \in Cell : i < ahArgOffset => arg_map'[i] = arg_map[i],
         order' = order, recorded \subseteq recorded', args' = args, targetNames' = targetNames,
         ahArgOffset' = ahArgOffset, recorded' \cap blacklist' = {},
         failed' => \E f \in recorded' : args'[f] = <<>>
  PROVE  ChainInv' /\ EntriesInv' /\ NamesInv'
<1>1. ahArgOffset \in Nat /\ Len(order) \in Nat
  BY DEF TypeOK
<1>2. \A k \in 1 .. Len(order) : /\ EntryInv(k)' /\ EntryEnd(k)' = EntryEnd(k)
                                 /\ arg_map'[order'[k]] = arg_map[order[k]]
  <2> TAKE k \in 1 .. Len(order)
  <2>1. EntryInv(k)
    BY DEF EntriesInv
  <2> QED
    BY <1>1, <2>1, EntryLasts
<1>3. EntriesInv'
  BY <1>2 DEF EntriesInv
<1>4. ChainInv'
  <2>1. \A k \in 1 .. Len(order) + 1 : k # 1 => k - 1 \in 1 .. Len(order)
    BY <1>1
  <2>2. \A k \in 1 .. Len(order) + 1 : Start(k)' = IF k = 1 THEN 0 ELSE EntryEnd(k - 1)'
    <3> TAKE k \in 1 .. Len(order) + 1
    <3>1. Start(k)' = Start(k)
      BY DEF Start
    <3>2. Start(k) = IF k = 1 THEN 0 ELSE EntryEnd(k - 1)
      BY DEF ChainInv
    <3>3. k # 1 => EntryEnd(k - 1)' = EntryEnd(k - 1)
      BY <1>2, <2>1
    <3> QED
      BY <3>1, <3>2, <3>3
  <2> QED
    BY <2>2 DEF ChainInv
<1>5. NamesInv'
  BY <1>2 DEF NamesInv
<1> QED
  BY <1>3, <1>4, <1>5
(* A recording that succeeds adds an entry at the end.                     *)
LEMMA RecordOkStep ==
  ASSUME IInv, NEW f \in Fn, NEW n \in ArgCells[f], NEW d \in Data[f],
         RecordOk(f, n, d)
  PROVE  IInv'
<1> DEFINE o == ahArgOffset
           S == Serialized(f, n, d)
<1>1. n \in 0 .. MaxArgs /\ d \in Nat
  BY ArgsAssumption, DataAssumption
<1>2. TypeOK /\ ChainInv /\ EntriesInv /\ NamesInv /\ LeftOverInv /\ PhaseInv
  BY DEF IInv
<1>0. PICK r \in Nat : r = Len(order)
  BY <1>2 DEF TypeOK
<1>3. /\ pc = "run" /\ ShouldRecord(f) /\ Fits(n) /\ arg_map' = [S EXCEPT ![o + 1] = n]
      /\ ahArgOffset' = o + 2 + n /\ recorded' = recorded \cup {f}
      /\ args' = [args EXCEPT ![f] = [i \in 1 .. n |-> d]]
      /\ order' = Append(order, o) /\ failed' = failed /\ called' = called \cup {f}
      /\ pc' = "run" /\ crashed' = crashed /\ blacklist' = blacklist
      /\ targetNames' = targetNames /\ amountOfTargets' = amountOfTargets /\ seeds' = seeds
  BY DEF RecordOk, fuzzerVars
<1>4. /\ S \in [Cell -> Fn \cup Nat] /\ o \in Cell /\ o + 1 \in Cell /\ S[o] = f
      /\ \A i \in 1 .. n : o + 1 + i \in Cell /\ S[o + 1 + i] = d
      /\ \A i \in Cell : i < o \/ i = o + 1 => S[i] = arg_map[i]
      /\ \A i \in Cell : S[i] = arg_map[i] \/ (i >= o /\ S[i] = d) \/ i = o
  BY <1>1, <1>2, <1>3, Written
<1>5. d \in Nat /\ n \in Nat /\ n <= MaxArgs /\ o \in Nat /\ r \in Nat /\ amountOfTargets \in Nat
  BY <1>0, <1>1, <1>2, Sizes DEF TypeOK
<1>6. order \in Seq(Cell) /\ args \in [Fn -> Seq(Nat)]
  BY <1>2 DEF TypeOK
<1>7. order' \in Seq(Cell) /\ Len(order') = r + 1 /\ order'[r + 1] = o
      /\ \A k \in 1 .. r : order'[k] = order[k]
  <2>1. o \in Cell /\ order' = Append(order, o)
    BY <1>3, <1>4
  <2> HIDE DEF o
  <2> QED
    BY <1>0, <1>6, <2>1
<1> HIDE DEF o, S
<1>8. arg_map' \in [Cell -> Fn \cup Nat] /\ arg_map'[o + 1] = n
      /\ \A i \in Cell : i # o + 1 => arg_map'[i] = S[i]
  BY <1>3, <1>4, <1>5
<1>9. arg_map'[o] = f
  <2>1. o # o + 1
    BY <1>5
  <2> QED
    BY ZenonT(30), <1>4, <1>8, <2>1
<1>10. \A i \in 1 .. n : arg_map'[o + 1 + i] = d
  <2> TAKE i \in 1 .. n
  <2>1. o + 1 + i # o + 1
    BY <1>5
  <2> QED
    BY <1>4, <1>8, <2>1
<1>11. \A i \in Cell : i < o => arg_map'[i] = arg_map[i]
  <2>1. \A i \in Cell : i < o => i # o + 1
    BY <1>5, Sizes
  <2> QED
    BY ZenonT(40), <1>4, <1>8, <2>1
<1>12. f \notin recorded /\ f \notin blacklist
  BY ZenonT(30), <1>3, SubstringAssumption DEF ShouldRecord, PartOfBlacklist
<1>13. \A k \in 1 .. r : arg_map[order[k]] \in recorded
  BY ZenonT(40), <1>0, <1>2 DEF EntriesInv, EntryInv
<1>14. \A k \in 1 .. r : /\ EntryInv(k)' /\ EntryEnd(k)' = EntryEnd(k)
                         /\ arg_map'[order'[k]] = arg_map[order[k]]
  <2> TAKE k \in 1 .. r
  <2>1. EntryInv(k) /\ k \in 1 .. Len(order)
    BY <1>0, <1>2 DEF EntriesInv
  <2>2. args'[arg_map[order[k]]] = args[arg_map[order[k]]]
    BY <1>3, <1>6, <1>12, <1>13
  <2>3. recorded \subseteq recorded' /\ targetNames' = targetNames
    BY ZenonT(30), <1>3
  <2>4. ahArgOffset' \in Nat /\ ahArgOffset <= ahArgOffset'
    BY <1>3, <1>5 DEF o
  <2>5. \A i \in Cell : i < ahArgOffset => arg_map'[i] = arg_map[i]
    BY <1>11 DEF o
  <2> QED
    BY <1>2, <1>7, <2>1, <2>2, <2>3, <2>4, <2>5, EntryLasts
<1>15. EntryEnd(r + 1)' = o + 2 + n
  BY <1>7, <1>8 DEF EntryEnd
<1>16. o <= r * EntrySize /\ r * EntrySize \in Nat
       /\ (r + 1) * EntrySize = r * EntrySize + EntrySize
  <2>1. o <= r * EntrySize
    BY <1>0, <1>2 DEF ChainInv, o
  <2> QED
    BY <1>5, <2>1, Multiples
<1>17. [i \in 1 .. n |-> arg_map'[o + 1 + i]] = [i \in 1 .. n |-> d]
  BY <1>10
<1>18. args'[f] = [i \in 1 .. n |-> d] /\ args' \in [Fn -> Seq(Nat)]
  <2>1. [i \in 1 .. n |-> d] \in Seq(Nat)
    BY <1>5, Sizes
  <2> QED
    BY <1>3, <1>6, <2>1
<1>19. EntryInv(r + 1)'
  <2>1. order'[r + 1] \in 0 .. ((r + 1) - 1) * EntrySize
    <3>1. (r + 1) - 1 = r
      BY <1>5
    <3> QED
      BY <1>5, <1>7, <1>16, <3>1
  <2>2. arg_map'[order'[r + 1]] \in recorded'
    BY <1>3, <1>7, <1>9
  <2>3. arg_map'[order'[r + 1] + 1] \in 0 .. MaxArgs 
    BY <1>1, <1>7, <1>8
  <2>4. InMap(EntryEnd(r + 1) - 1)' /\ EntryEnd(r + 1)' <= ahArgOffset'
    <3>1. InMap(o + n + 1)
      BY <1>3 DEF Fits, o
    <3>2. (o + 2 + n) - 1 = o + n + 1
      BY <1>5
    <3> QED
      BY <1>3, <1>5, <1>15, <3>1, <3>2 DEF InMap
  <2>5. args'[arg_map'[order'[r + 1]]] =
          [i \in 1 .. arg_map'[order'[r + 1] + 1] |-> arg_map'[order'[r + 1] + 1 + i]]
    BY <1>7, <1>8, <1>9, <1>17, <1>18
  <2> QED
    BY <2>1, <2>2, <2>3, <2>4, <2>5 DEF EntryInv
<1>20. TypeOK'
  <2>1. recorded' \subseteq Fn /\ failed' \in BOOLEAN /\ called' \subseteq Fn
    BY <1>2, <1>3 DEF TypeOK
  <2>2. ahArgOffset' \in Nat
    BY <1>3, <1>5
  <2> QED
    BY <1>2, <1>3, <1>7, <1>8, <1>18, <2>1, <2>2 DEF TypeOK
<1>21. EntriesInv'
  <2>1. \A k \in 1 .. r + 1 : k \in 1 .. r \/ k = r + 1
    BY <1>5
  <2> QED
    BY <1>7, <1>14, <1>19, <2>1 DEF EntriesInv
<1>22. ChainInv'
  <2>1. ASSUME NEW k \in 1 .. (r + 1) + 1
        PROVE  Start(k)' = IF k = 1 THEN 0 ELSE EntryEnd(k - 1)'
    <3>1. CASE k = (r + 1) + 1
      <4>1. k # 1 /\ k - 1 = r + 1
        BY <1>5, <3>1
      <4>2. Start(k)' = o + 2 + n
        BY <1>3, <1>7, <3>1 DEF Start
      <4> QED
        BY <1>15, <4>1, <4>2
    <3>2. CASE k # (r + 1) + 1
      <4>1. k \in 1 .. r + 1 /\ (k \in 1 .. r \/ k = r + 1) /\ k # r + 2
        BY <1>5, <3>2
      <4>2. Start(k)' = order'[k]
        BY <1>7, <3>2 DEF Start
      <4>3. k \in 1 .. r => k # r + 1
        BY <1>5
      <4>4. order'[k] = Start(k)
        BY <1>0, <1>7, <4>1, <4>3 DEF Start, o
      <4>5. Start(k) = IF k = 1 THEN 0 ELSE EntryEnd(k - 1)
        BY <1>0, <1>2, <4>1 DEF ChainInv
      <4>6. k # 1 => k - 1 \in 1 .. r
        BY <1>5, <4>1
      <4>7. k # 1 => EntryEnd(k - 1)' = EntryEnd(k - 1)
        BY <1>14, <4>6
      <4> QED
        BY <4>2, <4>4, <4>5, <4>7
    <3> QED
      BY <3>1, <3>2
  <2>2. o + 2 + n <= (r + 1) * EntrySize
    BY <1>5, <1>16, Sizes
  <2> QED
    BY <1>3, <1>7, <2>1, <2>2 DEF ChainInv
<1>23. NamesInv'
  <2>1. \A k \in 1 .. r + 1 : k \in 1 .. r \/ k = r + 1
    BY <1>5
  <2>2. \A k \in 1 .. r : arg_map'[order'[k]] = arg_map[order[k]] /\ arg_map[order[k]] # f
    BY <1>12, <1>13, <1>14
  <2>3. arg_map'[order'[r + 1]] = f
    BY <1>7, <1>9
  <2>4. \A j, k \in 1 .. r : arg_map[order[j]] = arg_map[order[k]] => j = k
    BY <1>0, <1>2 DEF NamesInv
  <2>5. \A j, k \in 1 .. r + 1 : arg_map'[order'[j]] = arg_map'[order'[k]] => j = k
    BY <2>1, <2>2, <2>3, <2>4
  <2>6. ASSUME NEW g \in Fn, args'[g] # <<>>
        PROVE  \E k \in 1 .. r + 1 : arg_map'[order'[k]] = g
    <3>1. CASE g = f
      <4>1. r + 1 \in 1 .. r + 1
        BY <1>5
      <4> QED
        BY <2>3, <3>1, <4>1
    <3>2. CASE g # f
      <4>1. args[g] # <<>>
        BY <1>3, <1>6, <2>6, <3>2
      <4>2. PICK k \in 1 .. r : arg_map[order[k]] = g
        BY <1>0, <1>2, <4>1 DEF NamesInv
      <4>3. k \in 1 .. r + 1
        BY <1>5
      <4> QED
        BY <2>2, <4>2, <4>3
    <3> QED
      BY <3>1, <3>2
  <2>7. recorded' \cap blacklist' = {}
    BY <1>2, <1>3, <1>12 DEF NamesInv
  <2>8. ASSUME failed' PROVE \E g \in recorded' : args'[g] = <<>>
    <3>1. PICK g \in recorded : args[g] = <<>>
      BY <1>2, <1>3, <2>8 DEF NamesInv
    <3>2. g \in recorded' /\ args'[g] = args[g]
      <4>1. g # f /\ g \in Fn
        BY <1>2, <1>12 DEF TypeOK
      <4> QED
        BY <1>3, <1>6, <4>1
    <3> QED
      BY <3>1, <3>2
  <2> QED
    BY <1>7, <2>5, <2>6, <2>7, <2>8 DEF NamesInv
<1>24. LeftOverInv'
  <2>1. \A i \in Cell : i \in Nat
    BY Sizes
  <2>4. ASSUME ~failed', NEW i \in Cell, i < amountOfTargets * EntrySize, i >= o + 2 + n
        PROVE  arg_map'[i] = 0
    <3>1. i \in Nat /\ i >= o /\ i # o /\ i # o + 1
      BY <1>5, <2>1, <2>4
    <3>2. arg_map[i] = 0
      BY ZenonT(30), <1>2, <1>3, <2>4, <3>1 DEF LeftOverInv, o
    <3>3. ~ (i - o \in 2 .. n + 1)
      BY <1>5, <2>4, <3>1
    <3>4. S[i] = arg_map[i]
      BY <3>1, <3>3 DEF S, o, Serialized
    <3> QED
      BY <1>8, <3>1, <3>2, <3>4
  <2> QED
    BY ZenonT(30), <1>3, <2>4 DEF LeftOverInv
<1>25. PhaseInv' /\ SeedsAreRecorded'
  <2>1. PhaseInv'
    BY <1>2, <1>3 DEF PhaseInv, PartOfBlacklist
  <2>2. seeds' = {} /\ pc' # "done"
    BY <1>2, <1>3 DEF PhaseInv
  <2> QED
    BY <2>1, <2>2 DEF SeedsAreRecorded
<1> QED
  BY <1>20, <1>21, <1>22, <1>23, <1>24, <1>25 DEF IInv

(* One that fails leaves numbers behind the offset, and no name.           *)
LEMMA RecordFailsStep ==
  ASSUME IInv, NEW f \in Fn, NEW n \in ArgCells[f], NEW d \in Data[f],
         RecordFails(f, n, d)
  PROVE  IInv'
<1> DEFINE o == ahArgOffset
           S == Serialized(f, n, d)
<1>1. n \in 0 .. MaxArgs /\ d \in Nat
  BY ArgsAssumption, DataAssumption
<1>2. TypeOK /\ ChainInv /\ EntriesInv /\ NamesInv /\ LeftOverInv /\ PhaseInv
  BY DEF IInv
<1>3. /\ pc = "run" /\ ShouldRecord(f) /\ Fits(n) /\ arg_map' = [S EXCEPT ![o] = Zero]
      /\ recorded' = recorded \cup {f} /\ called' = called \cup {f} /\ failed' = TRUE
      /\ pc' = "run" /\ ahArgOffset' = ahArgOffset /\ args' = args /\ order' = order
      /\ crashed' = crashed /\ blacklist' = blacklist
      /\ targetNames' = targetNames /\ amountOfTargets' = amountOfTargets /\ seeds' = seeds
  BY DEF RecordFails, fuzzerVars
<1>4. /\ S \in [Cell -> Fn \cup Nat] /\ o \in Cell
      /\ \A i \in Cell : i < o => S[i] = arg_map[i]
  BY <1>1, <1>2, <1>3, Written
<1>5. o \in Nat /\ \A i \in Cell : i \in Nat
  BY <1>2, Sizes DEF TypeOK
<1> HIDE DEF o, S
<1>6. arg_map' \in [Cell -> Fn \cup Nat] /\ arg_map'[o] = 0
      /\ \A i \in Cell : i # o => arg_map'[i] = S[i]
  BY <1>3, <1>4 DEF Zero
<1>7. \A i \in Cell : i < o => arg_map'[i] = arg_map[i]
  <2>1. \A i \in Cell : i < o => i # o
    BY <1>5
  <2> QED
    BY <1>4, <1>6, <2>1
<1>8. f \notin blacklist
  BY ZenonT(40), <1>3, SubstringAssumption DEF ShouldRecord, PartOfBlacklist
<1>9. ChainInv' /\ EntriesInv' /\ NamesInv'
  <2>1. recorded \subseteq recorded'
    BY <1>3
  <2>2. recorded' \cap blacklist' = {}
    BY <1>2, <1>3, <1>8 DEF NamesInv
  <2>3. \A i \in Cell : i < ahArgOffset => arg_map'[i] = arg_map[i]
    BY <1>7 DEF o
  <2>4. f \in recorded' /\ args'[f] = <<>>
    <3>1. \A k \in 1 .. Len(order) : arg_map[order[k]] \in recorded
      BY ZenonT(30), <1>2 DEF EntriesInv, EntryInv
    <3>2. f \notin recorded
      BY <1>3 DEF ShouldRecord
    <3>3. ASSUME args[f] # <<>> PROVE FALSE
      <4>1. PICK k \in 1 .. Len(order) : arg_map[order[k]] = f
        BY <1>2, <3>3 DEF NamesInv
      <4> QED
        BY <3>1, <3>2, <4>1
    <3> QED
      BY <1>3, <3>3
  <2> QED
    BY <1>2, <1>3, <2>1, <2>2, <2>3, <2>4, EntriesLast
<1>10. TypeOK'
  BY <1>2, <1>3, <1>6 DEF TypeOK
<1>11. LeftOverInv'
  BY <1>3 DEF LeftOverInv
<1>12. PhaseInv' /\ SeedsAreRecorded'
  <2>1. PhaseInv'
    BY <1>2, <1>3 DEF PhaseInv, PartOfBlacklist
  <2>2. seeds' = {} /\ pc' # "done"
    BY <1>2, <1>3 DEF PhaseInv
  <2> QED
    BY <2>1, <2>2 DEF SeedsAreRecorded
<1> QED
  BY <1>9, <1>10, <1>11, <1>12 DEF IInv

(* One that crashes leaves the name at the offset, and no length if there  *)
(* was none.                                                               *)
LEMMA RecordCrashesStep ==
  ASSUME IInv, NEW f \in Fn, NEW n \in ArgCells[f], NEW d \in Data[f],
         RecordCrashes(f, n, d)
  PROVE  IInv'
<1> DEFINE o == ahArgOffset
           S == Serialized(f, n, d)
<1>1. n \in 0 .. MaxArgs /\ d \in Nat
  BY ArgsAssumption, DataAssumption
<1>2. TypeOK /\ ChainInv /\ EntriesInv /\ NamesInv /\ LeftOverInv /\ PhaseInv
  BY DEF IInv
<1>3. /\ pc = "run" /\ Fits(n) /\ arg_map' = S /\ crashed' = f /\ pc' = "judge"
      /\ recorded' = recorded /\ failed' = failed /\ called' = called \cup {f}
      /\ ahArgOffset' = ahArgOffset /\ args' = args /\ order' = order
      /\ blacklist' = blacklist
      /\ targetNames' = targetNames /\ amountOfTargets' = amountOfTargets /\ seeds' = seeds
  BY DEF RecordCrashes, fuzzerVars
<1>4. /\ S \in [Cell -> Fn \cup Nat] /\ o \in Cell /\ o + 1 \in Cell /\ InMap(o + 1) /\ S[o] = f
      /\ \A i \in Cell : i < o \/ i = o + 1 => S[i] = arg_map[i]
  BY <1>1, <1>2, <1>3, Written
<1>5. o \in Nat /\ o + 1 >= o
  BY <1>2 DEF TypeOK
<1> HIDE DEF o, S
<1>6. ChainInv' /\ EntriesInv' /\ NamesInv'
  <2>1. recorded' \cap blacklist' = {}
    BY <1>2, <1>3 DEF NamesInv
  <2>2. \A i \in Cell : i < ahArgOffset => arg_map'[i] = arg_map[i]
    BY <1>3, <1>4 DEF o
  <2>3. failed' => \E g \in recorded' : args'[g] = <<>>
    BY <1>2, <1>3 DEF NamesInv
  <2> QED
    BY <1>2, <1>3, <2>1, <2>2, <2>3, EntriesLast
<1>7. TypeOK'
  BY <1>2, <1>3, <1>4 DEF TypeOK
<1>8. LeftOverInv'
  <2>3. InMap(ahArgOffset + 1)' /\ arg_map'[ahArgOffset] = f
    BY <1>3, <1>4 DEF o, InMap
  <2>4. ASSUME ~failed, o + 1 < amountOfTargets * EntrySize PROVE arg_map'[o + 1] = 0
    <3>1. arg_map[o + 1] = 0
      BY <1>2, <1>3, <1>4, <1>5, <2>4 DEF LeftOverInv, o
    <3> QED
      BY <1>3, <1>4, <3>1
  <2> QED
    BY ZenonT(40), <1>3, <2>3, <2>4 DEF LeftOverInv, o
<1>9. PhaseInv' /\ SeedsAreRecorded'
  <2>1. PhaseInv'
    BY <1>2, <1>3 DEF PhaseInv
  <2>2. seeds' = {} /\ pc' # "done"
    BY <1>2, <1>3 DEF PhaseInv
  <2> QED
    BY <2>1, <2>2 DEF SeedsAreRecorded
<1> QED
  BY <1>6, <1>7, <1>8, <1>9 DEF IInv

(* The process ends, crashes elsewhere or is killed, or afl-fuzz gives up. *)
LEMMA EndStep ==
  ASSUME IInv, HostCrashes \/ HostEnds \/ TimedOut \/ GiveUp
  PROVE  IInv'
<1>1. TypeOK /\ ChainInv /\ EntriesInv /\ NamesInv /\ LeftOverInv /\ PhaseInv
  BY DEF IInv
<1>2. /\ (pc = "run" /\ pc' \in {"judge", "seeds", "fatal"}) \/ (pc = "judge" /\ pc' = "fatal")
      /\ arg_map' = arg_map /\ ahArgOffset' = ahArgOffset /\ recorded' = recorded
      /\ args' = args /\ order' = order /\ failed' = failed /\ called' = called /\ crashed' = crashed
      /\ blacklist' = blacklist
      /\ targetNames' = targetNames /\ amountOfTargets' = amountOfTargets /\ seeds' = seeds
  BY DEF HostCrashes, HostEnds, TimedOut, GiveUp, fuzzerVars, mapVars, historyVars
<1>3. ChainInv' /\ EntriesInv' /\ NamesInv'
  <2>1. recorded' \cap blacklist' = {}
    BY ZenonT(40), <1>1, <1>2 DEF NamesInv
  <2>2. failed' => \E g \in recorded' : args'[g] = <<>>
    BY <1>1, <1>2 DEF NamesInv
  <2> QED
    BY <1>1, <1>2, <2>1, <2>2, EntriesLast
<1>4. TypeOK'
  BY <1>1, <1>2 DEF TypeOK
<1>5. LeftOverInv'
  <2>1. pc' = "judge" => crashed' = NoFn
    BY <1>1, <1>2 DEF PhaseInv
  <2> QED
    BY <1>1, <1>2, <2>1 DEF LeftOverInv, InMap
<1>6. PhaseInv' /\ SeedsAreRecorded'
  <2>1. PhaseInv'
    BY <1>1, <1>2 DEF PhaseInv, PartOfBlacklist
  <2>2. seeds' = {} /\ pc' # "done"
    BY <1>1, <1>2 DEF PhaseInv
  <2> QED
    BY <2>1, <2>2 DEF SeedsAreRecorded
<1> QED
  BY <1>3, <1>4, <1>5, <1>6 DEF IInv

(* A call that is not recorded changes nothing.                            *)
LEMMA PlainCallStep ==
  ASSUME IInv, NEW f \in Fn, PlainCall(f)
  PROVE  IInv'
<1>1. TypeOK /\ ChainInv /\ EntriesInv /\ NamesInv /\ LeftOverInv /\ PhaseInv
  BY DEF IInv
<1>2. /\ pc = "run" /\ ~ShouldRecord(f) /\ called' = called \cup {f} /\ pc' = pc
      /\ arg_map' = arg_map /\ ahArgOffset' = ahArgOffset /\ recorded' = recorded
      /\ args' = args /\ order' = order /\ failed' = failed /\ crashed' = crashed
      /\ blacklist' = blacklist
      /\ targetNames' = targetNames /\ amountOfTargets' = amountOfTargets /\ seeds' = seeds
  BY DEF PlainCall, fuzzerVars, mapVars
<1>3. ChainInv' /\ EntriesInv' /\ NamesInv'
  <2>1. recorded' \cap blacklist' = {} /\ (failed' => \E g \in recorded' : args'[g] = <<>>)
    BY <1>1, <1>2 DEF NamesInv
  <2> QED
    BY <1>1, <1>2, <2>1, EntriesLast
<1>4. TypeOK' /\ LeftOverInv'
  BY <1>1, <1>2 DEF TypeOK, LeftOverInv, InMap
<1>5. PhaseInv' /\ SeedsAreRecorded'
  <2>1. PhaseInv'
    BY <1>1, <1>2 DEF PhaseInv, PartOfBlacklist, ShouldRecord
  <2>2. seeds' = {} /\ pc' # "done"
    BY <1>1, <1>2 DEF PhaseInv
  <2> QED
    BY <2>1, <2>2 DEF SeedsAreRecorded
<1> QED
  BY <1>3, <1>4, <1>5 DEF IInv
-----------------------------------------------------------------------------
(* The steps of get_seeds_from_runtime.                                    *)

(* The first of the entries that a loop looks for.                         *)
LEMMA FirstOf ==
  ASSUME NEW S \in SUBSET Nat, S # {}
  PROVE  First(S) \in S /\ \A j \in S : First(S) <= j
BY ZenonT(30), LeastElement DEF First

(* A process that has just been started has no entries.                    *)
LEMMA NoEntries ==
  /\ order = <<>> /\ ahArgOffset = 0 /\ recorded = {} /\ args = [f \in Fn |-> <<>>]
  /\ failed = FALSE
  => ChainInv /\ EntriesInv /\ NamesInv
<1> SUFFICES ASSUME order = <<>>, ahArgOffset = 0, recorded = {}, args = [f \in Fn |-> <<>>],
                    failed = FALSE
             PROVE  ChainInv /\ EntriesInv /\ NamesInv
  OBVIOUS
<1>1. Len(order) = 0 /\ 1 .. Len(order) = {}
  OBVIOUS
<1>2. ChainInv
  <2>1. \A k \in 1 .. Len(order) + 1 : k = 1 /\ Start(k) = 0
    BY <1>1 DEF Start
  <2>2. 0 * EntrySize = 0
    BY Sizes
  <2> QED
    BY <1>1, <2>1, <2>2 DEF ChainInv
<1>3. EntriesInv
  BY <1>1 DEF EntriesInv
<1>4. NamesInv
  BY <1>1 DEF NamesInv
<1> QED
  BY <1>2, <1>3, <1>4

(* What is blacklisted is read from the map, and the map is cleared as far *)
(* as the walk of the next attempt will go.                                *)
LEMMA BlameStep ==
  ASSUME IInv, Blame
  PROVE  IInv'
<1>1. TypeOK /\ PhaseInv
  BY DEF IInv
<1>2. /\ pc = "judge" /\ (\E c \in Culprits : blacklist' = blacklist \cup {c})
      /\ amountOfTargets' = amountOfTargets - 1 /\ arg_map' = Cleared /\ pc' = "run"
      /\ targetNames' = targetNames /\ seeds' = seeds
      /\ ahArgOffset' = 0 /\ recorded' = {} /\ crashed' = NoFn /\ failed' = FALSE
      /\ called' = {} /\ args' = [f \in Fn |-> <<>>] /\ order' = <<>>
  BY DEF Blame, FreshProcess
<1>3. amountOfTargets \in Nat /\ Len(targetNames) \in Nat /\ amountOfTargets <= Len(targetNames)
      /\ arg_map \in [Cell -> Fn \cup Nat]
  BY <1>1 DEF TypeOK
<1>4. PICK c \in Culprits : blacklist' = blacklist \cup {c}
  BY <1>2
<1>5. ASSUME Empty # {}
      PROVE  c \in Fn \cup Nat /\ 1 .. amountOfTargets # {}
  <2>1. Empty \in SUBSET Nat
    BY <1>3 DEF Empty
  <2>2. First(Empty) \in Empty
    BY <1>5, <2>1, FirstOf
  <2>3. First(Empty) \in 1 .. amountOfTargets /\ InMap(Entries[First(Empty)] + 1)
    BY <2>2 DEF Empty
  <2> DEFINE e == Entries[First(Empty)]
  <2>4. e \in Nat
    BY <1>1, <2>3, WalkForward
  <2>5. e \in Cell
    <3> HIDE DEF e
    <3>1. e + 1 \in Int /\ e <= e + 1
      BY <2>4
    <3>2. InMap(e + 1)
      BY <2>3 DEF e
    <3> QED
      BY <1>1, <2>4, <3>1, <3>2, Below
  <2>6. c = arg_map[e]
    BY <1>5 DEF Culprits
  <2>7. c \in Fn \cup Nat
    BY <1>3, <2>5, <2>6
  <2> QED
    BY <2>3, <2>7
<1>6. ASSUME Empty = {}
      PROVE  c \in Fn \cup Nat /\ 1 .. amountOfTargets # {}
  <2>1. Astray /\ c \in Fn \cup {Zero}
    BY <1>6 DEF Culprits
  <2> QED
    BY <2>1 DEF Astray, Zero
<1>7. c \in Fn \cup Nat /\ amountOfTargets - 1 \in Nat /\ amountOfTargets - 1 < Len(targetNames)
  <2>1. c \in Fn \cup Nat /\ 1 .. amountOfTargets # {}
    BY <1>5, <1>6
  <2> QED
    BY <1>3, <2>1
<1>8. arg_map' = [i \in Cell |-> IF i < (amountOfTargets - 1) * EntrySize THEN 0 ELSE arg_map[i]]
  BY <1>2 DEF Cleared, Zero
<1>9. TypeOK'
  <2>1. arg_map' \in [Cell -> Fn \cup Nat]
    BY <1>3, <1>8
  <2>2. amountOfTargets' \in 0 .. Len(targetNames')
    BY <1>2, <1>3, <1>7
  <2>3. blacklist' \subseteq Fn \cup Nat
    BY <1>1, <1>4, <1>7 DEF TypeOK
  <2>4. args' \in [Fn -> Seq(Nat)] /\ order' \in Seq(Cell)
    BY <1>2
  <2> QED
    BY ZenonT(40), <1>1, <1>2, <2>1, <2>2, <2>3, <2>4 DEF TypeOK
<1>10. ChainInv' /\ EntriesInv' /\ NamesInv'
  <2>1. (/\ order = <<>> /\ ahArgOffset = 0 /\ recorded = {} /\ args = [f \in Fn |-> <<>>]
            /\ failed = FALSE
         => ChainInv /\ EntriesInv /\ NamesInv)'
    BY NoEntries, PTL
  <2> QED
    BY <1>2, <2>1
<1>11. LeftOverInv'
  <2>1. \A i \in Cell : i < amountOfTargets' * EntrySize => arg_map'[i] = 0
    BY <1>2, <1>8
  <2> QED
    BY <1>2, <2>1 DEF LeftOverInv
<1>12. PhaseInv' /\ SeedsAreRecorded'
  <2>1. amountOfTargets' # Len(targetNames')
    BY <1>2, <1>3, <1>7
  <2>2. seeds' = {} /\ pc' = "run" /\ crashed' = NoFn /\ called' = {}
    BY <1>1, <1>2 DEF PhaseInv
  <2>3. PhaseInv'
    BY <2>1, <2>2 DEF PhaseInv
  <2>4. SeedsAreRecorded'
    BY <2>1, <2>2 DEF SeedsAreRecorded
  <2> QED
    BY <2>3, <2>4
<1> QED
  BY <1>9, <1>10, <1>11, <1>12 DEF IInv

(* When every entry has a length, the first without one is that of the     *)
(* recording that crashed.                                                 *)
LEMMA CulpritCrashed ==
  ASSUME IInv, pc = "judge", crashed # NoFn, \A f \in recorded : args[f] # <<>>
  PROVE  Culprits \subseteq {crashed}
<1> DEFINE r == Len(order)
           f == First(Empty)
<1>1. TypeOK /\ ChainInv /\ EntriesInv /\ NamesInv /\ LeftOverInv
  BY DEF IInv
<1>2. amountOfTargets \in Nat /\ r \in Nat /\ ahArgOffset \in Nat /\ order \in Seq(Cell)
  BY <1>1 DEF TypeOK
<1>3. Empty \in SUBSET Nat
  BY <1>2 DEF Empty
<1>4. ~failed
  BY <1>1 DEF NamesInv
<1>5. /\ InMap(ahArgOffset + 1) /\ arg_map[ahArgOffset] = crashed
      /\ ahArgOffset + 1 < amountOfTargets * EntrySize => arg_map[ahArgOffset + 1] = 0
  BY <1>1, <1>4 DEF LeftOverInv
<1>6. \A k \in 1 .. r : arg_map[order[k] + 1] # 0
  <2> SUFFICES ASSUME NEW k \in 1 .. r, arg_map[order[k] + 1] = 0 PROVE FALSE
    OBVIOUS
  <2> DEFINE a == args[arg_map[order[k]]]
  <2>1. EntryInv(k)
    BY <1>1 DEF EntriesInv
  <2>2. a # <<>>
    BY <2>1 DEF EntryInv
  <2>3. a = [i \in 1 .. arg_map[order[k] + 1] |-> arg_map[order[k] + 1 + i]]
    BY <2>1 DEF EntryInv
  <2>4. a = [i \in 1 .. 0 |-> arg_map[order[k] + 1 + i]]
    BY <2>3
  <2> HIDE DEF a
  <2> QED
    BY <2>2, <2>4
<1>7. \A k \in Empty : k > r
  <2> SUFFICES ASSUME NEW k \in Empty, k <= r PROVE FALSE
    BY <1>2, <1>3
  <2>1. k \in 1 .. amountOfTargets /\ arg_map[Entries[k] + 1] = 0
    BY DEF Empty, Zero
  <2>2. k \in 1 .. r /\ Entries[k] = order[k]
    BY <1>1, <1>2, <2>1, WalkFindsOrder
  <2> HIDE DEF r
  <2> QED
    BY <1>6, <2>1, <2>2
<1>8. ASSUME r + 1 \in 1 .. amountOfTargets
      PROVE  Entries[r + 1] = ahArgOffset /\ r + 1 \in Empty
  <2>1. Start(r + 1) = ahArgOffset
    BY DEF Start
  <2>2. r + 1 <= Len(order) + 1 /\ InMap(Start(r + 1) + 1)
    BY <1>2, <1>5, <2>1
  <2>3. Entries[r + 1] = ahArgOffset
    BY <1>1, <1>8, <2>1, <2>2, WalkFindsEntries
  <2>4. ahArgOffset + 1 < amountOfTargets * EntrySize
    <3>1. ahArgOffset <= r * EntrySize
      BY <1>1 DEF ChainInv
    <3>2. r * EntrySize \in Nat /\ (r + 1) * EntrySize = r * EntrySize + EntrySize
      BY <1>2, Multiples
    <3>3. (r + 1) * EntrySize <= amountOfTargets * EntrySize /\ amountOfTargets * EntrySize \in Nat
      <4>1. r + 1 \in Nat /\ r + 1 <= amountOfTargets
        BY <1>2, <1>8
      <4> QED
        BY <1>2, <4>1, Multiples
    <3> HIDE DEF r
    <3> QED
      BY <1>2, <3>1, <3>2, <3>3, Sizes
  <2> QED
    BY <1>5, <1>8, <2>3, <2>4 DEF Empty, Zero
<1>9. CASE r + 1 \in 1 .. amountOfTargets
  <2>1. r + 1 \in Empty /\ Entries[r + 1] = ahArgOffset
    BY <1>8, <1>9
  <2>2. f \in Empty /\ \A j \in Empty : f <= j
    BY <1>3, <2>1, FirstOf
  <2>3. f = r + 1
    <3>1. f > r /\ f <= r + 1 /\ f \in Nat
      BY <1>3, <1>7, <2>1, <2>2
    <3> HIDE DEF f, r
    <3> QED
      BY <1>2, <3>1
  <2>4. Culprits = {arg_map[Entries[f]]}
    BY <2>1 DEF Culprits
  <2> HIDE DEF f, r
  <2> QED
    BY <1>5, <2>1, <2>3, <2>4
<1>10. CASE ~ (r + 1 \in 1 .. amountOfTargets)
  <2>1. \A k \in 1 .. amountOfTargets : k <= r
    BY <1>2, <1>10
  <2>2. Empty = {}
    <3> SUFFICES ASSUME NEW k \in Empty PROVE FALSE
      OBVIOUS
    <3>1. k \in 1 .. amountOfTargets
      BY DEF Empty
    <3> HIDE DEF r
    <3> QED
      BY <1>2, <1>7, <2>1, <3>1
  <2>3. ~Astray
    BY <1>1, <2>1, WalkFindsOrder DEF Astray
  <2> QED
    BY <2>2, <2>3 DEF Culprits
<1> QED
  BY <1>9, <1>10

(* The walk meets the entry of a target before anything else that has its  *)
(* name; it meets nothing else if no recording has failed.                 *)
LEMMA FoundIsOwn ==
  ASSUME IInv, pc = "seeds", NEW t \in Fn, ~failed \/ args[t] # <<>>, EntriesOf(t) # {}
  PROVE  Found(t) /\ SeedOf(t).tgt = t /\ SeedOf(t).args = args[t]
<1> DEFINE i == First(EntriesOf(t))
<1>1. TypeOK /\ ChainInv /\ EntriesInv /\ NamesInv /\ LeftOverInv
  BY DEF IInv
<1>2. amountOfTargets \in Nat /\ Len(order) \in Nat
  BY <1>1 DEF TypeOK
<1>3. EntriesOf(t) \in SUBSET Nat
  BY <1>2 DEF EntriesOf
<1>4. i \in EntriesOf(t) /\ \A j \in EntriesOf(t) : i <= j
  BY <1>3, FirstOf
<1>5. i \in 1 .. amountOfTargets /\ arg_map[Entries[i]] = t
  BY <1>4 DEF EntriesOf
<1>6. i <= Len(order)
  <2>1. CASE ~failed
    <3>1. t # 0
      BY Sizes
    <3>2. i > Len(order) => arg_map[Entries[i]] = 0
      BY <1>1, <1>5, <2>1, WalkKeepsToMap
    <3> HIDE DEF i
    <3> QED
      BY <1>2, <1>5, <3>1, <3>2
  <2>2. CASE args[t] # <<>>
    <3>1. PICK k \in 1 .. Len(order) : arg_map[order[k]] = t
      BY <1>1, <2>2 DEF NamesInv
    <3>2. CASE k <= amountOfTargets
      <4>1. k \in 1 .. amountOfTargets /\ k <= Len(order)
        BY <1>2, <3>2
      <4>2. Entries[k] = order[k] /\ InMap(Entries[k] + 1)
        BY <1>1, <4>1, WalkFindsOrder
      <4>3. k \in EntriesOf(t)
        BY <3>1, <4>1, <4>2 DEF EntriesOf
      <4>4. i <= k
        BY <1>4, <4>3
      <4> HIDE DEF i
      <4> QED
        BY <1>2, <1>5, <4>1, <4>4
    <3>3. CASE ~ (k <= amountOfTargets)
      <4> HIDE DEF i
      <4> QED
        BY <1>2, <1>5, <3>3
    <3> QED
      BY <3>2, <3>3
  <2> QED
    BY <2>1, <2>2
<1>7. i \in 1 .. Len(order)
  <2> HIDE DEF i
  <2> QED
    BY <1>2, <1>5, <1>6
<1>8. Entries[i] = order[i] /\ EntryInv(i) /\ InMap(order[i] + 1) /\ arg_map[order[i] + 1] \in Nat
  <2> HIDE DEF i
  <2>1. EntryInv(i)
    BY <1>1, <1>7 DEF EntriesInv
  <2>2. Entries[i] = order[i]
    BY <1>1, <1>5, <1>6, WalkFindsOrder
  <2> QED
    BY <1>1, <1>7, <2>1, <2>2, EntryInMap
<1>9. EntryOf(t) = order[i]
  BY <1>8 DEF EntryOf
<1> HIDE DEF i
<1>10. AfterEntry(order[i]) = EntryEnd(i)
  BY <1>8 DEF AfterEntry, EntryEnd
<1>11. Found(t)
  BY <1>8, <1>9, <1>10 DEF Found, EntryInv
<1>12. SeedOf(t) = [tgt  |-> t,
                    args |-> [j \in 1 .. arg_map[order[i] + 1] |-> arg_map[order[i] + 1 + j]]]
  BY <1>9 DEF SeedOf
<1>13. args[t] = [j \in 1 .. arg_map[order[i] + 1] |-> arg_map[order[i] + 1 + j]]
  BY <1>5, <1>8 DEF EntryInv
<1> QED
  BY <1>11, <1>12, <1>13

(* Where the walk is not defined a recording has failed, and the target    *)
(* has no entry.                                                           *)
LEMMA WildIsUnrecorded ==
  ASSUME IInv, pc = "seeds", NEW t \in Fn, ~Found(t), Astray \/ EntriesOf(t) # {}
  PROVE  failed /\ args[t] = <<>>
<1> SUFFICES ASSUME ~failed \/ args[t] # <<>> PROVE FALSE
  OBVIOUS
<1>1. TypeOK /\ ChainInv /\ EntriesInv /\ NamesInv /\ LeftOverInv
  BY DEF IInv
<1>2. amountOfTargets \in Nat /\ Len(order) \in Nat
  BY <1>1 DEF TypeOK
<1>3. EntriesOf(t) = {}
  BY FoundIsOwn
<1>4. PICK i \in 1 .. amountOfTargets : ~InMap(Entries[i] + 1)
  BY <1>3 DEF Astray
<1>5. ~ (i <= Len(order))
  BY <1>1, <1>4, WalkFindsOrder
<1>6. CASE ~failed
  BY <1>1, <1>4, <1>6, WalkKeepsToMap
<1>7. CASE args[t] # <<>>
  <2>1. PICK k \in 1 .. Len(order) : arg_map[order[k]] = t
    BY <1>1, <1>7 DEF NamesInv
  <2>2. k \in 1 .. amountOfTargets /\ k <= Len(order)
    BY <1>2, <1>4, <1>5
  <2>3. Entries[k] = order[k] /\ InMap(Entries[k] + 1)
    BY <1>1, <2>2, WalkFindsOrder
  <2>4. k \in EntriesOf(t)
    BY <2>1, <2>2, <2>3 DEF EntriesOf
  <2> QED
    BY <1>3, <2>4
<1> QED
  BY <1>6, <1>7

(* What is found is made of cells of the map.                              *)
LEMMA SeedType ==
  ASSUME TypeOK, NEW t \in Fn, Found(t)
  PROVE  SeedOf(t).tgt = t /\ SeedOf(t).args \in Seq(Fn \cup Nat)
<1> DEFINE i == First(EntriesOf(t))
           e == EntryOf(t)
           l == arg_map[e + 1]
<1>1. EntriesOf(t) # {} /\ l \in Nat /\ InMap(AfterEntry(e) - 1)
  BY DEF Found
<1>2. EntriesOf(t) \in SUBSET Nat
  BY DEF EntriesOf, TypeOK
<1>3. i \in EntriesOf(t)
  BY <1>1, <1>2, FirstOf
<1>4. i \in 1 .. amountOfTargets /\ InMap(e + 1)
  BY <1>3 DEF EntriesOf, EntryOf
<1>5. e \in Nat
  BY <1>4, WalkForward DEF EntryOf
<1>6. AfterEntry(e) = e + 2 + l
  BY <1>1, <1>4 DEF AfterEntry
<1>7. \A j \in 1 .. l : arg_map[e + 1 + j] \in Fn \cup Nat
  <2> TAKE j \in 1 .. l
  <2> HIDE DEF e, l
  <2>1. (e + 2 + l) - 1 \in Int /\ e + 1 + j \in Nat /\ e + 1 + j <= (e + 2 + l) - 1
    BY <1>1, <1>5
  <2>2. e + 1 + j \in Cell
    BY <1>1, <1>6, <2>1, Below
  <2> QED
    BY <2>2 DEF TypeOK
<1>8. SeedOf(t) = [tgt |-> t, args |-> [j \in 1 .. l |-> arg_map[e + 1 + j]]]
  BY DEF SeedOf
<1> HIDE DEF e, l
<1>9. [j \in 1 .. l |-> arg_map[e + 1 + j]] \in Seq(Fn \cup Nat)
  BY <1>1, <1>7
<1> QED
  BY <1>8, <1>9

(* Without a crash there are not more entries than targets.                *)
LEMMA EntriesAreTargets ==
  ASSUME IInv, amountOfTargets = Len(targetNames), Len(TypeInfo) <= MAX_TARGETS
  PROVE  Len(order) <= amountOfTargets
<1> DEFINE S == Allowed(blacklist)
           Index(f) == CHOOSE i \in DOMAIN TypeInfo : TypeInfo[i] = f
           c == [k \in 1 .. Len(order) |-> Index(arg_map[order[k]])]
<1>1. TypeOK /\ EntriesInv /\ NamesInv /\ PhaseInv
  BY DEF IInv
<1>2. targetNames = GetTargets(blacklist) /\ Len(order) \in Nat
  BY <1>1 DEF PhaseInv, TypeOK
<1>3. /\ Len(targetNames) = Amount(blacklist) /\ IsFiniteSet(S) /\ Cardinality(S) \in Nat
      /\ Cardinality(S) <= Len(TypeInfo)
  BY <1>2, TargetNames
<1>4. amountOfTargets = Cardinality(S)
  <2>1. Len(TypeInfo) \in Nat /\ MAX_TARGETS \in Nat
    BY TypeInfoAssumption, BoundsAssumption
  <2> QED
    BY <1>3, <2>1 DEF Amount
<1>5. \A k \in 1 .. Len(order) : arg_map[order[k]] \in Fn /\ arg_map[order[k]] \notin blacklist
  <2> TAKE k \in 1 .. Len(order)
  <2>1. arg_map[order[k]] \in recorded
    BY ZenonT(40), <1>1 DEF EntriesInv, EntryInv
  <2> QED
    BY <1>1, <2>1 DEF NamesInv, TypeOK
<1>6. \A k \in 1 .. Len(order) : c[k] \in S /\ TypeInfo[c[k]] = arg_map[order[k]]
  <2> TAKE k \in 1 .. Len(order)
  <2> DEFINE f == arg_map[order[k]]
  <2>1. f \in Fn /\ f \notin blacklist
    BY <1>5
  <2>2. \E i \in DOMAIN TypeInfo : TypeInfo[i] = f
    BY <2>1 DEF Fn, Range
  <2>3. Index(f) \in DOMAIN TypeInfo /\ TypeInfo[Index(f)] = f
    BY <2>2
  <2>4. c[k] = Index(f)
    OBVIOUS
  <2> HIDE DEF c, Index, f
  <2>5. Index(f) \in S
    BY <2>1, <2>3 DEF Allowed
  <2> QED
    BY <2>3, <2>4, <2>5 DEF f
<1>7. c \in Injection(1 .. Len(order), S)
  <2>1. c \in [1 .. Len(order) -> S]
    BY <1>6
  <2>2. \A j, k \in 1 .. Len(order) : c[j] = c[k] => j = k
    <3> HIDE DEF c
    <3> QED
      BY <1>1, <1>6 DEF NamesInv
  <2> QED
    BY <2>1, <2>2 DEF Injection, IsInjective
<1>8. Cardinality(1 .. Len(order)) = Len(order)
  <2>1. \A n \in Nat : Cardinality(1 .. n) = IF 1 > n THEN 0 ELSE n - 1 + 1
    BY FS_Interval
  <2> QED
    BY <1>2, <2>1
<1>9. Cardinality(1 .. Len(order)) <= Cardinality(S)
  <2> HIDE DEF c, S
  <2> QED
    BY <1>3, <1>7, FS_Injection
<1> QED
  BY <1>4, <1>8, <1>9

(* The seeds are the arguments of the process that has ended.              *)
LEMMA CollectStep ==
  ASSUME IInv, CollectSeeds
  PROVE  IInv'
<1> DEFINE known == {targetNames[i] : i \in 1 .. amountOfTargets}
           found == {t \in known : Found(t)}
           wild == {t \in known \ found : Astray \/ EntriesOf(t) # {}}
<1>1. TypeOK /\ ChainInv /\ EntriesInv /\ NamesInv /\ LeftOverInv /\ PhaseInv
  BY DEF IInv
<1>2. /\ pc = "seeds" /\ pc' \in {"done", "fatal"}
      /\ \E W \in SUBSET wild :
           seeds' = {s \in {SeedOf(t) : t \in found} : s.args # <<>>} \cup {WildSeed(t) : t \in W}
      /\ arg_map' = arg_map /\ ahArgOffset' = ahArgOffset /\ recorded' = recorded
      /\ args' = args /\ order' = order /\ failed' = failed /\ crashed' = crashed
      /\ called' = called /\ blacklist' = blacklist
      /\ targetNames' = targetNames /\ amountOfTargets' = amountOfTargets
  BY DEF CollectSeeds, mapVars, historyVars
<1>3. amountOfTargets \in Nat /\ targetNames \in Seq(Fn) /\ amountOfTargets <= Len(targetNames)
      /\ args \in [Fn -> Seq(Nat)] /\ Len(order) \in Nat /\ order \in Seq(Cell)
  BY <1>1 DEF TypeOK
<1>4. PICK W \in SUBSET wild :
        seeds' = {s \in {SeedOf(t) : t \in found} : s.args # <<>>} \cup {WildSeed(t) : t \in W}
  BY <1>2
<1>5. known \subseteq Fn
  <2>1. \A i \in 1 .. amountOfTargets : i \in 1 .. Len(targetNames)
    BY <1>3
  <2> QED
    BY <1>3, <2>1
<1>6. \A t \in found : t \in Fn /\ SeedOf(t).tgt = t /\ SeedOf(t).args \in Seq(Fn \cup Nat)
  BY <1>1, <1>5, SeedType
<1>7. \A t \in found : ~failed \/ args[t] # <<>> => SeedOf(t).args = args[t]
  <2> SUFFICES ASSUME NEW t \in found, ~failed \/ args[t] # <<>> PROVE SeedOf(t).args = args[t]
    OBVIOUS
  <2>1. t \in Fn /\ EntriesOf(t) # {}
    BY <1>5 DEF Found
  <2> QED
    BY <1>2, <2>1, FoundIsOwn
<1>8. \A t \in W : t \in Fn /\ failed /\ args[t] = <<>>
  <2> TAKE t \in W
  <2>1. t \in Fn /\ ~Found(t) /\ (Astray \/ EntriesOf(t) # {})
    BY <1>5
  <2> QED
    BY <1>2, <2>1, WildIsUnrecorded
<1>9. \A t : WildSeed(t).tgt = t /\ WildSeed(t).args \in Seq(Fn \cup Nat)
  <2>1. <<Zero>> \in Seq(Fn \cup Nat)
    BY DEF Zero
  <2> QED
    BY <2>1 DEF WildSeed
<1>10. \A s \in seeds' : (\E t \in found : s = SeedOf(t)) \/ (\E t \in W : s = WildSeed(t))
  <2> HIDE DEF found
  <2> QED
    BY <1>4
<1> HIDE DEF wild
<1>11. \A s \in seeds' : s.tgt \in Fn /\ s.args \in Seq(Fn \cup Nat)
  <2> TAKE s \in seeds'
  <2>1. CASE \E t \in found : s = SeedOf(t)
    <3> HIDE DEF found
    <3> QED
      BY <1>6, <2>1
  <2>2. CASE \E t \in W : s = WildSeed(t)
    BY ZenonT(30), <1>8, <1>9, <2>2
  <2> QED
    BY <1>10, <2>1, <2>2
<1>12. \A s \in seeds' : ~failed \/ args[s.tgt] # <<>> => s.args = args[s.tgt]
  <2> TAKE s \in seeds'
  <2>1. CASE \E t \in found : s = SeedOf(t)
    <3> HIDE DEF found
    <3> QED
      BY <1>6, <1>7, <2>1
  <2>2. CASE \E t \in W : s = WildSeed(t)
    BY ZenonT(30), <1>8, <1>9, <2>2
  <2> QED
    BY <1>10, <2>1, <2>2
<1>13. TypeOK'
  <2> HIDE DEF found
  <2> QED
    BY <1>1, <1>2, <1>11 DEF TypeOK
<1>14. ChainInv' /\ EntriesInv' /\ NamesInv'
  <2>1. recorded' \cap blacklist' = {} /\ (failed' => \E g \in recorded' : args'[g] = <<>>)
    BY ZenonT(30), <1>1, <1>2 DEF NamesInv
  <2> HIDE DEF found
  <2> QED
    BY <1>1, <1>2, <2>1, EntriesLast
<1>15. LeftOverInv' /\ PhaseInv'
  <2>1. pc' # "run" /\ pc' # "seeds" /\ pc' # "judge"
    BY <1>2
  <2> HIDE DEF found
  <2> QED
    BY ZenonT(40), <1>1, <1>2, <2>1 DEF LeftOverInv, PhaseInv, PartOfBlacklist
<1>16. ASSUME amountOfTargets = Len(targetNames), Len(TypeInfo) <= MAX_TARGETS,
              NEW t \in called \cap Range(targetNames),
              ~ (t \in recorded /\ args[t] = <<>>), ~PartOfBlacklist(t)
       PROVE  \E s \in seeds' : s.tgt = t
  <2>1. t \in Fn /\ t \in known
    BY <1>3, <1>5, <1>16 DEF Range
  <2>2. args[t] # <<>>
    BY <1>1, <1>2, <1>16 DEF PhaseInv
  <2>3. PICK k \in 1 .. Len(order) : arg_map[order[k]] = t
    BY <1>1, <2>1, <2>2 DEF NamesInv
  <2>4. Len(order) <= amountOfTargets
    BY <1>16, EntriesAreTargets
  <2>5. k \in 1 .. amountOfTargets /\ k <= Len(order)
    BY <1>3, <2>4
  <2>6. Entries[k] = order[k] /\ InMap(Entries[k] + 1)
    BY <1>1, <2>5, WalkFindsOrder
  <2>7. k \in EntriesOf(t)
    BY <2>3, <2>5, <2>6 DEF EntriesOf
  <2>8. Found(t) /\ SeedOf(t).tgt = t /\ SeedOf(t).args # <<>>
    BY <1>2, <2>1, <2>2, <2>7, FoundIsOwn
  <2>9. t \in found
    BY <2>1, <2>8
  <2>10. SeedOf(t) \in seeds'
    <3> HIDE DEF found
    <3> QED
      BY <1>4, <2>8, <2>9
  <2> QED
    BY <2>8, <2>10
<1>17. SeedsAreRecorded'
  <2>1. \A t : PartOfBlacklist(t)' = PartOfBlacklist(t)
    BY <1>2 DEF PartOfBlacklist
  <2>2. \A t \in called' \cap Range(targetNames') :
          \/ amountOfTargets' # Len(targetNames') \/ ~ (Len(TypeInfo) <= MAX_TARGETS)
          \/ HasSeed(t)' \/ (t \in recorded' /\ args'[t] = <<>>) \/ PartOfBlacklist(t)'
    <3> HIDE DEF found
    <3> QED
      BY <1>2, <1>16, <2>1 DEF HasSeed
  <2>3. \A s \in seeds' : ~failed' \/ args'[s.tgt] # <<>> => s.args = args'[s.tgt]
    <3> HIDE DEF found
    <3> QED
      BY ZenonT(30), <1>2, <1>12
  <2> HIDE DEF found
  <2> QED
    BY <2>2, <2>3 DEF SeedsAreRecorded
<1> QED
  BY <1>13, <1>14, <1>15, <1>17 DEF IInv
-----------------------------------------------------------------------------
(* The theorems.                                                           *)

(* get_targets, with a map that holds nothing.                             *)
LEMMA InitInv == Init => IInv
<1> SUFFICES ASSUME Init PROVE IInv
  OBVIOUS
<1>1. /\ blacklist \subseteq Fn /\ targetNames = GetTargets(blacklist)
      /\ amountOfTargets = Len(targetNames) /\ pc \in {"fatal", "run"}
      /\ arg_map = EmptyMap /\ ahArgOffset = 0 /\ recorded = {} /\ seeds = {}
      /\ called = {} /\ args = [f \in Fn |-> <<>>] /\ order = <<>> /\ failed = FALSE
      /\ crashed = NoFn
  BY DEF Init
<1>2. targetNames \in Seq(Fn) /\ Len(targetNames) \in Nat /\ Len(targetNames) <= MAX_TARGETS
  <2>1. Cardinality(Allowed(blacklist)) \in Nat /\ MAX_TARGETS \in Nat
    BY TargetNames, BoundsAssumption
  <2>2. Amount(blacklist) <= MAX_TARGETS
    BY <2>1 DEF Amount
  <2> QED
    BY <1>1, <2>2, TargetNames
<1>3. arg_map = [i \in Cell |-> 0]
  BY <1>1 DEF EmptyMap, Zero
<1>4. TypeOK
  <2>1. args \in [Fn -> Seq(Nat)] /\ order \in Seq(Cell)
    BY <1>1
  <2>2. arg_map \in [Cell -> Fn \cup Nat]
    BY <1>3
  <2>3. amountOfTargets \in 0 .. Len(targetNames)
    BY <1>1, <1>2
  <2> QED
    BY ZenonT(40), <1>1, <1>2, <2>1, <2>2, <2>3 DEF TypeOK
<1>5. ChainInv /\ EntriesInv /\ NamesInv
  BY <1>1, NoEntries
<1>6. LeftOverInv
  BY <1>1, <1>3 DEF LeftOverInv
<1>7. PhaseInv /\ SeedsAreRecorded
  BY <1>1 DEF PhaseInv, SeedsAreRecorded
<1> QED
  BY <1>4, <1>5, <1>6, <1>7 DEF IInv

(* Every step preserves the invariant.                                     *)
LEMMA NextInv == IInv /\ [Next]_vars => IInv'
<1> SUFFICES ASSUME IInv, [Next]_vars PROVE IInv'
  OBVIOUS
<1>1. ASSUME NEW f \in Fn, NEW n \in ArgCells[f], NEW d \in Data[f], RecordOk(f, n, d)
      PROVE  IInv'
  BY <1>1, RecordOkStep
<1>2. ASSUME NEW f \in Fn, NEW n \in ArgCells[f], NEW d \in Data[f], RecordFails(f, n, d)
      PROVE  IInv'
  BY <1>2, RecordFailsStep
<1>3. ASSUME NEW f \in Fn, NEW n \in ArgCells[f], NEW d \in Data[f], RecordCrashes(f, n, d)
      PROVE  IInv'
  BY <1>3, RecordCrashesStep
<1>4. CASE HostCrashes \/ HostEnds \/ TimedOut \/ GiveUp
  BY <1>4, EndStep
<1>5. CASE Blame
  BY <1>5, BlameStep
<1>6. CASE CollectSeeds
  BY <1>6, CollectStep
<1>7. ASSUME NEW f \in Fn, PlainCall(f) PROVE IInv'
  BY <1>7, PlainCallStep
<1>8. CASE UNCHANGED vars
  <2>1. UNCHANGED <<pc, arg_map, ahArgOffset, recorded, blacklist, targetNames,
                    amountOfTargets, seeds, called, args, order, failed, crashed>>
    BY <1>8 DEF vars
  <2>2. TypeOK' /\ PhaseInv' /\ LeftOverInv'
    BY <2>1 DEF IInv, TypeOK, PhaseInv, LeftOverInv, PartOfBlacklist, InMap
  <2>3. ChainInv' /\ EntriesInv' /\ NamesInv'
    <3>1. /\ recorded' \cap blacklist' = {} /\ TypeOK /\ ChainInv /\ EntriesInv /\ NamesInv
          /\ failed' => \E g \in recorded' : args'[g] = <<>>
      BY <2>1 DEF IInv, NamesInv
    <3> QED
      BY <2>1, <3>1, EntriesLast
  <2>4. SeedsAreRecorded'
    BY <2>1 DEF IInv, SeedsAreRecorded, HasSeed, PartOfBlacklist
  <2> QED
    BY <2>2, <2>3, <2>4 DEF IInv
<1> QED
  BY <1>1, <1>2, <1>3, <1>4, <1>5, <1>6, <1>7, <1>8 DEF Next, Process, Fuzzer, Over

(* The invariant of a recording: where the entries are, what else is in    *)
(* the map that gen_values fills, and what becomes of it.                  *)
THEOREM Invariant == Spec => []IInv
BY InitInv, NextInv, PTL DEF Spec

(* Every variable keeps to its type, wherever the walk of                  *)
(* get_seeds_from_runtime may lead: there are never more names than their  *)
(* array has room for, and the unsigned count of targets is not            *)
(* decremented past zero.                                                  *)
THEOREM Types == Spec => []TypeOK
<1>1. IInv => TypeOK
  BY DEF IInv
<1> QED
  BY <1>1, Invariant, PTL

(* Whatever failed recordings and earlier attempts have left in the map,   *)
(* and whatever numbers they are, the seed that get_seeds_from_runtime     *)
(* makes for a target that was recorded holds exactly the arguments of     *)
(* that call, and only after a failed recording is there a seed for one    *)
(* that was not; if no function was blacklisted on the way, a target that  *)
(* was called lacks a seed only for one of the three reasons given.        *)
THEOREM SeedsAreTheArguments == Spec => []SeedsAreRecorded
<1>1. IInv => SeedsAreRecorded
  BY DEF IInv
<1> QED
  BY <1>1, Invariant, PTL

(* After a crash inside a recording, when every recording before it has    *)
(* left arguments, get_seeds_from_runtime blacklists the function that was *)
(* being recorded, and it alone.                                           *)
THEOREM BlameIsRight == Spec => CrashIsBlamed
<1>1. ASSUME IInv, [Next]_vars, amountOfTargets' # amountOfTargets, crashed # NoFn,
             \A f \in recorded : args[f] # <<>>
      PROVE  blacklist' = blacklist \cup {crashed}
  <2>1. Blame
    BY ZenonT(30), <1>1 DEF Next, Process, Fuzzer, Over, vars, fuzzerVars, RecordOk, RecordFails,
                RecordCrashes, PlainCall, HostCrashes, HostEnds, TimedOut, GiveUp, CollectSeeds
  <2>2. pc = "judge" /\ \E c \in Culprits : blacklist' = blacklist \cup {c}
    BY <2>1 DEF Blame
  <2>3. Culprits \subseteq {crashed}
    BY <1>1, <2>2, CulpritCrashed
  <2> QED
    BY <2>2, <2>3
<1>2. IInv /\ [Next]_vars =>
        [amountOfTargets' # amountOfTargets /\ crashed # NoFn /\ (\A f \in recorded : args[f] # <<>>)
           => blacklist' = blacklist \cup {crashed}]_vars
  BY <1>1
<1> QED
  BY <1>2, Invariant, PTL DEF Spec, CrashIsBlamed
=============================================================================
