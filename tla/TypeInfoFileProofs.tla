------------------------- MODULE TypeInfoFileProofs -------------------------
(***************************************************************************)
(* Proofs about TypeInfoFile, for any number of compilers and targets and  *)
(* any deaths among them.                                                  *)
(***************************************************************************)
EXTENDS TypeInfoFile, TLAPS

(* Unless a step says otherwise: Zenon for a moment, SMT, Zenon.           *)
USE ZenonT(2), SMTT(30), ZenonT(30)

(* A file in which every entry names a type that is its own.               *)
Sound(F) ==
  \A t \in Target :
    F.targets[t] # NoEntry =>
      /\ F.targets[t].by \in Compiler
      /\ F.targets[t].type \in 1 .. Len(F.types)
      /\ F.types[F.targets[t].type] = <<F.targets[t].by, ArgType[F.targets[t].by][t]>>

(* The numbers c remembers are those of its own types in F.                *)
Remembers(c, F) ==
  \A y \in Type :
    typeNames[c][y] # 0 =>
      typeNames[c][y] \in 1 .. Len(F.types) /\ F.types[typeNames[c][y]] = <<c, y>>

(* G has all entries of F.                                                 *)
Extends(G, F) == \A t \in Target : F.targets[t] # NoEntry => G.targets[t] = F.targets[t]

(* Whoever is inside made the lock file; the file is torn only while the   *)
(* one who made it writes, or once it has died; a copy that is about to be *)
(* written back holds everything that was in the file, and the numbers     *)
(* that a living compiler remembers are right in what it will write.       *)
Lock ==
  /\ \A c \in Compiler : Inside(c) => lockFile = c
  /\ torn => lockFile # NoCompiler /\ pc[lockFile] \in {"write", "dead"}
Copy(c) ==
  /\ pc[c] = "describe" => output[c] = described /\ described.targets[cur[c]] = NoEntry
  /\ pc[c] = "write" => /\ Sound(output[c]) /\ Extends(output[c], described)
                        /\ Remembers(c, output[c])
                        /\ Len(described.types) <= Len(output[c].types)
                        /\ \A i \in 1 .. Len(described.types) :
                             output[c].types[i] = described.types[i]
  /\ pc[c] \notin {"write", "dead"} => Remembers(c, described)
IInv ==
  /\ TypeOK /\ Lock
  /\ Sound(described) /\ (~torn => file = described)
  /\ \A c \in Compiler : Copy(c)

(* The initial state: no lock file and no entries.                         *)
LEMMA InitEstablishes == Init => IInv
<1> SUFFICES ASSUME Init PROVE IInv
  OBVIOUS
<1>1. NoFile \in File
  <2>1. NoEntry \in Entry
    BY DEF NoEntry, Entry
  <2> QED
    BY <2>1 DEF NoFile, File
<1>2. TypeOK
  <2>1. output \in [Compiler -> File] /\ typeNames \in [Compiler -> [Type -> Nat]]
    BY <1>1 DEF Init
  <2> QED
    BY <1>1, <2>1, ModuleAssumption DEF Init, TypeOK
<1>3. \A c \in Compiler : pc[c] = "next" /\ \A y \in Type : typeNames[c][y] = 0
  BY DEF Init
<1>4. Lock /\ \A c \in Compiler : Copy(c)
  BY <1>3 DEF Init, Lock, Copy, Inside, Remembers
<1>5. Sound(described)
  BY DEF Init, Sound, NoFile
<1> QED
  BY <1>2, <1>4, <1>5 DEF Init, IInv

(* A step that leaves the file, the copies and the numbers alone, and      *)
(* takes no compiler to where its copy counts, keeps what is known of them.*)
LEMMA Unmoved ==
  ASSUME IInv, TypeOK', Lock',
         UNCHANGED <<typeNames, output, torn, file, described>>,
         \A c \in Compiler : pc'[c] \in {"describe", "write"} =>
                               pc'[c] = pc[c] /\ cur'[c] = cur[c],
         \A c \in Compiler : pc[c] \in {"write", "dead"} => pc'[c] \in {"write", "dead"}
  PROVE  IInv'
<1>1. Sound(described)' /\ (~torn => file = described)'
  BY DEF IInv, Sound
<1>2. ASSUME NEW c \in Compiler PROVE Copy(c)'
  <2>1. Copy(c)
    BY DEF IInv
  <2> QED
    BY <1>2, <2>1 DEF Copy, Sound, Extends, Remembers
<1> QED
  BY <1>1, <1>2 DEF IInv

(* Choosing the next target touches nothing but the compiler's own state.  *)
LEMMA NextTargetPreserves ==
  ASSUME NEW c \in Compiler, IInv, NextTarget(c) PROVE IInv'
<1>1. TypeOK'
  BY DEF IInv, TypeOK, NextTarget, Goto
<1>2. Lock'
  BY DEF IInv, TypeOK, Lock, Inside, NextTarget, Goto
<1> QED
  BY <1>1, <1>2, Unmoved DEF NextTarget, Goto, IInv, TypeOK

(* Acquiring the lock: nobody was inside, for nobody had the lock file.    *)
LEMMA AcquirePreserves ==
  ASSUME NEW c \in Compiler, IInv, Acquire(c) PROVE IInv'
<1>1. TypeOK'
  BY DEF IInv, TypeOK, Acquire, Goto
<1>2. Lock'
  BY CompilerAssumption DEF IInv, TypeOK, Lock, Inside, Acquire, Goto
<1> QED
  BY <1>1, <1>2, Unmoved DEF Acquire, Goto, IInv, TypeOK

(* Releasing the lock, with a whole file.                                  *)
LEMMA UnlockPreserves ==
  ASSUME NEW c \in Compiler, IInv, Unlock(c) PROVE IInv'
<1>1. TypeOK'
  BY DEF IInv, TypeOK, Unlock, Goto
<1>2. Lock'
  BY CompilerAssumption DEF IInv, TypeOK, Lock, Inside, Unlock, Goto
<1> QED
  BY <1>1, <1>2, Unmoved DEF Unlock, Goto, IInv, TypeOK

(* Dying: the lock file, if any, stays, and keeps the others out.          *)
LEMMA DiePreserves ==
  ASSUME NEW c \in Compiler, IInv, Die(c) PROVE IInv'
<1>1. TypeOK'
  BY DEF IInv, TypeOK, Die, Goto
<1>2. Lock'
  BY DEF IInv, TypeOK, Lock, Inside, Die, Goto
<1> QED
  BY <1>1, <1>2, Unmoved DEF Die, Goto, IInv, TypeOK

(* Reading: the file is whole, so that the copy is what was written last.  *)
LEMMA ReadPreserves ==
  ASSUME NEW c \in Compiler, IInv, Read(c) PROVE IInv'
<1>1. ~torn /\ file = described
  BY CompilerAssumption DEF IInv, TypeOK, Lock, Inside, Read
<1>2. TypeOK'
  BY DEF IInv, TypeOK, Read, Goto
<1>3. Lock'
  BY <1>1 DEF IInv, TypeOK, Lock, Inside, Read, Goto
<1>4. Sound(described)' /\ (~torn => file = described)'
  BY DEF IInv, Sound, Read
<1>5. described.targets[cur[c]].by = NoCompiler => described.targets[cur[c]] = NoEntry
  BY CompilerAssumption DEF IInv, TypeOK, Sound
<1>6. ASSUME NEW d \in Compiler PROVE Copy(d)'
  <2>1. Copy(d)
    BY DEF IInv
  <2>2. CASE d = c
    BY <1>1, <1>5, <2>1, <2>2 DEF Copy, Read, Goto, Remembers, IInv, TypeOK
  <2>3. CASE d # c
    BY <2>1, <2>3 DEF Copy, Sound, Extends, Remembers, Read, Goto, IInv, TypeOK
  <2> QED
    BY <2>2, <2>3
<1> QED
  BY <1>2, <1>3, <1>4, <1>6 DEF IInv

(* What registerType does to the types of a file in which c remembers its  *)
(* own: the name that is returned is a name of y, and no other changes.    *)
LEMMA Registered ==
  ASSUME NEW c \in Compiler, NEW y \in Type, NEW F \in File,
         typeNames \in [Compiler -> [Type -> Nat]], Remembers(c, F)
  PROVE  LET n == TypeName(c, y, F.types)
             T == RegisterType(c, y, F.types)
         IN  /\ T \in Seq(Compiler \X Type) /\ n \in 1 .. Len(T) /\ T[n] = <<c, y>>
             /\ Len(F.types) <= Len(T)
             /\ \A i \in 1 .. Len(F.types) : T[i] = F.types[i]
<1>1. F.types \in Seq(Compiler \X Type) /\ <<c, y>> \in Compiler \X Type
  BY DEF File
<1>2. DOMAIN F.types = 1 .. Len(F.types) /\ Len(F.types) \in Nat
  BY <1>1
<1>3. CASE typeNames[c][y] # 0
  <2>1. typeNames[c][y] \in 1 .. Len(F.types) /\ F.types[typeNames[c][y]] = <<c, y>>
    BY <1>3 DEF Remembers
  <2>2. TypeName(c, y, F.types) = typeNames[c][y]
    BY <1>3 DEF TypeName
  <2>3. RegisterType(c, y, F.types) = F.types
    BY <1>2, <2>1, <2>2 DEF RegisterType
  <2>4. Len(F.types) <= Len(F.types)
    BY <1>2
  <2> QED
    BY <1>1, <2>1, <2>2, <2>3, <2>4, ZenonT(30)
<1>4. CASE typeNames[c][y] = 0
  <2>1. TypeName(c, y, F.types) = Len(F.types) + 1
    BY <1>4 DEF TypeName
  <2>2. RegisterType(c, y, F.types) = Append(F.types, <<c, y>>)
    BY <1>2, <2>1 DEF RegisterType
  <2> QED
    BY <1>1, <1>2, <2>1, <2>2
<1> QED
  BY <1>3, <1>4

(* Truncating: from here on only the copy holds the descriptions.          *)
LEMMA DescribePreserves ==
  ASSUME NEW c \in Compiler, IInv, Describe(c) PROVE IInv'
<1> DEFINE y == ArgType[c][cur[c]]
           n == TypeName(c, y, output[c].types)
           T == RegisterType(c, y, output[c].types)
           G == [targets |-> [output[c].targets EXCEPT ![cur[c]] = [by |-> c, type |-> n]],
                 types |-> T]
<1>1. /\ output[c] = described /\ described.targets[cur[c]] = NoEntry
      /\ Remembers(c, output[c]) /\ Sound(output[c]) /\ output[c] \in File
      /\ cur[c] \in Target /\ y \in Type /\ lockFile = c
  <2>1. /\ pc[c] = "describe" /\ output[c] \in File /\ cur[c] \in Target
        /\ Copy(c) /\ Sound(described) /\ lockFile = c
    BY DEF IInv, Describe, TypeOK, Lock, Inside
  <2>2. y \in Type
    BY <2>1, ArgTypeAssumption
  <2> QED
    BY <2>1, <2>2 DEF Copy
<1>2. /\ T \in Seq(Compiler \X Type) /\ n \in 1 .. Len(T) /\ T[n] = <<c, y>>
      /\ Len(output[c].types) <= Len(T)
      /\ \A i \in 1 .. Len(output[c].types) : T[i] = output[c].types[i]
  <2> HIDE DEF y
  <2>1. typeNames \in [Compiler -> [Type -> Nat]]
    BY DEF IInv, TypeOK
  <2> QED
    BY <1>1, <2>1, Registered
<1>3. /\ output' = [output EXCEPT ![c] = G] /\ typeNames' = [typeNames EXCEPT ![c][y] = n]
      /\ torn' = TRUE /\ file' = NoFile /\ pc' = [pc EXCEPT ![c] = "write"]
      /\ UNCHANGED <<todo, cur, lockFile, described>>
  BY DEF Describe, Goto, IInv, TypeOK
<1> HIDE DEF n, T
<1>4. G \in File /\ NoFile \in File
  BY <1>1, <1>2 DEF File, Entry, NoFile, NoEntry
<1>5. Sound(G) /\ Extends(G, described)
  <2> HIDE DEF y
  <2>1. ASSUME NEW t \in Target, t # cur[c]
        PROVE  G.targets[t] = output[c].targets[t]
    BY <1>1, <2>1 DEF File
  <2>2. G.targets[cur[c]] = [by |-> c, type |-> n] /\ G.types = T
    BY <1>1 DEF File
  <2>3. Extends(G, described)
    BY <1>1, <2>1 DEF Extends
  <2>4. ASSUME NEW t \in Target, G.targets[t] # NoEntry
        PROVE  /\ G.targets[t].by \in Compiler
               /\ G.targets[t].type \in 1 .. Len(G.types)
               /\ G.types[G.targets[t].type] = <<G.targets[t].by, ArgType[G.targets[t].by][t]>>
    <3>1. CASE t = cur[c]
      <4> HIDE DEF G
      <4>1. G.targets[t].by = c /\ G.targets[t].type = n /\ G.types = T
        BY <2>2, <3>1
      <4>2. <<c, y>> = <<G.targets[t].by, ArgType[G.targets[t].by][t]>>
        BY <3>1, <4>1, ZenonT(40) DEF y
      <4> QED
        BY <1>2, <4>1, <4>2, ZenonT(30)
    <3>2. CASE t # cur[c]
      <4>1. /\ output[c].targets[t] # NoEntry /\ G.targets[t] = output[c].targets[t]
            /\ Len(output[c].types) \in Nat /\ Len(T) \in Nat
        BY <1>1, <1>2, <2>1, <2>4, <3>2 DEF File
      <4> DEFINE e == output[c].targets[t]
      <4>2. /\ e.by \in Compiler /\ e.type \in 1 .. Len(output[c].types)
            /\ output[c].types[e.type] = <<e.by, ArgType[e.by][t]>>
        BY <1>1, <4>1 DEF Sound
      <4> HIDE DEF G, e
      <4>3. e.type \in 1 .. Len(T) /\ T[e.type] = output[c].types[e.type]
        BY <1>2, <4>1, <4>2
      <4> QED
        BY <2>2, <4>1, <4>2, <4>3 DEF e
    <3> QED
      BY <3>1, <3>2
  <2> HIDE DEF G
  <2> QED
    BY <2>3, <2>4 DEF Sound
<1>6. \A z \in Type : typeNames'[c][z] # 0 =>
        typeNames'[c][z] \in 1 .. Len(T) /\ T[typeNames'[c][z]] = <<c, z>>
  <2> HIDE DEF y
  <2>1. typeNames \in [Compiler -> [Type -> Nat]]
    BY DEF IInv, TypeOK
  <2>2. Len(output[c].types) \in Nat /\ Len(T) \in Nat
    BY <1>1, <1>2 DEF File
  <2>3. typeNames'[c][y] = n
    BY <1>1, <1>3, <2>1
  <2>4. ASSUME NEW z \in Type, z # y PROVE typeNames'[c][z] = typeNames[c][z]
    BY <1>1, <1>3, <2>1, <2>4
  <2>5. ASSUME NEW z \in Type, z # y, typeNames[c][z] # 0
        PROVE  typeNames[c][z] \in 1 .. Len(T) /\ T[typeNames[c][z]] = <<c, z>>
    <3>1. /\ typeNames[c][z] \in 1 .. Len(output[c].types)
          /\ output[c].types[typeNames[c][z]] = <<c, z>>
      BY <1>1, <2>5 DEF Remembers
    <3>2. PICK i : i = typeNames[c][z]
      OBVIOUS
    <3>3. i \in 1 .. Len(output[c].types) /\ output[c].types[i] = <<c, z>>
      BY ZenonT(30), <3>1, <3>2
    <3>4. i \in 1 .. Len(T) /\ T[i] = output[c].types[i]
      BY <1>2, <2>2, <3>3
    <3> QED
      BY ZenonT(30), <3>2, <3>3, <3>4
  <2> QED
    BY <1>2, <2>3, <2>4, <2>5
<1>7. TypeOK'
  <2> HIDE DEF G, y
  <2>1. typeNames \in [Compiler -> [Type -> Nat]]
    BY DEF IInv, TypeOK
  <2>2. n \in Nat
    <3>1. Len(T) \in Nat /\ n \in 1 .. Len(T)
      BY <1>2
    <3> QED BY <3>1
  <2>3. typeNames' \in [Compiler -> [Type -> Nat]]
    BY <1>1, <1>3, <2>1, <2>2
  <2> QED
    BY <1>3, <1>4, <2>3 DEF IInv, TypeOK
<1>8. Lock'
  BY <1>1, <1>3, CompilerAssumption DEF IInv, TypeOK, Lock, Inside
<1>9. Sound(described)' /\ (~torn => file = described)'
  BY <1>3 DEF IInv, Sound
<1>10. ASSUME NEW d \in Compiler PROVE Copy(d)'
  <2>1. Copy(d)
    BY DEF IInv
  <2>2. CASE d = c
    <3>1. output'[c] = G /\ pc'[c] = "write" /\ G.types = T /\ described' = described
      BY <1>3 DEF IInv, TypeOK
    <3> HIDE DEF G
    <3> QED
      BY <1>1, <1>2, <1>5, <1>6, <2>2, <3>1 DEF Copy, Sound, Extends, Remembers
  <2>3. CASE d # c
    <3>1. /\ output'[d] = output[d] /\ pc'[d] = pc[d] /\ typeNames'[d] = typeNames[d]
          /\ described' = described /\ cur' = cur
      BY <1>3, <2>3 DEF IInv, TypeOK
    <3> QED
      BY <2>1, <3>1 DEF Copy, Sound, Extends, Remembers
  <2> QED
    BY <2>2, <2>3
<1> QED
  BY <1>7, <1>8, <1>9, <1>10 DEF IInv

(* Writing: the file is whole again, with one entry more.                  *)
LEMMA WritePreserves ==
  ASSUME NEW c \in Compiler, IInv, Write(c) PROVE IInv'
<1>1. /\ Copy(c) /\ pc[c] = "write" /\ lockFile = c /\ output[c] \in File
      /\ described' = output[c] /\ file' = output[c] /\ torn' = FALSE
      /\ pc' = [pc EXCEPT ![c] = "unlock"]
      /\ UNCHANGED <<todo, cur, typeNames, output, lockFile>>
  BY DEF IInv, TypeOK, Lock, Inside, Write, Goto
<1>2. TypeOK'
  BY <1>1 DEF IInv, TypeOK
<1>3. Lock'
  BY <1>1 DEF IInv, TypeOK, Lock, Inside
<1>4. Sound(described)' /\ (~torn => file = described)'
  BY <1>1 DEF Copy, Sound
<1>5. ASSUME NEW d \in Compiler PROVE Copy(d)'
  <2>1. Copy(d) /\ TypeOK
    BY DEF IInv
  <2>2. CASE d = c
    BY <1>1, <2>2 DEF Copy, Remembers, IInv, TypeOK
  <2>3. CASE d # c
    <3>1. pc'[d] = pc[d] /\ ~Inside(d) /\ typeNames'[d] = typeNames[d]
      BY <1>1, <2>3 DEF IInv, TypeOK, Lock
    <3>2. pc[d] # "dead" => Remembers(d, described)
      BY <2>1, <3>1 DEF Copy, Inside
    <3>3. /\ Len(described.types) <= Len(output[c].types)
          /\ \A i \in 1 .. Len(described.types) : output[c].types[i] = described.types[i]
      BY <1>1 DEF Copy
    <3>4. Len(described.types) \in Nat /\ Len(output[c].types) \in Nat
      BY <1>1, <2>1 DEF TypeOK, File
    <3>5. pc[d] # "dead" => Remembers(d, described)'
      <4> SUFFICES ASSUME pc[d] # "dead", NEW y \in Type, typeNames[d][y] # 0
                   PROVE  /\ typeNames[d][y] \in 1 .. Len(output[c].types)
                          /\ output[c].types[typeNames[d][y]] = <<d, y>>
        BY <1>1 DEF Remembers
      <4>1. /\ typeNames[d][y] \in 1 .. Len(described.types)
            /\ described.types[typeNames[d][y]] = <<d, y>>
        BY <3>2 DEF Remembers
      <4>2. PICK i : i = typeNames[d][y]
        OBVIOUS
      <4>3. i \in 1 .. Len(output[c].types)
        <5>1. i \in 1 .. Len(described.types)
          BY ZenonT(30), <4>1, <4>2
        <5> QED
          BY <3>3, <3>4, <5>1
      <4> QED
        BY ZenonT(30), <3>3, <4>1, <4>2, <4>3
    <3> QED
      BY <3>1, <3>5 DEF Copy, Inside
  <2> QED
    BY <2>2, <2>3
<1> QED
  BY <1>2, <1>3, <1>4, <1>5 DEF IInv

(* Every step of the build keeps the inductive invariant.                  *)
LEMMA NextPreserves == IInv /\ [Next]_vars => IInv'
<1> SUFFICES ASSUME IInv, [Next]_vars PROVE IInv'
  OBVIOUS
<1>1. ASSUME UNCHANGED vars PROVE IInv'
  <2>1. TypeOK' /\ Lock'
    BY <1>1 DEF vars, IInv, TypeOK, Lock, Inside
  <2> QED
    BY <1>1, <2>1, Unmoved DEF vars
<1>2. ASSUME NEW c \in Compiler, Step(c) PROVE IInv'
  BY <1>2, NextTargetPreserves, AcquirePreserves, ReadPreserves,
     DescribePreserves, WritePreserves, UnlockPreserves DEF Step
<1> QED
  BY <1>1, <1>2, DiePreserves DEF Next, Poll, Over

(* The inductive invariant holds in every reachable state.                 *)
THEOREM Invariance == Spec => []IInv
  BY InitEstablishes, NextPreserves, PTL DEF Spec

(* Every variable of the build keeps to its type.                          *)
THEOREM TypeCorrect == Spec => []TypeOK
<1>1. IInv => TypeOK
  BY DEF IInv
<1> QED
  BY <1>1, Invariance, PTL

(* Compilers are alone with the typeinfo file between lock and unlock.     *)
THEOREM LockExcludes == Spec => []MutualExclusion
<1>1. IInv => MutualExclusion
  BY DEF IInv, Lock, MutualExclusion
<1> QED
  BY <1>1, Invariance, PTL

(* No compiler parses a truncated file, whoever was killed while writing.  *)
THEOREM NeverTorn == Spec => []NoTornRead
<1>1. IInv => NoTornRead
  BY DEF IInv, Lock, NoTornRead, Inside
<1> QED
  BY <1>1, Invariance, PTL

(* A whole file is what was written last, and its entries name the types   *)
(* that their compilers meant.                                             *)
THEOREM TypesAreRight == Spec => []RightTypes
<1>1. IInv => RightTypes
  <2> SUFFICES ASSUME IInv, ~torn PROVE
        /\ file = described
        /\ \A t \in Target : file.targets[t] # NoEntry =>
             /\ file.targets[t].type \in DOMAIN file.types
             /\ file.types[file.targets[t].type] =
                  <<file.targets[t].by, ArgType[file.targets[t].by][t]>>
    BY DEF RightTypes
  <2>1. file = described /\ DOMAIN file.types = 1 .. Len(file.types)
    BY DEF IInv, TypeOK, File
  <2> QED
    BY <2>1 DEF IInv, Sound
<1> QED
  BY <1>1, Invariance, PTL

(* The first description of a target is the one that stays.                *)
THEOREM FirstDescriptionStays == Spec => FirstStays
<1>1. IInv /\ [Next]_vars => [\A t \in Target : Kept(t)]_vars
  <2> SUFFICES ASSUME IInv, Next, NEW t \in Target PROVE Kept(t)
    OBVIOUS
  <2>1. ASSUME NEW c \in Compiler, Write(c) PROVE Kept(t)
    BY <2>1 DEF Write, IInv, Copy, Extends, Kept
  <2>2. ASSUME described' = described PROVE Kept(t)
    BY <2>2 DEF Kept
  <2> QED
    BY <2>1, <2>2 DEF Next, Step, NextTarget, Acquire, Poll, Read, Describe,
                      Unlock, Die, Over, vars
<1> QED
  BY <1>1, Invariance, PTL DEF Spec, FirstStays
=============================================================================
