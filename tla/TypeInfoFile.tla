---------------------------- MODULE TypeInfoFile ----------------------------
(***************************************************************************)
(* A parallel build: each compiler that runs the harnessing pass           *)
(* (instrumentation/src/pass.cc, HarnessPass::run) adds the target         *)
(* functions of its module to one shared typeinfo file, under a lock file  *)
(* created with O_EXCL.  A compiler may be killed at any point.            *)
(***************************************************************************)
EXTENDS Naturals, Sequences

CONSTANTS
  Compiler,      \* the compilers of a build, one module each
  NoCompiler,
  Target,        \* names of target functions
  Module,        \* the targets that each compiler's module defines
  Type,          \* argument types, which are each compiler's own
  ArgType        \* the type of a target's argument, as its compiler has it

ASSUME CompilerAssumption == NoCompiler \notin Compiler
ASSUME ModuleAssumption == Module \in [Compiler -> SUBSET Target]
ASSUME ArgTypeAssumption == ArgType \in [Compiler -> [Target -> Type]]

VARIABLES
  pc,         \* where each compiler is
  todo,       \* targets it has not come to
  cur,        \* the target it is at
  typeNames,  \* the number in "type_N" it has given to each type, or 0
  output,     \* its copy of the file
  lockFile,   \* the compiler that created the lock file, if it exists
  torn,       \* the file has been truncated and not been written again
  file,
  described   \* history: what the file held when it was written last

vars == <<pc, todo, cur, typeNames, output, lockFile, torn, file, described>>

(* A target's entry names the type of its argument; types are numbered in  *)
(* the order they came.                                                    *)
Entry == [by : Compiler \cup {NoCompiler}, type : Nat]
NoEntry == [by |-> NoCompiler, type |-> 0]
File == [targets : [Target -> Entry], types : Seq(Compiler \X Type)]
NoFile == [targets |-> [t \in Target |-> NoEntry], types |-> <<>>]

Goto(c, l) == pc' = [pc EXCEPT ![c] = l]

(* A file that does not exist is as good as one without entries.           *)
Init ==
  /\ pc = [c \in Compiler |-> "next"] /\ todo = Module
  /\ cur \in [Compiler -> Target]
  /\ typeNames = [c \in Compiler |-> [y \in Type |-> 0]]
  /\ output = [c \in Compiler |-> NoFile]
  /\ lockFile = NoCompiler /\ torn = FALSE
  /\ file = NoFile /\ described = NoFile

(* The next target that this module defines.                               *)
NextTarget(c) ==
  /\ pc[c] = "next"
  /\ \E t \in todo[c] :
       cur' = [cur EXCEPT ![c] = t] /\ todo' = [todo EXCEPT ![c] = @ \ {t}]
  /\ Goto(c, "lock")
  /\ UNCHANGED <<typeNames, output, lockFile, torn, file, described>>

(* open(O_EXCL | O_CREAT) succeeds; otherwise it is tried again after 50ms.*)
StealingAcquire(c) ==   \* faulty: the lock file of a dead compiler is ignored
  /\ pc[c] = "lock" /\ lockFile \notin {d \in Compiler : pc[d] # "dead"}
  /\ lockFile' = c /\ Goto(c, "read")
  /\ UNCHANGED <<todo, cur, typeNames, output, torn, file, described>>
Acquire(c) ==
  /\ pc[c] = "lock" /\ lockFile = NoCompiler
  /\ lockFile' = c /\ Goto(c, "read")
  /\ UNCHANGED <<todo, cur, typeNames, output, torn, file, described>>

Poll(c) == pc[c] = "lock" /\ lockFile # NoCompiler /\ UNCHANGED vars

(* The file is parsed, which a truncated one does not survive; a target    *)
(* that is in it is left alone.                                            *)
OverwritingRead(c) ==   \* faulty: it is described again
  /\ pc[c] = "read"
  /\ output' = [output EXCEPT ![c] = file]
  /\ Goto(c, IF torn THEN "dead" ELSE "describe")
  /\ UNCHANGED <<todo, cur, typeNames, lockFile, torn, file, described>>
Read(c) ==
  /\ pc[c] = "read"
  /\ output' = [output EXCEPT ![c] = file]
  /\ Goto(c, IF torn THEN "dead"
             ELSE IF file.targets[cur[c]].by = NoCompiler THEN "describe" ELSE "unlock")
  /\ UNCHANGED <<todo, cur, typeNames, lockFile, torn, file, described>>

(* getTypeName: the number given before, or the next one of the file.      *)
ReusedTypeName(c, y, types) ==   \* faulty: the last number is given again
  IF typeNames[c][y] # 0 THEN typeNames[c][y] ELSE IF types = <<>> THEN 1 ELSE Len(types)
TypeName(c, y, types) ==
  IF typeNames[c][y] # 0 THEN typeNames[c][y] ELSE Len(types) + 1

(* registerType: a name that is not in the file yet is added to it.        *)
RegisterType(c, y, types) ==
  IF TypeName(c, y, types) \in DOMAIN types THEN types ELSE Append(types, <<c, y>>)

(* The new entry is made and the file is opened for writing.               *)
Describe(c) ==
  LET y == ArgType[c][cur[c]]
      n == TypeName(c, y, output[c].types)
  IN  /\ pc[c] = "describe"
      /\ output' = [output EXCEPT ![c] =
           [targets |-> [@.targets EXCEPT ![cur[c]] = [by |-> c, type |-> n]],
            types |-> RegisterType(c, y, @.types)]]
      /\ typeNames' = [typeNames EXCEPT ![c][y] = n]
      /\ torn' = TRUE /\ file' = NoFile
      /\ Goto(c, "write")
      /\ UNCHANGED <<todo, cur, lockFile, described>>

Write(c) ==
  /\ pc[c] = "write"
  /\ torn' = FALSE /\ file' = output[c] /\ described' = output[c]
  /\ Goto(c, "unlock")
  /\ UNCHANGED <<todo, cur, typeNames, output, lockFile>>

StuckUnlock(c) ==   \* faulty: the early continue forgets to unlink
  /\ pc[c] = "unlock"
  /\ lockFile' = IF file.targets[cur[c]].by = c THEN NoCompiler ELSE lockFile
  /\ Goto(c, "next")
  /\ UNCHANGED <<todo, cur, typeNames, output, torn, file, described>>
Unlock(c) ==
  /\ pc[c] = "unlock"
  /\ lockFile' = NoCompiler
  /\ Goto(c, "next")
  /\ UNCHANGED <<todo, cur, typeNames, output, torn, file, described>>

(* The compiler is killed, or fails; the lock file stays if it has it.     *)
Die(c) ==
  /\ pc[c] # "dead"
  /\ Goto(c, "dead")
  /\ UNCHANGED <<todo, cur, typeNames, output, lockFile, torn, file, described>>

Finished(c) == pc[c] = "next" /\ todo[c] = {}
Over == (\A c \in Compiler : pc[c] = "dead" \/ Finished(c)) /\ UNCHANGED vars

Step(c) ==
  \/ NextTarget(c) \/ Acquire(c) \/ Read(c) \/ Describe(c) \/ Write(c)
  \/ Unlock(c)

Next == (\E c \in Compiler : Step(c) \/ Poll(c) \/ Die(c)) \/ Over

Spec == Init /\ [][Next]_vars

(* Each compiler keeps running.  It polls for the lock, so nothing more    *)
(* than weak fairness is assumed of its getting it.                        *)
FairSpec == Spec /\ \A c \in Compiler : WF_vars(Step(c))

-----------------------------------------------------------------------------
(* Every variable keeps to its type.                                       *)
TypeOK ==
  /\ pc \in [Compiler -> {"next", "lock", "read", "describe", "write", "unlock", "dead"}]
  /\ todo \in [Compiler -> SUBSET Target] /\ cur \in [Compiler -> Target]
  /\ typeNames \in [Compiler -> [Type -> Nat]] /\ output \in [Compiler -> File]
  /\ lockFile \in Compiler \cup {NoCompiler} /\ torn \in BOOLEAN
  /\ file \in File /\ described \in File

Inside(c) == pc[c] \in {"read", "describe", "write", "unlock"}

(* The comment on the lock, "to avoid race conditions because the typeinfo *)
(* file will be opened and closed several times": between the lock and its *)
(* release a compiler is alone with the file.                              *)
MutualExclusion == \A c, d \in Compiler : Inside(c) /\ Inside(d) => c = d

(* No compiler parses a file that another one has truncated, also when     *)
(* that one was killed while writing.                                      *)
NoTornRead == torn => \A c \in Compiler : pc[c] # "read"

(* The description a target has been given first is never lost, nor is     *)
(* it replaced by a compiler that has a function of the same name: each of *)
(* them writes the whole file from its own copy.                           *)
Kept(t) == described.targets[t] # NoEntry => described'.targets[t] = described.targets[t]
FirstStays == [][\A t \in Target : Kept(t)]_vars

(* A whole file holds what was written last, and the type that an entry    *)
(* names is the type its compiler meant, although compilers number their   *)
(* types each by itself and remember the numbers between two turns.        *)
RightTypes ==
  ~torn =>
    /\ file = described
    /\ \A t \in Target : LET e == file.targets[t] IN
         e # NoEntry => /\ e.type \in DOMAIN file.types
                        /\ file.types[e.type] = <<e.by, ArgType[e.by][t]>>

(* If no compiler dies the build ends with every target described: nobody  *)
(* waits for a lock file that nobody will remove.                          *)
Complete ==
  \A c \in Compiler : Finished(c) /\ \A t \in Module[c] : file.targets[t] # NoEntry
BuildEnds == <>(Complete \/ \E c \in Compiler : pc[c] = "dead")
=============================================================================
