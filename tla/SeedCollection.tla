--------------------------- MODULE SeedCollection ---------------------------
(***************************************************************************)
(* The recording of the first test cases.  The runtime (libgen/src/main.cc,*)
(* gen_values) appends one entry per called target to a shared map: a name,*)
(* a length and the serialised arguments.  get_seeds_from_runtime          *)
(* (afl-fuzz-init.c) runs the program, blacklists the function whose       *)
(* recording crashed, starts over, and at last turns entries into seeds.   *)
(*                                                                         *)
(* In the map a name takes one cell, a length one, and arguments any       *)
(* number.  What afl-fuzz reads behind the end of the map, or takes for a  *)
(* length where there is a name, is undefined.                             *)
(***************************************************************************)
EXTENDS Integers, Sequences, FiniteSets, Functions

CONSTANTS
  TypeInfo,      \* the target functions, in the order of the typeinfo file
  SubstringOf,   \* pairs <<f, g>>: the name of f is part of the name of g
  MaxArgs,       \* MAX_FILE, bound on the cells of serialised arguments
  ArgCells,      \* how many cells the arguments of a function may take
  Data,          \* and what may be in them
  MAX_TARGETS

Fn == Range(TypeInfo)
NoFn == "none"
Zero == 0

ASSUME TypeInfoAssumption ==
  TypeInfo \in Seq(Fn) /\ TypeInfo # <<>> /\ NoFn \notin Fn /\ Fn \cap Nat = {}
ASSUME SubstringAssumption ==
  SubstringOf \subseteq Fn \X Fn /\ \A f \in Fn : <<f, f>> \in SubstringOf
ASSUME ArgsAssumption == ArgCells \in [Fn -> SUBSET (0 .. MaxArgs)]
ASSUME BoundsAssumption == MaxArgs \in Nat \ {0} /\ MAX_TARGETS \in Nat \ {0}
ASSUME DataAssumption == Data \in [Fn -> SUBSET Nat]

EntrySize == 2 + MaxArgs
Cell == 0 .. MAX_TARGETS * EntrySize - 1

VARIABLES
  pc,               \* "run", "judge", "seeds", "done" or "fatal"
  arg_map,
  ahArgOffset,
  recorded,         \* recordedFunctions of the running process
  blacklist,        \* AH_BLACKLIST: the names, or what was taken for one, in it
  targetNames, amountOfTargets,
  seeds,            \* favoured entries of the queue: target and arguments
  called,           \* history: the functions that the running process called
  args,             \* history: what it has recorded of them
  order,            \* history: where its entries start
  failed,           \* history: it could not record some call
  crashed           \* history: the function whose recording crashed it

vars == <<pc, arg_map, ahArgOffset, recorded, blacklist, targetNames,
          amountOfTargets, seeds, called, args, order, failed, crashed>>

mapVars == <<arg_map, ahArgOffset>>
historyVars == <<called, args, order, failed, crashed>>
fuzzerVars == <<blacklist, targetNames, amountOfTargets, seeds>>

EmptyMap == [i \in Cell |-> Zero]
FreshProcess ==
  /\ ahArgOffset' = 0 /\ recorded' = {} /\ crashed' = NoFn /\ failed' = FALSE
  /\ called' = {} /\ args' = [f \in Fn |-> <<>>] /\ order' = <<>>

(* get_targets: the names that are not on the user's blacklist, in the     *)
(* order of the file, as many as there is room for.                        *)
Allowed(user) == {i \in DOMAIN TypeInfo : TypeInfo[i] \notin user}
Amount(user) ==
  IF Cardinality(Allowed(user)) < MAX_TARGETS THEN Cardinality(Allowed(user)) ELSE MAX_TARGETS
Nth(S, n) == CHOOSE i \in S : Cardinality({j \in S : j < i}) = n - 1
GetTargets(user) == [n \in 1 .. Amount(user) |-> TypeInfo[Nth(Allowed(user), n)]]

(* ... and the first start for a recording.                                *)
MiscountedInit ==   \* faulty: blacklisted functions are counted too
  /\ blacklist \in SUBSET Fn /\ targetNames = GetTargets(blacklist)
  /\ amountOfTargets = Len(TypeInfo)
  /\ pc = "run"
  /\ arg_map = EmptyMap /\ ahArgOffset = 0 /\ recorded = {} /\ seeds = {}
  /\ called = {} /\ args = [f \in Fn |-> <<>>] /\ order = <<>>
  /\ failed = FALSE /\ crashed = NoFn
Init ==
  /\ blacklist \in SUBSET Fn /\ targetNames = GetTargets(blacklist)
  /\ amountOfTargets = Len(targetNames)
  /\ pc = IF amountOfTargets = 0 THEN "fatal" ELSE "run"
  /\ arg_map = EmptyMap /\ ahArgOffset = 0 /\ recorded = {} /\ seeds = {}
  /\ called = {} /\ args = [f \in Fn |-> <<>>] /\ order = <<>>
  /\ failed = FALSE /\ crashed = NoFn

-----------------------------------------------------------------------------
(* The recorded process: gen_values at the first call of a function.       *)

(* init_arg_feedback_channel: room for as many entries as targets.         *)
InMap(i) == i \in Cell /\ i < Len(targetNames) * EntrySize

(* shouldRecord: the name is searched for anywhere in the blacklist.       *)
PartOfBlacklist(f) == \E g \in blacklist : <<f, g>> \in SubstringOf
ShouldRecord(f) == f \notin recorded /\ ~PartOfBlacklist(f)

(* The name at the offset, a gap for the length, and n cells of arguments. *)
(* A recording that would not fit into the map is not considered.          *)
Serialized(f, n, d) ==
  [i \in Cell |-> IF i = ahArgOffset THEN f
                  ELSE IF i - ahArgOffset \in 2 .. n + 1 THEN d
                  ELSE arg_map[i]]
Fits(n) == InMap(ahArgOffset + n + 1)

RecordOk(f, n, d) ==
  /\ pc = "run" /\ ShouldRecord(f) /\ Fits(n)
  /\ arg_map' = [Serialized(f, n, d) EXCEPT ![ahArgOffset + 1] = n]
  /\ ahArgOffset' = ahArgOffset + 2 + n
  /\ recorded' = recorded \cup {f} /\ called' = called \cup {f}
  /\ args' = [args EXCEPT ![f] = [i \in 1 .. n |-> d]]
  /\ order' = Append(order, ahArgOffset)
  /\ UNCHANGED <<pc, failed, crashed, fuzzerVars>>

(* A file argument cannot be opened: the entry is taken back, the name     *)
(* cleared; what the other arguments left in the map stays there.          *)
KeepingRecordFails(f, n, d) ==   \* faulty: the offset is not put back
  /\ pc = "run" /\ ShouldRecord(f) /\ Fits(n)
  /\ arg_map' = [Serialized(f, n, d) EXCEPT ![ahArgOffset] = Zero]
  /\ ahArgOffset' = ahArgOffset + 2 + n
  /\ recorded' = recorded \cup {f} /\ called' = called \cup {f} /\ failed' = TRUE
  /\ UNCHANGED <<pc, args, order, crashed, fuzzerVars>>
RecordFails(f, n, d) ==
  /\ pc = "run" /\ ShouldRecord(f) /\ Fits(n)
  /\ arg_map' = [Serialized(f, n, d) EXCEPT ![ahArgOffset] = Zero]
  /\ recorded' = recorded \cup {f} /\ called' = called \cup {f} /\ failed' = TRUE
  /\ UNCHANGED <<pc, ahArgOffset, args, order, crashed, fuzzerVars>>

(* Following a wrong pointer kills the process after n cells; the length   *)
(* has not been written.                                                   *)
EagerRecordCrashes(f, n, d) ==   \* faulty: it has, while arguments were added
  /\ pc = "run" /\ ShouldRecord(f) /\ Fits(n)
  /\ arg_map' = [Serialized(f, n, d) EXCEPT ![ahArgOffset + 1] = n]
  /\ called' = called \cup {f} /\ crashed' = f /\ pc' = "judge"
  /\ UNCHANGED <<ahArgOffset, recorded, args, order, failed, fuzzerVars>>
RecordCrashes(f, n, d) ==
  /\ pc = "run" /\ ShouldRecord(f) /\ Fits(n)
  /\ arg_map' = Serialized(f, n, d)
  /\ called' = called \cup {f} /\ crashed' = f /\ pc' = "judge"
  /\ UNCHANGED <<ahArgOffset, recorded, args, order, failed, fuzzerVars>>

(* A call that is not recorded: a later one, or of a function whose name   *)
(* is part of the blacklist.                                               *)
PlainCall(f) ==
  /\ pc = "run" /\ ~ShouldRecord(f)
  /\ called' = called \cup {f}
  /\ UNCHANGED <<pc, mapVars, recorded, args, order, failed, crashed, fuzzerVars>>

(* The rest of the program crashes, ends, or goes on until the timeout.    *)
HostCrashes ==
  /\ pc = "run" /\ pc' = "judge"
  /\ UNCHANGED <<mapVars, recorded, historyVars, fuzzerVars>>
HostEnds ==
  /\ pc = "run" /\ pc' = "seeds"
  /\ UNCHANGED <<mapVars, recorded, historyVars, fuzzerVars>>
TimedOut ==
  /\ pc = "run" /\ pc' = "fatal"
  /\ UNCHANGED <<mapVars, recorded, historyVars, fuzzerVars>>

-----------------------------------------------------------------------------
(* get_seeds_from_runtime                                                  *)

Undefined == MAX_TARGETS * EntrySize   \* a place that is not in the map

(* Where the next entry starts and the i-th one, as the lengths have it;   *)
(* nothing keeps the walk in the map.                                      *)
AfterEntry(e) ==
  IF InMap(e + 1) /\ arg_map[e + 1] \in Nat THEN e + 2 + arg_map[e + 1] ELSE Undefined
Entries ==
  LET at[i \in 1 .. amountOfTargets] == IF i = 1 THEN 0 ELSE AfterEntry(at[i - 1])
  IN  at
Astray == \E i \in 1 .. amountOfTargets : ~InMap(Entries[i] + 1)

(* The first entry whose length is zero is taken for the culprit; behind   *)
(* the map anything may be.                                                *)
Empty == {i \in 1 .. amountOfTargets : InMap(Entries[i] + 1) /\ arg_map[Entries[i] + 1] = Zero}
First(S) == CHOOSE i \in S : \A j \in S : i <= j
Culprits ==
  IF Empty # {} THEN {arg_map[Entries[First(Empty)]]}
  ELSE IF Astray THEN Fn \cup {Zero} ELSE {}

Cleared == [i \in Cell |-> IF i < amountOfTargets' * EntrySize THEN Zero ELSE arg_map[i]]

EndlessBlame ==   \* faulty: the program is simply started again
  /\ pc = "judge" /\ Culprits # {}
  /\ UNCHANGED <<blacklist, amountOfTargets>>
  /\ arg_map' = Cleared /\ FreshProcess /\ pc' = "run"
  /\ UNCHANGED <<targetNames, seeds>>
Blame ==
  /\ pc = "judge"
  /\ \E c \in Culprits : blacklist' = blacklist \cup {c}
  /\ amountOfTargets' = amountOfTargets - 1
  /\ arg_map' = Cleared /\ FreshProcess /\ pc' = "run"
  /\ UNCHANGED <<targetNames, seeds>>

(* No culprit is found, or afl-fuzz dies behind the map.                   *)
GiveUp ==
  /\ pc = "judge" /\ Empty = {} /\ pc' = "fatal"
  /\ UNCHANGED <<mapVars, recorded, historyVars, fuzzerVars>>

(* The entries of a target, of which the first is taken, if it lies in the *)
(* map.                                                                    *)
EntriesOf(t) == {i \in 1 .. amountOfTargets : InMap(Entries[i] + 1) /\ arg_map[Entries[i]] = t}
EntryOf(t) == Entries[First(EntriesOf(t))]
Found(t) == EntriesOf(t) # {} /\ arg_map[EntryOf(t) + 1] \in Nat /\ InMap(AfterEntry(EntryOf(t)) - 1)
SeedOf(t) ==
  [tgt  |-> t,
   args |-> [i \in 1 .. arg_map[EntryOf(t) + 1] |-> arg_map[EntryOf(t) + 1 + i]]]
WildSeed(t) == [tgt |-> t, args |-> <<Zero>>]

(* A target without such an entry gets no seed; where the walk has left    *)
(* the map it may get anything, unless afl-fuzz dies.                      *)
CollectSeeds ==
  LET known == {targetNames[i] : i \in 1 .. amountOfTargets}
      found == {t \in known : Found(t)}
      wild  == {t \in known \ found : Astray \/ EntriesOf(t) # {}}
  IN  /\ pc = "seeds"
      /\ \E W \in SUBSET wild :
           seeds' = {s \in {SeedOf(t) : t \in found} : s.args # <<>>} \cup {WildSeed(t) : t \in W}
      /\ pc' \in IF wild # {} THEN {"done", "fatal"}
                 ELSE IF found # {} THEN {"done"} ELSE {"fatal"}
      /\ UNCHANGED <<mapVars, recorded, historyVars, blacklist, targetNames, amountOfTargets>>

Over == pc \in {"done", "fatal"} /\ UNCHANGED vars

Process ==
  \/ \E f \in Fn : \E n \in ArgCells[f], d \in Data[f] :
       RecordOk(f, n, d) \/ RecordFails(f, n, d) \/ RecordCrashes(f, n, d)
  \/ \E f \in Fn : PlainCall(f)
  \/ HostCrashes \/ HostEnds \/ TimedOut
Fuzzer == Blame \/ GiveUp \/ CollectSeeds

Next == Process \/ Fuzzer \/ Over

Spec == Init /\ [][Next]_vars

(* Every run ends, by the timeout of afl_fsrv_run_target at the latest,    *)
(* and afl-fuzz goes on.                                                   *)
FairSpec == Spec /\ WF_vars(Process) /\ WF_vars(Fuzzer)

-----------------------------------------------------------------------------
(* Every variable keeps to its type: the count of targets in particular,   *)
(* an unsigned that is decremented in a loop, does not pass zero.          *)
TypeOK ==
  /\ pc \in {"run", "judge", "seeds", "done", "fatal"}
  /\ arg_map \in [Cell -> Fn \cup Nat] /\ ahArgOffset \in Nat
  /\ recorded \subseteq Fn /\ blacklist \subseteq Fn \cup Nat
  /\ targetNames \in Seq(Fn) /\ Len(targetNames) <= MAX_TARGETS
  /\ amountOfTargets \in 0 .. Len(targetNames)
  /\ \A s \in seeds : s.tgt \in Fn /\ s.args \in Seq(Fn \cup Nat)
  /\ called \subseteq Fn /\ args \in [Fn -> Seq(Nat)] /\ order \in Seq(Cell)
  /\ failed \in BOOLEAN /\ crashed \in Fn \cup {NoFn}

HasSeed(t) == \E s \in seeds : s.tgt = t

(* A target that the run has recorded gets no other seed than the          *)
(* arguments of its own call, all of them, whatever earlier runs and       *)
(* failed recordings have left in the map; a target that it has not gets   *)
(* none, unless a recording failed and led the walk astray.  And without a *)
(* crash a target that was called lacks a seed only because there was      *)
(* nothing to record, or its recording failed, or its name is part of a    *)
(* blacklisted one (as long as the file names no more functions than there *)
(* is room for).                                                           *)
SeedsAreRecorded ==
  /\ \A s \in seeds : ~failed \/ args[s.tgt] # <<>> => s.args = args[s.tgt]
  /\ pc = "done" /\ amountOfTargets = Len(targetNames) /\ Len(TypeInfo) <= MAX_TARGETS =>
       \A t \in called \cap Range(targetNames) :
         HasSeed(t) \/ (t \in recorded /\ args[t] = <<>>) \/ PartOfBlacklist(t)

(* When every earlier entry is complete, it is the function whose          *)
(* recording crashed that is blacklisted, and no other.                    *)
CrashIsBlamed ==
  [][amountOfTargets' # amountOfTargets /\ crashed # NoFn /\ (\A f \in recorded : args[f] # <<>>)
       => blacklist' = blacklist \cup {crashed}]_vars

(* The attempts come to an end, also when each of them crashes.            *)
AttemptsEnd == pc = "run" ~> pc \in {"done", "fatal"}

-----------------------------------------------------------------------------
(* What README.md says of the same code: "the input corpus will be         *)
(* recorded using the arguments supplied to initial calls to target        *)
(* functions".                                                             *)
CorpusIsRecorded ==
  pc = "done" => \A t \in Range(targetNames) : args[t] # <<>> => HasSeed(t)
=============================================================================
