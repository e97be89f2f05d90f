---------------------------- MODULE SetupFuzzers ----------------------------
(***************************************************************************)
(* The test amplifier as a whole: testamp/setup_fuzzers.py reads the log   *)
(* that the tests' processes have written and runs one afl-fuzz campaign   *)
(* after another, each time of the command that enters most of the targets *)
(* that no campaign has fuzzed yet.  What a campaign fuzzes also depends   *)
(* on how afl-fuzz and the runtime library read AH_BLACKLIST.              *)
(***************************************************************************)
EXTENDS TestRecorder, FiniteSetsExt

CONSTANTS
  Budget,    \* seconds for all campaigns together (24 hours in the code)
  PartOf     \* <<t, u>>: the name of t occurs inside that of another target u

ASSUME BudgetAssumption == Budget \in Nat \ {0}
ASSUME TargetAssumption == IsFiniteSet(Target)
ASSUME PartOfAssumption == PartOf \subseteq {n \in Target \X Target : n[1] # n[2]}

VARIABLES
  misleading,\* the tests with "FUNCTIONS:" somewhere in their environment
  script,    \* "waiting" for the test suite, in its "loop", or at its "end"
  collected, \* what get_fuzzing_commands returned, and fuzzing_pwds
  commands,  \* fuzzing_commands that have not been run: where their records
             \* start in the log, whose order is that of the list
  executed,  \* executed_targets
  fuzzed,    \* fuzzed_targets
  ran,       \* history: the campaigns so far
  spent      \* history: the seconds given to those of them that succeeded

scriptVars == <<misleading, script, collected, commands, executed, fuzzed, ran, spent>>
vars == <<recorderVars, scriptVars>>

(* get_fuzzing_commands: a record reaches from its "FUNCTIONS:" to the     *)
(* next one.  Its targets are those that are found in its signatures, with *)
(* a colon before the name and a blank behind it.                          *)
isTargetInSignature(t, sig) == sig.name = t /\ sig.args
Starts == {n \in DOMAIN log : log[n].start}
RecordOf(n) == Max({s \in Starts : s <= n})
TargetsToFuzz(s) ==
  {t \in Target : \E n \in DOMAIN log : RecordOf(n) = s
                   /\ \E u \in log[n].targets : isTargetInSignature(t, Signature(u))}

(* The number i in fuzzer_i: the commands kept before.                     *)
EmptyFolder(s) ==   \* faulty: the commands dropped are counted instead
  Cardinality({u \in Starts : u < s /\ TargetsToFuzz(u) = {}})
Folder(s) == Cardinality({u \in Starts : u < s /\ TargetsToFuzz(u) # {}})

(* "lines" are the command lines that the record holds, by their places,   *)
(* and "dirs" the places of directories.  "FUNCTIONS:" is looked for in    *)
(* every line: where the environment has it, the record seems to end, and  *)
(* another one without targets to begin, before the command line.          *)
Ends == {n \in DOMAIN log : log[n].end}
FuzzingCommand(s) ==
  LET own == {n \in DOMAIN log : RecordOf(n) = s /\ log[n].by \notin misleading}
  IN  [targets |-> TargetsToFuzz(s), folder |-> Folder(s),
       lines |-> [n \in {m \in own : log[m].cmd} |-> log[n].by], dirs |-> own \cap Ends]
FolderAt(n) ==
  LET s == RecordOf(n)
  IN  IF log[n].by \in misleading /\ TargetsToFuzz(s) # {} THEN Folder(s) + 1 ELSE Folder(s)

(* A record is kept if it has targets, the last one in any case.  The      *)
(* directory that pwds.json has for a folder is the last one read for it.  *)
GetFuzzingCommands ==
  LET kept == {s \in Starts : TargetsToFuzz(s) # {} \/ s = Max(Starts)}
      folderAt == [n \in Ends |-> FolderAt(n)]
  IN  [commands |-> [s \in kept |-> FuzzingCommand(s)],
       pwds |-> [i \in Range(folderAt) |-> log[Max({n \in Ends : folderAt[n] = i})].by]]

Init ==
  /\ RecorderInit /\ misleading \in SUBSET Test
  /\ script = "waiting" /\ collected = [commands |-> <<>>, pwds |-> <<>>]
  /\ commands = {} /\ executed = {} /\ fuzzed = {}
  /\ ran = <<>> /\ spent = 0

Recording == RecorderNext /\ UNCHANGED scriptVars

(* The script is started when the test suite is over.                      *)
Collect ==
  /\ script = "waiting" /\ SuiteOver
  /\ collected' = GetFuzzingCommands
  /\ commands' = DOMAIN collected'.commands
  /\ executed' = UNION {collected'.commands[k].targets : k \in commands'}
  /\ script' = "loop"
  /\ UNCHANGED <<recorderVars, misleading, fuzzed, ran, spent>>

Unfuzzed(k) == collected.commands[k].targets \ fuzzed

(* The first of the commands with most unfuzzed targets.                   *)
Best ==
  CHOOSE k \in commands : \A j \in commands :
    \/ Cardinality(Unfuzzed(k)) > Cardinality(Unfuzzed(j))
    \/ Cardinality(Unfuzzed(k)) = Cardinality(Unfuzzed(j)) /\ k <= j

Suitable == \E k \in commands : Unfuzzed(k) # {}

Shares(n) == (Budget * n + Cardinality(executed) - 1) \div Cardinality(executed)

FlooredQuota(k) ==   \* faulty: rounded down
  (Budget * Cardinality(Unfuzzed(k))) \div Cardinality(executed)
GenerousQuota(k) ==   \* faulty: also for fuzzed ones
  Shares(Cardinality(collected.commands[k].targets))
Quota(k) == Shares(Cardinality(Unfuzzed(k)))

(* get_targets of afl-fuzz looks for ":name:" in AH_BLACKLIST, gen_values  *)
(* of the library for the name alone.                                      *)
SkippedByFuzzer(t) == t \in fuzzed
SkippedByLibrary(t) == t \in fuzzed \/ \E u \in fuzzed : <<t, u>> \in PartOf

(* The command of a record that was torn, or seemed to end too soon.  With *)
(* a command line it runs it in another directory, and the line may be cut:*)
(* any target may be entered.  Without one there are only assignments to   *)
(* variables.                                                              *)
Maimed(c) == c.dirs = {}
Entered(c) ==
  IF Maimed(c) /\ DOMAIN c.lines # {} THEN Target
  ELSE UNION {lines[p] : p \in Range(c.lines)}

(* The targets that afl-fuzz can record a seed of.  For which of them it   *)
(* does get one, and fuzzes them, is up to get_seeds_from_runtime, and the *)
(* script does not ask: afl-fuzz goes on without those that crash while    *)
(* they are recorded, or that there are no data of.                        *)
ListedAgainOffered(c) == Entered(c)   \* faulty: AH_BLACKLIST is not passed on
Offered(c) == {t \in Entered(c) : ~SkippedByFuzzer(t) /\ ~SkippedByLibrary(t)}

(* os.WEXITSTATUS of what the shell returns: 0 when all went well and also *)
(* after any signal, which can end each campaign; 1 stands for a failure,  *)
(* such as that of afl-fuzz when it has recorded no target.                *)
Statuses == {0, 1}

HopefulSuccessful(status) == TRUE   \* faulty: a failure is not looked at
Successful(status) == status = 0

RanWith(k, status) ==
  [command |-> collected.commands[k], marks |-> Unfuzzed(k), status |-> status,
   offered |-> Offered(collected.commands[k]), quota |-> Quota(k)]

Campaign ==
  /\ script = "loop" /\ Cardinality(fuzzed) < Cardinality(executed) /\ Suitable
  /\ LET k == Best
     IN  /\ \E status \in Statuses :
              /\ fuzzed' = IF Successful(status) THEN fuzzed \cup Unfuzzed(k) ELSE fuzzed
              /\ ran' = Append(ran, RanWith(k, status))
              /\ spent' = IF Successful(status) THEN spent + Quota(k) ELSE spent
         /\ commands' = commands \ {k}
  /\ UNCHANGED <<recorderVars, misleading, script, collected, executed>>

(* Every target is fuzzed, or no command is left for those that are not.   *)
HastyLeave ==   \* faulty: the loop also ends when a campaign has failed
  /\ script = "loop"
  /\ \/ Cardinality(fuzzed) >= Cardinality(executed) \/ ~Suitable
     \/ ran # <<>> /\ ran[Len(ran)].status # 0
  /\ script' = "end"
  /\ UNCHANGED <<recorderVars, misleading, collected, commands, executed, fuzzed, ran, spent>>
Leave ==
  /\ script = "loop"
  /\ Cardinality(fuzzed) >= Cardinality(executed) \/ ~Suitable
  /\ script' = "end"
  /\ UNCHANGED <<recorderVars, misleading, collected, commands, executed, fuzzed, ran, spent>>

Over == script = "end" /\ UNCHANGED vars

Loop == Campaign \/ Leave
Next == Recording \/ Collect \/ Loop \/ Over

Spec == Init /\ [][Next]_vars

(* While a test can go on, some test does, as long as it is not killed (the*)
(* steps of one test are finitely many); and a campaign comes to its end:  *)
(* it is run under timeout(1).  Nobody has to start the script.            *)
FairSpec ==
  /\ Spec
  /\ WF_vars((\E p \in Test : Advance(p)) /\ UNCHANGED scriptVars)
  /\ WF_vars(Loop)

-----------------------------------------------------------------------------
IsCommand(c) ==
  /\ c.targets \subseteq Target /\ c.folder \in Nat
  /\ DOMAIN c.lines \subseteq DOMAIN log /\ Range(c.lines) \subseteq Test /\ c.dirs \subseteq Ends
Ran == [command : Range(collected.commands), marks : SUBSET Target, offered : SUBSET Target,
        status : Statuses, quota : Nat \ {0}]

(* Every variable keeps to its type.  A campaign's -V is never 0, with     *)
(* which afl-fuzz would stop as soon as it looks at the clock.             *)
TypeOK ==
  /\ RecorderTypeOK /\ misleading \subseteq Test
  /\ script \in {"waiting", "loop", "end"}
  /\ DOMAIN collected.commands \subseteq Starts
  /\ \A c \in Range(collected.commands) : IsCommand(c)
  /\ commands \subseteq DOMAIN collected.commands /\ ran \in Seq(Ran) /\ spent \in Nat
  /\ executed \subseteq Target /\ fuzzed \subseteq executed

(* Of the records that do not mislead only the last one of the log can lack*)
(* its end, because the process that was killed while writing has left the *)
(* lock file behind.                                                       *)
Torn(k) == Stale /\ Maimed(collected.commands[k])

(* The one command line of the command, and its directory, are those of    *)
(* process p.                                                              *)
IsOf(c, p) ==
  /\ \E n \in DOMAIN c.lines : DOMAIN c.lines = {n} /\ c.lines[n] = p
  /\ \E n \in Ends : c.dirs = {n} /\ log[n].by = p

(* The targets that can be found in the log: C functions with arguments.   *)
Recognised == Target \ (Mangled \cup WithoutArgs)

(* What the script reads is what the tests wrote, although they exit side  *)
(* by side: a command with targets is the command line of one process, run *)
(* in its directory, with exactly the targets it entered that can be found *)
(* in the log, a folder of its own and its directory in pwds.json; and no  *)
(* test that ended normally and entered such a target is missing.  The     *)
(* exceptions are a record that was torn and environments that mislead.    *)
RecordsArrive ==
  LET cs == collected.commands
      whole == {k \in DOMAIN cs :
                  cs[k].targets # {} /\ ~Torn(k) /\ log[k].by \notin misleading}
  IN  script # "waiting" =>
        /\ \A k \in whole : \E p \in Test :
             /\ IsOf(cs[k], p) /\ cs[k].targets = lines[p] \cap Recognised
             /\ collected.pwds[cs[k].folder] = p
        /\ \A k, j \in whole : cs[k].folder = cs[j].folder => k = j
        /\ \A p \in Test \ misleading : pc[p] = "done" /\ lines[p] \cap Recognised # {} =>
             \E k \in whole : IsOf(cs[k], p)

Counts == {k \in DOMAIN ran : Successful(ran[k].status)}

(* "will add its target functions to the blacklist": no two successful     *)
(* campaigns can fuzz the same target, though commands overlap in their    *)
(* targets and the list is read in two different ways.  That is, of the    *)
(* targets that can be found in the log, and of records that are whole.    *)
FuzzedOnce ==
  \A j, k \in Counts :
    /\ ran[j].offered \cap ran[k].offered \cap Recognised # {}
    /\ ~Maimed(ran[j].command) /\ ~Maimed(ran[k].command)
    => j = k

(* A target only counts as fuzzed once afl-fuzz was run with a command that*)
(* enters it, was not kept from fuzzing it by the list, and did not fail.  *)
(* The exceptions are a record that is not whole, and a name inside that of*)
(* a target fuzzed earlier.  Whether it was fuzzed cannot be said: the     *)
(* script takes any signal for success, and see Offered.                   *)
CountsOnlyIfTried ==
  \A t \in fuzzed : \E k \in Counts :
    /\ t \in ran[k].marks /\ ran[k].status = 0
    /\ \/ t \in ran[k].offered
       \/ Maimed(ran[k].command)
       \/ \E u \in fuzzed : <<t, u>> \in PartOf

(* "allocating energy proportionately": the successful campaigns get the   *)
(* budget between them, up to the rounding of each one's share.            *)
BudgetKept ==
  Counts # {} => spent < Budget + Cardinality(Counts)

(* Every command that enters the target has been tried, and has failed.    *)
Hopeless(t) ==
  \A k \in DOMAIN collected.commands :
    t \in collected.commands[k].targets =>
      \E j \in DOMAIN ran :
        ran[j].command = collected.commands[k] /\ ran[j].status # 0

(* The loop ends, since a command that was tried is not tried again, and   *)
(* not before every target is fuzzed or there is no command left for it.   *)
CampaignsEnd == script = "loop" ~> script = "end" /\ \A t \in executed \ fuzzed : Hopeless(t)
=============================================================================
