---------------------------- MODULE TargetQueue ----------------------------
(***************************************************************************)
(* How afl-fuzz shares its time among the target functions: the dry run    *)
(* over the seeds (afl-fuzz-init.c), the favoured entries and the two      *)
(* kinds of alias table (afl-fuzz-queue.c), the main loop's choice of an   *)
(* entry with the restart of the fork server (afl-fuzz.c), and what        *)
(* fuzz_one does to the entry it is given (afl-fuzz-one.c).  An entry is   *)
(* its flags; what an execution covers is chosen freely.                   *)
(***************************************************************************)
EXTENDS Integers, Sequences, FiniteSets, FiniteSetsExt

CONSTANTS
  NTargets,       \* amountOfTargets
  Modes,          \* campaigns: resume is in_place_resume (the queue is that of
                  \* an earlier one), timeoutGiven and foreignSync are -t and -F,
                  \* maxSeeds bounds the entries loaded at the start
  MaxItems,       \* bound on the entries of the queue
  SkipMinItems,   \* queued_items above which a cold entry is skipped, 10
  CalChances,     \* CAL_CHANCES
  U32             \* range of the u32 counters

ASSUME TargetsAssumption == NTargets \in Nat \ {0}
ASSUME ModesAssumption ==
  Modes \subseteq [resume : BOOLEAN, timeoutGiven : BOOLEAN, foreignSync : BOOLEAN,
                   maxSeeds : 1 .. MaxItems]
ASSUME ItemsAssumption ==
  /\ {MaxItems, CalChances, U32} \subseteq Nat \ {0}
  /\ MaxItems < U32      \* queued_items is a u32
  /\ SkipMinItems \in Nat

Target == 0 .. NTargets - 1
NoTarget == -1

VARIABLES
  mode,                \* the options of the campaign
  pc,                  \* where in main() the fuzzer is
  queue,               \* queue_buf
  idx,                 \* entry of the dry run, at its end the number of seeds
  targetActive,        \* the targets whose flag is set
  nextTarget,
  firstCycleDone,
  pending_not_fuzzed, pending_favored,
  top_rated,           \* entries that have won a byte of the map
  score_changed,
  reinit_table, prev_queued_items,
  multi_alias,         \* the entries each target's alias table was built for
  single_alias,        \* the entries the common alias table was built for
  yields,              \* the entries a table can yield, NoTarget's is the common one
  queue_cur,           \* current entry, 0 for NULL
  fsrvTarget,          \* the target the running fork server was started for
  attended             \* history: targets an entry was selected of

seedVars == <<idx, targetActive>>
countVars == <<pending_not_fuzzed, pending_favored>>
scoreVars == <<top_rated, score_changed>>
tableVars == <<reinit_table, prev_queued_items, multi_alias, single_alias, yields>>
cycleVars == <<nextTarget, firstCycleDone>>
curVars == <<queue_cur, fsrvTarget, attended>>
vars == <<mode, pc, queue, seedVars, cycleVars, countVars, scoreVars, tableVars,
          curVars>>

Items == DOMAIN queue
EntriesOf(t) == {i \in Items : queue[i].tgt = t}
Enabled(S) == {i \in S : ~queue[i].disabled}
Dec(n) == (n + U32 - 1) % U32

Entry(t, fav) ==
  [tgt |-> t, favored |-> fav, disabled |-> FALSE, was_fuzzed |-> FALSE,
   cal_failed |-> 0, fuzz_level |-> 0]

(* One favoured seed for each target that was recorded, in the order of    *)
(* the calls; or the queue directory of an earlier campaign.               *)
SeedLists ==
  LET ts == UNION {[1 .. n -> Target] : n \in 1 .. mode.maxSeeds}
  IN  IF mode.resume THEN ts ELSE {s \in ts : \A i, j \in DOMAIN s : s[i] = s[j] => i = j}

Init ==
  /\ mode \in Modes
  /\ \E s \in SeedLists : queue = [i \in DOMAIN s |-> Entry(s[i], ~mode.resume)]
  /\ pc = "dry" /\ idx = 1 /\ targetActive = {}
  /\ nextTarget = 0 /\ firstCycleDone = FALSE
  /\ pending_not_fuzzed = Len(queue)
  /\ pending_favored = IF mode.resume THEN 0 ELSE Len(queue)
  /\ top_rated = {} /\ score_changed = FALSE
  /\ reinit_table = FALSE /\ prev_queued_items = 0
  /\ multi_alias = [t \in Target |-> {}] /\ single_alias = {}
  /\ yields = [t \in Target \cup {NoTarget} |-> {}]
  /\ queue_cur = 0 /\ fsrvTarget = NoTarget /\ attended = {}

-----------------------------------------------------------------------------
(* Shared pieces                                                           *)

(* update_bitmap_score: the entry wins some byte of the map, or none.      *)
UpdateBitmapScore(i) ==
  \E wins \in BOOLEAN :
    /\ top_rated' = top_rated \cup (IF wins THEN {i} ELSE {})
    /\ score_changed' = (score_changed \/ wins)

(* Taken out of the queue: disabled, and done as far as counters go.       *)
Disabled(e) == [e EXCEPT !.disabled = TRUE, !.was_fuzzed = TRUE]

(* cull_queue with F the winners it picks from top_rated.  In the first    *)
(* cycle the first entries are favoured, and fresh again, in any case.     *)
NoSeeds == {}   \* faulty: without that
Seeds == IF firstCycleDone THEN {} ELSE {i \in Items : i <= NTargets}
CullQueue ==
  IF ~score_changed THEN UNCHANGED <<queue, pending_favored, score_changed>>
  ELSE \E F \in SUBSET top_rated :
    /\ top_rated # {} => F # {}
    /\ score_changed' = FALSE
    /\ queue' = [i \in Items |->
         [queue[i] EXCEPT !.favored = i \in F \cup Seeds,
                          !.fuzz_level = IF i \in Seeds THEN 0 ELSE @,
                          !.was_fuzzed = @ /\ i \notin Seeds]]
    /\ pending_favored' =
         Cardinality({i \in F : ~queue[i].was_fuzzed} \cup (Seeds \ F))

(* add_to_queue, then calibrate_case: success may raise the entry's score, *)
(* failure leaves it to be calibrated again.  The server is restarted for  *)
(* the entry's target if it is on another one.                             *)
AddToQueue(t) ==
  /\ Len(queue) < MaxItems
  /\ \/ queue' = Append(queue, Entry(t, FALSE)) /\ UpdateBitmapScore(Len(queue) + 1)
     \/ /\ queue' = Append(queue, [Entry(t, FALSE) EXCEPT !.cal_failed = 1])
        /\ UNCHANGED scoreVars
  /\ pending_not_fuzzed' = (pending_not_fuzzed + 1) % U32
  /\ fsrvTarget' = t
  /\ UNCHANGED <<seedVars, cycleVars, pending_favored, tableVars, queue_cur,
                 attended>>

(* cycleTarget: the next active target, in index order and cyclically.     *)
cycleTarget ==
  LET steps == {n \in 1 .. NTargets : (nextTarget + n) % NTargets \in targetActive}
  IN  (nextTarget + Min(steps)) % NTargets

-----------------------------------------------------------------------------
(* perform_dry_run, one seed per step                                      *)

OffByOneNextSeed ==   \* faulty: one seed too many
  /\ idx' = idx + 1
  /\ pc' = IF idx = Len(queue) THEN "dedup" ELSE "dry"
  /\ fsrvTarget' = queue[idx].tgt
  /\ UNCHANGED <<cycleVars, tableVars, queue_cur, attended, pending_favored>>
NextSeed ==
  /\ idx' = IF idx = Len(queue) THEN idx ELSE idx + 1
  /\ pc' = IF idx = Len(queue) THEN "dedup" ELSE "dry"
  /\ fsrvTarget' = queue[idx].tgt
  /\ UNCHANGED <<cycleVars, tableVars, queue_cur, attended, pending_favored>>

DropSeed(failures) ==
  /\ queue' = [queue EXCEPT ![idx] = [Disabled(@) EXCEPT !.cal_failed = failures]]
  /\ pending_not_fuzzed' = Dec(pending_not_fuzzed)
  /\ UNCHANGED <<targetActive, scoreVars>>
  /\ NextSeed

DryRunOk ==
  /\ pc = "dry"
  /\ targetActive' = targetActive \cup {queue[idx].tgt}
  /\ UpdateBitmapScore(idx)
  /\ UNCHANGED <<queue, pending_not_fuzzed>>
  /\ NextSeed

(* The seed works but shows nothing that earlier seeds did not show.       *)
DryRunNoBits ==
  /\ pc = "dry"
  /\ UpdateBitmapScore(idx)
  /\ UNCHANGED <<queue, targetActive, pending_not_fuzzed>>
  /\ NextSeed

DryRunTimeout ==
  /\ pc = "dry"
  /\ IF mode.timeoutGiven
       THEN DropSeed(CalChances)
       ELSE /\ pc' = "fatal"
            /\ UNCHANGED <<queue, seedVars, cycleVars, countVars, scoreVars,
                           tableVars, curVars>>

DryRunCrash == pc = "dry" /\ DropSeed(1)

(* The end of perform_dry_run: of several seeds of a target with the same  *)
(* trace the shortest is kept, and the first active target comes first.    *)
Calibrated(t) == {i \in EntriesOf(t) : ~queue[i].disabled /\ queue[i].cal_failed = 0}
Duplicates ==
  {D \in SUBSET Items :
     /\ D \subseteq UNION {Calibrated(t) : t \in Target}
     /\ \A t \in Target : Calibrated(t) # {} => Calibrated(t) \ D # {}}
DryRunEnd ==
  /\ pc = "dedup"
  /\ IF \A i \in Items : queue[i].cal_failed = CalChances
       THEN pc' = "fatal" /\ UNCHANGED <<queue, pending_not_fuzzed, nextTarget>>
       ELSE /\ \E D \in Duplicates :
                 /\ queue' = [i \in Items |-> IF i \in D THEN Disabled(queue[i])
                                              ELSE queue[i]]
                 /\ pending_not_fuzzed' = pending_not_fuzzed - Cardinality(D)
            /\ IF 0 \in targetActive
                 THEN pc' = "start" /\ UNCHANGED nextTarget
                 ELSE IF targetActive # {}
                        THEN pc' = "start" /\ nextTarget' = cycleTarget
                        ELSE pc' = "spin" /\ UNCHANGED nextTarget
  /\ UNCHANGED <<seedVars, firstCycleDone, pending_favored, scoreVars,
                 tableVars, curVars>>

(* cycleTarget when no target is active.                                   *)
Spin ==
  /\ pc = "spin"
  /\ nextTarget' = (nextTarget + 1) % NTargets
  /\ UNCHANGED <<pc, queue, seedVars, firstCycleDone, countVars, scoreVars,
                 tableVars, curVars>>

(* main() between the dry run and the loop.                                *)
StartUp ==
  /\ pc = "start"
  /\ CullQueue
  /\ pc' = IF Enabled(Items) = {} \/ pending_not_fuzzed = 0 THEN "fatal" ELSE "loop"
  /\ UNCHANGED <<seedVars, cycleVars, pending_not_fuzzed, top_rated, tableVars,
                 curVars>>

-----------------------------------------------------------------------------
(* The main loop                                                           *)

LoopHead ==
  /\ pc = "loop" /\ pc' = "table"
  /\ CullQueue
  /\ UNCHANGED <<seedVars, cycleVars, pending_not_fuzzed, top_rated, tableVars,
                 curVars>>

(* The weight of an entry is computed from its calibration, which leaves   *)
(* exec_us and bitmap_size at 0 when it fails.  One such entry makes all   *)
(* the probabilities of its table not a number.                            *)
Unweighted(S) == Enabled(S) = {} \/ \E i \in Enabled(S) : queue[i].cal_failed # 0

(* An alias table yields entries of positive weight only, and a disabled   *)
(* entry has none; but if the probabilities are not numbers it yields any. *)
Yield(S, nan) == IF nan THEN S ELSE Enabled(S)

(* create_multi_alias_table; nan are the targets of such tables.  There    *)
(* are more than those of unweighted entries, since the average that a     *)
(* weight is divided by is 0 when no entry of the target has won a byte of *)
(* the map, or when each covers a single byte.                             *)
CreateMultiAliasTable ==
  /\ multi_alias' = [t \in Target |-> EntriesOf(t)]
  /\ \E nan \in SUBSET Target :
       /\ \A t \in Target : Unweighted(EntriesOf(t)) => t \in nan
       /\ yields' = [t \in Target \cup {NoTarget} |->
                       IF t = NoTarget THEN yields[t] ELSE Yield(EntriesOf(t), t \in nan)]
  /\ UNCHANGED single_alias

(* create_single_alias_table.                                              *)
CreateSingleAliasTable ==
  /\ single_alias' = Items
  /\ \E nan \in BOOLEAN :
       /\ Unweighted(Items) => nan
       /\ yields' = [yields EXCEPT ![NoTarget] = Yield(Items, nan)]
  /\ UNCHANGED multi_alias

(* create_alias_table, when there are new entries or one has been fuzzed.  *)
CreateAliasTable ==
  /\ pc = "table" /\ pc' = "select"
  /\ IF prev_queued_items < Len(queue) \/ reinit_table
       THEN /\ prev_queued_items' = Len(queue)
            /\ reinit_table' = FALSE
            /\ IF firstCycleDone THEN CreateSingleAliasTable ELSE CreateMultiAliasTable
       ELSE UNCHANGED tableVars
  /\ UNCHANGED <<queue, seedVars, cycleVars, countVars, scoreVars, curVars>>

(* Faulty: only the first entry starts a server.                           *)
StaleSetQueueCur(i) ==
  /\ queue_cur' = i
  /\ fsrvTarget' = IF queue_cur # 0 THEN fsrvTarget ELSE queue[i].tgt
  /\ attended' = attended \cup {queue[i].tgt}
  /\ pc' = "fuzz"
  /\ UNCHANGED <<queue, seedVars, countVars, scoreVars>>

(* The chosen entry becomes queue_cur; a change of target between two      *)
(* consecutive entries restarts the fork server.                           *)
SetQueueCur(i) ==
  /\ queue_cur' = i
  /\ fsrvTarget' = IF queue_cur # 0 /\ queue[queue_cur].tgt = queue[i].tgt
                     THEN fsrvTarget ELSE queue[i].tgt
  /\ attended' = attended \cup {queue[i].tgt}
  /\ pc' = "fuzz"
  /\ UNCHANGED <<queue, seedVars, countVars, scoreVars>>

SelectFromTarget ==
  /\ pc = "select" /\ ~firstCycleDone
  /\ \E i \in yields[nextTarget] : SetQueueCur(i)
  /\ UNCHANGED <<cycleVars, tableVars>>

(* Faulty: the common table is not built at the wrap; the wrap is taken    *)
(* for granted; the old target is compared with itself.                    *)
NoTableSwitchTarget ==
  /\ pc = "select" /\ ~firstCycleDone /\ queue_cur # 0
  /\ nextTarget' = cycleTarget
  /\ firstCycleDone' = (nextTarget > nextTarget')
  /\ \E i \in yields[nextTarget'] : SetQueueCur(i)
  /\ UNCHANGED tableVars
HastySwitchTarget ==
  /\ pc = "select" /\ ~firstCycleDone /\ queue_cur # 0
  /\ nextTarget' = cycleTarget
  /\ firstCycleDone' = TRUE
  /\ CreateSingleAliasTable /\ reinit_table' = FALSE
  /\ \E i \in yields[nextTarget'] : SetQueueCur(i)
  /\ UNCHANGED prev_queued_items
BlindSwitchTarget ==
  /\ pc = "select" /\ ~firstCycleDone /\ queue_cur # 0
  /\ nextTarget' = cycleTarget
  /\ \E i \in yields[nextTarget'] : SetQueueCur(i)
  /\ UNCHANGED <<firstCycleDone, tableVars>>

(* More than 60 seconds on one target (never at the first selection): on   *)
(* to the next one.  At the wrap the common table takes over, and is built *)
(* at once.                                                                *)
SwitchTarget ==
  /\ pc = "select" /\ ~firstCycleDone /\ queue_cur # 0
  /\ nextTarget' = cycleTarget
  /\ firstCycleDone' = (nextTarget > nextTarget')
  /\ IF firstCycleDone'
       THEN CreateSingleAliasTable /\ reinit_table' = FALSE
       ELSE UNCHANGED <<multi_alias, single_alias, yields, reinit_table>>
  /\ \E i \in yields[nextTarget'] : SetQueueCur(i)
  /\ UNCHANGED prev_queued_items

SelectFromAll ==
  /\ pc = "select" /\ firstCycleDone
  /\ \E i \in yields[NoTarget] : SetQueueCur(i)
  /\ UNCHANGED <<cycleVars, tableVars>>

-----------------------------------------------------------------------------
(* fuzz_one                                                                *)

Cur == queue[queue_cur]

(* Returning 1 at once keeps the inner loop of main() going.               *)
MaySkip ==
  IF pending_favored # 0
    THEN firstCycleDone /\ (Cur.fuzz_level # 0 \/ ~Cur.favored)
    ELSE ~Cur.favored /\ Len(queue) > SkipMinItems
Skip ==
  /\ pc = "fuzz" /\ MaySkip /\ pc' = "table"
  /\ UNCHANGED <<queue, seedVars, cycleVars, countVars, scoreVars, tableVars,
                 curVars>>

Begin ==
  /\ pc = "fuzz" /\ Cur.cal_failed = 0 /\ pc' = "mutate"
  /\ UNCHANGED <<queue, seedVars, cycleVars, countVars, scoreVars, tableVars,
                 curVars>>

(* An entry whose calibration failed gets CAL_CHANCES chances in all.      *)
Recalibrate ==
  /\ pc = "fuzz" /\ Cur.cal_failed # 0
  /\ \/ /\ Cur.cal_failed < CalChances
        /\ queue' = [queue EXCEPT ![queue_cur].cal_failed = 0]
        /\ UpdateBitmapScore(queue_cur)
        /\ pc' \in {"mutate", "abandon"}     \* abandoned when it has NOBITS
        /\ fsrvTarget' = Cur.tgt
     \/ /\ Cur.cal_failed < CalChances
        /\ queue' = [queue EXCEPT ![queue_cur].cal_failed = @ + 1]
        /\ pc' = "abandon" /\ fsrvTarget' = Cur.tgt
        /\ UNCHANGED scoreVars
     \/ /\ Cur.cal_failed >= CalChances
        /\ pc' = "abandon" /\ UNCHANGED <<queue, fsrvTarget, scoreVars>>
  /\ UNCHANGED <<seedVars, cycleVars, countVars, tableVars, queue_cur, attended>>

(* A mutated input shows something new: save_if_interesting.               *)
Discover == pc = "mutate" /\ AddToQueue(Cur.tgt) /\ UNCHANGED pc

(* abandon_entry.                                                          *)
AbandonEntry ==
  /\ pc \in {"mutate", "abandon"}
  /\ LET first == Cur.cal_failed = 0 /\ ~Cur.was_fuzzed /\ ~Cur.disabled
     IN  /\ queue' = [queue EXCEPT ![queue_cur].fuzz_level = 1,
                                   ![queue_cur].was_fuzzed = @ \/ first]
         /\ pending_not_fuzzed' =
              IF first THEN Dec(pending_not_fuzzed) ELSE pending_not_fuzzed
         /\ pending_favored' =
              IF first /\ Cur.favored THEN Dec(pending_favored) ELSE pending_favored
         /\ reinit_table' = (reinit_table \/ first)
  /\ pc' \in IF pc = "mutate" THEN {"loop", "table"} ELSE {"table"}
  /\ UNCHANGED <<seedVars, cycleVars, scoreVars, prev_queued_items,
                 multi_alias, single_alias, yields, curVars>>

(* read_foreign_testcases at the end of a turn: the test case runs on the  *)
(* server there is, and is kept for the target in its file name.           *)
ForeignImport ==
  /\ mode.foreignSync /\ pc = "loop"
  /\ \E t \in Target : AddToQueue(t)
  /\ UNCHANGED pc

Stopped == pc = "fatal" /\ UNCHANGED vars

DryRun ==
  DryRunOk \/ DryRunNoBits \/ DryRunTimeout \/ DryRunCrash \/ DryRunEnd \/ Spin
MainLoop ==
  \/ StartUp \/ LoopHead \/ CreateAliasTable
  \/ SelectFromTarget \/ SwitchTarget \/ SelectFromAll
FuzzOne == Skip \/ Begin \/ Recalibrate \/ Discover \/ AbandonEntry

Step == UNCHANGED mode /\ (DryRun \/ MainLoop \/ FuzzOne)

Next == Step \/ (UNCHANGED mode /\ ForeignImport) \/ Stopped

Spec == Init /\ [][Next]_vars

(* afl-fuzz keeps running.  The clock goes on: a selection that looks at   *)
(* it again and again finds the 60 seconds over some time.                 *)
Fairness ==
  /\ WF_vars(Step)
  /\ SF_vars(UNCHANGED mode /\ SwitchTarget)

FairSpec == Spec /\ Fairness

-----------------------------------------------------------------------------
QueueEntry ==
  [tgt : Target, favored : BOOLEAN, disabled : BOOLEAN, was_fuzzed : BOOLEAN,
   cal_failed : 0 .. CalChances, fuzz_level : 0 .. 1]

(* Every variable keeps to its type, and indexes stay within the queue.    *)
TypeOK ==
  /\ mode \in Modes
  /\ pc \in {"dry", "dedup", "spin", "start", "fatal", "loop", "table",
             "select", "fuzz", "mutate", "abandon"}
  /\ queue \in Seq(QueueEntry) /\ Len(queue) <= MaxItems
  /\ idx \in 1 .. Len(queue) /\ targetActive \subseteq Target
  /\ nextTarget \in Target /\ firstCycleDone \in BOOLEAN
  /\ pending_not_fuzzed \in 0 .. U32 - 1 /\ pending_favored \in 0 .. U32 - 1
  /\ top_rated \subseteq Items /\ score_changed \in BOOLEAN
  /\ reinit_table \in BOOLEAN /\ prev_queued_items \in 0 .. Len(queue)
  /\ multi_alias \in [Target -> SUBSET Items] /\ single_alias \subseteq Items
  /\ yields \in [Target \cup {NoTarget} -> SUBSET Items]
  /\ queue_cur \in 0 .. Len(queue) /\ fsrvTarget \in Target \cup {NoTarget}
  /\ attended \subseteq Target

(* The alias table that the next selection indexes was built for exactly   *)
(* the entries there are, also right after the switch from the tables per  *)
(* target to the common one: no index is out of its bounds, and no entry   *)
(* is beyond reach.  It has an entry that the dry run did not take out of  *)
(* the queue, although whole targets may have lost all their seeds.  And   *)
(* what is drawn in the first cycle is of the target whose turn it is.     *)
SelectionSound ==
  /\ pc = "select" =>
       IF firstCycleDone THEN single_alias = Items /\ Enabled(Items) # {}
       ELSE /\ \A t \in Target : multi_alias[t] = EntriesOf(t)
            /\ Enabled(EntriesOf(nextTarget)) # {}
  /\ pc = "fuzz" /\ ~firstCycleDone => Cur.tgt = nextTarget

(* While inputs are mutated the fork server works on the target of the     *)
(* current queue entry: "the target to fuzz will be selected by afl-fuzz   *)
(* and communicated to the fork-server" (README.md).  Not so with -F, whose*)
(* imports restart the server behind the back of main().                   *)
RightServer == pc = "mutate" /\ ~mode.foreignSync => fsrvTarget = Cur.tgt

(* Entries are skipped in favour of new ones only after every active       *)
(* target has had its turn.                                                *)
AttentionFirst == firstCycleDone => targetActive \subseteq attended

(* In the first cycle fuzz_one does not skip the seed that was recorded    *)
(* for a target, whatever cull_queue has made of the scores meanwhile.     *)
SeedNotSkipped ==
  [][Skip /\ ~mode.resume /\ ~firstCycleDone => queue_cur > idx]_vars

(* With two active targets or more the first cycle comes to its end.       *)
FirstCycleEnds ==
  pc = "loop" /\ Cardinality(targetActive) > 1 ~> firstCycleDone

-----------------------------------------------------------------------------
(* What main() says of the same code.                                      *)

(* The dry run ends in the main loop or in a message, for instance that at *)
(* least one seed must not crash (main).                                   *)
DryRunReturns == pc = "dry" ~> pc \in {"loop", "fatal"}
=============================================================================
