-------------------------------- MODULE Sync --------------------------------
(***************************************************************************)
(* afl-fuzz instances that share an output directory: the scan by which    *)
(* one instance takes test cases from the others (sync_fuzzers in          *)
(* afl-fuzz-run.c), and the election of a temporary main node that is done *)
(* on the way.  The instances see of each other only files: a directory,   *)
(* its is_main_node, and its queue.  They run side by side, end, or are    *)
(* killed, and may be started again over the old directory.                *)
(***************************************************************************)
EXTENDS Naturals, FiniteSets

CONSTANTS
  Instance,    \* sync ids
  Main,        \* those that are started with -M, the others with -S
  Items,       \* test cases in a queue, where the seeds are from the start
  MaxStops     \* bound: instances that end or are killed

ASSUME MainAssumption == Main \subseteq Instance
ASSUME BoundsAssumption == Items \in Nat /\ MaxStops \in Nat

VARIABLES
  pc,          \* "off", "fuzz", or a place in sync_fuzzers
  isMain,      \* afl->is_main_node
  dirs,        \* instances whose directory exists
  mainFile,    \* those that have an is_main_node in it
  todo,        \* directory entries that the scan has not come to
  cur, saw,    \* the entry it is at, and whether access() found is_main_node
  entries,     \* the scan has met another instance
  synced,      \* the scan has met one to sync from
  accepted,    \* accepted[i][j]: min_accept in i/.synced/j
  looked,      \* looked[i][j]: the test cases of j that i has run
  stops, killed

scan == <<todo, cur, saw, entries, synced>>
data == <<accepted, looked>>
vars == <<pc, isMain, dirs, mainFile, scan, data, stops, killed>>

Secondary == Instance \ Main
Up(i) == pc[i] # "off"
Goto(i, l) == pc' = [pc EXCEPT ![i] = l]

(* The locals of the scan, and of the loop in it, go with it.              *)
LeaveEntry(i) == cur' = [cur EXCEPT ![i] = i] /\ saw' = [saw EXCEPT ![i] = FALSE]
LeaveScan(i) ==
  /\ LeaveEntry(i) /\ todo' = [todo EXCEPT ![i] = {}]
  /\ entries' = [entries EXCEPT ![i] = FALSE] /\ synced' = [synced EXCEPT ![i] = FALSE]

Init ==
  /\ pc = [i \in Instance |-> "off"] /\ isMain = [i \in Instance |-> FALSE]
  /\ dirs = {} /\ mainFile = {}
  /\ todo = [i \in Instance |-> {}] /\ cur = [i \in Instance |-> i]
  /\ saw = [i \in Instance |-> FALSE]
  /\ entries = [i \in Instance |-> FALSE] /\ synced = [i \in Instance |-> FALSE]
  /\ accepted = [i \in Instance |-> [j \in Instance |-> 0]]
  /\ looked = [i \in Instance |-> [j \in Instance |-> {}]]
  /\ stops = 0 /\ killed = {}

(* The options and setup_dirs_fds: a directory that exists is taken over,  *)
(* with an is_main_node that an instance that was killed has left; what is *)
(* in .synced is deleted unless the old session is resumed.                *)
Start(i) ==
  /\ ~Up(i) /\ Goto(i, "fuzz")
  /\ isMain' = [isMain EXCEPT ![i] = i \in Main]
  /\ dirs' = dirs \cup {i}
  /\ mainFile' = IF i \in Main THEN mainFile \cup {i} ELSE mainFile
  /\ \/ UNCHANGED data
     \/ /\ accepted' = [accepted EXCEPT ![i] = [j \in Instance |-> 0]]
        /\ looked' = [looked EXCEPT ![i] = [j \in Instance |-> {}]]
  /\ UNCHANGED <<scan, stops, killed>>

BeginSync(i) ==
  /\ pc[i] = "fuzz" /\ Goto(i, "scan")
  /\ todo' = [todo EXCEPT ![i] = dirs \ {i}]
  /\ UNCHANGED <<isMain, dirs, mainFile, cur, saw, entries, synced, data, stops, killed>>

(* The next entry, up to the result of access(), which is out of date at   *)
(* once.                                                                   *)
Look(i, j) ==
  /\ pc[i] = "scan" /\ j \in todo[i] /\ Goto(i, "act")
  /\ todo' = [todo EXCEPT ![i] = @ \ {j}]
  /\ cur' = [cur EXCEPT ![i] = j] /\ saw' = [saw EXCEPT ![i] = j \in mainFile]
  /\ entries' = [entries EXCEPT ![i] = TRUE]
  /\ UNCHANGED <<isMain, dirs, mainFile, synced, data, stops, killed>>

(* The queue of j, in the order of its names: "<target>-id:<number>,...".  *)
FileName(n) == [prefix |-> "target", id |-> n]

(* strncmp(name, "id:<number>", 9).                                        *)
Matches(name, n) == name.prefix = "" /\ name.id = n

(* The test cases from the first match on, and their number.               *)
News(i, j) ==
  LET from == {n \in 0 .. Items - 1 : Matches(FileName(n), accepted[i][j])}
  IN  {n \in 0 .. Items - 1 : \E m \in from : m <= n}

SyncFrom(i, j) ==
  /\ synced' = [synced EXCEPT ![i] = TRUE]
  /\ looked' = [looked EXCEPT ![i][j] = @ \cup News(i, j)]
  /\ accepted' = [accepted EXCEPT ![i][j] = @ + Cardinality(News(i, j))]

Demoted(i) == i \in Secondary /\ isMain[i] /\ saw[i]
Skips(i) == i \in Secondary /\ ~isMain[i] /\ ~saw[i]

(* The entry is passed over, or its test cases are taken.  A temporary     *)
(* main node that has seen another one steps down first.                   *)
ForgetfulAct(i) ==   \* faulty: is_main_node is not removed
  /\ pc[i] = "act" /\ Goto(i, "scan") /\ LeaveEntry(i)
  /\ isMain' = [isMain EXCEPT ![i] = @ /\ ~Demoted(i)]
  /\ IF Skips(i) THEN UNCHANGED <<synced, data>>
     ELSE SyncFrom(i, cur[i])
  /\ UNCHANGED <<dirs, mainFile, todo, entries, stops, killed>>
StubbornAct(i) ==   \* faulty: a temporary main node never steps down
  /\ pc[i] = "act" /\ Goto(i, "scan") /\ LeaveEntry(i)
  /\ IF Skips(i) THEN UNCHANGED <<synced, data>>
     ELSE SyncFrom(i, cur[i])
  /\ UNCHANGED <<isMain, dirs, mainFile, todo, entries, stops, killed>>
Act(i) ==
  /\ pc[i] = "act" /\ Goto(i, "scan") /\ LeaveEntry(i)
  /\ isMain' = [isMain EXCEPT ![i] = @ /\ ~Demoted(i)]
  /\ mainFile' = IF Demoted(i) THEN mainFile \ {i} ELSE mainFile
  /\ IF Skips(i) THEN UNCHANGED <<synced, data>>
     ELSE SyncFrom(i, cur[i])
  /\ UNCHANGED <<dirs, todo, entries, stops, killed>>

(* A secondary node that has found other nodes, but none to sync from,     *)
(* becomes a temporary main node.                                          *)
Elected(i) == entries[i] /\ ~synced[i] /\ i \in Secondary

HastyEndSync(i) ==   \* faulty: whether others were synced from is not asked
  /\ pc[i] = "scan" /\ todo[i] = {} /\ Goto(i, "fuzz") /\ LeaveScan(i)
  /\ isMain' = [isMain EXCEPT ![i] = @ \/ (entries[i] /\ i \in Secondary)]
  /\ mainFile' = IF entries[i] /\ i \in Secondary THEN mainFile \cup {i} ELSE mainFile
  /\ UNCHANGED <<dirs, data, stops, killed>>
ModestEndSync(i) ==   \* faulty: nobody is elected
  /\ pc[i] = "scan" /\ todo[i] = {} /\ Goto(i, "fuzz") /\ LeaveScan(i)
  /\ UNCHANGED <<isMain, dirs, mainFile, data, stops, killed>>
EndSync(i) ==
  /\ pc[i] = "scan" /\ todo[i] = {} /\ Goto(i, "fuzz") /\ LeaveScan(i)
  /\ isMain' = [isMain EXCEPT ![i] = @ \/ Elected(i)]
  /\ mainFile' = IF Elected(i) THEN mainFile \cup {i} ELSE mainFile
  /\ UNCHANGED <<dirs, data, stops, killed>>

(* stop_fuzzing, which a scan also comes to when it is over.               *)
Exit(i) ==
  /\ pc[i] = "fuzz" /\ stops < MaxStops /\ Goto(i, "off")
  /\ stops' = stops + 1 /\ isMain' = [isMain EXCEPT ![i] = FALSE]
  /\ mainFile' = IF isMain[i] THEN mainFile \ {i} ELSE mainFile
  /\ UNCHANGED <<dirs, scan, data, killed>>

Kill(i) ==
  /\ Up(i) /\ stops < MaxStops /\ Goto(i, "off") /\ LeaveScan(i)
  /\ stops' = stops + 1 /\ isMain' = [isMain EXCEPT ![i] = FALSE]
  /\ killed' = killed \cup {i}
  /\ UNCHANGED <<dirs, mainFile, data>>

Step(i) == BeginSync(i) \/ (\E j \in Instance : Look(i, j)) \/ Act(i) \/ EndSync(i)

Next == \E i \in Instance : Start(i) \/ Step(i) \/ Exit(i) \/ Kill(i)

Spec == Init /\ [][Next]_vars

(* A running instance syncs again and again: at every cycle of its queue,  *)
(* and from time to time in between.                                       *)
FairSpec == Spec /\ \A i \in Instance : WF_vars(Step(i))

-----------------------------------------------------------------------------
(* Every variable keeps to its type.                                       *)
TypeOK ==
  /\ pc \in [Instance -> {"off", "fuzz", "scan", "act"}]
  /\ isMain \in [Instance -> BOOLEAN]
  /\ dirs \subseteq Instance /\ mainFile \subseteq dirs
  /\ todo \in [Instance -> SUBSET dirs] /\ cur \in [Instance -> Instance]
  /\ saw \in [Instance -> BOOLEAN] /\ entries \in [Instance -> BOOLEAN]
  /\ synced \in [Instance -> BOOLEAN]
  /\ accepted \in [Instance -> [Instance -> 0 .. Items]]
  /\ looked \in [Instance -> [Instance -> SUBSET (0 .. Items - 1)]]
  /\ stops \in 0 .. MaxStops /\ killed \subseteq Instance

(* The file that the others go by says the truth: a running instance has   *)
(* is_main_node when it takes itself for the main node, and only then,     *)
(* unless it is left from a time it was killed.                            *)
FileIsTrue ==
  \A i \in Instance :
    /\ Up(i) /\ isMain[i] => i \in mainFile
    /\ i \in mainFile => (Up(i) /\ isMain[i]) \/ i \in killed

(* One main node, no file of another, and every other scan either has      *)
(* synced or will still come to it.                                        *)
Settled(m) ==
  /\ Up(m) /\ isMain[m] /\ mainFile = {m} /\ m \in dirs
  /\ pc[m] = "act" /\ m \in Secondary => ~saw[m]
  /\ \A i \in Instance \ {m} : Up(i) =>
       /\ ~isMain[i]
       /\ pc[i] = "scan" => synced[i] \/ m \in todo[i]
       /\ pc[i] = "act" => synced[i] \/ m \in todo[i] \/ saw[i]

(* Once there is one main node that nobody is about to overlook, no scan,  *)
(* however it interleaves with the others, makes a second one or takes it  *)
(* away; only an instance that starts with -M, ends or is killed does.     *)
StaysSettled ==
  [][\A m \in Instance :
       Settled(m) /\ stops' = stops /\ (\A i \in Main : Up(i)' = Up(i)) => Settled(m)']_vars

(* "one secondary node automatically becomes a temporary main node until a *)
(* real main nodes shows up": temporary ones give way for good while an    *)
(* instance with -M runs.                                                  *)
GivesWay ==
  \A m \in Main : <>[]Up(m) => <>[](\A i \in Secondary : Up(i) => ~isMain[i])

Leads(i) == Up(i) /\ isMain[i]

(* "If no main node is present at a sync one secondary node automatically  *)
(* becomes a temporary main node": beside a secondary node that has company*)
(* and keeps running there is a running main node again and again.  The    *)
(* exception is for ever, and against the quoted line: another instance was*)
(* killed as a main node, and nobody removes the file that it has left.    *)
MainElected ==
  \A i \in Secondary : <>[](Up(i) /\ dirs \ {i} # {}) =>
    \/ []<>(\E j \in Instance : Leads(j))
    \/ <>[](\E j \in mainFile \ {i} : ~Leads(j) /\ j \in killed)

(* "For every file queued by this fuzzer, parse ID and see if we have      *)
(* looked at it before; exec a test case if not": what the main node has   *)
(* in its queue gets to a secondary node that keeps running beside it.     *)
Exchanged ==
  \A m \in Main, i \in Secondary : <>[](Up(m) /\ Up(i)) =>
    <>[](\A n \in 0 .. Items - 1 : n \in looked[i][m])
=============================================================================
