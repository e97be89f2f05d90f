---------------------------- MODULE TestRecorder ----------------------------
(***************************************************************************)
(* The test amplifier's recorder (testamp/lib/src/main.c, whose calls      *)
(* testamp/pass/src/main.cc inserts): every process of a test suite notes  *)
(* which targets it enters and, when it exits, appends one record to       *)
(* /opt/fuzz.log under a lock file created with O_EXCL.  The processes run *)
(* side by side and any of them may be killed at any point.                *)
(***************************************************************************)
EXTENDS Naturals, Sequences, FiniteSets

CONSTANTS
  Test,      \* the processes of the test suite
  NoTest,
  Target,    \* the target functions that the configuration names
  NoTarget,
  Mangled,   \* those that are C++: the configuration has their mangled names
  WithoutArgs, \* those that take no arguments
  Calls,     \* the targets that each test's code can call
  MaxKilled  \* bound: tests that are killed

ASSUME TestAssumption == NoTest \notin Test
ASSUME NameAssumption == NoTarget \notin Target
ASSUME CallsAssumption == Calls \in [Test -> SUBSET Target]
ASSUME MaxKilledAssumption == MaxKilled \in Nat

VARIABLES
  pc,        \* where each process is
  lines,     \* the targets it has entered
  written,   \* those of them that have reached the file
  lockFile,  \* the process that created the lock file, if it exists
  log        \* the file, by what each flush of a stream has added to it

recorderVars == <<pc, lines, written, lockFile, log>>

(* What a flush brings of a record: its start ("FUNCTIONS:"), targets, the *)
(* environment and the command line, and at last the directory.            *)
Flush ==
  [by : Test, start : BOOLEAN, targets : SUBSET Target, cmd : BOOLEAN, end : BOOLEAN]

(* A target is noted by its signature, in which its name is demangled: that*)
(* of a C++ function is then nobody's name in the configuration.  Without  *)
(* arguments the blank and the parenthesis behind the name are cut off.    *)
Signature(t) ==
  [name |-> IF t \in Mangled THEN NoTarget ELSE t, args |-> t \notin WithoutArgs]

Goto(p, l) == pc' = [pc EXCEPT ![p] = l]

RecorderInit ==
  /\ pc = [p \in Test |-> "started"]
  /\ lines = [p \in Test |-> {}] /\ written = [p \in Test |-> {}]
  /\ lockFile = NoTest /\ log = <<>>

(* __ah_init, which main calls first.                                      *)
AhInit(p) ==
  /\ pc[p] = "started"
  /\ lines' = [lines EXCEPT ![p] = {}]
  /\ Goto(p, "running")
  /\ UNCHANGED <<written, lockFile, log>>

(* __ah_enter_function: array_add_without_repetition.  A constructor runs  *)
(* before __ah_init, when there is no array to add to.                     *)
EnterFunction(p, t) ==
  /\ pc[p] \in {"started", "running"}
  /\ lines' = IF pc[p] = "running" THEN [lines EXCEPT ![p] = @ \cup {t}] ELSE lines
  /\ UNCHANGED <<pc, written, lockFile, log>>

(* __ah_deinit, up to the lock: a process that entered no target has       *)
(* nothing to say.                                                         *)
AhDeinit(p) ==
  /\ pc[p] = "running"
  /\ Goto(p, IF lines[p] = {} THEN "done" ELSE "lock")
  /\ UNCHANGED <<lines, written, lockFile, log>>

NonExclusiveAcquire(p) ==   \* faulty: without O_EXCL it always succeeds
  /\ pc[p] = "lock"
  /\ lockFile' = p /\ Goto(p, "write")
  /\ UNCHANGED <<lines, written, log>>
Acquire(p) ==
  /\ pc[p] = "lock" /\ lockFile = NoTest
  /\ lockFile' = p /\ Goto(p, "write")
  /\ UNCHANGED <<lines, written, log>>

Poll(p) == pc[p] = "lock" /\ lockFile # NoTest /\ UNCHANGED recorderVars

(* addToLog: a record that is longer than the stream's buffer reaches the  *)
(* file in pieces, and fclose writes what is left.  The first piece may go *)
(* as far as into the targets or, behind all of them, the command line.    *)
FlushBuffer(p) ==
  /\ pc[p] = "write"
  /\ \/ \E ts \in SUBSET lines[p] :
          /\ written' = [written EXCEPT ![p] = ts]
          /\ log' = Append(log, [by |-> p, start |-> TRUE, targets |-> ts,
                                 cmd |-> FALSE, end |-> FALSE])
          /\ Goto(p, "close")
     \/ /\ written' = [written EXCEPT ![p] = lines[p]]
        /\ log' = Append(log, [by |-> p, start |-> TRUE, targets |-> lines[p],
                               cmd |-> TRUE, end |-> FALSE])
        /\ Goto(p, "directory")
  /\ UNCHANGED <<lines, lockFile>>

CloseLog(p) ==
  /\ pc[p] \in {"write", "close", "directory"}
  /\ log' = Append(log, [by |-> p, start |-> pc[p] = "write", targets |-> lines[p] \ written[p],
                         cmd |-> pc[p] # "directory", end |-> TRUE])
  /\ written' = [written EXCEPT ![p] = lines[p]]
  /\ Goto(p, "unlock")
  /\ UNCHANGED <<lines, lockFile>>

NoUnlink(p) ==   \* faulty: the lock file is left behind
  /\ pc[p] = "unlock"
  /\ Goto(p, "done")
  /\ UNCHANGED <<lines, written, lockFile, log>>
Unlink(p) ==
  /\ pc[p] = "unlock"
  /\ lockFile' = NoTest /\ Goto(p, "done")
  /\ UNCHANGED <<lines, written, log>>

(* The process is killed, or ends without a call of exit.                  *)
Die(p) ==
  /\ pc[p] \notin {"done", "dead"}
  /\ Cardinality({q \in Test : pc[q] = "dead"}) < MaxKilled
  /\ Goto(p, "dead")
  /\ UNCHANGED <<lines, written, lockFile, log>>

Advance(p) ==
  AhInit(p) \/ AhDeinit(p) \/ Acquire(p) \/ CloseLog(p) \/ Unlink(p)

RecorderNext ==
  \E p \in Test : \/ Advance(p) \/ Poll(p) \/ FlushBuffer(p) \/ Die(p)
                  \/ \E t \in Calls[p] : EnterFunction(p, t)

RecorderSpec == RecorderInit /\ [][RecorderNext]_recorderVars

-----------------------------------------------------------------------------
(* Every variable of the recorder keeps to its type.                       *)
RecorderTypeOK ==
  /\ pc \in [Test -> {"started", "running", "lock", "write", "close", "directory", "unlock",
                      "done", "dead"}]
  /\ lines \in [Test -> SUBSET Target] /\ written \in [Test -> SUBSET Target]
  /\ lockFile \in Test \cup {NoTest} /\ log \in Seq(Flush)

(* Records do not mix, whoever is killed when: a flush that is not the end *)
(* of its record is followed by that end, of the same process, or is the   *)
(* last of the log, and then its process still has the lock; and a record  *)
(* that has its end names the targets its process entered, all of them,    *)
(* and its command line, once.                                             *)
RecordsWhole ==
  \A n \in DOMAIN log :
    /\ log[n].end \/ (n = Len(log) /\ lockFile = log[n].by)
                  \/ (n + 1 \in DOMAIN log /\ log[n + 1].by = log[n].by
                        /\ log[n + 1].end /\ ~log[n + 1].start)
    /\ log[n].end /\ log[n].start => log[n].targets = lines[log[n].by] /\ log[n].cmd
    /\ ~log[n].start =>
         /\ n - 1 \in DOMAIN log /\ log[n - 1].by = log[n].by /\ log[n - 1].start
         /\ log[n - 1].targets \cup log[n].targets = lines[log[n].by]
         /\ log[n - 1].cmd <=> ~log[n].cmd

(* The holder of the lock file has been killed: nobody will remove it.     *)
Stale == lockFile # NoTest /\ pc[lockFile] = "dead"

(* Nothing more will happen to the log.                                    *)
SuiteOver ==
  \A p \in Test : pc[p] \in {"done", "dead"} \/ (pc[p] = "lock" /\ Stale)

(* The lock that __ah_deinit polls every 50 ms lets every test end: it is  *)
(* only for ever when its holder was killed before unlink.  (Or when open  *)
(* fails for another reason than the lock file, say for want of rights,    *)
(* which the loop does not tell apart; /opt is taken to be writable.)      *)
SuiteEnds == <>((\A p \in Test : pc[p] \in {"done", "dead"}) \/ Stale)
=============================================================================
