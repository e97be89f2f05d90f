--------------------------- MODULE TestampProofs ---------------------------
(* Proofs about TestRecorder and SetupFuzzers, for any number of tests and *)
(* of kills, any targets and any budget.                                   *)
EXTENDS SetupFuzzers, FiniteSetTheorems, TLAPS

(* Unless a step says otherwise: Zenon for a moment, SMT, Zenon.           *)
USE ZenonT(2), SMTT(30), ZenonT(30)

-----------------------------------------------------------------------------
(* The recorder                                                            *)

Inside(p) == pc[p] \in {"write", "close", "directory", "unlock"}
Early(p) == pc[p] \in {"started", "running", "lock", "write"}

(* Who is between two flushes has made the last one; who has made both has *)
(* ended the log.                                                          *)
Between(p) ==
  LET f == log[Len(log)]
  IN  /\ Len(log) > 0 /\ f.by = p /\ f.start /\ ~f.end
      /\ f.targets = written[p] /\ written[p] \subseteq lines[p]
      /\ f.cmd <=> pc[p] = "directory"

(* The process has brought its record to its end.                          *)
Recorded(p) == \E n \in Ends : log[n].by = p

(* A piece that goes on with a record follows one without an end.          *)
Continued == \A n \in DOMAIN log : ~log[n].start => ~log[n - 1].end

(* Who is inside has the lock, and who is not there yet or past it has     *)
(* not; who has not written is not in the log; who had targets to report   *)
(* has reported them.                                                      *)
ProcessInv(p) ==
  /\ Inside(p) => lockFile = p
  /\ pc[p] \in {"started", "running", "lock", "done"} => lockFile # p
  /\ Early(p) => written[p] = {} /\ \A n \in DOMAIN log : log[n].by # p
  /\ pc[p] \in {"close", "directory"} => Between(p)
  /\ pc[p] = "unlock" => Len(log) > 0 /\ log[Len(log)].end
  /\ pc[p] = "unlock" \/ (pc[p] = "done" /\ lines[p] # {}) => Recorded(p)

(* The inductive invariant of the recorder.                                *)
RecorderInv ==
  RecorderTypeOK /\ RecordsWhole /\ Continued /\ \A p \in Test : ProcessInv(p)

(* Nobody has written when the suite starts.                               *)
LEMMA RecorderInitInv == RecorderInit => RecorderInv
<1> SUFFICES ASSUME RecorderInit PROVE RecorderInv
  OBVIOUS
<1>1. RecorderTypeOK /\ RecordsWhole /\ Continued
  BY TestAssumption DEF RecorderInit, RecorderTypeOK, RecordsWhole, Continued, Flush
<1>2. \A p \in Test : ProcessInv(p)
  BY TestAssumption DEF RecorderInit, ProcessInv, Inside, Early
<1> QED
  BY <1>1, <1>2 DEF RecorderInv

(* A flush is of one of the tests.                                         *)
LEMMA FlushTypes == ASSUME log \in Seq(Flush), NEW n \in DOMAIN log PROVE log[n].by \in Test
<1>1. log[n] \in Flush
  OBVIOUS
<1> QED
  BY <1>1 DEF Flush

(* A log that a process adds to ends with the end of a record.             *)
LEMMA EndsWhole ==
  ASSUME RecorderInv, Len(log) > 0,
         lockFile = NoTest \/ \E p \in Test : lockFile = p /\ pc[p] = "write"
  PROVE  log[Len(log)].end
<1> DEFINE f == log[Len(log)]
<1>0. log \in Seq(Flush) /\ Len(log) \in DOMAIN log
  BY DEF RecorderInv, RecorderTypeOK
<1>1. Len(log) \in DOMAIN log /\ f.by \in Test
  BY <1>0, FlushTypes
<1>2. f.end \/ lockFile = f.by
  BY <1>1 DEF RecorderInv, RecordsWhole
<1>3. lockFile # f.by
  BY <1>1, TestAssumption DEF RecorderInv, ProcessInv, Early
<1> QED
  BY <1>2, <1>3

(* A step that leaves the log alone, and the lines of those that are in    *)
(* it, keeps its records whole if the lock stays or the log has its end.   *)
LEMMA LogKept ==
  ASSUME RecorderInv, UNCHANGED log,
         \A n \in DOMAIN log : lines'[log[n].by] = lines[log[n].by],
         lockFile' = lockFile \/ (Len(log) > 0 => log[Len(log)].end)
  PROVE  RecordsWhole'
<1>1. log \in Seq(Flush) /\ RecordsWhole
  BY DEF RecorderInv, RecorderTypeOK
<1> QED
  BY <1>1 DEF RecordsWhole

(* What holds of a process goes on to do so when others do something that  *)
(* is not about the log.                                                   *)
LEMMA Untouched ==
  ASSUME NEW q \in Test, ProcessInv(q), UNCHANGED <<pc[q], lines[q], written[q], log>>,
         lockFile' = lockFile \/ (~Inside(q) /\ lockFile' # q)
  PROVE  ProcessInv(q)'
<1>1. UNCHANGED <<Inside(q), Early(q), Between(q), Recorded(q)>>
  BY DEF Inside, Early, Between, Recorded, Ends
<1> QED
  BY <1>1 DEF ProcessInv, Inside

(* What a flush does to the log.                                           *)
LEMMA Appended ==
  ASSUME log \in Seq(Flush), NEW f \in Flush, log' = Append(log, f)
  PROVE  /\ log' \in Seq(Flush) /\ Len(log) \in Nat /\ Len(log') = Len(log) + 1
         /\ DOMAIN log = 1 .. Len(log) /\ DOMAIN log' = 1 .. Len(log) + 1
         /\ \A n \in DOMAIN log : log'[n] = log[n]
         /\ log'[Len(log) + 1] = f
OBVIOUS

(* What holds of a process that is outside goes on to do so when another   *)
(* one adds to the log.                                                    *)
LEMMA Bystander ==
  ASSUME NEW p \in Test, NEW q \in Test, q # p, ProcessInv(q), ~Inside(q),
         UNCHANGED <<pc[q], lines[q], written[q], lockFile>>,
         log \in Seq(Flush), NEW f \in Flush, log' = Append(log, f), f.by = p
  PROVE  ProcessInv(q)'
<1>1. /\ \A n \in DOMAIN log : n \in DOMAIN log' /\ log'[n] = log[n]
      /\ \A n \in DOMAIN log' : n \in DOMAIN log \/ log'[n] = f
  BY Appended
<1>2. Recorded(q) => Recorded(q)'
  BY <1>1 DEF Recorded, Ends
<1>3. UNCHANGED <<Inside(q), Early(q)>>
  BY DEF Inside, Early
<1>4. (\A n \in DOMAIN log : log[n].by # q) => \A n \in DOMAIN log' : log'[n].by # q
  BY <1>1
<1> QED
  BY <1>2, <1>3, <1>4 DEF ProcessInv, Inside

(* Every step of every process keeps the invariant.                        *)
LEMMA RecorderNextInv == RecorderInv /\ [RecorderNext]_recorderVars => RecorderInv'
<1> SUFFICES ASSUME RecorderInv, [RecorderNext]_recorderVars PROVE RecorderInv'
  OBVIOUS
<1> USE DEF Goto
<1>0. /\ RecorderTypeOK /\ log \in Seq(Flush) /\ \A n \in DOMAIN log : log[n].by \in Test
      /\ RecordsWhole /\ Continued /\ \A q \in Test : ProcessInv(q)
  BY FlushTypes DEF RecorderInv, RecorderTypeOK
<1>1. CASE UNCHANGED recorderVars
  <2>1. \A q \in Test : ProcessInv(q)'
    BY <1>0, <1>1, Untouched DEF recorderVars
  <2>2. RecorderTypeOK' /\ RecordsWhole' /\ Continued'
    BY <1>0, <1>1 DEF recorderVars, RecorderTypeOK, RecordsWhole, Continued
  <2> QED
    BY <2>1, <2>2 DEF RecorderInv
<1>2. ASSUME NEW p \in Test, AhInit(p) PROVE RecorderInv'
  <2>1. RecordsWhole'
    BY <1>0, <1>2, LogKept DEF AhInit, ProcessInv, Early, RecorderTypeOK
  <2>2. RecorderTypeOK' /\ Continued'
    BY <1>0, <1>2 DEF AhInit, RecorderTypeOK, Continued
  <2>3. ASSUME NEW q \in Test, q # p PROVE ProcessInv(q)'
    BY <1>0, <1>2, <2>3, Untouched DEF AhInit, RecorderTypeOK
  <2>4. ProcessInv(p)'
    BY <1>0, <1>2 DEF AhInit, RecorderTypeOK, ProcessInv, Inside, Early
  <2> QED
    BY <2>1, <2>2, <2>3, <2>4 DEF RecorderInv
<1>3. ASSUME NEW p \in Test, NEW t \in Calls[p], EnterFunction(p, t) PROVE RecorderInv'
  <2>1. t \in Target
    BY CallsAssumption
  <2>2. RecordsWhole'
    BY <1>0, <1>3, LogKept DEF EnterFunction, ProcessInv, Early, RecorderTypeOK
  <2>3. RecorderTypeOK' /\ Continued'
    BY <1>0, <1>3, <2>1 DEF EnterFunction, RecorderTypeOK, Continued
  <2>4. ASSUME NEW q \in Test, q # p PROVE ProcessInv(q)'
    BY <1>0, <1>3, <2>4, Untouched DEF EnterFunction, RecorderTypeOK
  <2>5. ProcessInv(p)'
    BY <1>0, <1>3 DEF EnterFunction, RecorderTypeOK, ProcessInv, Inside, Early
  <2> QED
    BY <2>2, <2>3, <2>4, <2>5 DEF RecorderInv
<1>4. ASSUME NEW p \in Test, AhDeinit(p) PROVE RecorderInv'
  <2>1. RecordsWhole'
    BY <1>4, LogKept DEF AhDeinit
  <2>2. RecorderTypeOK' /\ Continued'
    BY <1>0, <1>4 DEF AhDeinit, RecorderTypeOK, Continued
  <2>3. ASSUME NEW q \in Test, q # p PROVE ProcessInv(q)'
    BY <1>0, <1>4, <2>3, Untouched DEF AhDeinit, RecorderTypeOK
  <2>4. ProcessInv(p)'
    BY <1>0, <1>4 DEF AhDeinit, RecorderTypeOK, ProcessInv, Inside, Early
  <2> QED
    BY <2>1, <2>2, <2>3, <2>4 DEF RecorderInv
<1>5. ASSUME NEW p \in Test, Acquire(p) PROVE RecorderInv'
  <2>1. RecordsWhole'
    BY <1>5, LogKept, EndsWhole DEF Acquire
  <2>2. RecorderTypeOK' /\ Continued'
    BY <1>0, <1>5 DEF Acquire, RecorderTypeOK, Continued
  <2>3. ASSUME NEW q \in Test, q # p PROVE ProcessInv(q)'
    <3>1. ~Inside(q) /\ lockFile' # q
      BY <1>0, <1>5, <2>3, TestAssumption DEF Acquire, ProcessInv
    <3> QED
      BY <1>0, <1>5, <2>3, <3>1, Untouched DEF Acquire, RecorderTypeOK
  <2>4. ProcessInv(p)'
    BY <1>0, <1>5 DEF Acquire, RecorderTypeOK, ProcessInv, Inside, Early
  <2> QED
    BY <2>1, <2>2, <2>3, <2>4 DEF RecorderInv
<1>6. ASSUME NEW p \in Test, FlushBuffer(p) PROVE RecorderInv'
  <2>1. PICK ts \in SUBSET lines[p], cmd \in BOOLEAN :
          /\ written' = [written EXCEPT ![p] = ts]
          /\ log' = Append(log, [by |-> p, start |-> TRUE, targets |-> ts,
                                 cmd |-> cmd, end |-> FALSE])
          /\ pc' = [pc EXCEPT ![p] = IF cmd THEN "directory" ELSE "close"]
    <3>1. CASE \E ts \in SUBSET lines[p] :
                 /\ written' = [written EXCEPT ![p] = ts]
                 /\ log' = Append(log, [by |-> p, start |-> TRUE, targets |-> ts,
                                        cmd |-> FALSE, end |-> FALSE])
                 /\ pc' = [pc EXCEPT ![p] = "close"]
      BY <3>1
    <3>2. CASE /\ written' = [written EXCEPT ![p] = lines[p]]
               /\ log' = Append(log, [by |-> p, start |-> TRUE, targets |-> lines[p],
                                      cmd |-> TRUE, end |-> FALSE])
               /\ pc' = [pc EXCEPT ![p] = "directory"]
      BY <3>2
    <3> QED
      BY <1>6, <3>1, <3>2 DEF FlushBuffer
  <2> DEFINE f == [by |-> p, start |-> TRUE, targets |-> ts, cmd |-> cmd, end |-> FALSE]
  <2>2. pc[p] = "write" /\ UNCHANGED <<lines, lockFile>>
    BY <1>6 DEF FlushBuffer
  <2>3. lockFile = p /\ (Len(log) > 0 => log[Len(log)].end)
    BY <1>0, <2>2, EndsWhole DEF ProcessInv, Inside
  <2>4. f \in Flush /\ f.by = p /\ f.start /\ ~f.end /\ f.targets = ts /\ f.cmd = cmd
    BY <1>0, <2>1 DEF Flush, RecorderTypeOK
  <2> HIDE DEF f
  <2>a. /\ log' \in Seq(Flush) /\ Len(log) \in Nat /\ Len(log') = Len(log) + 1
        /\ DOMAIN log = 1 .. Len(log) /\ DOMAIN log' = 1 .. Len(log) + 1
        /\ \A n \in DOMAIN log : log'[n] = log[n]
        /\ log'[Len(log) + 1] = f
    BY <1>0, <2>1, <2>4, Appended DEF f
  <2>5. RecorderTypeOK'
    BY <1>0, <2>1, <2>2, <2>a DEF RecorderTypeOK
  <2>6. RecordsWhole'
    <3>1. UNCHANGED <<lines, lockFile>>
      BY <2>2
    <3>2. ASSUME NEW n \in DOMAIN log'
          PROVE  \/ log'[n].end \/ (n = Len(log') /\ lockFile' = log'[n].by)
                 \/ (n + 1 \in DOMAIN log' /\ log'[n + 1].by = log'[n].by
                       /\ log'[n + 1].end /\ ~log'[n + 1].start)
      <4>1. CASE n = Len(log) + 1
        BY <2>3, <2>4, <2>a, <3>1, <4>1
      <4>2. CASE n \in DOMAIN log /\ n = Len(log)
        <5>1. Len(log) > 0 /\ log'[n] = log[Len(log)]
          BY <2>a, <4>2
        <5> QED
          BY <2>3, <5>1
      <4>3. CASE n \in DOMAIN log /\ n # Len(log)
        BY <1>0, <2>a, <4>3 DEF RecordsWhole
      <4> QED
        BY <2>a, <4>1, <4>2, <4>3
    <3>3. ASSUME NEW n \in DOMAIN log', log'[n].end, log'[n].start
          PROVE  log'[n].targets = lines'[log'[n].by] /\ log'[n].cmd
      <4>1. n \in DOMAIN log
        BY <2>4, <2>a, <3>3
      <4> QED
        BY <1>0, <2>a, <3>1, <3>3, <4>1 DEF RecordsWhole
    <3>4. ASSUME NEW n \in DOMAIN log', ~log'[n].start
          PROVE  /\ n - 1 \in DOMAIN log' /\ log'[n - 1].by = log'[n].by /\ log'[n - 1].start
                 /\ log'[n - 1].targets \cup log'[n].targets = lines'[log'[n].by]
                 /\ log'[n - 1].cmd <=> ~log'[n].cmd
      <4>1. n \in DOMAIN log
        BY <2>4, <2>a, <3>4
      <4> QED
        BY <1>0, <2>a, <3>1, <3>4, <4>1 DEF RecordsWhole
    <3> QED
      BY <3>2, <3>3, <3>4 DEF RecordsWhole
  <2>b. Continued'
    BY <1>0, <2>4, <2>a DEF Continued, RecordsWhole
  <2>7. ASSUME NEW q \in Test, q # p PROVE ProcessInv(q)'
    <3>1. ~Inside(q)
      BY <1>0, <2>3, <2>7 DEF ProcessInv
    <3>2. UNCHANGED <<pc[q], lines[q], written[q], lockFile>>
      BY <1>0, <2>1, <2>2, <2>7 DEF RecorderTypeOK
    <3> QED
      BY <1>0, <2>1, <2>4, <2>7, <3>1, <3>2, Bystander DEF f
  <2>8. Between(p)'
    BY <1>0, <2>1, <2>2, <2>4, <2>a DEF Between, RecorderTypeOK
  <2>9. ProcessInv(p)'
    BY <1>0, <2>1, <2>2, <2>3, <2>8 DEF ProcessInv, Inside, Early, RecorderTypeOK
  <2> QED
    BY <2>5, <2>6, <2>b, <2>7, <2>9 DEF RecorderInv
<1>7. ASSUME NEW p \in Test, CloseLog(p) PROVE RecorderInv'
  <2> DEFINE f == [by |-> p, start |-> pc[p] = "write",
                   targets |-> lines[p] \ written[p], cmd |-> pc[p] # "directory",
                   end |-> TRUE]
  <2>1. /\ log' = Append(log, f) /\ written' = [written EXCEPT ![p] = lines[p]]
        /\ pc[p] \in {"write", "close", "directory"} /\ pc' = [pc EXCEPT ![p] = "unlock"]
        /\ UNCHANGED <<lines, lockFile>>
    BY <1>7 DEF CloseLog
  <2>2. lockFile = p
    BY <1>0, <2>1 DEF ProcessInv, Inside
  <2>3. f \in Flush /\ f.by = p /\ f.end
    BY <1>0 DEF Flush, RecorderTypeOK
  <2>4. ASSUME pc[p] = "write"
        PROVE  /\ f.start /\ f.targets = lines[p] /\ f.cmd
               /\ Len(log) > 0 => log[Len(log)].end
    <3>1. (Len(log) > 0 => log[Len(log)].end) /\ written[p] = {}
      BY <1>0, <2>2, <2>4, EndsWhole DEF ProcessInv, Early
    <3> QED
      BY <2>4, <3>1
  <2>5. ASSUME pc[p] \in {"close", "directory"}
        PROVE  /\ ~f.start /\ Len(log) > 0 /\ log[Len(log)].targets \cup f.targets = lines[p]
               /\ log[Len(log)].by = p /\ log[Len(log)].start /\ ~log[Len(log)].end
               /\ log[Len(log)].cmd <=> ~f.cmd
    <3>1. Between(p)
      BY <1>0, <2>5 DEF ProcessInv
    <3> QED
      BY <2>5, <3>1 DEF Between
  <2> HIDE DEF f
  <2>a. /\ log' \in Seq(Flush) /\ Len(log) \in Nat /\ Len(log') = Len(log) + 1
        /\ DOMAIN log = 1 .. Len(log) /\ DOMAIN log' = 1 .. Len(log) + 1
        /\ \A n \in DOMAIN log : log'[n] = log[n]
        /\ log'[Len(log) + 1] = f
    BY <1>0, <2>1, <2>3, Appended
  <2>6. RecorderTypeOK'
    BY <1>0, <2>1, <2>a DEF RecorderTypeOK
  <2>7. ASSUME NEW n \in DOMAIN log'
        PROVE  log'[n].end \/ (n + 1 \in DOMAIN log' /\ log'[n + 1].by = log'[n].by
                                 /\ log'[n + 1].end /\ ~log'[n + 1].start)
    <3>1. CASE n = Len(log) + 1
      BY <2>3, <2>a, <3>1
    <3>2. CASE n = Len(log)
      <4>1. CASE pc[p] = "write"
        BY <2>4, <2>a, <2>7, <3>2, <4>1
      <4>2. CASE pc[p] \in {"close", "directory"}
        BY <2>3, <2>5, <2>a, <3>2, <4>2
      <4> QED
        BY <2>1, <4>1, <4>2
    <3>3. CASE n \in DOMAIN log /\ n # Len(log)
      BY <1>0, <2>a, <3>3 DEF RecordsWhole
    <3> QED
      BY <2>a, <3>1, <3>2, <3>3
  <2>8. ASSUME NEW n \in DOMAIN log', log'[n].end, log'[n].start
        PROVE  log'[n].targets = lines'[log'[n].by] /\ log'[n].cmd
    <3>1. CASE n \in DOMAIN log
      BY <1>0, <2>1, <2>8, <2>a, <3>1 DEF RecordsWhole
    <3>2. CASE n = Len(log) + 1
      BY <2>1, <2>3, <2>4, <2>5, <2>8, <2>a, <3>2
    <3> QED
      BY <2>a, <3>1, <3>2
  <2>9. ASSUME NEW n \in DOMAIN log', ~log'[n].start
        PROVE  /\ n - 1 \in DOMAIN log' /\ log'[n - 1].by = log'[n].by
               /\ log'[n - 1].start /\ ~log'[n - 1].end
               /\ log'[n - 1].targets \cup log'[n].targets = lines'[log'[n].by]
               /\ log'[n - 1].cmd <=> ~log'[n].cmd
    <3>1. CASE n \in DOMAIN log
      BY <1>0, <2>1, <2>9, <2>a, <3>1 DEF RecordsWhole, Continued
    <3>2. CASE n = Len(log) + 1
      <4>1. pc[p] \in {"close", "directory"}
        BY <2>1, <2>4, <2>9, <2>a, <3>2
      <4>2. n - 1 = Len(log) /\ Len(log) \in DOMAIN log
        BY <2>5, <2>a, <3>2, <4>1
      <4> QED
        BY <2>1, <2>3, <2>5, <2>a, <3>2, <4>1, <4>2
    <3> QED
      BY <2>a, <3>1, <3>2
  <2>b. RecordsWhole' /\ Continued'
    BY <2>7, <2>8, <2>9 DEF RecordsWhole, Continued
  <2>c. ASSUME NEW q \in Test, q # p PROVE ProcessInv(q)'
    <3>1. ~Inside(q)
      BY <1>0, <2>2, <2>c DEF ProcessInv
    <3>2. UNCHANGED <<pc[q], lines[q], written[q], lockFile>>
      BY <1>0, <2>1, <2>c DEF RecorderTypeOK
    <3> QED
      BY <1>0, <2>1, <2>3, <2>c, <3>1, <3>2, Bystander
  <2>d. Recorded(p)'
    BY <2>3, <2>a DEF Recorded, Ends
  <2>e. ProcessInv(p)'
    BY <1>0, <2>1, <2>2, <2>3, <2>a, <2>d DEF ProcessInv, Inside, Early, RecorderTypeOK
  <2> QED
    BY <2>6, <2>b, <2>c, <2>e DEF RecorderInv
<1>8. ASSUME NEW p \in Test, Unlink(p) PROVE RecorderInv'
  <2>1. lockFile = p /\ Len(log) > 0 /\ log[Len(log)].end
    BY <1>0, <1>8 DEF Unlink, ProcessInv, Inside
  <2>2. RecordsWhole'
    BY <1>8, <2>1, LogKept DEF Unlink
  <2>3. RecorderTypeOK' /\ Continued'
    BY <1>0, <1>8 DEF Unlink, RecorderTypeOK, Continued
  <2>4. ASSUME NEW q \in Test, q # p PROVE ProcessInv(q)'
    <3>1. ~Inside(q) /\ lockFile' # q
      BY <1>0, <1>8, <2>1, <2>4, TestAssumption DEF Unlink, ProcessInv
    <3> QED
      BY <1>0, <1>8, <2>4, <3>1, Untouched DEF Unlink, RecorderTypeOK
  <2>5. Recorded(p)'
    BY <1>0, <1>8 DEF Unlink, ProcessInv, Recorded, Ends
  <2>6. ProcessInv(p)'
    BY <1>0, <1>8, <2>5, TestAssumption DEF Unlink, ProcessInv, Inside, Early, RecorderTypeOK
  <2> QED
    BY <2>2, <2>3, <2>4, <2>6 DEF RecorderInv
<1>9. ASSUME NEW p \in Test, Die(p) PROVE RecorderInv'
  <2>1. RecordsWhole'
    BY <1>9, LogKept DEF Die
  <2>2. RecorderTypeOK' /\ Continued'
    BY <1>0, <1>9 DEF Die, RecorderTypeOK, Continued
  <2>3. ASSUME NEW q \in Test, q # p PROVE ProcessInv(q)'
    BY <1>0, <1>9, <2>3, Untouched DEF Die, RecorderTypeOK
  <2>4. ProcessInv(p)'
    BY <1>0, <1>9 DEF Die, RecorderTypeOK, ProcessInv, Inside, Early
  <2> QED
    BY <2>1, <2>2, <2>3, <2>4 DEF RecorderInv
<1> QED
  BY <1>1, <1>2, <1>3, <1>4, <1>5, <1>6, <1>7, <1>8, <1>9
     DEF RecorderNext, Advance, Poll

(* Whatever tests exit side by side, and whichever are killed in the       *)
(* middle of it, the records of /opt/fuzz.log do not mix, and each one     *)
(* that has its end names exactly the targets its process entered and has  *)
(* its command line.                                                       *)
THEOREM RecordsAreWhole == RecorderSpec => []RecordsWhole
<1>1. RecorderInv => RecordsWhole
  BY DEF RecorderInv
<1> QED
  BY RecorderInitInv, RecorderNextInv, <1>1, PTL DEF RecorderSpec

-----------------------------------------------------------------------------
(* The script                                                              *)

(* What get_fuzzing_commands returned are commands of single processes,    *)
(* with the targets they entered that can be found, and maimed ones.       *)
CommandsInv ==
  /\ \A c \in Range(collected.commands) :
       Maimed(c) \/ \E p \in Test : IsOf(c, p) /\ c.targets = lines[p] \cap Recognised
  /\ executed = UNION {c.targets : c \in Range(collected.commands)}

(* What successful campaigns were offered is on the blacklist from then on.*)
BlacklistInv ==
  \A k \in Counts : Maimed(ran[k].command) \/ ran[k].offered \cap Recognised \subseteq fuzzed

(* Every successful campaign was given its targets' share of the budget,   *)
(* and less than a target's share more.                                    *)
BudgetInv ==
  LET n == Cardinality(executed)
  IN  /\ Counts # {} => n > 0
      /\ spent * n <= Budget * Cardinality(fuzzed) + Cardinality(Counts) * (n - 1)

(* Before it is started the script has nothing.                            *)
Nothing ==
  /\ collected.commands = <<>> /\ commands = {} /\ executed = {} /\ fuzzed = {}
  /\ ran = <<>> /\ spent = 0

(* The inductive invariant of the whole: before the script starts it has   *)
(* nothing, and after that nobody writes to the log.                       *)
IInv ==
  /\ RecorderInv /\ TypeOK /\ CommandsInv /\ BlacklistInv /\ BudgetInv
  /\ RecordsArrive /\ FuzzedOnce /\ CountsOnlyIfTried
  /\ script = "waiting" => Nothing
  /\ script # "waiting" => SuiteOver

(* A set of numbers that is not empty has a least one.                     *)
LEMMA LeastElement ==
  ASSUME NEW S \in SUBSET Nat, S # {}
  PROVE  \E m \in S : \A k \in S : m <= k
<1> DEFINE T == {0 .. n : n \in S}
<1>1. T \subseteq FiniteSubsetsOf(Nat) /\ T # {}
  <2>1. \A n \in S : 0 .. n \in SUBSET Nat /\ IsFiniteSet(0 .. n)
    BY FS_Interval
  <2> QED
    BY <2>1 DEF FiniteSubsetsOf
<1>2. PICK x \in T : \A y \in T : <<y, x>> \notin StrictSubsetOrdering(Nat)
  <2>1. IsWellFoundedOn(StrictSubsetOrdering(Nat), FiniteSubsetsOf(Nat))
    BY FS_StrictSubsetOrderingWellFounded
  <2> HIDE DEF T
  <2> QED
    BY <1>1, <2>1, WFMin
<1>3. PICK m \in S : x = 0 .. m
  BY <1>2
<1>4. ASSUME NEW k \in S, k < m PROVE FALSE
  <2>1. 0 .. k \subseteq 0 .. m /\ 0 .. k # 0 .. m
    <3>1. m \in 0 .. m /\ m \notin 0 .. k
      BY <1>4
    <3> QED
      BY <1>4, <3>1
  <2>2. <<0 .. k, 0 .. m>> \in StrictSubsetOrdering(Nat)
    BY <2>1 DEF StrictSubsetOrdering
  <2> QED
    BY <1>2, <1>3, <2>2
<1> QED
  BY <1>4

(* The greatest number of a set is its Max.                                *)
LEMMA MaxIs ==
  ASSUME NEW S \in SUBSET Nat, NEW m \in S, \A y \in S : y <= m
  PROVE  Max(S) = m
<1>1. m \in S /\ \A y \in S : m >= y
  OBVIOUS
<1>2. Max(S) \in S /\ \A y \in S : Max(S) >= y
  BY <1>1 DEF Max
<1>3. Max(S) >= m /\ Max(S) <= m /\ Max(S) \in Nat /\ m \in Nat
  BY <1>2
<1> QED
  BY <1>3

(* A place of the log belongs to the record that starts there or just      *)
(* before.                                                                 *)
LEMMA RecordOfPlace ==
  ASSUME RecorderInv, NEW n \in DOMAIN log
  PROVE  /\ RecordOf(n) = IF log[n].start THEN n ELSE n - 1
         /\ RecordOf(n) \in Starts
<1>1. log \in Seq(Flush) /\ RecordsWhole
  BY DEF RecorderInv, RecorderTypeOK
<1>2. DOMAIN log = 1 .. Len(log) /\ Len(log) \in Nat
  BY <1>1
<1> DEFINE S == {s \in Starts : s <= n}
<1>3. S \in SUBSET Nat
  BY <1>2 DEF Starts
<1>4. CASE log[n].start
  <2>1. n \in S /\ \A y \in S : y <= n
    BY <1>2, <1>4 DEF Starts
  <2>2. Max(S) = n
    BY <1>3, <2>1, MaxIs
  <2> QED
    BY <1>4, <2>1, <2>2 DEF RecordOf
<1>5. CASE ~log[n].start
  <2>1. n - 1 \in DOMAIN log /\ log[n - 1].start
    BY <1>1, <1>5 DEF RecordsWhole
  <2>2. n - 1 \in S /\ \A y \in S : y <= n - 1
    BY <1>2, <1>5, <2>1 DEF Starts
  <2>3. Max(S) = n - 1
    BY <1>3, <2>2, MaxIs
  <2> QED
    BY <1>5, <2>2, <2>3 DEF RecordOf
<1> QED
  BY <1>4, <1>5

(* The flushes that make up a record.                                      *)
Places(s) == {m \in DOMAIN log : RecordOf(m) = s}

(* A signature is found under the name of the C function with arguments    *)
(* that it is of.                                                          *)
LEMMA FoundInSignature ==
  ASSUME NEW t \in Target, NEW u \in Target
  PROVE  isTargetInSignature(t, Signature(u)) <=> t = u /\ u \in Recognised
<1>1. /\ Signature(u).name = IF u \in Mangled THEN NoTarget ELSE u
      /\ Signature(u).args <=> u \notin WithoutArgs
  BY DEF Signature
<1> QED
  BY <1>1, NameAssumption DEF isTargetInSignature, Recognised

(* The targets of a record are those of its flushes that can be found.     *)
LEMMA TargetsFound ==
  ASSUME RecorderInv, NEW s
  PROVE  TargetsToFuzz(s) = (UNION {log[n].targets : n \in Places(s)}) \cap Recognised
<1>1. \A n \in DOMAIN log : log[n].targets \subseteq Target
  <2> TAKE n \in DOMAIN log
  <2>1. log[n] \in Flush
    BY DEF RecorderInv, RecorderTypeOK
  <2> QED
    BY <2>1 DEF Flush
<1>2. ASSUME NEW t PROVE t \in TargetsToFuzz(s) <=> t \in Target /\ \E n \in Places(s) :
                           \E u \in log[n].targets : isTargetInSignature(t, Signature(u))
  BY DEF TargetsToFuzz, Places
<1>3. ASSUME NEW t \in Target, NEW n \in Places(s), NEW u \in log[n].targets
      PROVE  isTargetInSignature(t, Signature(u)) <=> t = u /\ u \in Recognised
  BY <1>1, FoundInSignature DEF Places
<1>4. ASSUME NEW t PROVE t \in TargetsToFuzz(s) <=> t \in Recognised /\ \E n \in Places(s) :
                                                    t \in log[n].targets
  BY <1>1, <1>2, <1>3 DEF Recognised, Places
<1> QED
  BY <1>4

(* When the suite is over, a record of the log is one process's, and has   *)
(* its command line and its directory and the targets it entered, or is    *)
(* torn.                                                                   *)
LEMMA RecordIs ==
  ASSUME RecorderInv, SuiteOver, NEW s \in Starts
  PROVE  /\ \A m \in Places(s) : log[m].by = log[s].by
         /\ \/ Stale /\ Places(s) \cap Ends = {}
            \/ \E n \in Ends, l \in DOMAIN log :
                 /\ Places(s) \cap Ends = {n} /\ n >= s
                 /\ {m \in Places(s) : log[m].cmd} = {l}
                 /\ TargetsToFuzz(s) = lines[log[s].by] \cap Recognised
<1>1. /\ log \in Seq(Flush) /\ RecordsWhole /\ Continued
      /\ \A p \in Test : ProcessInv(p)
  BY DEF RecorderInv, RecorderTypeOK
<1>2. DOMAIN log = 1 .. Len(log) /\ Len(log) \in Nat /\ s \in DOMAIN log /\ log[s].start
  BY <1>1 DEF Starts
<1> DEFINE R == Places(s)
           T == UNION {log[n].targets : n \in R}
<1>3. ASSUME NEW m \in DOMAIN log
      PROVE  m \in R <=> m = s \/ (m = s + 1 /\ ~log[m].start)
  BY <1>2, RecordOfPlace DEF Places
<1>4. R \subseteq DOMAIN log /\ R \cap Ends = {m \in R : log[m].end}
  BY DEF Places, Ends
<1>5. TargetsToFuzz(s) = T \cap Recognised
  BY TargetsFound
<1> HIDE DEF R
<1>6. CASE log[s].end
  <2>1. R = {s}
    BY <1>1, <1>2, <1>3, <1>4, <1>6 DEF Continued
  <2>2. log[s].targets = lines[log[s].by] /\ log[s].cmd
    BY <1>1, <1>2, <1>6 DEF RecordsWhole
  <2>3. /\ {m \in R : log[m].end} = {s} /\ {m \in R : log[m].cmd} = {s}
        /\ T = lines[log[s].by]
    BY <1>6, <2>1, <2>2
  <2>4. \A m \in R : log[m].by = log[s].by
    BY <2>1
  <2>5. s \in Ends /\ s >= s
    BY <1>2, <1>6 DEF Ends
  <2> HIDE DEF T
  <2> QED
    BY <1>2, <1>4, <1>5, <2>3, <2>4, <2>5 DEF R
<1>7. CASE ~log[s].end /\ s + 1 \in DOMAIN log
  <2>1. log[s + 1].by = log[s].by /\ log[s + 1].end /\ ~log[s + 1].start
    BY <1>1, <1>2, <1>7 DEF RecordsWhole
  <2>2. R = {s, s + 1}
    BY <1>2, <1>3, <1>4, <1>7, <2>1
  <2>3. s = (s + 1) - 1
    BY <1>2
  <2>4. /\ log[s].targets \cup log[s + 1].targets = lines[log[s + 1].by]
        /\ log[s].cmd <=> ~log[s + 1].cmd
    BY <1>1, <1>7, <2>1, <2>3 DEF RecordsWhole
  <2>5. {m \in R : log[m].end} = {s + 1} /\ T = lines[log[s].by]
    BY <1>7, <2>1, <2>2, <2>4
  <2>6. PICK l \in R : {m \in R : log[m].cmd} = {l}
    BY <2>2, <2>4
  <2>7. \A m \in R : log[m].by = log[s].by
    BY <2>1, <2>2
  <2>8. s + 1 \in Ends /\ s + 1 >= s
    BY <1>2, <1>7, <2>1 DEF Ends
  <2> HIDE DEF T
  <2> QED
    BY <1>4, <1>5, <2>5, <2>6, <2>7, <2>8 DEF R
<1>8. CASE ~log[s].end /\ s + 1 \notin DOMAIN log
  <2>1. lockFile = log[s].by /\ log[s].by \in Test
    BY <1>1, <1>2, <1>8, FlushTypes DEF RecordsWhole
  <2>2. pc[lockFile] # "done" /\ pc[lockFile] # "lock"
    BY <1>1, <2>1 DEF ProcessInv
  <2>3. Stale
    BY <2>1, <2>2, TestAssumption DEF SuiteOver, Stale
  <2>4. R = {s}
    BY <1>2, <1>3, <1>4, <1>8
  <2>5. {m \in R : log[m].end} = {} /\ \A m \in R : log[m].by = log[s].by
    BY <1>8, <2>4
  <2> QED
    BY <1>4, <2>3, <2>5 DEF R
<1> QED
  BY <1>6, <1>7, <1>8

(* The folders are numbered in the order of the records with targets.      *)
LEMMA FolderGrows ==
  ASSUME RecorderInv, NEW s \in Starts
  PROVE  /\ Folder(s) \in Nat
         /\ \A u \in Starts : s < u /\ TargetsToFuzz(s) # {} => Folder(s) < Folder(u)
<1> DEFINE Before(u) == {v \in Starts : v < u /\ TargetsToFuzz(v) # {}}
<1>1. DOMAIN log = 1 .. Len(log) /\ Len(log) \in Nat
  BY DEF RecorderInv, RecorderTypeOK
<1>2. IsFiniteSet(Starts) /\ \A u \in Starts : u \in Nat
  <2>1. Starts \in SUBSET (1 .. Len(log)) /\ IsFiniteSet(1 .. Len(log))
    BY <1>1, FS_Interval DEF Starts
  <2>2. IsFiniteSet(Starts)
    BY <2>1, FS_Subset
  <2> QED
    BY <1>1, <2>2 DEF Starts
<1>3. \A u \in Starts : IsFiniteSet(Before(u)) /\ Cardinality(Before(u)) \in Nat
  BY <1>2, FS_Subset, FS_CardinalityType
<1>4. ASSUME NEW u \in Starts, s < u, TargetsToFuzz(s) # {} PROVE Folder(s) < Folder(u)
  <2>1. Before(s) \subseteq Before(u)
    BY <1>2, <1>4
  <2>2. s \in Before(u) /\ s \notin Before(s)
    BY <1>2, <1>4
  <2> HIDE DEF Before
  <2>3. /\ Cardinality(Before(s)) <= Cardinality(Before(u))
        /\ Cardinality(Before(s)) # Cardinality(Before(u))
    BY <1>3, <2>1, <2>2, FS_Subset
  <2>4. Cardinality(Before(s)) < Cardinality(Before(u))
    BY <1>3, <2>3
  <2> QED
    BY <2>4 DEF Folder, Before
<1> QED
  BY <1>3, <1>4 DEF Folder

(* What get_fuzzing_commands makes of a record.                            *)
LEMMA CommandIs ==
  ASSUME RecorderInv, SuiteOver, NEW s \in Starts, NEW c, c = FuzzingCommand(s)
  PROVE  /\ IsCommand(c) /\ c.targets = TargetsToFuzz(s) /\ c.folder = Folder(s)
         /\ \/ Maimed(c) /\ (Stale \/ log[s].by \in misleading)
            \/ \E n \in Ends :
                 /\ Places(s) \cap Ends = {n} /\ n >= s
                 /\ log[n].by = log[s].by /\ log[s].by \notin misleading
                 /\ IsOf(c, log[n].by) /\ c.targets = lines[log[n].by] \cap Recognised
<1> DEFINE own == {n \in Places(s) : log[n].by \notin misleading}
           L == {m \in own : log[m].cmd}
<1>1. /\ c.targets = TargetsToFuzz(s) /\ c.folder = Folder(s)
      /\ c.lines = [n \in L |-> log[n].by] /\ c.dirs = own \cap Ends
  <2>1. own = {n \in DOMAIN log : RecordOf(n) = s /\ log[n].by \notin misleading}
    BY DEF Places
  <2> QED
    BY <2>1 DEF FuzzingCommand
<1>2. DOMAIN c.lines = L /\ \A n \in L : c.lines[n] = log[n].by
  BY <1>1
<1>3. IsCommand(c)
  <2>1. L \subseteq DOMAIN log /\ \A n \in L : log[n].by \in Test
    BY FlushTypes DEF RecorderInv, RecorderTypeOK, Places
  <2>2. TargetsToFuzz(s) \subseteq Target
    BY DEF TargetsToFuzz
  <2>3. Range(c.lines) \subseteq Test
    BY <1>2, <2>1 DEF Range
  <2>4. Folder(s) \in Nat
    BY FolderGrows
  <2> QED
    BY <1>1, <1>2, <2>1, <2>2, <2>3, <2>4 DEF IsCommand
<1>4. \A m \in Places(s) : log[m].by = log[s].by
  BY RecordIs
<1>5. CASE log[s].by \in misleading
  <2>1. own = {}
    BY <1>4, <1>5
  <2> QED
    BY <1>1, <1>3, <1>5, <2>1 DEF Maimed
<1>6. CASE log[s].by \notin misleading
  <2>1. own = Places(s)
    BY <1>4, <1>6
  <2>2. CASE Stale /\ Places(s) \cap Ends = {}
    BY <1>1, <1>3, <2>1, <2>2 DEF Maimed
  <2>3. ASSUME NEW n \in Ends, NEW l \in DOMAIN log, Places(s) \cap Ends = {n},
               {m \in Places(s) : log[m].cmd} = {l},
               TargetsToFuzz(s) = lines[log[s].by] \cap Recognised
        PROVE  /\ log[n].by = log[s].by /\ IsOf(c, log[n].by)
               /\ c.targets = lines[log[n].by] \cap Recognised
    <3>1. n \in Places(s) /\ l \in Places(s)
      BY <2>3
    <3>2. log[n].by = log[s].by /\ log[l].by = log[s].by
      BY <1>4, <3>1
    <3>3. DOMAIN c.lines = {l} /\ c.lines[l] = log[n].by /\ c.dirs = {n}
      BY <1>1, <1>2, <2>1, <2>3, <3>2
    <3> QED
      BY <1>1, <2>3, <3>2, <3>3 DEF IsOf
  <2> HIDE DEF own, L
  <2> QED
    BY <1>1, <1>3, <1>6, <2>2, <2>3, RecordIs
<1> QED
  BY <1>5, <1>6

(* The directory that pwds.json has for the folder of a record with        *)
(* targets is that of the record.                                          *)
LEMMA DirectoryIs ==
  ASSUME RecorderInv, NEW s \in Starts, NEW n \in Ends, n >= s,
         Places(s) \cap Ends = {n}, log[n].by \notin misleading, TargetsToFuzz(s) # {}
  PROVE  GetFuzzingCommands.pwds[Folder(s)] = log[n].by
<1> DEFINE folderAt == [m \in Ends |-> FolderAt(m)]
           S == {m \in Ends : folderAt[m] = Folder(s)}
<1>1. DOMAIN log = 1 .. Len(log) /\ Len(log) \in Nat
  BY DEF RecorderInv, RecorderTypeOK
<1>2. S \in SUBSET Nat /\ s \in Nat
  BY <1>1 DEF Ends, Starts
<1>3. RecordOf(n) = s
  BY DEF Places
<1>4. folderAt[n] = Folder(s) /\ n \in S
  BY <1>3 DEF FolderAt
<1>5. ASSUME NEW m \in S, m > n PROVE FALSE
  <2>1. m \in DOMAIN log /\ m \in Ends /\ FolderAt(m) = Folder(s)
    BY DEF Ends
  <2>2. RecordOf(m) \in Starts /\ RecordOf(m) >= m - 1
    BY <1>2, <2>1, RecordOfPlace
  <2>3. RecordOf(m) # s
    <3>1. m \notin Places(s)
      BY <1>2, <1>5, <2>1
    <3> QED
      BY <2>1, <3>1 DEF Places
  <2>4. RecordOf(m) > s
    <3>1. n \in Nat /\ m \in Nat /\ RecordOf(m) \in Nat
      BY <1>1, <2>1, <2>2 DEF Ends, Starts
    <3> QED
      BY <1>2, <1>5, <2>2, <2>3, <3>1
  <2>5. Folder(s) < Folder(RecordOf(m)) /\ Folder(s) \in Nat /\ Folder(RecordOf(m)) \in Nat
    BY <2>2, <2>4, FolderGrows
  <2>6. FolderAt(m) \in {Folder(RecordOf(m)), Folder(RecordOf(m)) + 1}
    BY DEF FolderAt
  <2> QED
    BY <2>1, <2>5, <2>6
<1>6. Max(S) = n
  <2>1. \A m \in S : m <= n
    BY <1>2, <1>4, <1>5
  <2> HIDE DEF S
  <2> QED
    BY <1>2, <1>4, <2>1, MaxIs
<1>7. Folder(s) \in Range(folderAt)
  BY <1>4 DEF Range
<1>8. GetFuzzingCommands.pwds =
        [i \in Range(folderAt) |-> log[Max({m \in Ends : folderAt[m] = i})].by]
  BY DEF GetFuzzingCommands
<1> QED
  BY <1>6, <1>7, <1>8

(* Before the script has read the log there is nothing that the invariant  *)
(* could be wrong about.                                                   *)
LEMMA WaitingInv ==
  RecorderInv /\ misleading \subseteq Test /\ script = "waiting" /\ Nothing => IInv
<1> SUFFICES ASSUME RecorderInv, misleading \subseteq Test, script = "waiting", Nothing PROVE IInv
  OBVIOUS
<1> USE DEF Nothing
<1>1. DOMAIN collected.commands = {} /\ Range(collected.commands) = {}
  BY DEF Range
<1>2. TypeOK
  BY <1>1 DEF TypeOK, RecorderInv
<1>3. Counts = {} /\ Cardinality(Counts) = 0 /\ Cardinality(fuzzed) = 0 /\ Cardinality(executed) = 0
  <2>1. Counts = {}
    BY DEF Counts
  <2> QED
    BY <2>1, FS_EmptySet
<1>4. CommandsInv /\ BlacklistInv /\ RecordsArrive /\ FuzzedOnce /\ CountsOnlyIfTried
  BY <1>1, <1>3 DEF CommandsInv, BlacklistInv, RecordsArrive, FuzzedOnce, CountsOnlyIfTried
<1>5. BudgetInv
  BY <1>3, BudgetAssumption DEF BudgetInv
<1> QED
  BY <1>2, <1>4, <1>5 DEF IInv

(* The script starts with nothing.                                         *)
LEMMA InitInv == Init => IInv
BY RecorderInitInv, WaitingInv DEF Init, Nothing

(* Once the suite is over a process may at most be killed while it polls   *)
(* for the lock.                                                           *)
LEMMA Frozen ==
  ASSUME RecorderInv, SuiteOver, [RecorderNext]_recorderVars
  PROVE  /\ UNCHANGED <<lines, lockFile, log>> /\ SuiteOver' /\ (Stale' <=> Stale)
         /\ \A p \in Test : pc'[p] = "done" <=> pc[p] = "done"
<1>0. RecorderTypeOK
  BY DEF RecorderInv
<1>1. CASE UNCHANGED recorderVars
  BY <1>1 DEF recorderVars, SuiteOver, Stale
<1>2. ASSUME NEW p \in Test, Advance(p) \/ FlushBuffer(p) PROVE FALSE
  BY <1>2 DEF SuiteOver, Stale, Advance, AhInit, AhDeinit, Acquire, CloseLog, Unlink, FlushBuffer
<1>3. ASSUME NEW p \in Test, NEW t, EnterFunction(p, t) PROVE FALSE
  BY <1>3 DEF SuiteOver, EnterFunction
<1>4. ASSUME NEW p \in Test, Poll(p) PROVE UNCHANGED recorderVars
  BY <1>4 DEF Poll
<1>5. ASSUME NEW p \in Test, Die(p)
      PROVE  /\ UNCHANGED <<lines, lockFile, log>> /\ SuiteOver' /\ (Stale' <=> Stale)
             /\ \A q \in Test : pc'[q] = "done" <=> pc[q] = "done"
  <2>1. pc[p] = "lock" /\ Stale /\ pc' = [pc EXCEPT ![p] = "dead"]
    BY <1>5 DEF Die, Goto, SuiteOver
  <2>2. UNCHANGED <<lines, lockFile, log>>
    BY <1>5 DEF Die
  <2>3. Stale'
    BY <1>0, <2>1, <2>2 DEF Stale, RecorderTypeOK
  <2> QED
    BY <1>0, <2>1, <2>2, <2>3 DEF SuiteOver, RecorderTypeOK
<1> QED
  BY <1>1, <1>2, <1>3, <1>4, <1>5 DEF RecorderNext

(* What was collected goes on being one record per test that ended, as     *)
(* long as no line, no collected record and no end of a test changes.      *)
LEMMA RecordsStay ==
  ASSUME RecordsArrive, script # "waiting", UNCHANGED <<misleading, collected, lines, log>>,
         Stale' <=> Stale, \A p \in Test : pc'[p] = "done" => pc[p] = "done"
  PROVE  RecordsArrive'
<1> DEFINE cs == collected.commands
           whole == {k \in DOMAIN cs :
                       cs[k].targets # {} /\ ~Torn(k) /\ log[k].by \notin misleading}
           Mine == \A k \in whole : \E p \in Test :
                     /\ IsOf(cs[k], p) /\ cs[k].targets = lines[p] \cap Recognised
                     /\ collected.pwds[cs[k].folder] = p
           Apart == \A k, j \in whole : cs[k].folder = cs[j].folder => k = j
           All == \A p \in Test \ misleading :
                    pc[p] = "done" /\ lines[p] \cap Recognised # {} =>
                      \E k \in whole : IsOf(cs[k], p)
<1>1. cs' = cs /\ UNCHANGED <<misleading, collected, lines, log>> /\ Ends' = Ends
  BY DEF Ends
<1>2. whole' = whole
  BY DEF Torn, Maimed
<1>3. Mine /\ Apart /\ All
  BY DEF RecordsArrive
<1> HIDE DEF cs, whole
<1>4. Mine'
  BY <1>1, <1>2, <1>3 DEF IsOf
<1>5. Apart'
  BY <1>1, <1>2, <1>3
<1>6. All'
  BY <1>1, <1>2, <1>3 DEF IsOf
<1> USE DEF cs, whole
<1> QED
  BY <1>4, <1>5, <1>6 DEF RecordsArrive

(* The invariant of the script is about nothing that can still change in   *)
(* the recorder.                                                           *)
LEMMA RecordingInv ==
  ASSUME IInv, [RecorderNext]_recorderVars, UNCHANGED scriptVars
  PROVE  IInv'
<1>1. RecorderInv'
  BY RecorderNextInv DEF IInv
<1>2. CASE script = "waiting"
  <2>1. script' = "waiting" /\ Nothing' /\ misleading' \subseteq Test
    BY <1>2 DEF IInv, TypeOK, Nothing, scriptVars
  <2>2. (RecorderInv /\ misleading \subseteq Test /\ script = "waiting" /\ Nothing => IInv)'
    BY WaitingInv, PTL
  <2> QED
    BY <1>1, <2>1, <2>2
<1>3. CASE script # "waiting"
  <2>1. /\ UNCHANGED <<lines, lockFile, log>> /\ SuiteOver' /\ (Stale' <=> Stale)
        /\ \A p \in Test : pc'[p] = "done" <=> pc[p] = "done"
    BY <1>3, Frozen DEF IInv
  <2>2. UNCHANGED <<Starts, Ends, Counts, Ran>>
    BY <2>1 DEF Starts, Ends, Counts, Ran, scriptVars
  <2>4. TypeOK'
    BY <1>1, <2>1, <2>2 DEF IInv, TypeOK, IsCommand, RecorderInv, scriptVars
  <2>5. CommandsInv'
    BY <2>1, <2>2 DEF IInv, CommandsInv, Maimed, IsOf, scriptVars
  <2>6. BlacklistInv' /\ BudgetInv' /\ FuzzedOnce'
    BY <2>2 DEF IInv, BlacklistInv, BudgetInv, FuzzedOnce, Maimed, scriptVars
  <2>7. CountsOnlyIfTried'
    BY <2>2 DEF IInv, CountsOnlyIfTried, Maimed, scriptVars
  <2>8. RecordsArrive'
    <3>1. UNCHANGED <<misleading, collected, lines, log>> /\ (Stale' <=> Stale) /\ RecordsArrive
      BY <2>1 DEF IInv, scriptVars
    <3> QED
      BY <1>3, <2>1, <3>1, RecordsStay
  <2> QED
    BY <1>1, <1>3, <2>1, <2>4, <2>5, <2>6, <2>7, <2>8 DEF IInv, scriptVars
<1> QED
  BY <1>2, <1>3

(* get_fuzzing_commands returns what the tests have written.               *)
LEMMA CollectInv ==
  ASSUME IInv, Collect
  PROVE  IInv'
<1> DEFINE cs == collected'.commands
           kept == {s \in Starts : TargetsToFuzz(s) # {} \/ s = Max(Starts)}
<1>1. /\ RecorderInv /\ SuiteOver /\ Nothing /\ misleading \subseteq Test
      /\ UNCHANGED <<recorderVars, misleading, fuzzed, ran, spent>>
  BY DEF IInv, TypeOK, Collect
<1>2. cs = [s \in kept |-> FuzzingCommand(s)]
  BY DEF Collect, GetFuzzingCommands
<1>3. DOMAIN cs = kept /\ \A k \in kept : cs[k] = FuzzingCommand(k)
  BY <1>2
<1>4. \A k \in kept :
        /\ IsCommand(cs[k]) /\ cs[k].targets = TargetsToFuzz(k) /\ cs[k].folder = Folder(k)
        /\ \/ Maimed(cs[k]) /\ (Stale \/ log[k].by \in misleading)
           \/ \E n \in Ends :
                /\ Places(k) \cap Ends = {n} /\ n >= k
                /\ log[n].by = log[k].by /\ log[k].by \notin misleading
                /\ IsOf(cs[k], log[n].by) /\ cs[k].targets = lines[log[n].by] \cap Recognised
  BY <1>1, <1>3, CommandIs
<1>5. /\ UNCHANGED <<pc, lines, written, lockFile, log>> /\ UNCHANGED <<Starts, Ends>>
      /\ (Stale' <=> Stale) /\ SuiteOver'
  BY <1>1 DEF recorderVars, Starts, Ends, Stale, SuiteOver
<1>6. RecorderInv'
  BY <1>1, RecorderNextInv
<1>7. /\ script' = "loop" /\ commands' = kept /\ executed' = UNION {cs[k].targets : k \in kept}
      /\ collected' = GetFuzzingCommands
  BY <1>3 DEF Collect
<1>8. \A n \in Ends : log[n].by \in Test
  BY <1>1, FlushTypes DEF RecorderInv, RecorderTypeOK, Ends
<1> HIDE DEF cs
<1>9. Range(cs) = {cs[k] : k \in kept}
  BY <1>3 DEF Range
<1>10. TypeOK'
  <2>1. \A c \in Range(cs) : IsCommand(c)'
    BY <1>4, <1>5, <1>9 DEF IsCommand
  <2>2. executed' \subseteq Target
    BY <1>4, <1>7 DEF IsCommand
  <2>3. DOMAIN cs \subseteq Starts'
    BY <1>3, <1>5
  <2>4. fuzzed' \subseteq executed' /\ ran' \in Seq(Ran') /\ spent' \in Nat
    BY <1>1 DEF Nothing
  <2> QED
    BY <1>1, <1>3, <1>6, <1>7, <2>1, <2>2, <2>3, <2>4 DEF TypeOK, RecorderInv, cs
<1>11. CommandsInv'
  <2>1. ASSUME NEW c \in Range(cs)
        PROVE  Maimed(c) \/ \E p \in Test : IsOf(c, p)' /\ c.targets = lines'[p] \cap Recognised
    <3>1. PICK k \in kept : c = cs[k]
      BY <1>9
    <3>2. Maimed(c) \/ \E n \in Ends : IsOf(c, log[n].by)
                                       /\ c.targets = lines[log[n].by] \cap Recognised
      BY <1>4, <3>1
    <3>3. ASSUME NEW n \in Ends, IsOf(c, log[n].by) PROVE IsOf(c, log[n].by)'
      BY <1>5, <3>3 DEF IsOf
    <3> QED
      BY <1>5, <1>8, <3>2, <3>3
  <2>2. executed' = UNION {c.targets : c \in Range(cs)}
    BY <1>7, <1>9
  <2> QED
    BY <2>1, <2>2 DEF CommandsInv, Maimed, cs
<1>12. RecordsArrive'
  <2> DEFINE whole == {k \in DOMAIN cs : /\ cs[k].targets # {} /\ ~(Stale /\ Maimed(cs[k]))
                                         /\ log[k].by \notin misleading}
  <2>1. ASSUME NEW k \in whole
        PROVE  \E p \in Test : /\ IsOf(cs[k], p) /\ cs[k].targets = lines[p] \cap Recognised
                               /\ collected'.pwds[cs[k].folder] = p
    <3>1. /\ k \in kept /\ k \in Starts /\ cs[k].targets # {} /\ ~(Stale /\ Maimed(cs[k]))
          /\ log[k].by \notin misleading
      BY <1>3
    <3>2. PICK n \in Ends :
            /\ Places(k) \cap Ends = {n} /\ n >= k /\ log[n].by \notin misleading
            /\ IsOf(cs[k], log[n].by) /\ cs[k].targets = lines[log[n].by] \cap Recognised
      BY <1>4, <3>1
    <3>3. GetFuzzingCommands.pwds[Folder(k)] = log[n].by
      BY <1>1, <1>4, <3>1, <3>2, DirectoryIs
    <3> QED
      BY <1>4, <1>7, <1>8, <3>1, <3>2, <3>3
  <2>2. ASSUME NEW k \in whole, NEW j \in whole, cs[k].folder = cs[j].folder PROVE k = j
    <3>1. /\ k \in Starts /\ j \in Starts /\ TargetsToFuzz(k) # {} /\ TargetsToFuzz(j) # {}
          /\ Folder(k) = Folder(j)
      BY <1>3, <1>4, <2>2
    <3>2. k \in Nat /\ j \in Nat
      BY <1>1, <3>1 DEF Starts, RecorderInv, RecorderTypeOK
    <3>3. ~(k < j) /\ ~(j < k)
      BY <1>1, <3>1, FolderGrows
    <3> QED
      BY <3>2, <3>3
  <2>3. ASSUME NEW p \in Test, p \notin misleading, pc[p] = "done", lines[p] \cap Recognised # {}
        PROVE  \E k \in whole : IsOf(cs[k], p)
    <3>1. PICK n \in Ends : log[n].by = p
      BY <1>1, <2>3 DEF RecorderInv, ProcessInv, Recorded
    <3>2. RecordOf(n) \in Starts
      BY <1>1, RecordOfPlace DEF Ends
    <3> DEFINE k == RecordOf(n)
    <3>3. n \in Places(k) \cap Ends
      BY DEF Places, Ends
    <3> HIDE DEF k
    <3>4. log[k].by = p
      BY <1>1, <3>1, <3>2, <3>3, RecordIs DEF k
    <3>5. TargetsToFuzz(k) = lines[p] \cap Recognised
      BY <1>1, <3>2, <3>3, <3>4, RecordIs DEF k
    <3>6. k \in kept
      BY <2>3, <3>2, <3>5 DEF k
    <3>7. ~Maimed(cs[k])
      <4>1. cs[k] = FuzzingCommand(k)
        BY <1>3, <3>6
      <4>2. n \in cs[k].dirs
        BY <2>3, <3>1, <3>3, <4>1 DEF FuzzingCommand, Places, Ends
      <4> QED
        BY <4>2 DEF Maimed
    <3>8. IsOf(cs[k], p)
      BY <1>4, <3>1, <3>3, <3>6, <3>7
    <3> QED
      BY <1>3, <1>4, <2>3, <3>4, <3>5, <3>6, <3>7, <3>8
  <2>4. whole = {k \in DOMAIN cs : /\ cs[k].targets # {} /\ ~(Stale' /\ Maimed(cs[k]))
                                   /\ log'[k].by \notin misleading'}
    BY <1>1, <1>5
  <2> HIDE DEF whole
  <2> DEFINE Of(c, p) == /\ \E n \in DOMAIN c.lines : DOMAIN c.lines = {n} /\ c.lines[n] = p
                         /\ \E n \in Ends' : c.dirs = {n} /\ log'[n].by = p
  <2>5. ASSUME NEW c, NEW p PROVE IsOf(c, p) <=> Of(c, p)
    BY <1>5 DEF IsOf
  <2> HIDE DEF Of
  <2>6. /\ \A k \in whole : \E p \in Test :
             /\ Of(cs[k], p) /\ cs[k].targets = lines'[p] \cap Recognised
             /\ collected'.pwds[cs[k].folder] = p
        /\ \A k, j \in whole : cs[k].folder = cs[j].folder => k = j
        /\ \A p \in Test \ misleading' : pc'[p] = "done" /\ lines'[p] \cap Recognised # {} =>
             \E k \in whole : Of(cs[k], p)
    BY <1>1, <1>5, <2>1, <2>2, <2>3, <2>5
  <2> QED
    BY <2>4, <2>6 DEF RecordsArrive, Torn, Maimed, IsOf, Of, cs
<1>13. Counts' = {} /\ fuzzed' = {} /\ spent' = 0
  BY <1>1 DEF Nothing, Counts
<1>14. BlacklistInv' /\ FuzzedOnce' /\ CountsOnlyIfTried'
  BY <1>13 DEF BlacklistInv, FuzzedOnce, CountsOnlyIfTried
<1>15. BudgetInv'
  <2>1. Cardinality(executed') \in Nat /\ Cardinality(Counts') = 0 /\ Cardinality(fuzzed') = 0
    BY <1>10, <1>13, FS_EmptySet, FS_Subset, FS_CardinalityType, TargetAssumption DEF TypeOK
  <2> QED
    BY <1>13, <2>1, BudgetAssumption DEF BudgetInv
<1> QED
  BY <1>5, <1>6, <1>7, <1>10, <1>11, <1>12, <1>14, <1>15 DEF IInv

(* Sets of targets are finite.                                             *)
LEMMA FiniteTargets ==
  ASSUME NEW S \in SUBSET Target
  PROVE  /\ IsFiniteSet(S) /\ Cardinality(S) \in 0 .. Cardinality(Target)
         /\ Cardinality(Target) \in Nat
<1>1. IsFiniteSet(S) /\ Cardinality(S) <= Cardinality(Target)
  BY TargetAssumption, FS_Subset
<1>2. Cardinality(S) \in Nat /\ Cardinality(Target) \in Nat
  BY <1>1, TargetAssumption, FS_CardinalityType
<1> QED
  BY <1>1, <1>2

(* The command that is chosen exists, and has most unfuzzed targets.       *)
LEMMA BestIs ==
  ASSUME TypeOK, commands # {}
  PROVE  /\ Best \in commands
         /\ \A j \in commands : Cardinality(Unfuzzed(Best)) >= Cardinality(Unfuzzed(j))
<1> DEFINE T == Cardinality(Target)
           V(k) == T - Cardinality(Unfuzzed(k))
           A == {V(k) : k \in commands}
<1>1. \A k \in commands : Unfuzzed(k) \in SUBSET Target
  BY DEF TypeOK, IsCommand, Unfuzzed, Range
<1>2. T \in Nat /\ \A k \in commands : Cardinality(Unfuzzed(k)) \in 0 .. T
  BY <1>1, FiniteTargets
<1>3. A \in SUBSET Nat /\ A # {}
  BY <1>2
<1>4. PICK a \in A : \A x \in A : a <= x
  <2> HIDE DEF A
  <2> QED
    BY <1>3, LeastElement
<1> DEFINE B == {k \in commands : V(k) = a}
<1>5. commands \in SUBSET Nat
  BY DEF TypeOK, Starts, RecorderTypeOK
<1>6. B \in SUBSET Nat /\ B # {}
  BY <1>4, <1>5
<1>7. PICK k \in B : \A j \in B : k <= j
  <2> HIDE DEF B
  <2> QED
    BY <1>6, LeastElement
<1>8. ASSUME NEW j \in commands
      PROVE  \/ Cardinality(Unfuzzed(k)) > Cardinality(Unfuzzed(j))
             \/ Cardinality(Unfuzzed(k)) = Cardinality(Unfuzzed(j)) /\ k <= j
  <2>1. V(k) = a /\ a <= V(j) /\ k \in commands
    BY <1>4, <1>7, <1>8
  <2>2. Cardinality(Unfuzzed(k)) \in 0 .. T /\ Cardinality(Unfuzzed(j)) \in 0 .. T /\ T \in Nat
    BY <1>2, <2>1
  <2>3. V(j) = a => k <= j
    BY <1>7, <1>8
  <2> QED
    BY <2>1, <2>2, <2>3
<1>9. /\ Best \in commands
      /\ \A j \in commands :
           \/ Cardinality(Unfuzzed(Best)) > Cardinality(Unfuzzed(j))
           \/ Cardinality(Unfuzzed(Best)) = Cardinality(Unfuzzed(j)) /\ Best <= j
  BY <1>7, <1>8 DEF Best
<1> HIDE DEF T, V, A, B
<1>10. \A j \in commands : Cardinality(Unfuzzed(j)) \in Nat
  BY <1>2
<1> QED
  BY <1>9, <1>10

(* A campaign is only started for targets that are not fuzzed.             *)
LEMMA BestHasTargets ==
  ASSUME TypeOK, Suitable
  PROVE  /\ Best \in commands /\ Unfuzzed(Best) # {} /\ Unfuzzed(Best) \in SUBSET Target
         /\ collected.commands[Best] \in Range(collected.commands)
<1>1. PICK k \in commands : Unfuzzed(k) # {}
  BY DEF Suitable
<1>2. Best \in commands /\ Cardinality(Unfuzzed(Best)) >= Cardinality(Unfuzzed(k))
  BY <1>1, BestIs
<1>3. Unfuzzed(k) \in SUBSET Target /\ Unfuzzed(Best) \in SUBSET Target
  BY <1>2 DEF TypeOK, IsCommand, Unfuzzed, Range
<1>4. Cardinality(Unfuzzed(k)) # 0 /\ Cardinality(Unfuzzed(k)) \in Nat
  BY <1>1, <1>3, FiniteTargets, FS_EmptySet
<1>5. Cardinality(Unfuzzed(Best)) # 0
  BY <1>2, <1>3, <1>4, FiniteTargets
<1>6. Unfuzzed(Best) # {}
  BY <1>5, FS_EmptySet
<1> QED
  BY <1>2, <1>3, <1>6 DEF TypeOK, Range

(* A share, rounded up.                                                    *)
LEMMA RoundedUp ==
  ASSUME NEW x \in Nat, NEW n \in Nat \ {0}
  PROVE  LET q == (x + n - 1) \div n
         IN  q \in Nat /\ q * n <= x + n - 1 /\ (x > 0 => q > 0)
OBVIOUS

(* A sum of shares stays within the bound.                                 *)
LEMMA SumOfShares ==
  ASSUME NEW b \in Nat, NEW n \in Nat, NEW spentSoFar \in Nat, NEW f \in Nat, NEW c \in Nat,
         spentSoFar * n <= b * f + c * (n - 1),
         NEW q \in Nat, NEW m \in Nat, q * n <= b * m + n - 1
  PROVE  (spentSoFar + q) * n <= b * (f + m) + (c + 1) * (n - 1)
OBVIOUS

(* ... which is less than one second per campaign above the budget.        *)
LEMMA BoundOfSum ==
  ASSUME NEW b \in Nat, NEW n \in Nat \ {0}, NEW s \in Nat, NEW f \in 0 .. n, NEW c \in Nat \ {0},
         s * n <= b * f + c * (n - 1)
  PROVE  s < b + c
OBVIOUS

(* No campaign is offered a target of the list.  Of those that can be found*)
(* in the log, what a command is offered is what the script marks as fuzzed*)
(* for it, but for names inside others and for maimed commands.            *)
LEMMA OfferedMarked ==
  ASSUME TypeOK, CommandsInv, NEW k \in DOMAIN collected.commands
  PROVE  LET c == collected.commands[k]
         IN  /\ Offered(c) \subseteq Target /\ Offered(c) \cap fuzzed = {}
             /\ Maimed(c) \/ Offered(c) \cap Recognised \subseteq Unfuzzed(k)
             /\ \A t \in Unfuzzed(k) :
                  Maimed(c) \/ t \in Offered(c) \/ \E u \in fuzzed : <<t, u>> \in PartOf
<1> DEFINE c == collected.commands[k]
<1>1. c \in Range(collected.commands) /\ Unfuzzed(k) = c.targets \ fuzzed
  BY DEF Range, Unfuzzed
<1>2. IsCommand(c) /\ \A q \in Test : lines[q] \subseteq Target
  BY <1>1 DEF TypeOK, RecorderTypeOK
<1>3. Maimed(c) \/ \E p \in Test : IsOf(c, p) /\ c.targets = lines[p] \cap Recognised
  BY <1>1 DEF CommandsInv
<1> HIDE DEF c
<1>4. Offered(c) \subseteq Target /\ Offered(c) \cap fuzzed = {}
  <2>1. Entered(c) \subseteq Target
    BY <1>2 DEF IsCommand, Entered
  <2> QED
    BY <2>1 DEF Offered, SkippedByFuzzer
<1>5. ASSUME ~Maimed(c), NEW p \in Test, IsOf(c, p), c.targets = lines[p] \cap Recognised
      PROVE  /\ Offered(c) \cap Recognised \subseteq c.targets \ fuzzed
             /\ \A t \in c.targets \ fuzzed :
                  t \in Offered(c) \/ \E u \in fuzzed : <<t, u>> \in PartOf
  <2>1. Range(c.lines) = {p}
    BY <1>5 DEF IsOf, Range
  <2>2. Entered(c) = lines[p]
    BY <1>5, <2>1 DEF Entered
  <2> QED
    BY <1>5, <2>2 DEF Offered, SkippedByFuzzer, SkippedByLibrary
<1> QED
  BY <1>1, <1>3, <1>4, <1>5 DEF c

(* The history of campaigns grows at its end.                              *)
LEMMA RanAppended ==
  ASSUME ran \in Seq(Ran), NEW r \in Ran, ran' = Append(ran, r)
  PROVE  /\ ran' \in Seq(Ran) /\ Len(ran) \in Nat /\ DOMAIN ran = 1 .. Len(ran)
         /\ DOMAIN ran' = 1 .. Len(ran) + 1 /\ ran'[Len(ran) + 1] = r
         /\ \A k \in DOMAIN ran : ran'[k] = ran[k]
OBVIOUS

(* One campaign.                                                           *)
LEMMA CampaignInv ==
  ASSUME IInv, Campaign
  PROVE  IInv'
<1> DEFINE b == Best
           c == collected.commands[Best]
           U == Unfuzzed(Best)
           X == Offered(collected.commands[Best])
           Q == Quota(Best)
           m == Len(ran) + 1
<1>1. /\ script = "loop" /\ Cardinality(fuzzed) < Cardinality(executed) /\ Suitable
      /\ commands' = commands \ {Best}
      /\ UNCHANGED <<recorderVars, misleading, script, collected, executed>>
  BY DEF Campaign
<1>2. PICK status \in Statuses :
        /\ fuzzed' = IF Successful(status) THEN fuzzed \cup U ELSE fuzzed
        /\ ran' = Append(ran, RanWith(Best, status))
        /\ spent' = IF Successful(status) THEN spent + Q ELSE spent
  BY DEF Campaign
<1>3. /\ RecorderInv /\ TypeOK /\ CommandsInv /\ BlacklistInv /\ BudgetInv
      /\ RecordsArrive /\ FuzzedOnce /\ CountsOnlyIfTried /\ SuiteOver
  BY <1>1 DEF IInv
<1>4. /\ b \in commands /\ U # {} /\ U \in SUBSET Target
      /\ c \in Range(collected.commands) /\ b \in DOMAIN collected.commands
  BY <1>1, <1>3, BestHasTargets DEF TypeOK
<1>5. /\ X \subseteq Target /\ X \cap fuzzed = {} /\ (Maimed(c) \/ X \cap Recognised \subseteq U)
      /\ \A t \in U : Maimed(c) \/ t \in X \/ \E u \in fuzzed : <<t, u>> \in PartOf
  BY <1>3, <1>4, OfferedMarked
<1>6. U \subseteq executed /\ U \cap fuzzed = {}
  <2>1. c.targets \subseteq executed
    BY <1>3, <1>4 DEF CommandsInv
  <2> QED
    BY <2>1 DEF Unfuzzed
<1> DEFINE n == Cardinality(executed)
           new == RanWith(Best, status)
<1>7. /\ n \in Nat \ {0} /\ Cardinality(fuzzed) \in Nat
      /\ Cardinality(U) \in Nat \ {0}
      /\ Cardinality(fuzzed \cup U) = Cardinality(fuzzed) + Cardinality(U)
  <2>1. executed \in SUBSET Target /\ fuzzed \in SUBSET Target
    BY <1>3 DEF TypeOK
  <2>2. /\ IsFiniteSet(fuzzed) /\ IsFiniteSet(U)
        /\ Cardinality(fuzzed) \in Nat /\ n \in Nat /\ Cardinality(U) \in Nat
    BY <1>4, <2>1, FiniteTargets
  <2>3. Cardinality(fuzzed \cup U) =
          Cardinality(fuzzed) + Cardinality(U) - Cardinality(fuzzed \cap U)
    BY <2>2, FS_Union
  <2>4. fuzzed \cap U = {} /\ Cardinality({}) = 0 /\ Cardinality(U) # 0
    BY <1>4, <1>6, <2>2, FS_EmptySet
  <2> QED
    BY <1>1, <2>2, <2>3, <2>4
<1>8. Q \in Nat \ {0} /\ Q * n <= Budget * Cardinality(U) + n - 1
  <2>1. Q = (Budget * Cardinality(U) + n - 1) \div n
    BY DEF Quota, Shares
  <2>2. Budget * Cardinality(U) \in Nat /\ Budget * Cardinality(U) > 0
    BY <1>7, BudgetAssumption
  <2> HIDE DEF n, U, Q
  <2> QED
    BY <1>7, <2>1, <2>2, RoundedUp
<1>9. /\ new.command = c /\ new.marks = U /\ new.status = status
      /\ new.offered = X /\ new.quota = Q
  BY DEF RanWith
<1>10. new \in Ran
  BY <1>4, <1>5, <1>8 DEF Ran, RanWith
<1>11. /\ UNCHANGED <<pc, lines, written, lockFile, log>> /\ UNCHANGED <<Starts, Ends, Ran>>
       /\ (Stale' <=> Stale) /\ SuiteOver' /\ RecorderInv'
  <2>1. RecorderInv'
    BY <1>1, <1>3, RecorderNextInv
  <2> QED
    BY <1>1, <1>3, <2>1 DEF recorderVars, Starts, Ends, Ran, Stale, SuiteOver
<1> HIDE DEF b, c, U, X, Q, n, new
<1>12. /\ ran \in Seq(Ran) /\ ran' \in Seq(Ran) /\ DOMAIN ran = 1 .. Len(ran) /\ Len(ran) \in Nat
       /\ DOMAIN ran' = DOMAIN ran \cup {m} /\ m \notin DOMAIN ran /\ ran'[m] = new
       /\ \A k \in DOMAIN ran : ran'[k] = ran[k]
  <2>1. ran \in Seq(Ran)
    BY <1>3 DEF TypeOK
  <2>2. ran' = Append(ran, new)
    BY <1>2 DEF new
  <2>3. /\ ran' \in Seq(Ran) /\ Len(ran) \in Nat /\ DOMAIN ran = 1 .. Len(ran)
        /\ DOMAIN ran' = 1 .. Len(ran) + 1 /\ ran'[Len(ran) + 1] = new
        /\ \A k \in DOMAIN ran : ran'[k] = ran[k]
    BY <1>10, <2>1, <2>2, RanAppended
  <2> QED
    BY <2>1, <2>3
<1>13. Counts' = IF Successful(status) THEN Counts \cup {m} ELSE Counts
  BY <1>9, <1>12 DEF Counts
<1>14. TypeOK'
  <2>1. fuzzed' \subseteq executed' /\ spent' \in Nat
    BY <1>1, <1>2, <1>3, <1>6, <1>8 DEF TypeOK
  <2> QED
    BY <1>1, <1>3, <1>11, <1>12, <2>1 DEF TypeOK, IsCommand, RecorderTypeOK
<1>15. CommandsInv' /\ RecordsArrive'
  <2>1. CommandsInv'
    BY <1>1, <1>3, <1>11 DEF CommandsInv, Maimed, IsOf
  <2> QED
    BY <1>1, <1>3, <1>11, <2>1, RecordsStay
<1>16. BlacklistInv' /\ FuzzedOnce'
  <2>1. /\ fuzzed \subseteq fuzzed'
        /\ Successful(status) => Maimed(c) \/ X \cap Recognised \subseteq fuzzed'
    BY <1>2, <1>5
  <2>2. \A k \in Counts :
          /\ k \in DOMAIN ran /\ ran'[k] = ran[k]
          /\ Maimed(ran[k].command) \/ ran[k].offered \cap Recognised \subseteq fuzzed
    BY <1>3, <1>12 DEF Counts, BlacklistInv
  <2>3. ASSUME NEW k \in Counts'
        PROVE  Maimed(ran'[k].command) \/ ran'[k].offered \cap Recognised \subseteq fuzzed'
    <3>1. CASE k \in Counts
      BY <2>1, <2>2, <3>1
    <3>2. CASE Successful(status) /\ k = m
      BY <1>9, <1>12, <2>1, <3>2
    <3> QED
      BY <1>13, <3>1, <3>2
  <2>4. BlacklistInv'
    BY <2>3 DEF BlacklistInv, Maimed
  <2>5. \A k \in Counts : Maimed(ran'[k].command) \/ ran'[k].offered \cap X \cap Recognised = {}
    BY <1>5, <2>2
  <2>6. ASSUME NEW j \in Counts', NEW k \in Counts',
               ran'[j].offered \cap ran'[k].offered \cap Recognised # {},
               ~Maimed(ran'[j].command), ~Maimed(ran'[k].command)
        PROVE  j = k
    <3>1. CASE j \in Counts /\ k \in Counts
      BY <1>3, <2>2, <2>6, <3>1 DEF FuzzedOnce
    <3>2. CASE j \in Counts /\ k = m
      BY <1>9, <1>12, <2>5, <2>6, <3>2
    <3>3. CASE j = m /\ k \in Counts
      BY <1>9, <1>12, <2>5, <2>6, <3>3
    <3> QED
      BY <1>13, <3>1, <3>2, <3>3
  <2>7. FuzzedOnce'
    BY <2>6 DEF FuzzedOnce, Maimed
  <2> QED
    BY <2>4, <2>7
<1>17. CountsOnlyIfTried'
  <2>1. fuzzed \subseteq fuzzed' /\ Counts \subseteq Counts'
    BY <1>2, <1>13
  <2>2. \A k \in Counts : ran'[k] = ran[k]
    BY <1>12 DEF Counts
  <2>3. ASSUME NEW t \in fuzzed
        PROVE  \E k \in Counts' :
                 /\ t \in ran'[k].marks /\ ran'[k].status = 0
                 /\ \/ t \in ran'[k].offered \/ Maimed(ran'[k].command)
                    \/ \E u \in fuzzed' : <<t, u>> \in PartOf
    <3>1. PICK k \in Counts :
                 /\ t \in ran[k].marks /\ ran[k].status = 0
                 /\ \/ t \in ran[k].offered \/ Maimed(ran[k].command)
                    \/ \E u \in fuzzed : <<t, u>> \in PartOf
      BY <1>3, <2>3 DEF CountsOnlyIfTried
    <3> QED
      BY <2>1, <2>2, <3>1
  <2>4. ASSUME Successful(status), NEW t \in U
        PROVE  /\ m \in Counts' /\ t \in ran'[m].marks /\ ran'[m].status = 0
               /\ \/ t \in ran'[m].offered \/ Maimed(ran'[m].command)
                  \/ \E u \in fuzzed' : <<t, u>> \in PartOf
    <3>1. status = 0
      BY <2>4 DEF Successful
    <3>2. Maimed(c) \/ t \in X \/ \E u \in fuzzed : <<t, u>> \in PartOf
      BY <1>5, <2>4
    <3> QED
      BY <1>9, <1>12, <1>13, <2>1, <2>4, <3>1, <3>2
  <2> QED
    BY <1>2, <2>3, <2>4 DEF CountsOnlyIfTried, Maimed
<1>18. BudgetInv'
  <2>1. IsFiniteSet(Counts) /\ Cardinality(Counts) \in Nat /\ m \notin Counts
    <3>1. Counts \in SUBSET (1 .. Len(ran)) /\ IsFiniteSet(1 .. Len(ran))
      BY <1>12, FS_Interval DEF Counts
    <3>2. IsFiniteSet(Counts)
      BY <3>1, FS_Subset
    <3> QED
      BY <1>12, <3>2, FS_CardinalityType DEF Counts
  <2>2. spent \in Nat /\ Budget \in Nat
    BY <1>3, BudgetAssumption DEF TypeOK
  <2>3. spent * n <= Budget * Cardinality(fuzzed) + Cardinality(Counts) * (n - 1)
    BY <1>3 DEF BudgetInv, n
  <2>4. Cardinality(executed') = n
    BY <1>1 DEF n
  <2>5. CASE Successful(status)
    <3>1. /\ Cardinality(fuzzed') = Cardinality(fuzzed) + Cardinality(U) /\ spent' = spent + Q
      BY <1>2, <1>7, <2>5
    <3>2. Cardinality(Counts') = Cardinality(Counts) + 1
      BY <1>13, <2>1, <2>5, FS_AddElement
    <3>3. (spent + Q) * n <= Budget * (Cardinality(fuzzed) + Cardinality(U))
                             + (Cardinality(Counts) + 1) * (n - 1)
      BY <1>7, <1>8, <2>1, <2>2, <2>3, SumOfShares
    <3> QED
      BY <1>7, <2>4, <3>1, <3>2, <3>3 DEF BudgetInv
  <2>6. CASE ~Successful(status)
    <3>1. fuzzed' = fuzzed /\ spent' = spent /\ Counts' = Counts
      BY <1>2, <1>13, <2>6
    <3> QED
      BY <1>7, <2>3, <2>4, <3>1 DEF BudgetInv
  <2> QED
    BY <2>5, <2>6
<1> QED
  BY <1>1, <1>11, <1>14, <1>15, <1>16, <1>17, <1>18 DEF IInv

(* The end of the loop, and what is after it.                              *)
LEMMA LeaveInv ==
  ASSUME IInv, Leave
  PROVE  IInv'
<1>1. /\ UNCHANGED <<recorderVars, misleading, collected, commands, executed, fuzzed, ran, spent>>
      /\ script = "loop" /\ script' = "end"
  BY DEF Leave
<1>2. UNCHANGED <<pc, lines, written, lockFile, log>> /\ UNCHANGED <<Starts, Ends, Counts, Ran>>
  BY <1>1 DEF recorderVars, Starts, Ends, Counts, Ran
<1>3. (Stale' <=> Stale) /\ SuiteOver'
  BY <1>1, <1>2 DEF IInv, Stale, SuiteOver
<1>4. RecorderInv'
  BY <1>1, RecorderNextInv DEF IInv
<1>5. TypeOK'
  BY <1>1, <1>2, <1>4 DEF IInv, TypeOK, IsCommand, RecorderInv
<1>6. CommandsInv' /\ RecordsArrive'
  <2>1. CommandsInv'
    BY <1>1, <1>2 DEF IInv, CommandsInv, Maimed, IsOf
  <2> QED
    <3>1. /\ RecordsArrive /\ script # "waiting"
          /\ UNCHANGED <<misleading, collected, lines, log, pc>>
      BY <1>1, <1>2 DEF IInv
    <3> QED
      BY <1>3, <2>1, <3>1, RecordsStay
<1>7. BlacklistInv' /\ BudgetInv' /\ FuzzedOnce' /\ CountsOnlyIfTried'
  <2>1. BlacklistInv' /\ BudgetInv' /\ FuzzedOnce'
    BY <1>1, <1>2 DEF IInv, BlacklistInv, BudgetInv, FuzzedOnce, Maimed
  <2> QED
    BY <1>1, <1>2, <2>1 DEF IInv, CountsOnlyIfTried, Maimed
<1> QED
  BY <1>1, <1>3, <1>4, <1>5, <1>6, <1>7 DEF IInv

(* Every step of the tests and of the script.                              *)
LEMMA NextInv == IInv /\ [Next]_vars => IInv'
<1> SUFFICES ASSUME IInv, [Next]_vars PROVE IInv'
  OBVIOUS
<1>1. CASE UNCHANGED vars
  BY <1>1, RecordingInv DEF vars
<1>2. CASE Recording
  BY <1>2, RecordingInv DEF Recording
<1>3. CASE Collect
  BY <1>3, CollectInv
<1>4. CASE Loop
  BY <1>4, CampaignInv, LeaveInv DEF Loop
<1>5. CASE Over
  BY <1>5, RecordingInv DEF Over, vars
<1> QED
  BY <1>1, <1>2, <1>3, <1>4, <1>5 DEF Next

(* The invariant holds, with whatever tests, kills, targets and budget.    *)
THEOREM Invariant == Spec => []IInv
BY InitInv, NextInv, PTL DEF Spec

(* Every variable of the tests' processes and of the script keeps to its   *)
(* type: among others, fuzzed_targets are executed_targets, and afl-fuzz   *)
(* is never given -V 0, with which it would stop at once.                  *)
THEOREM Types == Spec => []TypeOK
<1>1. IInv => TypeOK
  BY DEF IInv
<1> QED
  BY Invariant, <1>1, PTL

(* Whatever processes exit side by side or are killed, and whatever targets*)
(* are C++ or without arguments, each command that get_fuzzing_commands    *)
(* returns with targets is that of one process, with its folder and its    *)
(* directory and those of its targets that can be found in the log, and no *)
(* process that ended normally with such a target is missing.  A torn      *)
(* record, and tests with "FUNCTIONS:" in their environment, are excepted. *)
THEOREM LogIsReadBack == Spec => []RecordsArrive
<1>1. IInv => RecordsArrive
  BY DEF IInv
<1> QED
  BY Invariant, <1>1, PTL

(* Of the targets that can be found in the log, and of records that are    *)
(* whole, none is offered to two successful campaigns.                     *)
THEOREM NothingTwice == Spec => []FuzzedOnce
<1>1. IInv => FuzzedOnce
  BY DEF IInv
<1> QED
  BY Invariant, <1>1, PTL

(* A target only gets on the blacklist when a campaign of a command that   *)
(* enters it, and that the list did not keep from it, was run and has not  *)
(* failed, but for the exceptions that CountsOnlyIfTried names.            *)
THEOREM BlacklistIsDeserved == Spec => []CountsOnlyIfTried
<1>1. IInv => CountsOnlyIfTried
  BY DEF IInv
<1> QED
  BY Invariant, <1>1, PTL

(* The seconds given to successful campaigns add up to less than the       *)
(* budget and one second for each of them.                                 *)
THEOREM BudgetIsKept == Spec => []BudgetKept
<1>1. IInv => BudgetKept
  <2> SUFFICES ASSUME IInv, Counts # {} PROVE spent < Budget + Cardinality(Counts)
    BY DEF BudgetKept
  <2>1. TypeOK /\ BudgetInv
    BY DEF IInv
  <2>2. IsFiniteSet(Counts)
    <3>1. ran \in Seq(Ran)
      BY <2>1 DEF TypeOK
    <3>2. Counts \in SUBSET (1 .. Len(ran)) /\ IsFiniteSet(1 .. Len(ran))
      BY <3>1, FS_Interval DEF Counts
    <3> QED
      BY <3>2, FS_Subset
  <2>3. Cardinality(Counts) \in Nat \ {0}
    BY <2>2, FS_CardinalityType, FS_EmptySet
  <2>4. IsFiniteSet(executed) /\ Cardinality(executed) \in Nat /\ Cardinality(fuzzed) \in Nat
    BY <2>1, FiniteTargets DEF TypeOK
  <2>5. Cardinality(fuzzed) <= Cardinality(executed)
    BY <2>1, <2>4, FS_Subset DEF TypeOK
  <2>6. /\ Cardinality(executed) \in Nat \ {0} /\ Cardinality(fuzzed) \in 0 .. Cardinality(executed)
        /\ spent \in Nat /\ Budget \in Nat
    <3>1. Cardinality(executed) > 0
      BY <2>1 DEF BudgetInv
    <3>2. spent \in Nat /\ Budget \in Nat
      BY <2>1, BudgetAssumption DEF TypeOK
    <3> QED
      BY <2>4, <2>5, <3>1, <3>2
  <2>7. spent * Cardinality(executed) <=
          Budget * Cardinality(fuzzed) + Cardinality(Counts) * (Cardinality(executed) - 1)
    BY <2>1 DEF BudgetInv
  <2> QED
    BY <2>3, <2>6, <2>7, BoundOfSum
<1> QED
  BY Invariant, <1>1, PTL
=============================================================================
