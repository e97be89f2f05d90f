-------------------------- MODULE ForkServerProofs --------------------------
(***************************************************************************)
(* For every set of pids and targets, every loop count and both modes: the *)
(* steps of afl-fuzz (afl-forkserver.c), of the fork server and of its     *)
(* children (afl-compiler-rt.o.c) preserve the invariant of ForkServerInv, *)
(* the safety properties of ForkServer follow, and it refines Executor.    *)
(***************************************************************************)
EXTENDS ForkServerInv, TLAPS

(* Unless a step says otherwise: Zenon for a moment, SMT, Zenon.           *)
USE ZenonT(2), SMTT(30), ZenonT(30)

(* Sequences of one or two messages, as the pipes hold them.               *)
LEMMA ShortSequences ==
  ASSUME NEW a, NEW b
  PROVE  /\ Head(<<a>>) = a /\ Tail(<<a>>) = <<>> /\ <<a>> # <<>>
         /\ Append(<<>>, a) = <<a>> /\ Append(<<a>>, b) = <<a, b>>
         /\ Head(<<a, b>>) = a /\ Tail(<<a, b>>) = <<b>> /\ <<a, b>> # <<>>
<1> DEFINE s == Append(<<a>>, b)
<1>1. s \in Seq({a, b}) /\ Len(s) = 2 /\ s[1] = a /\ s[2] = b
  OBVIOUS
<1>2. <<a, b>> \in Seq({a, b}) /\ Len(<<a, b>>) = 2
  OBVIOUS
<1>3. \A i \in 1..2 : i = 1 \/ i = 2
  OBVIOUS
<1>4. s = <<a, b>>
  <2> HIDE DEF s
  <2>1. \A i \in 1..Len(s) : s[i] = <<a, b>>[i]
    BY <1>1, <1>3
  <2> QED BY <1>1, <1>2, <2>1
<1>5. Tail(<<a, b>>) = <<b>> /\ Tail(<<a>>) = <<>> /\ Append(<<>>, a) = <<a>>
  OBVIOUS
<1>6. Head(<<a>>) = a /\ <<a>> # <<>> /\ Head(<<a, b>>) = a /\ <<a, b>> # <<>>
  OBVIOUS
<1> QED BY <1>4, <1>5, <1>6

(* The entry of a pid that is not in use.                                  *)
LEMMA FreeProcess == Free \in Process /\ Free.st = "free"
<1>1. 0 \in Nat
  OBVIOUS
<1> QED BY <1>1 DEF Free, Process

(* The flag of a request can be told from its wire form.                   *)
LEMMA RequestFlag ==
  /\ Msg("run", 0).val = 0 /\ Msg("run", 1).val = 1
  /\ Msg("rec", 0).val = 0 /\ Msg("rec", 1).val = 1
  /\ <<Msg("run", 0)>> # <<Msg("run", 1)>>
BY ShortSequences DEF Msg

(* SIGKILL turns the living process it names, and no other, into a zombie. *)
LEMMA KilledFacts ==
  ASSUME NEW T \in [Pid -> Process], NEW k \in Pid \cup {NoPid}
  PROVE  /\ Killed(T, k) \in [Pid -> Process]
         /\ \A p \in Pid : IF p = k /\ T[p].st \in {"run", "stop"}
              THEN Killed(T, k)[p].st = "zombie" /\ Killed(T, k)[p].ws = "killed"
              ELSE Killed(T, k)[p] = T[p]
<1>1. CASE k \in Pid /\ T[k].st \in {"run", "stop"}
  <2>1. /\ Killed(T, k) = [T EXCEPT ![k].st = "zombie", ![k].ws = "killed"]
    BY <1>1 DEF Killed
  <2>2. T[k] \in Process
    BY <1>1
  <2>3. [[T[k] EXCEPT !.st = "zombie"] EXCEPT !.ws = "killed"] \in Process
    BY <2>2 DEF Process
  <2> QED BY <1>1, <2>1, <2>2, <2>3 DEF Process
<1>2. CASE ~(k \in Pid /\ T[k].st \in {"run", "stop"})
  BY <1>2, PidAssumption DEF Killed
<1> QED BY <1>1, <1>2

(* When the server dies its zombies vanish and nothing else changes.       *)
LEMMA OrphanedFacts ==
  ASSUME NEW T \in [Pid -> Process]
  PROVE  /\ Orphaned(T) \in [Pid -> Process]
         /\ \A p \in Pid : IF T[p].st = "zombie"
              THEN Orphaned(T)[p].st = "free" ELSE Orphaned(T)[p] = T[p]
BY FreeProcess DEF Orphaned

(* The state before the first server satisfies the invariant.             *)
LEMMA InitEstablishes == Init => IInv
<1> SUFFICES ASSUME Init PROVE IInv
  OBVIOUS
<1>1. ParentType /\ PipeType /\ ServerType
  <2>1. ParentType
    BY DEF Init, ParentType
  <2>2. PipeType
    BY DEF Init, PipeType
  <2>3. ServerType
    BY DEF Init, ServerType, WaitStatus
  <2> QED BY <2>1, <2>2, <2>3
<1>2. ChildType
  BY FreeProcess DEF Init, ChildType
<1>3. AllFree
  BY DEF Init, AllFree, Free
<1>4. WireStart /\ WireLoop /\ Control /\ TargetDelivered
  BY DEF Init, WireStart, WireLoop, Control, TargetDelivered, Busy
<1>5. ChildTable /\ ChildKnown /\ OneRunning /\ InputStable /\ Outcome
  BY <1>3 DEF Init, ChildTable, ChildKnown, OneRunning, InputStable, Outcome,
              AllFree, Reporting
<1> QED BY <1>1, <1>2, <1>4, <1>5 DEF IInv, TypeOK

USE DEF Rec, Name, Option, Hello, PidMsg, StatusMsg, confVars, verdictVars,
        targetVars, loopVars, serverVars

(* FsrvStart preserves the invariant. *)
LEMMA FsrvStartPreserves ==
  ASSUME NEW t \in Target \cup {NonExistent}, NEW rec \in BOOLEAN, IInv, FsrvStart(t, rec)
  PROVE  IInv'
<1> USE DEF IInv, FsrvStart
<1>1. ParentType'
  <2>1. starts' \in Nat
    BY DEF TypeOK, ParentType
  <2> QED BY ZenonT(30), <2>1 DEF TypeOK, ParentType
<1>2. PipeType'
  <2>1. Msg("rec", Flag(rec)) \in CtlMsg
    BY DEF Msg, CtlMsg, Flag
  <2> QED BY <2>1 DEF TypeOK, PipeType
<1>3. ServerType'
  BY ZenonT(30) DEF TypeOK, ServerType
<1>4. ChildType'
  BY DEF TypeOK, ChildType
<1>5. WireStart'
  BY DEF WireStart, WireLoop, Control, Busy
<1>6. WireLoop'
  BY DEF WireStart, WireLoop, Control, Busy
<1>7. Control'
  BY DEF WireStart, WireLoop, Control, Busy
<1>8. TargetDelivered'
  BY DEF TargetDelivered
<1>9. ChildTable'
  BY DEF ChildTable, AllFree, Control
<1>10. ChildKnown'
  BY DEF ChildKnown, Reporting
<1>11. OneRunning'
  BY DEF OneRunning
<1>12. InputStable'
  BY DEF InputStable, Busy
<1>13. Outcome'
  BY DEF Outcome, Reporting
<1> QED BY <1>1, <1>2, <1>3, <1>4, <1>5, <1>6, <1>7, <1>8, <1>9, <1>10, <1>11,
        <1>12, <1>13 DEF TypeOK

(* FsrvWriteName preserves the invariant. *)
LEMMA FsrvWriteNamePreserves ==
  ASSUME IInv, FsrvWriteName
  PROVE  IInv'
<1> USE DEF IInv, FsrvWriteName
<1>pipe. /\ spc = "rec" => ctl' = <<Rec, Name>>
         /\ spc = "tname" => ctl' = <<Name>>
  BY ShortSequences DEF WireStart
<1>1. ParentType'
  BY <1>pipe
     DEF TypeOK, ParentType
<1>2. PipeType'
  <2>1. Name \in CtlMsg
    BY DEF TypeOK, ParentType, Msg, CtlMsg
  <2> QED BY <2>1 DEF TypeOK, PipeType
<1>3. ServerType'
  BY <1>pipe
     DEF TypeOK, ServerType
<1>4. ChildType'
  BY <1>pipe
     DEF TypeOK, ChildType
<1>5. WireStart'
  BY <1>pipe
     DEF WireStart, WireLoop, Control, Busy
<1>6. WireLoop'
  BY <1>pipe
     DEF WireStart, WireLoop, Control, Busy
<1>7. Control'
  BY <1>pipe
     DEF WireStart, WireLoop, Control, Busy
<1>8. TargetDelivered'
  BY DEF TargetDelivered
<1>9. ChildTable'
  BY DEF ChildTable, AllFree, WireLoop
<1>10. ChildKnown'
  BY DEF ChildKnown, Reporting, ChildSt
<1>11. OneRunning'
  BY DEF OneRunning
<1>12. InputStable'
  BY DEF InputStable, Busy
<1>13. Outcome'
  BY DEF Outcome, ChildKnown, Reporting, OthersFree, WireLoop
<1> QED BY <1>1, <1>2, <1>3, <1>4, <1>5, <1>6, <1>7, <1>8, <1>9, <1>10, <1>11,
        <1>12, <1>13 DEF TypeOK

(* FsrvHello preserves the invariant. *)
LEMMA FsrvHelloPreserves ==
  ASSUME IInv, FsrvHello
  PROVE  IInv'
<1> USE DEF IInv, FsrvHello
<1>pipe. spc = "opt" /\ ctl' = <<Option>> /\ st' = <<>>
  BY ZenonT(30), ShortSequences DEF WireStart, WireLoop, TypeOK, ServerType
<1>1. ParentType'
  BY <1>pipe
     DEF TypeOK, ParentType
<1>2. PipeType'
  <2>1. Option \in CtlMsg
    BY DEF Msg, CtlMsg, OptShmem
  <2> QED BY <2>1 DEF TypeOK, PipeType
<1>3. ServerType'
  BY <1>pipe
     DEF TypeOK, ServerType
<1>4. ChildType'
  BY <1>pipe
     DEF TypeOK, ChildType
<1>5. WireStart'
  BY <1>pipe
     DEF WireStart, WireLoop, Control, Busy
<1>6. WireLoop'
  BY <1>pipe
     DEF WireStart, WireLoop, Control, Busy
<1>7. Control'
  BY <1>pipe
     DEF WireStart, WireLoop, Control, Busy
<1>8. TargetDelivered'
  BY DEF TargetDelivered
<1>9. ChildTable'
  BY <1>pipe DEF ChildTable, AllFree
<1>10. ChildKnown'
  BY <1>pipe DEF ChildKnown, Reporting, OthersFree, ChildSt
<1>11. OneRunning'
  BY DEF OneRunning, OthersFree
<1>12. InputStable'
  BY DEF InputStable, ChildSt, Busy
<1>13. Outcome'
  BY DEF Outcome, ChildTable, ChildKnown, Reporting, AllFree, OthersFree, ChildSt,
         WireStart, Control, Busy
<1> QED BY <1>1, <1>2, <1>3, <1>4, <1>5, <1>6, <1>7, <1>8, <1>9, <1>10, <1>11,
        <1>12, <1>13 DEF TypeOK

(* FsrvNoHello preserves the invariant. *)
LEMMA FsrvNoHelloPreserves ==
  ASSUME IInv, FsrvNoHello
  PROVE  IInv'
<1> USE DEF IInv, FsrvNoHello
<1>1. ParentType'
  BY ZenonT(30) DEF TypeOK, ParentType
<1>2. PipeType'
  BY DEF TypeOK, PipeType, CtlMsg, StMsg
<1>3. ServerType'
  BY DEF TypeOK, ServerType
<1>4. ChildType'
  BY DEF TypeOK, ChildType
<1>5. WireStart'
  BY DEF WireStart, WireLoop, Control, Busy
<1>6. WireLoop'
  BY DEF WireStart, WireLoop, Control, Busy
<1>7. Control'
  BY DEF WireStart, WireLoop, Control, Busy
<1>8. TargetDelivered'
  BY DEF TargetDelivered
<1>9. ChildTable'
  BY DEF ChildTable, AllFree, WireLoop, Control, TypeOK, ServerType
<1>10. ChildKnown'
  BY DEF ChildKnown, Reporting, AllFree, ChildSt
<1>11. OneRunning'
  BY DEF OneRunning
<1>12. InputStable'
  BY DEF InputStable, Busy
<1>13. Outcome'
  BY DEF Outcome, Reporting
<1> QED BY <1>1, <1>2, <1>3, <1>4, <1>5, <1>6, <1>7, <1>8, <1>9, <1>10, <1>11,
        <1>12, <1>13 DEF TypeOK

(* FsrvKill preserves the invariant. *)
LEMMA FsrvKillPreserves ==
  ASSUME IInv, FsrvKill
  PROVE  IInv'
<1> USE DEF IInv, FsrvKill
<1>proc. \A p \in Pid :
           IF proc[p].st = "zombie" \/ (p = child_pid /\ Alive(p))
             THEN proc'[p].st = "free" ELSE proc'[p] = proc[p]
  BY KilledFacts, OrphanedFacts DEF TypeOK, ParentType, ChildType, Alive
<1>1. ParentType'
  BY ZenonT(30), <1>proc
     DEF TypeOK, ParentType
<1>2. PipeType'
  BY DEF TypeOK, PipeType
<1>3. ServerType'
  BY <1>proc
     DEF TypeOK, ServerType
<1>4. ChildType'
  BY KilledFacts, OrphanedFacts
     DEF TypeOK, ParentType, ChildType
<1>5. WireStart'
  BY <1>proc
     DEF WireStart, WireLoop, Control, Busy
<1>6. WireLoop'
  BY <1>proc
     DEF WireStart, WireLoop, Control, Busy
<1>7. Control'
  BY <1>proc
     DEF WireStart, WireLoop, Control, Busy
<1>8. TargetDelivered'
  BY DEF TargetDelivered, WireStart
<1>9. ChildTable'
  BY ZenonT(30), <1>proc
     DEF ChildTable, AllFree, OthersFree, ChildSt, WireLoop, Control, ChildKnown,
         Alive, TypeOK, ServerType
<1>10. ChildKnown'
  BY DEF ChildTable, ChildKnown, Reporting, OthersFree
<1>11. OneRunning'
  BY <1>proc DEF OneRunning, OthersFree, ChildSt
<1>12. InputStable'
  BY <1>proc DEF InputStable, AllFree, Busy
<1>13. Outcome'
  BY ZenonT(30) DEF Outcome, Reporting, AllFree, OthersFree
<1> QED BY <1>1, <1>2, <1>3, <1>4, <1>5, <1>6, <1>7, <1>8, <1>9, <1>10, <1>11,
        <1>12, <1>13 DEF TypeOK

(* StopSignal preserves the invariant. *)
LEMMA StopSignalPreserves ==
  ASSUME IInv, StopSignal
  PROVE  IInv'
<1> USE DEF IInv, StopSignal
<1>proc. \A p \in Pid : proc'[p].st = "run" => proc[p].st = "run"
  BY KilledFacts, OrphanedFacts DEF TypeOK, ParentType, ChildType
<1>1. ParentType'
  BY <1>proc
     DEF TypeOK, ParentType
<1>2. PipeType'
  BY <1>proc
     DEF TypeOK, PipeType, CtlMsg, StMsg
<1>3. ServerType'
  BY <1>proc
     DEF TypeOK, ServerType
<1>4. ChildType'
  BY KilledFacts, OrphanedFacts
     DEF TypeOK, ParentType, ChildType
<1>5. WireStart'
  BY <1>proc
     DEF WireStart, WireLoop, Control, Busy
<1>6. WireLoop'
  BY DEF TypeOK, ServerType, WireStart, WireLoop
<1>7. Control'
  BY DEF TypeOK, ParentType, Control, Busy
<1>8. TargetDelivered'
  BY DEF TargetDelivered
<1>9. ChildTable'
  BY DEF ChildTable
<1>10. ChildKnown'
  BY DEF ChildKnown
<1>11. OneRunning'
  BY ZenonT(30), <1>proc
     DEF OneRunning
<1>12. InputStable'
  BY ZenonT(30) DEF InputStable
<1>13. Outcome'
  BY DEF Outcome
<1> QED BY <1>1, <1>2, <1>3, <1>4, <1>5, <1>6, <1>7, <1>8, <1>9, <1>10, <1>11,
        <1>12, <1>13 DEF TypeOK

(* Leave preserves the invariant. *)
LEMMA LeavePreserves ==
  ASSUME IInv, Leave
  PROVE  IInv'
<1> USE DEF IInv, Leave
<1>1. ParentType'
  BY DEF TypeOK, ParentType
<1>2. PipeType'
  BY DEF TypeOK, PipeType, CtlMsg, StMsg
<1>3. ServerType'
  BY DEF TypeOK, ServerType
<1>4. ChildType'
  BY DEF TypeOK, ChildType
<1>5. WireStart'
  BY DEF WireStart, WireLoop, Control, Busy
<1>6. WireLoop'
  BY DEF WireStart, WireLoop, Control, Busy
<1>7. Control'
  BY DEF WireStart, WireLoop, Control, Busy
<1>8. TargetDelivered'
  BY DEF TargetDelivered, WireStart
<1>9. ChildTable'
  BY DEF ChildTable, AllFree, OthersFree, ChildSt, WireStart
<1>10. ChildKnown'
  BY ZenonT(30) DEF ChildKnown, OthersFree, ChildSt
<1>11. OneRunning'
  BY ZenonT(30) DEF OneRunning, ChildSt, WireStart
<1>12. InputStable'
  BY DEF InputStable, ChildTable, AllFree, OthersFree, ChildSt, WireStart
<1>13. Outcome'
  BY ZenonT(30) DEF Outcome, AllFree
<1> QED BY <1>1, <1>2, <1>3, <1>4, <1>5, <1>6, <1>7, <1>8, <1>9, <1>10, <1>11,
        <1>12, <1>13 DEF TypeOK

(* RunTarget preserves the invariant. *)
LEMMA RunTargetPreserves ==
  ASSUME IInv, RunTarget
  PROVE  IInv'
<1> USE DEF IInv, RunTarget
<1>pipe. /\ spc \in {"opt", "loop"} /\ ~stop_soon /\ st = <<>>
         /\ spc = "opt" => ctl' = <<Option, Msg("run", 0)>>
         /\ spc = "loop" => ctl' = <<Msg("run", Flag(last_run_timed_out))>>
         /\ Flag(last_run_timed_out) \in {0, 1}
         /\ Flag(last_run_timed_out) = 1 <=> last_run_timed_out
  <2>1. spc \in {"opt", "loop"} /\ ~stop_soon
    BY DEF WireStart, WireLoop, Control, TypeOK, ServerType
  <2>2. spc = "opt" => ~last_run_timed_out /\ ctl = <<Option>> /\ st = <<>>
    BY <2>1 DEF WireStart, ChildKnown
  <2>3. spc = "loop" => ctl = <<>> /\ st = <<>>
    BY DEF WireLoop
  <2>4. /\ Flag(last_run_timed_out) \in {0, 1}
        /\ Flag(last_run_timed_out) = 1 <=> last_run_timed_out
    BY DEF Flag
  <2>5. ~last_run_timed_out => Flag(last_run_timed_out) = 0
    BY DEF Flag
  <2> HIDE DEF Flag
  <2>6. ctl' = Append(ctl, Msg("run", Flag(last_run_timed_out)))
    OBVIOUS
  <2> HIDE DEF IInv, RunTarget
  <2>7. spc = "opt" => ctl' = <<Option, Msg("run", 0)>>
    <3>1. Append(<<Option>>, Msg("run", 0)) = <<Option, Msg("run", 0)>>
      BY ZenonT(30), ShortSequences
    <3>2. spc = "opt" => ctl' = Append(<<Option>>, Msg("run", 0))
      BY ZenonT(30), <2>2, <2>5, <2>6
    <3> QED BY <3>1, <3>2
  <2>8. spc = "loop" => ctl' = <<Msg("run", Flag(last_run_timed_out))>>
    BY <2>3, <2>6, ShortSequences
  <2> QED BY <2>1, <2>2, <2>3, <2>4, <2>7, <2>8
<1>1. ParentType'
  <2>1. runs' \in Nat
    BY DEF TypeOK, ParentType
  <2> QED BY ZenonT(30), <2>1 DEF TypeOK, ParentType
<1>2. PipeType'
  <2>1. Msg("run", Flag(last_run_timed_out)) \in CtlMsg
    BY DEF Msg, CtlMsg, Flag
  <2> QED BY <2>1 DEF TypeOK, PipeType
<1>3. ServerType'
  BY <1>pipe
     DEF TypeOK, ServerType
<1>4. ChildType'
  BY <1>pipe
     DEF TypeOK, ChildType
<1>5. WireStart'
  BY <1>pipe
     DEF WireStart, WireLoop, Control, Busy
<1>6. WireLoop'
  BY <1>pipe
     DEF WireStart, WireLoop, Control, Busy
<1>7. Control'
  BY <1>pipe DEF WireStart, Control, Busy
<1>8. TargetDelivered'
  BY DEF TargetDelivered
<1>9. ChildTable'
  BY ZenonT(30) DEF ChildTable, AllFree, OthersFree, ChildSt
<1>10. ChildKnown'
  <2>1. /\ spc' = spc /\ ppc' = "pid" /\ ~last_run_timed_out' /\ st' = <<>>
        /\ child_stopped' = child_stopped /\ ChildSt' = ChildSt
    BY <1>pipe DEF ChildSt
  <2>2. ~Reporting'
    BY <2>1 DEF Reporting
  <2>3. ASSUME spc = "loop", child_stopped
        PROVE  /\ ctl' = <<Msg("run", 1)>> => ChildSt = "zombie"
               /\ ctl' = <<Msg("run", 0)>> => ChildSt = "stop"
    <3>1. \/ ChildSt = "stop" /\ ~last_run_timed_out
          \/ ChildSt = "zombie" /\ last_run_timed_out
      BY <1>pipe, <2>3 DEF ChildKnown
    <3> HIDE DEF IInv, RunTarget
    <3>2. last_run_timed_out => ctl' = <<Msg("run", 1)>>
      BY <1>pipe, <2>3, ZenonT(30)
    <3>3. ~last_run_timed_out => ctl' = <<Msg("run", 0)>>
      BY <1>pipe, <2>3, ZenonT(30)
    <3> QED BY <3>1, <3>2, <3>3, RequestFlag, ZenonT(30)
  <2>4. spc' # "wait" \/ ppc' # "late"
    BY <2>1
  <2> HIDE DEF IInv, RunTarget
  <2> QED BY <1>pipe, <2>1, <2>2, <2>3, <2>4 DEF ChildKnown
<1>11. OneRunning'
  BY ZenonT(30) DEF OneRunning, ChildSt
<1>12. InputStable'
  BY ZenonT(30) DEF InputStable, AllFree, ChildSt, Busy
<1>13. Outcome'
  BY ZenonT(30), <1>pipe DEF Outcome, Reporting
<1> QED BY <1>1, <1>2, <1>3, <1>4, <1>5, <1>6, <1>7, <1>8, <1>9, <1>10, <1>11,
        <1>12, <1>13 DEF TypeOK

(* RunTargetNoServer preserves the invariant. *)
LEMMA RunTargetNoServerPreserves ==
  ASSUME IInv, RunTargetNoServer
  PROVE  IInv'
<1> USE DEF IInv, RunTargetNoServer
<1>1. ParentType'
  BY DEF TypeOK, ParentType
<1>2. PipeType'
  BY DEF TypeOK, PipeType, CtlMsg, StMsg
<1>3. ServerType'
  BY DEF TypeOK, ServerType
<1>4. ChildType'
  BY DEF TypeOK, ChildType
<1>5. WireStart'
  BY DEF WireStart, WireLoop, Control, Busy
<1>6. WireLoop'
  BY DEF WireStart, WireLoop, Control, Busy
<1>7. Control'
  BY DEF WireStart, WireLoop, Control, Busy
<1>8. TargetDelivered'
  BY DEF TargetDelivered
<1>9. ChildTable'
  BY ZenonT(30) DEF ChildTable, WireLoop
<1>10. ChildKnown'
  BY ZenonT(30) DEF ChildKnown, OthersFree, ChildSt, WireStart, WireLoop, Control, Busy
<1>11. OneRunning'
  BY ZenonT(30) DEF OneRunning, OthersFree, ChildSt, WireStart
<1>12. InputStable'
  BY DEF InputStable, ChildTable, AllFree, OthersFree, ChildSt, WireStart, WireLoop,
         Busy
<1>13. Outcome'
  BY ZenonT(30) DEF Outcome, Reporting, OthersFree
<1> QED BY <1>1, <1>2, <1>3, <1>4, <1>5, <1>6, <1>7, <1>8, <1>9, <1>10, <1>11,
        <1>12, <1>13 DEF TypeOK

(* RunReadPid preserves the invariant. *)
LEMMA RunReadPidPreserves ==
  ASSUME IInv, RunReadPid
  PROVE  IInv'
<1> USE DEF IInv, RunReadPid
<1>pipe. /\ Head(st).val = srv_child /\ srv_child \in Pid
         /\ \/ st = <<PidMsg>> /\ st' = <<>>
            \/ st = <<PidMsg, StatusMsg>> /\ st' = <<StatusMsg>>
  <2>1. srv_child \in Pid /\ (st = <<PidMsg>> \/ st = <<PidMsg, StatusMsg>>)
    BY DEF WireStart, WireLoop, Control, TypeOK, ServerType
  <2>2. \/ st = <<PidMsg>> /\ st' = <<>>
        \/ st = <<PidMsg, StatusMsg>> /\ st' = <<StatusMsg>>
    <3>1. st' = Tail(st)
      OBVIOUS
    <3>2. Tail(<<PidMsg>>) = <<>> /\ Tail(<<PidMsg, StatusMsg>>) = <<StatusMsg>>
      BY ShortSequences
    <3> HIDE DEF PidMsg, StatusMsg, RunReadPid, IInv
    <3> QED BY <2>1, <3>1, <3>2, ZenonT(30)
  <2>3. Head(st) = PidMsg
    BY <2>1, ShortSequences
  <2>4. Head(st).val = srv_child
    BY <2>3 DEF Msg
  <2> QED BY <2>1, <2>2, <2>4
<1>1. ParentType'
  BY <1>pipe
     DEF TypeOK, ParentType
<1>2. PipeType'
  BY DEF TypeOK, PipeType
<1>3. ServerType'
  BY <1>pipe
     DEF TypeOK, ServerType
<1>4. ChildType'
  BY <1>pipe
     DEF TypeOK, ChildType
<1>5. WireStart'
  BY <1>pipe
     DEF WireStart, WireLoop, Control, Busy
<1>6. WireLoop'
  <2>1. /\ ppc' = "status" /\ spc' = spc /\ ctl' = ctl /\ stop_soon' = stop_soon
        /\ StatusMsg' = StatusMsg
    BY <1>pipe
  <2>2. /\ spc = "loop" => ctl = <<>> /\ st = <<PidMsg, StatusMsg>>
        /\ spc \in {"wait", "stat"} => ctl = <<>> /\ st = <<PidMsg>>
        /\ spc \notin {"reap", "fork", "cont", "pid"}
        /\ spc = "dead" => stop_soon
    BY DEF WireLoop
  <2>3. <<PidMsg>> # <<PidMsg, StatusMsg>>
    <3> HIDE DEF PidMsg, StatusMsg
    <3> QED BY SMT
  <2> HIDE DEF PidMsg, StatusMsg, IInv, RunReadPid
  <2>4. /\ spc = "loop" => st' = <<StatusMsg>>
        /\ spc \in {"wait", "stat"} => st' = <<>>
    BY <1>pipe, <2>2, <2>3, ZenonT(60)
  <2>5. st' = <<>> \/ st' = <<StatusMsg>>
    BY <1>pipe, ZenonT(30)
  <2> QED
    BY <2>1, <2>2, <2>4, <2>5 DEF WireLoop
<1>7. Control'
  BY <1>pipe DEF WireStart, Control, Busy
<1>8. TargetDelivered'
  BY <1>pipe
     DEF TargetDelivered, WireStart, WireLoop, Control, Busy
<1>9. ChildTable'
  BY ZenonT(30) DEF ChildTable, AllFree, OthersFree, ChildSt
<1>10. ChildKnown'
  BY ZenonT(30), <1>pipe DEF ChildTable, ChildKnown, Reporting, AllFree, OthersFree, ChildSt
<1>11. OneRunning'
  BY ZenonT(30) DEF OneRunning, AllFree, OthersFree, WireStart, WireLoop, Control, Busy
<1>12. InputStable'
  BY ZenonT(30), <1>pipe DEF InputStable, Busy
<1>13. Outcome'
  BY ZenonT(30) DEF Outcome, Reporting, OthersFree, ChildSt
<1> QED BY <1>1, <1>2, <1>3, <1>4, <1>5, <1>6, <1>7, <1>8, <1>9, <1>10, <1>11,
        <1>12, <1>13 DEF TypeOK

(* RunServerGone preserves the invariant. *)
LEMMA RunServerGonePreserves ==
  ASSUME IInv, RunServerGone
  PROVE  IInv'
<1> USE DEF IInv, RunServerGone
<1>1. ParentType'
  BY DEF TypeOK, ParentType
<1>2. PipeType'
  BY DEF TypeOK, PipeType, CtlMsg, StMsg
<1>3. ServerType'
  BY DEF TypeOK, ServerType
<1>4. ChildType'
  BY DEF TypeOK, ChildType
<1>5. WireStart'
  BY DEF WireStart, WireLoop, Control, Busy
<1>6. WireLoop'
  BY ZenonT(30) DEF WireLoop
<1>7. Control'
  BY DEF WireStart, WireLoop, Control, Busy
<1>8. TargetDelivered'
  BY DEF TargetDelivered
<1>9. ChildTable'
  BY ZenonT(30) DEF ChildTable, AllFree
<1>10. ChildKnown'
  BY ZenonT(30) DEF ChildTable, ChildKnown, Reporting, AllFree, ChildSt
<1>11. OneRunning'
  BY ZenonT(30) DEF OneRunning, AllFree, OthersFree
<1>12. InputStable'
  BY ZenonT(30) DEF InputStable, ChildTable, AllFree
<1>13. Outcome'
  BY ZenonT(30) DEF Outcome, ChildTable, Reporting, ChildSt
<1> QED BY <1>1, <1>2, <1>3, <1>4, <1>5, <1>6, <1>7, <1>8, <1>9, <1>10, <1>11,
        <1>12, <1>13 DEF TypeOK

(* RunReadStatus preserves the invariant. *)
LEMMA RunReadStatusPreserves ==
  ASSUME IInv, RunReadStatus
  PROVE  IInv'
<1> USE DEF IInv, RunReadStatus
<1>pipe. /\ st = <<StatusMsg>> /\ st' = <<>> /\ Head(st).val = status
         /\ spc \in {"loop", "dead"}
  <2>1. st = <<StatusMsg>> /\ spc \in {"loop", "dead"}
    BY DEF WireStart, WireLoop, TypeOK, ServerType
  <2>2. Head(st).val = status
    BY <2>1, ShortSequences DEF Msg
  <2> QED BY ZenonT(30), <2>1, <2>2, ShortSequences
<1>1. ParentType'
  BY <1>pipe
     DEF TypeOK, ParentType
<1>2. PipeType'
  BY DEF TypeOK, PipeType
<1>3. ServerType'
  BY <1>pipe
     DEF TypeOK, ServerType
<1>4. ChildType'
  BY <1>pipe
     DEF TypeOK, ChildType
<1>5. WireStart'
  BY ZenonT(30) DEF WireStart
<1>6. WireLoop'
  BY ZenonT(30), <1>pipe DEF WireLoop
<1>7. Control'
  BY ZenonT(30) DEF Control, Busy
<1>8. TargetDelivered'
  BY ZenonT(30) DEF TargetDelivered, WireStart
<1>9. ChildTable'
  BY ZenonT(30) DEF ChildTable, AllFree, OthersFree, ChildSt
<1>10. ChildKnown'
  BY ZenonT(30), <1>pipe DEF ChildKnown, Reporting, ChildSt
<1>11. OneRunning'
  BY ZenonT(30) DEF OneRunning, ChildSt
<1>12. InputStable'
  BY ZenonT(30), <1>pipe
     DEF InputStable, ChildTable, AllFree, OthersFree, ChildSt, Control, Busy
<1>13. Outcome'
  BY ZenonT(30)
     DEF Outcome, ChildTable, Reporting, AllFree, OthersFree, ChildSt, WireStart,
         WireLoop, Control, Busy
<1> QED BY <1>1, <1>2, <1>3, <1>4, <1>5, <1>6, <1>7, <1>8, <1>9, <1>10, <1>11,
        <1>12, <1>13 DEF TypeOK

(* RunInterrupted preserves the invariant. *)
LEMMA RunInterruptedPreserves ==
  ASSUME IInv, RunInterrupted
  PROVE  IInv'
<1> USE DEF IInv, RunInterrupted
<1>1. ParentType'
  BY DEF TypeOK, ParentType
<1>2. PipeType'
  BY DEF TypeOK, PipeType, CtlMsg, StMsg
<1>3. ServerType'
  BY DEF TypeOK, ServerType
<1>4. ChildType'
  BY DEF TypeOK, ChildType
<1>5. WireStart'
  BY ZenonT(30) DEF WireStart
<1>6. WireLoop'
  BY ZenonT(30) DEF WireLoop, Control, Busy
<1>7. Control'
  BY ZenonT(30) DEF Control, Busy
<1>8. TargetDelivered'
  BY DEF TargetDelivered, WireStart, WireLoop, Control, Busy
<1>9. ChildTable'
  BY ZenonT(30) DEF ChildTable, ChildSt, WireStart, WireLoop, Control, Busy
<1>10. ChildKnown'
  BY ZenonT(30) DEF ChildTable, ChildKnown, Busy
<1>11. OneRunning'
  BY ZenonT(30) DEF OneRunning
<1>12. InputStable'
  BY ZenonT(30) DEF InputStable, OthersFree
<1>13. Outcome'
  BY ZenonT(30)
     DEF Outcome, ChildTable, Reporting, AllFree, OthersFree, ChildSt, Control, Busy
<1> QED BY <1>1, <1>2, <1>3, <1>4, <1>5, <1>6, <1>7, <1>8, <1>9, <1>10, <1>11,
        <1>12, <1>13 DEF TypeOK

(* RunTimeout preserves the invariant. *)
LEMMA RunTimeoutPreserves ==
  ASSUME IInv, RunTimeout
  PROVE  IInv'
<1> USE DEF IInv, RunTimeout
<1>proc. \A p \in Pid :
           IF p = child_pid /\ Alive(p)
             THEN proc'[p].st = "zombie" /\ proc'[p].ws = "killed"
             ELSE proc'[p] = proc[p]
  BY KilledFacts DEF TypeOK, ParentType, ChildType, Alive
<1>1. ParentType'
  BY <1>proc
     DEF TypeOK, ParentType
<1>2. PipeType'
  BY <1>proc
     DEF TypeOK, PipeType, CtlMsg, StMsg
<1>3. ServerType'
  BY <1>proc
     DEF TypeOK, ServerType
<1>4. ChildType'
  BY KilledFacts
     DEF TypeOK, ParentType, ChildType
<1>5. WireStart'
  BY ZenonT(30) DEF WireStart
<1>6. WireLoop'
  BY ZenonT(30) DEF WireLoop
<1>7. Control'
  BY ZenonT(30) DEF Control, Busy
<1>8. TargetDelivered'
  BY ZenonT(30) DEF TargetDelivered, Busy
<1>9. ChildTable'
  BY ZenonT(30), <1>proc
     DEF ChildTable, AllFree, OthersFree, ChildSt, WireLoop, Control, Alive
<1>10. ChildKnown'
  BY ZenonT(30), <1>proc
     DEF ChildTable, ChildKnown, Reporting, AllFree, ChildSt, WireStart, Control,
         Busy, Alive
<1>11. OneRunning'
  BY ZenonT(30), <1>proc DEF OneRunning, AllFree, OthersFree, ChildSt, Control, Busy, Alive
<1>12. InputStable'
  BY ZenonT(30), <1>proc DEF InputStable, AllFree, OthersFree, Busy
<1>13. Outcome'
  BY ZenonT(30), <1>proc DEF Outcome, Reporting, ChildSt, Control
<1> QED BY <1>1, <1>2, <1>3, <1>4, <1>5, <1>6, <1>7, <1>8, <1>9, <1>10, <1>11,
        <1>12, <1>13 DEF TypeOK

(* RunReadLate preserves the invariant. *)
LEMMA RunReadLatePreserves ==
  ASSUME IInv, RunReadLate
  PROVE  IInv'
<1> USE DEF IInv, RunReadLate
<1>pipe. /\ st = <<StatusMsg>> /\ st' = <<>> /\ Head(st).val = status
         /\ spc \in {"loop", "dead"}
  <2>1. st = <<StatusMsg>> /\ spc \in {"loop", "dead"}
    BY ZenonT(30) DEF WireStart, WireLoop, TypeOK, ServerType
  <2>2. Head(st).val = status
    BY <2>1, ShortSequences DEF Msg
  <2> QED BY ZenonT(30), <2>1, <2>2, ShortSequences
<1>1. ParentType'
  BY <1>pipe
     DEF TypeOK, ParentType
<1>2. PipeType'
  BY DEF TypeOK, PipeType
<1>3. ServerType'
  BY <1>pipe
     DEF TypeOK, ServerType
<1>4. ChildType'
  BY <1>pipe
     DEF TypeOK, ChildType
<1>5. WireStart'
  BY <1>pipe
     DEF WireStart, WireLoop, Control, Busy
<1>6. WireLoop'
  BY ZenonT(30), <1>pipe DEF WireLoop, Busy
<1>7. Control'
  BY ZenonT(30) DEF Control, Busy
<1>8. TargetDelivered'
  BY <1>pipe
     DEF TargetDelivered, WireStart, WireLoop, Control, Busy
<1>9. ChildTable'
  BY ZenonT(30) DEF ChildTable, AllFree, OthersFree, ChildSt
<1>10. ChildKnown'
  BY ZenonT(30) DEF ChildKnown, Reporting, ChildSt, Control, Busy
<1>11. OneRunning'
  BY ZenonT(30) DEF OneRunning, AllFree
<1>12. InputStable'
  BY ZenonT(30), <1>pipe
     DEF InputStable, ChildTable, AllFree, OthersFree, ChildSt, Control, Busy
<1>13. Outcome'
  BY ZenonT(30), <1>pipe DEF Outcome, Reporting, AllFree, OthersFree
<1> QED BY <1>1, <1>2, <1>3, <1>4, <1>5, <1>6, <1>7, <1>8, <1>9, <1>10, <1>11,
        <1>12, <1>13 DEF TypeOK

-----------------------------------------------------------------------------
(* SrvHello preserves the invariant. *)
LEMMA SrvHelloPreserves ==
  ASSUME IInv, SrvHello
  PROVE  IInv'
<1> USE DEF IInv, SrvHello
<1>1. ParentType'
  BY DEF TypeOK, ParentType
<1>2. PipeType'
  <2>1. Hello \in StMsg
    BY DEF Msg, StMsg
  <2> QED BY <2>1 DEF TypeOK, PipeType
<1>3. ServerType'
  BY DEF TypeOK, ServerType
<1>4. ChildType'
  BY DEF TypeOK, ChildType
<1>5. WireStart'
  BY DEF WireStart, WireLoop, Control, Busy
<1>6. WireLoop'
  BY DEF WireStart, WireLoop, Control, Busy
<1>7. Control'
  BY DEF WireStart, WireLoop, Control, Busy
<1>8. TargetDelivered'
  BY DEF TargetDelivered, WireStart, WireLoop, Control, Busy
<1>9. ChildTable'
  BY DEF ChildTable, AllFree, OthersFree, ChildSt, WireStart, WireLoop, Control,
         Busy
<1>10. ChildKnown'
  BY DEF ChildTable, ChildKnown, Reporting, AllFree, OthersFree, ChildSt,
         WireStart, WireLoop, Control, Busy
<1>11. OneRunning'
  BY DEF OneRunning, ChildTable, AllFree, OthersFree, ChildSt, WireStart, WireLoop,
         Control, Busy
<1>12. InputStable'
  BY DEF InputStable, ChildTable, AllFree, OthersFree, ChildSt, WireStart,
         WireLoop, Control, Busy
<1>13. Outcome'
  BY DEF Outcome, ChildTable, ChildKnown, Reporting, AllFree, OthersFree, ChildSt,
         WireStart, WireLoop, Control, Busy
<1> QED BY <1>1, <1>2, <1>3, <1>4, <1>5, <1>6, <1>7, <1>8, <1>9, <1>10, <1>11,
        <1>12, <1>13 DEF TypeOK

(* SrvProgramEnds preserves the invariant. *)
LEMMA SrvProgramEndsPreserves ==
  ASSUME IInv, SrvProgramEnds
  PROVE  IInv'
<1> USE DEF IInv, SrvProgramEnds
<1>1. ParentType'
  BY DEF TypeOK, ParentType
<1>2. PipeType'
  BY DEF TypeOK, PipeType, CtlMsg, StMsg
<1>3. ServerType'
  BY DEF TypeOK, ServerType
<1>4. ChildType'
  BY DEF TypeOK, ChildType
<1>5. WireStart'
  BY DEF WireStart, WireLoop, Control, Busy
<1>6. WireLoop'
  BY DEF WireStart, WireLoop, Control, Busy
<1>7. Control'
  BY DEF WireStart, WireLoop, Control, Busy
<1>8. TargetDelivered'
  BY DEF TargetDelivered, WireStart, WireLoop, Busy
<1>9. ChildTable'
  BY DEF ChildTable, AllFree, OthersFree, ChildSt, WireStart, WireLoop, Control,
         Busy
<1>10. ChildKnown'
  BY DEF ChildTable, ChildKnown, Reporting, AllFree, OthersFree, ChildSt,
         WireStart, WireLoop, Control, Busy
<1>11. OneRunning'
  BY DEF OneRunning, ChildTable, AllFree, OthersFree, ChildSt, WireStart, WireLoop,
         Control, Busy
<1>12. InputStable'
  BY DEF InputStable, ChildTable, AllFree, OthersFree, ChildSt, WireStart,
         WireLoop, Control, Busy
<1>13. Outcome'
  BY DEF Outcome, ChildTable, ChildKnown, Reporting, AllFree, OthersFree, ChildSt,
         WireStart, WireLoop, Control, Busy
<1> QED BY <1>1, <1>2, <1>3, <1>4, <1>5, <1>6, <1>7, <1>8, <1>9, <1>10, <1>11,
        <1>12, <1>13 DEF TypeOK

(* SrvReadRecording preserves the invariant. *)
LEMMA SrvReadRecordingPreserves ==
  ASSUME IInv, SrvReadRecording
  PROVE  IInv'
<1> USE DEF IInv, SrvReadRecording
<1>pipe. /\ Head(ctl) = Rec /\ st = <<>>
         /\ \/ ppc = "name" /\ ctl' = <<>>
            \/ ppc = "hello" /\ ctl' = <<Name>>
  <2>1. spc = "rec" /\ WireStart /\ ctl' = Tail(ctl)
    OBVIOUS
  <2>2. CASE ppc = "name" /\ ctl = <<Rec>> /\ st = <<>>
    BY <2>1, <2>2, ShortSequences
  <2>3. CASE ppc = "hello" /\ ctl = <<Rec, Name>> /\ st = <<>>
    BY <2>1, <2>3, ShortSequences
  <2> QED BY <2>1, <2>2, <2>3, ZenonT(30) DEF WireStart
<1>flag. recording' = recordArgs
  <2>1. recordArgs \in BOOLEAN /\ recording' = (Rec.val # 0)
    BY <1>pipe DEF TypeOK, ParentType
  <2> QED BY <2>1, RequestFlag DEF Flag
<1>1. ParentType'
  BY DEF TypeOK, ParentType
<1>2. PipeType'
  BY DEF TypeOK, PipeType
<1>3. ServerType'
  BY <1>pipe, <1>flag
     DEF TypeOK, ServerType
<1>4. ChildType'
  BY <1>pipe, <1>flag
     DEF TypeOK, ChildType
<1>5. WireStart'
  BY <1>pipe DEF WireStart
<1>6. WireLoop'
  BY DEF WireLoop
<1>7. Control'
  BY <1>flag DEF Control, Busy
<1>8. TargetDelivered'
  BY DEF TargetDelivered, Busy
<1>9. ChildTable'
  BY DEF ChildTable, AllFree, OthersFree
<1>10. ChildKnown'
  BY DEF ChildKnown, Reporting, OthersFree
<1>11. OneRunning'
  BY DEF OneRunning, AllFree
<1>12. InputStable'
  BY <1>pipe DEF InputStable, ChildTable, AllFree, OthersFree, ChildSt, Busy
<1>13. Outcome'
  BY DEF Outcome, ChildTable, Reporting, WireStart
<1> QED BY <1>1, <1>2, <1>3, <1>4, <1>5, <1>6, <1>7, <1>8, <1>9, <1>10, <1>11,
        <1>12, <1>13 DEF TypeOK

(* SrvReadName preserves the invariant. *)
LEMMA SrvReadNamePreserves ==
  ASSUME IInv, SrvReadName
  PROVE  IInv'
<1> USE DEF IInv, SrvReadName
<1>pipe. ppc = "hello" /\ ctl = <<Name>> /\ st = <<>>
  BY ShortSequences DEF WireStart
<1>1. ParentType'
  BY <1>pipe
     DEF TypeOK, ParentType
<1>2. PipeType'
  BY DEF TypeOK, PipeType
<1>3. ServerType'
  BY <1>pipe
     DEF TypeOK, ServerType
<1>4. ChildType'
  BY <1>pipe
     DEF TypeOK, ChildType
<1>5. WireStart'
  BY DEF WireStart, Busy
<1>6. WireLoop'
  BY DEF WireLoop, Busy
<1>7. Control'
  BY DEF WireStart, Control, Busy
<1>8. TargetDelivered'
  BY DEF TargetDelivered, WireStart, WireLoop, Control, Busy
<1>9. ChildTable'
  BY DEF ChildTable, AllFree, OthersFree, Control, Busy
<1>10. ChildKnown'
  BY <1>pipe
     DEF ChildTable, ChildKnown, Reporting, AllFree, OthersFree, ChildSt,
         WireStart, WireLoop, Control, Busy
<1>11. OneRunning'
  BY <1>pipe
     DEF OneRunning, ChildTable, AllFree, OthersFree, ChildSt, WireStart,
         WireLoop, Control, Busy
<1>12. InputStable'
  BY <1>pipe
     DEF InputStable, ChildTable, AllFree, OthersFree, ChildSt, WireStart,
         WireLoop, Control, Busy
<1>13. Outcome'
  BY <1>pipe
     DEF Outcome, ChildTable, ChildKnown, Reporting, AllFree, OthersFree,
         ChildSt, WireStart, WireLoop, Control, Busy
<1> QED BY <1>1, <1>2, <1>3, <1>4, <1>5, <1>6, <1>7, <1>8, <1>9, <1>10, <1>11,
        <1>12, <1>13 DEF TypeOK

(* SrvReadOption preserves the invariant. *)
LEMMA SrvReadOptionPreserves ==
  ASSUME IInv, SrvReadOption
  PROVE  IInv'
<1> USE DEF IInv, SrvReadOption
<1>pipe. /\ st = <<>>
         /\ \/ ppc = "idle" /\ ctl' = <<>>
            \/ ppc = "pid" /\ ctl' = <<Msg("run", 0)>> /\ ctl # <<>>
  <2>1. spc = "opt" /\ WireStart /\ ctl' = Tail(ctl) /\ ctl # <<>>
    OBVIOUS
  <2>2. CASE ppc = "idle" /\ ctl = <<Option>> /\ st = <<>>
    BY <2>1, <2>2, ShortSequences
  <2>3. CASE ppc = "pid" /\ ctl = <<Option, Msg("run", 0)>> /\ st = <<>>
    BY <2>1, <2>3, ShortSequences
  <2> QED BY <2>1, <2>2, <2>3, ZenonT(30) DEF WireStart
<1>1. ParentType'
  BY <1>pipe
     DEF TypeOK, ParentType
<1>2. PipeType'
  BY DEF TypeOK, PipeType
<1>3. ServerType'
  BY <1>pipe
     DEF TypeOK, ServerType
<1>4. ChildType'
  BY <1>pipe
     DEF TypeOK, ChildType
<1>5. WireStart'
  BY <1>pipe
     DEF WireStart, WireLoop, Control, Busy
<1>6. WireLoop'
  BY <1>pipe
     DEF WireStart, WireLoop, Control, Busy
<1>7. Control'
  BY <1>pipe
     DEF WireStart, WireLoop, Control, Busy
<1>8. TargetDelivered'
  BY DEF TargetDelivered, WireStart, WireLoop, Control, Busy
<1>9. ChildTable'
  BY <1>pipe
     DEF ChildTable, AllFree, OthersFree, ChildSt, WireStart, WireLoop,
         Control, Busy
<1>10. ChildKnown'
  BY <1>pipe DEF ChildTable, ChildKnown, Reporting, AllFree, OthersFree, ChildSt
<1>11. OneRunning'
  BY DEF OneRunning, ChildTable, AllFree, OthersFree, ChildSt, WireStart, WireLoop,
         Control, Busy
<1>12. InputStable'
  BY DEF InputStable, ChildTable, AllFree, OthersFree, ChildSt, WireLoop, Control, Busy
<1>13. Outcome'
  BY <1>pipe
     DEF Outcome, ChildTable, ChildKnown, Reporting, AllFree, OthersFree,
         ChildSt, WireStart, WireLoop, Control, Busy
<1> QED BY <1>1, <1>2, <1>3, <1>4, <1>5, <1>6, <1>7, <1>8, <1>9, <1>10, <1>11,
        <1>12, <1>13 DEF TypeOK

(* SrvReadRequest preserves the invariant. *)
LEMMA SrvReadRequestPreserves ==
  ASSUME IInv, SrvReadRequest
  PROVE  IInv'
<1> USE DEF IInv, SrvReadRequest
<1>pipe. /\ ppc = "pid" /\ st = <<>> /\ ctl' = <<>> /\ ~stop_soon
         /\ ctl = IF was_killed' THEN <<Msg("run", 1)>> ELSE <<Msg("run", 0)>>
  <2>1. /\ ppc = "pid" /\ st = <<>> /\ ~stop_soon
        /\ ctl = <<Msg("run", 0)>> \/ ctl = <<Msg("run", 1)>>
    BY DEF WireLoop, Control
  <2>2. CASE ctl = <<Msg("run", 0)>>
    <3>1. Head(ctl) = Msg("run", 0) /\ Tail(ctl) = <<>>
      BY <2>2, ShortSequences
    <3>2. ctl' = <<>> /\ ~was_killed'
      BY ZenonT(30), <3>1, RequestFlag
    <3> QED BY <2>1, <2>2, <3>2
  <2>3. CASE ctl = <<Msg("run", 1)>>
    <3>1. Head(ctl) = Msg("run", 1) /\ Tail(ctl) = <<>>
      BY <2>3, ShortSequences
    <3>2. ctl' = <<>> /\ was_killed'
      BY ZenonT(30), <3>1, RequestFlag
    <3> QED BY <2>1, <2>3, <3>2
  <2> QED BY <2>1, <2>2, <2>3
<1>1. ParentType'
  BY <1>pipe
     DEF TypeOK, ParentType
<1>2. PipeType'
  BY DEF TypeOK, PipeType
<1>3. ServerType'
  BY <1>pipe
     DEF TypeOK, ServerType
<1>4. ChildType'
  BY <1>pipe
     DEF TypeOK, ChildType
<1>5. WireStart'
  BY DEF WireStart, WireLoop, Control, Busy
<1>6. WireLoop'
  BY <1>pipe
     DEF WireStart, WireLoop, Control, Busy
<1>7. Control'
  BY ZenonT(30) DEF Control, Busy
<1>8. TargetDelivered'
  BY DEF TargetDelivered, WireStart, WireLoop, Control, Busy
<1>9. ChildTable'
  BY ZenonT(30), <1>pipe DEF ChildTable, AllFree, OthersFree, ChildSt, ChildKnown
<1>10. ChildKnown'
  BY DEF ChildTable, ChildKnown, Reporting, AllFree, OthersFree, ChildSt, WireStart,
         WireLoop, Control, Busy
<1>11. OneRunning'
  BY DEF OneRunning, ChildTable, AllFree, OthersFree, ChildSt, WireStart, WireLoop,
         Control, Busy
<1>12. InputStable'
  BY ZenonT(30) DEF InputStable, OthersFree, Busy
<1>13. Outcome'
  BY ZenonT(30) DEF Outcome, Reporting, Control, Busy
<1> QED BY <1>1, <1>2, <1>3, <1>4, <1>5, <1>6, <1>7, <1>8, <1>9, <1>10, <1>11,
        <1>12, <1>13 DEF TypeOK

(* SrvReapKilled preserves the invariant. *)
LEMMA SrvReapKilledPreserves ==
  ASSUME IInv, SrvReapKilled
  PROVE  IInv'
<1> USE DEF IInv, SrvReapKilled
<1>proc. /\ srv_child \in Pid /\ proc'[srv_child].st = "free"
         /\ \A p \in Pid \ {srv_child} : proc'[p] = proc[p]
  BY FreeProcess DEF Control, TypeOK, ChildType
<1>1. ParentType'
  BY <1>proc
     DEF TypeOK, ParentType
<1>2. PipeType'
  BY <1>proc
     DEF TypeOK, PipeType, CtlMsg, StMsg
<1>3. ServerType'
  BY <1>proc
     DEF TypeOK, ServerType
<1>4. ChildType'
  BY ZenonT(30), FreeProcess
     DEF TypeOK, ChildType
<1>5. WireStart'
  BY DEF WireStart
<1>6. WireLoop'
  BY DEF WireStart, WireLoop, Control, Busy
<1>7. Control'
  BY DEF Control, Busy
<1>8. TargetDelivered'
  BY DEF TargetDelivered, WireStart, Busy
<1>9. ChildTable'
  <2>1. /\ spc = "reap" /\ spc' = "fork" /\ stop_soon' = stop_soon
        /\ child_stopped' = child_stopped
    OBVIOUS
  <2>2. ~stop_soon => OthersFree /\ ~child_stopped
    BY <2>1 DEF ChildTable
  <2> HIDE DEF IInv, SrvReapKilled
  <2>3. OthersFree => AllFree'
    BY <1>proc DEF AllFree, OthersFree
  <2> QED
    BY <2>1, <2>2, <2>3 DEF ChildTable
<1>10. ChildKnown'
  BY ZenonT(30), <1>proc DEF ChildKnown, Reporting, OthersFree, ChildSt, Busy
<1>11. OneRunning'
  BY <1>proc
     DEF OneRunning, ChildTable, AllFree, OthersFree, ChildSt, WireStart,
         WireLoop, Control, Busy
<1>12. InputStable'
  BY <1>proc DEF InputStable, ChildSt, Busy
<1>13. Outcome'
  BY ZenonT(30) DEF Outcome, Reporting, OthersFree
<1> QED BY <1>1, <1>2, <1>3, <1>4, <1>5, <1>6, <1>7, <1>8, <1>9, <1>10, <1>11,
        <1>12, <1>13 DEF TypeOK

(* SrvFork preserves the invariant. *)
LEMMA SrvForkPreserves ==
  ASSUME NEW p \in Pid, IInv, SrvFork(p)
  PROVE  IInv'
<1> USE DEF IInv, SrvFork
<1>proc. /\ proc'[p].st = "run" /\ proc'[p].input = runs
         /\ \A q \in Pid \ {p} : proc'[q] = proc[q]
  BY DEF TypeOK, ChildType
<1>1. ParentType'
  BY <1>proc
     DEF TypeOK, ParentType
<1>2. PipeType'
  BY <1>proc
     DEF TypeOK, PipeType, CtlMsg, StMsg
<1>3. ServerType'
  BY <1>proc
     DEF TypeOK, ServerType
<1>4. ChildType'
  <2>1. [st |-> "run", ws |-> "exit", input |-> runs, cycle_cnt |-> MaxCnt]
          \in Process
    BY BoundsAssumption DEF Process, TypeOK, ParentType
  <2> QED BY <2>1 DEF TypeOK, ChildType
<1>5. WireStart'
  BY ZenonT(30) DEF WireStart, Busy
<1>6. WireLoop'
  BY DEF WireStart, WireLoop, Control, Busy
<1>7. Control'
  BY DEF Control, Busy
<1>8. TargetDelivered'
  BY DEF TargetDelivered, WireStart
<1>9. ChildTable'
  BY ZenonT(30), <1>proc DEF ChildTable, AllFree, OthersFree, ChildSt
<1>10. ChildKnown'
  BY ZenonT(30) DEF ChildKnown, Reporting, WireLoop
<1>11. OneRunning'
  <2>1. did' = "none"
    BY DEF OneRunning
  <2>2. ~stop_soon
    BY DEF Control
  <2>3. AllFree
    BY <2>2 DEF ChildTable
  <2> HIDE DEF IInv, SrvFork
  <2>4. \A q \in Pid : proc'[q].st = "run" => q = p
    BY <1>proc, <2>3 DEF AllFree
  <2> QED
    BY <2>1, <2>4 DEF OneRunning
<1>12. InputStable'
  BY ZenonT(30), <1>proc DEF InputStable, WireLoop, Busy
<1>13. Outcome'
  BY ZenonT(30), <1>proc DEF Outcome, Reporting, AllFree, ChildSt
<1> QED BY <1>1, <1>2, <1>3, <1>4, <1>5, <1>6, <1>7, <1>8, <1>9, <1>10, <1>11,
        <1>12, <1>13 DEF TypeOK

(* SrvForkFails preserves the invariant. *)
LEMMA SrvForkFailsPreserves ==
  ASSUME IInv, SrvForkFails
  PROVE  IInv'
<1> USE DEF IInv, SrvForkFails
<1>1. ParentType'
  BY DEF TypeOK, ParentType
<1>2. PipeType'
  BY DEF TypeOK, PipeType, CtlMsg, StMsg
<1>3. ServerType'
  BY DEF TypeOK, ServerType
<1>4. ChildType'
  BY DEF TypeOK, ChildType
<1>5. WireStart'
  BY DEF WireStart, WireLoop, Control, Busy
<1>6. WireLoop'
  BY DEF WireStart, WireLoop, Control, Busy
<1>7. Control'
  BY DEF WireStart, WireLoop, Control, Busy
<1>8. TargetDelivered'
  BY DEF TargetDelivered, WireStart
<1>9. ChildTable'
  BY ZenonT(30) DEF ChildTable, AllFree, OthersFree
<1>10. ChildKnown'
  BY ZenonT(30) DEF ChildKnown, Reporting, AllFree, ChildSt
<1>11. OneRunning'
  BY ZenonT(30) DEF OneRunning
<1>12. InputStable'
  BY ZenonT(30) DEF InputStable, OthersFree, Busy
<1>13. Outcome'
  BY ZenonT(30) DEF Outcome, ChildTable, ChildKnown, Reporting, Busy
<1> QED BY <1>1, <1>2, <1>3, <1>4, <1>5, <1>6, <1>7, <1>8, <1>9, <1>10, <1>11,
        <1>12, <1>13 DEF TypeOK

(* SrvContinue preserves the invariant. *)
LEMMA SrvContinuePreserves ==
  ASSUME IInv, SrvContinue
  PROVE  IInv'
<1> USE DEF IInv, SrvContinue
<1>proc. /\ srv_child \in Pid
         /\ proc[srv_child].st = "stop" =>
              proc'[srv_child].st = "run" /\ proc'[srv_child].input = runs
         /\ proc[srv_child].st # "stop" => proc' = proc
         /\ \A q \in Pid \ {srv_child} : proc'[q] = proc[q]
  <2>1. srv_child \in Pid /\ proc[srv_child] \in Process
    BY DEF Control, TypeOK, ChildType
  <2> QED BY <2>1 DEF TypeOK, ChildType, Process
<1>1. ParentType'
  BY <1>proc
     DEF TypeOK, ParentType
<1>2. PipeType'
  BY <1>proc
     DEF TypeOK, PipeType, CtlMsg, StMsg
<1>3. ServerType'
  BY ZenonT(30), <1>proc
     DEF TypeOK, ServerType
<1>4. ChildType'
  <2>1. srv_child \in Pid
    BY DEF Control
  <2>2. [proc[srv_child] EXCEPT !.st = "run", !.input = runs] \in Process
    BY ZenonT(30), <2>1 DEF Process, TypeOK, ParentType, ChildType
  <2> QED BY <2>1, <2>2 DEF TypeOK, ChildType
<1>5. WireStart'
  BY DEF WireStart, WireLoop, Control, Busy
<1>6. WireLoop'
  BY <1>proc
     DEF WireStart, WireLoop, Control, Busy
<1>7. Control'
  BY DEF Control, Busy
<1>8. TargetDelivered'
  BY DEF TargetDelivered
<1>9. ChildTable'
  BY ZenonT(30), <1>proc DEF ChildTable, OthersFree, ChildSt
<1>10. ChildKnown'
  BY <1>proc
     DEF ChildTable, ChildKnown, Reporting, AllFree, OthersFree, ChildSt,
         WireStart, WireLoop, Control, Busy
<1>11. OneRunning'
  BY ZenonT(30), <1>proc DEF OneRunning, ChildTable, OthersFree, Control, Busy
<1>12. InputStable'
  BY ZenonT(30), <1>proc
     DEF InputStable, ChildTable, AllFree, OthersFree, WireStart, WireLoop, Control,
         Busy
<1>13. Outcome'
  BY <1>proc DEF Outcome, ChildTable, Reporting, OthersFree, ChildSt
<1> QED BY <1>1, <1>2, <1>3, <1>4, <1>5, <1>6, <1>7, <1>8, <1>9, <1>10, <1>11,
        <1>12, <1>13 DEF TypeOK

(* SrvWritePid preserves the invariant. *)
LEMMA SrvWritePidPreserves ==
  ASSUME IInv, SrvWritePid
  PROVE  IInv'
<1> USE DEF IInv, SrvWritePid
<1>pipe. ppc = "pid" /\ ctl = <<>> /\ st' = <<PidMsg>>
  BY ShortSequences DEF WireLoop
<1>1. ParentType'
  BY <1>pipe
     DEF TypeOK, ParentType
<1>2. PipeType'
  <2>1. PidMsg \in StMsg
    BY DEF Msg, StMsg, Control
  <2> QED BY <2>1 DEF TypeOK, PipeType
<1>3. ServerType'
  BY <1>pipe
     DEF TypeOK, ServerType
<1>4. ChildType'
  BY <1>pipe
     DEF TypeOK, ChildType
<1>5. WireStart'
  BY DEF WireStart, WireLoop, Control, Busy
<1>6. WireLoop'
  <2>1. spc' = "wait" /\ ppc' = "pid" /\ ctl' = <<>> /\ st' = <<PidMsg>>'
    BY ZenonT(30), <1>pipe
  <2> QED
    BY <2>1 DEF WireLoop
<1>7. Control'
  BY <1>pipe
     DEF WireStart, WireLoop, Control, Busy
<1>8. TargetDelivered'
  BY <1>pipe
     DEF TargetDelivered, WireStart, WireLoop, Control, Busy
<1>9. ChildTable'
  BY ZenonT(30) DEF ChildTable, AllFree, OthersFree, ChildSt
<1>10. ChildKnown'
  BY ZenonT(30), <1>pipe DEF ChildKnown, Reporting, WireStart
<1>11. OneRunning'
  BY ZenonT(30) DEF OneRunning, WireStart
<1>12. InputStable'
  BY ZenonT(30) DEF InputStable, Busy
<1>13. Outcome'
  BY ZenonT(30) DEF Outcome, ChildTable, Reporting, ChildSt, Busy
<1> QED BY <1>1, <1>2, <1>3, <1>4, <1>5, <1>6, <1>7, <1>8, <1>9, <1>10, <1>11,
        <1>12, <1>13 DEF TypeOK

(* SrvWait preserves the invariant. *)
LEMMA SrvWaitPreserves ==
  ASSUME IInv, SrvWait
  PROVE  IInv'
<1> USE DEF IInv, SrvWait
<1>proc. /\ srv_child \in Pid /\ proc[srv_child].ws \in {"exit", "crash", "killed"}
         /\ \/ /\ proc[srv_child].st = "zombie" /\ proc'[srv_child].st = "free"
               /\ status' = proc[srv_child].ws /\ child_stopped' = child_stopped
            \/ /\ proc[srv_child].st = "stop" /\ proc'[srv_child].st = "stop"
               /\ status' = "stop" /\ child_stopped' = TRUE
         /\ \A q \in Pid \ {srv_child} : proc'[q] = proc[q]
  <2>1. srv_child \in Pid /\ proc[srv_child] \in Process
    BY DEF Control, TypeOK, ChildType
  <2>2. proc[srv_child].ws \in {"exit", "crash", "killed"}
    BY <2>1 DEF Process
  <2> QED BY <2>1, <2>2, FreeProcess DEF TypeOK, ChildType
<1>1. ParentType'
  BY <1>proc
     DEF TypeOK, ParentType
<1>2. PipeType'
  BY <1>proc
     DEF TypeOK, PipeType, CtlMsg, StMsg
<1>3. ServerType'
  <2>1. srv_child \in Pid /\ proc[srv_child] \in Process
    BY DEF Control, TypeOK, ChildType
  <2>2. status' \in WaitStatus
    BY <2>1 DEF Process, WaitStatus
  <2> QED BY ZenonT(30), <2>2 DEF TypeOK, ServerType
<1>4. ChildType'
  BY FreeProcess
     DEF TypeOK, ChildType
<1>5. WireStart'
  BY ZenonT(30) DEF WireStart
<1>6. WireLoop'
  BY ZenonT(30) DEF WireLoop
<1>7. Control'
  BY ZenonT(30) DEF Control, Busy
<1>8. TargetDelivered'
  BY ZenonT(30) DEF TargetDelivered
<1>9. ChildTable'
  <2>1. CASE stop_soon
    BY <2>1 DEF ChildTable
  <2>2. CASE ~stop_soon
    <3>1. ~child_stopped /\ OthersFree
      BY <2>2 DEF ChildTable
    <3>2. spc' = "stat" /\ srv_child' = srv_child
      OBVIOUS
    <3> HIDE DEF IInv, SrvWait
    <3>3. OthersFree'
      BY <1>proc, <3>1, <3>2 DEF OthersFree
    <3>4. CASE proc'[srv_child].st = "free" /\ child_stopped' = child_stopped
      <4>1. AllFree' /\ ~child_stopped'
        BY <1>proc, <3>1, <3>2, <3>4 DEF AllFree, OthersFree
      <4> QED BY <3>2, <4>1 DEF ChildTable
    <3>5. CASE proc'[srv_child].st = "stop" /\ child_stopped' = TRUE
      BY <3>2, <3>3, <3>5 DEF ChildTable, ChildSt
    <3> QED BY ZenonT(30), <1>proc, <3>4, <3>5
  <2> QED BY <2>1, <2>2
<1>10. ChildKnown'
  <2>1. CASE stop_soon
    BY <2>1 DEF ChildKnown
  <2>2. CASE ~stop_soon
    <3>1. /\ ~child_stopped
          /\ ppc = "status" => child_pid = srv_child
          /\ ppc \in {"pid", "status"} => ~last_run_timed_out
          /\ ppc = "late" => last_run_timed_out /\ ChildSt = "zombie"
      BY <2>2 DEF ChildTable, ChildKnown
    <3>2. CASE ChildSt = "zombie"
      <4>1. child_stopped' = (status' = "stop") /\ ~child_stopped'
        <5>1. ~child_stopped' /\ status' # "stop"
          BY <1>proc, <3>1, <3>2 DEF ChildSt
        <5>2. child_stopped' \in BOOLEAN
          BY <1>3 DEF ServerType
        <5> QED BY <5>1, <5>2, ZenonT(30)
      <4> QED BY <4>1 DEF ChildKnown
    <3>3. CASE ChildSt = "stop"
      <4>1. child_stopped' /\ status' = "stop" /\ ChildSt' = "stop" /\ ppc # "late"
        BY <1>proc, <3>1, <3>3 DEF ChildSt
      <4> QED BY ZenonT(30), <4>1 DEF ChildKnown
    <3> QED BY <1>proc, <3>2, <3>3 DEF ChildSt
  <2> QED BY <2>1, <2>2
<1>11. OneRunning'
  BY ZenonT(30), <1>proc DEF OneRunning, Control
<1>12. InputStable'
  BY ZenonT(30), <1>proc DEF InputStable, ChildSt, Busy
<1>13. Outcome'
  BY ZenonT(30)
     DEF Outcome, ChildTable, ChildKnown, Reporting, OthersFree, ChildSt, WireStart,
         WireLoop, Busy
<1> QED BY <1>1, <1>2, <1>3, <1>4, <1>5, <1>6, <1>7, <1>8, <1>9, <1>10, <1>11,
        <1>12, <1>13 DEF TypeOK

(* SrvWriteStatus preserves the invariant. *)
LEMMA SrvWriteStatusPreserves ==
  ASSUME IInv, SrvWriteStatus
  PROVE  IInv'
<1> USE DEF IInv, SrvWriteStatus
<1>pipe. /\ ctl = <<>>
         /\ \/ /\ ppc = "pid" /\ st # <<>>
               /\ st' = <<PidMsg, StatusMsg>> /\ st' # <<>>
            \/ ppc \in {"status", "late"} /\ st' = <<StatusMsg>>
  <2>1. /\ ctl = <<>>
        /\ \/ ppc = "pid" /\ st = <<PidMsg>>
           \/ ppc \in {"status", "late"} /\ st = <<>>
    BY DEF WireLoop
  <2>2. CASE ppc = "pid" /\ st = <<PidMsg>>
    <3>1. /\ Append(<<PidMsg>>, StatusMsg) = <<PidMsg, StatusMsg>>
          /\ <<PidMsg, StatusMsg>> # <<>> /\ <<PidMsg>> # <<>>
      BY ShortSequences, ZenonT(30)
    <3> QED BY <2>1, <2>2, <3>1, ZenonT(30)
  <2>3. CASE ppc \in {"status", "late"} /\ st = <<>>
    BY <2>1, <2>3, ShortSequences
  <2> QED BY <2>1, <2>2, <2>3
<1>1. ParentType'
  BY <1>pipe
     DEF TypeOK, ParentType
<1>2. PipeType'
  <2>1. StatusMsg \in StMsg
    BY DEF Msg, StMsg, TypeOK, ServerType
  <2> QED BY <2>1 DEF TypeOK, PipeType
<1>3. ServerType'
  BY <1>pipe
     DEF TypeOK, ServerType
<1>4. ChildType'
  BY <1>pipe
     DEF TypeOK, ChildType
<1>5. WireStart'
  BY ZenonT(30) DEF WireStart
<1>6. WireLoop'
  BY ZenonT(30), <1>pipe DEF WireLoop, Busy
<1>7. Control'
  BY ZenonT(30) DEF Control, Busy
<1>8. TargetDelivered'
  BY ZenonT(30) DEF TargetDelivered
<1>9. ChildTable'
  BY ZenonT(30) DEF ChildTable, AllFree, OthersFree, ChildSt
<1>10. ChildKnown'
  BY ZenonT(30), <1>pipe DEF ChildKnown, Reporting, OthersFree, ChildSt
<1>11. OneRunning'
  BY ZenonT(30), <1>pipe DEF OneRunning, OthersFree
<1>12. InputStable'
  BY ZenonT(30) DEF InputStable, Busy
<1>13. Outcome'
  BY ZenonT(30), <1>pipe DEF Outcome, Reporting, OthersFree
<1> QED BY <1>1, <1>2, <1>3, <1>4, <1>5, <1>6, <1>7, <1>8, <1>9, <1>10, <1>11,
        <1>12, <1>13 DEF TypeOK

(* ChildEnds preserves the invariant. *)
LEMMA ChildEndsPreserves ==
  ASSUME NEW p \in Pid, NEW ws \in {"exit", "crash"}, IInv, ChildEnds(p, ws)
  PROVE  IInv'
<1> USE DEF IInv, ChildEnds
<1>proc. /\ proc'[p].st = "zombie" /\ proc'[p].ws = ws
         /\ \A q \in Pid \ {p} : proc'[q] = proc[q]
  <2>1. proc[p] \in Process
    BY DEF TypeOK, ChildType
  <2> QED BY <2>1 DEF TypeOK, ChildType, Process
<1>1. ParentType'
  BY <1>proc
     DEF TypeOK, ParentType
<1>2. PipeType'
  BY <1>proc
     DEF TypeOK, PipeType, CtlMsg, StMsg
<1>3. ServerType'
  BY <1>proc
     DEF TypeOK, ServerType
<1>4. ChildType'
  <2>1. [proc[p] EXCEPT !.st = "zombie", !.ws = ws] \in Process
    BY ZenonT(30) DEF Process, TypeOK, ChildType
  <2> QED BY <2>1 DEF TypeOK, ChildType
<1>5. WireStart'
  BY DEF WireStart, Busy
<1>6. WireLoop'
  BY <1>proc
     DEF WireStart, WireLoop, Control, Busy
<1>7. Control'
  BY DEF WireStart, WireLoop, Control, Busy
<1>8. TargetDelivered'
  BY DEF TargetDelivered
<1>9. ChildTable'
  BY ZenonT(30), <1>proc DEF ChildTable, AllFree, OthersFree, ChildSt, WireStart
<1>10. ChildKnown'
  BY <1>proc
     DEF ChildTable, ChildKnown, Reporting, AllFree, OthersFree, ChildSt,
         WireStart, WireLoop, Control, Busy
<1>11. OneRunning'
  BY <1>proc, ZenonT(60)
     DEF OneRunning, ChildTable, AllFree, OthersFree, ChildSt, Control
<1>12. InputStable'
  BY <1>proc, ZenonT(60) DEF InputStable, WireStart, Busy
<1>13. Outcome'
  BY ZenonT(30), <1>proc DEF Outcome, ChildTable, Reporting, AllFree, OthersFree, ChildSt
<1> QED BY <1>1, <1>2, <1>3, <1>4, <1>5, <1>6, <1>7, <1>8, <1>9, <1>10, <1>11,
        <1>12, <1>13 DEF TypeOK

(* ChildStops preserves the invariant. *)
LEMMA ChildStopsPreserves ==
  ASSUME NEW p \in Pid, IInv, ChildStops(p)
  PROVE  IInv'
<1> USE DEF IInv, ChildStops
<1>proc. /\ proc'[p].st = "stop"
         /\ \A q \in Pid \ {p} : proc'[q] = proc[q]
  <2>1. proc[p] \in Process
    BY DEF TypeOK, ChildType
  <2> QED BY <2>1 DEF TypeOK, ChildType, Process
<1>1. ParentType'
  BY DEF TypeOK, ParentType
<1>2. PipeType'
  BY <1>proc
     DEF TypeOK, PipeType, CtlMsg, StMsg
<1>3. ServerType'
  BY <1>proc
     DEF TypeOK, ServerType
<1>4. ChildType'
  <2>1. [proc[p] EXCEPT !.st = "stop", !.cycle_cnt = @ - 1] \in Process
    BY DEF Process, TypeOK, ChildType
  <2> QED BY <2>1 DEF TypeOK, ChildType
<1>5. WireStart'
  BY DEF WireStart, WireLoop, Control, Busy
<1>6. WireLoop'
  BY DEF WireStart, WireLoop, Control, Busy
<1>7. Control'
  BY DEF Control, Busy
<1>8. TargetDelivered'
  BY <1>proc
     DEF TargetDelivered, WireStart, WireLoop, Control, Busy
<1>9. ChildTable'
  BY ZenonT(30), <1>proc DEF ChildTable, AllFree, OthersFree, ChildSt
<1>10. ChildKnown'
  BY <1>proc
     DEF ChildTable, ChildKnown, Reporting, AllFree, OthersFree, ChildSt,
         WireStart, WireLoop, Control, Busy
<1>11. OneRunning'
  BY <1>proc, ZenonT(60)
     DEF OneRunning, ChildTable, AllFree, OthersFree, ChildSt, Control, Busy
<1>12. InputStable'
  BY ZenonT(30), <1>proc DEF InputStable, AllFree, OthersFree, ChildSt, Busy
<1>13. Outcome'
  BY ZenonT(30), <1>proc
     DEF Outcome, ChildTable, ChildKnown, Reporting, AllFree, OthersFree, ChildSt,
         WireStart, WireLoop, Busy
<1> QED BY <1>1, <1>2, <1>3, <1>4, <1>5, <1>6, <1>7, <1>8, <1>9, <1>10, <1>11,
        <1>12, <1>13 DEF TypeOK

-----------------------------------------------------------------------------
(* The theorems                                                            *)

(* What the invariant says does not depend on anything but the variables.  *)
LEMMA StutterPreserves ==
  ASSUME IInv, UNCHANGED vars
  PROVE  IInv'
<1> USE DEF IInv, vars
<1>1. TypeOK'
  BY DEF TypeOK, ParentType, PipeType, ServerType, ChildType
<1>2. WireStart' /\ WireLoop' /\ Control' /\ TargetDelivered'
  <2>1. WireStart'
    BY DEF WireStart
  <2>2. WireLoop'
    BY DEF WireLoop
  <2>3. Control'
    BY DEF Control, Busy
  <2>4. TargetDelivered'
    BY DEF TargetDelivered, Busy
  <2> QED
    BY ZenonT(30), <2>1, <2>2, <2>3, <2>4
<1>3. ChildTable' /\ ChildKnown'
  BY DEF ChildTable, ChildKnown, AllFree, OthersFree, ChildSt, Reporting
<1>4. OneRunning' /\ InputStable' /\ Outcome'
  BY DEF OneRunning, InputStable, Outcome, ChildSt, Reporting, Busy
<1> QED BY <1>1, <1>2, <1>3, <1>4

(* Every step of afl-fuzz, the host program, the server or a child         *)
(* preserves the invariant.                                                *)
LEMMA NextPreserves ==
  ASSUME IInv, [Next]_vars
  PROVE  IInv'
<1>1. ASSUME NEW t \in Target \cup {NonExistent}, NEW rec \in BOOLEAN,
             FsrvStart(t, rec)
      PROVE  IInv'
  BY <1>1, FsrvStartPreserves
<1>2. ASSUME NEW p \in Pid, SrvFork(p)
      PROVE  IInv'
  BY <1>2, SrvForkPreserves
<1>3. ASSUME NEW p \in Pid, ChildStops(p)
      PROVE  IInv'
  BY <1>3, ChildStopsPreserves
<1>4. ASSUME NEW p \in Pid, NEW ws \in {"exit", "crash"}, ChildEnds(p, ws)
      PROVE  IInv'
  BY <1>4, ChildEndsPreserves
<1>5. CASE FsrvWriteName
  BY <1>5, FsrvWriteNamePreserves
<1>6. CASE FsrvHello
  BY <1>6, FsrvHelloPreserves
<1>7. CASE FsrvNoHello
  BY <1>7, FsrvNoHelloPreserves
<1>8. CASE FsrvKill
  BY <1>8, FsrvKillPreserves
<1>9. CASE StopSignal
  BY <1>9, StopSignalPreserves
<1>10. CASE Leave
  BY <1>10, LeavePreserves
<1>11. CASE RunTarget
  BY <1>11, RunTargetPreserves
<1>12. CASE RunTargetNoServer
  BY <1>12, RunTargetNoServerPreserves
<1>13. CASE RunReadPid
  BY <1>13, RunReadPidPreserves
<1>14. CASE RunServerGone
  BY <1>14, RunServerGonePreserves
<1>15. CASE RunReadStatus
  BY <1>15, RunReadStatusPreserves
<1>16. CASE RunInterrupted
  BY <1>16, RunInterruptedPreserves
<1>17. CASE RunTimeout
  BY <1>17, RunTimeoutPreserves
<1>18. CASE RunReadLate
  BY <1>18, RunReadLatePreserves
<1>19. CASE SrvHello
  BY <1>19, SrvHelloPreserves
<1>20. CASE SrvProgramEnds
  BY <1>20, SrvProgramEndsPreserves
<1>21. CASE SrvReadRecording
  BY <1>21, SrvReadRecordingPreserves
<1>22. CASE SrvReadName
  BY <1>22, SrvReadNamePreserves
<1>23. CASE SrvReadOption
  BY <1>23, SrvReadOptionPreserves
<1>24. CASE SrvReadRequest
  BY <1>24, SrvReadRequestPreserves
<1>25. CASE SrvReapKilled
  BY <1>25, SrvReapKilledPreserves
<1>26. CASE SrvForkFails
  BY <1>26, SrvForkFailsPreserves
<1>27. CASE SrvContinue
  BY <1>27, SrvContinuePreserves
<1>28. CASE SrvWritePid
  BY <1>28, SrvWritePidPreserves
<1>29. CASE SrvWait
  BY <1>29, SrvWaitPreserves
<1>30. CASE SrvWriteStatus
  BY <1>30, SrvWriteStatusPreserves
<1>31. CASE UNCHANGED vars
  BY <1>31, StutterPreserves
<1> QED BY <1>1, <1>2, <1>3, <1>4, <1>5, <1>6, <1>7, <1>8, <1>9, <1>10, <1>11,
        <1>12, <1>13, <1>14, <1>15, <1>16, <1>17, <1>18, <1>19, <1>20, <1>21,
        <1>22, <1>23, <1>24, <1>25, <1>26, <1>27, <1>28, <1>29, <1>30, <1>31,
        ZenonT(30)
        DEF Next, Parent, HostProgram, Server, Child, Ended

(* The invariant holds of every reachable state.                           *)
THEOREM Invariance == Spec => []IInv
BY InitEstablishes, NextPreserves, PTL DEF Spec

(* Every variable of the conversation keeps to its type.                   *)
THEOREM TypeCorrect == Spec => []TypeOK
<1>1. IInv => TypeOK
  BY DEF IInv
<1> QED BY <1>1, Invariance, PTL

(* No reader of the two pipes ever takes one untagged message for another, *)
(* whatever the number of servers, runs, timeouts and interruptions.       *)
THEOREM InSync == Spec => []PipesInSync
<1>1. IInv => PipesInSync
  <2> SUFFICES ASSUME IInv PROVE PipesInSync
    OBVIOUS
  <2> USE DEF IInv
  <2>1. \A k, v : Msg(k, v).kind = k
    BY DEF Msg
  <2>2. \A a : Len(<<a>>) = 1 /\ <<a>>[1] = a /\ Head(<<a>>) = a
    OBVIOUS
  <2>3. ASSUME ppc = "hello" PROVE st = <<>> \/ st = <<Hello>>
    BY <2>3 DEF WireStart, WireLoop, TypeOK, ServerType
  <2>4. ASSUME ppc = "pid", st # <<>> PROVE Head(st) = PidMsg
    <3>1. st = <<PidMsg>> \/ st = <<PidMsg, StatusMsg>>
      BY <2>4 DEF WireStart, WireLoop, TypeOK, ServerType
    <3> QED BY <3>1, ShortSequences
  <2>5. ASSUME ppc \in {"status", "late"} PROVE st = <<>> \/ st = <<StatusMsg>>
    BY <2>5 DEF WireStart, WireLoop, TypeOK, ServerType
  <2>6. ASSUME spc = "rec", ctl # <<>> PROVE Head(ctl) = Rec
    <3>1. ctl = <<Rec>> \/ ctl = <<Rec, Name>>
      BY <2>6, ZenonT(30) DEF WireStart
    <3> QED BY <3>1, ShortSequences, ZenonT(30)
  <2>7. ASSUME spc = "tname", ctl # <<>> PROVE ctl = <<Name>>
    BY <2>7 DEF WireStart
  <2>8. ASSUME spc = "opt", ctl # <<>> PROVE Head(ctl) = Option
    <3>1. ctl = <<Option>> \/ ctl = <<Option, Msg("run", 0)>>
      BY <2>8, ZenonT(30) DEF WireStart
    <3> QED BY <3>1, ShortSequences, ZenonT(30)
  <2>9. ASSUME spc = "loop", ctl # <<>>
        PROVE Head(ctl) = Msg("run", 0) \/ Head(ctl) = Msg("run", 1)
    <3>1. ctl = <<Msg("run", 0)>> \/ ctl = <<Msg("run", 1)>>
      BY <2>9 DEF WireLoop
    <3> QED BY <3>1, ShortSequences
  <2>10. ASSUME NEW m, st = <<>> \/ st = <<m>>
         PROVE \A i \in 1..Len(st) : st[i] = m
    BY <2>10
  <2>11. ppc = "hello" => \A i \in 1..Len(st) : st[i].kind = "hello"
    BY <2>1, <2>3, <2>10
  <2>12. ppc \in {"status", "late"} =>
           \A i \in 1..Len(st) : st[i].kind = "status"
    BY <2>1, <2>5, <2>10
  <2> QED BY <2>1, <2>4, <2>6, <2>7, <2>8, <2>9, <2>11, <2>12
          DEF PipesInSync
<1> QED BY <1>1, Invariance, PTL

(* A server that answers runs the target, and in the recording mode, that  *)
(* afl_fsrv_start was called for.                                          *)
THEOREM TargetIsDelivered == Spec => []TargetDelivered
<1>1. IInv => TargetDelivered
  BY DEF IInv
<1> QED BY <1>1, Invariance, PTL

(* A child only executes during the run it was started or continued for.   *)
THEOREM InputIsStable == Spec => []InputStable
<1>1. IInv => InputStable
  BY DEF IInv
<1> QED BY <1>1, Invariance, PTL

(* Until an interruption no child outlives its server or its run unknown.  *)
THEOREM NoneOrphaned == Spec => []NoOrphan
<1>1. IInv => NoOrphan
  <2> SUFFICES ASSUME IInv, ~stop_soon, NEW p \in Pid, Alive(p)
               PROVE  fsrv_up /\ p = srv_child
    BY DEF NoOrphan
  <2> USE DEF IInv
  <2>1. spc \in {"reap", "cont", "pid", "wait", "stat", "loop"}
    BY DEF ChildTable, AllFree, Alive, TypeOK, ServerType
  <2>2. p = srv_child
    BY <2>1 DEF ChildTable, AllFree, OthersFree, Alive, TypeOK, ServerType
  <2>3. fsrv_up
    BY <2>1 DEF Control, Busy, TypeOK, ParentType
  <2> QED BY <2>2, <2>3
<1> QED BY <1>1, Invariance, PTL

(* The server's waitpid() on a killed child and its SIGCONT always find    *)
(* the child in the state the code takes for granted.                      *)
THEOREM StoppedChildIsKnown == Spec => []StoppedChildKnown
<1>1. IInv => StoppedChildKnown
  BY DEF IInv, StoppedChildKnown, ChildTable, Control, ChildSt
<1> QED BY <1>1, Invariance, PTL

-----------------------------------------------------------------------------
(* Refinement of Executor                                                  *)

(* The fork server starts as the executor does.                            *)
LEMMA InitRefines == Init => Exec!Init
BY DEF Init, Exec!Init, phaseBar, Busy

(* Every step is a step of the executor or leaves its variables alone.     *)
LEMMA StepRefines ==
  ASSUME IInv, [Next]_vars
  PROVE  [Exec!Next]_(Exec!avars)
<1> USE DEF IInv, phaseBar, Busy
<1>1. ASSUME NEW t \in Target \cup {NonExistent}, NEW rec \in BOOLEAN,
             FsrvStart(t, rec)
      PROVE  UNCHANGED Exec!avars
  BY <1>1 DEF FsrvStart, Exec!avars
<1>2. ASSUME NEW p \in Pid, SrvFork(p)
      PROVE  UNCHANGED Exec!avars
  BY <1>2 DEF SrvFork, Exec!avars
<1>3. ASSUME NEW p \in Pid, proc[p].st = "run"
      PROVE  did = "none" /\ (phaseBar = "busy" \/ stop_soon)
  BY <1>3 DEF OneRunning, InputStable
<1>4. ASSUME NEW p \in Pid, ChildStops(p)
      PROVE  Exec!Execute
  BY <1>3, <1>4 DEF ChildStops, Exec!Execute
<1>5. ASSUME NEW p \in Pid, NEW ws \in {"exit", "crash"}, ChildEnds(p, ws)
      PROVE  Exec!Execute
  BY <1>3, <1>5 DEF ChildEnds, Exec!Execute
<1>6. ASSUME FsrvWriteName PROVE UNCHANGED Exec!avars
  BY <1>6 DEF FsrvWriteName, Exec!avars
<1>7. ASSUME FsrvHello PROVE Exec!Up
  BY <1>7 DEF FsrvHello, Exec!Up, Control
<1>8. ASSUME FsrvNoHello PROVE Exec!End
  BY <1>8 DEF FsrvNoHello, Exec!End
<1>9. ASSUME FsrvKill PROVE Exec!Down
  BY <1>9 DEF FsrvKill, Exec!Down
<1>10. ASSUME StopSignal PROVE Exec!Interrupt
  BY <1>10 DEF StopSignal, Exec!Interrupt
<1>11. ASSUME Leave PROVE Exec!End
  BY <1>11 DEF Leave, Exec!End
<1>12. ASSUME RunTarget PROVE Exec!Request
  BY <1>12 DEF RunTarget, Exec!Request
<1>13. ASSUME RunTargetNoServer PROVE Exec!Unanswered \/ Exec!End
  BY <1>13 DEF RunTargetNoServer, Exec!Unanswered, Exec!End
<1>14. ASSUME RunReadPid PROVE UNCHANGED Exec!avars
  <2>1. srv_child \in Pid /\ (st = <<PidMsg>> \/ st = <<PidMsg, StatusMsg>>)
    BY <1>14 DEF RunReadPid, WireStart, WireLoop, Control, TypeOK, ServerType
  <2>2. Head(st).val \in Pid
    BY <2>1, ShortSequences DEF Msg
  <2> QED BY <1>14, <2>2 DEF RunReadPid, Exec!avars
<1>15. ASSUME RunServerGone PROVE Exec!Report \/ Exec!End
  BY <1>15 DEF RunServerGone, Exec!Report, Exec!End, Control
<1>16. ASSUME RunReadStatus PROVE Exec!Report
  <2>1. spc = "loop" /\ st = <<StatusMsg>>
    BY <1>16 DEF RunReadStatus, WireStart, WireLoop, TypeOK, ServerType
  <2>2. Head(st).val = status
    BY <2>1, ShortSequences DEF Msg
  <2>3. \/ status \in {"exit", "stop"} /\ did = "ok"
        \/ status = "crash" /\ did = "crash"
    BY <1>16, <2>1 DEF RunReadStatus, Outcome, Reporting
  <2>4. did \in {"ok", "crash"} /\ result' = did
    BY <1>16, <2>2, <2>3 DEF RunReadStatus
  <2> QED BY <1>16, <2>4 DEF RunReadStatus, Exec!Report, Control
<1>17. ASSUME RunInterrupted PROVE Exec!Report
  BY <1>17 DEF RunInterrupted, Exec!Report, Control
<1>18. ASSUME RunTimeout PROVE UNCHANGED Exec!avars
  BY <1>18 DEF RunTimeout, Exec!avars
<1>19. ASSUME RunReadLate PROVE Exec!Report
  BY <1>19 DEF RunReadLate, Exec!Report, Control
<1>20. ASSUME SrvHello PROVE UNCHANGED Exec!avars
  BY <1>20 DEF SrvHello, Exec!avars
<1>21. ASSUME SrvProgramEnds PROVE UNCHANGED Exec!avars
  BY <1>21 DEF SrvProgramEnds, Exec!avars
<1>22. ASSUME SrvReadRecording PROVE UNCHANGED Exec!avars
  BY <1>22 DEF SrvReadRecording, Exec!avars
<1>23. ASSUME SrvReadName PROVE UNCHANGED Exec!avars
  BY <1>23 DEF SrvReadName, Exec!avars
<1>24. ASSUME SrvReadOption PROVE UNCHANGED Exec!avars
  BY <1>24 DEF SrvReadOption, Exec!avars
<1>25. ASSUME SrvReadRequest PROVE UNCHANGED Exec!avars
  BY <1>25 DEF SrvReadRequest, Exec!avars
<1>26. ASSUME SrvReapKilled PROVE UNCHANGED Exec!avars
  BY <1>26 DEF SrvReapKilled, Exec!avars
<1>27. ASSUME SrvForkFails PROVE UNCHANGED Exec!avars
  BY <1>27 DEF SrvForkFails, Exec!avars
<1>28. ASSUME SrvContinue PROVE UNCHANGED Exec!avars
  BY <1>28 DEF SrvContinue, Exec!avars
<1>29. ASSUME SrvWritePid PROVE UNCHANGED Exec!avars
  BY <1>29 DEF SrvWritePid, Exec!avars
<1>30. ASSUME SrvWait PROVE UNCHANGED Exec!avars
  BY <1>30 DEF SrvWait, Exec!avars
<1>31. ASSUME SrvWriteStatus PROVE UNCHANGED Exec!avars
  BY <1>31 DEF SrvWriteStatus, Exec!avars
<1>32. ASSUME UNCHANGED vars PROVE UNCHANGED Exec!avars
  BY <1>32 DEF vars, Exec!avars
<1> QED BY <1>1, <1>2, <1>4, <1>5, <1>6, <1>7, <1>8, <1>9, <1>10, <1>11,
        <1>12, <1>13, <1>14, <1>15, <1>16, <1>17, <1>18, <1>19, <1>20, <1>21,
        <1>22, <1>23, <1>24, <1>25, <1>26, <1>27, <1>28, <1>29, <1>30, <1>31,
        <1>32, ZenonT(30)
        DEF Next, Parent, HostProgram, Server, Child, Ended, Exec!Next

(* For every number of processes, runs and restarts, the pipe protocol     *)
(* with its timeouts, kills and persistent children gives each request one *)
(* verdict, and OK and CRASH only for what the target did in that run.     *)
THEOREM Refinement == Spec => ImplementsExecutor
BY InitRefines, StepRefines, Invariance, PTL
   DEF Spec, ImplementsExecutor, Exec!Spec
=============================================================================
