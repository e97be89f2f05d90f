----------------------------- MODULE ForkServer -----------------------------
(***************************************************************************)
(* The conversation between afl-fuzz (afl-forkserver.c), the fork server   *)
(* that the runtime starts inside the host program (afl-compiler-rt.o.c)   *)
(* and the children that execute one test case each, or several in         *)
(* persistent mode.  Pipes carry whole messages; a message's kind is not   *)
(* on the wire, so a reader takes whatever comes next and the invariants   *)
(* say that it is what the reader expects.  The test case in shared        *)
(* memory is represented by the number of the run it belongs to, runs.     *)
(***************************************************************************)
EXTENDS Naturals, Sequences

CONSTANTS
  Pid,          \* process ids the kernel hands out to children
  NoPid,        \* child_pid = -1
  Target,       \* names of the functions under test
  NonExistent,  \* "__AH_NON_EXISTENT__", sent while no target is chosen
  Persistent,   \* is_persistent: the program was built with AH_PERSISTENT
  MaxCnt,       \* argument of __AFL_LOOP, 1000 in Harnesser::harnessMain
  MaxRuns,      \* bound on the runs of a behaviour
  MaxStarts     \* bound on the fork servers started in a behaviour

ASSUME PidAssumption == NoPid \notin Pid
ASSUME TargetAssumption == NonExistent \notin Target
ASSUME PersistentAssumption == Persistent \in BOOLEAN
ASSUME BoundsAssumption ==
  MaxCnt \in Nat \ {0} /\ MaxRuns \in Nat /\ MaxStarts \in Nat

VARIABLES
  \* afl-fuzz
  ppc,                 \* where in afl_fsrv_start / afl_fsrv_run_target
  fsrv_up,             \* fsrv->fsrv_pid > 0
  child_pid,           \* fsrv->child_pid
  last_run_timed_out,  \* fsrv->last_run_timed_out
  fsrvTarget,          \* fsrv->targetFunctionName
  recordArgs,          \* fsrv->recordArgs
  stop_soon,           \* set by the SIGINT handler
  result,              \* what afl_fsrv_run_target last returned
  runs, starts,        \* runs and fork servers so far
  \* the pipes
  ctl, st,
  \* the fork server
  spc,                 \* where in __afl_auto_init / __afl_start_forkserver
  current_target,      \* __ah_current_target
  recording,           \* __ah_recording
  was_killed, child_stopped, srv_child,
  status,              \* what waitpid() returned
  \* the children
  proc,
  did                  \* history: what the target did in the current run

confVars == <<fsrvTarget, recordArgs, starts>>
verdictVars == <<result, runs, stop_soon>>
targetVars == <<current_target, recording>>
loopVars == <<was_killed, child_stopped, srv_child, status>>
serverVars == <<spc, targetVars, loopVars>>
vars == <<ppc, fsrv_up, child_pid, last_run_timed_out, confVars, verdictVars,
          ctl, st, serverVars, proc, did>>

WaitStatus == {"exit", "crash", "killed", "stop"}
Free == [st |-> "free", ws |-> "exit", input |-> 0, cycle_cnt |-> 0]
Alive(p) == proc[p].st \in {"run", "stop"}

(* kill(pid, SIGKILL) as the process table sees it.                        *)
Killed(ptable, p) ==
  IF p \in Pid /\ ptable[p].st \in {"run", "stop"}
    THEN [ptable EXCEPT ![p].st = "zombie", ![p].ws = "killed"]
    ELSE ptable

(* What init inherits when the fork server dies: zombies disappear.        *)
Orphaned(ptable) ==
  [p \in Pid |-> IF ptable[p].st = "zombie" THEN Free ELSE ptable[p]]

Msg(k, v) == [kind |-> k, val |-> v]
Flag(b) == IF b THEN 1 ELSE 0    \* a C truth value on the wire
OptShmem == 2                    \* stands for FS_OPT_ENABLED | FS_OPT_SHDMEM_FUZZ

Init ==
  /\ ppc = "idle" /\ fsrv_up = FALSE /\ child_pid = NoPid
  /\ last_run_timed_out = FALSE /\ fsrvTarget = NonExistent
  /\ recordArgs = FALSE /\ stop_soon = FALSE /\ result = "none"
  /\ runs = 0 /\ starts = 0
  /\ ctl = <<>> /\ st = <<>>
  /\ spc = "none" /\ current_target = <<>> /\ recording = FALSE
  /\ was_killed = FALSE /\ child_stopped = FALSE /\ srv_child = NoPid
  /\ status = "exit"
  /\ proc = [p \in Pid |-> Free]
  /\ did = "none"

-----------------------------------------------------------------------------
(* Faulty variants of some steps below, each with one slip a maintainer    *)
(* could make.  They are not part of Next; the properties reject them.     *)

(* The flag that is written is the one of the previous server.             *)
StaleFlagFsrvStart(t, rec) ==
  /\ ppc = "idle" /\ ~fsrv_up /\ starts < MaxStarts
  /\ starts' = starts + 1
  /\ fsrvTarget' = t /\ recordArgs' = rec
  /\ fsrv_up' = TRUE /\ last_run_timed_out' = FALSE
  /\ ctl' = <<Msg("rec", Flag(recordArgs))>> /\ st' = <<>>
  /\ spc' = "rec" /\ current_target' = <<>> /\ recording' = FALSE
  /\ was_killed' = FALSE /\ child_stopped' = FALSE /\ srv_child' = NoPid
  /\ ppc' = "name"
  /\ UNCHANGED <<child_pid, verdictVars, status, proc, did>>

(* The child is forgotten although it is only stopped.                     *)
ForgetfulRunReadStatus ==
  /\ ppc = "status" /\ st # <<>> /\ ~stop_soon
  /\ st' = Tail(st)
  /\ child_pid' = NoPid
  /\ result' = IF Head(st).val \in {"crash", "killed"} THEN "crash" ELSE "ok"
  /\ ppc' = "idle"
  /\ UNCHANGED <<fsrv_up, last_run_timed_out, confVars, runs, stop_soon, ctl,
                 serverVars, proc, did>>

(* The timeout is not kept; no word of it to the server; no second read;   *)
(* neither kill nor second read.                                           *)
UntimedRunTimeout == ppc = "status" /\ st = <<>> /\ spc # "dead" /\ UNCHANGED vars
NoFlagRunTimeout ==
  /\ ppc = "status" /\ st = <<>> /\ spc # "dead"
  /\ proc' = Killed(proc, child_pid) /\ child_pid' = NoPid
  /\ ppc' = "late"
  /\ UNCHANGED <<fsrv_up, last_run_timed_out, confVars, verdictVars, ctl, st,
                 serverVars, did>>
NoReadRunTimeout ==
  /\ ppc = "status" /\ st = <<>> /\ spc # "dead"
  /\ proc' = Killed(proc, child_pid) /\ child_pid' = NoPid
  /\ last_run_timed_out' = TRUE /\ result' = "tmout" /\ ppc' = "idle"
  /\ UNCHANGED <<fsrv_up, confVars, runs, stop_soon, ctl, st, serverVars, did>>
AbandoningRunTimeout ==
  /\ ppc = "status" /\ st = <<>> /\ spc # "dead"
  /\ child_pid' = NoPid
  /\ last_run_timed_out' = TRUE /\ result' = "tmout" /\ ppc' = "idle"
  /\ UNCHANGED <<fsrv_up, confVars, runs, stop_soon, ctl, st, serverVars,
                 proc, did>>

(* The late status is classified as if it had come in time.                *)
ClassifyingRunReadLate ==
  /\ ppc = "late" /\ st # <<>>
  /\ st' = Tail(st)
  /\ result' = IF Head(st).val \in {"crash", "killed"} THEN "crash" ELSE "ok"
  /\ ppc' = "idle"
  /\ UNCHANGED <<fsrv_up, child_pid, last_run_timed_out, confVars, runs,
                 stop_soon, ctl, serverVars, proc, did>>

-----------------------------------------------------------------------------
(* afl-fuzz: starting and killing the server                               *)

(* afl_fsrv_start up to the first write: new pipes, fork, and the          *)
(* one-byte recordArgs flag.  The callers set target and flag just before. *)
FsrvStart(t, rec) ==
  /\ ppc = "idle" /\ ~fsrv_up /\ starts < MaxStarts
  /\ starts' = starts + 1
  /\ fsrvTarget' = t /\ recordArgs' = rec
  /\ fsrv_up' = TRUE /\ last_run_timed_out' = FALSE
  /\ ctl' = <<Msg("rec", Flag(rec))>> /\ st' = <<>>
  /\ spc' = "rec" /\ current_target' = <<>> /\ recording' = FALSE
  /\ was_killed' = FALSE /\ child_stopped' = FALSE /\ srv_child' = NoPid
  /\ ppc' = "name"
  /\ UNCHANGED <<child_pid, verdictVars, status, proc, did>>

(* The target's name follows in a write of its own, without a length.      *)
FsrvWriteName ==
  /\ ppc = "name" /\ ppc' = "hello"
  /\ ctl' = Append(ctl, Msg("name", fsrvTarget))
  /\ UNCHANGED <<fsrv_up, child_pid, last_run_timed_out, confVars,
                 verdictVars, st, serverVars, proc, did>>

(* The four-byte hello arrives in time; the shared-memory option is        *)
(* acknowledged (the runtime always offers it, since Harnesser.cc defines  *)
(* __afl_sharedmem_fuzzing).                                               *)
FsrvHello ==
  /\ ppc = "hello" /\ st # <<>> /\ ~stop_soon
  /\ st' = Tail(st)
  /\ ctl' = Append(ctl, Msg("opt", OptShmem))
  /\ ppc' = "idle"
  /\ UNCHANGED <<fsrv_up, child_pid, last_run_timed_out, confVars,
                 verdictVars, serverVars, proc, did>>

(* No hello: the program ended before __AFL_INIT(), init_tmout elapsed, or *)
(* the user interrupts.  Each ends in FATAL.                               *)
FsrvNoHello ==
  /\ ppc = "hello"
  /\ \/ st = <<>> /\ last_run_timed_out' = (spc # "dead")
     \/ stop_soon /\ st # <<>> /\ UNCHANGED last_run_timed_out
  /\ fsrv_up' = FALSE /\ spc' = "dead" /\ ppc' = "fatal"
  /\ UNCHANGED <<child_pid, confVars, verdictVars, ctl, st, targetVars,
                 loopVars, proc, did>>

(* afl_fsrv_kill: the child afl-fuzz knows of, then the server.            *)
FsrvKill ==
  /\ ppc = "idle" /\ fsrv_up
  /\ proc' = Orphaned(Killed(proc, child_pid))
  /\ spc' = "none" /\ fsrv_up' = FALSE /\ child_pid' = NoPid
  /\ ctl' = <<>> /\ st' = <<>>
  /\ UNCHANGED <<ppc, last_run_timed_out, confVars, verdictVars, targetVars,
                 loopVars, did>>

(* SIGINT: afl_states_stop sets the flag, kills child and server.          *)
StopSignal ==
  /\ ppc \notin {"fatal", "done"} /\ ~stop_soon
  /\ stop_soon' = TRUE
  /\ IF fsrv_up
       THEN proc' = Orphaned(Killed(proc, child_pid)) /\ spc' = "dead"
       ELSE UNCHANGED <<proc, spc>>
  /\ UNCHANGED <<ppc, fsrv_up, child_pid, last_run_timed_out, confVars,
                 result, runs, ctl, st, targetVars, loopVars, did>>

(* The main loop leaves once it sees stop_soon.                            *)
Leave ==
  /\ ppc = "idle" /\ stop_soon /\ ppc' = "done"
  /\ UNCHANGED <<fsrv_up, child_pid, last_run_timed_out, confVars,
                 verdictVars, ctl, st, serverVars, proc, did>>

-----------------------------------------------------------------------------
(* afl-fuzz: afl_fsrv_run_target                                           *)

(* The test case is in shared memory, the trace map is cleared, and the    *)
(* request says whether the previous run was killed.                       *)
RunTarget ==
  /\ ppc = "idle" /\ fsrv_up /\ spc # "dead" /\ runs < MaxRuns
  /\ runs' = runs + 1 /\ did' = "none" /\ result' = "none"
  /\ ctl' = Append(ctl, Msg("run", Flag(last_run_timed_out)))
  /\ last_run_timed_out' = FALSE
  /\ ppc' = "pid"
  /\ UNCHANGED <<fsrv_up, child_pid, confVars, stop_soon, st, serverVars,
                 proc>>

(* The write fails: the server is gone.  0 (OK) when interrupted.          *)
RunTargetNoServer ==
  /\ ppc = "idle" /\ fsrv_up /\ spc = "dead" /\ runs < MaxRuns
  /\ runs' = runs + 1
  /\ IF stop_soon
       THEN result' = "ok" /\ did' = "none" /\ UNCHANGED ppc
       ELSE ppc' = "fatal" /\ UNCHANGED <<result, did>>
  /\ UNCHANGED <<fsrv_up, child_pid, last_run_timed_out, confVars, stop_soon,
                 ctl, st, serverVars, proc>>

RunReadPid ==
  /\ ppc = "pid" /\ st # <<>>
  /\ st' = Tail(st)
  /\ child_pid' = Head(st).val
  /\ ppc' = IF Head(st).val \in Pid THEN "status" ELSE "fatal"
  /\ UNCHANGED <<fsrv_up, last_run_timed_out, confVars, verdictVars, ctl,
                 serverVars, proc, did>>

(* The server died: read() returns 0 at each of the three reads.           *)
RunServerGone ==
  /\ ppc \in {"pid", "status", "late"} /\ st = <<>> /\ spc = "dead"
  /\ IF stop_soon
       THEN ppc' = "idle" /\ result' = "ok"
       ELSE ppc' = "fatal" /\ UNCHANGED result
  /\ UNCHANGED <<fsrv_up, child_pid, last_run_timed_out, confVars, runs,
                 stop_soon, ctl, st, serverVars, proc, did>>

(* The status arrives within the timeout.  A stopped child stays known.    *)
RunReadStatus ==
  /\ ppc = "status" /\ st # <<>> /\ ~stop_soon
  /\ st' = Tail(st)
  /\ child_pid' = IF Head(st).val = "stop" THEN child_pid ELSE NoPid
  /\ result' = IF Head(st).val \in {"crash", "killed"} THEN "crash" ELSE "ok"
  /\ ppc' = "idle"
  /\ UNCHANGED <<fsrv_up, last_run_timed_out, confVars, runs, stop_soon, ctl,
                 serverVars, proc, did>>

(* read_s32_timed looks at stop_soon before it reads.                      *)
RunInterrupted ==
  /\ ppc = "status" /\ st # <<>> /\ stop_soon
  /\ result' = "ok" /\ ppc' = "idle"
  /\ UNCHANGED <<fsrv_up, child_pid, last_run_timed_out, confVars, runs,
                 stop_soon, ctl, st, serverVars, proc, did>>

(* select() returns 0: the child is killed, the server will say so.        *)
RunTimeout ==
  /\ ppc = "status" /\ st = <<>> /\ spc # "dead"
  /\ proc' = Killed(proc, child_pid) /\ child_pid' = NoPid
  /\ last_run_timed_out' = TRUE
  /\ ppc' = "late"
  /\ UNCHANGED <<fsrv_up, confVars, verdictVars, ctl, st, serverVars, did>>

RunReadLate ==
  /\ ppc = "late" /\ st # <<>>
  /\ st' = Tail(st)
  /\ result' = "tmout" /\ ppc' = "idle"
  /\ UNCHANGED <<fsrv_up, child_pid, last_run_timed_out, confVars, runs,
                 stop_soon, ctl, serverVars, proc, did>>

-----------------------------------------------------------------------------
(* The host program up to the fork server                                  *)

(* __afl_auto_init: read(FORKSRV_FD, &__ah_recording, 1).                  *)
SrvReadRecording ==
  /\ spc = "rec" /\ ctl # <<>>
  /\ recording' = (Head(ctl).val # 0)
  /\ ctl' = Tail(ctl)
  /\ spc' = "tname"
  /\ UNCHANGED <<ppc, fsrv_up, child_pid, last_run_timed_out, confVars,
                 verdictVars, st, current_target, loopVars, proc, did>>

(* read(FORKSRV_FD, buffer, 255): everything that is in the pipe.          *)
SrvReadName ==
  /\ spc = "tname" /\ ctl # <<>>
  /\ current_target' = ctl
  /\ ctl' = <<>>
  /\ spc' = "prog"
  /\ UNCHANGED <<ppc, fsrv_up, child_pid, last_run_timed_out, confVars,
                 verdictVars, st, recording, loopVars, proc, did>>

(* The program runs for real until gen_init, gen_values or                 *)
(* __ah_library_function calls __AFL_INIT(), which says hello.             *)
SrvHello ==
  /\ spc = "prog" /\ spc' = "opt"
  /\ st' = Append(st, Msg("hello", NoPid))
  /\ UNCHANGED <<ppc, fsrv_up, child_pid, last_run_timed_out, confVars,
                 verdictVars, ctl, targetVars, loopVars, proc, did>>

(* ... or it ends without a call of the target.                            *)
SrvProgramEnds ==
  /\ spc = "prog" /\ spc' = "dead"
  /\ UNCHANGED <<ppc, fsrv_up, child_pid, last_run_timed_out, confVars,
                 verdictVars, ctl, st, targetVars, loopVars, proc, did>>

-----------------------------------------------------------------------------
(* The fork server's loop                                                  *)

SrvReadOption ==
  /\ spc = "opt" /\ ctl # <<>>
  /\ ctl' = Tail(ctl)
  /\ spc' = "loop"
  /\ UNCHANGED <<ppc, fsrv_up, child_pid, last_run_timed_out, confVars,
                 verdictVars, st, targetVars, loopVars, proc, did>>

(* A request.  A stopped child that afl-fuzz has killed is written off.    *)
SrvReadRequest ==
  /\ spc = "loop" /\ ctl # <<>>
  /\ ctl' = Tail(ctl)
  /\ was_killed' = (Head(ctl).val # 0)
  /\ spc' = IF child_stopped
              THEN IF was_killed' THEN "reap" ELSE "cont"
              ELSE "fork"
  /\ child_stopped' = (child_stopped /\ ~was_killed')
  /\ UNCHANGED <<ppc, fsrv_up, child_pid, last_run_timed_out, confVars,
                 verdictVars, st, targetVars, srv_child, status, proc, did>>

(* waitpid(child_pid, &status, 0): blocks until the child has died.        *)
SrvReapKilled ==
  /\ spc = "reap" /\ proc[srv_child].st = "zombie"
  /\ proc' = [proc EXCEPT ![srv_child] = Free]
  /\ spc' = "fork"
  /\ UNCHANGED <<ppc, fsrv_up, child_pid, last_run_timed_out, confVars,
                 verdictVars, ctl, st, targetVars, loopVars, did>>

(* fork(): the child resumes the program with the test case of this run.   *)
SrvFork(p) ==
  /\ spc = "fork" /\ proc[p].st = "free"
  /\ proc' = [proc EXCEPT ![p] = [st |-> "run", ws |-> "exit",
                                   input |-> runs, cycle_cnt |-> MaxCnt]]
  /\ srv_child' = p
  /\ spc' = "pid"
  /\ UNCHANGED <<ppc, fsrv_up, child_pid, last_run_timed_out, confVars,
                 verdictVars, ctl, st, targetVars, was_killed,
                 child_stopped, status, did>>

(* fork() fails: _exit(1).                                                 *)
SrvForkFails ==
  /\ spc = "fork" /\ spc' = "dead"
  /\ UNCHANGED <<ppc, fsrv_up, child_pid, last_run_timed_out, confVars,
                 verdictVars, ctl, st, targetVars, loopVars, proc, did>>

(* SIGCONT: the stopped child goes round its loop with the new test case.  *)
SrvContinue ==
  /\ spc = "cont"
  /\ proc' = IF proc[srv_child].st = "stop"
               THEN [proc EXCEPT ![srv_child].st = "run",
                                 ![srv_child].input = runs]
               ELSE proc
  /\ child_stopped' = FALSE
  /\ spc' = "pid"
  /\ UNCHANGED <<ppc, fsrv_up, child_pid, last_run_timed_out, confVars,
                 verdictVars, ctl, st, targetVars, was_killed,
                 srv_child, status, did>>

SrvWritePid ==
  /\ spc = "pid" /\ spc' = "wait"
  /\ st' = Append(st, Msg("pid", srv_child))
  /\ UNCHANGED <<ppc, fsrv_up, child_pid, last_run_timed_out, confVars,
                 verdictVars, ctl, targetVars, loopVars, proc, did>>

(* waitpid returns: the child has died and is reaped, or it has stopped.   *)
SrvWait ==
  /\ spc = "wait"
  /\ \/ /\ proc[srv_child].st = "zombie"
        /\ status' = proc[srv_child].ws
        /\ proc' = [proc EXCEPT ![srv_child] = Free]
        /\ UNCHANGED child_stopped
     \/ /\ Persistent /\ proc[srv_child].st = "stop"
        /\ status' = "stop" /\ child_stopped' = TRUE
        /\ UNCHANGED proc
  /\ spc' = "stat"
  /\ UNCHANGED <<ppc, fsrv_up, child_pid, last_run_timed_out, confVars,
                 verdictVars, ctl, st, targetVars, was_killed,
                 srv_child, did>>

SrvWriteStatus ==
  /\ spc = "stat" /\ spc' = "loop"
  /\ st' = Append(st, Msg("status", status))
  /\ UNCHANGED <<ppc, fsrv_up, child_pid, last_run_timed_out, confVars,
                 verdictVars, ctl, targetVars, loopVars, proc, did>>

-----------------------------------------------------------------------------
(* The children                                                            *)

(* The program ends: main returns, libgen's _exit(0) (exit_on_ret,         *)
(* max_calls, max_millis), or a fatal signal.                              *)
ChildEnds(p, ws) ==
  /\ proc[p].st = "run"
  /\ proc' = [proc EXCEPT ![p].st = "zombie", ![p].ws = ws]
  /\ did' = IF ws = "exit" THEN "ok" ELSE "crash"
  /\ UNCHANGED <<ppc, fsrv_up, child_pid, last_run_timed_out, confVars,
                 verdictVars, ctl, st, serverVars>>

(* __afl_persistent_loop: raise(SIGSTOP) while --cycle_cnt is not zero.    *)
ChildStops(p) ==
  /\ Persistent /\ proc[p].st = "run" /\ proc[p].cycle_cnt > 1
  /\ proc' = [proc EXCEPT ![p].st = "stop", ![p].cycle_cnt = @ - 1]
  /\ did' = "ok"
  /\ UNCHANGED <<ppc, fsrv_up, child_pid, last_run_timed_out, confVars,
                 verdictVars, ctl, st, serverVars>>

-----------------------------------------------------------------------------
Parent ==
  \/ \E t \in Target \cup {NonExistent}, rec \in BOOLEAN : FsrvStart(t, rec)
  \/ FsrvWriteName \/ FsrvHello \/ FsrvNoHello \/ FsrvKill \/ StopSignal
  \/ Leave \/ RunTarget \/ RunTargetNoServer \/ RunReadPid \/ RunServerGone
  \/ RunReadStatus \/ RunInterrupted \/ RunTimeout \/ RunReadLate

HostProgram == SrvHello \/ SrvProgramEnds

Server ==
  \/ SrvReadRecording \/ SrvReadName \/ SrvReadOption
  \/ SrvReadRequest \/ SrvReapKilled
  \/ \E p \in Pid : SrvFork(p)
  \/ SrvForkFails \/ SrvContinue \/ SrvWritePid \/ SrvWait \/ SrvWriteStatus

Child ==
  \E p \in Pid : ChildStops(p) \/ \E ws \in {"exit", "crash"} : ChildEnds(p, ws)

(* afl-fuzz has ended, or has used up the runs and servers it may start.   *)
Ended ==
  /\ \/ ppc \in {"fatal", "done"}
     \/ ppc = "idle" /\ ~fsrv_up /\ starts = MaxStarts
  /\ UNCHANGED vars

Next == Parent \/ HostProgram \/ Server \/ Child \/ Ended

Spec == Init /\ [][Next]_vars

(* The kernel runs afl-fuzz and the fork server when they can run, and     *)
(* select()'s timeouts elapse.  Nothing is assumed of the host program     *)
(* before __AFL_INIT(), of the children (they may hang), or of the user.   *)
Fairness ==
  /\ WF_vars(FsrvWriteName)
  /\ WF_vars(FsrvHello \/ FsrvNoHello)
  /\ WF_vars(RunReadPid \/ RunServerGone \/ RunReadStatus \/ RunInterrupted
              \/ RunTimeout \/ RunReadLate)
  /\ WF_vars(Server)

FairSpec == Spec /\ Fairness

-----------------------------------------------------------------------------
Busy == ppc \in {"pid", "status", "late"}

CtlMsg ==
  [kind : {"rec", "run", "opt"}, val : {0, 1, OptShmem}]
    \cup [kind : {"name"}, val : Target \cup {NonExistent}]
StMsg ==
  [kind : {"hello"}, val : {NoPid}] \cup [kind : {"pid"}, val : Pid]
    \cup [kind : {"status"}, val : WaitStatus]

Process ==
  [st : {"free", "run", "stop", "zombie"}, ws : {"exit", "crash", "killed"},
   input : Nat, cycle_cnt : Nat]

ParentType ==
  /\ ppc \in {"idle", "name", "hello", "pid", "status", "late", "fatal", "done"}
  /\ fsrv_up \in BOOLEAN /\ child_pid \in Pid \cup {NoPid}
  /\ last_run_timed_out \in BOOLEAN /\ fsrvTarget \in Target \cup {NonExistent}
  /\ recordArgs \in BOOLEAN /\ stop_soon \in BOOLEAN
  /\ result \in {"none", "ok", "crash", "tmout"}
  /\ runs \in Nat /\ starts \in Nat
PipeType ==
  ctl \in Seq(CtlMsg) /\ st \in Seq(StMsg) /\ current_target \in Seq(CtlMsg)
ServerType ==
  /\ spc \in {"none", "rec", "tname", "prog", "opt", "loop", "reap", "fork",
              "cont", "pid", "wait", "stat", "dead"}
  /\ recording \in BOOLEAN /\ was_killed \in BOOLEAN
  /\ child_stopped \in BOOLEAN
  /\ srv_child \in Pid \cup {NoPid} /\ status \in WaitStatus
ChildType == proc \in [Pid -> Process] /\ did \in {"none", "ok", "crash"}

(* Every variable keeps to its type.                                       *)
TypeOK == ParentType /\ PipeType /\ ServerType /\ ChildType

(* The untagged messages are never misread: whatever afl-fuzz or the       *)
(* server takes from a pipe next is the message that read() is for, and    *)
(* the read of up to 255 bytes that fetches the name finds the name alone, *)
(* never the option word glued to it.                                      *)
PipesInSync ==
  /\ ppc = "hello" => \A i \in 1..Len(st) : st[i].kind = "hello"
  /\ ppc = "pid" /\ st # <<>> => Head(st).kind = "pid"
  /\ ppc \in {"status", "late"} => \A i \in 1..Len(st) : st[i].kind = "status"
  /\ spc = "rec" /\ ctl # <<>> => Head(ctl).kind = "rec"
  /\ spc = "tname" /\ ctl # <<>> => ctl = <<Msg("name", fsrvTarget)>>
  /\ spc = "opt" /\ ctl # <<>> => Head(ctl).kind = "opt"
  /\ spc = "loop" /\ ctl # <<>> => Head(ctl).kind = "run"

(* A server that answers was started for the target, and in the recording  *)
(* mode, that afl-fuzz believes it is running (the campaign switches       *)
(* targets by killing and restarting the server).                          *)
TargetDelivered ==
  spc \notin {"none", "rec", "tname", "dead"} =>
    current_target = <<Msg("name", fsrvTarget)>> /\ recording = recordArgs

(* Until the user interrupts, a child executes only during the run that    *)
(* started it, on that run's test case: afl-fuzz never overwrites the      *)
(* shared test case or clears the trace map under a running child, also    *)
(* when a timeout races with the child's SIGSTOP or exit.                  *)
InputStable ==
  ~stop_soon => \A p \in Pid : proc[p].st = "run" => Busy /\ proc[p].input = runs

(* Until the user interrupts there is at most one living child, the one    *)
(* the server waits for, and none survives afl_fsrv_kill, although that    *)
(* function kills only a child whose pid afl-fuzz still remembers.         *)
NoOrphan ==
  ~stop_soon => \A p \in Pid : Alive(p) => fsrv_up /\ p = srv_child

(* The server never blocks in, or signals, a child that is not there: the  *)
(* waitpid() that writes off a killed child finds it dead, and SIGCONT     *)
(* goes to a child that is really stopped.                                 *)
StoppedChildKnown ==
  /\ spc = "reap" => srv_child \in Pid /\ proc[srv_child].st = "zombie"
  /\ spc = "cont" => srv_child \in Pid /\ proc[srv_child].st = "stop"

(* The fork server implements the abstract executor: one verdict per       *)
(* request, OK and CRASH only for what the target did in that very run.    *)
phaseBar ==
  IF ppc \in {"fatal", "done"} THEN "ended"
  ELSE IF Busy THEN "busy"
  ELSE IF ppc = "idle" /\ fsrv_up THEN "ready" ELSE "off"

Exec == INSTANCE Executor WITH phase <- phaseBar, stop <- stop_soon

ImplementsExecutor == Exec!Spec

(* Both waits of afl-fuzz for a program it does not control come to an     *)
(* end.  afl_fsrv_run_target returns: a hanging child, one that dies or    *)
(* stops just as the timeout fires, or a dying server never leaves it      *)
(* without an answer.  afl_fsrv_start returns, or ends afl-fuzz, whatever  *)
(* the host program does before it reaches the fork server.                *)
Starting == ppc \in {"name", "hello"}
Returns == (Busy ~> ~Busy) /\ (Starting ~> ~Starting)
=============================================================================
