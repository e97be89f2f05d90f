---------------------------- MODULE ForkServerInv ---------------------------
(***************************************************************************)
(* The inductive invariant of ForkServer.                                  *)
(***************************************************************************)
EXTENDS ForkServer

Rec == Msg("rec", Flag(recordArgs))
Name == Msg("name", fsrvTarget)
Option == Msg("opt", OptShmem)
Hello == Msg("hello", NoPid)
PidMsg == Msg("pid", srv_child)
StatusMsg == Msg("status", status)

(* What the pipes hold, for each pair of program counters.                 *)
WireStart ==
  /\ spc = "none" => /\ ppc \in {"idle", "done"} /\ ~fsrv_up
                     /\ ctl = <<>> /\ st = <<>>
  /\ spc = "rec" => /\ \/ ppc = "name" /\ ctl = <<Rec>>
                       \/ ppc = "hello" /\ ctl = <<Rec, Name>>
                    /\ st = <<>>
  /\ spc = "tname" => /\ \/ ppc = "name" /\ ctl = <<>>
                         \/ ppc = "hello" /\ ctl = <<Name>>
                      /\ st = <<>>
  /\ spc = "prog" => ppc = "hello" /\ ctl = <<>> /\ st = <<>>
  /\ spc = "opt" => \/ ppc = "hello" /\ ctl = <<>> /\ st = <<Hello>>
                    \/ ppc = "idle" /\ ctl = <<Option>> /\ st = <<>>
                    \/ /\ ppc = "pid" /\ ctl = <<Option, Msg("run", 0)>>
                       /\ st = <<>>

WireLoop ==
  /\ spc = "loop" =>
       \/ ppc = "idle" /\ ctl = <<>> /\ st = <<>>
       \/ ppc = "pid" /\ ctl = <<Msg("run", 1)>> /\ st = <<>>
       \/ ppc = "pid" /\ ctl = <<Msg("run", 0)>> /\ st = <<>>
       \/ ppc = "pid" /\ ctl = <<>> /\ st = <<PidMsg, StatusMsg>>
       \/ ppc \in {"status", "late"} /\ ctl = <<>> /\ st = <<StatusMsg>>
  /\ spc \in {"reap", "fork", "cont", "pid"} =>
       ppc = "pid" /\ ctl = <<>> /\ st = <<>>
  /\ spc \in {"wait", "stat"} =>
       /\ ctl = <<>>
       /\ \/ ppc = "pid" /\ st = <<PidMsg>>
          \/ ppc \in {"status", "late"} /\ st = <<>>
  /\ spc = "dead" =>
       /\ ppc = "idle" \/ st # <<>> => stop_soon
       /\ ppc = "name" => st = <<>>
       /\ ppc = "hello" => st = <<>> \/ st = <<Hello>>
       /\ ppc = "pid" => \/ st = <<>> \/ st = <<PidMsg>>
                         \/ st = <<PidMsg, StatusMsg>>
       /\ ppc \in {"status", "late"} => st = <<>> \/ st = <<StatusMsg>>

(* How the server's life and the user's interruption show in the state.    *)
Control ==
  /\ ppc \in {"name", "hello"} \/ Busy => fsrv_up
  /\ fsrv_up => spc # "none"
  /\ ppc = "fatal" => spc = "dead"
  /\ ppc = "done" => stop_soon /\ spc \in {"none", "dead"}
  /\ ppc = "idle" /\ ~fsrv_up => spc = "none"
  /\ stop_soon => \/ spc \in {"none", "rec", "tname", "prog", "dead"}
                  \/ spc = "opt" /\ ppc = "hello"
  /\ spc \in {"reap", "cont", "pid", "wait", "stat"} => srv_child \in Pid
  /\ ppc = "pid" /\ st # <<>> => srv_child \in Pid
  /\ child_stopped => srv_child \in Pid
  /\ spc = "tname" => recording = recordArgs

(* Which children exist, and what afl-fuzz remembers of them.              *)
AllFree == \A p \in Pid : proc[p].st = "free"
OthersFree == \A p \in Pid \ {srv_child} : proc[p].st = "free"
ChildSt == proc[srv_child].st
Reporting ==   \* the status of the current run is known and not yet read
  spc \in {"stat", "loop"} /\ (ppc = "status" \/ (ppc = "pid" /\ st # <<>>))

ChildTable ==
  ~stop_soon =>
    /\ spc \in {"none", "rec", "tname", "prog", "opt", "fork", "dead"} =>
         AllFree /\ (child_stopped => spc = "none")
    /\ spc = "reap" => OthersFree /\ ChildSt = "zombie" /\ ~child_stopped
    /\ spc = "cont" => OthersFree /\ ChildSt = "stop"
    /\ spc \in {"pid", "wait"} =>
         OthersFree /\ ChildSt \in {"run", "stop", "zombie"} /\ ~child_stopped
    /\ spc \in {"stat", "loop"} =>
         IF child_stopped THEN OthersFree /\ ChildSt \in {"stop", "zombie"}
                          ELSE AllFree

ChildKnown ==
  ~stop_soon =>
    /\ spc \in {"rec", "tname", "prog", "opt"} => ~last_run_timed_out
    /\ ppc = "status" => child_pid = srv_child
    /\ ppc \in {"pid", "status"} => ~last_run_timed_out
    /\ ppc = "late" => last_run_timed_out
    /\ spc = "loop" /\ ppc = "idle" /\ child_stopped =>
         \/ child_pid = srv_child /\ ChildSt = "stop" /\ ~last_run_timed_out
         \/ ChildSt = "zombie" /\ last_run_timed_out
    /\ spc = "loop" /\ ppc = "pid" /\ child_stopped =>
         /\ ctl = <<Msg("run", 1)>> => ChildSt = "zombie"
         /\ ctl = <<Msg("run", 0)>> => ChildSt = "stop"
    /\ Reporting /\ child_stopped => ChildSt = "stop"
    /\ Reporting => child_stopped = (status = "stop")
    /\ spc = "wait" /\ ppc = "late" => ChildSt = "zombie"
    /\ spc \in {"stat", "loop"} /\ ppc = "late" /\ child_stopped =>
         ChildSt = "zombie"

(* At most one child runs, and the current run has had no outcome yet.     *)
OneRunning ==
  /\ spc \in {"reap", "fork", "cont"} => did = "none"
  /\ spc \in {"opt", "loop"} /\ ppc = "pid" /\ ctl # <<>> => did = "none"
  /\ \A p \in Pid : proc[p].st = "run" => did = "none"
  /\ \A p, q \in Pid : proc[p].st = "run" /\ proc[q].st = "run" => p = q

(* What a child did is what the server reports.                            *)
Outcome ==
  ~stop_soon =>
    /\ spc \in {"pid", "wait"} =>
         /\ ChildSt = "stop" => did = "ok"
         /\ ChildSt = "zombie" =>
              \/ proc[srv_child].ws = "exit" /\ did = "ok"
              \/ proc[srv_child].ws = "crash" /\ did = "crash"
              \/ proc[srv_child].ws = "killed" /\ ppc = "late"
    /\ Reporting => \/ status \in {"exit", "stop"} /\ did = "ok"
                    \/ status = "crash" /\ did = "crash"

IInv ==
  /\ TypeOK /\ WireStart /\ WireLoop /\ Control /\ TargetDelivered
  /\ ChildTable /\ ChildKnown /\ OneRunning /\ InputStable /\ Outcome
=============================================================================
