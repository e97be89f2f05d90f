------------------------------ MODULE Executor ------------------------------
(***************************************************************************)
(* What afl-fuzz needs from afl_fsrv_run_target, whatever pipes, pids and  *)
(* signals it takes: one verdict for each request, the verdict is about    *)
(* what the target did with THIS request's test case, and OK and CRASH are *)
(* never made up.  TMOUT may be reported of any run.  Once the user has    *)
(* interrupted the campaign (stop_soon) a run may return early with 0,     *)
(* which reads as OK, and callers must look at stop_soon.                  *)
(***************************************************************************)
EXTENDS Naturals

VARIABLES
  phase,    \* "off": no fork server; "ready"; "busy": in a run; "ended"
  runs,     \* requests made so far
  did,      \* what the target did in the current run
  result,   \* verdict of the last run
  stop      \* the user asked to stop

avars == <<phase, runs, did, result, stop>>

Init ==
  /\ phase = "off" /\ runs = 0 /\ did = "none" /\ result = "none"
  /\ stop = FALSE

Up ==
  /\ phase = "off" /\ phase' = "ready"
  /\ UNCHANGED <<runs, did, result, stop>>

Down ==
  /\ phase = "ready" /\ phase' = "off"
  /\ UNCHANGED <<runs, did, result, stop>>

Request ==
  /\ phase = "ready" /\ phase' = "busy"
  /\ runs' = runs + 1 /\ did' = "none" /\ result' = "none"
  /\ UNCHANGED stop

(* The target finishes the run (or, once interrupted, an abandoned run).   *)
Execute ==
  /\ phase = "busy" \/ stop
  /\ did = "none" /\ did' \in {"ok", "crash"}
  /\ UNCHANGED <<phase, runs, result, stop>>

Report ==
  /\ phase = "busy" /\ phase' = "ready"
  /\ \/ did \in {"ok", "crash"} /\ result' = did
     \/ result' = "tmout"
     \/ stop /\ result' = "ok"
  /\ UNCHANGED <<runs, did, stop>>

(* A request made after the interruption: no server answers it.            *)
Unanswered ==
  /\ phase = "ready" /\ stop
  /\ runs' = runs + 1 /\ did' = "none" /\ result' = "ok"
  /\ UNCHANGED <<phase, stop>>

Interrupt ==
  /\ phase # "ended" /\ stop' = TRUE
  /\ UNCHANGED <<phase, runs, did, result>>

(* FATAL, or the end of the campaign.                                      *)
End ==
  /\ phase # "ended" /\ phase' = "ended"
  /\ runs' \in {runs, runs + 1}
  /\ UNCHANGED <<did, result, stop>>

Next ==
  \/ Up \/ Down \/ Request \/ Execute \/ Report \/ Unanswered
  \/ Interrupt \/ End

Spec == Init /\ [][Next]_avars
=============================================================================
