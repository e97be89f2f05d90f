-------------------------- MODULE ShadowExecution --------------------------
(***************************************************************************)
(* What the runtime library (libgen/src/main.cc) does inside the host      *)
(* program: gen_values() at every entry of a target, __ah_epilogue before  *)
(* every return, the counter of library calls, the timer thread and the    *)
(* persistent loop that harnessMain wraps around main().  The host's own   *)
(* code is any sequence of calls and returns; what is recorded and what    *)
(* arguments are made of is in other modules.                              *)
(***************************************************************************)
EXTENDS Integers, Sequences, FiniteSets

CONSTANTS
  Fn,              \* the instrumented target functions
  Configs,         \* the configurations looked at
  U32,             \* range of the u32 nesting counter
  MaxDepth,        \* bound on nested calls of target functions
  MaxLibCalls,     \* bound on counted library calls
  MaxIter          \* bound on iterations of the persistent loop, 1000

NoFn == "none"

(* What AH_CONFIG, the build and afl-fuzz's messages say.                  *)
Config ==
  [selected : SUBSET Fn,      \* fuzz_target and the target received
   blacklist : SUBSET Fn,     \* the functions AH_BLACKLIST is found to name
   recording : BOOLEAN,       \* __ah_recording, received
   unknown : BOOLEAN,         \* the target received is "__AH_NON_EXISTENT__"
   userRecording : BOOLEAN,   \* force_recording
   exitOnReturn : BOOLEAN,    \* exit_on_ret
   exitOnTimer : BOOLEAN,     \* max_millis is given
   exitOnMaxCalls : BOOLEAN,  \* max_calls is given
   maxCalls : Nat, maxFuzz : Nat,
   forkOnInit : BOOLEAN,      \* fork_on_init
   forkOnCallNr : Nat,        \* fork_on_call, 0 when not given
   persistent : BOOLEAN]      \* compiled with AH_PERSISTENT, run by afl-fuzz

ASSUME FnAssumption == NoFn \notin Fn
ASSUME ConfigsAssumption == Configs \subseteq Config
ASSUME BoundsAssumption ==
  /\ MaxLibCalls \in Nat /\ {MaxDepth, MaxIter} \subseteq Nat \ {0}
  /\ U32 \in Nat /\ U32 > MaxDepth

VARIABLES
  conf,            \* globals set by gen_init
  st,              \* "main", "exited" by the runtime, "stopped", "ended" by the host
  why,             \* what ended it: "", "calls", "return", "timer"
  stack,           \* active target calls; fuzzed: arguments were replaced
  in_fuzz, shadow_name, shadow_recurse, fuzzIdx, currentCalls,
  timerSet,
  timer,           \* iteration the timer thread was started in, 0 for none
  recorded,        \* recordedFunctions
  init_done,       \* the fork server has been started: this is a child
  libraryCall,
  iter,            \* iteration of the persistent loop
  fuzzCalls        \* history: target calls in this iteration since the first fuzzed one

vars == <<conf, st, why, stack, in_fuzz, shadow_name, shadow_recurse, fuzzIdx,
          currentCalls, timerSet, timer, recorded, init_done, libraryCall, iter,
          fuzzCalls>>

Frame == [fn : Fn, fuzzed : BOOLEAN]

(* gen_init, called at the head of main().                                 *)
Init ==
  /\ conf \in Configs
  /\ st = "main" /\ why = "" /\ stack = <<>>
  /\ in_fuzz = FALSE /\ shadow_name = NoFn /\ shadow_recurse = 0
  /\ fuzzIdx = 0 /\ currentCalls = 0
  /\ timerSet = FALSE /\ timer = 0
  /\ recorded = {}
  /\ init_done = (conf.recording \/ conf.forkOnInit)
  /\ libraryCall = 0 /\ iter = 1 /\ fuzzCalls = 0

-----------------------------------------------------------------------------
(* gen_values                                                              *)

ShouldRecord(f) ==
  (conf.userRecording \/ conf.recording) /\ f \notin recorded \cup conf.blacklist

ShouldFuzz(f) ==
  f \in conf.selected /\ ~ShouldRecord(f) /\ (~in_fuzz \/ fuzzIdx < conf.maxFuzz)

(* Faulty: the fork server is started for a recording only.                *)
LazyStartsServer(f) == ~conf.forkOnInit /\ conf.forkOnCallNr = 0 /\ (ShouldRecord(f) \/ conf.unknown)
StartsServer(f) ==
  ~conf.forkOnInit /\ conf.forkOnCallNr = 0 /\ (ShouldFuzz(f) \/ ShouldRecord(f) \/ conf.unknown)

(* The counter is raised and found beyond max_calls.                       *)
TooManyCalls == in_fuzz /\ conf.exitOnMaxCalls /\ currentCalls >= conf.maxCalls

CallExits(f) ==
  /\ st = "main" /\ TooManyCalls
  /\ currentCalls' = currentCalls + 1
  /\ st' = "exited" /\ why' = "calls"
  /\ UNCHANGED <<conf, stack, in_fuzz, shadow_name, shadow_recurse, fuzzIdx, timerSet,
                 timer, recorded, init_done, libraryCall, iter, fuzzCalls>>

(* Faulty: a recursive call is not noticed.                                *)
FlatNesting(f) == 0
Nesting(f) == IF in_fuzz /\ f = shadow_name THEN 1 ELSE 0

(* Faulty: the thread is never started.                                    *)
NoTimerNeeded(f) == FALSE
TimerNeeded(f) == ShouldFuzz(f) /\ conf.exitOnTimer /\ ~timerSet

Counted == IF in_fuzz /\ conf.exitOnMaxCalls THEN currentCalls + 1 ELSE currentCalls

(* A call that goes on: recorded or not, fuzzed or not.                    *)
Call(f) ==
  /\ st = "main" /\ ~TooManyCalls /\ Len(stack) < MaxDepth
  /\ currentCalls' = Counted
  /\ init_done' = (init_done \/ StartsServer(f))
  /\ in_fuzz' = (in_fuzz \/ ShouldFuzz(f))
  /\ shadow_name' = IF ShouldFuzz(f) \/ ShouldRecord(f) THEN f ELSE shadow_name
  /\ shadow_recurse' = IF ShouldFuzz(f) THEN 1 ELSE (shadow_recurse + Nesting(f)) % U32
  /\ fuzzIdx' = IF ShouldFuzz(f) THEN fuzzIdx + 1 ELSE fuzzIdx
  /\ recorded' = IF ShouldRecord(f) THEN recorded \cup {f} ELSE recorded
  /\ timerSet' = (timerSet \/ TimerNeeded(f))
  /\ timer' = IF TimerNeeded(f) THEN iter ELSE timer
  /\ stack' = Append(stack, [fn |-> f, fuzzed |-> ShouldFuzz(f)])
  /\ fuzzCalls' = IF in_fuzz /\ fuzzCalls <= conf.maxCalls THEN fuzzCalls + 1 ELSE fuzzCalls
  /\ UNCHANGED <<conf, st, why, libraryCall, iter>>

-----------------------------------------------------------------------------
(* __ah_epilogue and the return that follows it.                           *)
Returning == stack[Len(stack)]
Return ==
  /\ st = "main" /\ stack # <<>>
  /\ stack' = SubSeq(stack, 1, Len(stack) - 1)
  /\ IF conf.exitOnReturn /\ ~conf.recording /\ in_fuzz /\ Returning.fn = shadow_name
       THEN /\ shadow_recurse' = (shadow_recurse + U32 - 1) % U32
            /\ IF shadow_recurse = 1 THEN st' = "exited" /\ why' = "return"
               ELSE UNCHANGED <<st, why>>
       ELSE UNCHANGED <<st, why, shadow_recurse>>
  /\ UNCHANGED <<conf, in_fuzz, shadow_name, fuzzIdx, currentCalls, timerSet, timer,
                 recorded, init_done, libraryCall, iter, fuzzCalls>>

(* __ah_library_function, in a program compiled with AH_INSTRUMENT_ALL. A  *)
(* child that is forked here has no other thread than this one.            *)
LibraryCall ==
  /\ st = "main" /\ libraryCall < MaxLibCalls
  /\ libraryCall' = libraryCall + 1
  /\ LET forks == conf.forkOnCallNr # 0 /\ conf.forkOnCallNr = libraryCall' /\ ~init_done
     IN  /\ init_done' = (init_done \/ forks)
         /\ timer' = IF forks THEN 0 ELSE timer
  /\ UNCHANGED <<conf, st, why, stack, in_fuzz, shadow_name, shadow_recurse, fuzzIdx,
                 currentCalls, timerSet, recorded, iter, fuzzCalls>>

(* pthread_handler, after its sleep.                                       *)
TimerFires ==
  /\ st = "main" /\ timer # 0
  /\ st' = "exited" /\ why' = "timer"
  /\ UNCHANGED <<conf, stack, in_fuzz, shadow_name, shadow_recurse, fuzzIdx,
                 currentCalls, timerSet, timer, recorded, init_done, libraryCall,
                 iter, fuzzCalls>>

(* main() returns; harnessMain has turned that into a jump to              *)
(* __ah_beforeLoop and the guard of the loop.                              *)
StaleBeforeLoop ==   \* faulty: the count of replaced calls is kept
  /\ in_fuzz' = FALSE /\ currentCalls' = 0
  /\ UNCHANGED fuzzIdx
BeforeLoop ==
  /\ in_fuzz' = FALSE /\ currentCalls' = 0 /\ fuzzIdx' = 0

MainReturns == st = "main" /\ stack = <<>>

(* A child stops itself, and the fork server continues it for the next     *)
(* test case.                                                              *)
Loop ==
  /\ MainReturns /\ conf.persistent /\ init_done /\ iter < MaxIter
  /\ BeforeLoop
  /\ iter' = iter + 1 /\ fuzzCalls' = 0
  /\ UNCHANGED <<conf, st, why, stack, shadow_name, shadow_recurse, timerSet, timer,
                 recorded, init_done, libraryCall>>

(* A process that has not come to start the fork server stops itself as    *)
(* well, with all its threads, and there is nobody to continue it.         *)
Stop ==
  /\ MainReturns /\ conf.persistent /\ ~init_done /\ iter < MaxIter
  /\ BeforeLoop
  /\ st' = "stopped"
  /\ UNCHANGED <<conf, why, stack, shadow_name, shadow_recurse, timerSet, timer,
                 recorded, init_done, libraryCall, iter, fuzzCalls>>

End ==
  /\ MainReturns /\ (conf.persistent => iter = MaxIter)
  /\ IF conf.persistent THEN BeforeLoop ELSE UNCHANGED <<in_fuzz, currentCalls, fuzzIdx>>
  /\ st' = "ended"
  /\ UNCHANGED <<conf, why, stack, shadow_name, shadow_recurse, timerSet, timer,
                 recorded, init_done, libraryCall, iter, fuzzCalls>>

Over == st # "main" /\ UNCHANGED vars

Next ==
  \/ \E f \in Fn : Call(f) \/ CallExits(f)
  \/ Return \/ LibraryCall \/ TimerFires \/ Loop \/ Stop \/ End \/ Over

Spec == Init /\ [][Next]_vars

(* The kernel lets a sleeping thread wake up.  Nothing is assumed of the   *)
(* host program, which may loop for ever.                                  *)
FairSpec == Spec /\ WF_vars(TimerFires)

-----------------------------------------------------------------------------
(* Every variable keeps to its type; the counters keep to their limits,    *)
(* also after thousands of calls in one process.                           *)
TypeOK ==
  /\ conf \in Config
  /\ st \in {"main", "exited", "stopped", "ended"}
  /\ why \in {"", "calls", "return", "timer"}
  /\ stack \in Seq(Frame) /\ Len(stack) <= MaxDepth
  /\ in_fuzz \in BOOLEAN /\ shadow_name \in Fn \cup {NoFn}
  /\ shadow_recurse \in 0 .. U32 - 1 /\ fuzzIdx \in Nat
  /\ currentCalls \in 0 .. conf.maxCalls + 1 /\ fuzzCalls \in Nat
  /\ iter \in 1 .. MaxIter /\ timer \in 0 .. iter /\ libraryCall \in 0 .. MaxLibCalls
  /\ timerSet \in BOOLEAN /\ recorded \subseteq Fn /\ init_done \in BOOLEAN

(* At most max_fuzz calls get their arguments from the test case in one    *)
(* iteration: what the next one starts with is a clean count, whatever     *)
(* the last one left behind.  The first call is not held to the limit, so  *)
(* that a max_fuzz of 0 means 1.                                           *)
FuzzBounded == fuzzIdx <= IF conf.maxFuzz = 0 THEN 1 ELSE conf.maxFuzz

(* Arguments are replaced only after the fork server has been started, so  *)
(* in a child that works on one test case, never in the server itself.     *)
(* With fork_on_call it is the user who says when, and may say it wrong.   *)
InputAfterFork == conf.forkOnCallNr = 0 /\ in_fuzz => init_done

(* With max_calls, that many target calls of any function follow the first *)
(* fuzzed one and no more: the process is ended by the call after them.    *)
(* That is one call later than "once this counter reaches max_calls"       *)
(* (README.md, max_calls), and what "the number of times any target        *)
(* function can be called" says two sentences before.                      *)
CallsBounded ==
  conf.exitOnMaxCalls =>
    fuzzCalls <= conf.maxCalls /\ (why = "calls" => fuzzCalls = conf.maxCalls)

(* Both limits hold in every iteration of the persistent loop, although    *)
(* their counters are raised at different points of gen_values.            *)
LimitsKept == FuzzBounded /\ CallsBounded

(* With exit_on_ret the process is ended exactly when a call whose         *)
(* arguments were replaced returns, and not by a recursive call of the     *)
(* same function or by a call of another one.  With force_recording it is  *)
(* not so: a function recorded meanwhile takes over shadow_name.           *)
ExitsAtTheReturn ==
  [][/\ conf.exitOnReturn /\ ~conf.recording /\ ~conf.userRecording
     /\ Len(stack') < Len(stack)
     => (st' = "exited" <=> Returning.fuzzed)]_vars

(* With max_millis a shadow execution ends, also when the host loops.      *)
(* With fork_on_call it need not: a timer started before the fork stays    *)
(* behind in the server, and timerSet keeps the child from starting one.   *)
ShadowEnds == conf.forkOnCallNr = 0 /\ conf.exitOnTimer /\ in_fuzz ~> st # "main"

(* What README.md says of max_millis, the time "that the shadow execution  *)
(* will be allowed to run for": the timer of one execution does not end    *)
(* another one.                                                            *)
OwnTimer == why = "timer" => timer = iter
=============================================================================
