# AFLLive in TLA+

AFLLive fuzzes functions of a program *in vivo*: a compiler pass instruments
target functions in a host program, a runtime library replaces the arguments of
a call by a test case, and a fork of AFL++ drives campaigns over all targets.
This directory models the parts that have state, order and concurrency, checks
them with TLC on small instances, and proves the safety properties with TLAPS
for every size, all but one (`RoundTrip`).

## The system

| part | source | here |
| --- | --- | --- |
| afl-fuzz: fork server protocol, parent side | `aflplusplus/src/afl-forkserver.c`, signal handler in `afl-fuzz-state.c` | `ForkServer`, `Executor` |
| runtime: fork server, persistent loop | `aflplusplus/instrumentation/afl-compiler-rt.o.c` | `ForkServer` |
| afl-fuzz: dry run, choice of targets and entries | `afl-fuzz-init.c`, `afl-fuzz-queue.c`, `afl-fuzz.c`, `afl-fuzz-one.c`, parts of `-run.c`, `-bitmap.c` | `TargetQueue`, `AliasTable` |
| runtime library: when arguments are recorded or replaced, and when the process is ended | `libgen/src/main.cc` | `ShadowExecution` |
| recording of the first seeds | `libgen/src/main.cc`, `libgen/src/types.cc`, `get_targets` and `get_seeds_from_runtime` in `afl-fuzz-init.c` | `SeedCollection` |
| harnessing pass: the shared typeinfo file | `instrumentation/src/pass.cc` | `TypeInfoFile` |
| harnessing pass: emitted calls | `instrumentation/src/Harnesser.cc` | their run time behaviour, in `ShadowExecution` |
| argument codec, constraints between arguments | `libgen/src/types.cc`, `ConstraintFactory.cc`, `Dependencies.cc`, `buff_utils.cc`, second half of `gen_values` | `Arguments`, `Dependencies` |
| afl-fuzz: exchange between instances, election of a main node | `sync_fuzzers` in `afl-fuzz-run.c`, `setup_dirs_fds` in `afl-fuzz-init.c` | `Sync` |
| test amplifier: recorder | `testamp/lib/src/main.c`, `testamp/pass/src/main.cc` | `TestRecorder` |
| test amplifier: campaigns | `testamp/setup_fuzzers.py` | `SetupFuzzers`, on top of `TestRecorder` |
| configuration generator (CodeQL), coverage scripts, artifacts, unchanged AFL++ (mutation engine, compilers, tools, other modes) | | not modelled |

How they meet: at build time every compiler adds its targets to the typeinfo
file (`TypeInfoFile`). afl-fuzz reads the targets from it, runs the program once
or more to record arguments (`SeedCollection`) and loads the results as seeds.
It then chooses a target and an entry (`TargetQueue`), restarts the fork server
when the target changes, and asks it to run test cases (`ForkServer`). Within a
child the runtime library decides at each call of a target whether to record,
replace or leave the arguments, and when to end the process
(`ShadowExecution`). What `TargetQueue` and `SeedCollection` take for granted of
a run, one verdict that is about this run, is `Executor`, which `ForkServer` is
shown to implement. Several afl-fuzz may run beside each other over one output
directory (`Sync`). The test amplifier is a layer above: the processes of a
test suite log the targets they enter (`TestRecorder`), and a script turns the
log into one campaign after another (`SetupFuzzers`).

## Modules

**Executor** is the abstract promise of `afl_fsrv_run_target`: a request is
followed by one verdict, OK and CRASH only for what the target did with this
request's test case. After an interruption a run may return 0 early.

**ForkServer** has three kinds of process. `ppc` is the place in
`afl_fsrv_start` / `afl_fsrv_run_target`, `spc` the place in `__afl_auto_init` /
`__afl_start_forkserver`, and `proc` the kernel's table of children, with the
run each works on (`input`) and its persistent cycles (`cycle_cnt`). `ctl` and
`st` are the two pipes. Messages are untagged on the wire; the `kind` field is
for the properties, no action looks at it. One action per blocking call: the
writes and reads of the handshake (the recording flag and the target's name are
AFLLive's additions), the timeouts of both reads, the kills, `waitpid`, SIGSTOP
and SIGCONT of persistent children, and SIGINT at any time. Not modelled: auto
dictionary and old protocol versions, snapshots, qemu, nyx.

**TargetQueue** is main() as a sequential program with free outcomes: the dry
run with its ways to drop a seed, `cull_queue`, the two kinds of alias table
and when they are rebuilt, the time slice per target in the first cycle, the
server restart at a change of target, and the bookkeeping of `fuzz_one`. The
coverage of an execution and positive weights are chosen freely; a table whose
weights are not numbers (an entry was never calibrated, or an average is 0)
yields any of its entries, disabled ones too (`Yield`). **AliasTable**
is the alias method itself, over whole-number weights with probabilities as
multiples of 1/sum; rounding is not modelled. **Iteration** has the loops that
carry a number along, as recursive functions: sums, powers, and the constraints
applied to a value one after another.

**ShadowExecution** is the runtime in one process, driven by any sequence of
calls, returns and library calls. The options of `AH_CONFIG` are a record
`conf` that never changes; the bodies of `gen_values`, `__ah_epilogue`,
`__ah_library_function`, `pthread_handler` and `__ah_beforeLoop` are actions. A
persistent process whose main() returns before the fork server was started
stops itself (`Stop`).

**Arguments** is what `gen_values` does to the arguments of one call, in two
processes: one records them, another replaces them from a test case that may be
the record or anything else. Both visit arguments in the order of
`visitInOrder`, the constant `Order`. **Dependencies** is that function, with
boost's depth-first search; the run sets `Order` to it, and so evaluates what
`Arguments` assumes of the order (`OrderAssumption`). Memory is a value per
argument (a pointer is NULL or the sequence of its elements), a byte is a digit
of a small base, and widths are the code's, so that truncation, signed
comparison and offsets are real. What lies behind the end of a test case is
`stale`, chosen freely. If constraints refer to each other in a circle, the
recording process leaves out the arguments that were not finished, and the
fuzzed child dies (`Cyclic`, `Crash`). Left out: floating point, struct padding,
and calls for which recording would read foreign memory, through a pointer or
through an address that another constraint has marked (`Readable`).

**SeedCollection** is the map shared by runtime and afl-fuzz, in cells: a name
and a length take one each, arguments any number. Cells keep whatever was
written there last, so that a stale length or name can be met. Data are
numbers, and may be taken for a length. Nothing in the code keeps the walk of
afl-fuzz inside the map: behind it, or where a name is taken for a length, it
blames or finds anything, or dies. `AH_BLACKLIST` is the set of names in it,
since it is only ever searched; `args` and `order` remember what was recorded
and where. The process records, fails to record (a file argument that cannot be
opened), crashes while recording or elsewhere, ends, or times out; afl-fuzz
blames, starts over, gives up or collects.

**TypeInfoFile** has one process per compiler, between which the file and the
lock file are shared. Opening for writing (which truncates) and writing are
separate steps; a compiler can be killed between any two. A target has one
argument, of a type without parts: nested types are numbered by the same two
functions and add nothing to the order in which compilers take turns.

**Sync** has one process per afl-fuzz instance. They share directories and
`is_main_node` files only; the scan of `sync_fuzzers` is split between the
`access()` on another's file and what is done about it. Instances start, end
(which removes the file), are killed (which does not) and start again, with or
without their old `.synced`. A queue is its file names: a prefix, which is the
target's name, and a number.

**TestRecorder** has one process per test. A record reaches the log in one
flush or in two, since a long one does not fit into the stream's buffer; the
first piece may end among the targets or only before the directory. A process
can be killed before, between and after them. A target is logged by its
signature, with a demangled name and, if it has no arguments, nothing behind it
(`Signature`). **SetupFuzzers** extends it by the script: `GetFuzzingCommands`
is the parser, stated by the position of records in the log, which also stand
for the commands. It finds a target in a signature by its name with a blank
behind it (`isTargetInSignature`), so C++ targets and those without arguments
are not found, and it looks for its markers in every line, so that the
environments of some tests (`misleading`, any set of them) cut a record in two.
A command that has lost its directory is `Maimed`. `Campaign` is one round of
the loop, with the exit status that `os.WEXITSTATUS` can return, which is 0
after any signal. `Offered` are the targets that afl-fuzz can record seeds of,
given how afl-fuzz (`:name:`) and the library (any substring) read the
blacklist; which of them it loses while recording is not asked by the script.
`spent` adds up the limits of successful campaigns. The configuration and the
budget (24 hours) are constants.

## Runs

| run | question | states |
| --- | --- | --- |
| `forkserver` | three servers for two targets, four runs, three cycles per child, a host program that may never start the server: pipes in step, target delivered, the test case not changed under a running child, no orphan, no signal or wait for a child in the wrong state, implements `Executor`, a start and a run return | 214 thousand |
| `targets` | three targets; a campaign from recorded seeds, and a resumed one with foreign imports: tables match the queue and have an entry that was not dropped, what is drawn is of the target whose turn it is, right server (without imports), no seed skipped, the first cycle ends after all had their turn | 588 thousand |
| `algorithms` | all weights 0..3 of up to 4 entries are drawn exactly in proportion; for 1270 signatures with up to two constraints each, recorded arguments come back as they were, and replaced ones satisfy what can be satisfied together | 763 thousand |
| `shadow_execution` | every combination of up to three options, seed recording, no known target: limits on replaced calls kept, exactly `max_calls` calls let through, input only after the server, `exit_on_ret` ends at the fuzzed call's return, an execution with a timer ends | 427 thousand |
| `seeds` | three functions, any user blacklist, failed recordings that lead the walk astray: a recorded function's seed is what it recorded, none is lost without a crash or another of the named reasons, the crashing function is blamed when all before it recorded, attempts end | 137 thousand |
| `typeinfo` | three compilers, two with a function of the same name, any of them killed: no torn read, first description stays, types are right, the build ends | 6 thousand |
| `testamp` | two tests with overlapping targets, one of which may be killed and any of which may have a misleading environment, and the campaigns made of their log: records whole, and read back as far as the script can recognise them; nothing offered to two successful campaigns or counted without having been offered; budget kept; both parts end, the campaigns not before every target is fuzzed or out of commands | 460 thousand |
| `sync` | a main node and two secondary ones, two of which end or are killed: files are true, a settled group stays so, temporary main nodes give way, one is elected when there is none, unless the file of a killed one is in the way | 222 thousand |

`algorithms` puts two unrelated algorithms into one state space; a behaviour is
one of the one or of the other.

Four more runs show where the code and its documentation, comments or messages
part:

- `targets_all_crash`: when no seed survives the dry run, `cycleTarget` loops
  for ever, and the message "We need at least one valid input seed that does
  not crash!" is never reached.
- `shadow_old_timer`: in persistent mode the timer of the first execution ends
  a later one, and later ones have none of their own.
- `seeds_corpus`: blacklisting a function decrements the number of targets but
  leaves the list as it is, so that the last target's seed is dropped.
- `sync_names`: files in a queue begin with the target's name, but
  `sync_fuzzers` looks for names that begin with `id:`, so that instances never
  run each other's test cases. (With a comparison that passes over the prefix,
  `Exchanged` holds.)

Every property of a passing run is known to be violated by a small change of
the model that a slip in the code would cause. These faulty definitions stand
before the definition they distort, marked as such.

**Bounds.** `MaxRuns`, `MaxStarts` and `MaxCnt` (1000 in the code) let a child
end its cycles, be continued and be replaced, and a server be restarted twice;
two process ids suffice for an old child beside a new one. The run is in
persistent mode, where children may also exit as they do in the other one; the
proofs cover both modes. Three targets are needed for "the next active one" to
differ from "the other one". A mode's `maxSeeds` and `MaxItems` allow two
entries of a target or one of each; `SkipMinItems` (10) and `U32` are lowered so
that skipping and wrap-around happen. `MaxDepth` 3 has recursion through another
target; `MaxIter` 2 has an iteration after another. `ArgCells` makes a failed or
crashed record longer than the entries that overwrite it, and `Data` has a
number that may pass for a length and one that leads out of the map. In
`Arguments` a byte has two values, so that truncation and signs show in small
numbers and every short test case can be tried. With two tests and `MaxKilled` 1
a record can lie behind a whole one and be torn; they overlap in a C and in a
C++ target, and one target's name is part of another's. A `Budget` of 2 seconds
cannot be divided among the three targets that are found without rounding.
`MaxStops` 2 lets a main node be killed and come back, and its successor end. In
the proofs the bounds are arbitrary numbers.

**Fairness.** `ForkServer`: afl-fuzz and the server get the CPU and select()
times out; nothing of the host program, the children or the user. `TargetQueue`:
afl-fuzz goes on, and the clock does too, so that a selection repeated for ever
finds the 60 seconds over (strong fairness of `SwitchTarget`).
`ShadowExecution`: the sleeping timer thread wakes up; nothing of the host.
`SeedCollection`: a run ends, by the executor's timeout if need be, and afl-fuzz
goes on. `TypeInfoFile`: each compiler goes on; getting the lock is only weakly
fair. `TestRecorder`: while some test can go on, one does, and each has finitely
many steps to go, killed tests none. `SetupFuzzers`: a campaign comes back,
since it runs under timeout(1); nothing of when the script is started. `Sync`: a
running instance scans again and again and a scan goes on; nothing of starts,
ends and kills.

## Proofs

`ForkServerProofs` proves, for any sets of processes and targets, any limits
and either mode: `TypeCorrect`, `InSync`, `TargetIsDelivered`, `InputIsStable`,
`NoneOrphaned`, `StoppedChildIsKnown`, and `Refinement` (`Spec => Exec!Spec`).
Assumed: `NoPid` is no pid, `NonExistent` no target's name, `Persistent` a
Boolean, the limits natural numbers. All rest on the inductive invariant `IInv`
in `ForkServerInv`. None of the properties is inductive by itself, because what
comes next on a pipe depends on where both sides are:

- `WireStart`, `WireLoop`: for each pair of places, what the pipes hold;
- `Control`: how the server's life and an interruption show in the state;
- `ChildTable`: for each place of the server, which children exist and in which
  state;
- `ChildKnown`: that `child_pid`, `last_run_timed_out` and `child_stopped`
  agree about the child. This is where the timeout races are settled: a child
  that stopped or exited just before the SIGKILL is a zombie that the next
  request tells the server to write off;
- `OneRunning`, `Outcome`: what the child did is what is reported.

There is one lemma per action of afl-fuzz, the server, the children and the
user, with one step per conjunct.

`TargetQueueProofs` proves, for any number of targets and entries: `Types`,
`SelectionIsSound`, `ServerIsRight`, `EveryTargetAttended` and
`SeedsGetTheirTurn`. Assumed: there are no more seeds than entries, and fewer
entries than a 32-bit counter can count. The properties are about what a
selection finds; the invariant is about what makes it find it, and has to hold
while the queue changes under it:

- `DryRunInv`: how far the dry run has come, what it has left untouched, and
  that every active target had a seed calibrated;
- `ActiveInv`: an active target keeps an entry that is not disabled, and the
  target whose turn it is is active, so that a selection finds something;
- `TableInv`: the tables hold the entries there were when they were built and
  yield no others, and a selection is made only when none was added since;
- `FavouredInv`: the recorded seeds stay favoured for the first cycle;
- `CurInv`, `TurnInv`: the current entry, the server's target and the targets
  that have had their turn agree with the place in main().

`SeedCollectionProofs` proves, for any typeinfo file, blacklist and lengths of
arguments: `Types`, `SeedsAreTheArguments` and `BlameIsRight`. Assumed:
`MAX_FILE` and `MAX_TARGETS` are positive, a name is part of itself and no
number, and data are numbers. The walk of afl-fuzz knows only lengths, so the
invariant says where the entries are (`ChainInv`), that each keeps its name,
length and arguments while others are written behind it (`EntryInv`), whose they
are (`NamesInv`), and that behind the last entry the cleared part of the map is
still clear unless a recording has failed (`LeftOverInv`). From there the walk
is followed by the least counterexample: it comes by every recorded entry before
it can go astray (`WalkFindsEntries`, `WalkKeepsToMap`), and without a failed
recording it meets nothing else that has a name. `SeedsAreRecorded` asks for a
seed of every target only if the file names at most `MAX_TARGETS` functions:
those beyond are no targets, but are recorded and take up entries of the walk.
It names the reasons for which a called target may still have none: nothing to
record, a failed recording, a name that is part of a blacklisted one.

`TypeInfoFileProofs` proves, for any number of compilers, targets and types and
any deaths: `LockExcludes`, `NeverTorn`, `TypesAreRight`, `FirstDescriptionStays`.
Assumed: `NoCompiler` is no compiler, modules and argument types are functions.
The invariant says that whoever is inside made the lock file (`Lock`), that a
copy about to be written extends what was there, and that the numbers a living
compiler remembers are right in what it will write (`Copy`). The latter needs
that other compilers only append types, which is why it is stated of the file
for compilers outside and of the copy for the one inside.

`ShadowExecutionProofs` proves, for every configuration, any number of targets
and any depth of calls: `TypesKept`, `LimitsAreKept`, `ServerComesFirst` and
`ExitIsAtTheReturn`. Assumed: the nesting counter's range exceeds the depth of
calls. For the bounds the invariant says that counters are clean outside of a
shadow execution and that the two counts of calls move together as long as the
process is not ended by them (`CountersInv`). For exit_on_ret it says which
active call is being shadowed (`Shadows`): the last fuzzed one on the stack,
with `shadow_recurse` equal to the number of calls of its function from there on
(`NestingInv`); the epilogue then finds 1 exactly in that call (`TopShadow`).

`SyncProofs` proves, for any set of instances: `TypesKept`, `FilesAreTrue` and
`SettledStays`. The invariant adds that a running instance has its directory
and that no scan looks at its own. `Settled` is itself the strengthening of
"there is one main node": it says of every scan in progress that it has synced
or will still come to that node, without which a scan that passed before would
elect a second one.

`TestampProofs` proves, for any number of tests, deaths, targets, commands and
any budget: `RecordsAreWhole` of the recorder, and of recorder and script together
`Types`, `LogIsReadBack`, `NothingTwice`, `BlacklistIsDeserved` and
`BudgetIsKept`. Assumed: the set of targets is finite, `NoTarget` is none of
them, a name is not part of itself in `PartOf`, the budget positive. For
the recorder, whoever writes made the lock file, and the last flush of the log
is the beginning of a record only while its process holds the lock
(`RecorderInv`). The script reads the log once no test writes any more, so that
what it collected stays true of the log (`CommandsInv`). A record that does not
mislead and is not the torn one then consists of one flush or of two in a row by
the same process (`Places`), which gives its one command line, its one directory
and the targets among its signatures that are recognised. `BlacklistInv` ties the
targets offered to successful campaigns to those counted as fuzzed; commands
without a directory are excepted, as in the properties. Every limit is rounded
up, so the budget is kept only up to a second for each campaign; the invariant
is the sum before rounding is divided out (`BudgetInv`): with n targets to share
the budget, n times the time spent is at most the budget times the targets
fuzzed, plus n - 1 for each campaign.

`AlgorithmProofs` proves of `AliasTable`, for any number of entries and any
weights, `TableIsProportional`. Assumed: the bounds are natural numbers. The
property is about the finished table only. The invariant (`TableInv`) says at
every moment that what the filled slots lead to plus what is left of an entry
is its weight (`SharesInv`), that what is left of all unfinished entries is just
enough for their slots (`Balanced`), and that the stacks hold these entries,
each once and on its side of 1 (`StacksInv`). `Balanced` is why the entries that
remain on one stack when the other is empty are exactly 1, so that filling their
slots alone gives nothing away. The invariant speaks of sums over all slots;
the lemmas about sums (changing one or two terms changes the sum by as much, a
sum of terms without sign is zero only if all are) are proved from the recursive
function by its least counterexample.

Of `Arguments` it proves, for any types, signatures, calls and test cases,
`ArgumentsAreConstrained`. Assumed: a byte has an even number of values;
integers have 1, 2, 4 or 8 bytes; constraints are on integers and pointers, and
a right-hand side that is an argument is an integer not narrower than what it is
compared with (`TargetAssumption`); calls have arguments of their types
(`CallAssumption`); and the order has no argument twice and each behind those
its constraints refer to (`OrderAssumption`, the contract of
`boost::topological_sort`, which is not under `src/`). The argument has two
halves. One value: coercions are applied once each, one after another, and a
later one could undo an earlier one. It does not if they compare alike and some
value satisfies them all, since each then moves the value to a bound that is
within all the others (`CoercionKeeps`, `AllAreSatisfied`). Constraints some of
which are signed (not `CompareAlike`), or some of which are on the elements (not
`Unmixed`), are excepted. Many arguments: a visit may change what the
constraints of another argument are compared with. `ArgumentsInv` says that all
arguments visited so far satisfy their constraints in memory as it is now; it is
kept because the argument visited next is not referred to by any of them
(`LaterIsIndependent`). A call is reached only without a cycle, when the order
has every argument.

Before it was proved, each inductive invariant was checked with TLC on the
instance of the component's run; those of the two algorithms, which are slow to
evaluate, on a part of it: tables of at most three entries, and signatures of two
arguments with at most one constraint.

Only model-checked: liveness under fairness, which is out of the prover's reach
(`Returns`, `FirstCycleEnds`, `ShadowEnds`, `AttemptsEnd`, `BuildEnds`,
`SuiteEnds`, `CampaignsEnd`, `GivesWay`, `MainElected`); and `RoundTrip`, which
says that one recursion over a nested type undoes another one, and would need an
induction over types.

## Observations without a run

- After `cull_queue` has made fuzzed seeds fresh again, `pending_not_fuzzed`
  wraps around.
- With a single active target the first cycle does not end.
- A seed with no coverage keeps its entry while its target is not active.
- When an entry of an alias table was never calibrated, or an average is 0, all
  probabilities are NaN (`afl-fuzz-queue.c:237`), and disabled entries are drawn
  like any others.
- With `max_fuzz` 0 one call is fuzzed all the same. `README.md:468` can be read
  both ways about `max_calls`: that many calls are let through, and it is the
  next one that ends the process.
- A persistent process that returns from main() without having started the fork
  server stops itself for good.
- With `fork_on_call` a timer started before the fork is missing in the child;
  with `force_recording` a function recorded meanwhile takes over the name at
  whose return the process is ended.
- SIGINT between the fork of a child and the read of its pid leaves the child
  running.
- A function without recorded arguments has length zero in the map, and is
  blamed for a crash of another's recording.
- Data that a failed recording left behind the last entry may be read as a
  length, and nothing keeps the walk from the end of the map
  (`afl-fuzz-init.c:763`, `811`), which is not cleared between attempts
  (`memset` goes by the number of targets left).
- The library looks for a bare name anywhere in `AH_BLACKLIST`
  (`libgen/src/main.cc:262`): a target whose name is part of a blacklisted one
  is never recorded, though `README.md:354` has names delimited by colons.
- A compiler that dies inside leaves the lock file, and the others wait.
- The restart of the server is decided by comparing two consecutive entries'
  targets. With `-F` an import in between has restarted it for another target,
  and the next entry runs on the wrong server; `RightServer` is stated without
  `-F`.
- Arguments: `getBuffEight` returns 32 bits, so that a 64-bit integer loses its
  upper half; a buffer of integers is copied past the end of the test case;
  `deref` makes of any buffer one element; `deref` on a char pointer or on NULL,
  a string longer than its `le` bound and an `is_file` argument that is not
  visited last are recorded in another form than they are read; a pointer as
  right-hand side is compared by its address. When constraints on the length
  and on the elements meet in one pointer, all of them are applied to a single
  element (`libgen/src/main.cc:359-363`), where `README.md:433` has the one fix
  the length and the other every element; a `rec` constraint behind a marked
  address reads from that (`main.cc:352`). `README.md:393` makes the user
  responsible for there being no circular dependency: with one, the fuzzed child
  dies at `Dependencies.cc:27`.
- Test amplifier: a test killed while it holds the lock stops all later ones
  from ending, and so does an `open()` that fails for another reason. The
  killed test's torn record becomes a command without a command line, or only
  without its directory, and may "succeed" without fuzzing. C++ targets and
  targets without arguments never arrive from the log. A marker such as
  `FUNCTIONS:` in an environment cuts the record in two. A campaign ended by a
  signal counts as successful, and targets that afl-fuzz lost while recording
  seeds count as fuzzed, as may a target whose name is part of a fuzzed one's.
  `cmd_bl` is reset in every round and has no effect (a command is removed
  anyway).
- Synchronisation: without `-M` two temporary main nodes may step down
  together, again and again. A killed main node leaves its file; the others go
  on syncing from its directory and elect nobody, though
  `aflplusplus/docs/Changelog.md:510-511` promises a temporary main node whenever there is
  none.

## Not modelled

- *The mutation engine, cmplog, custom mutators, trimming, coverage bitmaps,
  statistics* of AFL++: unchanged code over the bytes of a test case, without
  an order of events to get wrong; a mutation is a free choice here.
- *Compiler wrappers, coverage passes, tools, other modes* (qemu, frida, nyx,
  unicorn, coresight): unchanged, and take no part in a campaign of AFLLive.
- *Vendored code*: libradamsa, three copies of `json.hpp`, hashes and
  allocators. With the two items above this is nearly all of the repository by
  lines; AFLLive's own code is under three thousand lines beside its changes to
  afl-fuzz, and the part of it with state or order is modelled.
- *LLVM IR emitted by the passes*: LLVM defines what it means; the calls that
  are put in are actions.
- *Configuration generator, coverage scripts, artifacts*: no state, or steps of
  an evaluation.
- *`TargetQueue` over `ForkServer` as one state space*: too large; `Executor`
  is the interface between them, and is proved.
