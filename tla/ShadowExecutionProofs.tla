----------------------- MODULE ShadowExecutionProofs -----------------------
(* Proofs about ShadowExecution, for every configuration, any number of    *)
(* functions and any depth of calls.                                       *)
EXTENDS ShadowExecution, FiniteSetTheorems, TLAPS

(* Unless a step says otherwise: Zenon for a moment, SMT, Zenon.           *)
USE ZenonT(2), SMTT(30), ZenonT(30)

(* The calls of shadow_name from the l-th active one on.                   *)
Nested(l) == {k \in l .. Len(stack) : stack[k].fn = shadow_name}

(* The l-th active call is the last one whose arguments were replaced, and *)
(* shadow_recurse counts the calls of its function since.                  *)
Shadows(l) ==
  /\ stack[l].fuzzed /\ stack[l].fn = shadow_name
  /\ \A k \in DOMAIN stack : k > l => ~stack[k].fuzzed
  /\ shadow_recurse = Cardinality(Nested(l))

Watched == conf.exitOnReturn /\ ~conf.recording /\ ~conf.userRecording

(* What exit_on_ret goes by.                                               *)
NestingInv ==
  Watched /\ st = "main" =>
    /\ ~in_fuzz => \A k \in DOMAIN stack : ~stack[k].fuzzed
    /\ in_fuzz => \E l \in DOMAIN stack : Shadows(l)

(* What the bounds go by: the counters are clean outside of a shadow       *)
(* execution, the process ends before its count passes max_calls, and      *)
(* fork_on_init has started the server before anything else.               *)
CountersInv ==
  /\ ~in_fuzz => fuzzIdx = 0
  /\ st = "main" => currentCalls <= conf.maxCalls
  /\ ~conf.exitOnMaxCalls => currentCalls = 0
  /\ conf.exitOnMaxCalls => fuzzCalls <= conf.maxCalls
  /\ conf.exitOnMaxCalls /\ st = "main" => fuzzCalls = currentCalls
  /\ why = "calls" => st = "exited"
  /\ conf.forkOnInit => init_done

Bounds == FuzzBounded /\ InputAfterFork /\ CallsBounded

IInv == TypeOK /\ CountersInv /\ Bounds /\ NestingInv

(* The types, apart: those of the counters and the rest.                   *)
Counters ==
  /\ stack \in Seq(Frame) /\ Len(stack) <= MaxDepth
  /\ shadow_recurse \in 0 .. U32 - 1 /\ fuzzIdx \in Nat
  /\ currentCalls \in 0 .. conf.maxCalls + 1 /\ fuzzCalls \in Nat
  /\ iter \in 1 .. MaxIter /\ timer \in 0 .. iter /\ libraryCall \in 0 .. MaxLibCalls
Flags ==
  /\ conf \in Config
  /\ st \in {"main", "exited", "stopped", "ended"} /\ why \in {"", "calls", "return", "timer"}
  /\ in_fuzz \in BOOLEAN /\ shadow_name \in Fn \cup {NoFn}
  /\ timerSet \in BOOLEAN /\ recorded \subseteq Fn /\ init_done \in BOOLEAN

(* Together they are TypeOK.                                               *)
LEMMA Types == (TypeOK <=> Counters /\ Flags) /\ (TypeOK' <=> Counters' /\ Flags')
BY ZenonT(30) DEF TypeOK, Counters, Flags

(* The types of the fields of a configuration that the proofs use.         *)
LEMMA ConfigTypes ==
  ASSUME conf \in Config
  PROVE  /\ conf.maxCalls \in Nat /\ conf.maxFuzz \in Nat
         /\ conf.forkOnCallNr \in Nat
BY DEF Config

(* gen_init leaves the invariant true.                                     *)
LEMMA InitInv == Init => IInv
<1> SUFFICES ASSUME Init PROVE IInv
  OBVIOUS
<1>1. conf \in Config
  BY ConfigsAssumption DEF Init
<1>2. /\ stack = <<>> /\ shadow_recurse = 0 /\ fuzzIdx = 0 /\ currentCalls = 0
      /\ timer = 0 /\ libraryCall = 0 /\ iter = 1 /\ fuzzCalls = 0
      /\ ~in_fuzz /\ (conf.forkOnInit => init_done)
  BY ZenonT(30) DEF Init
<1>7. why # "calls"
  BY DEF Init
<1>3. Counters
  BY <1>1, <1>2, ConfigTypes, BoundsAssumption DEF Counters
<1>4. Flags
  BY <1>1 DEF Init, Flags
<1>5. CountersInv /\ Bounds
  BY <1>1, <1>2, <1>7, ConfigTypes
     DEF CountersInv, Bounds, FuzzBounded, InputAfterFork, CallsBounded
<1>6. NestingInv
  BY <1>2 DEF NestingInv
<1> QED
  BY <1>3, <1>4, <1>5, <1>6, Types DEF IInv

(* Steps other than a call and a return keep the invariant.                *)
LEMMA OtherInv ==
  ASSUME IInv,
         LibraryCall \/ TimerFires \/ Loop \/ Stop \/ End \/ UNCHANGED vars
           \/ \E f \in Fn : CallExits(f)
  PROVE  IInv'
<1>0. /\ Counters /\ Flags /\ CountersInv /\ Bounds /\ NestingInv
      /\ conf.maxCalls \in Nat /\ conf.maxFuzz \in Nat
  BY Types, ConfigTypes DEF IInv, Flags
<1>1. CASE LibraryCall
  <2>1. /\ libraryCall < MaxLibCalls /\ libraryCall' = libraryCall + 1
        /\ timer' = 0 \/ timer' = timer
        /\ UNCHANGED <<conf, stack, shadow_recurse, fuzzIdx, currentCalls, iter, fuzzCalls>>
    BY <1>1, ZenonT(30) DEF LibraryCall
  <2>2. Counters'
    BY <1>0, <2>1, BoundsAssumption DEF Counters
  <2>3. Flags'
    BY <1>0, <1>1 DEF LibraryCall, Flags
  <2>4. (CountersInv /\ Bounds)'
    BY <1>0, <1>1 DEF LibraryCall, CountersInv, Bounds, FuzzBounded, InputAfterFork,
                      CallsBounded
  <2>5. NestingInv'
    BY <1>0, <1>1 DEF LibraryCall, NestingInv, Shadows, Nested, Watched
  <2> QED
    BY <2>2, <2>3, <2>4, <2>5, Types DEF IInv
<1>2. CASE TimerFires \/ Stop \/ End
  <2>1. /\ UNCHANGED <<conf, stack, shadow_name, shadow_recurse, timerSet, timer,
                       recorded, init_done, libraryCall, iter, fuzzCalls>>
        /\ \/ UNCHANGED <<in_fuzz, currentCalls, fuzzIdx>>
           \/ in_fuzz' = FALSE /\ currentCalls' = 0 /\ fuzzIdx' = 0
        /\ st = "main" /\ st' \in {"exited", "stopped", "ended"} /\ why' \in {why, "timer"}
        /\ st' # "main" /\ "timer" # "calls" /\ "exited" # "main"
    BY <1>2 DEF TimerFires, Stop, End, MainReturns, BeforeLoop
  <2>2. Counters'
    BY <1>0, <2>1 DEF Counters
  <2>3. Flags'
    BY <1>0, <2>1 DEF Flags
  <2>6. why # "calls" /\ why' # "calls"
    BY <1>0, <2>1, ZenonT(30) DEF CountersInv
  <2>4. (CountersInv /\ Bounds)'
    BY <1>0, <2>1, <2>6
       DEF CountersInv, Counters, Bounds, FuzzBounded, InputAfterFork, CallsBounded
  <2>5. NestingInv'
    BY <2>1 DEF NestingInv
  <2> QED
    BY <2>2, <2>3, <2>4, <2>5, Types DEF IInv
<1>3. CASE Loop
  <2>1. /\ stack = <<>> /\ iter < MaxIter /\ iter' = iter + 1 /\ fuzzCalls' = 0
        /\ ~in_fuzz' /\ currentCalls' = 0 /\ fuzzIdx' = 0 /\ st = "main"
        /\ UNCHANGED <<conf, st, why, stack, shadow_recurse, timer, init_done, libraryCall>>
    BY <1>3, ZenonT(30) DEF Loop, MainReturns, BeforeLoop
  <2>2. Counters'
    BY <1>0, <2>1, BoundsAssumption DEF Counters
  <2>3. Flags'
    BY <1>0, <1>3 DEF Loop, BeforeLoop, Flags
  <2>6. why # "calls"
    BY <1>0, <2>1 DEF CountersInv
  <2>4. (CountersInv /\ Bounds)'
    BY <1>0, <2>1, <2>6 DEF CountersInv, Bounds, FuzzBounded, InputAfterFork, CallsBounded
  <2>5. NestingInv'
    BY <2>1 DEF NestingInv
  <2> QED
    BY <2>2, <2>3, <2>4, <2>5, Types DEF IInv
<1>4. ASSUME NEW f \in Fn, CallExits(f) PROVE IInv'
  <2>1. /\ conf.exitOnMaxCalls /\ st = "main" /\ currentCalls >= conf.maxCalls
        /\ currentCalls' = currentCalls + 1 /\ st' = "exited" /\ st' # "main"
        /\ UNCHANGED <<conf, stack, shadow_recurse, in_fuzz, fuzzIdx, timer, init_done,
                       libraryCall, iter, fuzzCalls>>
    BY <1>4, ZenonT(30) DEF CallExits, TooManyCalls
  <2>2. currentCalls = conf.maxCalls /\ fuzzCalls = conf.maxCalls
    BY <1>0, <2>1 DEF CountersInv, Counters
  <2>3. Counters'
    BY <1>0, <2>1, <2>2 DEF Counters
  <2>4. Flags'
    BY <1>0, <1>4 DEF CallExits, Flags
  <2>5. (CountersInv /\ Bounds)'
    BY <1>0, <2>1, <2>2 DEF CountersInv, Counters, Bounds, FuzzBounded, InputAfterFork,
                            CallsBounded
  <2>6. NestingInv'
    BY <2>1 DEF NestingInv
  <2> QED
    BY <2>3, <2>4, <2>5, <2>6, Types DEF IInv
<1>5. CASE UNCHANGED vars
  <2>1. Counters' /\ Flags'
    BY <1>0, <1>5 DEF vars, Counters, Flags
  <2>2. (CountersInv /\ Bounds)'
    BY <1>0, <1>5 DEF vars, CountersInv, Bounds, FuzzBounded, InputAfterFork, CallsBounded
  <2>3. NestingInv'
    BY <1>0, <1>5 DEF vars, NestingInv, Shadows, Nested, Watched
  <2> QED
    BY <2>1, <2>2, <2>3, Types DEF IInv
<1> QED
  BY <1>1, <1>2, <1>3, <1>4, <1>5

(* A call keeps the counters within their types.                           *)
LEMMA CallCounters ==
  ASSUME IInv, NEW f \in Fn, Call(f)
  PROVE  Counters' /\ CountersInv' /\ Bounds'
<1>0. /\ Counters /\ Flags /\ CountersInv /\ Bounds /\ conf \in Config
      /\ conf.maxCalls \in Nat /\ conf.maxFuzz \in Nat
  BY Types, ConfigTypes DEF IInv, Flags
<1>1. /\ st = "main" /\ Len(stack) < MaxDepth
      /\ currentCalls' \in {currentCalls, currentCalls + 1}
      /\ currentCalls' # currentCalls =>
           in_fuzz /\ conf.exitOnMaxCalls /\ ~(currentCalls >= conf.maxCalls)
      /\ in_fuzz /\ conf.exitOnMaxCalls => currentCalls' = currentCalls + 1
      /\ fuzzCalls' \in {fuzzCalls, fuzzCalls + 1}
      /\ fuzzCalls' # fuzzCalls => in_fuzz
      /\ in_fuzz /\ fuzzCalls <= conf.maxCalls => fuzzCalls' = fuzzCalls + 1
      /\ ~in_fuzz => fuzzCalls' = fuzzCalls /\ currentCalls' = currentCalls
      /\ why' = why /\ why # "calls"
  BY <1>0, ZenonT(30) DEF Call, Counted, TooManyCalls, CountersInv
<1>2. /\ stack' = Append(stack, [fn |-> f, fuzzed |-> ShouldFuzz(f)])
      /\ timer' \in {iter, timer} /\ UNCHANGED <<conf, st, libraryCall, iter>>
      /\ shadow_recurse' \in {1, (shadow_recurse + 1) % U32, (shadow_recurse + 0) % U32}
      /\ fuzzIdx' \in {fuzzIdx, fuzzIdx + 1}
      /\ fuzzIdx' # fuzzIdx => in_fuzz' /\ (~in_fuzz \/ fuzzIdx < conf.maxFuzz)
      /\ ~in_fuzz' => ~in_fuzz /\ fuzzIdx' = fuzzIdx
  BY <1>0, ZenonT(30) DEF Call, Nesting, ShouldFuzz
<1>3. ShouldFuzz(f) \in BOOLEAN
  BY ZenonT(30) DEF ShouldFuzz
<1>4. stack' \in Seq(Frame) /\ Len(stack') = Len(stack) + 1
  BY <1>0, <1>2, <1>3 DEF Counters, Frame
<1>5. shadow_recurse' \in 0 .. U32 - 1
  BY <1>0, <1>2, BoundsAssumption DEF Counters
<1>6. currentCalls' <= conf.maxCalls
  BY <1>0, <1>1 DEF CountersInv, Counters
<1>7. Counters'
  <2>1. currentCalls' \in 0 .. conf.maxCalls + 1
    BY <1>0, <1>1, <1>6 DEF Counters
  <2>3. fuzzCalls' \in Nat /\ fuzzIdx' \in Nat
    BY <1>0, <1>1, <1>2 DEF Counters
  <2>2. timer' \in 0 .. iter /\ Len(stack') <= MaxDepth
    BY <1>0, <1>1, <1>2, <1>4, BoundsAssumption DEF Counters
  <2> QED
    BY <1>0, <1>2, <1>4, <1>5, <2>1, <2>2, <2>3, ZenonT(40) DEF Counters
<1>8. conf.forkOnInit => init_done'
  BY <1>0, ZenonT(40) DEF Call, CountersInv
<1>9. conf.forkOnCallNr = 0 /\ in_fuzz' => init_done'
  BY <1>0, ZenonT(40) DEF Call, StartsServer, Bounds, InputAfterFork, CountersInv
<1>12. conf.exitOnMaxCalls => fuzzCalls' = currentCalls' /\ fuzzCalls' <= conf.maxCalls
  BY <1>0, <1>1, <1>6 DEF CountersInv, Counters
<1>10. CountersInv'
  BY <1>0, <1>1, <1>2, <1>6, <1>8, <1>12 DEF CountersInv, Counters
<1>11. Bounds'
  <2>1. fuzzIdx' <= IF conf.maxFuzz = 0 THEN 1 ELSE conf.maxFuzz
    BY <1>0, <1>2 DEF Bounds, FuzzBounded, CountersInv, Counters
  <2> QED
    BY <1>1, <1>2, <1>9, <1>12, <2>1 DEF Bounds, FuzzBounded, InputAfterFork, CallsBounded
<1> QED
  BY <1>7, <1>10, <1>11

(* A call keeps what exit_on_ret goes by.                                  *)
LEMMA CallNesting ==
  ASSUME IInv, NEW f \in Fn, Call(f)
  PROVE  NestingInv'
<1> SUFFICES ASSUME Watched, st = "main"
             PROVE  /\ ~in_fuzz' => \A k \in DOMAIN stack' : ~stack'[k].fuzzed
                    /\ in_fuzz' => \E l \in DOMAIN stack' : Shadows(l)'
  BY ZenonT(30) DEF Call, NestingInv, Watched
<1>0. /\ Counters /\ NestingInv /\ Len(stack) \in Nat /\ stack \in Seq(Frame)
      /\ U32 \in Nat /\ U32 > MaxDepth /\ MaxDepth \in Nat
  BY Types, BoundsAssumption DEF IInv, Counters
<1>1. ~ShouldRecord(f) /\ ShouldFuzz(f) \in BOOLEAN
  BY ZenonT(30) DEF ShouldRecord, Watched, ShouldFuzz
<1>2. /\ stack' = Append(stack, [fn |-> f, fuzzed |-> ShouldFuzz(f)])
      /\ Len(stack) < MaxDepth
      /\ ShouldFuzz(f) => in_fuzz' /\ shadow_name' = f /\ shadow_recurse' = 1
      /\ ~ShouldFuzz(f) => /\ in_fuzz' <=> in_fuzz
                           /\ shadow_name' = shadow_name
                           /\ shadow_recurse' = (shadow_recurse + Nesting(f)) % U32
  BY <1>1, ZenonT(30) DEF Call
<1> PICK n \in Nat : n = Len(stack) + 1
  BY <1>0
<1>3. /\ DOMAIN stack' = 1 .. n /\ Len(stack') = n /\ n \in Nat /\ DOMAIN stack = 1 .. n - 1
      /\ \A k \in 1 .. n - 1 : stack'[k] = stack[k]
      /\ stack'[n].fn = f /\ stack'[n].fuzzed = ShouldFuzz(f)
  BY <1>0, <1>1, <1>2 DEF Frame
<1>4. CASE ShouldFuzz(f)
  <2>1. Nested(n)' = {n}
    BY <1>2, <1>3, <1>4 DEF Nested
  <2>2. Shadows(n)'
    <3>1. stack'[n].fuzzed /\ stack'[n].fn = shadow_name' /\ shadow_recurse' = 1
      BY <1>2, <1>3, <1>4, ZenonT(40)
    <3>2. \A k \in DOMAIN stack' : k > n => ~stack'[k].fuzzed
      BY <1>3
    <3>3. Cardinality(Nested(n)') = 1
      BY <2>1, FS_Singleton, ZenonT(40)
    <3> QED
      BY <3>1, <3>2, <3>3, ZenonT(40) DEF Shadows
  <2> QED
    BY <1>2, <1>3, <1>4, <2>2
<1>5. CASE ~ShouldFuzz(f) /\ ~in_fuzz
  BY <1>0, <1>2, <1>3, <1>5 DEF NestingInv
<1>6. CASE ~ShouldFuzz(f) /\ in_fuzz
  <2>1. PICK l \in DOMAIN stack : Shadows(l)
    BY <1>0, <1>6 DEF NestingInv
  <2>2. Nested(l) \subseteq 1 .. n - 1 /\ n \notin Nested(l)
    BY <1>3, <2>1 DEF Nested
  <2>3. IsFiniteSet(Nested(l)) /\ Cardinality(Nested(l)) \in Nat
        /\ Cardinality(Nested(l)) <= n - 1
    <3>1. IsFiniteSet(1 .. n - 1) /\ Cardinality(1 .. n - 1) = n - 1
      <4>1. 1 \in Int /\ n - 1 \in Int /\ n >= 1
        BY <1>0
      <4>2. IsFiniteSet(1 .. n - 1)
            /\ Cardinality(1 .. n - 1) = IF 1 > n - 1 THEN 0 ELSE (n - 1) - 1 + 1
        BY <4>1, FS_Interval, ZenonT(40)
      <4> QED
        BY <4>1, <4>2
    <3> QED
      BY <2>2, <3>1, FS_Subset, FS_CardinalityType
  <2>4. Nested(l)' = IF f = shadow_name THEN Nested(l) \cup {n} ELSE Nested(l)
    BY <1>2, <1>3, <1>6, <2>1 DEF Nested
  <2>5. Cardinality(Nested(l)') = Cardinality(Nested(l)) + (IF f = shadow_name THEN 1 ELSE 0)
    <3>1. Cardinality(Nested(l) \cup {n}) = Cardinality(Nested(l)) + 1
      BY <2>2, <2>3, FS_AddElement, ZenonT(40)
    <3> QED
      BY <2>3, <2>4, <3>1
  <2>8. shadow_recurse = Cardinality(Nested(l))
    BY <2>1 DEF Shadows
  <2>9. shadow_recurse' = (shadow_recurse + (IF f = shadow_name THEN 1 ELSE 0)) % U32
    BY <1>2, <1>6, ZenonT(40) DEF Nesting
  <2>6. shadow_recurse' = Cardinality(Nested(l)')
    <3>1. PICK c \in Nat : c = Cardinality(Nested(l)) /\ c <= n - 1
      BY <2>3
    <3>2. c < U32 /\ c + 1 < U32
      BY <1>0, <1>2, <3>1
    <3>3. c % U32 = c /\ (c + 1) % U32 = c + 1 /\ (c + 0) % U32 = c /\ c + 0 = c
      BY <1>0, <3>2
    <3> QED
      BY <2>5, <2>8, <2>9, <3>1, <3>3
  <2>7. Shadows(l)'
    BY <1>2, <1>3, <1>6, <2>1, <2>6 DEF Shadows
  <2> QED
    BY <1>2, <1>3, <1>6, <2>1, <2>7
<1> QED
  BY <1>1, <1>4, <1>5, <1>6

(* The stack without its top.                                              *)
LEMMA Pop ==
  ASSUME Counters, stack # <<>>
  PROVE  /\ Len(stack) \in Nat /\ Len(stack) >= 1 /\ DOMAIN stack = 1 .. Len(stack)
         /\ Returning = stack[Len(stack)]
         /\ SubSeq(stack, 1, Len(stack) - 1) \in Seq(Frame)
         /\ Len(SubSeq(stack, 1, Len(stack) - 1)) = Len(stack) - 1
         /\ DOMAIN SubSeq(stack, 1, Len(stack) - 1) = 1 .. Len(stack) - 1
         /\ \A k \in 1 .. Len(stack) - 1 : SubSeq(stack, 1, Len(stack) - 1)[k] = stack[k]
<1>1. stack \in Seq(Frame) /\ Len(stack) \in Nat /\ DOMAIN stack = 1 .. Len(stack)
  BY DEF Counters
<1>2. Len(stack) >= 1
  BY <1>1
<1>3. /\ SubSeq(stack, 1, Len(stack) - 1) \in Seq(Frame)
      /\ Len(SubSeq(stack, 1, Len(stack) - 1)) = Len(stack) - 1
      /\ \A k \in 1 .. Len(stack) - 1 : SubSeq(stack, 1, Len(stack) - 1)[k] = stack[k]
  BY <1>1, <1>2
<1> QED
  BY <1>1, <1>2, <1>3 DEF Returning

(* The calls counted by shadow_recurse are finitely many.                  *)
LEMMA NestedFinite ==
  ASSUME Counters, NEW l \in DOMAIN stack
  PROVE  IsFiniteSet(Nested(l)) /\ Cardinality(Nested(l)) \in Nat
<1>1. l \in Int /\ Len(stack) \in Int
  BY DEF Counters
<1>2. IsFiniteSet(l .. Len(stack))
  BY <1>1, FS_Interval, ZenonT(40)
<1>3. Nested(l) \subseteq l .. Len(stack)
  BY ZenonT(30) DEF Nested
<1> QED
  BY <1>2, <1>3, FS_Subset, FS_CardinalityType, ZenonT(40)

(* The epilogue finds the count at one exactly in the call whose arguments *)
(* were replaced last.                                                     *)
LEMMA TopShadow ==
  ASSUME IInv, Watched, st = "main", stack # <<>>
  PROVE  in_fuzz /\ Returning.fn = shadow_name /\ shadow_recurse = 1 <=> Returning.fuzzed
<1>0. Counters /\ NestingInv
  BY Types DEF IInv
<1> PICK t \in Nat : t = Len(stack) /\ t >= 1
  BY <1>0, Pop
<1>1. DOMAIN stack = 1 .. t /\ Returning = stack[t] /\ t \in DOMAIN stack
  BY <1>0, Pop
<1>2. CASE ~in_fuzz
  BY <1>0, <1>1, <1>2, ZenonT(40) DEF NestingInv
<1>3. CASE in_fuzz
  <2>1. PICK l \in DOMAIN stack : Shadows(l)
    BY <1>0, <1>3, ZenonT(40) DEF NestingInv
  <2>2. stack[l].fuzzed /\ stack[l].fn = shadow_name /\ shadow_recurse = Cardinality(Nested(l))
    BY <2>1, ZenonT(40) DEF Shadows
  <2>3. l \in Nested(l) /\ IsFiniteSet(Nested(l))
    BY <1>0, <1>1, <2>2, NestedFinite DEF Nested
  <2>4. CASE l = t
    <3>1. Nested(l) = {t}
      BY <1>1, <2>2, <2>4 DEF Nested
    <3> QED
      BY <1>1, <1>3, <2>2, <2>4, <3>1, FS_Singleton, ZenonT(40)
  <2>5. CASE l # t
    <3>1. ~stack[t].fuzzed
      BY <1>1, <2>1, <2>5 DEF Shadows
    <3>2. ASSUME stack[t].fn = shadow_name, shadow_recurse = 1 PROVE FALSE
      <4>1. t \in Nested(l)
        BY <1>1, <3>2 DEF Nested
      <4>2. \E x : Nested(l) = {x}
        BY <2>2, <2>3, <3>2, FS_Singleton, ZenonT(40)
      <4> QED
        BY <2>3, <2>5, <4>1, <4>2, ZenonT(40)
    <3> QED
      BY <1>1, <3>1, <3>2, ZenonT(40)
  <2> QED
    BY <2>4, <2>5
<1> QED
  BY <1>2, <1>3

(* A return keeps what exit_on_ret goes by.                                *)
LEMMA ReturnInv ==
  ASSUME IInv, Return
  PROVE  IInv'
<1>0. /\ Counters /\ Flags /\ CountersInv /\ Bounds /\ NestingInv
      /\ U32 \in Nat /\ U32 > 0
  BY Types, BoundsAssumption DEF IInv
<1>1. /\ st = "main" /\ stack # <<>> /\ stack' = SubSeq(stack, 1, Len(stack) - 1)
      /\ UNCHANGED <<conf, in_fuzz, shadow_name, fuzzIdx, currentCalls, timerSet, timer,
                     recorded, init_done, libraryCall, iter, fuzzCalls>>
      /\ st' \in {st, "exited"} /\ why' \in {why, "return"} /\ (st' = "main" => why' = why)
      /\ shadow_recurse' \in {shadow_recurse, (shadow_recurse + U32 - 1) % U32}
  <2>1. "exited" # "main"
    OBVIOUS
  <2> QED
    BY <2>1, ZenonT(30) DEF Return
<1>2. Counters'
  <2>1. shadow_recurse' \in 0 .. U32 - 1
    BY <1>0, <1>1 DEF Counters
  <2>2. stack' \in Seq(Frame) /\ Len(stack') <= MaxDepth
    BY <1>0, <1>1, Pop, BoundsAssumption DEF Counters
  <2> QED
    BY <1>0, <1>1, <2>1, <2>2, ZenonT(40) DEF Counters
<1>3. Flags'
  BY <1>0, <1>1, ZenonT(30) DEF Flags
<1>4. CountersInv' /\ Bounds'
  <2>1. why # "calls" /\ why' # "calls"
    <3>1. "return" # "calls" /\ "exited" # "main"
      OBVIOUS
    <3> QED
      BY <1>0, <1>1, <3>1, ZenonT(30) DEF CountersInv
  <2> QED
    BY <1>0, <1>1, <2>1, ZenonT(30)
       DEF CountersInv, Bounds, FuzzBounded, InputAfterFork, CallsBounded
<1>5. NestingInv'
  <2> SUFFICES ASSUME Watched, st' = "main"
               PROVE  /\ ~in_fuzz => \A k \in DOMAIN stack' : ~stack'[k].fuzzed
                      /\ in_fuzz => \E l \in DOMAIN stack' : Shadows(l)'
    BY <1>1, ZenonT(40) DEF NestingInv, Watched
  <2> PICK t \in Nat : t = Len(stack) /\ t >= 1
    BY <1>0, <1>1, Pop
  <2>1. /\ DOMAIN stack = 1 .. t /\ Returning = stack[t] /\ t \in DOMAIN stack
        /\ DOMAIN stack' = 1 .. t - 1 /\ Len(stack') = t - 1
        /\ \A k \in 1 .. t - 1 : stack'[k] = stack[k]
    BY <1>0, <1>1, Pop
  <2>2. CASE ~in_fuzz
    BY <1>0, <1>1, <2>1, <2>2 DEF NestingInv
  <2>3. CASE in_fuzz
    <3>1. PICK l \in DOMAIN stack : Shadows(l)
      BY <1>0, <1>1, <2>3, ZenonT(40) DEF NestingInv
    <3>2. ~stack[t].fuzzed
      BY <1>1, <2>1, <2>3, TopShadow, ZenonT(40) DEF Return, Watched
    <3>3. stack[l].fuzzed /\ stack[l].fn = shadow_name /\ shadow_recurse = Cardinality(Nested(l))
      BY <3>1, ZenonT(30) DEF Shadows
    <3>4. l # t /\ l \in 1 .. t - 1 /\ stack'[l] = stack[l]
      BY <2>1, <3>2, <3>3
    <3>5. \A k \in DOMAIN stack' : k > l => ~stack'[k].fuzzed
      BY <2>1, <3>1, <3>4 DEF Shadows
    <3>6. IsFiniteSet(Nested(l)) /\ Cardinality(Nested(l)) \in Nat
      BY <1>0, NestedFinite
    <3>7. CASE stack[t].fn # shadow_name
      <4>1. Nested(l)' = Nested(l)
        BY <1>1, <2>1, <3>4, <3>7 DEF Nested
      <4>2. shadow_recurse' = shadow_recurse
        BY <1>1, <2>1, <3>7, ZenonT(40) DEF Return
      <4>3. Shadows(l)'
        BY <1>1, <3>3, <3>4, <3>5, <4>1, <4>2, ZenonT(40) DEF Shadows
      <4> QED
        BY <2>1, <2>3, <3>4, <4>3, ZenonT(40)
    <3>8. CASE stack[t].fn = shadow_name
      <4>1. Nested(l)' = Nested(l) \ {t} /\ t \in Nested(l)
        BY <1>1, <2>1, <3>4, <3>8 DEF Nested
      <4>2. PICK c \in Nat : c = Cardinality(Nested(l))
        BY <3>6
      <4>3. IsFiniteSet(Nested(l)') /\ Cardinality(Nested(l)') = c - 1
        <5>1. IsFiniteSet(Nested(l) \ {t})
              /\ Cardinality(Nested(l) \ {t}) = Cardinality(Nested(l)) - 1
          BY <3>6, <4>1, FS_RemoveElement
        <5> QED
          BY <4>1, <4>2, <5>1, ZenonT(40)
      <4>4. c - 1 \in Nat
        BY <4>3, FS_CardinalityType, ZenonT(30)
      <4>5. shadow_recurse' = (c + U32 - 1) % U32 /\ c \in 0 .. U32 - 1
        BY <1>0, <1>1, <2>1, <2>3, <3>3, <3>8, <4>2, ZenonT(30) DEF Return, Counters, Watched
      <4>6. shadow_recurse' = c - 1
        BY <1>0, <4>4, <4>5
      <4>7. Shadows(l)'
        BY <1>1, <3>3, <3>4, <3>5, <4>3, <4>6, ZenonT(40) DEF Shadows
      <4> QED
        BY <2>1, <2>3, <3>4, <4>7, ZenonT(40)
    <3> QED
      BY <3>7, <3>8
  <2> QED
    BY <2>2, <2>3
<1> QED
  BY <1>2, <1>3, <1>4, <1>5, Types, ZenonT(40) DEF IInv

(* Every step keeps the invariant.                                         *)
LEMMA NextInv ==
  ASSUME IInv, [Next]_vars
  PROVE  IInv'
<1>1. ASSUME NEW f \in Fn, Call(f)
      PROVE  IInv'
  <2>1. Flags
    BY Types DEF IInv
  <2>2. ShouldFuzz(f) \in BOOLEAN /\ TimerNeeded(f) \in BOOLEAN /\ StartsServer(f) \in BOOLEAN
    BY ZenonT(30) DEF ShouldFuzz, TimerNeeded, StartsServer
  <2>3. Flags'
    BY <1>1, <2>1, <2>2, ZenonT(40) DEF Call, Flags
  <2> QED
    BY <1>1, <2>3, CallCounters, CallNesting, Types, ZenonT(40) DEF IInv
<1>2. ASSUME Return
      PROVE  IInv'
  BY <1>2, ReturnInv
<1> QED
  BY <1>1, <1>2, OtherInv, ZenonT(40) DEF Next, Over

(* Every variable of the runtime keeps to its type: no call is counted     *)
(* beyond max_calls + 1, at which gen_values ends the process.             *)
THEOREM TypesKept == Spec => []TypeOK
<1>1. Init => IInv
  BY InitInv
<1>2. IInv /\ [Next]_vars => IInv'
  BY NextInv
<1>3. IInv => TypeOK
  BY DEF IInv
<1> QED
  BY <1>1, <1>2, <1>3, PTL DEF Spec

(* In any configuration and at any depth, gen_values replaces the          *)
(* arguments of at most max_fuzz calls (of one, when max_fuzz is 0) in one *)
(* iteration of the persistent loop, since __ah_beforeLoop starts each     *)
(* with a clean count; and with max_calls it lets that many target calls   *)
(* follow the first and ends the process at the next.                      *)
THEOREM LimitsAreKept == Spec => []LimitsKept
<1>1. Init => IInv
  BY InitInv
<1>2. IInv /\ [Next]_vars => IInv'
  BY NextInv
<1>3. IInv => LimitsKept
  BY DEF IInv, Bounds, LimitsKept
<1> QED
  BY <1>1, <1>2, <1>3, PTL DEF Spec

(* gen_values never replaces arguments before the fork server is up,       *)
(* unless fork_on_call leaves that to the user.                            *)
THEOREM ServerComesFirst == Spec => []InputAfterFork
<1>1. Init => IInv
  BY InitInv
<1>2. IInv /\ [Next]_vars => IInv'
  BY NextInv
<1>3. IInv => InputAfterFork
  BY DEF IInv, Bounds
<1> QED
  BY <1>1, <1>2, <1>3, PTL DEF Spec

(* With exit_on_ret, __ah_epilogue ends the process exactly at the return  *)
(* of a call whose arguments were replaced, through recursion of any depth *)
(* and any calls of other targets in between.                              *)
THEOREM ExitIsAtTheReturn == Spec => ExitsAtTheReturn
<1> DEFINE AtTheReturn ==
      /\ conf.exitOnReturn /\ ~conf.recording /\ ~conf.userRecording
      /\ Len(stack') < Len(stack)
      => (st' = "exited" <=> Returning.fuzzed)
<1>1. Init => IInv
  BY InitInv
<1>2. IInv /\ [Next]_vars => IInv'
  BY NextInv
<1>3. IInv /\ [Next]_vars => [AtTheReturn]_vars
  <2> SUFFICES ASSUME IInv, Next, Watched, Len(stack') < Len(stack)
               PROVE  st' = "exited" <=> Returning.fuzzed
    BY DEF Watched
  <2>1. Counters /\ Len(stack) \in Nat
    BY Types DEF IInv, Counters
  <2>2. ASSUME NEW f \in Fn, Call(f) PROVE FALSE
    <3>1. stack' = Append(stack, [fn |-> f, fuzzed |-> ShouldFuzz(f)])
      BY <2>2, ZenonT(30) DEF Call
    <3>2. PICK e : stack' = Append(stack, e)
      BY <3>1, ZenonT(40)
    <3>3. Len(stack') = Len(stack) + 1
      BY <2>1, <3>2 DEF Counters
    <3> QED
      BY <2>1, <3>3
  <2>3. ASSUME stack' = stack PROVE FALSE
    BY <2>1, <2>3
  <2>4. Return
    BY <2>2, <2>3, ZenonT(40) DEF Next, CallExits, LibraryCall, TimerFires, Loop, Stop, End, Over, vars
  <2>5. st = "main" /\ stack # <<>>
    BY <2>4, ZenonT(40) DEF Return
  <2>6. st' = "exited" <=>
          in_fuzz /\ Returning.fn = shadow_name /\ shadow_recurse = 1
    <3>1. "main" # "exited"
      OBVIOUS
    <3> QED
      BY <2>4, <2>5, <3>1, ZenonT(40) DEF Return, Watched
  <2> QED
    BY <2>5, <2>6, TopShadow, ZenonT(40)
<1>4. ExitsAtTheReturn <=> [][AtTheReturn]_vars
  BY DEF ExitsAtTheReturn
<1> HIDE DEF AtTheReturn
<1> QED
  BY <1>1, <1>2, <1>3, <1>4, PTL DEF Spec
=============================================================================
