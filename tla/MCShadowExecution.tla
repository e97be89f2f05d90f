------------------------- MODULE MCShadowExecution -------------------------
(* Configurations of ShadowExecution for TLC: up to three of the runtime's *)
(* options at a time, over two instrumented functions.                     *)
EXTENDS ShadowExecution, FiniteSetsExt

CONSTANTS f, g

MCFn == {f, g}

OptionNames == {"both", "blacklist", "userRecording", "exitOnReturn", "exitOnTimer",
                "exitOnMaxCalls", "maxFuzz", "noFuzz", "forkOnInit", "forkOnCall", "persistent"}

With(on) ==
  [selected |-> IF "both" \in on THEN {f, g} ELSE {f},
   blacklist |-> IF "blacklist" \in on THEN {f} ELSE {},
   recording |-> FALSE, unknown |-> FALSE,
   userRecording |-> "userRecording" \in on,
   exitOnReturn |-> "exitOnReturn" \in on,
   exitOnTimer |-> "exitOnTimer" \in on,
   exitOnMaxCalls |-> "exitOnMaxCalls" \in on,
   maxCalls |-> 2,
   maxFuzz |-> IF "maxFuzz" \in on THEN 2 ELSE IF "noFuzz" \in on THEN 0 ELSE 1,
   forkOnInit |-> "forkOnInit" \in on,
   forkOnCallNr |-> IF "forkOnCall" \in on THEN 2 ELSE 0,
   persistent |-> "persistent" \in on]

(* What afl-fuzz sends while it collects seeds, and while a resumed queue  *)
(* has no target that this program knows.                                  *)
RecordingRound == [With({}) EXCEPT !.recording = TRUE, !.selected = {}]
NoKnownTarget == [With({}) EXCEPT !.unknown = TRUE, !.selected = {}]

MCConfigs ==
  {With(on) : on \in UNION {kSubset(k, OptionNames) : k \in 0 .. 3}}
    \cup {RecordingRound, NoKnownTarget}
=============================================================================
