----------------------------- MODULE Arguments -----------------------------
(***************************************************************************)
(* What gen_values does with the arguments of one call (libgen): in one    *)
(* process it records them, in another it replaces them by what a test     *)
(* case says.  Both rounds visit the arguments in the order that their     *)
(* constraints dictate.  Memory is a value per argument: a number, a       *)
(* sequence of fields, or for a pointer NULL or the sequence of elements   *)
(* it points to.  A byte is a digit of base Base; sizes are in bytes.      *)
(***************************************************************************)
EXTENDS Integers, Sequences, Functions, Iteration

CONSTANTS
  Base,         \* values of a byte
  TypeInfo,     \* types by name: what the typeinfo file says of them
  Targets,      \* signatures: a list of type names, a list of constraints
  Calls(_),     \* the arguments that a host program calls a target with
  TestCases(_), \* besides the recorded bytes
  Order(_),     \* the arguments of a target as visitInOrder visits them
  NULL

VARIABLES
  target, host,   \* the call: a signature and the arguments given to it
  order,          \* the arguments as visitInOrder visits them
  round,          \* "record", "fuzz", "done" or "crashed"
  visited,        \* how many of them the round has visited
  buffer,         \* the recorded bytes, then the test case
  failed,         \* __ah_arg_rec_failed
  replay,         \* the test case is what was recorded
  args, offset,   \* memory and buf_offset of the second process
  stale           \* what earlier test cases have left behind the end of this one

vars == <<target, host, order, round, visited, buffer, failed, replay, args, offset, stale>>

Byte == 0 .. Base - 1
Type(name) == TypeInfo[name]
IsInt(ty) == ty.kind = "int"
IsPtr(ty) == ty.kind = "ptr"
IsString(ty) == IsPtr(ty) /\ IsInt(Type(ty.to)) /\ Type(ty.to).size = 1
ArgType(t, i) == Type(t.types[i])
Args(t) == DOMAIN t.types

ASSUME BaseAssumption == Base \in Nat /\ Base % 2 = 0 /\ Base > 0
ASSUME TypeAssumption ==
  \A name \in DOMAIN TypeInfo :
    /\ IsInt(Type(name)) => Type(name).size \in {1, 2, 4, 8}
    /\ IsPtr(Type(name)) => Type(name).to \in DOMAIN TypeInfo

(* What a constraint is about: the length of a pointer, what is behind it  *)
(* (deref), or an integer.                                                 *)
Relates(c) == c.rel # "is_file"
HasRhsArg(c) == Relates(c) /\ c.rhs.from = "arg"
Deref(t, i) == \E k \in DOMAIN t.constraints :
                 LET c == t.constraints[k] IN c.lhs = i /\ Relates(c) /\ c.deref
IsFile(t, i) == \E k \in DOMAIN t.constraints :
                  LET c == t.constraints[k] IN c.lhs = i /\ ~Relates(c)
Subject(t, i) == IF Deref(t, i) THEN Type(ArgType(t, i).to) ELSE ArgType(t, i)
Width(ty) == IF IsPtr(ty) THEN 4 ELSE ty.size

(* Constraints are about integers and pointers; an argument they refer to  *)
(* is an integer, no narrower than what is compared with it.               *)
ASSUME TargetAssumption ==
  \A t \in Targets :
    /\ t.types \in Seq(DOMAIN TypeInfo) /\ DOMAIN t.constraints = 1 .. Len(t.constraints)
    /\ Len(t.constraints) \in Nat
    /\ \A k \in DOMAIN t.constraints : LET c == t.constraints[k] IN
         /\ c.lhs \in Args(t)
         /\ ~Relates(c) => IsPtr(ArgType(t, c.lhs))
         /\ Relates(c) =>
              /\ IsInt(ArgType(t, c.lhs)) \/ IsPtr(ArgType(t, c.lhs))
              /\ c.deref => IsPtr(ArgType(t, c.lhs))
              /\ c.rhs.from \in {"arg", "rec", "constant"}
              /\ c.rhs.from = "constant" => c.rhs.val \in Nat
              /\ c.rhs.from = "arg" =>
                   /\ c.rhs.val \in Args(t) /\ IsInt(ArgType(t, c.rhs.val))
                   /\ IsInt(Subject(t, c.lhs)) \/ IsPtr(Subject(t, c.lhs)) =>
                        Width(Subject(t, c.lhs)) <= ArgType(t, c.rhs.val).size

(* An integer argument is a number, a pointer NULL or a sequence.          *)
ASSUME CallAssumption ==
  \A t \in Targets : \A call \in Calls(t) :
    /\ DOMAIN call = Args(t)
    /\ \A i \in Args(t) :
         /\ IsInt(ArgType(t, i)) => call[i] \in Nat
         /\ IsPtr(ArgType(t, i)) /\ call[i] # NULL =>
              Len(call[i]) \in Nat /\ DOMAIN call[i] = 1 .. Len(call[i])

-----------------------------------------------------------------------------
(* What boost::topological_sort promises visitInOrder: no argument comes   *)
(* twice, and the ones that refer to an argument come after it.            *)
ASSUME OrderAssumption ==
  \A t \in Targets :
    /\ Order(t) \in Seq(Args(t))
    /\ \A j, k \in DOMAIN Order(t) : Order(t)[j] = Order(t)[k] => j = k
    /\ \A m \in DOMAIN t.constraints : LET c == t.constraints[m] IN
         HasRhsArg(c) => \A j \in DOMAIN Order(t) : Order(t)[j] = c.rhs.val =>
           \E k \in DOMAIN Order(t) : j < k /\ Order(t)[k] = c.lhs

(* Constraints that refer to each other in a circle: some of the arguments *)
(* are not in the order.                                                   *)
Cyclic(t) == Range(Order(t)) # Args(t)

-----------------------------------------------------------------------------
(* Constraints.  mem are the arguments as they are in memory, call the ones*)
(* the host program passed.                                                *)

StrLen(v) ==
  LET zeros == {i \in DOMAIN v : v[i] = 0}
  IN  IF zeros = {} THEN Len(v) ELSE (CHOOSE i \in zeros : \A j \in zeros : i <= j) - 1

(* recordConstraintValue: what "rec" stands for.                           *)
RecordedValue(ty, v) ==
  IF IsPtr(ty) THEN (IF v = NULL THEN 0 ELSE IF IsString(ty) THEN StrLen(v) ELSE 1)
  ELSE v

(* A recorded value is read while the constraints are set up; if an earlier*)
(* one has marked the address, see Readable.                               *)
Rhs(t, c, mem, call) ==
  CASE c.rhs.from = "arg" -> mem[c.rhs.val]
    [] c.rhs.from = "rec" -> RecordedValue(ArgType(t, c.lhs), call[c.lhs])
    [] c.rhs.from = "constant" -> c.rhs.val

(* constrain: the comparison is made at the size of the left-hand side,    *)
(* that of a pointer being a length of 4 bytes without a sign.  A rule is  *)
(* a constraint with the value of its right-hand side.                     *)
Values(ty) == Power(Base, Width(ty))
AsSigned(x, n) == IF x < n \div 2 THEN x ELSE x - n
Key(r, ty, x) == IF r.c.signed /\ ~IsPtr(ty) THEN AsSigned(x, Values(ty)) ELSE x
Bound(r, ty) == r.rhs % Values(ty)
Compares(r, ty, x) ==
  /\ r.c.rel # "ge" => Key(r, ty, x) <= Key(r, ty, Bound(r, ty))
  /\ r.c.rel # "le" => Key(r, ty, x) >= Key(r, ty, Bound(r, ty))
LaxConstrain(r, ty, x) ==   \* faulty: a lower bound is not enforced
  IF r.c.rel = "ge" \/ Compares(r, ty, x) THEN x ELSE Bound(r, ty)
Constrain(r, ty, x) == IF Compares(r, ty, x) THEN x ELSE Bound(r, ty)

(* The rules of an argument: one for each constraint that is on it.        *)
Rules(t, i, mem, call) ==
  [k \in DOMAIN t.constraints |->
     LET c == t.constraints[k]
         on == c.lhs = i /\ Relates(c)
     IN  [c |-> c, on |-> on, rhs |-> IF on THEN Rhs(t, c, mem, call) ELSE 0]]
ConstrainAll(rules, ty, x) ==
  Iterate([k \in DOMAIN rules |->
             [y \in Int |-> IF rules[k].on THEN Constrain(rules[k], ty, y) ELSE y]],
          x, Len(rules))

(* constraintsImplyEquality: they make the same of all the edge cases.     *)
EdgeCases ==
  {0} \cup UNION {LET n == Power(Base, w) IN {n \div 2 - 1, n \div 2, n - 1} : w \in {1, 2, 4}}
ImplyEquality(rules, ty) ==
  \A x, y \in EdgeCases : ConstrainAll(rules, ty, x) = ConstrainAll(rules, ty, y)

-----------------------------------------------------------------------------
(* serializeToBuffer.  An address within an argument is the sequence of    *)
(* indices that lead to it.                                                *)

Bytes(x, w) == [i \in 1 .. w |-> (x \div Power(Base, i - 1)) % Base]
At(v, where) ==
  LET at[k \in 0 .. Len(where)] == IF k = 0 THEN v ELSE at[k - 1][where[k]]
  IN  at[Len(where)]
Concat(n, part) ==
  LET upto[k \in 0 .. n] == IF k = 0 THEN <<>> ELSE upto[k - 1] \o part[k]
  IN  upto[n]

(* How many elements a pointer is taken to have.                           *)
SingleLength(ty, v, rules, deref) ==   \* faulty: strings are not looked at
  IF deref THEN IF v = NULL THEN 0 ELSE 1
  ELSE ConstrainAll(rules, ty, IF v = NULL THEN 0 ELSE 1)
RecordedLength(ty, v, rules, deref) ==
  IF v # NULL /\ IsString(ty) /\ ~ImplyEquality(rules, ty) THEN StrLen(v)
  ELSE IF deref THEN IF v = NULL THEN 0 ELSE 1
  ELSE LET n == ConstrainAll(rules, ty, IF v = NULL THEN 0 ELSE 1)
       IN  IF n = Power(Base, 4) - 1 THEN StrLen(v) ELSE n

(* One value of argument v; inner[name, where] is what the values it       *)
(* consists of are serialized to.                                          *)
SerializeOne(name, v, where, rules, inner) ==
  LET ty == Type(name)
      each(names) == Concat(Len(names),
                            [k \in DOMAIN names |-> inner[names[k], Append(where, k)]])
      n == RecordedLength(ty, At(v, where), rules, FALSE)
  IN  CASE IsInt(ty) -> Bytes(At(v, where), ty.size)
        [] ty.kind \in {"struct", "array"} -> each(ty.fields)
        [] IsPtr(ty) -> Bytes(n, 4) \o each([k \in 1 .. n |-> ty.to])
SerializeInner(v) ==
  LET inner[name \in DOMAIN TypeInfo, where \in Seq(Nat)] ==
        SerializeOne(name, v, where, <<>>, inner)
  IN  inner
Serialize(t, i, v, rules) ==
  LET n == RecordedLength(ArgType(t, i), v, rules, TRUE)
  IN  IF Deref(t, i)
        THEN Bytes(n, 4) \o Concat(n, [k \in 1 .. n |->
               SerializeOne(ArgType(t, i).to, v, <<k>>, rules, SerializeInner(v))])
        ELSE SerializeOne(t.types[i], v, <<>>, rules, SerializeInner(v))

-----------------------------------------------------------------------------
(* populateFromBuffer: the value and the offset behind it.                 *)

(* getBuffOne and its like: behind the end everything is 0, and the offset *)
(* stays; getBuffEight returns the lower half.                             *)
Number(buf, off, w) ==
  Total([k \in 1 .. (IF w = 8 THEN 4 ELSE w) |->
           IF off + k \in DOMAIN buf THEN buf[off + k] * Power(Base, k - 1) ELSE 0])
After(buf, off, w) ==
  IF off >= Len(buf) THEN off ELSE IF off + w < Len(buf) THEN off + w ELSE Len(buf)

(* memcpy of a buffer of integers, which does not look for the end.        *)
RawNumber(buf, off, w, rest) ==
  Total([k \in 1 .. w |->
           (IF off + k \in DOMAIN buf THEN buf[off + k] ELSE rest) * Power(Base, k - 1)])

(* One value; inner[name, off] is what one inside of it is populated with. *)
PopulateEach(names, off, inner) ==
  LET start[k \in 0 .. Len(names)] == IF k = 0 THEN off ELSE inner[names[k], start[k - 1]].off
  IN  [val |-> [k \in DOMAIN names |-> inner[names[k], start[k - 1]].val],
       off |-> start[Len(names)]]
PopulatePointer(ty, n, start, buf, rest, inner) ==
  LET size == Type(ty.to).size
  IN  IF IsInt(Type(ty.to))
        THEN [val |-> [k \in 1 .. n |-> RawNumber(buf, start + (k - 1) * size, size, rest)],
              off |-> start + n * size]
        ELSE PopulateEach([k \in 1 .. n |-> ty.to], start, inner)
PopulateOne(name, off, rules, buf, rest, inner) ==
  LET ty == Type(name)
  IN  CASE IsInt(ty) -> [val |-> ConstrainAll(rules, ty, Number(buf, off, ty.size)),
                         off |-> After(buf, off, ty.size)]
        [] ty.kind \in {"struct", "array"} -> PopulateEach(ty.fields, off, inner)
        [] IsPtr(ty) -> PopulatePointer(ty, ConstrainAll(rules, ty, Number(buf, off, 4)),
                                        After(buf, off, 4), buf, rest, inner)
PopulateInner(buf, rest) ==
  LET inner[name \in DOMAIN TypeInfo, off \in Nat] ==
        PopulateOne(name, off, <<>>, buf, rest, inner)
  IN  inner
Populate(t, i, off, rules, buf, rest) ==
  LET inner == PopulateInner(buf, rest)
      elem == PopulateOne(ArgType(t, i).to, After(buf, off, 4), rules, buf, rest, inner)
  IN  IF Deref(t, i) THEN [val |-> <<elem.val>>, off |-> elem.off]
      ELSE PopulateOne(t.types[i], off, rules, buf, rest, inner)

(* An is_file argument is a file that takes the rest of the test case.     *)
PopulateFile(buf, off) ==
  [val |-> SubSeq(buf, off + 1, Len(buf)), off |-> Len(buf)]

PopulateArg(i) ==
  IF IsFile(target, i) THEN PopulateFile(buffer, offset)
  ELSE Populate(target, i, offset, Rules(target, i, args, host), buffer, stale)

-----------------------------------------------------------------------------
(* Some calls make gen_values read foreign memory or crash, and are left   *)
(* out.  Recording does where constraints give a pointer more elements than*)
(* it has.  And a "rec" constraint is evaluated at an address that earlier *)
(* constraints on the argument have marked, in its highest bit for is_file *)
(* and in its lowest for deref: the one cannot be read at all, and one byte*)
(* further on there is no string, and NULL may seem to be something.       *)
Length(v) == IF v = NULL THEN 0 ELSE Len(v)
ReadUnmarked(t, k, call) ==
  LET i == t.constraints[k].lhs IN
    \A j \in 1 .. k - 1 : LET c == t.constraints[j] IN
      c.lhs = i => Relates(c) /\ (c.deref => ~IsString(ArgType(t, i)) /\ call[i] # NULL)
Readable(t, call) ==
  /\ \A i \in Args(t) : LET ty == ArgType(t, i) IN
       IsPtr(ty) /\ ~IsFile(t, i) =>
         RecordedLength(ty, call[i], Rules(t, i, call, call), Deref(t, i)) <= Length(call[i])
  /\ \A k \in DOMAIN t.constraints : LET c == t.constraints[k] IN
       Relates(c) /\ c.rhs.from = "rec" => ReadUnmarked(t, k, call)

Init ==
  /\ target \in Targets /\ host \in {call \in Calls(target) : Readable(target, call)}
  /\ order = Order(target) /\ round = "record" /\ visited = 0
  /\ buffer = <<>> /\ failed = FALSE /\ replay = FALSE
  /\ args = host /\ offset = 0 /\ stale = 0

(* An argument is recorded; a file that cannot be opened spoils the record.*)
Record ==
  /\ round = "record" /\ visited < Len(order) /\ visited' = visited + 1
  /\ LET i == order[visited + 1]
         bytes == IF ~IsFile(target, i)
                    THEN Serialize(target, i, host[i], Rules(target, i, host, host))
                  ELSE IF host[i] = NULL THEN <<>> ELSE host[i]
     IN  /\ buffer' = buffer \o bytes
         /\ failed' = (failed \/ (IsFile(target, i) /\ host[i] = NULL))
  /\ UNCHANGED <<target, host, order, round, replay, args, offset, stale>>

(* Later the call is made again, in a child of the fork server.  The test  *)
(* case, a sequence of bytes, is what was recorded, and where no constraint*)
(* refers to what the host passes it may pass something else; or it is     *)
(* another one.                                                            *)
UsesRec == \E k \in DOMAIN target.constraints :
             LET c == target.constraints[k] IN Relates(c) /\ c.rhs.from = "rec"
Fork ==
  /\ round = "record" /\ visited = Len(order) /\ round' = "fuzz"
  /\ \/ /\ ~failed /\ replay' = TRUE /\ buffer' = buffer
        /\ args' \in IF UsesRec THEN {host} ELSE Calls(target)
     \/ buffer' \in TestCases(target) /\ replay' = FALSE /\ UNCHANGED args
  /\ buffer' \in Seq(Byte)
  /\ stale' \in {0, Base - 1}
  /\ offset' = 0 /\ visited' = 0
  /\ UNCHANGED <<target, host, order, failed>>

(* To report a cycle visitInOrder prints the name of the target, which is  *)
(* in memory that only a recording process has: a child that is fuzzed dies*)
(* of it.                                                                  *)
Crash ==
  /\ round = "fuzz" /\ visited = 0 /\ Cyclic(target) /\ round' = "crashed"
  /\ UNCHANGED <<target, host, order, visited, buffer, failed, replay, args, offset, stale>>

Replace ==
  /\ round = "fuzz" /\ ~Cyclic(target) /\ visited < Len(order) /\ visited' = visited + 1
  /\ LET i == order[visited + 1]
         p == PopulateArg(i)
     IN  args' = [args EXCEPT ![i] = p.val] /\ offset' = p.off
  /\ UNCHANGED <<target, host, order, round, buffer, failed, replay, stale>>

Call ==
  /\ round = "fuzz" /\ ~Cyclic(target) /\ visited = Len(order) /\ round' = "done"
  /\ UNCHANGED <<target, host, order, visited, buffer, failed, replay, args, offset, stale>>

Done == round \in {"done", "crashed"} /\ UNCHANGED vars

Next == Record \/ Fork \/ Crash \/ Replace \/ Call \/ Done
Spec == Init /\ [][Next]_vars

-----------------------------------------------------------------------------
(* What a rule demands of a value: of the length of a pointer or, with     *)
(* deref, of each of the integers it points to.                            *)
Demands(t, i, r, v) ==
  LET ty == ArgType(t, i)
  IN  IF ~IsPtr(ty) THEN Compares(r, ty, v)
      ELSE IF ~r.c.deref THEN Compares(r, ty, Len(v))
      ELSE IsInt(Type(ty.to)) => \A k \in DOMAIN v : Compares(r, Type(ty.to), v[k])
Obeys(t, i, v, mem) ==
  \A k \in DOMAIN t.constraints : LET r == Rules(t, i, mem, host)[k] IN r.on => Demands(t, i, r, v)

(* Some number satisfies all the constraints of an argument.               *)
Satisfiable(t, i, mem) ==
  \E x \in 0 .. Values(Subject(t, i)) - 1 :
    \A k \in DOMAIN t.constraints :
      LET r == Rules(t, i, mem, host)[k] IN r.on => Compares(r, Subject(t, i), x)

(* They are all about the length of a pointer, or all about its elements;  *)
(* and they all compare with a sign, or all without.                       *)
Pairs(t, i) ==
  LET on == {k \in DOMAIN t.constraints : t.constraints[k].lhs = i /\ Relates(t.constraints[k])}
  IN  {<<t.constraints[j], t.constraints[k]>> : j, k \in on}
Unmixed(t, i) == \A p \in Pairs(t, i) : p[1].deref = p[2].deref
CompareAlike(t, i) == \A p \in Pairs(t, i) : p[1].signed = p[2].signed

(* A file's name is not coerced, and neither are structs.                  *)
Coerced(t, i) == ~IsFile(t, i) /\ (IsInt(Subject(t, i)) \/ IsPtr(Subject(t, i)))

(* Whatever the test case, a target is only called with arguments that     *)
(* satisfy every constraint on them that can be satisfied: "Once the second*)
(* parameter is populated, the first one will be deserialized and then     *)
(* coerced into satisfying the constraint" (README.md).  Not if constraints*)
(* on the length and on the elements meet in one pointer: README.md has an *)
(* example of it, but one deref constraint makes gen_values replace a      *)
(* single element and apply all of them to that.                           *)
ConstraintsHold ==
  round = "done" =>
    \A i \in Args(target) :
      Coerced(target, i) /\ Unmixed(target, i) /\ CompareAlike(target, i)
        /\ Satisfiable(target, i, args)
      => Obeys(target, i, args[i], args)

(* Arguments that recording can describe: constraints hold; a pointer that *)
(* no constraint gives a length is a string, a single element or NULL; a   *)
(* pointer with deref has one element, which is not a byte, and no other   *)
(* constraints; an integer fits in 4 bytes.                                *)
Describable(t, i, v) ==
  LET ty == ArgType(t, i)
  IN  /\ ~IsFile(t, i) => Obeys(t, i, IF v = NULL THEN <<>> ELSE v, host)
      /\ IsInt(ty) => v < Power(Base, 4)
      /\ IsPtr(ty) /\ ~IsFile(t, i) =>
           IF Deref(t, i) THEN v # NULL /\ Len(v) = 1 /\ ~IsString(ty) /\ Unmixed(t, i)
           ELSE \/ ImplyEquality(Rules(t, i, host, host), ty)
                \/ IF IsString(ty) THEN v = NULL \/ StrLen(v) = Len(v) ELSE Length(v) <= 1

(* A NULL pointer comes back as an empty buffer.                           *)
AsReplayed(name, v) ==
  LET back[n \in DOMAIN TypeInfo, where \in Seq(Nat)] ==
        LET x == At(v, where)
            ty == Type(n)
        IN  CASE IsInt(ty) -> x
              [] ty.kind \in {"struct", "array"} ->
                   [k \in DOMAIN x |-> back[ty.fields[k], Append(where, k)]]
              [] IsPtr(ty) -> IF x = NULL THEN <<>>
                              ELSE [k \in DOMAIN x |-> back[ty.to, Append(where, k)]]
  IN  back[name, <<>>]

(* The recorded bytes, taken as a test case, give the target the arguments *)
(* that were recorded, whatever the host passes this time: "the input      *)
(* corpus will be recorded using the arguments supplied to initial calls   *)
(* to target functions" (README.md).                                       *)
RoundTrip ==
  round = "done" /\ replay
    /\ (\A i \in Args(target) : Describable(target, i, host[i]))
  => \A i \in Args(target) : args[i] = AsReplayed(target.types[i], host[i])
=============================================================================
