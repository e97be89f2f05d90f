---------------------------- MODULE MCArguments ----------------------------
(***************************************************************************)
(* Signatures and constraints to check Arguments with.  A byte is a bit.   *)
(***************************************************************************)
EXTENDS Arguments, Dependencies

IntOf(n) == [kind |-> "int", size |-> n]
PtrTo(ty) == [kind |-> "ptr", to |-> ty]
MCTypeInfo == [c |-> IntOf(1), s |-> IntOf(2), i |-> IntOf(4), l |-> IntOf(8),
               pc |-> PtrTo("c"), ps |-> PtrTo("s"), pst |-> PtrTo("st"), pnode |-> PtrTo("node"),
               st |-> [kind |-> "struct", fields |-> <<"c", "pc">>],
               node |-> [kind |-> "struct", fields |-> <<"c", "pnode">>],
               ar |-> [kind |-> "array", fields |-> <<"s", "s">>]]

Con(l, rel, from, val, sg, dr) ==
  [lhs |-> l, rel |-> rel, rhs |-> [from |-> from, val |-> val], signed |-> sg, deref |-> dr]
Rel == {"eq", "le", "ge"}
Rhss(rhs) == {<<"arg", a>> : a \in rhs} \cup {<<"constant", 2>>, <<"rec", 0>>}
Relations(l, rhs, sgs, drs) ==
  {Con(l, rel, r[1], r[2], sg, dr) : rel \in Rel, r \in Rhss(rhs), sg \in sgs, dr \in drs}
UpTo2(cs) == {<<>>} \cup {<<a>> : a \in cs} \cup {<<a, b>> : a \in cs, b \in cs}
With(tys, css) == {[types |-> tys, constraints |-> cs] : cs \in css}

Le(l, r) == Con(l, "le", "arg", r, FALSE, FALSE)

MCTargets ==
  With(<<"s", "s">>, UpTo2(Relations(1, {2}, BOOLEAN, {FALSE}) \cup Relations(2, {}, {FALSE}, {FALSE})))
  \cup With(<<"pc", "i">>, UpTo2(Relations(1, {2}, {FALSE}, {FALSE}) \cup Relations(2, {}, {FALSE}, {FALSE})))
  \cup With(<<"ps", "i">>, UpTo2(Relations(1, {2}, {FALSE}, BOOLEAN)))
  \cup With(<<"s", "s", "s">>, {<<Le(a, b), Le(d, e)>> : a, b, d, e \in 1 .. 3})
  \cup With(<<"pc", "s">>, {<<[lhs |-> 1, rel |-> "is_file"]>>})
  \cup With(<<"pnode">>, {<<>>}) \cup With(<<"pst", "ar">>, {<<>>})
  \cup With(<<"c", "s">>, {<<c>> : c \in Relations(1, {2}, BOOLEAN, {FALSE})})
  \cup With(<<"l", "c">>, {<<>>})

Samples(ty) ==
  CASE ty = "c" -> {0, 1} [] ty = "s" -> {1, 2} [] ty = "i" -> {0, 2} [] ty = "l" -> {3, 35}
    [] ty = "pc" -> {NULL, <<>>, <<1>>, <<1, 1>>, <<0, 1>>}
    [] ty = "ps" -> {NULL, <<2>>, <<1, 3>>}
    [] ty = "ar" -> {<<1, 2>>}
    [] ty = "pst" -> {NULL, <<<<1, NULL>>>>, <<<<0, <<1, 1>>>>>>}
    [] ty = "pnode" -> {NULL, <<<<1, NULL>>>>, <<<<0, <<<<1, NULL>>>>>>>>}
MCCalls(t) ==
  LET v(k) == Samples(t.types[k])
  IN  CASE Len(t.types) = 1 -> {<<a>> : a \in v(1)}
        [] Len(t.types) = 2 -> {<<a, b>> : a \in v(1), b \in v(2)}
        [] Len(t.types) = 3 -> {<<1, 2, 2>>, <<2, 1, 3>>}

MCOrder(t) == visitInOrder(Len(t.types), Edges(t.constraints))

(* No test case at all; every one of the length that integers take; a      *)
(* 4-byte integer and a length whose elements are beyond the end.          *)
MCTestCases(t) ==
  IF \A k \in DOMAIN t.types : t.types[k] \in {"c", "s"}
    THEN {<<>>} \cup [1 .. 2 * Len(t.types) -> 0 .. 1]
    ELSE {Bytes(a, 4) \o Bytes(b, 2) : a \in {0, 2, 3, 13}, b \in {1, 2}}
=============================================================================
