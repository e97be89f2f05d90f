--------------------------- MODULE MCTypeInfoFile ---------------------------
(* Three compilers.  One has two targets with arguments of the same type,  *)
(* the others functions of the same names.                                 *)
EXTENDS TypeInfoFile

CONSTANTS c1, c2, c3, f, g, int, ptr

MCCompiler == {c1, c2, c3}
MCTarget == {f, g}
MCModule == [c \in MCCompiler |-> IF c = c1 THEN {f, g} ELSE IF c = c2 THEN {f} ELSE {g}]
MCType == {int, ptr}
MCArgType == [c \in MCCompiler |-> [t \in MCTarget |-> IF c = c1 THEN int ELSE ptr]]
=============================================================================
