-------------------------- MODULE MCSeedCollection --------------------------
(* Three target functions; the name of f is part of the name of g.         *)
EXTENDS SeedCollection

CONSTANTS f, g, h

MCTypeInfo == <<f, g, h>>
MCSubstringOf == {<<f, f>>, <<g, g>>, <<h, h>>, <<f, g>>}

(* Arguments of f are longer than those of g and the name after them,      *)
(* and g may be called with nothing to record.                             *)
MCArgCells == [x \in Fn |-> IF x = f THEN {3} ELSE IF x = g THEN {0, 1} ELSE {1}]

(* Data of f may be taken for a length of arguments, or lead out of the    *)
(* map.                                                                    *)
MCData == [x \in Fn |-> IF x = f THEN {1, 20} ELSE {2}]
=============================================================================
