--------------------------- MODULE MCSetupFuzzers ---------------------------
(* Two tests, both of which can enter g and a C++ function, and the name of*)
(* a target inside another's.                                              *)
EXTENDS SetupFuzzers, TLC

CONSTANTS p, q, f, g, read_f, cxx

MCCalls == p :> {f, g, cxx} @@ q :> {g, read_f, cxx}

MCPartOf == {<<f, read_f>>}
=============================================================================
