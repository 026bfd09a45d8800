-------------------------- MODULE MCSystemControl --------------------------
(* Model-checking instance of SystemControl: request threads are model     *)
(* values and interchangeable.                                             *)
EXTENDS SystemControl, TLC

Symmetry == Permutations(Requests)
=============================================================================
