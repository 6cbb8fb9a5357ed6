------------------------ MODULE MCOperationAdmission ------------------------
(***************************************************************************)
(* Model-checking instance of OperationAdmission: two concurrent calls at  *)
(* a time (any number in sequence) for one operation that needs a          *)
(* confirmation, from two subjects and with two parameter sets.  The code  *)
(* compares these identities for equality only, so all are symmetric.      *)
(***************************************************************************)
EXTENDS OperationAdmission, TLC

Symmetry ==
  Permutations(Handlers) \union Permutations(Params) \union Permutations(Subjects)
=============================================================================
