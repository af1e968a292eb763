---------------------------- MODULE MCNamespace ----------------------------
(* Names are interchangeable: no property mentions one. *)
EXTENDS Statistics, TLC

NameSymmetry == Permutations(Names)
=============================================================================
