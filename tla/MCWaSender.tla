----------------------------- MODULE MCWaSender -----------------------------
(***************************************************************************)
(* Finite instances of WaSender for TLC.                                   *)
(***************************************************************************)
EXTENDS WaSender, TLC

\* Workers of one kind are interchangeable.
Symmetry == Permutations(CeleryWorkers) \cup Permutations(InlineSenders)

=============================================================================
