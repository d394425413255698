---------------------------- MODULE MCWaPipeline ----------------------------
(***************************************************************************)
(* Finite instances of WaPipeline for TLC.                                 *)
(***************************************************************************)
EXTENDS WaPipeline, TLC

\* Processes of one kind are interchangeable.
Symmetry == Permutations(CeleryWorkers) \cup Permutations(InlineSenders)
              \cup Permutations(Handlers)

=============================================================================
