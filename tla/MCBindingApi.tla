--------------------------- MODULE MCBindingApi ----------------------------
(* Small instances of BindingApi for TLC.                                 *)
EXTENDS BindingRefinement, TLC

\* Requests that may leave are told apart from those that stay.
Symmetry == Permutations(MayLeave) \cup Permutations(Requests \ MayLeave)

=============================================================================
