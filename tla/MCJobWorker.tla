---------------------------- MODULE MCJobWorker ----------------------------
(***************************************************************************)
(* Instances of JobWorker for TLC.  Jobs, workers and slots are model       *)
(* values that nothing tells apart, so permuting them is sound where no     *)
(* liveness property is checked.                                            *)
(***************************************************************************)
EXTENDS JobWorker, TLC

Symmetry == Permutations(Jobs) \cup Permutations(Workers) \cup Permutations(Slots)
=============================================================================
