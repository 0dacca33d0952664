-------------------------- MODULE MCTaskExecution --------------------------
(***************************************************************************)
(* The DAGs that decompose (src/backend/src/coordinator/index.ts) makes of *)
(* a prompt: research first, up to three specialists, then the report.     *)
(***************************************************************************)
EXTENDS TaskExecution, TLC

\* One specialist, two, and three.
Chain == <<{}, {1}, {2}>>
Fork  == <<{}, {1}, {1}, {2, 3}>>
Wide  == <<{}, {1}, {1}, {1}, {2, 3, 4}>>

\* The default limit suffices for all of them.
ASSUME DefaultLimit == Concurrency = 3 => LimitSuffices

Symmetry == Permutations(Hosts) \cup Permutations(Runs)
=============================================================================
