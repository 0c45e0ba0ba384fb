---------------------------- MODULE MCJobRunner ----------------------------
(* TLC instances of JobRunner.  Runners are interchangeable, and so are the *)
(* jobs (createdAt orders them, not their identity).                        *)
EXTENDS JobRunner, TLC

Symmetry == Permutations(Jobs) \cup Permutations(Runners)
=============================================================================
