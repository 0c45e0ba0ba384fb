------------------------- MODULE MCResourceRequests -------------------------
(* ResourceRequests with interchangeable requests and reviews. *)
EXTENDS ResourceRequests, TLC

Symmetry == Permutations(Requests) \cup Permutations(Reviews)
=============================================================================
