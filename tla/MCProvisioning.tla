--------------------------- MODULE MCProvisioning ---------------------------
(* TLC instances of Provisioning.  Rows and hostnames are interchangeable;  *)
(* provider ids are not (the node gives out the lowest free one).           *)
EXTENDS Provisioning, TLC

Symmetry == Permutations(Rows) \cup Permutations(Names)
=============================================================================
