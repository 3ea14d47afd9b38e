---------------------------- MODULE MCWriteBack ----------------------------
(* Two turns with promises, the second of them the operator's, at most two  *)
(* promises in all, one fact, two extracts and two attempts, by one client  *)
(* or by two at once.                                                       *)
EXTENDS WriteBack, TLC

Symmetry == Permutations(Clients)
============================================================================
