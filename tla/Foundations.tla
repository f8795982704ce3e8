---------------------------- MODULE Foundations ----------------------------
(***************************************************************************)
(* What it means that a set of artifacts rests on nothing outside itself.  *)
(* rests[k] is the set of artifacts that k depends on or implements.       *)
(***************************************************************************)

Closed(S, rests) == \A k \in S : rests[k] \subseteq S

(* The union of all closed subsets, itself closed: the greatest one.       *)
LargestClosed(S, rests) == UNION {T \in SUBSET S : Closed(T, rests)}
=============================================================================
