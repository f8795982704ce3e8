---------------------------- MODULE CrossrefSpec ----------------------------
(***************************************************************************)
(* What pass 2 of the orchestrator promises: of the artifacts pass 1 left  *)
(* verified, it keeps the largest set in which no artifact trusts one that *)
(* is outside the set, and it decides that in one step.                    *)
(***************************************************************************)
EXTENDS Foundations

CONSTANTS Key,      \* artifacts of the run, as Kind/name
          Relation, \* relations a crossRef may state
          Target,   \* what a crossRef may name: keys, artifacts the run
                    \* lacks, and the blank name
          Graph     \* the crossRefs a run may come with

TrustDep == {"depends-on", "implements"}
Blank == "-"
Ref == [relation : Relation, to : Target]

(* Back-links (alerts-on, covers, emits) and refs without a name are no    *)
(* reason to distrust the artifact that states them.                       *)
RestsOn(refs) ==
    {ref.to : ref \in {r \in refs : r.relation \in TrustDep /\ r.to # Blank}}

Rests(refs) == [k \in Key |-> RestsOn(refs[k])]

VARIABLES crossRefs,  \* the refs each artifact states
          claimed,    \* artifacts that pass 1 left verified
          kept        \* artifacts pass 2 leaves verified

vars == <<crossRefs, claimed, kept>>

Init ==
    /\ crossRefs \in Graph
    /\ claimed \in SUBSET Key
    /\ kept = claimed

Decide ==
    /\ kept' = LargestClosed(claimed, Rests(crossRefs))
    /\ UNCHANGED <<crossRefs, claimed>>

Spec == Init /\ [][Decide]_vars
=============================================================================
