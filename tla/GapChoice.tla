----------------------------- MODULE GapChoice -----------------------------
(***************************************************************************)
(* What the gap finder promises a reviewer, whatever order it works in:    *)
(* every claim that survived re-derivation is kept, except that each pool  *)
(* has a noise budget; the budget is used up before anything is dropped,   *)
(* and what is dropped is not more severe than what is kept.  What the     *)
(* engine confirmed by its own rule is never dropped.                      *)
(***************************************************************************)
EXTENDS Naturals, FiniteSets

CONSTANT Budget      \* pool -> how many claims it may keep

VARIABLES claim,     \* proposal -> pool and rank of severity, 0 the worst
          kept, capped

Pool == DOMAIN Budget
Graduated == {i \in DOMAIN claim : claim[i].pool = "graduated"}
In(q) == {i \in DOMAIN claim : claim[i].pool = q}

Smaller(m, n) == IF m < n THEN m ELSE n

Fair(K, C) ==
    /\ K \cap C = {} /\ Graduated \subseteq K
    /\ K \cup C = Graduated \cup UNION {In(q) : q \in Pool}
    /\ \A q \in Pool :
          /\ Cardinality(K \cap In(q)) = Smaller(Budget[q], Cardinality(In(q)))
          /\ \A i \in K \cap In(q), j \in C \cap In(q) :
                claim[i].rank <= claim[j].rank

Init == kept = {} /\ capped = {}
Choose ==
    /\ kept \cup capped = {}
    /\ \E K, C \in SUBSET DOMAIN claim :
          Fair(K, C) /\ kept' = K /\ capped' = C
    /\ UNCHANGED claim
Spec == Init /\ [][Choose]_<<claim, kept, capped>>
=============================================================================
