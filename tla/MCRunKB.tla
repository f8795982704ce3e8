------------------------------ MODULE MCRunKB ------------------------------
(* A flow that rests on a pattern, an alert on the challenge worklist, a   *)
(* runbook drafted for it, and a mechanism a dispute may find disabled.    *)
EXTENDS RunKB

ChScanned == {"Flow/f", "ResiliencyPattern/p", "Alert/a"}
ChRests == [a \in ChScanned |->
                IF a = "Flow/f" THEN {"ResiliencyPattern/p"} ELSE {}]
ChReviewed == {"Alert/a"}
ChCovers == [r \in {"Runbook/a"} |-> "Alert/a"]

ChDisabled == {"ResiliencyGap/d"}

(* "supported" and replies out of vocabulary move nothing.                 *)
Replies == {"unsupported", "contradicted"}

None == {}
=============================================================================
