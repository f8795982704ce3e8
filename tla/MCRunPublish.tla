---------------------------- MODULE MCRunPublish ----------------------------
(* A run that is confirmed, rendered and staged: a flow that rests         *)
(* on a pattern, two absence gaps, one proposed by a model too, and a      *)
(* mechanism that a dispute may find disabled.                             *)
EXTENDS RunPublish

CoScanned == {"Flow/f", "ResiliencyPattern/p", "ResiliencyGap/g", "ResiliencyGap/t"}
CoRests == [a \in CoScanned |->
                IF a = "Flow/f" THEN {"ResiliencyPattern/p"} ELSE {}]
CoGaps == {"ResiliencyGap/g", "ResiliencyGap/t"}
CoTwin == {"ResiliencyGap/t"}
CoDisabled == {"ResiliencyGap/d"}
CoPaged == {"Flow/f"}

(* A smaller one that is challenged, which refutes ReviewSurfacesAll and   *)
(* OnlyKBIsPublished: an alert and a runbook drafted for it.               *)
ChScanned == {"Flow/f", "ResiliencyPattern/p", "Alert/a"}
ChRests == [a \in ChScanned |->
                IF a = "Flow/f" THEN {"ResiliencyPattern/p"} ELSE {}]
ChReviewed == {"Alert/a"}
ChCovers == [r \in {"Runbook/a"} |-> "Alert/a"]
ChPaged == {"Flow/f", "Runbook/a"}

Replies == {"unsupported", "contradicted"}
None == {}
NoDraft == [r \in {} |-> ""]
=============================================================================
