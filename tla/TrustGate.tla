------------------------------ MODULE TrustGate ------------------------------
(***************************************************************************)
(* The gates that decide the status of an artifact: layer (d) of           *)
(* validation (final_status), the content lints, the deterministic         *)
(* challenge pass, and the gate of challenge-apply.  TrustLife follows one *)
(* artifact through them; RunKB uses them for all of a run directory.      *)
(***************************************************************************)
EXTENDS Naturals

CONSTANT RequireProvenance   \* gating.require_verified_provenance

ASSUME RequireProvenanceAssumption == RequireProvenance \in BOOLEAN

Status  == {"verified", "needs-review", "rejected"}
Verdict == {"supported", "indeterminate", "unsupported", "contradicted"}
Tier    == {"ast", "llm"}

(* How much a reader may rely on a status.                                 *)
Trust(s) == IF s = "verified" THEN 2 ELSE IF s = "needs-review" THEN 1 ELSE 0

-----------------------------------------------------------------------------
(* What the gates read of an artifact: the status its scaffold gave it,    *)
(* whether it has evidence, and the outcome of each validator.             *)
Doc == [preset     : Status \ {"rejected"},
        tier       : Tier,
        structural : BOOLEAN,       \* validate_doc found nothing
        evidence   : BOOLEAN,       \* there is at least one evidence item
        provenance : BOOLEAN,       \* every evidence hash still matches
        crossref   : BOOLEAN,       \* no dangling crossRef
        confident  : BOOLEAN,       \* confidence >= verified_min_confidence
        clean      : BOOLEAN]       \* no safety and no substance finding

(* A scaffold fences what a model proposed: it presets needs-review.       *)
Fenced(d) == d.tier = "llm" => d.preset = "needs-review"

(* An artifact that passes every gate a verified one has to pass.          *)
PassesEveryGate(d) ==
    /\ RequireProvenance => d.evidence /\ d.provenance
    /\ d.crossref
    /\ d.confident

(* Mutant of FinalStatus: only the confidence floor demotes.               *)
FloorOnly(d) ==
    IF ~d.structural THEN "rejected"
    ELSE IF d.preset = "verified" /\ ~d.confident THEN "needs-review"
    ELSE d.preset

FinalStatus(d) ==
    IF ~d.structural THEN "rejected"
    ELSE IF d.preset = "verified" /\ ~PassesEveryGate(d) THEN "needs-review"
    ELSE d.preset

(* The safety lint and the substance check send a verified artifact to a   *)
(* human; they leave every other status alone.                             *)
ContentGate(s, d) == IF s = "verified" /\ ~d.clean THEN "needs-review" ELSE s

(* Mutant of Normalized: a reply that cannot be read counts against.       *)
HostileNormalized(v) == IF v \in Verdict THEN v ELSE "contradicted"

(* A verdict outside the vocabulary counts as indeterminate.               *)
Normalized(v) == IF v \in Verdict THEN v ELSE "indeterminate"

(* Mutants of ChallengeGate: unsupported is one step down; the verdicts     *)
(* alone decide, and one that raises no objection promotes.                *)
StepDown(s, verdicts) ==
    LET vs == {Normalized(v) : v \in verdicts}
    IN  IF "contradicted" \in vs THEN "rejected"
        ELSE IF "unsupported" \in vs
             THEN IF s = "verified" THEN "needs-review" ELSE "rejected"
        ELSE s
Promoting(s, verdicts) ==
    LET vs == {Normalized(v) : v \in verdicts}
    IN  IF "contradicted" \in vs THEN "rejected"
        ELSE IF "unsupported" \in vs THEN "needs-review"
        ELSE IF vs # {} THEN "verified" ELSE s

(* The worst verdict decides.  An empty list decides nothing.              *)
ChallengeGate(s, verdicts) ==
    LET vs == {Normalized(v) : v \in verdicts}
    IN  IF s = "rejected" THEN s
        ELSE IF "contradicted" \in vs THEN "rejected"
        ELSE IF "unsupported" \in vs /\ s = "verified" THEN "needs-review"
        ELSE s

(* GroundingChallenger: the cited excerpt holds the refuting token, the    *)
(* claimed one (or the signature fires), both, or neither; a citation that *)
(* cannot be read is left to a human.  Only an alert has a refuting token. *)
Excerpt == SUBSET {"refute", "token"} \cup {{"unreadable"}}

Adjudicate(excerpt) ==
    IF "unreadable" \in excerpt THEN "indeterminate"
    ELSE IF "refute" \in excerpt THEN "contradicted"
    ELSE IF "token" \in excerpt THEN "supported"
    ELSE "unsupported"

(* Pass 1 of the orchestrator: the gates in the order the code runs them.  *)
(* grounding is {} for a kind without a falsifiable claim.                 *)
PassOne(d, grounding) == ChallengeGate(ContentGate(FinalStatus(d), d), grounding)
=============================================================================
