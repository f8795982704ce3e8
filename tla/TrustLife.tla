------------------------------ MODULE TrustLife ------------------------------
(***************************************************************************)
(* One artifact from its scaffold to the last command that re-gates it:    *)
(* pass 1 and pass 2 of a run, then challenge-apply and confirm-apply as   *)
(* often and in whatever order they are issued.                            *)
(***************************************************************************)
EXTENDS TrustGate

VARIABLES doc,        \* what the gates read of the artifact
          grounding,  \* verdicts of the deterministic challenge pass
          stage,      \* "scaffolded", "gated" (pass 1) or "kept" (persisted)
          status,     \* the status the engine gives it
          finalized,  \* the status the run persisted it with
          seen,       \* every verdict challenge-apply was ever given for it
          refuted     \* confirm-apply refuted the absence it claims

life == <<doc, grounding, stage, status, finalized, seen, refuted>>

(* A reply outside the vocabulary reaches the gate too.                    *)
Reply == Verdict \cup {"garbled"}

LifeTypeOK ==
    /\ doc \in Doc
    /\ grounding \in SUBSET Verdict
    /\ stage \in {"scaffolded", "gated", "kept"}
    /\ status \in Status
    /\ finalized \in Status
    /\ seen \in SUBSET Reply
    /\ refuted \in BOOLEAN

LifeInit ==
    /\ doc \in {d \in Doc : Fenced(d)}
    /\ grounding \in {{}} \cup {{Adjudicate(x)} : x \in Excerpt}
    /\ stage = "scaffolded"
    /\ status = doc.preset
    /\ finalized = doc.preset
    /\ seen = {}
    /\ refuted = FALSE

(* Pass 1.                                                                 *)
GateOnce ==
    /\ stage = "scaffolded"
    /\ status' = PassOne(doc, grounding)
    /\ stage' = "gated"
    /\ UNCHANGED <<doc, grounding, finalized, seen, refuted>>

(* Passes 2 and 3: the status-aware crossref fixpoint may have taken the   *)
(* artifact down (it only looks at verified ones), and it is persisted.    *)
Finalize ==
    /\ stage = "gated"
    /\ \/ status' = status
       \/ status = "verified" /\ status' = "needs-review"
    /\ finalized' = status'
    /\ stage' = "kept"
    /\ UNCHANGED <<doc, grounding, seen, refuted>>

(* challenge-apply with the verdicts a file holds for this artifact.       *)
ChallengeApply(verdicts) ==
    /\ stage = "kept"
    /\ status' = ChallengeGate(status, verdicts)
    /\ seen' = seen \cup verdicts
    /\ UNCHANGED <<doc, grounding, stage, finalized, refuted>>

(* confirm-apply with a dispute of this gap's absence that re-derives: the *)
(* copy in kb/verified or kb/needs-review goes to reports/rejected.        *)
ConfirmRefute ==
    /\ stage = "kept"
    /\ status \in {"verified", "needs-review"}
    /\ status' = "rejected"
    /\ refuted' = TRUE
    /\ UNCHANGED <<doc, grounding, stage, finalized, seen>>

LifeNext ==
    \/ GateOnce
    \/ Finalize
    \/ \E verdicts \in SUBSET Reply \ {{}} : ChallengeApply(verdicts)
    \/ ConfirmRefute

LifeSpec == LifeInit /\ [][LifeNext]_life

-----------------------------------------------------------------------------
(* A challenge or a confirm can only ever lower trust (the safety property *)
(* of challenge.py:15 and of the confirm loop), and so can every gate of   *)
(* the run: a status differs from the last one only by being worth less.   *)
OnlyDowngrades == [][Trust(status') <= Trust(status)]_status

(* A verified artifact passed every gate, whatever was done to it since:   *)
(* it is the engine's own (tier ast), its evidence hashes match where that *)
(* is required, nothing it cites dangles, its content is clean, and no     *)
(* verdict ever given for it, by the engine or by an oracle, found it      *)
(* unsupported or contradicted.                                            *)
NoFalsePass ==
    stage # "scaffolded" /\ status = "verified" =>
        /\ doc.preset = "verified" /\ doc.tier = "ast"
        /\ doc.structural /\ PassesEveryGate(doc) /\ doc.clean
        /\ (grounding \cup seen) \cap {"unsupported", "contradicted"} = {}
        /\ ~refuted

(* The order of the commands, and how the verdicts were split over them,   *)
(* never matters: the status is what one challenge-apply with all verdicts *)
(* would have produced (challenge_apply calls the step re-runnable).       *)
OrderNeverMatters ==
    stage = "kept" =>
        status = IF refuted THEN "rejected" ELSE ChallengeGate(finalized, seen)

(* Nothing is rejected on a shrug: a rejected artifact failed the          *)
(* structural gate, or someone contradicted it or refuted its absence      *)
(* claim.  Unsupported, indeterminate and unparseable replies never        *)
(* reject (gating.py:1: failures downgrade to needs-review).               *)
RejectionHasCause ==
    stage # "scaffolded" /\ status = "rejected" =>
        \/ ~doc.structural
        \/ "contradicted" \in grounding \cup seen
        \/ refuted
=============================================================================
