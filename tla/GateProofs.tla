----------------------------- MODULE GateProofs -----------------------------
(***************************************************************************)
(* Proofs about the life of one artifact under the gates of TrustGate,     *)
(* about the gap finder, which sends what a model proposed through them,   *)
(* and about the downgrade loop of pass 2, which takes a verified artifact *)
(* down when what it rests on is not.                                      *)
(***************************************************************************)
EXTENDS TrustLife, GapFinder, Crossref, FiniteSetTheorems,
        WellFoundedInduction, Integers, TLAPS

-----------------------------------------------------------------------------
(* The challenge gate by itself.                                           *)

(* It returns a status, and never one worth more than it was given.        *)
LEMMA ChallengeLowers ==
  ASSUME NEW s \in Status, NEW vs \in SUBSET Reply
  PROVE  ChallengeGate(s, vs) \in Status /\ Trust(ChallengeGate(s, vs)) <= Trust(s)
  BY DEF Status, Trust, ChallengeGate

(* Verdicts given in two batches decide what they decide in one: re-running*)
(* challenge-apply, or splitting a verdict file, changes nothing.          *)
LEMMA ChallengeComposes ==
  ASSUME NEW s \in Status, NEW vs \in SUBSET Reply, NEW ws \in SUBSET Reply
  PROVE  ChallengeGate(ChallengeGate(s, vs), ws) = ChallengeGate(s, vs \cup ws)
<1> DEFINE N(xs) == {Normalized(x) : x \in xs}
<1>1. N(vs \cup ws) = N(vs) \cup N(ws)
  OBVIOUS
<1>2. \A v \in {"contradicted", "unsupported"} :
        v \in N(vs \cup ws) <=> v \in N(vs) \/ v \in N(ws)
  BY <1>1
<1> QED
  BY <1>2 DEF Status, ChallengeGate

(* The gate looks at the worst verdict only.                               *)
LEMMA ChallengeWorst ==
  ASSUME NEW s \in Status, NEW vs \in SUBSET Reply
  PROVE  /\ ChallengeGate(s, vs) = "verified" =>
              s = "verified" /\ vs \cap {"unsupported", "contradicted"} = {}
         /\ ChallengeGate(s, vs) = "rejected" =>
              s = "rejected" \/ "contradicted" \in vs
<1>1. \A v \in {"contradicted", "unsupported"} :
        v \in {Normalized(x) : x \in vs} <=> v \in vs
  BY DEF Normalized, Reply, Verdict
<1> QED
  BY <1>1 DEF ChallengeGate, Status

-----------------------------------------------------------------------------
(* Pass 1 returns a status, worth at most the preset.                      *)
LEMMA GateTypes ==
  ASSUME NEW d \in Doc, NEW g \in SUBSET Verdict
  PROVE  PassOne(d, g) \in Status /\ Trust(PassOne(d, g)) <= Trust(d.preset)
<1>1. FinalStatus(d) \in Status /\ Trust(FinalStatus(d)) <= Trust(d.preset)
  BY DEF Doc, Status, FinalStatus, Trust
<1>2. /\ ContentGate(FinalStatus(d), d) \in Status
      /\ Trust(ContentGate(FinalStatus(d), d)) <= Trust(FinalStatus(d))
  BY <1>1 DEF Status, ContentGate, Trust
<1>3. g \in SUBSET Reply
  BY DEF Reply
<1>4. /\ PassOne(d, g) \in Status
      /\ Trust(PassOne(d, g)) <= Trust(ContentGate(FinalStatus(d), d))
  BY <1>2, <1>3, ChallengeLowers DEF PassOne
<1>5. \A s \in Status : Trust(s) \in Nat
  BY DEF Status, Trust
<1>6. d.preset \in Status
  BY DEF Doc
<1> QED
  BY <1>1, <1>2, <1>4, <1>5, <1>6

(* What pass 1 lets through as verified, and what it rejects.              *)
LEMMA PassOneMeaning ==
  ASSUME NEW d \in Doc, Fenced(d), NEW g \in SUBSET Verdict
  PROVE  /\ PassOne(d, g) = "verified" =>
              /\ d.preset = "verified" /\ d.tier = "ast"
              /\ d.structural /\ PassesEveryGate(d) /\ d.clean
              /\ g \cap {"unsupported", "contradicted"} = {}
         /\ PassOne(d, g) = "rejected" => ~d.structural \/ "contradicted" \in g
<1> DEFINE c == ContentGate(FinalStatus(d), d)
<1>1. c \in Status
  BY DEF Doc, Status, FinalStatus, ContentGate
<1>2. c = "verified" => d.preset = "verified" /\ d.structural
                        /\ PassesEveryGate(d) /\ d.clean
  BY DEF Doc, Status, FinalStatus, ContentGate
<1>3. c = "rejected" => ~d.structural
  BY DEF Doc, Status, FinalStatus, ContentGate
<1>4. d.preset = "verified" => d.tier = "ast"
  BY DEF Doc, Tier, Fenced
<1>5. g \in SUBSET Reply
  BY DEF Reply
<1>6. /\ PassOne(d, g) = "verified" =>
           c = "verified" /\ g \cap {"unsupported", "contradicted"} = {}
      /\ PassOne(d, g) = "rejected" => c = "rejected" \/ "contradicted" \in g
  BY <1>1, <1>5, ChallengeWorst DEF PassOne
<1> QED
  BY <1>2, <1>3, <1>4, <1>6

-----------------------------------------------------------------------------
(* Every variable keeps its type.                                          *)
LEMMA LifeTypeInit == LifeInit => LifeTypeOK
  BY DEF LifeInit, LifeTypeOK, Doc, Status, Adjudicate, Verdict

(* Every step preserves the types.                                         *)
LEMMA LifeTypeNext == LifeTypeOK /\ [LifeNext]_life => LifeTypeOK'
<1> SUFFICES ASSUME LifeTypeOK, [LifeNext]_life PROVE LifeTypeOK'
  OBVIOUS
<1> USE DEF LifeTypeOK
<1>1. CASE GateOnce
  BY <1>1, GateTypes DEF GateOnce
<1>2. CASE Finalize
  BY <1>2 DEF Finalize, Status
<1>3. ASSUME NEW vs \in SUBSET Reply \ {{}}, ChallengeApply(vs) PROVE LifeTypeOK'
  BY <1>3, ChallengeLowers DEF ChallengeApply
<1>4. CASE ConfirmRefute
  BY <1>4 DEF ConfirmRefute, Status
<1>5. CASE UNCHANGED life
  BY <1>5 DEF life
<1> QED
  BY <1>1, <1>2, <1>3, <1>4, <1>5 DEF LifeNext

(* Type correctness of the artifact's life.                                *)
THEOREM LifeTypeCorrect == LifeSpec => []LifeTypeOK
  BY LifeTypeInit, LifeTypeNext, PTL DEF LifeSpec

-----------------------------------------------------------------------------
(* The inductive invariant.  Order independence is inductive by itself     *)
(* (ChallengeComposes); no-false-pass needs in addition that a scaffold    *)
(* still is where it was fenced.                                           *)
LifeInv ==
    /\ LifeTypeOK
    /\ Fenced(doc)
    /\ stage = "scaffolded" => status = doc.preset
    /\ stage # "kept" => seen = {} /\ ~refuted
    /\ NoFalsePass
    /\ RejectionHasCause
    /\ OrderNeverMatters

(* It holds of every scaffold.                                             *)
LEMMA LifeStarts == LifeInit => LifeInv
<1> SUFFICES ASSUME LifeInit PROVE LifeInv
  OBVIOUS
<1>1. LifeTypeOK
  BY LifeTypeInit
<1> QED
  BY <1>1 DEF LifeInit, LifeInv, NoFalsePass, RejectionHasCause, OrderNeverMatters

(* Every gate and every command preserves it.                              *)
LEMMA LifeGoesOn == LifeInv /\ [LifeNext]_life => LifeInv'
<1> SUFFICES ASSUME LifeInv, [LifeNext]_life PROVE LifeInv'
  OBVIOUS
<1>0. LifeTypeOK'
  BY LifeTypeNext DEF LifeInv
<1> USE DEF LifeInv, LifeTypeOK
<1>1. CASE GateOnce
  <2>1. /\ status' = PassOne(doc, grounding) /\ stage' = "gated"
        /\ UNCHANGED <<doc, grounding, seen, refuted>>
        /\ seen = {} /\ ~refuted
    BY <1>1 DEF GateOnce
  <2>2. NoFalsePass' /\ RejectionHasCause'
    BY <2>1, PassOneMeaning DEF NoFalsePass, RejectionHasCause, PassesEveryGate
  <2> QED
    BY <1>0, <2>1, <2>2 DEF OrderNeverMatters, Fenced
<1>2. CASE Finalize
  <2>1. /\ stage = "gated" /\ stage' = "kept" /\ finalized' = status'
        /\ UNCHANGED <<doc, grounding, seen, refuted>>
        /\ seen = {} /\ ~refuted
        /\ \/ status' = status
           \/ status = "verified" /\ status' = "needs-review"
    BY <1>2 DEF Finalize
  <2>2. NoFalsePass' /\ RejectionHasCause'
    BY <2>1 DEF NoFalsePass, RejectionHasCause, PassesEveryGate
  <2>3. OrderNeverMatters'
    BY <2>1 DEF OrderNeverMatters, ChallengeGate
  <2> QED
    BY <1>0, <2>1, <2>2, <2>3 DEF Fenced
<1>3. ASSUME NEW vs \in SUBSET Reply \ {{}}, ChallengeApply(vs) PROVE LifeInv'
  <2>1. /\ stage = "kept" /\ stage' = "kept"
        /\ status' = ChallengeGate(status, vs) /\ seen' = seen \cup vs
        /\ UNCHANGED <<doc, grounding, finalized, refuted>>
    BY <1>3 DEF ChallengeApply
  <2>2. /\ status' = "verified" =>
             status = "verified" /\ vs \cap {"unsupported", "contradicted"} = {}
        /\ status' = "rejected" => status = "rejected" \/ "contradicted" \in vs
    BY <2>1, ChallengeWorst
  <2>3. NoFalsePass'
    BY <2>1, <2>2 DEF NoFalsePass, PassesEveryGate
  <2>4. RejectionHasCause'
    BY <2>1, <2>2 DEF RejectionHasCause
  <2>5. OrderNeverMatters'
    <3>1. CASE refuted
      BY <2>1, <3>1 DEF OrderNeverMatters, ChallengeGate
    <3>2. CASE ~refuted
      <4>1. status = ChallengeGate(finalized, seen)
        BY <2>1, <3>2 DEF OrderNeverMatters
      <4>2. status' = ChallengeGate(finalized, seen \cup vs)
        BY <2>1, <4>1, ChallengeComposes
      <4> QED
        BY <2>1, <3>2, <4>2 DEF OrderNeverMatters
    <3> QED
      BY <3>1, <3>2
  <2> QED
    BY <1>0, <2>1, <2>3, <2>4, <2>5 DEF Fenced
<1>4. CASE ConfirmRefute
  <2>1. /\ stage = "kept" /\ stage' = "kept" /\ status' = "rejected" /\ refuted'
        /\ UNCHANGED <<doc, grounding, finalized, seen>>
    BY <1>4 DEF ConfirmRefute
  <2>2. NoFalsePass' /\ RejectionHasCause' /\ OrderNeverMatters'
    BY <2>1 DEF NoFalsePass, RejectionHasCause, OrderNeverMatters
  <2> QED
    BY <1>0, <2>1, <2>2 DEF Fenced
<1>5. CASE UNCHANGED life
  <2>1. UNCHANGED <<doc, grounding, stage, status, finalized, seen, refuted>>
    BY <1>5 DEF life
  <2>2. NoFalsePass' /\ RejectionHasCause' /\ OrderNeverMatters'
    BY <2>1 DEF NoFalsePass, RejectionHasCause, OrderNeverMatters, PassesEveryGate
  <2> QED
    BY <1>0, <2>1, <2>2 DEF Fenced
<1> QED
  BY <1>1, <1>2, <1>3, <1>4, <1>5 DEF LifeNext

(* It holds for the whole life of the artifact.                            *)
LEMMA LifeCorrect == LifeSpec => []LifeInv
  BY LifeStarts, LifeGoesOn, PTL DEF LifeSpec

(* A verified artifact passed every gate and no verdict spoke against it.  *)
THEOREM VerifiedIsEarned == LifeSpec => []NoFalsePass
<1>1. LifeInv => NoFalsePass
  BY DEF LifeInv
<1> QED
  BY <1>1, LifeCorrect, PTL

(* Only a structural failure, a contradiction or a refutation rejects.     *)
THEOREM RejectionIsEarned == LifeSpec => []RejectionHasCause
<1>1. LifeInv => RejectionHasCause
  BY DEF LifeInv
<1> QED
  BY <1>1, LifeCorrect, PTL

(* Re-running and reordering challenge-apply and confirm-apply is harmless.*)
THEOREM CommandsCommute == LifeSpec => []OrderNeverMatters
<1>1. LifeInv => OrderNeverMatters
  BY DEF LifeInv
<1> QED
  BY <1>1, LifeCorrect, PTL

(* No step of an artifact's life raises its status.                        *)
THEOREM TrustNeverRises == LifeSpec => OnlyDowngrades
<1>1. LifeInv /\ [LifeNext]_life => [Trust(status') <= Trust(status)]_status
  <2> SUFFICES ASSUME LifeInv, [LifeNext]_life PROVE Trust(status') <= Trust(status)
    OBVIOUS
  <2> USE DEF LifeInv, LifeTypeOK
  <2>1. CASE GateOnce
    BY <2>1, GateTypes DEF GateOnce
  <2>2. CASE Finalize
    BY <2>2 DEF Finalize, Trust, Status
  <2>3. ASSUME NEW vs \in SUBSET Reply \ {{}}, ChallengeApply(vs)
        PROVE  Trust(status') <= Trust(status)
    BY <2>3, ChallengeLowers DEF ChallengeApply
  <2>4. CASE ConfirmRefute
    BY <2>4 DEF ConfirmRefute, Trust, Status
  <2>5. CASE UNCHANGED life
    BY <2>5 DEF life, Trust, Status
  <2> QED
    BY <2>1, <2>2, <2>3, <2>4, <2>5 DEF LifeNext
<1> QED
  BY <1>1, LifeCorrect, PTL DEF LifeSpec, OnlyDowngrades

-----------------------------------------------------------------------------
(* The gap finder.                                                         *)

(* What survives re-derivation, on its way to a budget or past all of them.*)
Survived == {"graduated", "confirmed", "routed", "novel"}

(* The loaded proposals: at positions of the file, with a severity that    *)
(* the schema of a gap knows.                                              *)
LEMMA LoadedFiles ==
  ASSUME NEW f \in File
  PROVE  /\ DOMAIN Loaded(f) \subseteq Nat /\ IsFiniteSet(DOMAIN Loaded(f))
         /\ \A i \in DOMAIN Loaded(f) :
               Loaded(f)[i].severity \in {"high", "medium", "low"}
<1>1. DOMAIN f = 1..Len(f) /\ Len(f) \in Nat
  BY GapFinderAssumption
<1>2. DOMAIN Loaded(f) \in SUBSET (1..Len(f))
  BY <1>1 DEF Loaded
<1>3. IsFiniteSet(1..Len(f))
  BY <1>1, FS_Interval
<1>4. IsFiniteSet(DOMAIN Loaded(f))
  BY <1>2, <1>3, FS_Subset
<1>5. ASSUME NEW i \in DOMAIN Loaded(f)
      PROVE  Loaded(f)[i].severity \in {"high", "medium", "low"}
  <2>0. i \in DOMAIN f /\ f[i].is = "proposal" /\ ItemShape(f[i])
    BY <1>5, GapFinderAssumption DEF Loaded, Usable
  <2>1. i \in DOMAIN f /\ Usable(f[i]) /\ "severity" \in DOMAIN f[i]
    BY <1>5, <2>0 DEF Loaded, ItemShape
  <2>2. Loaded(f)[i] = [f[i] EXCEPT !.severity = Normal(@)]
    BY <2>1 DEF Loaded
  <2>3. Loaded(f)[i].severity = Normal(f[i].severity)
    BY <2>1, <2>2
  <2> QED
    BY <2>3 DEF Normal
<1> QED
  BY <1>1, <1>2, <1>4, <1>5

(* Of the places an anchor occurs at there is a first one.                 *)
LEMMA FirstIsThere ==
  ASSUME NEW n \in Nat, NEW S \in SUBSET (1..n), S # {}
  PROVE  Min(S) \in S
<1>1. S \subseteq Nat
  OBVIOUS
<1>2. PICK x \in S : \A y \in S : ~ (<<y, x>> \in OpToRel(<, Nat))
  BY <1>1, NatLessThanWellFounded, WFMin
<1>3. \A y \in S : ~(y < x)
  BY <1>1, <1>2 DEF OpToRel
<1>4. \A y \in S : x <= y
  BY <1>1, <1>3
<1> QED
  BY <1>4 DEF Min

(* A proposal is graduated by the rule of its category only, and survives  *)
(* only what the engine could not see to be wrong.                         *)
LEMMA JudgementMeans ==
  ASSUME scan \in Scan, NEW p, Judgement(p) \in Survived
  PROVE  /\ Judgement(p) = "graduated" =>
              p.category \in Confirming /\ RuleFires(p)
         /\ p.category \notin Known => p.novel
         /\ p.category \in Refuting => Cited(p).call /\ ~MechanismInScope(p)
         /\ p.category \in Confirming => RuleFires(p)
         /\ ~FactsRefute(p)
         /\ ~(Cited(p).typed
                /\ Cited(p).fires \cap JudgmentRefuter(p.category) # {})
<1> DEFINE c == p.category
<1>1. scan.proven \subseteq Observability
  BY GapFinderAssumption DEF ScanShape
<1>2. CASE c \notin Known
  BY <1>1, <1>2 DEF Judgement, IsNovel, Survived, Known, Refuting, Confirming, Judgment,
       Observability, Logging, Messaging, FactsRefute, JudgmentRefuter
<1>3. CASE c \in Observability \cup Logging \cup Messaging
  BY <1>3 DEF Judgement, IsNovel, Survived, Known, Refuting, Confirming, Judgment,
       Observability, Logging, Messaging, JudgmentRefuter
<1>4. CASE c \in Confirming
  BY <1>1, <1>4 DEF Judgement, IsNovel, Survived, Known, Refuting, Confirming, Judgment,
       Observability, Logging, Messaging, FactsRefute, JudgmentRefuter
<1>5. CASE c \in Judgment
  BY <1>1, <1>5 DEF Judgement, IsNovel, Survived, Known, Refuting, Confirming, Judgment,
       Observability, Logging, Messaging, FactsRefute
<1>6. CASE c \in Refuting
  BY <1>1, <1>6 DEF Judgement, IsNovel, Survived, Known, Refuting, Confirming, Judgment,
       Observability, Logging, Messaging, FactsRefute, JudgmentRefuter, Rederived
<1>7. CASE c = "disabled-resilience"
  BY <1>7 DEF Judgement, IsNovel, Survived, Known, Refuting, Confirming, Judgment,
       Observability, Logging, Messaging
<1> QED
  BY <1>2, <1>3, <1>4, <1>5, <1>6, <1>7 DEF Known

(* The judgement of a proposal depends on the scan and the fact set alone. *)
LEMMA SameJudgement ==
  ASSUME UNCHANGED <<scan, withFacts>>
  PROVE  \A p : Judgement(p)' = Judgement(p)
<1>1. \A p : Occurrences(p)' = Occurrences(p)
  BY DEF Occurrences
<1>2. \A p : Cited(p)' = Cited(p)
  BY <1>1 DEF Cited
<1>3. \A p : RuleFires(p)' = RuleFires(p) /\ FactsRefute(p)' = FactsRefute(p)
  BY <1>2 DEF RuleFires, FactsRefute
<1>4. \A p, c : ConfigInScope(p, c)' = ConfigInScope(p, c)
  BY <1>2 DEF ConfigInScope
<1>5. \A p : MechanismInScope(p)' = MechanismInScope(p)
  BY <1>2, <1>4 DEF MechanismInScope
<1>6. \A p : Rederived(p)' = Rederived(p)
  BY <1>2, <1>5 DEF Rederived
<1> QED
  BY <1>1, <1>2, <1>3, <1>6 DEF Judgement

(* What the file is, what was judged so far, and what may be kept of it.   *)
GapInv ==
    /\ scan \in Scan /\ withFacts \in BOOLEAN
    /\ \E f \in File : proposals = Loaded(f)
    /\ DOMAIN result \subseteq DOMAIN proposals
    /\ \A i \in DOMAIN result : result[i] = Judgement(proposals[i])
    /\ pc # "judge" => DOMAIN result = DOMAIN proposals
    /\ pc \in {"judge", "budget"} => kept = {} /\ capped = {}
    /\ \A i \in kept : i \in DOMAIN result /\ result[i] \in Survived
    /\ OnlyRulesVerify

(* What the gates make of a scaffolded gap.                                *)
LEMMA GapGate ==
  ASSUME GapInv, NEW d \in Docs, d.by # 0
  PROVE  /\ d.by \in kept
         /\ StatusOf(d) = "verified" => result[d.by] = "graduated"
         /\ StatusOf(d) # "rejected"
<1>1. d.by \in kept
  BY DEF Docs
<1>2. proposals[d.by].severity \in {"high", "medium", "low"}
  BY <1>1, LoadedFiles DEF GapInv
<1> DEFINE a == AsScaffolded(d)
<1>3. a.structural /\ (a.preset = "verified" <=> result[d.by] = "graduated")
      /\ a.preset \in {"verified", "needs-review"}
  BY <1>2 DEF AsScaffolded
<1>4. FinalStatus(a) \in {"verified", "needs-review"}
      /\ (FinalStatus(a) = "verified" => result[d.by] = "graduated")
  BY <1>3 DEF FinalStatus
<1>5. ChallengeGate(ContentGate(FinalStatus(a), a), {}) = ContentGate(FinalStatus(a), a)
  BY DEF ChallengeGate
<1> QED
  BY <1>1, <1>4, <1>5 DEF StatusOf, PassOne, ContentGate

LEMMA GapNext == GapInv /\ [Next]_vars => GapInv'
<1> SUFFICES ASSUME GapInv, [Next]_vars PROVE GapInv'
  OBVIOUS
<1>0. UNCHANGED <<scan, withFacts, proposals>>
  BY DEF Next, vars, Judge, EndJudge, Budgeted, Gate
<1>1. \A p : Judgement(p)' = Judgement(p)
  BY <1>0, SameJudgement
<1>2. \A p : RuleFires(p)' = RuleFires(p)
  <2>1. \A p : Occurrences(p)' = Occurrences(p)
    BY <1>0 DEF Occurrences
  <2> QED
    BY <1>0, <2>1 DEF RuleFires, Cited
<1>3. kb' = kb => OnlyRulesVerify'
  BY <1>0, <1>2 DEF GapInv, OnlyRulesVerify
<1>4. CASE Judge
  BY <1>0, <1>1, <1>3, <1>4 DEF GapInv, Judge
<1>5. CASE EndJudge \/ UNCHANGED vars
  BY <1>0, <1>1, <1>3, <1>5 DEF GapInv, EndJudge, vars
<1>6. CASE Budgeted
  <2>1. \A i \in kept' : i \in DOMAIN result /\ result[i] \in Survived
    BY <1>6 DEF Budgeted, WithinBudget, PoolOf, Pools, Survived
  <2> QED
    BY <1>0, <1>1, <1>3, <1>6, <2>1 DEF GapInv, Budgeted
<1>7. CASE Gate
  <2>1. ASSUME NEW e \in kb', e.by # 0
        PROVE  /\ e.status = "verified" =>
                      /\ proposals[e.by].category \in Confirming
                      /\ RuleFires(proposals[e.by])
               /\ e.status # "rejected"
    <3>1. PICK d \in Docs : e = [status |-> StatusOf(d), by |-> d.by, name |-> d.name]
      BY <1>7, <2>1 DEF Gate
    <3>2. d.by \in kept /\ e.status # "rejected"
          /\ (e.status = "verified" => result[d.by] = "graduated")
      BY <2>1, <3>1, GapGate
    <3>3. result[d.by] = Judgement(proposals[d.by]) /\ scan \in Scan
      BY <3>2 DEF GapInv
    <3> QED
      BY <3>1, <3>2, <3>3, JudgementMeans DEF Survived
  <2>2. OnlyRulesVerify'
    BY <1>0, <1>2, <2>1 DEF OnlyRulesVerify
  <2> QED
    BY <1>0, <1>1, <1>7, <2>2 DEF GapInv, Gate
<1> QED
  BY <1>4, <1>5, <1>6, <1>7 DEF Next

LEMMA GapCorrect == Spec => []GapInv
<1>1. Init => GapInv
  BY DEF Init, GapInv, OnlyRulesVerify
<1> QED
  BY <1>1, GapNext, PTL DEF Spec

(* A loaded proposal has an anchor, and a category that may be a name.      *)
Proposed(p) ==
    /\ p.anchor \in Anchor /\ p.target \in Name \cup {"none"}
    /\ p.category \in Known \cup Slug \cup {"Not A Slug"}
    /\ p.severity \in {"high", "medium", "low"}
LEMMA LoadedAreProposed ==
  ASSUME NEW f \in File, NEW i \in DOMAIN Loaded(f)
  PROVE  Proposed(Loaded(f)[i])
<1>1. /\ i \in DOMAIN f /\ Usable(f[i]) /\ ItemShape(f[i])
      /\ Loaded(f)[i] = [f[i] EXCEPT !.severity = Normal(@)]
  BY GapFinderAssumption DEF Loaded
<1>2. f[i] \in [is : {"proposal"},
               category : Known \cup Slug \cup {"Not A Slug", ""},
               anchor : Anchor \cup {""}, target : Name \cup {"none"},
               severity : RawSeverity, novel : BOOLEAN]
  BY <1>1 DEF Usable, ItemShape
<1>3. /\ Loaded(f)[i].anchor = f[i].anchor /\ Loaded(f)[i].target = f[i].target
      /\ Loaded(f)[i].category = f[i].category
  BY <1>1, <1>2
<1>4. f[i].anchor \in Anchor /\ f[i].category \in Known \cup Slug \cup {"Not A Slug"}
  BY <1>1, <1>2 DEF Usable
<1>5. f[i].target \in Name \cup {"none"}
  BY <1>2
<1> QED
  BY <1>3, <1>4, <1>5, LoadedFiles DEF Proposed

(* What is judged gets an outcome; what survives was found somewhere, and  *)
(* a gap can be named after it.                                            *)
LEMMA JudgementTypes ==
  ASSUME scan \in Scan, NEW p, Proposed(p)
  PROVE  /\ Judgement(p) \in Outcome
         /\ Judgement(p) \in Survived =>
                [target |-> TargetOf(p), category |-> p.category] \in GapName
<1>1. Judgement(p) \in Outcome
  BY DEF Judgement, Rederived, Outcome
<1>2. ASSUME Judgement(p) \in Survived
      PROVE  Occurrences(p) # {} /\ p.category \in Known \cup Slug
  <2>1. CASE p.category \notin Known
    BY <1>2, <2>1 DEF Judgement, IsNovel, ValidName, Survived, Proposed
  <2>2. CASE p.category \in Known
    BY <1>2, <2>2 DEF Judgement, IsNovel, Survived
  <2> QED
    BY <2>1, <2>2
<1>3. ASSUME Occurrences(p) # {} PROVE Cited(p).stem \in Name
  <2> DEFINE places == scan.code[p.anchor]
  <2>1. places \in Seq(Place)
    BY GapFinderAssumption DEF ScanShape, Proposed
  <2>2. DOMAIN places = 1..Len(places) /\ Len(places) \in Nat
    BY <2>1
  <2>3. Occurrences(p) \subseteq 1..Len(places)
    BY <2>2 DEF Occurrences
  <2>4. Min(Occurrences(p)) \in Occurrences(p)
    BY <1>3, <2>2, <2>3, FirstIsThere
  <2>5. places[Min(Occurrences(p))] \in Place
    BY <2>1, <2>2, <2>3, <2>4
  <2> QED
    BY <2>5 DEF Cited, Place
<1> QED
  BY <1>1, <1>2, <1>3 DEF TargetOf, GapName, Proposed

(* What the gap finder keeps, caps and writes is of its type.              *)
GapTypeInv == GapInv /\ TypeOK
LEMMA GapTypeNext == GapTypeInv /\ [Next]_vars => GapTypeInv'
<1> SUFFICES ASSUME GapTypeInv, [Next]_vars PROVE GapTypeInv'
  OBVIOUS
<1>0. UNCHANGED <<scan, withFacts, proposals>> /\ scan \in Scan
  BY DEF Next, vars, Judge, EndJudge, Budgeted, Gate, GapTypeInv, GapInv
<1>1. GapInv'
  BY GapNext DEF GapTypeInv
<1>2. \A i \in DOMAIN proposals : Proposed(proposals[i])
  BY LoadedAreProposed DEF GapTypeInv, GapInv
<1>3. Range(result') \subseteq Outcome
  <2>1. CASE result' = result
    BY <2>1 DEF GapTypeInv, TypeOK
  <2>2. CASE Judge
    <3>1. \A i \in DOMAIN proposals : Judgement(proposals[i]) \in Outcome
      BY <1>0, <1>2, JudgementTypes
    <3>2. \A j \in DOMAIN result : result[j] \in Outcome
      BY DEF GapTypeInv, TypeOK, Range
    <3> QED
      BY <2>2, <3>1, <3>2 DEF Judge, Range
  <2> QED
    BY <2>1, <2>2 DEF Next, vars, EndJudge, Budgeted, Gate
<1>4. kept' \cup capped' \subseteq DOMAIN result'
  <2>1. CASE UNCHANGED <<kept, capped>>
    BY <2>1 DEF GapTypeInv, TypeOK, Next, vars, Judge, EndJudge, Budgeted, Gate
  <2>2. CASE Budgeted
    BY <2>2 DEF Budgeted, WithinBudget, PoolOf
  <2> QED
    BY <2>1, <2>2 DEF Next, vars, Judge, EndJudge, Gate
<1>5. kb' \subseteq [status : Status, by : {0} \cup DOMAIN proposals, name : GapName]
  <2>1. CASE kb' = kb
    BY <2>1 DEF GapTypeInv, TypeOK
  <2>2. CASE Gate
    <3>1. ASSUME NEW d \in Docs
          PROVE  StatusOf(d) \in Status /\ d.by \in {0} \cup DOMAIN proposals /\ d.name \in GapName
      <4>1. AsScaffolded(d) \in Doc
        BY DEF AsScaffolded, CrossrefOK, Doc, Status, Tier
      <4>2. StatusOf(d) \in Status
        BY <4>1, GateTypes DEF StatusOf
      <4>3. CASE d \in {[by |-> 0, name |-> g] : g \in IF withFacts THEN scan.gaps ELSE {}}
        <5>1. scan.gaps \subseteq GapName
          BY <1>0, GapFinderAssumption DEF ScanShape
        <5> QED
          BY <4>2, <4>3, <5>1
      <4>4. CASE d \in {[by |-> i, name |-> [target |-> TargetOf(proposals[i]),
                                            category |-> proposals[i].category]] : i \in kept}
        <5>1. PICK i \in kept : d = [by |-> i, name |-> [target |-> TargetOf(proposals[i]),
                                                    category |-> proposals[i].category]]
          BY <4>4
        <5>2. i \in DOMAIN proposals /\ Judgement(proposals[i]) \in Survived
          BY DEF GapTypeInv, GapInv
        <5> QED
          BY <1>0, <1>2, <4>2, <5>1, <5>2, JudgementTypes
      <4> QED
        BY <4>3, <4>4 DEF Docs
    <3> QED
      BY <2>2, <3>1 DEF Gate
  <2> QED
    BY <2>1, <2>2 DEF Next, vars, Judge, EndJudge, Budgeted
<1>6. pc' \in {"judge", "budget", "gate", "done"}
  BY DEF GapTypeInv, TypeOK, Next, vars, Judge, EndJudge, Budgeted, Gate
<1> QED
  BY <1>0, <1>1, <1>3, <1>4, <1>5, <1>6 DEF GapTypeInv, TypeOK, GapInv

(* Type correctness: every proposal kept has a name a gap may have, every  *)
(* one judged an outcome, and every artifact a status.                     *)
THEOREM GapTypeCorrect == Spec => []TypeOK
<1>1. Init => GapTypeInv
  <2>1. DOMAIN <<>> = {} /\ Range(<<>>) = {}
    BY DEF Range
  <2> QED
    BY <2>1 DEF Init, GapTypeInv, GapInv, TypeOK, OnlyRulesVerify
<1>2. GapTypeInv => TypeOK
  BY DEF GapTypeInv
<1> QED
  BY <1>1, <1>2, GapTypeNext, PTL DEF Spec

(* An artifact made from a proposal is verified only where the engine's own*)
(* rule fires, and never rejected, for any target, file and budgets.       *)
THEOREM RulesVerify == Spec => []OnlyRulesVerify
<1>1. GapInv => OnlyRulesVerify
  BY DEF GapInv
<1> QED
  BY <1>1, GapCorrect, PTL

(* Nothing is kept that a probe, the fact set or the taxonomy speaks       *)
(* against, however the proposal is labelled.                              *)
THEOREM ProbesHold == Spec => []ProbesCannotBeEvaded
<1>1. GapInv => ProbesCannotBeEvaded
  <2> SUFFICES ASSUME GapInv, NEW i \in kept
               PROVE  LET p == proposals[i] IN
                      /\ p.category \notin Known => p.novel
                      /\ p.category \in Refuting => Cited(p).call /\ ~MechanismInScope(p)
                      /\ p.category \in Confirming => RuleFires(p)
                      /\ ~FactsRefute(p)
                      /\ ~(Cited(p).typed
                            /\ Cited(p).fires \cap JudgmentRefuter(p.category) # {})
    BY DEF ProbesCannotBeEvaded
  <2>1. scan \in Scan /\ Judgement(proposals[i]) \in Survived
    BY DEF GapInv
  <2> QED
    BY <2>1, JudgementMeans
<1> QED
  BY <1>1, GapCorrect, PTL

-----------------------------------------------------------------------------
(* The budgets: sorting a pool and cutting it off is a fair choice.        *)

(* More severe first, and the earlier first among equals: a strict order.  *)
LEMMA BeforeOrders ==
  ASSUME NEW S, S \subseteq Nat
  PROVE  /\ \A i \in S : ~Before(i, i)
         /\ \A i, j \in S : i # j => Before(i, j) \/ Before(j, i)
         /\ \A i, j, k \in S : Before(i, j) /\ Before(j, k) => Before(i, k)
<1> DEFINE r(i) == SeverityRank(proposals[i].severity)
<1>1. \A i \in S : r(i) \in Nat /\ i \in Nat
  BY DEF SeverityRank
<1> HIDE DEF r
<1>2. \A i, j : Before(i, j) <=> r(i) < r(j) \/ (r(i) = r(j) /\ i < j)
  BY DEF Before, r
<1> QED
  BY <1>1, <1>2

(* What comes before in a finite set is counted, and what comes after has  *)
(* a greater position.                                                     *)
LEMMA PositionsGrow ==
  ASSUME NEW S, S \subseteq Nat, IsFiniteSet(S)
  PROVE  /\ Cardinality(S) \in Nat
         /\ \A i \in S : Position(i, S) \in Nat /\ Position(i, S) < Cardinality(S)
         /\ \A i, j \in S : Before(i, j) => Position(i, S) < Position(j, S)
<1> DEFINE pred(i) == {j \in S : Before(j, i)}
<1>1. \A i : Position(i, S) = Cardinality(pred(i))
  BY DEF Position
<1>2. \A i : IsFiniteSet(pred(i)) /\ Cardinality(pred(i)) \in Nat
  <2> TAKE i
  <2>1. pred(i) \in SUBSET S
    OBVIOUS
  <2>2. IsFiniteSet(pred(i))
    BY <2>1, FS_Subset
  <2> QED
    BY <2>2, FS_CardinalityType
<1>3. ASSUME NEW i \in S
      PROVE  Position(i, S) \in Nat /\ Position(i, S) < Cardinality(S)
  <2>1. pred(i) \in SUBSET (S \ {i})
    BY BeforeOrders
  <2>2. IsFiniteSet(S \ {i}) /\ Cardinality(S \ {i}) = Cardinality(S) - 1
    BY FS_RemoveElement
  <2>3. Cardinality(pred(i)) <= Cardinality(S) - 1
    BY <2>1, <2>2, FS_Subset
  <2>4. Cardinality(S) \in Nat
    BY FS_CardinalityType
  <2> HIDE DEF pred
  <2> QED
    BY <1>1, <1>2, <2>3, <2>4
<1>4. ASSUME NEW i \in S, NEW j \in S, Before(i, j)
      PROVE  Position(i, S) < Position(j, S)
  <2>1. i \notin pred(i) /\ pred(i) \cup {i} \in SUBSET pred(j)
    BY <1>4, BeforeOrders
  <2>2. IsFiniteSet(pred(i) \cup {i})
        /\ Cardinality(pred(i) \cup {i}) = Cardinality(pred(i)) + 1
    BY <1>2, <2>1, FS_AddElement
  <2>3. Cardinality(pred(i)) + 1 <= Cardinality(pred(j))
    BY <1>2, <2>1, <2>2, FS_Subset
  <2> HIDE DEF pred
  <2> QED
    BY <1>1, <1>2, <2>3
<1> QED
  BY <1>3, <1>4, FS_CardinalityType

(* The positions of a pool are 0, 1, 2 and so on, each taken once.         *)
LEMMA PositionsAreRanks ==
  ASSUME NEW S, S \subseteq Nat, IsFiniteSet(S)
  PROVE  /\ \A i, j \in S : Position(i, S) = Position(j, S) => i = j
         /\ \A n \in 0..(Cardinality(S) - 1) : \E i \in S : Position(i, S) = n
<1> DEFINE P == 0..(Cardinality(S) - 1)
           f == [i \in S |-> Position(i, S)]
<1>1. Cardinality(S) \in Nat
  BY FS_CardinalityType
<1>2. IsFiniteSet(P) /\ Cardinality(P) = Cardinality(S)
  <2>1. 0 \in Int /\ Cardinality(S) - 1 \in Int
    BY <1>1
  <2>2. IsFiniteSet(P) /\ Cardinality(P) = IF 0 > Cardinality(S) - 1 THEN 0
                                           ELSE (Cardinality(S) - 1) - 0 + 1
    BY <2>1, FS_Interval
  <2> QED
    BY <1>1, <2>2
<1>3. ASSUME NEW i \in S, NEW j \in S, Position(i, S) = Position(j, S)
      PROVE  i = j
  <2>1. Position(i, S) \in Nat /\ Position(j, S) \in Nat
    BY PositionsGrow
  <2>2. ~(Position(i, S) < Position(j, S)) /\ ~(Position(j, S) < Position(i, S))
    BY <1>3, <2>1
  <2>3. ~Before(i, j) /\ ~Before(j, i)
    BY <2>2, PositionsGrow
  <2> QED
    BY <2>3, BeforeOrders
<1>4. f \in Injection(S, P)
  <2>1. ASSUME NEW i \in S PROVE Position(i, S) \in P
    <3>1. Position(i, S) \in Nat /\ Position(i, S) < Cardinality(S)
      BY PositionsGrow
    <3> QED
      BY <1>1, <3>1
  <2> QED
    BY <1>3, <2>1 DEF Injection, IsInjective
<1>5. f \in Surjection(S, P)
  BY <1>2, <1>4, FS_Injection
<1>6. \A n \in P : \E i \in S : Position(i, S) = n
  BY <1>5 DEF Surjection
<1> QED
  BY <1>3, <1>6

(* A budget is used up before anything is dropped.                         *)
LEMMA BudgetUsedUp ==
  ASSUME NEW S, S \subseteq Nat, IsFiniteSet(S), NEW b \in Nat
  PROVE  Cardinality(WithinBudget(S, b)) = Choice!Smaller(b, Cardinality(S))
<1> DEFINE W == WithinBudget(S, b)
           n == Cardinality(S)
           m == Choice!Smaller(b, n)
           f == [i \in W |-> Position(i, S)]
<1>1. n \in Nat /\ m \in Nat /\ \A k \in Nat : k \in 0..(m - 1) <=> k < b /\ k < n
  BY FS_CardinalityType DEF Choice!Smaller
<1>2. W \in SUBSET S /\ \A i \in S : i \in W <=> Position(i, S) < b
  BY DEF WithinBudget
<1>3. IsFiniteSet(W)
  BY <1>2, FS_Subset
<1>4. \A i \in S : Position(i, S) \in Nat /\ Position(i, S) < n
  BY PositionsGrow
<1> HIDE DEF W, n, m
<1>5. f \in [W -> 0..(m - 1)]
  BY <1>1, <1>2, <1>4
<1>6. \A i, j \in W : f[i] = f[j] => i = j
  BY <1>2, PositionsAreRanks
<1>7. ASSUME NEW k \in 0..(m - 1) PROVE \E i \in W : f[i] = k
  <2>1. k \in Nat /\ k < b /\ k \in 0..(n - 1) /\ n \in Nat
    BY <1>1
  <2>2. PICK i \in S : Position(i, S) = k
    BY <2>1, PositionsAreRanks DEF n
  <2> QED
    BY <1>2, <2>1, <2>2
<1>8. ExistsBijection(W, 0..(m - 1))
  BY <1>5, <1>6, <1>7 DEF ExistsBijection, Bijection, Injection, Surjection, IsInjective
<1>9. Cardinality(0..(m - 1)) = Cardinality(W)
  BY <1>3, <1>8, FS_Bijection
<1> QED
  BY <1>1, <1>9, FS_Interval DEF W, m, n

(* What is dropped is not more severe than what is kept.                   *)
LEMMA LesserDropped ==
  ASSUME NEW S, S \subseteq Nat, IsFiniteSet(S), NEW b \in Nat,
         NEW i \in WithinBudget(S, b), NEW j \in S \ WithinBudget(S, b)
  PROVE  SeverityRank(proposals[i].severity) <= SeverityRank(proposals[j].severity)
<1>1. i \in S /\ Position(i, S) < b /\ ~(Position(j, S) < b) /\ i # j
  BY DEF WithinBudget
<1>2. Position(i, S) \in Nat /\ Position(j, S) \in Nat
  BY <1>1, PositionsGrow
<1>3. ~(Position(j, S) < Position(i, S))
  BY <1>1, <1>2
<1>4. ~Before(j, i)
  BY <1>1, <1>3, PositionsGrow
<1>5. Before(i, j)
  BY <1>1, <1>4, BeforeOrders
<1>6. \A s : SeverityRank(s) \in Nat
  BY DEF SeverityRank
<1> QED
  BY <1>5, <1>6 DEF Before

(* The pools of the gap finder are those of the choice.                    *)
LEMMA SamePools ==
  ASSUME GapInv, pc = "budget"
  PROVE  /\ Choice!In("candidates") = PoolOf({"confirmed", "routed"})
         /\ Choice!In("novel") = PoolOf({"novel"})
         /\ Choice!Graduated = PoolOf({"graduated"})
         /\ \A q \in {"candidates", "novel"} : Choice!In(q) = PoolOf(Pools[q])
<1>1. DOMAIN result = DOMAIN proposals /\ DOMAIN Survivors = DOMAIN proposals
  BY DEF GapInv, Survivors
<1>2. ASSUME NEW i \in DOMAIN proposals
      PROVE  /\ Survivors[i].pool = "graduated" <=> result[i] = "graduated"
             /\ Survivors[i].pool = "novel" <=> result[i] = "novel"
             /\ Survivors[i].pool = "candidates" <=> result[i] \in {"confirmed", "routed"}
  <2>1. result[i] = Judgement(proposals[i])
    BY <1>1 DEF GapInv
  <2> QED
    BY <2>1 DEF Survivors
<1> QED
  BY <1>1, <1>2 DEF Choice!In, Choice!Graduated, PoolOf, Pools

(* Both modules count alike.                                               *)
LEMMA SameCount == \A S : Choice!Cardinality(S) = Cardinality(S)
  BY DEF Choice!Cardinality, Cardinality

(* Cutting both pools off at their budgets is a fair choice.               *)
LEMMA BudgetsAreFair ==
  ASSUME GapInv, Budgeted
  PROVE  /\ kept' \in SUBSET DOMAIN Survivors /\ capped' \in SUBSET DOMAIN Survivors
         /\ Choice!Fair(kept', capped')
<1> DEFINE Q == {"candidates", "novel"}
           pool(q) == PoolOf(Pools[q])
           in(q) == WithinBudget(pool(q), Budgets[q])
           G == PoolOf({"graduated"})
<1>1. pc = "budget" /\ DOMAIN Survivors = DOMAIN proposals /\ DOMAIN result = DOMAIN proposals
  BY DEF Budgeted, GapInv, Survivors
<1>2. /\ \A q \in Q : Choice!In(q) = pool(q)
      /\ Choice!Graduated = G /\ DOMAIN Pools = Q /\ Choice!Pool = Q
  BY <1>1, SamePools DEF Pools, Budgets, Choice!Pool
<1>3. /\ kept' = G \cup UNION {in(q) : q \in Q}
      /\ capped' = (UNION {pool(q) : q \in Q}) \ (UNION {in(q) : q \in Q})
  BY <1>2 DEF Budgeted
<1>4. \A q \in Q : /\ G \cap pool(q) = {} /\ in(q) \subseteq pool(q)
                   /\ \A p \in Q \ {q} : pool(p) \cap pool(q) = {}
  BY DEF PoolOf, Pools, WithinBudget
<1>5. \A q \in Q : pool(q) \subseteq Nat /\ IsFiniteSet(pool(q)) /\ pool(q) \subseteq DOMAIN proposals
  <2> TAKE q \in Q
  <2>1. pool(q) \in SUBSET DOMAIN proposals
    BY <1>1 DEF PoolOf
  <2> QED
    BY <2>1, LoadedFiles, FS_Subset DEF GapInv
<1>6. \A q \in Q : Budgets[q] \in Nat
  BY GapFinderAssumption DEF Budgets
<1>7. G \subseteq DOMAIN proposals
  BY <1>1 DEF PoolOf
<1> HIDE DEF Q, pool, in, G
<1>3a. /\ \A i : i \in kept' <=> i \in G \/ \E q \in Q : i \in in(q)
       /\ \A i : i \in capped' <=> /\ \E q \in Q : i \in pool(q)
                                   /\ ~\E q \in Q : i \in in(q)
  <2>1. \A i : i \in UNION {in(q) : q \in Q} <=> \E q \in Q : i \in in(q)
    BY Zenon
  <2>2. \A i : i \in UNION {pool(q) : q \in Q} <=> \E q \in Q : i \in pool(q)
    BY Zenon
  <2>3. \A i : i \in kept' <=> i \in G \/ i \in UNION {in(q) : q \in Q}
    BY <1>3
  <2>4. \A i : i \in capped' <=> /\ i \in UNION {pool(q) : q \in Q}
                               /\ i \notin UNION {in(q) : q \in Q}
    BY <1>3
  <2> QED
    BY <2>1, <2>2, <2>3, <2>4, Zenon
<1>8. \A q \in Q : kept' \cap pool(q) = in(q) /\ capped' \cap pool(q) = pool(q) \ in(q)
  <2> TAKE q \in Q
  <2>1. \A i \in pool(q) : i \in in(q) <=> \E p \in Q : i \in in(p)
    BY <1>4
  <2> QED
    BY <1>3a, <1>4, <2>1
<1>9. /\ kept' \cap capped' = {} /\ G \subseteq kept'
      /\ kept' \cup capped' = G \cup UNION {pool(q) : q \in Q}
  <2>1. \A i : (i \in kept' \/ i \in capped') <=> (i \in G \/ \E q \in Q : i \in pool(q))
    BY <1>3a, <1>4
  <2>2. \A i : ~(i \in kept' /\ i \in capped') /\ (i \in G => i \in kept')
    BY <1>3a, <1>4
  <2> QED
    BY <2>1, <2>2
<1>10. kept' \cup capped' \subseteq DOMAIN proposals
  BY <1>5, <1>7, <1>9
<1>11. ASSUME NEW q \in Q
       PROVE  /\ Cardinality(kept' \cap Choice!In(q))
                    = Choice!Smaller(Budgets[q], Cardinality(Choice!In(q)))
              /\ \A i \in kept' \cap Choice!In(q), j \in capped' \cap Choice!In(q) :
                    Survivors[i].rank <= Survivors[j].rank
  <2>1. kept' \cap Choice!In(q) = WithinBudget(pool(q), Budgets[q])
        /\ capped' \cap Choice!In(q) = pool(q) \ WithinBudget(pool(q), Budgets[q])
    BY <1>2, <1>8 DEF in
  <2>2. \A i \in DOMAIN proposals : Survivors[i].rank = SeverityRank(proposals[i].severity)
    BY DEF Survivors
  <2>3. Cardinality(WithinBudget(pool(q), Budgets[q]))
           = Choice!Smaller(Budgets[q], Cardinality(pool(q)))
    BY <1>5, <1>6, BudgetUsedUp
  <2>4. ASSUME NEW i \in WithinBudget(pool(q), Budgets[q]),
               NEW j \in pool(q) \ WithinBudget(pool(q), Budgets[q])
        PROVE  Survivors[i].rank <= Survivors[j].rank
    <3>1. i \in DOMAIN proposals /\ j \in DOMAIN proposals
      BY <1>5 DEF WithinBudget
    <3>2. SeverityRank(proposals[i].severity) <= SeverityRank(proposals[j].severity)
      BY <1>5, <1>6, LesserDropped
    <3> QED
      BY <2>2, <3>1, <3>2
  <2> QED
    BY <1>2, <2>1, <2>3, <2>4
<1>12. UNION {pool(q) : q \in Q} = UNION {Choice!In(q) : q \in Choice!Pool}
  BY <1>2
<1>13. /\ kept' \cap capped' = {} /\ Choice!Graduated \subseteq kept'
       /\ kept' \cup capped'
             = Choice!Graduated \cup UNION {Choice!In(q) : q \in Choice!Pool}
  BY <1>2, <1>9, <1>12
<1>14. \A q \in Choice!Pool :
          /\ Cardinality(kept' \cap Choice!In(q))
                = Choice!Smaller(Budgets[q], Cardinality(Choice!In(q)))
          /\ \A i \in kept' \cap Choice!In(q), j \in capped' \cap Choice!In(q) :
                Survivors[i].rank <= Survivors[j].rank
  BY <1>2, <1>11
<1>15. Choice!Fair(kept', capped')
  BY <1>13, <1>14, SameCount DEF Choice!Fair
<1> QED
  BY <1>1, <1>10, <1>15

(* Judging one proposal after the other, ranking two pools and cutting them*)
(* off implements the one-step fair choice: no budget is left unused, none *)
(* is spent on a lesser gap or by the other pool, and what the engine's own*)
(* rules confirmed is never dropped; for any proposals and any budgets.    *)
THEOREM FinderImplementsChoice == Spec => ImplementsChoice
<1>1. Init => Choice!Init
  BY DEF Init, Choice!Init
<1>2. GapInv /\ [Next]_vars => [Choice!Choose]_<<Survivors, kept, capped>>
  <2> SUFFICES ASSUME GapInv, [Next]_vars
               PROVE  Choice!Choose \/ UNCHANGED <<Survivors, kept, capped>>
    OBVIOUS
  <2>1. UNCHANGED <<scan, withFacts, proposals>>
    BY DEF Next, vars, Judge, EndJudge, Budgeted, Gate
  <2>2. Survivors' = Survivors
    BY <2>1, SameJudgement DEF Survivors
  <2>3. CASE Budgeted
    <3>1. kept = {} /\ capped = {}
      BY <2>3 DEF Budgeted, GapInv
    <3> QED
      BY <2>2, <2>3, <3>1, BudgetsAreFair DEF Choice!Choose
  <2>4. CASE Judge \/ EndJudge \/ Gate \/ UNCHANGED vars
    BY <2>2, <2>4 DEF Judge, EndJudge, Gate, vars
  <2> QED
    BY <2>3, <2>4 DEF Next
<1> QED
  BY <1>1, <1>2, GapCorrect, PTL DEF Spec, ImplementsChoice, Choice!Spec

-----------------------------------------------------------------------------
(* The downgrade loop of Crossref, for every set of artifacts and every    *)
(* graph of crossRefs: what it returns is closed and the largest closed    *)
(* set, so the loop implements the one-step CrossrefSpec.                  *)

(* The loop as an invariant.  Between two discards of one pass every key   *)
(* already visited has been seen to rest on verified keys only; a discard  *)
(* spoils that and sets changed, which buys another pass.                  *)
VisitedRestOnVerified ==
    ~changed => \A k \in verified \ snapshot :
                    RestsOn(crossRefs[k]) \subseteq verified

DonePassEmpty ==
    /\ loop # "for" => snapshot = {}
    /\ loop = "done" => ~changed

LoopInv ==
    /\ LoopTypeOK
    /\ verified \subseteq claimed
    /\ snapshot \subseteq verified
    /\ NothingDowngradedInVain
    /\ ReasonsMatch
    /\ VisitedRestOnVerified
    /\ DonePassEmpty

(* Every variable keeps its type.                                          *)
LEMMA LoopTypeStarts == LoopInit => LoopTypeOK
  BY GraphAssumption DEF LoopInit, LoopTypeOK

(* One step of the loop preserves the types.                               *)
LEMMA LoopTypeGoesOn == LoopTypeOK /\ [LoopNext]_loopVars => LoopTypeOK'
  BY DEF LoopTypeOK, LoopNext, loopVars, StartPass, Visit, Step, Keep, Discard,
         EndPass, Return

(* Type correctness of the loop.                                           *)
THEOREM LoopTypeCorrect == LoopSpec => []LoopTypeOK
<1>1. LoopInit => LoopTypeOK
  BY LoopTypeStarts
<1>2. LoopTypeOK /\ [LoopNext]_loopVars => LoopTypeOK'
  BY LoopTypeGoesOn
<1> QED
  BY <1>1, <1>2, PTL DEF LoopSpec

(* The loop starts with changed = TRUE and nothing visited.                *)
LEMMA LoopStarts == LoopInit => LoopInv
<1> SUFFICES ASSUME LoopInit PROVE LoopInv
  OBVIOUS
<1>1. LoopTypeOK
  BY LoopTypeStarts
<1>2. NothingDowngradedInVain
  BY DEF LoopInit, NothingDowngradedInVain
<1>3. ReasonsMatch
  BY DEF LoopInit, ReasonsMatch
<1>4. VisitedRestOnVerified /\ DonePassEmpty
  BY DEF LoopInit, VisitedRestOnVerified, DonePassEmpty
<1> QED
  BY <1>1, <1>2, <1>3, <1>4 DEF LoopInit, LoopInv

(* Visiting a key keeps every closed subset of the claimed keys inside     *)
(* verified: a member of one rests on its other members, hence on verified *)
(* keys, and is never the key discarded.                                   *)
LEMMA VisitKeepsClosed ==
  ASSUME LoopInv, NEW k \in Key, Visit(k)
  PROVE  NothingDowngradedInVain'
<1> SUFFICES ASSUME NEW T \in SUBSET claimed, Closed(T, Rests(crossRefs))
             PROVE  T \subseteq verified'
  BY DEF NothingDowngradedInVain, Visit, Step, Keep, Discard
<1>1. T \subseteq verified
  BY DEF LoopInv, NothingDowngradedInVain
<1>2. CASE RestsOn(crossRefs[k]) \subseteq verified
  BY <1>1, <1>2 DEF Visit, Step, Keep, Discard
<1>3. CASE ~(RestsOn(crossRefs[k]) \subseteq verified)
  <2>1. k \in T => RestsOn(crossRefs[k]) \subseteq T
    BY DEF Closed, Rests, Spine!Rests, RestsOn
  <2>2. k \notin T
    BY <1>1, <1>3, <2>1
  <2>3. verified' = verified \ {k}
    BY <1>3 DEF Visit, Step, Keep, Discard
  <2> QED
    BY <1>1, <2>2, <2>3
<1> QED
  BY <1>2, <1>3

(* The other parts of the invariant under a visit.                         *)
LEMMA VisitKeepsLoop ==
  ASSUME LoopInv, NEW k \in Key, Visit(k)
  PROVE  LoopInv'
<1>1. LoopTypeOK'
  BY LoopTypeGoesOn DEF LoopInv, LoopNext
<1>2. NothingDowngradedInVain'
  BY VisitKeepsClosed
<1>3. CASE RestsOn(crossRefs[k]) \subseteq verified
  <2>1. verified' = verified /\ reasons' = reasons /\ changed' = changed
    BY <1>3 DEF Visit, Step, Keep, Discard
  <2>2. snapshot' = snapshot \ {k} /\ loop' = "for" /\ crossRefs' = crossRefs
        /\ claimed' = claimed
    BY DEF Visit, Step, Keep, Discard
  <2>3. VisitedRestOnVerified'
    BY <1>3, <2>1, <2>2 DEF LoopInv, VisitedRestOnVerified
  <2> QED
    BY <1>1, <1>2, <2>1, <2>2, <2>3
       DEF LoopInv, ReasonsMatch, DonePassEmpty
<1>4. CASE ~(RestsOn(crossRefs[k]) \subseteq verified)
  <2>1. verified' = verified \ {k} /\ reasons' = reasons \cup {k} /\ changed'
    BY <1>4 DEF Visit, Step, Keep, Discard
  <2>2. snapshot' = snapshot \ {k} /\ loop' = "for" /\ claimed' = claimed
    BY DEF Visit, Step, Keep, Discard
  <2>3. k \in claimed /\ k \in verified
    BY DEF Visit, Step, Keep, Discard, LoopInv
  <2>4. ReasonsMatch'
    BY <2>1, <2>2, <2>3 DEF LoopInv, ReasonsMatch
  <2>5. VisitedRestOnVerified'
    BY <2>1 DEF VisitedRestOnVerified
  <2> QED
    BY <1>1, <1>2, <2>1, <2>2, <2>4, <2>5 DEF LoopInv, DonePassEmpty
<1> QED
  BY <1>3, <1>4

(* Every step of the loop.                                                 *)
LEMMA LoopGoesOn == LoopInv /\ [LoopNext]_loopVars => LoopInv'
<1> SUFFICES ASSUME LoopInv, [LoopNext]_loopVars PROVE LoopInv'
  OBVIOUS
<1> USE DEF LoopInv
<1>1. LoopTypeOK'
  BY LoopTypeGoesOn
<1>2. CASE StartPass
  <2>1. NothingDowngradedInVain' /\ ReasonsMatch'
    BY <1>2 DEF StartPass, NothingDowngradedInVain, ReasonsMatch
  <2>2. VisitedRestOnVerified' /\ DonePassEmpty'
    BY <1>2 DEF StartPass, VisitedRestOnVerified, DonePassEmpty
  <2> QED
    BY <1>1, <1>2, <2>1, <2>2 DEF StartPass
<1>3. CASE \E k \in Key : Visit(k)
  BY <1>3, VisitKeepsLoop
<1>4. CASE EndPass
  <2>1. NothingDowngradedInVain' /\ ReasonsMatch'
    BY <1>4 DEF EndPass, NothingDowngradedInVain, ReasonsMatch
  <2>2. VisitedRestOnVerified' /\ DonePassEmpty'
    BY <1>4 DEF EndPass, VisitedRestOnVerified, DonePassEmpty
  <2> QED
    BY <1>1, <1>4, <2>1, <2>2 DEF EndPass
<1>5. CASE Return
  <2>1. NothingDowngradedInVain' /\ ReasonsMatch'
    BY <1>5 DEF Return, NothingDowngradedInVain, ReasonsMatch
  <2>2. VisitedRestOnVerified' /\ DonePassEmpty'
    BY <1>5 DEF Return, VisitedRestOnVerified, DonePassEmpty
  <2> QED
    BY <1>1, <1>5, <2>1, <2>2 DEF Return
<1>6. CASE UNCHANGED loopVars
  <2>1. NothingDowngradedInVain' /\ ReasonsMatch'
    BY <1>6 DEF loopVars, NothingDowngradedInVain, ReasonsMatch
  <2>2. VisitedRestOnVerified' /\ DonePassEmpty'
    BY <1>6 DEF loopVars, VisitedRestOnVerified, DonePassEmpty
  <2> QED
    BY <1>1, <1>6, <2>1, <2>2 DEF loopVars
<1> QED
  BY <1>2, <1>3, <1>4, <1>5, <1>6 DEF LoopNext

(* The invariant holds throughout.                                         *)
LEMMA LoopCorrect == LoopSpec => []LoopInv
<1>1. LoopInit => LoopInv
  BY LoopStarts
<1>2. LoopInv /\ [LoopNext]_loopVars => LoopInv'
  BY LoopGoesOn
<1> QED
  BY <1>1, <1>2, PTL DEF LoopSpec

(* At the end nothing is left to visit and nothing changed in the pass, so *)
(* every verified key has been seen to rest on verified keys.              *)
LEMMA DoneIsClosed == LoopInv => NoUnverifiedFoundation
  BY DEF LoopInv, VisitedRestOnVerified, DonePassEmpty,
         NoUnverifiedFoundation

(* A verified graph never rests on unverified foundations when the loop    *)
(* returns.                                                                *)
THEOREM FoundationsVerified == LoopSpec => []NoUnverifiedFoundation
<1>1. LoopInv => NoUnverifiedFoundation
  BY DoneIsClosed
<1> QED
  BY <1>1, LoopCorrect, PTL

(* No artifact is downgraded that could have stayed verified.              *)
THEOREM DowngradesAreNeeded == LoopSpec => []NothingDowngradedInVain
<1>1. LoopInv => NothingDowngradedInVain
  BY DEF LoopInv
<1> QED
  BY <1>1, LoopCorrect, PTL

(* A set that is closed and contains every closed subset is their union.   *)
LEMMA LargestIsUnion ==
  ASSUME NEW S, NEW rests, NEW V \in SUBSET S, Closed(V, rests),
         \A T \in SUBSET S : Closed(T, rests) => T \subseteq V
  PROVE  V = LargestClosed(S, rests)
  BY DEF LargestClosed

(* The loop implements the one-step choice of CrossrefSpec: every step but *)
(* the last is a stutter, the last one is Decide.                          *)
THEOREM LoopImplementsSpine == LoopSpec => ImplementsSpine
<1>1. LoopInit => Spine!Init
  BY DEF LoopInit, Spine!Init
<1>2. LoopInv /\ [LoopNext]_loopVars => [Spine!Decide]_(Spine!vars)
  <2> SUFFICES ASSUME LoopInv, [LoopNext]_loopVars
               PROVE  Spine!Decide \/ UNCHANGED Spine!vars
    OBVIOUS
  <2>1. CASE Return
    <3>1. verified \in SUBSET claimed
      BY DEF LoopInv
    <3>2. Closed(verified, Rests(crossRefs))
      BY <2>1 DEF LoopInv, Return, VisitedRestOnVerified, DonePassEmpty,
                  Closed, Rests, Spine!Rests, RestsOn, LoopTypeOK
    <3>3. verified = LargestClosed(claimed, Rests(crossRefs))
      BY <3>1, <3>2, LargestIsUnion DEF LoopInv, NothingDowngradedInVain
    <3> QED
      BY <2>1, <3>3 DEF Return, Spine!Decide, Rests, LargestClosed,
           Spine!LargestClosed, Closed, Spine!Closed
  <2>2. CASE StartPass \/ EndPass \/ \E k \in Key : Visit(k)
    BY <2>2 DEF StartPass, EndPass, Visit, Step, Keep, Discard, Spine!vars
  <2>3. CASE UNCHANGED loopVars
    BY <2>3 DEF loopVars, Spine!vars
  <2> QED
    BY <2>1, <2>2, <2>3 DEF LoopNext
<1> QED
  BY <1>1, <1>2, LoopCorrect, PTL DEF LoopSpec, ImplementsSpine, Spine!Spec

-----------------------------------------------------------------------------
(* The loop runs out.                                                      *)

(* How many steps the loop has left at most.  A pass over v keys takes v   *)
(* visits and two steps more; one that discards a key is followed by a     *)
(* pass over a key less, one that does not by the return.                  *)
Passes(v) == (v + 1) * (v + 3)
StepsLeft ==
    LET v == Cardinality(verified)
    IN  CASE loop = "done" -> 0
          [] loop = "while" -> IF changed THEN Passes(v) ELSE 1
          [] OTHER -> Cardinality(snapshot) + 1
                          + (IF changed THEN Passes(v) ELSE v * (v + 2) + 1)

(* The arithmetic of passes.                                               *)
LEMMA PassesShrink ==
  ASSUME NEW v \in Nat
  PROVE  /\ v * (v + 2) \in Nat /\ Passes(v) \in Nat
         /\ v + 1 + v * (v + 2) + 1 < Passes(v)
         /\ v > 0 => Passes(v - 1) = v * (v + 2) /\ Passes(v - 1) < Passes(v)
<1>1. PICK sq \in Nat : sq = v * v
  OBVIOUS
<1>2. v * (v + 2) = sq + 2 * v /\ (v + 1) * (v + 3) = sq + 4 * v + 3
  BY <1>1
<1>3. v > 0 => ((v - 1) + 1) * ((v - 1) + 3) = v * (v + 2)
  OBVIOUS
<1> QED
  BY <1>1, <1>2, <1>3 DEF Passes

(* Every step of the loop leaves fewer steps.                              *)
LEMMA StepsShrink ==
  ASSUME IsFiniteSet(Key), LoopInv, LoopNext
  PROVE  StepsLeft \in Nat /\ StepsLeft' \in Nat /\ StepsLeft' < StepsLeft
<1> DEFINE v == Cardinality(verified)
           s == Cardinality(snapshot)
<1>1. IsFiniteSet(verified) /\ v \in Nat /\ IsFiniteSet(snapshot) /\ s \in Nat
  BY FS_Subset, FS_CardinalityType DEF LoopInv, LoopTypeOK
<1>2. /\ v * (v + 2) \in Nat /\ Passes(v) \in Nat
      /\ v + 1 + v * (v + 2) + 1 < Passes(v)
      /\ v > 0 => Passes(v - 1) = v * (v + 2) /\ Passes(v - 1) < Passes(v)
  BY <1>1, PassesShrink
<1>3. changed \in BOOLEAN
  BY DEF LoopInv, LoopTypeOK
<1> HIDE DEF v, s
<1>4. /\ loop = "while" => StepsLeft = IF changed THEN Passes(v) ELSE 1
      /\ loop = "for" => StepsLeft =
             s + 1 + (IF changed THEN Passes(v) ELSE v * (v + 2) + 1)
  BY DEF StepsLeft, v, s
<1>5. CASE StartPass
  <2>1. loop = "while" /\ changed /\ loop' = "for" /\ ~changed' /\ v' = v /\ s' = v
    BY <1>5 DEF StartPass, v, s
  <2>2. StepsLeft' = v + 1 + (v * (v + 2) + 1)
    BY <2>1 DEF StepsLeft, v, s
  <2> QED
    BY <1>1, <1>2, <1>4, <2>1, <2>2
<1>6. ASSUME NEW k \in Key, Visit(k) PROVE StepsLeft' \in Nat /\ StepsLeft \in Nat /\ StepsLeft' < StepsLeft
  <2>1. loop = "for" /\ loop' = "for" /\ k \in snapshot /\ k \in verified /\ snapshot' = snapshot \ {k}
    BY <1>6 DEF Visit, Step, Keep, Discard, LoopInv
  <2>2. s' = s - 1 /\ s > 0
    BY <1>1, <2>1, FS_RemoveElement, FS_EmptySet DEF s
  <2>3. CASE verified' = verified /\ changed' = changed
    <3>1. v' = v
      BY <2>3 DEF v
    <3>2. StepsLeft' = (s - 1) + 1 + (IF changed THEN Passes(v) ELSE v * (v + 2) + 1)
      BY <2>1, <2>2, <2>3, <3>1 DEF StepsLeft, v, s
    <3> QED
      BY <1>1, <1>2, <1>3, <1>4, <2>1, <2>2, <3>2
  <2>4. CASE verified' = verified \ {k} /\ changed'
    <3>0. k \in verified /\ verified' = verified \ {k}
      BY <2>1, <2>4
    <3>1. v' = v - 1 /\ v > 0
      BY <1>1, <3>0, FS_RemoveElement, FS_EmptySet DEF v
    <3>2. StepsLeft' = (s - 1) + 1 + Passes(v - 1)
      BY <2>1, <2>2, <2>4, <3>1 DEF StepsLeft, v, s
    <3> QED
      BY <1>1, <1>2, <1>3, <1>4, <2>1, <2>2, <3>1, <3>2
  <2> QED
    BY <1>6, <2>3, <2>4 DEF Visit, Step, Keep, Discard
<1>7. CASE EndPass
  <2>1. loop = "for" /\ loop' = "while" /\ changed' = changed /\ v' = v
    BY <1>7 DEF EndPass, v
  <2>2. StepsLeft' = IF changed THEN Passes(v) ELSE 1
    BY <2>1 DEF StepsLeft, v
  <2> QED
    BY <1>1, <1>2, <1>3, <1>4, <2>1, <2>2
<1>8. CASE Return
  <2>1. loop = "while" /\ loop' = "done" /\ ~changed
    BY <1>8 DEF Return
  <2>2. StepsLeft' = 0 /\ StepsLeft = 1
    BY <1>4, <2>1 DEF StepsLeft
  <2> QED
    BY <2>2
<1> QED
  BY <1>5, <1>6, <1>7, <1>8 DEF LoopNext

(* What safety can say of termination (crossref.py:44-56): no step of the  *)
(* loop is idle, and over n verified artifacts there are at most           *)
(* (n + 1) * (n + 3) of them, whatever rests on what.                      *)
LoopRunsOut ==
    [][StepsLeft' < StepsLeft /\ {StepsLeft, StepsLeft'} \subseteq Nat]_loopVars
THEOREM LoopIsBounded == ASSUME IsFiniteSet(Key) PROVE LoopSpec => LoopRunsOut
<1>1. LoopInv /\ [LoopNext]_loopVars =>
          [StepsLeft' < StepsLeft /\ {StepsLeft, StepsLeft'} \subseteq Nat]_loopVars
  BY StepsShrink
<1> QED
  BY <1>1, LoopCorrect, PTL DEF LoopSpec, LoopRunsOut
=============================================================================
