----------------------------- MODULE GapFinder -----------------------------
(***************************************************************************)
(* The gap finder: an untrusted file of proposals, each of them located in *)
(* the target and re-derived by a rule of its category, ranked into noise  *)
(* budgets, and scaffolded into artifacts beside the engine's own gaps.    *)
(*                                                                         *)
(* A scan is what the engine reads of the target.  An anchor is an excerpt *)
(* of whole lines; it may occur in several places, in the order of the     *)
(* files.  Names are what slug makes of them.                              *)
(***************************************************************************)
EXTENDS TrustGate, FiniteSets, Sequences, SequencesExt

CONSTANTS
    Anchor, Name,
    Scan,           \* the targets considered, as the engine sees them
    File,           \* the proposal files considered
    MaxCandidates, MaxNovel

-----------------------------------------------------------------------------
(* The taxonomy.                                                           *)
RefutingConcerns(category) ==
    CASE category = "missing-timeout" -> {"timeout"}
      [] category = "unguarded-critical-dependency" ->
             {"circuit-breaker", "fallback", "timeout"}
      [] OTHER -> {}
Refuting == {"missing-timeout", "unguarded-critical-dependency"}
Confirming == {"swallowed-failure", "undocumented-job"}
Judgment == {"data-loss-path", "missing-idempotency", "unbounded-resource",
             "missing-backpressure", "missing-load-shedding"}
JudgmentRefuter(category) ==
    CASE category = "missing-backpressure" -> {"backpressure"}
      [] category = "missing-load-shedding" -> {"load-shed"}
      [] OTHER -> {}
Observability == {"missing-metrics", "missing-tracing",
                  "missing-structured-logging", "missing-synthetic-monitoring"}
Logging == {"missing-log-context", "noisy-error-logging"}
Messaging == {"missing-poison-pill-handling", "unordered-consumer",
              "missing-saga-compensation"}
(* The confirm loop's own category counts as known.                        *)
Known == Refuting \cup Confirming \cup Judgment \cup Observability
             \cup Logging \cup Messaging \cup {"disabled-resilience"}

Concern == {"timeout", "circuit-breaker", "fallback", "scheduled",
            "backpressure", "load-shed"}

(* Some slug-shaped names outside Known: a discovery, a misspelling, and   *)
(* a category the messaging collector emits.                               *)
Slug == {"stale-feature-flag", "mising-timeout", "consumer-without-dlq"}
GapName == [target : Name, category : Known \cup Slug]

(* A place an anchor occurs at: the kind of file, the default target, and, *)
(* if the file parses into an enclosing type, what is seen of that type.   *)
Place == [universe : {"source", "config", "script"}, stem : Name,
          typed : BOOLEAN,       \* an enclosing type was parsed
          call : BOOLEAN,        \* an outbound client call is in scope
          swallow : BOOLEAN,     \* a swallowed failure lies at the pointer
          fires : SUBSET Concern,
          instance : SUBSET Name]  \* named by annotations of the method

ScanShape(s) ==
    /\ s.code \in [Anchor -> Seq(Place)]
    /\ s.config \in SUBSET [names : SUBSET Name, fires : SUBSET Concern]
    /\ s.proven \subseteq Observability \ {"missing-synthetic-monitoring"}
    /\ s.deadLetter \subseteq Name   \* channels with a dead-letter route
    /\ s.patterns \subseteq Name     \* ResiliencyPatterns scaffolded
    /\ s.gaps \subseteq GapName        \* Tier A's own

RawSeverity == {"critical", "high", "medium", "low", "unheard-of"}
ItemShape(p) ==
    p.is = "proposal" =>
        p \in [is : {"proposal"},
               category : Known \cup Slug \cup {"Not A Slug", ""},
               anchor : Anchor \cup {""}, target : Name \cup {"none"},
               severity : RawSeverity, novel : BOOLEAN]

ASSUME GapFinderAssumption ==
    /\ \A s \in Scan : ScanShape(s)
    /\ \A f \in File : /\ f \in Seq(Range(f))
                       /\ \A i \in DOMAIN f : ItemShape(f[i])
    /\ MaxCandidates \in Nat /\ MaxNovel \in Nat

VARIABLES
    scan, withFacts,  \* the command gap-finder runs without the fact set
    proposals,        \* of the file, as loaded
    result,           \* outcomes so far, one per proposal
    kept, capped,
    kb,               \* the gap artifacts written, by directory and name
    pc

vars == <<scan, withFacts, proposals, result, kept, capped, kb, pc>>
-----------------------------------------------------------------------------
(* Only the criticality floor says critical; what is not known is medium.  *)
Normal(severity) ==
    CASE severity = "critical" -> "high"
      [] severity \in {"high", "medium", "low"} -> severity
      [] OTHER -> "medium"
SeverityRank(severity) ==
    CASE severity = "critical" -> 0 [] severity = "high" -> 1
      [] severity = "medium" -> 2 [] severity = "low" -> 3 [] OTHER -> 4

(* load_proposals: what is no object, or lacks anchor or category, goes.   *)
(* The others keep their positions in the file.                            *)
Usable(it) == it.is = "proposal" /\ it.anchor # "" /\ it.category # ""
Loaded(file) ==
    [i \in {i \in DOMAIN file : Usable(file[i])} |->
        [file[i] EXCEPT !.severity = Normal(@)]]

(* Mutant of IsNovel: the marker is believed.                              *)
MarkedNovel(p) == p.novel
IsNovel(p) == p.category \notin Known
ValidName(category) == category \notin {"novel", "Not A Slug"}

(* The files an anchor is looked for in, by category.                      *)
Universe(p) ==
    IF IsNovel(p) THEN {"source", "config", "script"}
    ELSE IF p.category \in Observability \cup Logging \cup Messaging
         THEN {"source", "config"}
    ELSE IF p.category \in Judgment THEN {"source", "script"}
    ELSE {"source"}

Occurrences(p) ==
    LET places == scan.code[p.anchor]
    IN  {k \in DOMAIN places : places[k].universe \in Universe(p)}
Cited(p) == scan.code[p.anchor][Min(Occurrences(p))]

TargetOf(p) == IF p.target = "none" THEN Cited(p).stem ELSE p.target

(* The fact set already proves what the category says is missing.          *)
FactsRefute(p) ==
    /\ withFacts
    /\ \/ p.category \in scan.proven
       \/ /\ p.category = "missing-log-context"
          /\ "missing-structured-logging" \in scan.proven
       \/ p.category = "missing-poison-pill-handling"
              /\ p.target \in scan.deadLetter

(* The engine's own rule fires where the proposal points.                  *)
RuleFires(p) ==
    LET x == Cited(p)
    IN  \/ p.category = "swallowed-failure" /\ x.typed /\ x.swallow
        \/ p.category = "undocumented-job" /\ x.typed
               /\ "scheduled" \in x.fires

(* A config file counts if it names the instance, or if nothing does.      *)
ConfigInScope(p, c) ==
    LET names == Cited(p).instance \cup ({p.target} \ {"none"})
    IN  names = {} \/ names \cap c.names # {}

MechanismInScope(p) ==
    LET concerns == RefutingConcerns(p.category)
    IN  \/ Cited(p).fires \cap concerns # {}
        \/ \E c \in scan.config : /\ ConfigInScope(p, c)
                                  /\ c.fires \cap concerns # {}

(* Mutant of Rederived: a claim nothing refutes is the engine's own.       *)
RederivedAndGraduated(p) ==
    IF ~Cited(p).typed \/ ~Cited(p).call THEN "unconfirmable"
    ELSE IF MechanismInScope(p) THEN "refuted" ELSE "graduated"

Rederived(p) ==
    IF ~Cited(p).typed \/ ~Cited(p).call THEN "unconfirmable"
    ELSE IF MechanismInScope(p) THEN "refuted" ELSE "confirmed"

(* What becomes of a proposal before the budgets.  The pool of a survivor  *)
(* is told by its outcome: "confirmed" and "routed" share one, "novel" has *)
(* its own, and "graduated" none.                                          *)
Judgement(p) ==
    CASE IsNovel(p) /\ (~p.novel \/ ~ValidName(p.category)) -> "unconfirmable"
      [] OTHER ->
    CASE Occurrences(p) = {} -> "unlocatable"
      [] OTHER ->
    CASE IsNovel(p) -> "novel"
      [] p.category \in Observability \cup Logging \cup Messaging ->
             IF FactsRefute(p) THEN "refuted" ELSE "routed"
      [] p.category \in Confirming ->
             IF RuleFires(p) THEN "graduated" ELSE "refuted"
      [] p.category \in Judgment ->
             IF /\ Cited(p).typed
                /\ Cited(p).fires \cap JudgmentRefuter(p.category) # {}
             THEN "refuted" ELSE "routed"
      [] p.category \in Refuting -> Rederived(p)
      [] OTHER -> "unconfirmable"

Outcome == {"unconfirmable", "unlocatable", "refuted", "novel", "routed",
            "graduated", "confirmed"}

TypeOK ==
    /\ scan \in Scan /\ withFacts \in BOOLEAN
    /\ DOMAIN result \subseteq DOMAIN proposals
    /\ Range(result) \subseteq Outcome
    /\ kept \cup capped \subseteq DOMAIN result
    /\ kb \subseteq [status : Status, by : {0} \cup DOMAIN proposals,
                     name : GapName]
    /\ pc \in {"judge", "budget", "gate", "done"}

Init ==
    /\ scan \in Scan /\ withFacts \in BOOLEAN
    /\ \E f \in File : proposals = Loaded(f)
    /\ result = <<>> /\ kept = {} /\ capped = {} /\ kb = {}
    /\ pc = "judge"

(* One proposal after the other, in the order of the file.                 *)
Judge ==
    /\ pc = "judge"
    /\ \E i \in DOMAIN proposals \ DOMAIN result :
          /\ \A j \in DOMAIN proposals \ DOMAIN result : i <= j
          /\ result' = [j \in DOMAIN result \cup {i} |->
                          IF j = i THEN Judgement(proposals[i]) ELSE result[j]]
    /\ UNCHANGED <<scan, withFacts, proposals, kept, capped, kb, pc>>

EndJudge ==
    /\ pc = "judge" /\ DOMAIN result = DOMAIN proposals /\ pc' = "budget"
    /\ UNCHANGED <<scan, withFacts, proposals, result, kept, capped, kb>>

Pools == [candidates |-> {"confirmed", "routed"}, novel |-> {"novel"}]
Budgets == [candidates |-> MaxCandidates, novel |-> MaxNovel]
PoolOf(r) == {i \in DOMAIN result : result[i] \in r}

(* Mutant of Before: first come, first served.                             *)
FirstCome(i, j) == i < j

(* The sort is stable: among equals, the earlier proposal comes first.     *)
Before(i, j) ==
    LET r(k) == SeverityRank(proposals[k].severity)
    IN  r(i) < r(j) \/ (r(i) = r(j) /\ i < j)
Position(i, S) == Cardinality({j \in S : Before(j, i)})
WithinBudget(S, budget) == {i \in S : Position(i, S) < budget}

Budgeted ==
    /\ pc = "budget" /\ pc' = "gate"
    /\ LET pool(q) == PoolOf(Pools[q])
           within == UNION {WithinBudget(pool(q), Budgets[q]) :
                                q \in DOMAIN Pools}
       IN  /\ kept' = PoolOf({"graduated"}) \cup within
           /\ capped' = (UNION {pool(q) : q \in DOMAIN Pools}) \ within
    /\ UNCHANGED <<scan, withFacts, proposals, result, kb>>
-----------------------------------------------------------------------------
(* Proposal 0 stands for the engine's own gaps.                            *)
Docs == {[by |-> 0, name |-> g] : g \in IF withFacts THEN scan.gaps ELSE {}}
    \cup {[by |-> i, name |-> [target |-> TargetOf(proposals[i]),
                               category |-> proposals[i].category]] : i \in kept}

(* emit: an llm gap states that it depends on the pattern of its target.   *)
Dangling(d) ==
    /\ d.by # 0 /\ result[d.by] \in {"confirmed", "routed"}
    /\ proposals[d.by].category \notin Observability
    /\ d.name.target \notin scan.patterns

(* check_crossrefs keys what it finds by kind and name.  The command       *)
(* gap-finder does not run it.                                             *)
CrossrefOK(d) == withFacts =>
                     \A e \in Docs : e.name = d.name => ~Dangling(e)

AsScaffolded(d) ==
    LET ast == d.by = 0 \/ result[d.by] = "graduated"
    IN  [preset |-> IF ast THEN "verified" ELSE "needs-review",
         tier |-> IF ast THEN "ast" ELSE "llm",
         structural |-> d.by = 0 \/ proposals[d.by].severity
                                        \in {"high", "medium", "low"},
         evidence |-> TRUE, provenance |-> TRUE,
         crossref |-> CrossrefOK(d), confident |-> ast, clean |-> TRUE]

StatusOf(d) == PassOne(AsScaffolded(d), {})

(* The order in which documents are written: the engine's, the graduated,  *)
(* then each pool by rank.  Of two in one directory the later one stays.   *)
Wave(d) == IF d.by = 0 THEN 0
           ELSE CASE result[d.by] = "graduated" -> 1
                  [] result[d.by] = "novel" -> 3 [] OTHER -> 2
WrittenAfter(e, d) ==
    \/ Wave(e) > Wave(d)
    \/ /\ Wave(e) = Wave(d)
       /\ IF Wave(d) = 1 THEN e.by > d.by ELSE Before(d.by, e.by)

Gate ==
    /\ pc = "gate" /\ pc' = "done"
    /\ kb' = {[status |-> StatusOf(d), by |-> d.by, name |-> d.name] :
                 d \in {x \in Docs :
                           \A e \in Docs \ {x} :
                               e.name = x.name /\ StatusOf(e) = StatusOf(x)
                                   => ~WrittenAfter(e, x)}}
    /\ UNCHANGED <<scan, withFacts, proposals, result, kept, capped>>

Next == Judge \/ EndJudge \/ Budgeted \/ Gate
Spec == Init /\ [][Next]_vars /\ WF_vars(Next)
-----------------------------------------------------------------------------
(* The claims that survived, as GapChoice sees them.                       *)
Survivors ==
    [i \in DOMAIN proposals |->
        LET r == Judgement(proposals[i])
        IN  [pool |-> CASE r = "graduated" -> "graduated"
                        [] r = "novel" -> "novel"
                        [] r \in {"confirmed", "routed"} -> "candidates"
                        [] OTHER -> "dropped",
             rank |-> SeverityRank(proposals[i].severity)]]

Choice == INSTANCE GapChoice WITH claim <- Survivors, Budget <- Budgets

(* Judging one proposal after the other and capping two sorted lists       *)
(* implements the one-step choice of GapChoice: no budget is left unused,  *)
(* none is spent on a lesser gap, open discovery cannot crowd out the      *)
(* taxonomy, and nothing the engine confirmed is capped                    *)
(* (gap_finder.py:620-634).                                                *)
ImplementsChoice == Choice!Spec

(* A model's word alone verifies nothing and rejects nothing: an artifact  *)
(* made from a proposal is verified only where the engine's rule fires in  *)
(* the code, and no value in the untrusted file gets an artifact rejected. *)
OnlyRulesVerify ==
    \A e \in kb : e.by # 0 =>
        /\ e.status = "verified" =>
               /\ proposals[e.by].category \in Confirming
               /\ RuleFires(proposals[e.by])
        /\ e.status # "rejected"

(* Nothing is kept that the engine can see to be wrong, however the        *)
(* proposal is labelled: a category the engine knows meets its probe even  *)
(* under the novel marker, and an unknown one without it is dropped.       *)
ProbesCannotBeEvaded ==
    \A i \in kept : LET p == proposals[i] IN
        /\ p.category \notin Known => p.novel
        /\ p.category \in Refuting => Cited(p).call /\ ~MechanismInScope(p)
        /\ p.category \in Confirming => RuleFires(p)
        /\ ~FactsRefute(p)
        /\ ~(Cited(p).typed
                /\ Cited(p).fires \cap JudgmentRefuter(p.category) # {})

-----------------------------------------------------------------------------
(* HYBRID-PLAN.md:216: "On overlap, AST wins": a gap the engine found by   *)
(* itself stands, whatever a model proposes.                               *)
AstWins ==
    pc = "done" /\ withFacts =>
        \A g \in scan.gaps :
            \E e \in kb : e.by = 0 /\ e.name = g /\ e.status = "verified"
=============================================================================
