------------------------------- MODULE Drafts -------------------------------
(***************************************************************************)
(* The drafting exchanges: what a model drafted into files of the target   *)
(* is grounded against the code, one exchange after the other, and folded  *)
(* into a run.  Alerts, runbooks and design patterns become artifacts of   *)
(* the KB; contract, deployment and coverage reviews become reports;       *)
(* captions go onto the rendered diagrams.                                 *)
(*                                                                         *)
(* Grounding reads the code of the moment, while the KB, the fact ledger   *)
(* and the projections are those of a run that may be older.               *)
(***************************************************************************)
EXTENDS Naturals, FiniteSets, Sequences, SequencesExt

CONSTANTS
    AlertName,     \* alerts the scaffolder may emit
    WithRunbook,   \* those of them it emits a runbook with
    Anchor, Path, Message, Pattern, App,
    Code,          \* the versions of the target, as the engine reads them
    Files,         \* what the proposals files may hold
    MaxRuns,
    MaxTroubles    \* crashes, edits and captions given by hand

Exchange == {"alerts", "runbooks", "architecture", "contract", "pcf",
             "areas", "narrations"}
Check == {"single-instance", "port-health-check", "missing-disk-quota",
          "env-config-binding"}
Level == {"error", "warn", "info"}

(* An anchor is a run of whole lines; it is found in one file or in none,  *)
(* and covers log statements, in the order of the facts.                   *)
Found == [path : Path, java : BOOLEAN, spec : BOOLEAN,
          logs : Seq([level : Level, message : Message \cup {""}])]

CodeShape(c) ==
    /\ c.alerts \subseteq AlertName
    /\ DOMAIN c.at \subseteq Anchor /\ \A a \in DOMAIN c.at : c.at[a] \in Found
    /\ c.patterns \subseteq Pattern
    /\ c.facts \cup c.gapFacts \subseteq Path
    (* A manifest, the base one or that of an environment.                 *)
    /\ \A m \in c.apps : m.app \in App /\ m.holds \subseteq Check
    /\ c.changed \subseteq {"GET /orders", "POST /orders"}

ASSUME DraftsAssumption ==
    /\ WithRunbook \subseteq AlertName
    /\ AlertName \cap Message = {}
    /\ \A c \in Code : CodeShape(c)
    /\ \A f \in Files : DOMAIN f = Exchange
    /\ MaxRuns \in Nat /\ MaxTroubles \in Nat

VARIABLES
    code, files,
    kb,        \* files of kb/: status, kind, name, and who wrote them
    ledger,    \* facts.jsonl: the paths that facts of the run cite
    advice,    \* reports/engine-recommendations.json
    review,    \* reports/contract-review.json
    findings,  \* .sre/pcf-review.json, in the target
    pages,     \* captions on each diagram that was rendered
    pc, runs, troubles,
    (* The rest is history.                                                *)
    emitted,   \* alerts the run emitted, those it lost since included
    calm,      \* nobody edited the code since the run began
    adviser    \* the run that wrote the advice

vars == <<code, files, kb, ledger, advice, review, findings, pages, pc, runs,
          troubles, emitted, calm, adviser>>

Diagram == {"Architecture", "Flow", "Topology"}
Page == [kind : Diagram, name : {"service", "proposed-patterns"}]

Steps == <<"alerts", "runbooks", "architecture", "contract", "pcf", "areas",
           "narrations">>
Resting == {"none", "ready", "failed", "done"}
Ingesting == pc \in Range(Steps)

TypeOK ==
    /\ code \in Code /\ files \in Files
    /\ \A d \in kb : /\ d.status \in {"verified", "needs-review"}
                     /\ d.by \in {"engine", "model"}
                     /\ d.by = "model" => d.status = "needs-review"
    /\ ledger \subseteq Path
    /\ \A r \in advice : r.path \in Path
    /\ DOMAIN pages \subseteq Page
    /\ pc \in Resting \cup Range(Steps)
    /\ runs \in 0..MaxRuns /\ troubles \in 0..MaxTroubles

Init ==
    /\ code \in Code /\ files \in Files
    /\ kb = {} /\ ledger = {} /\ advice = {} /\ review = {} /\ findings = {}
    /\ pages = <<>> /\ pc = "none" /\ runs = 0 /\ troubles = 0
    /\ emitted = {} /\ calm = TRUE /\ adviser = 0
-----------------------------------------------------------------------------
(* What the scaffolder makes of a version of the code.                     *)
Engine(kind, name, status) ==
    [kind |-> kind, name |-> name, status |-> status, by |-> "engine",
     item |-> 0]
Scaffolded(c) ==
    {Engine("Alert", a, IF a \in WithRunbook THEN "needs-review"
                                             ELSE "verified") : a \in c.alerts}
    \cup {Engine("Runbook", a, "needs-review") : a \in c.alerts \cap WithRunbook}
    \cup {Engine(k, "service", "verified") : k \in Diagram}

(* A run under the same run id: the KB is cleared, reports and projections *)
(* are not.  The ledger has the proposed gaps, too.                        *)
Run ==
    /\ pc \in Resting /\ runs < MaxRuns
    /\ runs' = runs + 1 /\ pc' = "ready"
    /\ kb' = Scaffolded(code)
    /\ ledger' = code.facts \cup code.gapFacts
    /\ emitted' = code.alerts /\ calm' = TRUE
    /\ UNCHANGED <<code, files, advice, review, findings, pages, troubles,
                   adviser>>

(* A verdict against an alert: out of the KB, or down to review.           *)
Challenge ==
    /\ pc = "ready"
    /\ \E d \in kb :
          /\ d.kind = "Alert"
          /\ \/ kb' = kb \ {d}
             \/ /\ d.status = "verified"
                /\ kb' = (kb \ {d}) \cup {[d EXCEPT !.status = "needs-review"]}
    /\ UNCHANGED <<code, files, ledger, advice, review, findings, pages, pc,
                   runs, troubles, emitted, calm, adviser>>

Ingest ==
    /\ pc = "ready" /\ pc' = "alerts"
    /\ UNCHANGED <<code, files, kb, ledger, advice, review, findings, pages,
                   runs, troubles, emitted, calm, adviser>>

(* _write_kb_doc: no gate; a file of the same name is replaced.  No two    *)
(* drafts of one exchange differ under one name.                           *)
FileOf(d) == <<d.status, d.kind, d.name>>
Wrote(dir, drafts) ==
    {f \in dir : \A d \in drafts : FileOf(f) # FileOf(d)} \cup drafts
Draft(kind, name, item) ==
    [kind |-> kind, name |-> name, status |-> "needs-review", by |-> "model",
     item |-> item]

(* A file that is absent or not JSON drafts nothing; if the list is a      *)
(* number, the loop over it raises and the ingestion ends there.           *)
Items(e) == IF files[e].is = "list" THEN files[e].of ELSE <<>>
Next1(e) ==
    IF files[e].is = "scalar" THEN "failed"
    ELSE IF e = "narrations" THEN "done"
    ELSE Steps[CHOOSE i \in DOMAIN Steps : i > 1 /\ Steps[i - 1] = e]
-----------------------------------------------------------------------------
(* Mutant of Alertable: the level is not looked at.                        *)
AnyLine(item) ==
    /\ item.anchor \in DOMAIN code.at
    /\ LET at == code.at[item.anchor]
       IN  at.java /\ at.logs # <<>> /\ Head(at.logs).message # ""

(* The first log statement in the lines of the anchor decides; only a Java *)
(* file has statements, and the alert searches for its message, which      *)
(* names it: messages are told apart by what a name keeps of them.         *)
Alertable(item) ==
    /\ item.anchor \in DOMAIN code.at
    /\ LET at == code.at[item.anchor]
       IN  /\ at.java /\ at.logs # <<>>
           /\ Head(at.logs).level \in {"error", "warn"}
           /\ Head(at.logs).message # ""

DraftAlerts ==
    /\ pc = "alerts" /\ pc' = Next1("alerts")
    /\ kb' = Wrote(kb, {Draft("Alert", Head(code.at[i.anchor].logs).message, 0) :
                            i \in {i \in Range(Items("alerts")) : Alertable(i)}})
    /\ UNCHANGED <<code, files, ledger, advice, review, findings, pages,
                   runs, troubles, emitted, calm, adviser>>

(* Mutant of Triggers: alerts that have a runbook are not refused.         *)
TriggersAny(item) == item.alert \in code.alerts

(* The alert must be scaffolded from the code of the moment, and not come  *)
(* with a runbook already.                                                 *)
Triggers(item) == item.alert \in code.alerts \ WithRunbook

(* Of two drafts for one alert the first is taken.                         *)
DraftRunbooks ==
    /\ pc = "runbooks" /\ pc' = Next1("runbooks")
    /\ LET items == Items("runbooks")
           taken(i) == /\ Triggers(items[i])
                       /\ \A j \in 1..(i - 1) : items[j].alert # items[i].alert
       IN  kb' = Wrote(kb, {Draft("Runbook", items[i].alert, i) :
                                i \in {i \in DOMAIN items : taken(i)}})
    /\ UNCHANGED <<code, files, ledger, advice, review, findings, pages,
                   runs, troubles, emitted, calm, adviser>>

(* The patterns that the scan proves are refuted as duplicates; the others *)
(* go into one artifact.  Which files an anchor is looked for in is left   *)
(* to the environment.                                                     *)
MapArchitecture ==
    /\ pc = "architecture" /\ pc' = Next1("architecture")
    /\ kb' = IF \E i \in Range(Items("architecture")) :
                    i.pattern \notin code.patterns /\ i.anchor \in DOMAIN code.at
             THEN Wrote(kb, {Draft("Architecture", "proposed-patterns", 0)})
             ELSE kb
    /\ UNCHANGED <<code, files, ledger, advice, review, findings, pages,
                   runs, troubles, emitted, calm, adviser>>

(* A semantic break quotes the current specification, of an operation that *)
(* the structural comparison did not flag.                                 *)
ContractOutcome(item) ==
    IF ~(item.anchor \in DOMAIN code.at /\ code.at[item.anchor].spec)
    THEN "unlocatable"
    ELSE IF item.operation \in code.changed THEN "refuted" ELSE "routed"
ReviewContract ==
    /\ pc = "contract" /\ pc' = Next1("contract")
    /\ review' = IF files["contract"].is \in {"absent", "scalar"} THEN review
                 ELSE {[operation |-> i.operation, result |-> ContractOutcome(i)] :
                          i \in Range(Items("contract"))}
    /\ UNCHANGED <<code, files, kb, ledger, advice, findings, pages, runs,
                   troubles, emitted, calm, adviser>>

(* A check is routed if any manifest of the app proves it.                 *)
ReviewPcf ==
    /\ pc = "pcf" /\ pc' = Next1("pcf")
    /\ findings' = IF files["pcf"].is \in {"absent", "scalar"} THEN findings
                   ELSE {i \in Range(Items("pcf")) :
                            /\ i.check \in Check
                            /\ \E m \in code.apps : /\ m.app = i.app
                                                    /\ i.check \in m.holds}
    /\ UNCHANGED <<code, files, kb, ledger, advice, review, pages, runs,
                   troubles, emitted, calm, adviser>>

(* Mutant of BlindSpot: only the file of the anchor is looked up.          *)
BlindAtAnchor(item) ==
    item.anchor \in DOMAIN code.at /\ code.at[item.anchor].path \notin ledger

(* No fact of the run cites a file of the area.                            *)
BlindSpot(item) ==
    /\ item.anchor \in DOMAIN code.at
    /\ (item.files \cup {code.at[item.anchor].path}) \cap ledger = {}

Advise ==
    LET kept == {i \in Range(Items("areas")) : BlindSpot(i)}
    IN  IF kept = {} THEN UNCHANGED <<advice, adviser>>
        ELSE /\ advice' = {[path |-> code.at[i.anchor].path, files |-> i.files] :
                              i \in kept}
             /\ adviser' = runs
DiscoverAreas ==
    /\ pc = "areas" /\ pc' = Next1("areas") /\ Advise
    /\ UNCHANGED <<code, files, kb, ledger, review, findings, pages, runs,
                   troubles, emitted, calm>>

(* The command discover-areas, against the ledger of a run.                *)
AreasAgain ==
    /\ pc \in Resting \ {"none"} /\ files["areas"].is # "scalar" /\ Advise
    /\ UNCHANGED <<code, files, kb, ledger, review, findings, pages, pc, runs,
                   troubles, emitted, calm>>
-----------------------------------------------------------------------------
DiagramsOf(dir) ==
    {[kind |-> d.kind, name |-> d.name] : d \in {x \in dir : x.kind \in Diagram}}

(* Every diagram of the KB is drawn anew; pages of others stay.            *)
Rendered == [p \in DiagramsOf(kb) \cup DOMAIN pages |->
                IF p \in DiagramsOf(kb) THEN 0 ELSE pages[p]]

(* A name is looked up among the artifacts in the order of their paths,    *)
(* the last one stays: verified after needs-review, then by kind.          *)
KindRank(k) == CASE k = "Architecture" -> 1 [] k = "Flow" -> 2 [] OTHER -> 3
Named(dir, name) ==
    {d \in dir :
        /\ d.kind \in Diagram /\ d.name = name
        /\ \A e \in dir : e.kind \in Diagram /\ e.name = name =>
              \/ e.status # d.status /\ d.status = "verified"
              \/ e.status = d.status /\ KindRank(e.kind) <= KindRank(d.kind)}

(* Each usable caption is appended to the page of the diagram it names.    *)
Captioned(drawn) ==
    LET on(p) == {i \in DOMAIN Items("narrations") :
                    LET n == Items("narrations")[i]
                    IN  /\ n.text
                        /\ \E d \in Named(kb, n.diagram) :
                              p = [kind |-> d.kind, name |-> d.name]}
    IN  [p \in DOMAIN drawn |-> drawn[p] + Cardinality(on(p))]

Narrate ==
    /\ pc = "narrations" /\ pc' = Next1("narrations")
    /\ pages' = CASE files["narrations"].is = "absent" -> pages
                  [] OTHER -> Captioned(Rendered)
    /\ UNCHANGED <<code, files, kb, ledger, advice, review, findings, runs,
                   troubles, emitted, calm, adviser>>

(* The command narrate-diagrams: pages that were rendered are taken as they*)
(* are, captions included.                                                 *)
NarrateAgain ==
    /\ pc \in Resting \ {"none"} /\ files["narrations"].is # "scalar"
    /\ troubles < MaxTroubles /\ troubles' = troubles + 1
    /\ pages' = Captioned(IF pages = <<>> THEN Rendered ELSE pages)
    /\ UNCHANGED <<code, files, kb, ledger, advice, review, findings, pc, runs,
                   emitted, calm, adviser>>
-----------------------------------------------------------------------------
Edit ==
    /\ troubles < MaxTroubles /\ troubles' = troubles + 1
    /\ \/ code' \in Code \ {code} /\ calm' = FALSE /\ UNCHANGED files
       \/ files' \in Files \ {files} /\ UNCHANGED <<code, calm>>
    /\ UNCHANGED <<kb, ledger, advice, review, findings, pages, pc, runs,
                   emitted, adviser>>

Crash ==
    /\ Ingesting /\ troubles < MaxTroubles
    /\ troubles' = troubles + 1 /\ pc' = "failed"
    /\ UNCHANGED <<code, files, kb, ledger, advice, review, findings, pages,
                   runs, emitted, calm, adviser>>

Next == \/ Run \/ Challenge \/ Ingest
        \/ DraftAlerts \/ DraftRunbooks \/ MapArchitecture \/ ReviewContract
        \/ ReviewPcf \/ DiscoverAreas \/ AreasAgain \/ Narrate \/ NarrateAgain
        \/ Edit \/ Crash
Spec == Init /\ [][Next]_vars
-----------------------------------------------------------------------------
(* "an Alert that already has a runbook is refuted (no duplicate)"         *)
(* (runbooks_draft.py:10), and nothing else that is drafted takes the      *)
(* place of an artifact of the scan: an ingestion only adds, whatever was  *)
(* edited since the run and wherever it dies.                              *)
DraftsOnlyAdd ==
    [][Ingesting =>
          {d \in kb : d.by = "engine"} \subseteq kb']_vars

(* As long as the code is the one the run saw, a drafted runbook covers an *)
(* alert that the run emitted without one, and a drafted alert never       *)
(* searches for a message that the code logs below warn only.              *)
DraftsStandOnTheRun ==
    calm => \A d \in kb : d.by = "model" =>
        /\ d.kind = "Runbook" => d.name \in emitted \ WithRunbook
        /\ d.kind = "Alert" =>
              \E a \in DOMAIN code.at : \E i \in DOMAIN code.at[a].logs :
                  /\ code.at[a].logs[i].message = d.name
                  /\ code.at[a].logs[i].level # "info"

(* Advice written for the present run names no file that a fact of the run *)
(* cites, among the files of the area or at its anchor, whatever the code  *)
(* became since: the ledger, not the code, says what is covered.           *)
AdviceIsBlind ==
    adviser = runs =>
        \A r \in advice : ({r.path} \cup r.files) \cap ledger = {}

-----------------------------------------------------------------------------
(* "a drafted runbook must trigger on a real Alert in this run"            *)
(* (runbooks_draft.py:9).                                                  *)
RunbooksHaveAlerts ==
    calm => \A d \in kb : d.kind = "Runbook" =>
                \E a \in kb : a.kind = "Alert" /\ a.name = d.name
=============================================================================
