---------------------------- MODULE DraftsProofs ----------------------------
(***************************************************************************)
(* Proofs about the drafting exchanges, for every version of the target,   *)
(* any proposals and any history of edits, challenges and deaths.          *)
(***************************************************************************)
EXTENDS Drafts, TLAPS

-----------------------------------------------------------------------------
(* Drafts beside the artifacts of the engine.                              *)

(* The names the engine gives: no draft may take one of them.              *)
EngineNames ==
    \A d \in kb : d.by = "engine" =>
        /\ d.kind \in {"Alert", "Runbook"} \cup Diagram
        /\ d.kind = "Alert" => d.name \in AlertName
        /\ d.kind = "Runbook" => d.name \in WithRunbook
        /\ d.kind \in Diagram => d.name = "service"

(* What a model drafted, read against the code of the moment.              *)
Logged(name) ==
    \E a \in DOMAIN code.at : \E i \in DOMAIN code.at[a].logs :
        /\ code.at[a].logs[i].message = name
        /\ code.at[a].logs[i].level # "info"
Fields == {"kind", "name", "by"}
Drafted ==
    /\ \A d \in kb : d.by \in {"engine", "model"} /\ Fields \subseteq DOMAIN d
    /\ DraftsStandOnTheRun
    /\ runs \in Nat /\ (pc # "none" => runs # 0)
    /\ calm /\ runs # 0 => emitted = code.alerts

DraftInv == code \in Code /\ EngineNames /\ Drafted

(* A drafted alert searches for a message that is logged as a failure, and *)
(* no alert of the engine is named by a message.                           *)
LEMMA AlertsAreLogged ==
  ASSUME code \in Code, NEW i, Alertable(i)
  PROVE  LET name == Head(code.at[i.anchor].logs).message
         IN  Logged(name) /\ name \notin AlertName
<1> DEFINE at == code.at[i.anchor]
<1>1. i.anchor \in DOMAIN code.at /\ at.logs # <<>>
      /\ Head(at.logs).level \in {"error", "warn"} /\ Head(at.logs).message # ""
  BY DEF Alertable
<1>2. at.logs \in Seq([level : Level, message : Message \cup {""}])
  BY <1>1, DraftsAssumption DEF CodeShape, Found
<1>3. ASSUME NEW S, NEW s \in Seq(S), s # <<>>
      PROVE  1 \in DOMAIN s /\ Head(s) = s[1] /\ s[1] \in S
  <2>1. Len(s) \in Nat /\ DOMAIN s = 1..Len(s) /\ (Len(s) = 0 => s = <<>>)
    BY <1>3
  <2>2. 1 \in DOMAIN s
    BY <1>3, <2>1
  <2> QED
    BY <1>3, <2>1, <2>2
<1>4. /\ 1 \in DOMAIN at.logs /\ Head(at.logs) = at.logs[1]
      /\ Head(at.logs).message \in Message
  <2>1. /\ 1 \in DOMAIN at.logs /\ Head(at.logs) = at.logs[1]
        /\ at.logs[1] \in [level : Level, message : Message \cup {""}]
    BY <1>1, <1>2, <1>3
  <2>2. Head(at.logs).message \in Message \cup {""}
    BY <2>1
  <2> QED
    BY <1>1, <2>1, <2>2
<1>5. Head(at.logs).message \notin AlertName
  BY <1>4, DraftsAssumption
<1>6. Logged(Head(at.logs).message)
  BY <1>1, <1>4 DEF Logged
<1> QED
  BY <1>5, <1>6

(* An exchange that names its drafts like that takes no engine's place.    *)
LEMMA WroteBeside ==
  ASSUME EngineNames, NEW drafts,
         \A d \in drafts :
            /\ d.by = "model"
            /\ \/ d.kind = "Alert" /\ d.name \notin AlertName
               \/ d.kind = "Runbook" /\ d.name \notin WithRunbook
               \/ d.kind = "Architecture" /\ d.name = "proposed-patterns"
  PROVE  /\ {d \in kb : d.by = "engine"} \subseteq Wrote(kb, drafts)
         /\ \A d \in Wrote(kb, drafts) : d \in kb \/ d \in drafts
<1>1. \A f \in kb, d \in drafts : f.by = "engine" => FileOf(f) # FileOf(d)
  BY DEF EngineNames, FileOf, Diagram
<1> QED
  BY <1>1 DEF Wrote

(* What an exchange writes to the KB.                                      *)
Additions(drafts) ==
    /\ kb' = Wrote(kb, drafts)
    /\ \A d \in drafts :
          /\ d.by = "model" /\ Fields \subseteq DOMAIN d
          /\ \/ d.kind = "Alert" /\ d.name \notin AlertName /\ Logged(d.name)
             \/ d.kind = "Runbook" /\ d.name \in code.alerts \ WithRunbook
             \/ d.kind = "Architecture" /\ d.name = "proposed-patterns"

LEMMA ExchangesAdd ==
  ASSUME code \in Code, DraftAlerts \/ DraftRunbooks \/ MapArchitecture
  PROVE  kb' = kb \/ \E drafts : Additions(drafts)
<1>1. CASE DraftAlerts
  <2> DEFINE drafts == {Draft("Alert", Head(code.at[i.anchor].logs).message, 0) :
                            i \in {i \in Range(Items("alerts")) : Alertable(i)}}
  <2>1. \A d \in drafts : d.by = "model" /\ d.kind = "Alert" /\ Fields \subseteq DOMAIN d
                            /\ d.name \notin AlertName /\ Logged(d.name)
    BY AlertsAreLogged DEF Draft, Fields
  <2>2. kb' = Wrote(kb, drafts)
    BY <1>1 DEF DraftAlerts
  <2> QED
    BY <2>1, <2>2 DEF Additions
<1>2. CASE DraftRunbooks
  <2> DEFINE items == Items("runbooks")
             taken(i) == /\ Triggers(items[i])
                         /\ \A j \in 1..(i - 1) : items[j].alert # items[i].alert
             drafts == {Draft("Runbook", items[i].alert, i) :
                            i \in {i \in DOMAIN items : taken(i)}}
  <2>1. \A d \in drafts : d.by = "model" /\ d.kind = "Runbook" /\ Fields \subseteq DOMAIN d
                            /\ d.name \in code.alerts \ WithRunbook
    BY DEF Draft, Triggers, Fields
  <2>2. kb' = Wrote(kb, drafts)
    BY <1>2 DEF DraftRunbooks
  <2> QED
    BY <2>1, <2>2 DEF Additions
<1>3. CASE MapArchitecture
  <2> DEFINE drafts == {Draft("Architecture", "proposed-patterns", 0)}
  <2>1. \A d \in drafts : d.by = "model" /\ d.kind = "Architecture" /\ Fields \subseteq DOMAIN d
                            /\ d.name = "proposed-patterns"
    BY DEF Draft, Fields
  <2>2. kb' = kb \/ kb' = Wrote(kb, drafts)
    BY <1>3 DEF MapArchitecture
  <2> QED
    BY <2>1, <2>2 DEF Additions
<1> QED
  BY <1>1, <1>2, <1>3

(* The steps of an ingestion, and all others.                              *)
LEMMA DraftNext == DraftInv /\ [Next]_vars => DraftInv'
<1> SUFFICES ASSUME DraftInv, [Next]_vars PROVE DraftInv'
  OBVIOUS
<1> USE DEF DraftInv, Drafted, DraftsStandOnTheRun
<1>1. CASE UNCHANGED <<code, kb, pc, runs, emitted, calm>>
  BY <1>1 DEF EngineNames
<1>2. CASE Run
  <2>1. \A d \in kb' : /\ d.by = "engine" /\ Fields \subseteq DOMAIN d
                        /\ \/ d.kind = "Alert" /\ d.name \in code.alerts
                           \/ d.kind = "Runbook" /\ d.name \in WithRunbook
                           \/ d.kind \in Diagram /\ d.name = "service"
    BY <1>2 DEF Run, Scaffolded, Engine, Fields
  <2>2. code.alerts \subseteq AlertName
    BY DraftsAssumption DEF CodeShape
  <2>3. EngineNames'
    BY <2>1, <2>2 DEF EngineNames, Diagram
  <2> QED
    BY <1>2, <2>1, <2>3 DEF Run
<1>3. CASE Challenge
  <2>1. PICK d \in kb : kb' = kb \ {d}
           \/ kb' = (kb \ {d}) \cup {[d EXCEPT !.status = "needs-review"]}
    BY <1>3 DEF Challenge
  <2>2. \A f \in kb' : f \in kb \/ f = [d EXCEPT !.status = "needs-review"]
    BY <2>1
  <2>3. \A f \in kb' : /\ Fields \subseteq DOMAIN f
                        /\ \E g \in kb : f.kind = g.kind /\ f.name = g.name /\ f.by = g.by
    BY <2>2 DEF Fields
  <2> QED
    BY <1>3, <2>3 DEF Challenge, EngineNames
<1>4. CASE Ingest
  BY <1>4 DEF Ingest, EngineNames
<1>5. CASE DraftAlerts \/ DraftRunbooks \/ MapArchitecture
  <2>1. UNCHANGED <<code, runs, emitted, calm>> /\ pc # "none"
    BY <1>5 DEF DraftAlerts, DraftRunbooks, MapArchitecture
  <2>2. CASE kb' = kb
    BY <2>1, <2>2 DEF EngineNames
  <2>3. CASE \E drafts : Additions(drafts)
    <3>1. PICK drafts : Additions(drafts)
      BY <2>3
    <3>2. \A d \in kb' : d \in kb \/ d \in drafts
      BY <3>1 DEF Additions, Wrote
    <3>3. EngineNames'
      BY <3>1, <3>2 DEF EngineNames, Additions
    <3>4. calm => \A d \in drafts :
             /\ d.kind = "Runbook" => d.name \in emitted \ WithRunbook
             /\ d.kind = "Alert" => Logged(d.name)
      BY <2>1, <3>1 DEF Additions
    <3> QED
      BY <2>1, <3>1, <3>2, <3>3, <3>4 DEF Additions, Logged
  <2> QED
    BY <1>5, <2>2, <2>3, ExchangesAdd
<1>6. CASE ReviewContract \/ ReviewPcf \/ DiscoverAreas \/ Narrate
  <2>1. UNCHANGED <<code, kb, runs, emitted, calm>> /\ pc # "none"
    BY <1>6 DEF ReviewContract, ReviewPcf, DiscoverAreas, Narrate
  <2> QED
    BY <2>1 DEF EngineNames
<1>7. CASE AreasAgain \/ NarrateAgain
  BY <1>1, <1>7 DEF AreasAgain, NarrateAgain
<1>8. CASE Edit
  <2>1. code' \in Code /\ UNCHANGED <<kb, pc, runs, emitted>> /\ (calm' => calm /\ code' = code)
    BY <1>8 DEF Edit
  <2> QED
    BY <2>1 DEF EngineNames
<1>9. CASE Crash
  <2>1. UNCHANGED <<code, kb, runs, emitted, calm>> /\ pc # "none"
    BY <1>9 DEF Crash, Ingesting, Steps, Range
  <2> QED
    BY <2>1 DEF EngineNames
<1>10. CASE UNCHANGED vars
  BY <1>1, <1>10 DEF vars
<1> QED
  BY <1>2, <1>3, <1>4, <1>5, <1>6, <1>7, <1>8, <1>9, <1>10 DEF Next

LEMMA DraftCorrect == Spec => []DraftInv
<1>1. Init => DraftInv
  BY DEF Init, DraftInv, EngineNames, Drafted, DraftsStandOnTheRun
<1> QED
  BY <1>1, DraftNext, PTL DEF Spec

(* While nobody edits the code, a drafted runbook covers an alert the run  *)
(* emitted without one and a drafted alert a message logged as a failure.  *)
THEOREM DraftsStand == Spec => []DraftsStandOnTheRun
<1>1. DraftInv => DraftsStandOnTheRun
  BY DEF DraftInv, Drafted
<1> QED
  BY <1>1, DraftCorrect, PTL

(* An ingestion leaves every artifact of the engine where it was, whatever *)
(* became of the code and the proposals since the run, wherever it dies.   *)
THEOREM DraftsAdd == Spec => DraftsOnlyAdd
<1>1. ASSUME DraftInv, [Next]_vars, Ingesting
      PROVE  {d \in kb : d.by = "engine"} \subseteq kb'
  <2>1. CASE kb' = kb
    BY <2>1
  <2>2. CASE DraftAlerts \/ DraftRunbooks \/ MapArchitecture
    <3>1. ASSUME NEW drafts, Additions(drafts)
          PROVE  {d \in kb : d.by = "engine"} \subseteq kb'
      BY <1>1, <3>1, WroteBeside DEF Additions, DraftInv
    <3> QED
      BY <1>1, <2>1, <2>2, <3>1, ExchangesAdd DEF DraftInv
  <2>3. pc \notin {"none", "ready", "failed", "done"}
    BY <1>1 DEF Ingesting, Steps, Range
  <2> QED
    BY <1>1, <2>1, <2>2, <2>3
       DEF Next, vars, Run, Challenge, Ingest, ReviewContract, ReviewPcf, DiscoverAreas,
           AreasAgain, Narrate, NarrateAgain, Edit, Crash, Resting
<1>2. DraftInv /\ [Next]_vars =>
          [Ingesting => {d \in kb : d.by = "engine"} \subseteq kb']_vars
  BY <1>1
<1> QED
  BY <1>2, DraftCorrect, PTL DEF Spec, DraftsOnlyAdd

-----------------------------------------------------------------------------
(* Advice.                                                                 *)

(* No run is advised before it begins.                                     *)
AdviceInv ==
    /\ runs \in Nat /\ adviser \in Nat /\ adviser <= runs
    /\ AdviceIsBlind

(* Writing advice: what is kept is blind to the ledger it was looked up in.*)
LEMMA AdviseIsBlind ==
  ASSUME AdviceInv, Advise, UNCHANGED <<ledger, runs>>
  PROVE  AdviceInv'
<1> DEFINE kept == {i \in Range(Items("areas")) : BlindSpot(i)}
<1>1. CASE kept = {}
  BY <1>1 DEF Advise, AdviceInv, AdviceIsBlind
<1>2. CASE kept # {}
  <2>1. /\ advice' = {[path |-> code.at[i.anchor].path, files |-> i.files] : i \in kept}
        /\ adviser' = runs
    BY <1>2 DEF Advise
  <2>2. \A i \in kept : (i.files \cup {code.at[i.anchor].path}) \cap ledger = {}
    BY DEF BlindSpot
  <2>3. \A r \in advice' : ({r.path} \cup r.files) \cap ledger = {}
    BY <2>1, <2>2
  <2> QED
    BY <2>1, <2>3 DEF AdviceInv, AdviceIsBlind
<1> QED
  BY <1>1, <1>2

(* Every step keeps it; a run replaces the ledger and is not advised yet.  *)
LEMMA AdviceNext == AdviceInv /\ [Next]_vars => AdviceInv'
<1> SUFFICES ASSUME AdviceInv, [Next]_vars PROVE AdviceInv'
  OBVIOUS
<1>1. CASE Run
  BY <1>1 DEF Run, AdviceInv, AdviceIsBlind
<1>2. CASE DiscoverAreas \/ AreasAgain
  BY <1>2, AdviseIsBlind DEF DiscoverAreas, AreasAgain
<1>3. CASE UNCHANGED <<advice, ledger, runs, adviser>>
  BY <1>3 DEF AdviceInv, AdviceIsBlind
<1>4. CASE Challenge \/ Ingest \/ Edit \/ Crash \/ UNCHANGED vars
  BY <1>3, <1>4 DEF Challenge, Ingest, Edit, Crash, vars
<1>5. CASE DraftAlerts \/ DraftRunbooks \/ MapArchitecture \/ ReviewContract
               \/ ReviewPcf \/ Narrate \/ NarrateAgain
  BY <1>3, <1>5 DEF DraftAlerts, DraftRunbooks, MapArchitecture, ReviewContract,
                    ReviewPcf, Narrate, NarrateAgain
<1> QED
  BY <1>1, <1>2, <1>4, <1>5 DEF Next

(* Advice for a run names no file that run has facts on, however often the *)
(* code and the proposals change between the scan and the advice.          *)
THEOREM AdviceStandsOnTheLedger == Spec => []AdviceIsBlind
<1>1. Init => AdviceInv
  BY DEF Init, AdviceInv, AdviceIsBlind
<1>2. AdviceInv => AdviceIsBlind
  BY DEF AdviceInv
<1> QED
  BY <1>1, <1>2, AdviceNext, PTL DEF Spec
-----------------------------------------------------------------------------
(* Every variable keeps its type.                                          *)

(* A page is drawn of the diagrams of the engine, and of the patterns that *)
(* a model proposed.                                                       *)
Sketched ==
    \A d \in kb :
        /\ {"status", "kind", "name", "by"} \subseteq DOMAIN d
        /\ d.kind \in Diagram => d.name \in {"service", "proposed-patterns"}
KBTypeOK ==
    \A d \in kb : /\ d.status \in {"verified", "needs-review"}
                  /\ d.by \in {"engine", "model"}
                  /\ d.by = "model" => d.status = "needs-review"
TypeInv == TypeOK /\ Sketched

(* From every exchange an ingestion goes on to the next, or rests.         *)
LEMMA StepsLead ==
  ASSUME NEW e \in Range(Steps)
  PROVE  Next1(e) \in Resting \cup Range(Steps)
<1>1. DOMAIN Steps = 1..7
  BY DEF Steps
<1>2. e # "narrations" => \E i \in DOMAIN Steps : i > 1 /\ Steps[i - 1] = e
  <2>1. \E j \in 1..7 : e = Steps[j]
    BY <1>1 DEF Range
  <2>2. Steps[7] = "narrations"
    BY DEF Steps
  <2>3. ASSUME NEW j \in 1..6, e = Steps[j] PROVE j + 1 \in 1..7 /\ Steps[(j + 1) - 1] = e
    BY <2>3
  <2> QED
    BY <1>1, <2>1, <2>2, <2>3
<1> DEFINE next == CHOOSE i \in DOMAIN Steps : i > 1 /\ Steps[i - 1] = e
<1>3. e # "narrations" => next \in DOMAIN Steps
  BY <1>2
<1> HIDE DEF next
<1>4. e # "narrations" => Steps[next] \in Range(Steps)
  BY <1>3 DEF Range
<1> QED
  BY <1>4 DEF Next1, next, Resting

(* Drafts are for review, and new diagrams only of proposed patterns.      *)
LEMMA DraftsTyped ==
  ASSUME KBTypeOK, Sketched, NEW drafts, kb' = Wrote(kb, drafts),
         \A d \in drafts :
            /\ {"status", "kind", "name", "by"} \subseteq DOMAIN d
            /\ d.status = "needs-review" /\ d.by = "model"
            /\ \/ d.kind \in {"Alert", "Runbook"}
               \/ d.kind = "Architecture" /\ d.name = "proposed-patterns"
  PROVE  KBTypeOK' /\ Sketched'
<1>1. \A d \in kb' : d \in kb \/ d \in drafts
  BY DEF Wrote
<1>2. KBTypeOK'
  BY <1>1 DEF KBTypeOK
<1>3. Sketched'
  BY <1>1 DEF Sketched, Diagram
<1> QED
  BY <1>2, <1>3

LEMMA ExchangesTyped ==
  ASSUME KBTypeOK, Sketched, DraftAlerts \/ DraftRunbooks \/ MapArchitecture
  PROVE  KBTypeOK' /\ Sketched'
<1>0. \A kind, name, item :
         LET d == Draft(kind, name, item)
         IN  /\ {"status", "kind", "name", "by"} \subseteq DOMAIN d
             /\ d.status = "needs-review" /\ d.by = "model"
             /\ d.kind = kind /\ d.name = name
  BY DEF Draft
<1>1. CASE DraftAlerts
  BY <1>0, <1>1, DraftsTyped DEF DraftAlerts
<1>2. CASE DraftRunbooks
  BY <1>0, <1>2, DraftsTyped DEF DraftRunbooks
<1>3. CASE MapArchitecture
  <2>1. CASE kb' = kb
    BY <2>1 DEF KBTypeOK, Sketched
  <2>2. CASE kb' = Wrote(kb, {Draft("Architecture", "proposed-patterns", 0)})
    BY <1>0, <2>2, DraftsTyped
  <2> QED
    BY <1>3, <2>1, <2>2 DEF MapArchitecture
<1> QED
  BY <1>1, <1>2, <1>3

(* Advice names files of the target, and captions only pages.              *)
LEMMA AdviceTyped ==
  ASSUME code \in Code, \A r \in advice : r.path \in Path, Advise
  PROVE  \A r \in advice' : r.path \in Path
<1>1. \A i : BlindSpot(i) => code.at[i.anchor].path \in Path
  BY DraftsAssumption DEF BlindSpot, CodeShape, Found
<1> QED
  BY <1>1 DEF Advise

LEMMA PagesTyped ==
  ASSUME Sketched, DOMAIN pages \subseteq Page, Narrate \/ NarrateAgain
  PROVE  DOMAIN pages' \subseteq Page
<1>1. DiagramsOf(kb) \subseteq Page
  BY DEF DiagramsOf, Sketched, Page
<1>2. DOMAIN Rendered \subseteq Page
  BY <1>1 DEF Rendered
<1>3. DOMAIN Captioned(Rendered) \subseteq Page /\ DOMAIN Captioned(pages) \subseteq Page
  BY <1>2 DEF Captioned
<1> QED
  BY <1>2, <1>3 DEF Narrate, NarrateAgain

LEMMA TypeNext == TypeInv /\ [Next]_vars => TypeInv'
<1> SUFFICES ASSUME TypeInv, [Next]_vars PROVE TypeInv'
  OBVIOUS
<1>0. /\ code \in Code /\ files \in Files /\ KBTypeOK /\ Sketched
      /\ ledger \subseteq Path /\ (\A r \in advice : r.path \in Path)
      /\ DOMAIN pages \subseteq Page
      /\ pc \in Resting \cup Range(Steps)
      /\ runs \in 0..MaxRuns /\ troubles \in 0..MaxTroubles
  BY DEF TypeInv, TypeOK, KBTypeOK
<1>1. code' \in Code /\ files' \in Files
  BY <1>0 DEF Next, vars, Run, Challenge, Ingest, DraftAlerts, DraftRunbooks, MapArchitecture,
       ReviewContract, ReviewPcf, DiscoverAreas, AreasAgain, Narrate, NarrateAgain, Edit, Crash
<1>2. runs' \in 0..MaxRuns /\ troubles' \in 0..MaxTroubles
  BY <1>0, DraftsAssumption
     DEF Next, vars, Run, Challenge, Ingest, DraftAlerts, DraftRunbooks, MapArchitecture,
       ReviewContract, ReviewPcf, DiscoverAreas, AreasAgain, Narrate, NarrateAgain, Edit, Crash
<1>3. pc' \in Resting \cup Range(Steps)
  <2>1. \A e \in {"alerts", "runbooks", "architecture", "contract", "pcf", "areas",
                  "narrations"} : e \in Range(Steps)
    BY DEF Range, Steps
  <2>2. "ready" \in Resting /\ "failed" \in Resting
    BY DEF Resting
  <2> QED
    BY <1>0, <2>1, <2>2, StepsLead
       DEF Next, vars, Run, Challenge, Ingest, DraftAlerts, DraftRunbooks, MapArchitecture,
         ReviewContract, ReviewPcf, DiscoverAreas, AreasAgain, Narrate, NarrateAgain, Edit, Crash
<1>4. ledger' \subseteq Path
  <2>1. code.facts \cup code.gapFacts \subseteq Path
    BY <1>0, DraftsAssumption DEF CodeShape
  <2> QED
    BY <1>0, <2>1
       DEF Next, vars, Run, Challenge, Ingest, DraftAlerts, DraftRunbooks, MapArchitecture,
         ReviewContract, ReviewPcf, DiscoverAreas, AreasAgain, Narrate, NarrateAgain, Edit, Crash
<1>5. \A r \in advice' : r.path \in Path
  <2>1. advice' = advice \/ Advise
    BY DEF Next, vars, Run, Challenge, Ingest, DraftAlerts, DraftRunbooks, MapArchitecture,
         ReviewContract, ReviewPcf, DiscoverAreas, AreasAgain, Narrate, NarrateAgain, Edit, Crash
  <2> QED
    BY <1>0, <2>1, AdviceTyped
<1>6. DOMAIN pages' \subseteq Page
  <2>1. pages' = pages \/ Narrate \/ NarrateAgain
    BY DEF Next, vars, Run, Challenge, Ingest, DraftAlerts, DraftRunbooks, MapArchitecture,
         ReviewContract, ReviewPcf, DiscoverAreas, AreasAgain, Edit, Crash
  <2> QED
    BY <1>0, <2>1, PagesTyped
<1>7. KBTypeOK' /\ Sketched'
  <2>1. CASE kb' = kb
    BY <1>0, <2>1 DEF KBTypeOK, Sketched
  <2>2. CASE Run
    <3>1. \A d \in kb' : /\ {"status", "kind", "name", "by"} \subseteq DOMAIN d
                         /\ d.by = "engine" /\ d.status \in {"verified", "needs-review"}
                         /\ d.kind \in {"Alert", "Runbook"} \/ d.name = "service"
      BY <2>2 DEF Run, Scaffolded, Engine
    <3> QED
      BY <3>1 DEF KBTypeOK, Sketched, Diagram
  <2>3. CASE Challenge
    <3>1. PICK d \in kb : kb' = kb \ {d}
             \/ kb' = (kb \ {d}) \cup {[d EXCEPT !.status = "needs-review"]}
      BY <2>3 DEF Challenge
    <3>2. PICK down : down = [d EXCEPT !.status = "needs-review"]
      OBVIOUS
    <3>3. {"status", "kind", "name", "by"} \subseteq DOMAIN d
      BY <1>0 DEF Sketched
    <3>4. /\ DOMAIN down = DOMAIN d /\ down.status = "needs-review"
          /\ down.kind = d.kind /\ down.name = d.name /\ down.by = d.by
      BY <3>2, <3>3
    <3>5. \A f \in kb' : f \in kb \/ f = down
      BY <3>1, <3>2
    <3> QED
      BY <1>0, <3>4, <3>5 DEF KBTypeOK, Sketched
  <2>4. CASE DraftAlerts \/ DraftRunbooks \/ MapArchitecture
    BY <1>0, <2>4, ExchangesTyped
  <2> QED
    BY <2>1, <2>2, <2>3, <2>4
       DEF Next, vars, Ingest, ReviewContract, ReviewPcf, DiscoverAreas, AreasAgain, Narrate,
         NarrateAgain, Edit, Crash
<1> QED
  BY <1>1, <1>2, <1>3, <1>4, <1>5, <1>6, <1>7 DEF TypeInv, TypeOK, KBTypeOK

(* Type correctness: nothing a model drafted is ever more than for review, *)
(* whatever the files hold.                                                *)
THEOREM DraftsTypeCorrect == Spec => []TypeOK
<1>1. Init => TypeInv
  <2>1. DOMAIN <<>> = {}
    OBVIOUS
  <2> QED
    BY <2>1, DraftsAssumption DEF Init, TypeInv, TypeOK, Sketched, Resting
<1>2. TypeInv => TypeOK
  BY DEF TypeInv
<1> QED
  BY <1>1, <1>2, TypeNext, PTL DEF Spec
=============================================================================
