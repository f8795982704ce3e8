----------------------------- MODULE RunProofs ------------------------------
(***************************************************************************)
(* Proofs about the run directory and about what leaves it, for any        *)
(* artifacts, any graph that the assumptions of RunKB allow, any number of *)
(* runs and any number of crashes.                                         *)
(***************************************************************************)
EXTENDS RunPublish, TLAPS

-----------------------------------------------------------------------------
(* The gates.                                                              *)

(* Several copies have a least trusted one, which the index is left with.  *)
LEMMA IndexedIsACopy ==
  ASSUME NEW copies \in SUBSET Status, copies # {}
  PROVE  Indexed(copies) \in copies
<1>1. \E s \in copies : \A r \in copies : Trust(s) <= Trust(r)
  <2>1. CASE "rejected" \in copies
    BY <2>1 DEF Status, Trust
  <2>2. CASE "rejected" \notin copies /\ "needs-review" \in copies
    BY <2>2 DEF Status, Trust
  <2>3. CASE copies = {"verified"}
    BY <2>3 DEF Trust
  <2> QED
    BY <2>1, <2>2, <2>3 DEF Status
<1> QED
  BY <1>1 DEF Indexed

(* A verdict leaves a status where it is or lowers it.                     *)
LEMMA GateLowers ==
  ASSUME NEW s \in Status, NEW vs
  PROVE  /\ ChallengeGate(s, vs) \in Status
         /\ Trust(ChallengeGate(s, vs)) <= Trust(s)
         /\ ChallengeGate(s, vs) = "verified" => s = "verified"
  BY DEF Status, Trust, ChallengeGate

(* One verdict more is applied to what the others left.                    *)
LEMMA GateComposes ==
  ASSUME NEW s \in Status, NEW vs, NEW v
  PROVE  ChallengeGate(ChallengeGate(s, vs), {v}) = ChallengeGate(s, vs \cup {v})
<1> DEFINE N(xs) == {Normalized(x) : x \in xs}
<1>1. N(vs \cup {v}) = N(vs) \cup N({v})
  OBVIOUS
<1>2. \A w \in {"contradicted", "unsupported"} :
        w \in N(vs \cup {v}) <=> w \in N(vs) \/ w \in N({v})
  BY <1>1
<1> QED
  BY <1>2 DEF Status, ChallengeGate

(* An artifact nobody spoke of stays where the run put it.                 *)
LEMMA GateOfNothing ==
  ASSUME NEW s \in Status
  PROVE  ChallengeGate(s, {}) = s
  BY DEF ChallengeGate, Status

-----------------------------------------------------------------------------
(* Types, and what each phase of a command may work on.                    *)
Phases ==
    /\ cmd \in RunPhase => ~whole
    /\ cmd = "persist" => todo \subseteq DOMAIN staged
    /\ cmd = "challenge" => todo \subseteq [of : Reviewed, what : Reply]
    /\ unlink # Nothing =>
          /\ cmd \in {"challenge", "confirm"}
          /\ unlink.of \in Reviewed \cup Absence
TypeInv == TypeOK /\ Phases

(* A document of the last run has a status in the end.                     *)
LEMMA FinalType ==
  ASSUME TypeOK, NEW d \in DOMAIN staged
  PROVE  Final(d) \in Status
  BY DEF TypeOK, Final, Status

(* An emitted gap has a status.                                            *)
LEMMA EmittedType == EmittedStatus \subseteq Status
  BY DEF EmittedStatus, FinalStatus, Status, Doc

(* A move under way is not the absence of one.                             *)
LEMMA MoveIsSomething ==
  ASSUME NEW a, NEW s
  PROVE  [of |-> a, from |-> s] # Nothing
<1>1. DOMAIN [of |-> a, from |-> s] # DOMAIN Nothing
  BY DEF Nothing
<1> QED
  BY <1>1

(* At the start there is nothing.                                          *)
LEMMA TypeInit == Init => TypeInv
<1> SUFFICES ASSUME Init PROVE TypeInv
  OBVIOUS
<1>1. DOMAIN staged = {}
  BY DEF Init
<1>2. runs \in 0 .. MaxRuns /\ crashes \in 0 .. MaxCrashes
  BY ArtifactAssumption DEF Init
<1> QED
  BY <1>1, <1>2 DEF Init, TypeInv, TypeOK, Phases, RunPhase

(* Every step preserves types and phases.                                  *)
LEMMA TypeNext == TypeInv /\ [Next]_vars => TypeInv'
<1> SUFFICES ASSUME TypeInv, [Next]_vars PROVE TypeInv'
  OBVIOUS
<1> USE ArtifactAssumption
<1> USE DEF TypeInv, TypeOK, Phases, RunPhase, disk, history
<1>1. CASE BeginRun
  <2>1. /\ DOMAIN staged' \subseteq Document
        /\ \A d \in DOMAIN staged' : staged'[d] \in Status
        /\ facts' \subseteq Absence \cup Disabled
        /\ runs' \in 0 .. MaxRuns
    BY <1>1 DEF BeginRun
  <2> QED
    BY <1>1, <2>1 DEF BeginRun
<1>2. CASE ResetKB
  <2>1. DOMAIN staged \subseteq Task
    BY DEF Document, Task, Artifact, Tier
  <2> QED
    BY <1>2, <2>1 DEF ResetKB
<1>3. CASE WriteReadiness
  BY <1>3 DEF WriteReadiness, Credited
<1>4. CASE WriteReport
  <2>1. report' \subseteq [of : Scanned, status : Status]
    BY <1>4, FinalType DEF WriteReport, Document
  <2> QED
    BY <1>4, <2>1 DEF WriteReport
<1>5. CASE Return
  BY <1>5 DEF Return
<1>6. CASE BeginChallenge
  <2>1. todo' \subseteq [of : Reviewed, what : Reply]
    BY <1>6 DEF BeginChallenge
  <2>2. todo' \subseteq Task
    BY <2>1 DEF Task, Artifact
  <2> QED
    BY <1>6, <2>1, <2>2 DEF BeginChallenge
<1>7. CASE Unlink
  BY <1>7 DEF Unlink
<1>8. CASE EndApply
  BY <1>8 DEF EndApply
<1>9. CASE BeginConfirm
  <2>1. todo' \subseteq Task
    BY <1>9 DEF BeginConfirm, Task, Artifact
  <2> QED
    BY <1>9, <2>1 DEF BeginConfirm
<1>10. CASE Crash
  <2>0. crashes' \in 0 .. MaxCrashes
    BY <1>10 DEF Crash
  <2>1. at' \in [Artifact -> SUBSET Status]
    <3>1. CASE at' = at
      BY <3>1
    <3>2. ASSUME NEW lost,
                 at' = [a \in Artifact |-> {s \in at[a] : <<a, s>> \notin lost}]
          PROVE  at' \in [Artifact -> SUBSET Status]
      BY <3>2
    <3> QED
      BY <1>10, <3>1, <3>2 DEF Crash
  <2>2. unlink # Nothing => unlink.of \in Artifact
    OBVIOUS
  <2>3. torn' \subseteq Artifact
    BY <1>10, <2>2 DEF Crash
  <2>4. heard' \in [Artifact -> SUBSET Reply]
    BY <1>10 DEF Crash
  <2>5. /\ cmd' = "idle" /\ todo' = {} /\ unlink' = Nothing
        /\ UNCHANGED <<staged, facts, report, readiness, runs, whole, refuted>>
    BY <1>10 DEF Crash
  <2> QED
    BY <2>0, <2>1, <2>3, <2>4, <2>5
<1>11. ASSUME NEW t \in todo, PersistDoc(t) PROVE TypeInv'
  <2>1. Final(t) \in Status
    BY <1>11, FinalType DEF PersistDoc
  <2> QED
    BY <1>11, <2>1 DEF PersistDoc
<1>12. ASSUME NEW t \in todo, Rewrite(t) PROVE TypeInv'
  <2> DEFINE old == Indexed(at[t.of])
             new == ChallengeGate(old, {t.what})
  <2>1. t.of \in Reviewed /\ t.what \in Reply /\ t.of \in Artifact
    BY <1>12 DEF Rewrite, Artifact
  <2>2. CASE at[t.of] = {}
    BY <1>12, <2>2 DEF Rewrite
  <2>3. CASE at[t.of] # {}
    <3>1. /\ at' = [at EXCEPT ![t.of] = @ \cup {new}]
          /\ unlink' = Moved(t.of, old, new)
          /\ heard' = [heard EXCEPT ![t.of] = @ \cup {t.what}]
      BY <1>12, <2>3 DEF Rewrite
    <3>2. old \in Status /\ new \in Status
      BY <2>1, <2>3, IndexedIsACopy, GateLowers
    <3>3. at' \in [Artifact -> SUBSET Status] /\ heard' \in [Artifact -> SUBSET Reply]
      BY <2>1, <3>1, <3>2
    <3>4. /\ unlink' \in [of : Artifact, from : Status] \cup {Nothing}
          /\ unlink' # Nothing => unlink'.of \in Reviewed
      BY <2>1, <3>1, <3>2 DEF Moved
    <3> HIDE DEF old, new
    <3> QED
      BY <1>12, <3>3, <3>4 DEF Rewrite
  <2> QED
    BY <2>2, <2>3
<1>13. ASSUME NEW t \in todo, Refute(t) PROVE TypeInv'
  <2>1. t.of \in Absence /\ t.of \in Artifact
    BY <1>13 DEF Refute, Artifact
  <2>2. FirstCopy(at[t.of]) \in Status /\ "rejected" \in Status
    BY DEF FirstCopy, Status
  <2> QED
    BY <1>13, <2>1, <2>2 DEF Refute
<1>14. ASSUME NEW t \in todo, EmitDisabled(t) PROVE TypeInv'
  <2>0. PICK s \in EmittedStatus : at' = [at EXCEPT ![t.of] = @ \cup {s}]
    BY <1>14 DEF EmitDisabled
  <2>1. at' \in [Artifact -> SUBSET Status]
    BY <2>0, EmittedType
  <2>2. cmd = "confirm" /\ todo' = todo \ {t}
    BY <1>14 DEF EmitDisabled
  <2>3. UNCHANGED <<staged, facts, cmd, unlink, report, readiness, runs, crashes,
                    whole, torn, heard, refuted>>
    BY <1>14 DEF EmitDisabled
  <2> QED
    BY <2>1, <2>2, <2>3
<1>15. ASSUME NEW r \in Draft, IngestDraft(r) PROVE TypeInv'
  <2>1. "needs-review" \in Status /\ r \in Artifact
    BY DEF Status, Artifact
  <2> QED
    BY <1>15, <2>1 DEF IngestDraft
<1>16. CASE UNCHANGED vars
  BY <1>16 DEF vars
<1> QED
  BY <1>1, <1>2, <1>3, <1>4, <1>5, <1>6, <1>7, <1>8, <1>9, <1>10, <1>11,
     <1>12, <1>13, <1>14, <1>15, <1>16 DEF Next

(* The variables of the run directory keep their types.                    *)
THEOREM RunTypeCorrect == Spec => []TypeOK
<1>1. Spec => []TypeInv
  BY TypeInit, TypeNext, PTL DEF Spec
<1> QED
  BY <1>1, PTL DEF TypeInv

-----------------------------------------------------------------------------
(* A run.  While it writes, exactly the documents it has come to lie where *)
(* it decided; the roll-up and the report are of the same statuses.        *)
Homes(D, a) == {Final(d) : d \in {e \in D : e.of = a}}
Records == {[of |-> d.of, status |-> Final(d)] : d \in DOMAIN staged}

Persisting ==
    cmd = "persist" =>
        \A a \in Artifact : at[a] = Homes(DOMAIN staged \ todo, a)
Persisted ==
    cmd \in {"report", "return"} =>
        \A a \in Artifact : at[a] = Homes(DOMAIN staged, a)
RolledUp == cmd \in {"report", "return"} => readiness = Credited
Reported == cmd = "return" => report = Records

RunInv == TypeInv /\ Persisting /\ Persisted /\ RolledUp /\ Reported

(* What the run decided depends on its documents alone.                    *)
LEMMA SameRun ==
  ASSUME UNCHANGED staged
  PROVE  /\ \A d : Final(d)' = Final(d)
         /\ Credited' = Credited /\ Records' = Records
         /\ \A D, a : Homes(D, a)' = Homes(D, a)
<1>1. Downgraded(staged)' = Downgraded(staged) /\ DOMAIN staged' = DOMAIN staged
  OBVIOUS
<1>2. \A d : Final(d)' = Final(d)
  BY <1>1 DEF Final
<1>3. Credited' = Credited
  BY <1>1, <1>2 DEF Credited
<1>4. Records' = Records
  BY <1>1, <1>2 DEF Records
<1>5. \A D, a : Homes(D, a)' = Homes(D, a)
  BY <1>1, <1>2 DEF Homes
<1> QED
  BY <1>2, <1>3, <1>4, <1>5

(* At the start no run is going on.                                        *)
LEMMA RunInit == Init => RunInv
  BY TypeInit DEF Init, RunInv, Persisting, Persisted, RolledUp, Reported

(* Every step preserves it: the commands that are not runs are idle here.  *)
LEMMA RunNext == RunInv /\ [Next]_vars => RunInv'
<1> SUFFICES ASSUME RunInv, [Next]_vars PROVE RunInv'
  OBVIOUS
<1>0. TypeInv /\ TypeInv'
  BY TypeNext DEF RunInv
<1> USE DEF RunInv
<1>1. CASE BeginRun
  BY <1>0, <1>1 DEF BeginRun, Persisting, Persisted, RolledUp, Reported
<1>2. CASE ResetKB
  <2>1. /\ cmd' = "persist" /\ todo' = DOMAIN staged'
        /\ \A a \in Artifact : at'[a] = {}
    BY <1>2 DEF ResetKB
  <2>2. Persisting'
    BY <2>1 DEF Persisting, Homes
  <2> QED
    BY <1>0, <2>1, <2>2 DEF Persisted, RolledUp, Reported
<1>3. CASE WriteReadiness
  <2>1. /\ cmd = "persist" /\ todo = {} /\ cmd' = "report"
        /\ readiness' = Credited /\ UNCHANGED <<at, staged>>
    BY <1>3 DEF WriteReadiness
  <2>2. DOMAIN staged \ todo = DOMAIN staged'
    BY <2>1
  <2>3. Persisted' /\ RolledUp'
    BY <2>1, <2>2, SameRun DEF Persisting, Persisted, RolledUp
  <2> QED
    BY <1>0, <2>1, <2>3 DEF Persisting, Reported
<1>4. CASE WriteReport
  <2>1. /\ cmd = "report" /\ cmd' = "return" /\ report' = Records
        /\ UNCHANGED <<at, staged, readiness>>
    BY <1>4 DEF WriteReport, Records
  <2>2. Persisted' /\ RolledUp' /\ Reported'
    BY <2>1, SameRun DEF Persisted, RolledUp, Reported
  <2> QED
    BY <1>0, <2>1, <2>2 DEF Persisting
<1>5. ASSUME NEW t \in todo, PersistDoc(t) PROVE RunInv'
  <2>1. /\ cmd = "persist" /\ cmd' = "persist" /\ todo' = todo \ {t}
        /\ at' = [at EXCEPT ![t.of] = @ \cup {Final(t)}]
        /\ UNCHANGED staged
    BY <1>5 DEF PersistDoc
  <2>2. t \in DOMAIN staged /\ at \in [Artifact -> SUBSET Status]
    BY <1>0, <2>1 DEF TypeInv, TypeOK, Phases
  <2>3. ASSUME NEW a \in Artifact
        PROVE  at'[a] = Homes(DOMAIN staged \ todo', a)
    <3>1. at[a] = Homes(DOMAIN staged \ todo, a)
      BY <2>1 DEF Persisting
    <3>2. CASE t.of = a
      <4>1. {e \in DOMAIN staged \ todo' : e.of = a} =
                {e \in DOMAIN staged \ todo : e.of = a} \cup {t}
        BY <2>1, <2>2, <3>2
      <4>2. at'[a] = at[a] \cup {Final(t)}
        BY <2>1, <2>2, <3>2
      <4> QED
        BY <3>1, <4>1, <4>2 DEF Homes
    <3>3. CASE t.of # a
      <4>1. {e \in DOMAIN staged \ todo' : e.of = a} =
                {e \in DOMAIN staged \ todo : e.of = a}
        BY <2>1, <3>3
      <4>2. at'[a] = at[a]
        BY <2>1, <2>2, <3>3
      <4> QED
        BY <3>1, <4>1, <4>2 DEF Homes
    <3> QED
      BY <3>2, <3>3
  <2>4. Persisting'
    BY <2>1, <2>3, SameRun DEF Persisting
  <2> QED
    BY <1>0, <2>1, <2>4 DEF Persisted, RolledUp, Reported
<1>6. CASE /\ cmd' \notin RunPhase
  BY <1>0, <1>6 DEF RunPhase, Persisting, Persisted, RolledUp, Reported
<1>7. CASE UNCHANGED vars
  <2>1. UNCHANGED <<at, staged, cmd, todo, report, readiness>>
    BY <1>7 DEF vars
  <2>2. /\ Persisting' /\ Persisted' /\ RolledUp' /\ Reported'
    BY <2>1, SameRun DEF Persisting, Persisted, RolledUp, Reported
  <2> QED
    BY <1>0, <2>2
<1>8. \/ BeginRun \/ ResetKB \/ WriteReadiness \/ WriteReport
      \/ \E t \in todo : PersistDoc(t)
      \/ cmd' \notin RunPhase \/ UNCHANGED vars
  <2> SUFFICES ASSUME Return \/ BeginChallenge \/ Unlink \/ EndApply
                      \/ BeginConfirm \/ Crash
                      \/ (\E t \in todo : Rewrite(t) \/ Refute(t) \/ EmitDisabled(t))
                      \/ (\E r \in Draft : IngestDraft(r))
               PROVE  cmd' \notin RunPhase
    BY DEF Next
  <2>1. Unlink => cmd' \in {"challenge", "confirm"}
    BY <1>0 DEF Unlink, TypeInv, Phases
  <2> QED
    BY <2>1 DEF Return, BeginChallenge, EndApply, BeginConfirm, Crash, Rewrite,
                Refute, EmitDisabled, IngestDraft, RunPhase
<1> QED
  BY <1>1, <1>2, <1>3, <1>4, <1>5, <1>6, <1>7, <1>8

(* It holds of every run directory at any time.                            *)
LEMMA RunCorrect == Spec => []RunInv
  BY RunInit, RunNext, PTL DEF Spec

(* A run leaves exactly its own artifacts, where it decided, whatever      *)
(* earlier runs, drafts, emitted gaps and crashes had left there.          *)
THEOREM RunStartsAfresh == Spec => []RunForgetsThePast
<1>1. RunInv => RunForgetsThePast
  BY DEF RunInv, Persisted, Homes, RunForgetsThePast
<1> QED
  BY <1>1, RunCorrect, PTL

(* The report and the readiness score a run returns with are of the files. *)
THEOREM ReportIsTrue == Spec => []ReportAgreesWithKB
<1>1. ASSUME RunInv, cmd = "return", NEW a \in Scanned, NEW s \in Status
      PROVE  s \in at[a] <=> [of |-> a, status |-> s] \in report
  <2>1. at[a] = Homes(DOMAIN staged, a) /\ report = Records
    BY <1>1 DEF RunInv, Persisted, Reported, Artifact
  <2> QED
    BY <2>1 DEF Homes, Records
<1>2. ASSUME RunInv, cmd = "return"
      PROVE  readiness = {a \in Reviewed : "verified" \in at[a]}
  <2>1. readiness = Credited
    BY <1>2 DEF RunInv, RolledUp
  <2>2. \A a \in Reviewed : at[a] = Homes(DOMAIN staged, a)
    BY <1>2, ArtifactAssumption DEF RunInv, Persisted, Artifact
  <2> QED
    BY <2>1, <2>2 DEF Homes, Credited
<1>3. RunInv => ReportAgreesWithKB
  BY <1>1, <1>2 DEF ReportAgreesWithKB
<1> QED
  BY <1>3, RunCorrect, PTL

-----------------------------------------------------------------------------
(* After a run: what the commands do to the files it has left.             *)
MoveKeepsACopy == unlink # Nothing => \E s \in at[unlink.of] : s # unlink.from

(* A gap without a twin never lies in two directories a refutation empties.*)
OneCopyOfGap ==
    whole => \A d \in DOMAIN staged : d.of \in Absence \ Twin =>
                 \A r, s \in at[d.of] \ {"rejected"} : r = s

(* Nothing has been said yet of what a run is about to leave.              *)
Unheard ==
    cmd \in {"persist", "report", "return"} =>
        torn = {} /\ refuted = {} /\ heard = [a \in Artifact |-> {}]

(* What stays when the move under way is over, and where it ought to be.   *)
Stays(a) ==
    at[a] \ (IF unlink # Nothing /\ unlink.of = a THEN {unlink.from} ELSE {})
Told(d) ==
    IF d.of \in refuted THEN "rejected" ELSE ChallengeGate(Final(d), heard[d.of])
FilesTell ==
    whole => \A d \in DOMAIN staged :
                 d.of \notin Twin \cup torn => Stays(d.of) = {Told(d)}

KBInv ==
    /\ RunInv /\ MoveKeepsACopy /\ Unheard
    /\ NothingLost /\ FoundationsOnDisk /\ OneCopyOfGap /\ FilesTell

(* What a run leaves, in one place unless it has a twin.                   *)
LEMMA RunLeaves ==
  ASSUME RunInv, cmd = "return"
  PROVE  /\ \A d \in DOMAIN staged : Final(d) \in at[d.of]
         /\ \A d \in DOMAIN staged : d.of \notin Twin => at[d.of] = {Final(d)}
<1>1. \A a \in Artifact : at[a] = Homes(DOMAIN staged, a)
  BY DEF RunInv, Persisted
<1>2. \A d \in DOMAIN staged : d \in Document /\ d.of \in Artifact
  BY ArtifactAssumption DEF RunInv, TypeInv, TypeOK, Document, Artifact
<1>3. ASSUME NEW d \in DOMAIN staged PROVE Final(d) \in at[d.of]
  BY <1>1, <1>2 DEF Homes
<1>4. ASSUME NEW d \in DOMAIN staged, d.of \notin Twin PROVE at[d.of] = {Final(d)}
  <2>1. \A e \in DOMAIN staged : e.of = d.of => e = d
    BY <1>2, <1>4 DEF Document
  <2>2. {e \in DOMAIN staged : e.of = d.of} = {d}
    BY <2>1
  <2> QED
    BY <1>1, <1>2, <2>2 DEF Homes
<1> QED
  BY <1>3, <1>4

(* Of the artifacts a run leaves verified the foundations are verified:    *)
(* pass 2 looks at the document that counts, and a twin rests on nothing.  *)
LEMMA RunRests ==
  ASSUME RunInv, cmd = "return", NEW a \in Scanned, "verified" \in at[a],
         NEW b \in Rests[a]
  PROVE  "verified" \in at[b]
<1> DEFINE keys == VerifiedKeys(staged)
           kept == LargestClosed(keys, Rests)
<1>0. b \in Scanned
  BY ArtifactAssumption
<1>1. \A x \in Scanned : at[x] = Homes(DOMAIN staged, x)
  BY DEF RunInv, Persisted, Artifact
<1>2. PICK d \in DOMAIN staged : d.of = a /\ Final(d) = "verified"
  BY <1>1 DEF Homes
<1>3. staged[d] = "verified" /\ a \notin Downgraded(staged)
  BY <1>2 DEF Final
<1>4. d \in Document /\ a \notin Twin
  BY <1>2, RestsAssumption DEF RunInv, TypeInv, TypeOK
<1>5. a \in keys
  <2>1. d.what = "ast" /\ ~\E e \in DOMAIN staged : e.of = a /\ e.what = "llm"
    BY <1>2, <1>4 DEF RunInv, TypeInv, TypeOK, Document
  <2> QED
    BY <1>2, <1>3, <2>1 DEF VerifiedKeys
<1>6. a \in kept
  BY <1>3, <1>5 DEF Downgraded
<1>7. b \in kept /\ b \in keys
  BY <1>6 DEF LargestClosed, Closed
<1>8. PICK e \in DOMAIN staged : e.of = b /\ staged[e] = "verified"
  BY <1>7 DEF VerifiedKeys
<1>9. Final(e) = "verified"
  BY <1>7, <1>8 DEF Final, Downgraded
<1> QED
  BY <1>0, <1>1, <1>8, <1>9 DEF Homes

(* The commands leave foundations alone and verify nothing.                *)
LEMMA CommandsKeep ==
  ASSUME TypeInv, [Next]_vars, whole', ~Return
  PROVE  /\ whole /\ staged' = staged
         /\ \A a \in Scanned \ (Reviewed \cup Absence) : at'[a] = at[a]
         /\ \A a \in Scanned : "verified" \in at'[a] => "verified" \in at[a]
<1> USE ArtifactAssumption
<1> USE DEF TypeInv, TypeOK, Phases, RunPhase, disk, history, Artifact
<1>1. CASE BeginChallenge \/ EndApply \/ BeginConfirm \/ UNCHANGED vars
  BY <1>1 DEF BeginChallenge, EndApply, BeginConfirm, vars
<1>2. CASE Unlink
  BY <1>2 DEF Unlink
<1>3. CASE Crash
  BY <1>3 DEF Crash
<1>4. ASSUME NEW t \in todo, Rewrite(t)
      PROVE  /\ whole /\ staged' = staged
             /\ \A a \in Scanned \ (Reviewed \cup Absence) : at'[a] = at[a]
             /\ \A a \in Scanned : "verified" \in at'[a] => "verified" \in at[a]
  <2> DEFINE old == Indexed(at[t.of])
             new == ChallengeGate(old, {t.what})
  <2>1. t.of \in Reviewed /\ whole /\ staged' = staged
    BY <1>4 DEF Rewrite
  <2>2. CASE at[t.of] = {}
    BY <1>4, <2>1, <2>2 DEF Rewrite
  <2>3. CASE at[t.of] # {}
    <3>1. at' = [at EXCEPT ![t.of] = @ \cup {new}]
      BY <1>4, <2>3 DEF Rewrite
    <3>2. old \in at[t.of] /\ (new = "verified" => old = "verified")
      BY <2>1, <2>3, IndexedIsACopy, GateLowers
    <3> HIDE DEF old, new
    <3>3. \A a \in Scanned : at'[a] = IF a = t.of THEN at[a] \cup {new} ELSE at[a]
      BY <2>1, <3>1
    <3>4. \A a \in Scanned \ (Reviewed \cup Absence) : at'[a] = at[a]
      BY <2>1, <3>3
    <3>5. ASSUME NEW a \in Scanned, "verified" \in at'[a] PROVE "verified" \in at[a]
      <4>1. CASE a = t.of
        <5>0. at'[a] = at[a] \cup {new}
          BY <3>3, <4>1
        <5>1. "verified" \in at[a] \/ "verified" = new
          BY <3>5, <5>0
        <5> QED
          BY <3>2, <4>1, <5>1
      <4>2. CASE a # t.of
        BY <3>3, <3>5, <4>2
      <4> QED
        BY <4>1, <4>2
    <3> QED
      BY <2>1, <3>4, <3>5
  <2> QED
    BY <2>1, <2>2, <2>3
<1>5. ASSUME NEW t \in todo, Refute(t)
      PROVE  /\ whole /\ staged' = staged
             /\ \A a \in Scanned \ (Reviewed \cup Absence) : at'[a] = at[a]
             /\ \A a \in Scanned : "verified" \in at'[a] => "verified" \in at[a]
  BY <1>5 DEF Refute
<1>6. ASSUME NEW t \in todo, EmitDisabled(t)
      PROVE  whole /\ staged' = staged /\ \A a \in Scanned : at'[a] = at[a]
  BY <1>6 DEF EmitDisabled
<1>7. ASSUME NEW r \in Draft, IngestDraft(r)
      PROVE  whole /\ staged' = staged /\ \A a \in Scanned : at'[a] = at[a]
  BY <1>7 DEF IngestDraft
<1>8. ~BeginRun /\ ~ResetKB /\ ~WriteReadiness /\ ~WriteReport
      /\ ~\E t \in todo : PersistDoc(t)
  BY DEF BeginRun, ResetKB, WriteReadiness, WriteReport, PersistDoc
<1> QED
  BY <1>1, <1>2, <1>3, <1>4, <1>5, <1>6, <1>7, <1>8 DEF Next

-----------------------------------------------------------------------------
(* A step moves one artifact at most, or none of those a run left.         *)

(* A verdict, to an artifact that has a copy.                              *)
Judged(a, v) ==
    /\ a \in Reviewed /\ v \in Reply /\ unlink = Nothing /\ at[a] # {}
    /\ LET old == Indexed(at[a])
           new == ChallengeGate(old, {v})
       IN  /\ at' = [at EXCEPT ![a] = @ \cup {new}]
           /\ unlink' = Moved(a, old, new)
    /\ heard' = [heard EXCEPT ![a] = @ \cup {v}]
    /\ UNCHANGED <<torn, refuted>>

(* A dispute upheld.                                                       *)
Disproved(a) ==
    /\ a \in Absence /\ unlink = Nothing
    /\ at[a] \ {"rejected"} # {}
    /\ at' = [at EXCEPT ![a] = @ \cup {"rejected"}]
    /\ unlink' = [of |-> a, from |-> FirstCopy(at[a])]
    /\ refuted' = refuted \cup {a} /\ torn' = torn \ {a}
    /\ UNCHANGED heard

(* A file beside those of the scan.                                        *)
Added(a, s) ==
    /\ a \in Disabled \cup Draft /\ s \in Status /\ unlink = Nothing
    /\ at' = [at EXCEPT ![a] = @ \cup {s}]
    /\ UNCHANGED <<unlink, torn, refuted, heard>>

(* A crash cuts a move in two.                                             *)
Torn ==
    /\ unlink # Nothing /\ unlink' = Nothing
    /\ torn' = torn \cup {unlink.of}
    /\ heard' = [heard EXCEPT ![unlink.of] = {}]
    /\ UNCHANGED <<at, refuted>>

Still == UNCHANGED <<at, unlink, torn, heard, refuted>>

(* What a command that is not a run does to the files.                     *)
LEMMA CommandSteps ==
  ASSUME TypeInv, [Next]_vars, whole', ~Return
  PROVE  \/ Still \/ Unlink \/ Torn
         \/ \E a, v : Judged(a, v)
         \/ \E a : Disproved(a)
         \/ \E a, s : Added(a, s)
<1> USE ArtifactAssumption
<1> USE DEF TypeInv, Phases, RunPhase, disk, history
<1>1. CASE BeginChallenge \/ EndApply \/ BeginConfirm \/ UNCHANGED vars
  BY <1>1 DEF BeginChallenge, EndApply, BeginConfirm, vars, Still
<1>2. CASE Crash
  <2>1. at' = at /\ UNCHANGED refuted /\ unlink' = Nothing
    BY <1>2 DEF Crash
  <2>2. CASE unlink = Nothing
    BY <1>2, <2>1, <2>2 DEF Crash, Still
  <2>3. CASE unlink # Nothing
    BY <1>2, <2>1, <2>3 DEF Crash, Torn
  <2> QED
    BY <2>2, <2>3
<1>3. ASSUME NEW t \in todo, Rewrite(t)
      PROVE  Still \/ Judged(t.of, t.what)
  <2>1. t.of \in Reviewed /\ t.what \in Reply /\ unlink = Nothing
    BY <1>3 DEF Rewrite
  <2>2. CASE at[t.of] = {}
    BY <1>3, <2>2 DEF Rewrite, Still
  <2>3. CASE at[t.of] # {}
    BY <1>3, <2>1, <2>3 DEF Rewrite, Judged
  <2> QED
    BY <2>2, <2>3
<1>4. ASSUME NEW t \in todo, Refute(t) PROVE Still \/ Disproved(t.of)
  <2>1. CASE at[t.of] \subseteq {"rejected"}
    BY <1>4, <2>1 DEF Refute, Still
  <2>2. CASE ~(at[t.of] \subseteq {"rejected"})
    BY <1>4, <2>2 DEF Refute, Disproved
  <2> QED
    BY <2>1, <2>2
<1>5. ASSUME NEW t \in todo, EmitDisabled(t) PROVE \E s : Added(t.of, s)
  <2>1. PICK s \in EmittedStatus : at' = [at EXCEPT ![t.of] = @ \cup {s}]
    BY <1>5 DEF EmitDisabled
  <2>2. Added(t.of, s)
    BY <1>5, <2>1, EmittedType DEF EmitDisabled, Added
  <2> QED
    BY <2>2
<1>6. ASSUME NEW r \in Draft, IngestDraft(r) PROVE Added(r, "needs-review")
  BY <1>6 DEF IngestDraft, Added, Status
<1>7. ~BeginRun /\ ~ResetKB /\ ~WriteReadiness /\ ~WriteReport
      /\ ~\E t \in todo : PersistDoc(t)
  BY DEF BeginRun, ResetKB, WriteReadiness, WriteReport, PersistDoc
<1> QED
  BY <1>1, <1>2, <1>3, <1>4, <1>5, <1>6, <1>7 DEF Next

(* The artifacts of a run are of the scan.                                 *)
LEMMA RunIsOfScan ==
  ASSUME TypeOK
  PROVE  \A d \in DOMAIN staged : d.of \in Scanned /\ d.of \in Artifact
  BY ArtifactAssumption DEF TypeOK, Document, Artifact

(* A move under way keeps a copy, whichever command makes it.              *)
LEMMA MoveNext == TypeInv /\ MoveKeepsACopy /\ [Next]_vars => MoveKeepsACopy'
<1> SUFFICES ASSUME TypeInv, MoveKeepsACopy, [Next]_vars, unlink' # Nothing
             PROVE  \E s \in at'[unlink'.of] : s # unlink'.from
  BY DEF MoveKeepsACopy
<1> USE ArtifactAssumption
<1>1. ASSUME NEW t \in todo, Rewrite(t)
      PROVE  \E s \in at'[unlink'.of] : s # unlink'.from
  <2> DEFINE old == Indexed(at[t.of])
             new == ChallengeGate(old, {t.what})
  <2>1. /\ at' = [at EXCEPT ![t.of] = @ \cup {new}]
        /\ unlink' = Moved(t.of, old, new)
    BY <1>1 DEF Rewrite
  <2>2. t.of \in Artifact /\ at \in [Artifact -> SUBSET Status]
    BY <1>1 DEF Rewrite, TypeInv, TypeOK, Phases, Artifact
  <2>3. new # old /\ unlink' = [of |-> t.of, from |-> old]
    BY <2>1 DEF Moved
  <2>4. new \in at'[t.of]
    BY <2>1, <2>2
  <2> QED
    BY <2>3, <2>4
<1>2. ASSUME NEW t \in todo, Refute(t)
      PROVE  \E s \in at'[unlink'.of] : s # unlink'.from
  <2>1. /\ at' = [at EXCEPT ![t.of] = @ \cup {"rejected"}]
        /\ unlink' = [of |-> t.of, from |-> FirstCopy(at[t.of])]
    BY <1>2 DEF Refute
  <2>2. t.of \in Artifact /\ at \in [Artifact -> SUBSET Status]
    BY <1>2 DEF Refute, TypeInv, TypeOK, Artifact
  <2>3. "rejected" \in at'[t.of] /\ FirstCopy(at[t.of]) # "rejected"
    BY <2>1, <2>2 DEF FirstCopy
  <2> QED
    BY <2>1, <2>3
<1>3. CASE UNCHANGED <<at, unlink>>
  BY <1>3 DEF MoveKeepsACopy
<1>4. \/ \E t \in todo : Rewrite(t) \/ Refute(t)
      \/ UNCHANGED <<at, unlink>>
  <2>1. ~Unlink /\ ~Crash
    BY DEF Unlink, Crash
  <2>2. ~(BeginRun \/ ResetKB \/ WriteReadiness \/ WriteReport \/ Return
           \/ BeginChallenge \/ BeginConfirm)
    BY DEF BeginRun, ResetKB, WriteReadiness, WriteReport, Return, BeginChallenge,
           BeginConfirm, TypeInv, Phases
  <2>3. /\ ~\E t \in todo : PersistDoc(t) \/ EmitDisabled(t)
        /\ ~\E r \in Draft : IngestDraft(r)
    BY DEF PersistDoc, EmitDisabled, IngestDraft, TypeInv, Phases
  <2> QED
    BY <2>1, <2>2, <2>3 DEF Next, vars, disk, EndApply
<1> QED
  BY <1>1, <1>2, <1>3, <1>4

(* Nobody says anything during a run.                                      *)
LEMMA UnheardNext == TypeInv /\ Unheard /\ [Next]_vars => Unheard'
<1> SUFFICES ASSUME TypeInv, Unheard, [Next]_vars,
                    cmd' \in {"persist", "report", "return"}
             PROVE  torn' = {} /\ refuted' = {}
                    /\ heard' = [a \in Artifact |-> {}]
  BY DEF Unheard
<1>1. CASE ResetKB
  BY <1>1 DEF ResetKB
<1>2. CASE WriteReadiness \/ WriteReport \/ \E t \in todo : PersistDoc(t)
  BY <1>2 DEF WriteReadiness, WriteReport, PersistDoc, Unheard, history
<1>3. CASE UNCHANGED vars
  BY <1>3 DEF vars, Unheard
<1>4. ~(BeginRun \/ Return \/ BeginChallenge \/ EndApply \/ BeginConfirm \/ Crash)
  BY DEF BeginRun, Return, BeginChallenge, EndApply, BeginConfirm, Crash
<1>5. ~Unlink
  BY DEF Unlink, TypeInv, Phases
<1>6. /\ ~\E t \in todo : Rewrite(t) \/ Refute(t) \/ EmitDisabled(t)
      /\ ~\E r \in Draft : IngestDraft(r)
  BY DEF Rewrite, Refute, EmitDisabled, IngestDraft
<1> QED
  BY <1>1, <1>2, <1>3, <1>4, <1>5, <1>6 DEF Next

(* What holds when a run returns.                                          *)
LEMMA ReturnMakes ==
  ASSUME RunInv, Unheard, Return
  PROVE  NothingLost' /\ FoundationsOnDisk' /\ OneCopyOfGap' /\ FilesTell'
<1>1. /\ cmd = "return" /\ unlink = Nothing
      /\ UNCHANGED <<at, staged, unlink, torn, heard, refuted>>
  BY DEF Return, RunInv, TypeInv, Phases, disk
<1>2. torn = {} /\ refuted = {} /\ heard = [a \in Artifact |-> {}]
  BY <1>1 DEF Unheard
<1>3. /\ \A d \in DOMAIN staged : Final(d) \in at[d.of]
      /\ \A d \in DOMAIN staged : d.of \notin Twin => at[d.of] = {Final(d)}
  BY <1>1, RunLeaves
<1>4. NothingLost'
  BY <1>1, <1>3 DEF NothingLost
<1>5. FoundationsOnDisk'
  BY <1>1, RunRests DEF FoundationsOnDisk
<1>6. OneCopyOfGap'
  BY <1>1, <1>3 DEF OneCopyOfGap
<1>7. ASSUME NEW d \in DOMAIN staged, d.of \notin Twin
      PROVE  Stays(d.of)' = {Told(d)'}
  <2>1. Stays(d.of)' = {Final(d)}
    BY <1>1, <1>3, <1>7 DEF Stays
  <2>2. d.of \in Artifact /\ Final(d) \in Status
    BY RunIsOfScan, FinalType DEF RunInv, TypeInv
  <2>3. Final(d)' = Final(d)
    BY <1>1, SameRun
  <2>4. heard'[d.of] = {} /\ d.of \notin refuted'
    BY <1>1, <1>2, <2>2
  <2>5. Told(d)' = Final(d)
    BY <2>2, <2>3, <2>4, GateOfNothing DEF Told
  <2> QED
    BY <2>1, <2>5
<1>8. FilesTell'
  BY <1>1, <1>7 DEF FilesTell
<1> QED
  BY <1>4, <1>5, <1>6, <1>8

(* A command that is not a run loses nothing.                              *)
LEMMA CommandsLoseNothing ==
  ASSUME TypeInv, MoveKeepsACopy, NothingLost, OneCopyOfGap, [Next]_vars,
         whole', ~Return
  PROVE  NothingLost' /\ OneCopyOfGap'
<1>0. /\ whole /\ staged' = staged /\ at \in [Artifact -> SUBSET Status]
      /\ \A d \in DOMAIN staged : d.of \in Scanned /\ d.of \in Artifact
  BY CommandsKeep, RunIsOfScan DEF TypeInv, TypeOK
<1>1. \A d \in DOMAIN staged : at[d.of] # {}
  BY <1>0 DEF NothingLost
<1>2. \A d \in DOMAIN staged : d.of \in Absence \ Twin =>
          \A r, s \in at[d.of] \ {"rejected"} : r = s
  BY <1>0 DEF OneCopyOfGap
<1> SUFFICES ASSUME NEW d \in DOMAIN staged
             PROVE  /\ at'[d.of] # {}
                    /\ d.of \in Absence \ Twin =>
                          \A r, s \in at'[d.of] \ {"rejected"} : r = s
  BY <1>0 DEF NothingLost, OneCopyOfGap
<1> USE ArtifactAssumption
<1>3. CASE Still \/ Torn
  BY <1>1, <1>2, <1>3 DEF Still, Torn
<1>4. CASE Unlink
  <2>1. at' = [at EXCEPT ![unlink.of] = @ \ {unlink.from}] /\ unlink # Nothing
    BY <1>4 DEF Unlink
  <2>2. at'[d.of] \subseteq at[d.of]
    BY <1>0, <2>1
  <2>3. at'[d.of] # {}
    BY <1>0, <1>1, <2>1 DEF MoveKeepsACopy
  <2> QED
    BY <1>2, <2>2, <2>3
<1>5. ASSUME NEW a, NEW v, Judged(a, v)
      PROVE  /\ at'[d.of] # {}
             /\ d.of \in Absence \ Twin =>
                   \A r, s \in at'[d.of] \ {"rejected"} : r = s
  <2>1. PICK new : at' = [at EXCEPT ![a] = @ \cup {new}]
    BY <1>5 DEF Judged
  <2>2. a \in Reviewed
    BY <1>5 DEF Judged
  <2>3. d.of \in Absence => at'[d.of] = at[d.of]
    BY <1>0, <2>1, <2>2
  <2>4. at[d.of] \subseteq at'[d.of]
    BY <1>0, <2>1
  <2> QED
    BY <1>1, <1>2, <2>3, <2>4
<1>6. ASSUME NEW a, Disproved(a)
      PROVE  /\ at'[d.of] # {}
             /\ at'[d.of] \ {"rejected"} = at[d.of] \ {"rejected"}
  <2>1. at' = [at EXCEPT ![a] = @ \cup {"rejected"}]
    BY <1>6 DEF Disproved
  <2> QED
    BY <1>0, <1>1, <2>1
<1>7. ASSUME NEW a, NEW s, Added(a, s) PROVE at'[d.of] = at[d.of]
  BY <1>0, <1>7 DEF Added
<1> QED
  BY <1>1, <1>2, <1>3, <1>4, <1>5, <1>6, <1>7, CommandSteps

(* A command that is not a run leaves every file where the verdicts put it.*)
LEMMA CommandsTell ==
  ASSUME TypeInv, MoveKeepsACopy, OneCopyOfGap, FilesTell, [Next]_vars,
         whole', ~Return
  PROVE  FilesTell'
<1>0. /\ whole /\ staged' = staged /\ at \in [Artifact -> SUBSET Status]
      /\ heard \in [Artifact -> SUBSET Reply] /\ refuted \subseteq Absence
      /\ \A d \in DOMAIN staged : d.of \in Scanned /\ d.of \in Artifact
  BY CommandsKeep, RunIsOfScan DEF TypeInv, TypeOK
<1> SUFFICES ASSUME NEW d \in DOMAIN staged, d.of \notin Twin \cup torn'
             PROVE  Stays(d.of)' = {Told(d)'}
  BY <1>0 DEF FilesTell
<1> USE ArtifactAssumption
<1>1. Final(d)' = Final(d) /\ Final(d) \in Status
  BY <1>0, SameRun, FinalType DEF TypeInv
<1>2. d.of \notin torn => Stays(d.of) = {Told(d)}
  BY <1>0 DEF FilesTell
<1>3. CASE Still
  BY <1>1, <1>2, <1>3 DEF Still, Stays, Told
<1>4. CASE Unlink
  <2>1. /\ at' = [at EXCEPT ![unlink.of] = @ \ {unlink.from}]
        /\ unlink # Nothing /\ unlink' = Nothing
        /\ UNCHANGED <<torn, heard, refuted>>
    BY <1>4 DEF Unlink, history
  <2>2. Stays(d.of)' = Stays(d.of)
    BY <1>0, <2>1 DEF Stays
  <2> QED
    BY <1>1, <1>2, <2>1, <2>2 DEF Told
<1>5. CASE Torn
  <2>1. d.of # unlink.of /\ d.of \notin torn
    BY <1>5 DEF Torn
  <2>2. Stays(d.of)' = Stays(d.of)
    BY <1>5, <2>1 DEF Torn, Stays
  <2>3. heard'[d.of] = heard[d.of] /\ refuted' = refuted
    BY <1>0, <1>5, <2>1 DEF Torn
  <2> QED
    BY <1>1, <1>2, <2>1, <2>2, <2>3 DEF Told
<1>6. ASSUME NEW a, NEW v, Judged(a, v) PROVE Stays(d.of)' = {Told(d)'}
  <2> DEFINE old == Indexed(at[a])
             new == ChallengeGate(old, {v})
  <2>1. /\ a \in Reviewed /\ v \in Reply /\ unlink = Nothing /\ at[a] # {}
        /\ at' = [at EXCEPT ![a] = @ \cup {new}]
        /\ unlink' = Moved(a, old, new)
        /\ heard' = [heard EXCEPT ![a] = @ \cup {v}]
        /\ UNCHANGED <<torn, refuted>>
    BY <1>6 DEF Judged
  <2>2. at[d.of] = {Told(d)}
    BY <1>2, <2>1 DEF Stays
  <2>3. CASE d.of = a
    <3>1. Told(d) = ChallengeGate(Final(d), heard[a])
      BY <1>0, <2>1, <2>3 DEF Told
    <3>2. Told(d)' = ChallengeGate(Final(d), heard[a] \cup {v})
      BY <1>0, <1>1, <2>1, <2>3 DEF Told
    <3>3. old = Told(d)
      BY <1>0, <2>1, <2>2, <2>3, IndexedIsACopy
    <3>4. new = Told(d)'
      <4>1. ChallengeGate(ChallengeGate(Final(d), heard[a]), {v}) =
                ChallengeGate(Final(d), heard[a] \cup {v})
        BY <1>1, GateComposes
      <4> QED
        BY <3>1, <3>2, <3>3, <4>1
    <3> HIDE DEF old, new
    <3>5. at'[a] = {old, new}
      BY <1>0, <2>1, <2>2, <2>3, <3>3
    <3>6. CASE new = old
      <4>1. unlink' = Nothing
        BY <2>1, <3>6 DEF Moved
      <4> QED
        BY <2>3, <3>4, <3>5, <3>6, <4>1 DEF Stays
    <3>7. CASE new # old
      <4>1. unlink' = [of |-> a, from |-> old] /\ unlink' # Nothing
        BY <2>1, <3>7, MoveIsSomething DEF Moved
      <4> QED
        BY <2>3, <3>4, <3>5, <3>7, <4>1 DEF Stays
    <3> QED
      BY <3>6, <3>7
  <2>4. CASE d.of # a
    <3>1. at'[d.of] = at[d.of] /\ heard'[d.of] = heard[d.of]
      BY <1>0, <2>1, <2>4
    <3>2. unlink' # Nothing => unlink'.of = a
      BY <2>1 DEF Moved
    <3>3. Stays(d.of)' = at[d.of]
      BY <2>4, <3>1, <3>2 DEF Stays
    <3> QED
      BY <1>1, <2>1, <2>2, <3>1, <3>3 DEF Told
  <2> QED
    BY <2>3, <2>4
<1>7. ASSUME NEW a, Disproved(a) PROVE Stays(d.of)' = {Told(d)'}
  <2>1. /\ a \in Absence /\ unlink = Nothing /\ at[a] \ {"rejected"} # {}
        /\ at' = [at EXCEPT ![a] = @ \cup {"rejected"}]
        /\ unlink' = [of |-> a, from |-> FirstCopy(at[a])]
        /\ refuted' = refuted \cup {a} /\ torn' = torn \ {a}
        /\ heard' = heard
    BY <1>7 DEF Disproved
  <2>2. unlink' # Nothing
    BY <2>1, MoveIsSomething
  <2>3. CASE d.of = a
    <3>1. FirstCopy(at[a]) \in at[a] \ {"rejected"}
      BY <1>0, <2>1, <2>3 DEF FirstCopy, Status
    <3>2. at[a] \ {"rejected"} = {FirstCopy(at[a])}
      BY <1>0, <2>1, <2>3, <3>1 DEF OneCopyOfGap
    <3>3. at'[a] = at[a] \cup {"rejected"}
      BY <1>0, <2>1, <2>3
    <3>4. at'[a] \ {FirstCopy(at[a])} = {"rejected"}
      BY <3>1, <3>2, <3>3
    <3>5. Stays(d.of)' = {"rejected"}
      BY <2>1, <2>2, <2>3, <3>4 DEF Stays
    <3>6. Told(d)' = "rejected"
      BY <2>1, <2>3 DEF Told
    <3> QED
      BY <3>5, <3>6
  <2>4. CASE d.of # a
    <3>1. at'[d.of] = at[d.of] /\ d.of \notin torn
      BY <1>0, <2>1, <2>4
    <3>2. Stays(d.of)' = at[d.of] /\ Stays(d.of) = at[d.of]
      BY <2>1, <2>4, <3>1 DEF Stays
    <3>3. d.of \in refuted' <=> d.of \in refuted
      BY <2>1, <2>4
    <3> QED
      BY <1>1, <1>2, <2>1, <3>1, <3>2, <3>3 DEF Told
  <2> QED
    BY <2>3, <2>4
<1>8. ASSUME NEW a, NEW s, Added(a, s) PROVE Stays(d.of)' = {Told(d)'}
  <2>1. at'[d.of] = at[d.of] /\ UNCHANGED <<unlink, torn, refuted, heard>>
    BY <1>0, <1>8 DEF Added
  <2>2. Stays(d.of)' = Stays(d.of)
    BY <2>1 DEF Stays
  <2> QED
    BY <1>1, <1>2, <2>1, <2>2 DEF Told
<1> QED
  BY <1>3, <1>4, <1>5, <1>6, <1>7, <1>8, CommandSteps

-----------------------------------------------------------------------------
(* The inductive invariant.                                                *)
LEMMA KBInit == Init => KBInv
  BY RunInit DEF Init, KBInv, MoveKeepsACopy, Unheard, NothingLost,
                 FoundationsOnDisk, OneCopyOfGap, FilesTell

(* Every step of every command preserves it.                               *)
LEMMA KBNext == KBInv /\ [Next]_vars => KBInv'
<1> SUFFICES ASSUME KBInv, [Next]_vars PROVE KBInv'
  OBVIOUS
<1>1. RunInv' /\ MoveKeepsACopy' /\ Unheard' /\ TypeInv
  BY RunNext, MoveNext, UnheardNext DEF KBInv, RunInv
<1>2. CASE ~whole'
  BY <1>1, <1>2 DEF KBInv, NothingLost, FoundationsOnDisk, OneCopyOfGap, FilesTell
<1>3. CASE Return
  BY <1>1, <1>3, ReturnMakes DEF KBInv
<1>4. CASE whole' /\ ~Return
  <2>1. NothingLost' /\ OneCopyOfGap'
    BY <1>1, <1>4, CommandsLoseNothing DEF KBInv
  <2>2. FilesTell'
    BY <1>1, <1>4, CommandsTell DEF KBInv
  <2>3. FoundationsOnDisk'
    <3>1. /\ whole /\ \A a \in Scanned \ (Reviewed \cup Absence) : at'[a] = at[a]
          /\ \A a \in Scanned : "verified" \in at'[a] => "verified" \in at[a]
      BY <1>1, <1>4, CommandsKeep
    <3>2. \A a \in Scanned : \A b \in Rests[a] : b \in Scanned \ (Reviewed \cup Absence)
      BY ArtifactAssumption, RestsAssumption
    <3> QED
      BY <3>1, <3>2 DEF KBInv, FoundationsOnDisk
  <2> QED
    BY <1>1, <2>1, <2>2, <2>3 DEF KBInv
<1> QED
  BY <1>2, <1>3, <1>4

(* It holds of every run directory at any time.                            *)
LEMMA KBCorrect == Spec => []KBInv
  BY KBInit, KBNext, PTL DEF Spec

(* No command and no crash loses an artifact of a completed run.           *)
THEOREM NothingIsLost == Spec => []NothingLost
<1>1. KBInv => NothingLost
  BY DEF KBInv
<1> QED
  BY <1>1, KBCorrect, PTL

(* What is filed as verified rests on what is filed as verified.           *)
THEOREM FoundationsStand == Spec => []FoundationsOnDisk
<1>1. KBInv => FoundationsOnDisk
  BY DEF KBInv
<1> QED
  BY <1>1, KBCorrect, PTL

(* The directory of an artifact is what the run and the verdicts make of it*)
(* in whatever order and however often the commands were given.            *)
THEOREM DirectoryIsTheStatus == Spec => []DirectoryTellsStatus
<1>1. ASSUME KBInv, whole, cmd = "idle", NEW d \in DOMAIN staged,
             d.of \notin Twin \cup torn
      PROVE  at[d.of] = {Told(d)}
  <2>1. unlink = Nothing
    BY <1>1 DEF KBInv, RunInv, TypeInv, Phases
  <2>2. Stays(d.of) = {Told(d)}
    BY <1>1 DEF KBInv, FilesTell
  <2> QED
    BY <2>1, <2>2 DEF Stays
<1>2. KBInv => DirectoryTellsStatus
  BY <1>1 DEF DirectoryTellsStatus, Told
<1> QED
  BY <1>2, KBCorrect, PTL

-----------------------------------------------------------------------------
(* Trust.                                                                  *)

(* The best copy is one of the copies.                                     *)
LEMMA BestIsACopy ==
  ASSUME NEW copies \in SUBSET Status
  PROVE  /\ Best(copies) \in 0 .. 2
         /\ \A s \in copies : Trust(s) <= Best(copies)
         /\ copies # {} => \E s \in copies : Best(copies) = Trust(s)
<1> DEFINE ranks == {Trust(s) : s \in copies}
<1>1. CASE copies = {}
  BY <1>1 DEF Best
<1>2. CASE copies # {}
  <2>1. \E n \in ranks : \A s \in copies : Trust(s) <= n
    <3>1. CASE "verified" \in copies
      BY <3>1 DEF Status, Trust
    <3>2. CASE "verified" \notin copies /\ "needs-review" \in copies
      BY <3>2 DEF Status, Trust
    <3>3. CASE copies = {"rejected"}
      BY <3>3 DEF Trust
    <3> QED
      BY <1>2, <3>1, <3>2, <3>3 DEF Status
  <2>2. Best(copies) \in ranks /\ \A s \in copies : Trust(s) <= Best(copies)
    BY <1>2, <2>1 DEF Best
  <2> QED
    BY <2>2 DEF Status, Trust
<1> QED
  BY <1>1, <1>2

(* Copies each of which another one outranks are no better together.       *)
LEMMA BestIsMonotone ==
  ASSUME NEW old \in SUBSET Status, NEW new \in SUBSET Status,
         \A s \in new : \E r \in old : Trust(s) <= Trust(r)
  PROVE  Best(new) <= Best(old)
<1>1. CASE new = {}
  <2>1. Best(new) = 0
    BY <1>1 DEF Best
  <2> QED
    BY <2>1, BestIsACopy
<1>2. CASE new # {}
  <2>1. PICK s \in new : Best(new) = Trust(s)
    BY <1>2, BestIsACopy
  <2>2. PICK r \in old : Trust(s) <= Trust(r)
    OBVIOUS
  <2>3. Trust(r) <= Best(old) /\ Best(old) \in 0 .. 2
    BY BestIsACopy
  <2> QED
    BY <2>1, <2>2, <2>3 DEF Trust
<1> QED
  BY <1>1, <1>2

(* Outside a run no copy of a scanned artifact is worth more than one that *)
(* was there before.                                                       *)
LEMMA CommandsOutrankNothing ==
  ASSUME TypeInv, [Next]_vars, cmd \notin RunPhase, NEW a \in Scanned
  PROVE  \A s \in at'[a] : \E r \in at[a] : Trust(s) <= Trust(r)
<1>0. a \in Artifact /\ at \in [Artifact -> SUBSET Status]
  BY DEF TypeInv, TypeOK, Artifact
<1>1. \A s : Trust(s) \in 0 .. 2
  BY DEF Trust
<1>2. CASE at'[a] \subseteq at[a]
  BY <1>1, <1>2
<1>3. ASSUME NEW t \in todo, Rewrite(t)
      PROVE  \A s \in at'[a] : \E r \in at[a] : Trust(s) <= Trust(r)
  <2> DEFINE old == Indexed(at[t.of])
             new == ChallengeGate(old, {t.what})
  <2>1. CASE at[t.of] = {}
    BY <1>1, <1>3, <2>1 DEF Rewrite
  <2>2. CASE at[t.of] # {} /\ t.of = a
    <3>1. at' = [at EXCEPT ![t.of] = @ \cup {new}]
      BY <1>3, <2>2 DEF Rewrite
    <3>2. old \in at[a] /\ Trust(new) <= Trust(old)
      BY <1>0, <2>2, IndexedIsACopy, GateLowers
    <3> HIDE DEF old, new
    <3>3. at'[a] = at[a] \cup {new}
      BY <1>0, <2>2, <3>1
    <3> QED
      BY <1>1, <3>2, <3>3
  <2>3. CASE at[t.of] # {} /\ t.of # a
    BY <1>0, <1>1, <1>3, <2>3 DEF Rewrite
  <2> QED
    BY <2>1, <2>2, <2>3
<1>4. ASSUME NEW t \in todo, Refute(t)
      PROVE  \A s \in at'[a] : \E r \in at[a] : Trust(s) <= Trust(r)
  <2>1. at'[a] \subseteq at[a] \/ (at[a] # {} /\ at'[a] = at[a] \cup {"rejected"})
    <3>1. CASE at[t.of] \subseteq {"rejected"}
      BY <1>4, <3>1 DEF Refute
    <3>2. CASE ~(at[t.of] \subseteq {"rejected"})
      BY <1>0, <1>4, <3>2 DEF Refute
    <3> QED
      BY <3>1, <3>2
  <2>2. Trust("rejected") = 0
    BY DEF Trust
  <2> QED
    BY <1>1, <2>1, <2>2
<1>5. ASSUME NEW t \in todo, EmitDisabled(t) PROVE at'[a] = at[a]
  BY <1>0, <1>5, ArtifactAssumption DEF EmitDisabled
<1>6. ASSUME NEW r \in Draft, IngestDraft(r) PROVE at'[a] = at[a]
  BY <1>0, <1>6, ArtifactAssumption DEF IngestDraft
<1>7. CASE Unlink
  BY <1>0, <1>1, <1>7 DEF Unlink
<1>8. CASE Crash
  BY <1>0, <1>1, <1>8 DEF Crash, RunPhase
<1>9. CASE BeginRun \/ BeginChallenge \/ EndApply \/ BeginConfirm \/ UNCHANGED vars
  BY <1>1, <1>9 DEF BeginRun, BeginChallenge, EndApply, BeginConfirm, vars, disk
<1>10. ~ResetKB /\ ~WriteReadiness /\ ~WriteReport /\ ~Return
       /\ ~\E t \in todo : PersistDoc(t)
  BY DEF ResetKB, WriteReadiness, WriteReport, Return, PersistDoc, RunPhase
<1> QED
  BY <1>2, <1>3, <1>4, <1>5, <1>6, <1>7, <1>8, <1>9, <1>10 DEF Next

(* No command but a run makes a scanned artifact more trusted than its best*)
(* copy was, whatever the verdicts say and wherever a crash stops it.      *)
THEOREM TrustIsEarnedByRuns == Spec => OnlyRunsRaise
<1>1. ASSUME TypeInv, TypeInv', [Next]_vars, cmd \notin RunPhase, NEW a \in Scanned
      PROVE  Best(at'[a]) <= Best(at[a])
  <2>1. at[a] \in SUBSET Status /\ at'[a] \in SUBSET Status
    BY <1>1 DEF TypeInv, TypeOK, Artifact
  <2> QED
    BY <1>1, <2>1, CommandsOutrankNothing, BestIsMonotone
<1>2. TypeInv /\ TypeInv' /\ [Next]_vars =>
        [cmd \notin RunPhase => \A a \in Scanned : Best(at'[a]) <= Best(at[a])]_vars
  BY <1>1
<1>3. Spec => []TypeInv
  BY TypeInit, TypeNext, PTL DEF Spec
<1> QED
  BY <1>2, <1>3, PTL DEF Spec, OnlyRunsRaise

-----------------------------------------------------------------------------
(* What leaves the run directory.                                          *)

(* What nobody touched still lies where the run put it, and the report is  *)
(* still the run's.                                                        *)
Home(a) == Homes(DOMAIN staged, a)
Live == whole \/ cmd = "return"

MoveIsAccountedFor ==
    unlink # Nothing => heard[unlink.of] # {} \/ unlink.of \in refuted
LeftAlone ==
    Live => \A a \in Scanned \ (torn \cup refuted) :
                heard[a] = {} => at[a] = Home(a)
StillReported == Live => report = Records

RestInv == KBInv /\ MoveIsAccountedFor /\ LeftAlone /\ StillReported

(* The run directory obeys its own specification, whatever is drawn.       *)
LEMMA PubIsRun == PubInit /\ [][PubNext]_pubvars => Spec
<1>1. PubInit => Init
  BY DEF PubInit
<1>2. [PubNext]_pubvars => [Next]_vars
  BY DEF PubNext, pubvars, RenderRun, Render, StageRun, Publish, vars
<1> QED
  BY <1>1, <1>2, PTL DEF Spec

(* The place a run put an artifact depends on its documents alone.         *)
LEMMA SameHome ==
  ASSUME UNCHANGED staged
  PROVE  \A a : Home(a)' = Home(a)
<1>1. \A d : Final(d)' = Final(d)
  BY SameRun
<1> QED
  BY <1>1 DEF Home, Homes

(* A move is made for a verdict or a refutation.                           *)
LEMMA AccountNext ==
  KBInv /\ MoveIsAccountedFor /\ [Next]_vars => MoveIsAccountedFor'
<1> SUFFICES ASSUME KBInv, MoveIsAccountedFor, [Next]_vars, unlink' # Nothing
             PROVE  heard'[unlink'.of] # {} \/ unlink'.of \in refuted'
  BY DEF MoveIsAccountedFor
<1>0. TypeInv /\ heard \in [Artifact -> SUBSET Reply]
  BY DEF KBInv, RunInv, TypeInv, TypeOK
<1>1. ASSUME NEW t \in todo, Rewrite(t)
      PROVE  heard'[unlink'.of] # {}
  <2>1. /\ unlink = Nothing /\ unlink' # Nothing
        /\ t.of \in Artifact
    BY <1>0, <1>1, ArtifactAssumption DEF Rewrite, TypeInv, Phases, Artifact
  <2>2. CASE at[t.of] = {}
    BY <1>1, <2>1, <2>2 DEF Rewrite
  <2>3. CASE at[t.of] # {}
    <3>1. /\ heard' = [heard EXCEPT ![t.of] = @ \cup {t.what}]
          /\ unlink'.of = t.of
      BY <1>1, <2>1, <2>3 DEF Rewrite, Moved
    <3> QED
      BY <1>0, <2>1, <3>1
  <2> QED
    BY <2>2, <2>3
<1>2. ASSUME NEW t \in todo, Refute(t) PROVE unlink'.of \in refuted'
  BY <1>2 DEF Refute
<1>3. CASE UNCHANGED <<unlink, heard, refuted>>
  BY <1>3 DEF MoveIsAccountedFor
<1>4. \/ \E t \in todo : Rewrite(t) \/ Refute(t)
      \/ UNCHANGED <<unlink, heard, refuted>>
  <2>1. ~Unlink /\ ~Crash
    BY DEF Unlink, Crash
  <2>2. ~(BeginRun \/ ResetKB \/ WriteReadiness \/ WriteReport \/ Return
           \/ BeginChallenge \/ BeginConfirm)
    BY <1>0 DEF BeginRun, ResetKB, WriteReadiness, WriteReport, Return, BeginChallenge,
           BeginConfirm, TypeInv, Phases
  <2>3. /\ ~\E t \in todo : PersistDoc(t) \/ EmitDisabled(t)
        /\ ~\E r \in Draft : IngestDraft(r)
    BY <1>0 DEF PersistDoc, EmitDisabled, IngestDraft, TypeInv, Phases
  <2> QED
    BY <2>1, <2>2, <2>3 DEF Next, vars, history, EndApply
<1> QED
  BY <1>1, <1>2, <1>3, <1>4

(* What no verdict, refutation or crash has touched stays.                 *)
LEMMA AloneNext ==
  KBInv /\ KBInv' /\ MoveIsAccountedFor /\ LeftAlone /\ [Next]_vars => LeftAlone'
<1> SUFFICES ASSUME KBInv, KBInv', MoveIsAccountedFor, LeftAlone, [Next]_vars, Live',
                    NEW a \in Scanned \ (torn' \cup refuted'), heard'[a] = {}
             PROVE  at'[a] = Home(a)'
  BY DEF LeftAlone
<1>0. /\ TypeInv /\ at \in [Artifact -> SUBSET Status]
      /\ heard \in [Artifact -> SUBSET Reply] /\ a \in Artifact
  BY DEF KBInv, RunInv, TypeInv, TypeOK, Artifact
<1>1. CASE cmd' = "return"
  BY <1>0, <1>1 DEF KBInv, RunInv, Persisted, Home
<1>2. CASE Return
  <2>1. cmd = "return" /\ UNCHANGED <<at, staged>>
    BY <1>2 DEF Return, disk
  <2>2. at[a] = Home(a)
    BY <1>0, <2>1 DEF KBInv, RunInv, Persisted, Home
  <2> QED
    BY <2>1, <2>2, SameHome
<1>3. CASE whole' /\ ~Return
  <2>1. whole /\ staged' = staged
    BY <1>0, <1>3, CommandsKeep
  <2>2. Home(a)' = Home(a)
    BY <2>1, SameHome
  <2>3. a \notin torn \cup refuted /\ heard[a] = {} => at[a] = Home(a)
    BY <2>1 DEF LeftAlone, Live
  <2> SUFFICES at'[a] = at[a] /\ a \notin torn \cup refuted /\ heard[a] = {}
    BY <2>2, <2>3
  <2>4. CASE Still
    BY <2>4 DEF Still
  <2>5. CASE Unlink
    <3>1. /\ at' = [at EXCEPT ![unlink.of] = @ \ {unlink.from}]
          /\ unlink # Nothing /\ UNCHANGED <<torn, heard, refuted>>
      BY <2>5 DEF Unlink, history
    <3>2. unlink.of # a
      BY <3>1 DEF MoveIsAccountedFor
    <3> QED
      BY <1>0, <3>1, <3>2
  <2>6. CASE Torn
    <3>1. a # unlink.of
      BY <2>6 DEF Torn
    <3> QED
      BY <1>0, <2>6, <3>1 DEF Torn
  <2>7. ASSUME NEW b, NEW v, Judged(b, v)
        PROVE  at'[a] = at[a] /\ a \notin torn \cup refuted /\ heard[a] = {}
    <3>1. heard' = [heard EXCEPT ![b] = @ \cup {v}] /\ UNCHANGED <<torn, refuted>>
      BY <2>7 DEF Judged
    <3>2. a # b /\ heard[a] = {}
      BY <1>0, <3>1
    <3>3. PICK new : at' = [at EXCEPT ![b] = @ \cup {new}]
      BY <2>7 DEF Judged
    <3> QED
      BY <1>0, <3>1, <3>2, <3>3
  <2>8. ASSUME NEW b, Disproved(b)
        PROVE  at'[a] = at[a] /\ a \notin torn \cup refuted /\ heard[a] = {}
    BY <1>0, <2>8 DEF Disproved
  <2>9. ASSUME NEW b, NEW s, Added(b, s)
        PROVE  at'[a] = at[a] /\ a \notin torn \cup refuted /\ heard[a] = {}
    BY <1>0, <2>9, ArtifactAssumption DEF Added
  <2> QED
    BY <1>0, <1>3, <2>4, <2>5, <2>6, <2>7, <2>8, <2>9, CommandSteps
<1> QED
  BY <1>1, <1>2, <1>3 DEF Live

(* Only a run writes the report.                                           *)
LEMMA ReportedNext ==
  KBInv /\ KBInv' /\ StillReported /\ [Next]_vars => StillReported'
<1> SUFFICES ASSUME KBInv, KBInv', StillReported, [Next]_vars, Live'
             PROVE  report' = Records'
  BY DEF StillReported
<1>1. CASE cmd' = "return"
  BY <1>1 DEF KBInv, RunInv, Reported
<1>2. CASE Return
  <2>1. report = Records /\ UNCHANGED <<report, staged>>
    BY <1>2 DEF Return, disk, StillReported, Live
  <2> QED
    BY <2>1, SameRun
<1>3. CASE whole' /\ ~Return
  <2>1. whole /\ staged' = staged
    BY <1>3, CommandsKeep DEF KBInv, RunInv
  <2>2. ~ResetKB /\ ~WriteReadiness /\ ~WriteReport
    BY <2>1 DEF ResetKB, WriteReadiness, WriteReport, KBInv, RunInv, TypeInv, Phases, RunPhase
  <2>3. report' = report
    BY <2>2, <1>3 DEF Next, vars, disk, BeginRun, BeginChallenge, Unlink, EndApply,
          BeginConfirm, Crash, PersistDoc, Rewrite, Refute, EmitDisabled, IngestDraft
  <2> QED
    BY <2>1, <2>3, SameRun DEF StillReported, Live
<1> QED
  BY <1>1, <1>2, <1>3 DEF Live

(* All of this holds while results are drawn and staged.                   *)
LEMMA RestCorrect == PubSpec => []RestInv
<1>1. Init => RestInv
  BY KBInit DEF RestInv, Init, MoveIsAccountedFor, LeftAlone, StillReported, Live
<1>2. RestInv /\ [Next]_vars => RestInv'
  BY KBNext, AccountNext, AloneNext, ReportedNext DEF RestInv
<1>3. Spec => []RestInv
  BY <1>1, <1>2, PTL DEF Spec
<1> QED
  BY <1>3, PubIsRun, PTL DEF PubSpec

-----------------------------------------------------------------------------
(* A KB that nobody touched is staged with a REVIEW.md that names every    *)
(* artifact in it that is not verified.                                    *)
LEMMA UntouchedIsListed ==
  ASSUME RestInv, Untouched, NEW c \in LoadKB
  PROVE  c.status = "verified" \/ c.of \in Listed
<1>1. c.of \in Artifact /\ c.status \in at[c.of] /\ c \in Copy
  BY DEF LoadKB, Copy
<1>2. c.of \in Scanned
  BY <1>1 DEF Untouched, Artifact
<1>3. at[c.of] = Home(c.of) /\ report = Records
  BY <1>1, <1>2 DEF RestInv, LeftAlone, StillReported, Live, Untouched
<1>4. PICK d \in DOMAIN staged : d.of = c.of /\ Final(d) = c.status
  BY <1>1, <1>3 DEF Home, Homes
<1>5. [of |-> c.of, status |-> c.status] \in report
  BY <1>3, <1>4 DEF Records
<1> QED
  BY <1>5 DEF Listed

(* The REVIEW.md of a KB that nothing moved since the run is complete.     *)
THEOREM ReviewIsComplete == PubSpec => []FreshReviewComplete
<1>1. PubInit => FreshReviewComplete
  BY DEF PubInit, NoPR, FreshReviewComplete
<1>2. RestInv /\ FreshReviewComplete /\ [PubNext]_pubvars => FreshReviewComplete'
  <2> SUFFICES ASSUME RestInv, FreshReviewComplete, [PubNext]_pubvars
               PROVE  FreshReviewComplete'
    OBVIOUS
  <2>1. CASE pr' = pr
    BY <2>1 DEF FreshReviewComplete
  <2>2. ASSUME NEW drawing, Stage(drawing) PROVE FreshReviewComplete'
    BY <2>2, UntouchedIsListed DEF Stage, FreshReviewComplete
  <2>3. pr' = pr \/ \E drawing : Stage(drawing)
    BY DEF PubNext, pubvars, outputs, RenderRun, Render, StageRun, Publish
  <2> QED
    BY <2>1, <2>2, <2>3
<1> QED
  BY <1>1, <1>2, RestCorrect, PTL DEF PubSpec

-----------------------------------------------------------------------------
(* Drift.  What was staged during or after the first run agrees with what  *)
(* a scan finds, but for what is in Moving.                                *)
Agree == \A c : c.of \in Artifact \ Moving => (c \in pr.kb <=> c \in Rescan)

DriftInv ==
    /\ pr.kb \subseteq Copy
    /\ cmd \in RunPhase \/ pr.staged => runs > 0
    /\ pr.staged /\ runs = 1 => cmd \notin {"reset", "persist", "report"}
    /\ pr.staged /\ runs = 1 /\ Live => Agree

(* A scan finds copies of artifacts.                                       *)
LEMMA RescanIsOfScan ==
  ASSUME TypeOK
  PROVE  Rescan \subseteq Copy
  BY FinalType, RunIsOfScan DEF Rescan, Copy

(* The files that nothing moved are what a scan would find.                *)
LEMMA UntouchedIsFound ==
  ASSUME RestInv, Live, NEW c, c.of \in Artifact \ Moving
  PROVE  c \in LoadKB <=> c \in Rescan
<1>1. TypeOK
  BY DEF RestInv, KBInv, RunInv, TypeInv
<1>2. c.of \in Scanned \ (torn \cup refuted) /\ heard[c.of] = {}
  BY DEF Moving, Artifact
<1>3. at[c.of] = Homes(DOMAIN staged, c.of)
  BY <1>2 DEF RestInv, LeftAlone, Home
<1>4. ASSUME c \in LoadKB PROVE c \in Rescan
  <2>1. c \in [of : Artifact, status : Status] /\ c.status # "rejected"
        /\ c.status \in at[c.of]
    BY <1>4 DEF LoadKB, Copy
  <2>2. PICK d \in DOMAIN staged : d.of = c.of /\ Final(d) = c.status
    BY <1>3, <2>1 DEF Homes
  <2>3. c = [of |-> d.of, status |-> Final(d)]
    BY <2>1, <2>2
  <2> QED
    BY <2>1, <2>3 DEF Rescan
<1>5. ASSUME c \in Rescan PROVE c \in LoadKB
  <2>1. PICK d \in DOMAIN staged : c = [of |-> d.of, status |-> Final(d)]
    BY <1>5 DEF Rescan
  <2>2. c.status \in at[c.of]
    BY <1>3, <2>1 DEF Homes
  <2>3. c \in Copy /\ c.status # "rejected"
    BY <1>1, <1>5, RescanIsOfScan DEF Rescan
  <2> QED
    BY <2>2, <2>3 DEF LoadKB
<1> QED
  BY <1>4, <1>5

(* What is moving goes on moving until the next run.                       *)
LEMMA MovingGrows ==
  ASSUME TypeInv, [Next]_vars, whole', ~Return
  PROVE  Moving \subseteq Moving'
<1>0. /\ heard \in [Artifact -> SUBSET Reply]
      /\ unlink # Nothing => unlink.of \in Artifact
  BY ArtifactAssumption DEF TypeInv, TypeOK, Phases, Artifact
<1>1. CASE Still \/ Unlink
  BY <1>1 DEF Still, Unlink, history, Moving
<1>2. CASE Torn
  BY <1>0, <1>2 DEF Torn, Moving
<1>3. ASSUME NEW a, NEW v, Judged(a, v) PROVE Moving \subseteq Moving'
  <2>1. heard' = [heard EXCEPT ![a] = @ \cup {v}] /\ UNCHANGED <<torn, refuted>>
    BY <1>3 DEF Judged
  <2>2. \A b \in Artifact : heard[b] \subseteq heard'[b]
    BY <1>0, <2>1
  <2> QED
    BY <2>1, <2>2 DEF Moving
<1>4. ASSUME NEW a, Disproved(a) PROVE Moving \subseteq Moving'
  BY <1>4 DEF Disproved, Moving
<1>5. ASSUME NEW a, NEW s, Added(a, s) PROVE Moving \subseteq Moving'
  BY <1>5 DEF Added, Moving
<1> QED
  BY <1>1, <1>2, <1>3, <1>4, <1>5, CommandSteps

(* A step of a command, while nothing is staged.                           *)
LEMMA DriftStep ==
  ASSUME RestInv, DriftInv, [Next]_vars, pr' = pr
  PROVE  DriftInv'
<1>0. TypeInv /\ runs \in Nat
  BY DEF RestInv, KBInv, RunInv, TypeInv, TypeOK
<1>1. BeginRun \/ UNCHANGED runs
  BY DEF Next, vars, ResetKB, WriteReadiness, WriteReport, Return, BeginChallenge,
         Unlink, EndApply, BeginConfirm, Crash, PersistDoc, Rewrite, Refute,
         EmitDisabled, IngestDraft
<1>2. ~BeginRun => (cmd' \in RunPhase => cmd \in RunPhase)
  <2>1. Unlink => cmd' = cmd
    BY DEF Unlink
  <2> QED
    BY <2>1 DEF Next, vars, ResetKB, WriteReadiness, WriteReport, Return, BeginChallenge,
         EndApply, BeginConfirm, Crash, PersistDoc, Rewrite, Refute,
         EmitDisabled, IngestDraft, RunPhase
<1>3. CASE BeginRun
  <2>1. runs' = runs + 1 /\ (pr'.staged => runs' > 1)
    BY <1>0, <1>3 DEF BeginRun, DriftInv
  <2> QED
    BY <1>0, <2>1 DEF DriftInv
<1>4. CASE ~BeginRun /\ ~(pr.staged /\ runs = 1)
  BY <1>1, <1>2, <1>4 DEF DriftInv
<1>5. CASE ~BeginRun /\ pr.staged /\ runs = 1
  <2>1. cmd \notin {"reset", "persist", "report"}
    BY <1>5 DEF DriftInv
  <2>2. ~(ResetKB \/ WriteReadiness \/ WriteReport \/ \E t \in todo : PersistDoc(t))
    BY <2>1 DEF ResetKB, WriteReadiness, WriteReport, PersistDoc
  <2>3. cmd' \notin {"reset", "persist", "report"} /\ (cmd' = "return" => UNCHANGED vars)
    <3>1. CASE Unlink
      BY <1>0, <3>1 DEF Unlink, TypeInv, Phases
    <3> QED
      BY <1>5, <2>1, <2>2, <3>1 DEF Next, vars, Return, BeginChallenge, EndApply,
            BeginConfirm, Crash, Rewrite, Refute, EmitDisabled, IngestDraft
  <2>4. ASSUME Live' PROVE Agree'
    <3>1. CASE UNCHANGED vars
      <4>1. UNCHANGED <<staged, torn, refuted, heard, cmd, whole>>
        BY <3>1 DEF vars
      <4>2. Moving' = Moving /\ Rescan' = Rescan /\ Live
        BY <2>4, <4>1, SameRun DEF Moving, Rescan, Live
      <4> QED
        BY <1>5, <4>2 DEF DriftInv, Agree
    <3>2. CASE Return
      <4>1. cmd = "return" /\ UNCHANGED <<staged, torn, refuted, heard>>
        BY <3>2 DEF Return
      <4>2. Moving' = Moving /\ Rescan' = Rescan /\ Live
        BY <4>1, SameRun DEF Moving, Rescan, Live
      <4> QED
        BY <1>5, <4>2 DEF DriftInv, Agree
    <3>3. CASE whole' /\ ~Return
      <4>1. whole /\ staged' = staged /\ Moving \subseteq Moving'
        BY <1>0, <3>3, CommandsKeep, MovingGrows
      <4>2. Rescan' = Rescan /\ Live
        BY <4>1, SameRun DEF Rescan, Live
      <4> QED
        BY <1>5, <4>1, <4>2 DEF DriftInv, Agree
    <3> QED
      BY <2>3, <2>4, <3>1, <3>2, <3>3 DEF Live
  <2> QED
    BY <1>1, <1>2, <1>5, <2>3, <2>4 DEF DriftInv
<1> QED
  BY <1>3, <1>4, <1>5

(* Staging.                                                                *)
LEMMA DriftStaging ==
  ASSUME RestInv, NEW drawing, Stage(drawing), UNCHANGED vars,
         cmd \in {"idle", "return"}, runs > 0
  PROVE  DriftInv'
<1>1. pr'.kb = LoadKB /\ pr'.staged
  BY DEF Stage
<1>2. UNCHANGED <<staged, torn, refuted, heard, cmd, whole, runs>>
  BY DEF vars
<1>3. Moving' = Moving /\ Rescan' = Rescan /\ (Live' => Live)
  BY <1>2, SameRun DEF Moving, Rescan, Live
<1>4. Live => Agree'
  BY <1>1, <1>3, UntouchedIsFound DEF Agree
<1>5. pr'.kb \subseteq Copy
  BY <1>1 DEF LoadKB
<1> QED
  BY <1>2, <1>3, <1>4, <1>5 DEF DriftInv

(* The drift check of a target that did not change reports only what a     *)
(* verdict, a refutation, a crash, a dispute or a draft has moved.         *)
THEOREM DriftIsExplained == PubSpec => []DriftHasACause
<1>1. PubInit => DriftInv
  BY DEF PubInit, NoPR, DriftInv, Init, RunPhase
<1>2. RestInv /\ DriftInv /\ [PubNext]_pubvars => DriftInv'
  <2> SUFFICES ASSUME RestInv, DriftInv, [PubNext]_pubvars PROVE DriftInv'
    OBVIOUS
  <2>1. CASE Next /\ UNCHANGED outputs
    BY <2>1, DriftStep DEF outputs
  <2>2. CASE RenderRun \/ Render \/ UNCHANGED pubvars
    BY <2>2, DriftStep DEF RenderRun, Render, pubvars, outputs
  <2>3. CASE StageRun
    <3>1. cmd = "return" /\ Stage(pages) /\ UNCHANGED vars
      BY <2>3 DEF StageRun
    <3>2. runs > 0
      BY <3>1 DEF DriftInv, RunPhase
    <3> QED
      BY <3>1, <3>2, DriftStaging
  <2>4. CASE Publish
    <3>1. cmd = "idle" /\ runs > 0 /\ UNCHANGED vars /\ Stage(pages')
      BY <2>4 DEF Publish
    <3> QED
      BY <3>1, DriftStaging
  <2> QED
    BY <2>1, <2>2, <2>3, <2>4 DEF PubNext
<1>3. RestInv /\ DriftInv => DriftHasACause
  <2> SUFFICES ASSUME RestInv, DriftInv, pr.staged, whole, runs = 1,
                      NEW a \in DiffKB(pr.kb, Rescan).added
                                \cup DiffKB(pr.kb, Rescan).removed
                                \cup DiffKB(pr.kb, Rescan).changed,
                      a \notin Moving
               PROVE  FALSE
    BY DEF DriftHasACause
  <2>1. Agree /\ pr.kb \subseteq Copy /\ Rescan \subseteq Copy
    BY RescanIsOfScan DEF DriftInv, Live, RestInv, KBInv, RunInv, TypeInv
  <2>2. a \in Artifact
    BY <2>1 DEF DiffKB, Copy
  <2>3. \A c : c.of = a => (c \in pr.kb <=> c \in Rescan)
    BY <2>1, <2>2 DEF Agree
  <2>4. Signature(pr.kb, a) = Signature(Rescan, a)
    BY <2>3 DEF Signature
  <2> QED
    BY <2>3, <2>4 DEF DiffKB
<1> QED
  BY <1>1, <1>2, <1>3, RestCorrect, PTL DEF PubSpec
=============================================================================
