------------------------------- MODULE RunKB -------------------------------
(***************************************************************************)
(* The run directory .work/<run-id>/: a run that gates the artifacts of a  *)
(* scan and writes them as files, and the commands that move those files   *)
(* afterwards (challenge-apply, confirm-apply, autopilot's drafts).        *)
(*                                                                         *)
(* An artifact's status IS the directory its file lies in: kb/verified,    *)
(* kb/needs-review or reports/rejected.  A move is a write followed by an  *)
(* unlink, and the operator may kill the process between any two writes.   *)
(* Files are written whole, and commands on one run directory do not       *)
(* overlap.                                                                *)
(***************************************************************************)
EXTENDS TrustGate, Foundations, FiniteSets

CONSTANTS
    Scanned,     \* artifacts a scan of the target may scaffold, as Kind/name
    Twin,        \* those an LLM gap proposal may name too, in a second
                 \* document with the same Kind/name
    Rests,       \* what each of them depends on or implements
    Reviewed,    \* runbooks and alerts: the challenge worklist
    Absence,     \* gaps of the confirm worklist
    Disabled,    \* disabled-resilience gaps confirm-apply may emit, beyond
                 \* those a scan finds by itself
    Reply,       \* what a verdict file may say of an artifact
    Covers,      \* the alert each drafted runbook triggers on
    MaxRuns, MaxCrashes

Draft == DOMAIN Covers
Artifact == Scanned \cup Disabled \cup Draft

ASSUME ArtifactAssumption ==
    /\ Twin \subseteq Scanned /\ Reviewed \subseteq Scanned
    /\ Absence \subseteq Scanned \ Reviewed
    /\ Reply \subseteq Verdict \cup {"garbled"}
    /\ Rests \in [Scanned -> SUBSET Scanned]
    /\ Covers \in [Draft -> Reviewed]
    /\ Disabled \cap Scanned = {} /\ Draft \cap (Scanned \cup Disabled) = {}
    /\ MaxRuns \in Nat /\ MaxCrashes \in Nat

(* Flows and gaps rest on patterns and fallbacks, which no worklist hands  *)
(* out; a gap the engine derives itself states no crossRefs.               *)
ASSUME RestsAssumption ==
    \A a \in Scanned : /\ Rests[a] \cap (Reviewed \cup Absence) = {}
                       /\ a \in Twin => Rests[a] = {}

VARIABLES
    at,        \* directories that hold a copy of the artifact
    staged,    \* status of each document of the last run after pass 1
    facts,     \* what facts.jsonl lets confirm-apply re-ground
    cmd,       \* the command in progress, a run phase by phase
    todo,      \* tasks it has not started
    unlink,    \* the old copy a move has still to remove
    report,    \* artifact and status of the records in the report
    readiness, \* artifacts the ReadinessScore credits
    runs, crashes,
    (* The rest is history: no code reads it.                              *)
    whole,     \* the last run got to its end
    torn,      \* artifacts whose move a crash cut in two
    heard,     \* verdicts applied to each artifact since the last run, or
               \* since a crash cut its move in two
    refuted    \* gaps confirm-apply has refuted since the last run

vars == <<at, staged, facts, cmd, todo, unlink, report, readiness,
          runs, crashes, whole, torn, heard, refuted>>
disk == <<at, facts, report, readiness>>
history == <<whole, torn, heard, refuted>>

Task == [of : Artifact, what : Tier \cup Reply \cup {"dispute"}]
Nothing == [of |-> "nothing"]

(* The documents of a scan; an llm one is scaffolded after its twin.       *)
Document == {[of |-> a, what |-> "ast"] : a \in Scanned}
                \cup {[of |-> a, what |-> "llm"] : a \in Twin}

RunPhase == {"reset", "persist", "report", "return"}

TypeOK ==
    /\ at \in [Artifact -> SUBSET Status]
    /\ DOMAIN staged \subseteq Document
    /\ \A d \in DOMAIN staged : staged[d] \in Status
    /\ facts \subseteq Absence \cup Disabled
    /\ cmd \in RunPhase \cup {"idle", "challenge", "confirm"}
    /\ todo \subseteq Task
    /\ unlink \in [of : Artifact, from : Status] \cup {Nothing}
    /\ report \subseteq [of : Scanned, status : Status]
    /\ readiness \subseteq Reviewed
    /\ runs \in 0..MaxRuns /\ crashes \in 0..MaxCrashes
    /\ whole \in BOOLEAN
    /\ torn \subseteq Artifact /\ refuted \subseteq Absence
    /\ heard \in [Artifact -> SUBSET Reply]

Init ==
    /\ at = [a \in Artifact |-> {}]
    /\ staged = <<>>
    /\ facts = {}
    /\ cmd = "idle" /\ todo = {} /\ unlink = Nothing
    /\ report = {} /\ readiness = {}
    /\ runs = 0 /\ crashes = 0
    /\ whole = FALSE /\ torn = {} /\ refuted = {}
    /\ heard = [a \in Artifact |-> {}]

-----------------------------------------------------------------------------
(* What pass 1 may make of a document, whatever its content.               *)
Outcome == [t \in Tier |->
    {PassOne(d, g) : d \in {x \in Doc : x.tier = t /\ Fenced(x)},
                     g \in {{}} \cup {{Adjudicate(x)} : x \in Excerpt}}]

(* status_by_key of pass 2: of two documents of one name the later one     *)
(* counts.                                                                 *)
VerifiedKeys(st) ==
    {a \in Scanned :
        LET ds == {d \in DOMAIN st : d.of = a}
            last == IF \E d \in ds : d.what = "llm" THEN "llm" ELSE "ast"
        IN  \E d \in ds : d.what = last /\ st[d] = "verified"}

(* Mutant of Downgraded: pass 2 is left out.                               *)
NoDowngrade(st) == {}

Downgraded(st) == VerifiedKeys(st) \ LargestClosed(VerifiedKeys(st), Rests)

(* Pass 3's status of a document.                                          *)
Final(d) == IF d.of \in Downgraded(staged) THEN "needs-review" ELSE staged[d]

(* A run reads the target and gates in memory; facts.jsonl is all it has   *)
(* written so far.  A document whose crossRefs dangle is not verified.     *)
BeginRun ==
    /\ cmd = "idle" /\ runs < MaxRuns
    /\ runs' = runs + 1
    /\ \E S \in SUBSET Document :
         \E st \in [S -> Status] :
            /\ \A d \in S : st[d] \in Outcome[d.what]
            /\ \A d \in S : st[d] = "verified" =>
                                Rests[d.of] \subseteq {e.of : e \in S}
            /\ staged' = st
         /\ \E P \in SUBSET Disabled :
              facts' = P \cup {a \in Absence : [of |-> a, what |-> "ast"] \in S}
    /\ cmd' = "reset"
    /\ whole' = FALSE
    /\ UNCHANGED <<at, todo, unlink, report, readiness, crashes,
                   torn, heard, refuted>>

(* Mutant of ResetKB: only kb/ is cleared.                                 *)
ResetKeepsRejected ==
    /\ cmd = "reset"
    /\ at' = [a \in Artifact |-> at[a] \cap {"rejected"}]
    /\ cmd' = "persist"
    /\ todo' = DOMAIN staged
    /\ torn' = {} /\ refuted' = {} /\ heard' = [a \in Artifact |-> {}]
    /\ UNCHANGED <<staged, facts, unlink, report, readiness, runs, crashes,
                   whole>>

(* reset_kb: nothing of an earlier run of this id survives.                *)
ResetKB ==
    /\ cmd = "reset"
    /\ at' = [a \in Artifact |-> {}]
    /\ cmd' = "persist"
    /\ todo' = DOMAIN staged
    /\ torn' = {} /\ refuted' = {} /\ heard' = [a \in Artifact |-> {}]
    /\ UNCHANGED <<staged, facts, unlink, report, readiness, runs, crashes,
                   whole>>

(* Documents of one name and status land in one file.                      *)
PersistDoc(d) ==
    /\ cmd = "persist" /\ d \in todo
    /\ at' = [at EXCEPT ![d.of] = @ \cup {Final(d)}]
    /\ todo' = todo \ {d}
    /\ UNCHANGED <<staged, facts, cmd, unlink, report, readiness, runs,
                   crashes, history>>

(* What the ReadinessScore credits: alerts and runbooks that are verified. *)
Credited ==
    {d.of : d \in {e \in DOMAIN staged : e.of \in Reviewed /\ Final(e) = "verified"}}

(* The roll-up is computed again from the final statuses.                  *)
WriteReadiness ==
    /\ cmd = "persist" /\ todo = {}
    /\ readiness' = Credited
    /\ cmd' = "report"
    /\ UNCHANGED <<at, staged, facts, todo, unlink, report, runs, crashes,
                   history>>

(* Mutant of WriteReport: the records have the statuses of pass 1.         *)
ReportPassOne ==
    /\ cmd = "report"
    /\ report' = {[of |-> d.of, status |-> staged[d]] : d \in DOMAIN staged}
    /\ cmd' = "return"
    /\ UNCHANGED <<at, staged, facts, todo, unlink, readiness, runs, crashes,
                   history>>

WriteReport ==
    /\ cmd = "report"
    /\ report' = {[of |-> d.of, status |-> Final(d)] : d \in DOMAIN staged}
    /\ cmd' = "return"
    /\ UNCHANGED <<at, staged, facts, todo, unlink, readiness, runs, crashes,
                   history>>

Return ==
    /\ cmd = "return"
    /\ cmd' = "idle"
    /\ whole' = TRUE
    /\ UNCHANGED <<disk, staged, todo, unlink, runs, crashes,
                   torn, heard, refuted>>

-----------------------------------------------------------------------------
(* challenge-apply with a verdict file, of this run or left from an        *)
(* earlier one: it names reviewed artifacts, one verdict for each.         *)
BeginChallenge ==
    /\ cmd = "idle" /\ runs > 0
    /\ \E R \in SUBSET Reviewed \ {{}}, says \in [Reviewed -> Reply] :
           todo' = {[of |-> a, what |-> says[a]] : a \in R}
    /\ cmd' = "challenge"
    /\ UNCHANGED <<disk, staged, unlink, runs, crashes, history>>

(* _index: of several copies the least trusted is listed last and stays.   *)
Indexed(copies) ==
    CHOOSE s \in copies : \A r \in copies : Trust(s) <= Trust(r)

(* Mutants of Moved: the old file is unlinked even when it is the new one; *)
(* it is never unlinked.                                                   *)
MovedOntoItself(a, old, new) == [of |-> a, from |-> old]
Copied(a, old, new) == Nothing

(* What a move has to unlink once the new file is written.                 *)
Moved(a, old, new) == IF new = old THEN Nothing ELSE [of |-> a, from |-> old]

(* An artifact the index lacks is reported as not found.                   *)
Rewrite(t) ==
    /\ cmd = "challenge" /\ unlink = Nothing /\ t \in todo
    /\ todo' = todo \ {t}
    /\ \/ /\ at[t.of] = {}
          /\ UNCHANGED <<at, unlink, heard>>
       \/ /\ at[t.of] # {}
          /\ LET old == Indexed(at[t.of])
                 new == ChallengeGate(old, {t.what})
             IN  /\ at' = [at EXCEPT ![t.of] = @ \cup {new}]
                 /\ unlink' = Moved(t.of, old, new)
          /\ heard' = [heard EXCEPT ![t.of] = @ \cup {t.what}]
    /\ UNCHANGED <<staged, facts, cmd, report, readiness, runs, crashes,
                   whole, torn, refuted>>

(* The second half of a move, of challenge-apply and of confirm-apply.     *)
Unlink ==
    /\ unlink # Nothing
    /\ at' = [at EXCEPT ![unlink.of] = @ \ {unlink.from}]
    /\ unlink' = Nothing
    /\ UNCHANGED <<staged, facts, cmd, todo, report, readiness, runs, crashes,
                   history>>

EndApply ==
    /\ cmd \in {"challenge", "confirm"} /\ todo = {} /\ unlink = Nothing
    /\ cmd' = "idle"
    /\ UNCHANGED <<disk, staged, todo, unlink, runs, crashes, history>>

-----------------------------------------------------------------------------
(* confirm-apply: the disputes that re-derive from the source.  The others *)
(* change nothing.                                                         *)
BeginConfirm ==
    /\ cmd = "idle"
    /\ \E D \in SUBSET facts \ {{}} :
           todo' = {[of |-> a, what |-> "dispute"] : a \in D}
    /\ cmd' = "confirm"
    /\ UNCHANGED <<disk, staged, unlink, runs, crashes, history>>

(* The statuses in the order regate_run looks for a copy.                  *)
FirstCopy(copies) ==
    IF "verified" \in copies THEN "verified" ELSE "needs-review"

(* The first copy found in the KB is rejected; there may be none.          *)
Refute(t) ==
    /\ cmd = "confirm" /\ unlink = Nothing /\ t \in todo /\ t.of \in Absence
    /\ todo' = todo \ {t}
    /\ \/ /\ at[t.of] \subseteq {"rejected"}
          /\ UNCHANGED <<at, unlink, torn, refuted>>
       \/ /\ ~(at[t.of] \subseteq {"rejected"})
          /\ at' = [at EXCEPT ![t.of] = @ \cup {"rejected"}]
          /\ unlink' = [of |-> t.of, from |-> FirstCopy(at[t.of])]
          /\ refuted' = refuted \cup {t.of}
          /\ torn' = torn \ {t.of}
    /\ UNCHANGED <<staged, facts, cmd, report, readiness, runs, crashes,
                   whole, heard>>

(* _emit_disabled_gap: a deterministic gap that went through the structure *)
(* and provenance gates, scaffolded from evidence just read.               *)
EmittedStatus ==
    {FinalStatus(d) : d \in {x \in Doc : x.tier = "ast" /\ x.preset = "verified"
                                 /\ x.structural /\ x.evidence /\ x.crossref}}

EmitDisabled(t) ==
    /\ cmd = "confirm" /\ unlink = Nothing /\ t \in todo /\ t.of \in Disabled
    /\ todo' = todo \ {t}
    /\ \E s \in EmittedStatus : at' = [at EXCEPT ![t.of] = @ \cup {s}]
    /\ UNCHANGED <<staged, facts, cmd, unlink, report, readiness, runs,
                   crashes, history>>

(* _ingest_drafts at the end of autopilot: the runbooks drafted for alerts *)
(* that a fresh scaffold of the target has.                                *)
IngestDraft(r) ==
    /\ cmd = "idle" /\ whole
    /\ \E d \in DOMAIN staged : d.of = Covers[r]
    /\ at' = [at EXCEPT ![r] = @ \cup {"needs-review"}]
    /\ UNCHANGED <<staged, facts, cmd, todo, unlink, report, readiness, runs,
                   crashes, history>>

-----------------------------------------------------------------------------
(* The process dies between two writes.  rmtree may have got anywhere.     *)
Crash ==
    /\ cmd # "idle" /\ crashes < MaxCrashes
    /\ crashes' = crashes + 1
    /\ cmd' = "idle" /\ todo' = {} /\ unlink' = Nothing
    /\ torn' = IF unlink = Nothing THEN torn ELSE torn \cup {unlink.of}
    /\ \/ at' = at
       \/ /\ cmd = "reset"
          /\ \E lost \in SUBSET UNION {{a} \X at[a] : a \in Artifact} :
                at' = [a \in Artifact |-> {s \in at[a] : <<a, s>> \notin lost}]
    /\ heard' = IF unlink = Nothing THEN heard
                ELSE [heard EXCEPT ![unlink.of] = {}]
    /\ UNCHANGED <<staged, facts, report, readiness, runs, whole, refuted>>

Next ==
    \/ BeginRun \/ ResetKB \/ WriteReadiness \/ WriteReport
    \/ Return \/ BeginChallenge \/ Unlink \/ EndApply \/ BeginConfirm \/ Crash
    \/ \E t \in todo :
          PersistDoc(t) \/ Rewrite(t) \/ Refute(t) \/ EmitDisabled(t)
    \/ \E r \in Draft : IngestDraft(r)

Spec == Init /\ [][Next]_vars

-----------------------------------------------------------------------------
Best(copies) == IF copies = {} THEN 0
                ELSE CHOOSE n \in {Trust(s) : s \in copies} :
                         \A s \in copies : Trust(s) <= n

(* Whatever command runs, and wherever a crash stops it, an artifact of a  *)
(* completed run keeps at least one copy: a move writes before it removes  *)
(* (challenge_apply.py:53-55, confirm.py:415-417).                         *)
NothingLost == whole => \A d \in DOMAIN staged : at[d.of] # {}

(* Between commands the directory of an artifact tells its whole history:  *)
(* one copy, where the final status of the run and every verdict heard     *)
(* since put it, in whatever order they came; a refuted gap is rejected.   *)
(* Only artifacts that lie in two directories at once are exempt: twins,   *)
(* and moves that a crash cut in two.                                      *)
DirectoryTellsStatus ==
    whole /\ cmd = "idle" =>
        \A d \in DOMAIN staged : d.of \notin Twin \cup torn =>
            at[d.of] = {IF d.of \in refuted THEN "rejected"
                        ELSE ChallengeGate(Final(d), heard[d.of])}

(* "A verified graph never rests on unverified foundations" holds of the   *)
(* files, not only of the statuses pass 2 looked at, and still holds after *)
(* any challenge or confirm of what the worklists hand out.                *)
FoundationsOnDisk ==
    whole => \A a \in Scanned : "verified" \in at[a] =>
                 \A b \in Rests[a] : "verified" \in at[b]

(* A run leaves exactly its own artifacts, where it decided, whatever was  *)
(* there before: earlier runs, drafts, emitted gaps, copies left by a      *)
(* crash (reset_kb: "can't leak stale artifacts into the result").         *)
RunForgetsThePast ==
    cmd \in {"report", "return"} =>
        \A a \in Artifact :
            at[a] = {Final(d) : d \in {e \in DOMAIN staged : e.of = a}}

(* When the run returns, the report names every copy with the directory it *)
(* lies in, and the readiness score credits the verified ones and no other *)
(* (orchestrator.py:235-237).                                              *)
ReportAgreesWithKB ==
    cmd = "return" =>
        /\ \A a \in Scanned, s \in Status :
                s \in at[a] <=> [of |-> a, status |-> s] \in report
        /\ readiness = {a \in Reviewed : "verified" \in at[a]}

(* No command but a run makes a scanned artifact more trusted than its     *)
(* best copy already was, crash or no crash: verdicts and disputes "can    *)
(* only ever lower confidence, never raise it" (challenge.py:15).          *)
OnlyRunsRaise ==
    [][cmd \notin RunPhase =>
           \A a \in Scanned : Best(at'[a]) <= Best(at[a])]_vars

-----------------------------------------------------------------------------
(* What the repository says and the code does not do.                      *)

(* challenge_apply.py:4 says it "moves each artifact file to its new       *)
(* status directory" and :44 that it is re-runnable.  After a crash between*)
(* the write and the unlink, _index finds the new copy only: applying the  *)
(* same verdicts again leaves the verified copy for good.                  *)
ContradictedLeavesKB ==
    cmd = "idle" =>
        \A a \in Reviewed : "contradicted" \in heard[a] =>
            at[a] \subseteq {"rejected"}

(* cli.py:814-815: confirm-apply "drops a false-positive gap (-> rejected)". *)
(* A twin's needs-review copy stays, because regate_run stops at the first *)
(* copy it finds.                                                          *)
RefutedTwinsLeaveKB ==
    whole /\ cmd = "idle" => \A a \in refuted \ torn : at[a] = {"rejected"}
=============================================================================
