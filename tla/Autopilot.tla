----------------------------- MODULE Autopilot -----------------------------
(***************************************************************************)
(* The autopilot command: cycles of scan, provider and apply over one      *)
(* target, and the drafts folded into the KB of the last cycle.            *)
(*                                                                         *)
(* A model answers through files: proposals in the target, which the next  *)
(* scan or the final ingestion re-grounds, and verdicts in the run, which  *)
(* are applied at once.  Replies pass through a cache keyed by the prompt. *)
(* The operator may edit the target and its proposals at any time, and the *)
(* process may die between any two steps.                                  *)
(***************************************************************************)
EXTENDS TrustGate, FiniteSets, Sequences, SequencesExt

CONSTANTS
    Anchor,    \* excerpts a proposal or a dispute may quote
    Refuting,  \* those at which the engine's own rule refutes a claim
    Claim,     \* absence gaps on the confirm worklist
    Reply,     \* what the provider may answer to each call
    Work,      \* the tasks a target with these anchors has work for
    Cycles, MaxInvocations,
    MaxTroubles  \* crashes and edits together

(* Tasks in the order of the worklist.  One drafting task stands for the   *)
(* seven; its prompt depends on the KB, like that of the runbooks.         *)
Worklist == <<"discover-gaps", "confirm-challenge", "confirm-boundaries",
              "draft-runbooks">>
Exchange == {"discover-gaps", "draft-runbooks"}
Call == Exchange \cup {"confirm-challenge"} \cup Claim

ASSUME AutopilotAssumption ==
    /\ Refuting \subseteq Anchor
    /\ Work \in [SUBSET Anchor -> SUBSET Range(Worklist)]
    /\ Claim \cap Range(Worklist) = {}
    /\ Cycles \in Nat \ {0} /\ MaxInvocations \in Nat
    /\ MaxTroubles \in Nat

VARIABLES
    src,       \* the anchors found in the target's bytes
    prop,      \* the proposals file of each exchange, in the target
    cache,     \* prompt -> reply
    verdicts,  \* of run base-c<i>: challenge/ and confirm/verdicts.json
    kb,        \* the KB of the run in progress
    pc, cycle,
    todo,      \* tasks of the worklist not yet landed
    answers,   \* replies to the calls of the first of them
    counted,   \* refutations this invocation added to the tracker
    invocations, troubles,
    (* The rest is history: no code reads it.                              *)
    wrote,     \* the invocation wrote a proposals file
    spoke,     \* some call of it was answered
    calm,      \* every call was, and nobody edited the target meanwhile
    last       \* what an invocation ended with, if it was calm and nobody
               \* edited the target since

vars == <<src, prop, cache, verdicts, kb, pc, cycle, todo, answers, counted,
          invocations, troubles, wrote, spoke, calm, last>>
counts == <<invocations, troubles>>
history == <<wrote, spoke, calm, last>>

(* A file that is not JSON, one whose list is a number, or a list.         *)
File == [is : {"absent", "garbage", "scalar"}, of : {{}}]
            \cup [is : {"list"}, of : SUBSET Anchor]
NoFile == [is |-> "absent", of |-> {}]

Silence == [is |-> "silence", of |-> {}]
Prose == [is |-> "prose", of |-> {}]

(* A reply by what the engine reads in it.  A failed call returns the      *)
(* empty string.                                                           *)
Replies(c) ==
    {Silence, Prose} \cup
    CASE c \in Exchange -> [is : {"scalar"}, of : {{}}]
                               \cup [is : {"list"}, of : SUBSET Anchor]
      [] c = "confirm-challenge" -> [is : Verdict, of : {{}}]
      [] c \in Claim -> [is : {"dispute"}, of : {{a} : a \in Anchor}]

ASSUME ReplyAssumption ==
    \A c \in Call : Reply[c] \subseteq Replies(c) /\ Silence \in Reply[c]

Prompt == [call : Call, src : SUBSET Anchor, gaps : SUBSET Anchor]
Calls(task) == IF task = "confirm-boundaries" THEN Claim ELSE {task}

NoVerdicts == [challenge |-> "indeterminate",
               confirm |-> [c \in Claim |-> Silence]]
(* The history keeps the KB of an invocation that is over.                 *)
EmptyKB == [gaps |-> {}, claims |-> [c \in Claim |-> "absent"],
            alert |-> "absent", drafts |-> {}]
Unsettled == [kb |-> EmptyKB, calm |-> FALSE]

KB == [gaps : SUBSET Anchor, claims : [Claim -> Status \cup {"absent"}],
       alert : Status \cup {"absent"}, drafts : SUBSET Anchor]

Resting == {"idle", "scan failed", "failed"}

TypeOK ==
    /\ src \subseteq Anchor /\ prop \in [Exchange -> File]
    /\ DOMAIN cache \subseteq Prompt
    /\ \A p \in DOMAIN cache : cache[p] \in Replies(p.call)
    /\ verdicts \in [1..Cycles ->
           [challenge : Verdict,
            confirm : [Claim -> UNION {Replies(c) : c \in Claim}]]]
    /\ kb \in KB
    /\ pc \in Resting \cup {"scan", "drive", "apply", "ingest"}
    /\ cycle \in 1..Cycles
    /\ todo \subseteq Range(Worklist)
    /\ DOMAIN answers \subseteq Call
    /\ \A c \in DOMAIN answers : answers[c] \in Replies(c)
    /\ counted \in [Claim -> Nat]
    /\ invocations \in 0..MaxInvocations
    /\ troubles \in 0..MaxTroubles

Init ==
    /\ src \in SUBSET Anchor
    /\ prop = [e \in Exchange |-> NoFile]
    /\ cache = <<>> /\ answers = <<>> /\ todo = {}
    /\ verdicts = [i \in 1..Cycles |-> NoVerdicts]
    /\ kb = EmptyKB /\ pc = "idle" /\ cycle = 1
    /\ counted = [c \in Claim |-> 0]
    /\ invocations = 0 /\ troubles = 0
    /\ wrote = FALSE /\ spoke = FALSE /\ calm = FALSE
    /\ last = Unsettled
-----------------------------------------------------------------------------
(* A base run id of its own by default; --run may name an old one.         *)
Begin ==
    /\ pc \in Resting /\ invocations < MaxInvocations
    /\ invocations' = invocations + 1
    /\ \/ verdicts' = [i \in 1..Cycles |-> NoVerdicts]
       \/ UNCHANGED verdicts
    /\ pc' = "scan" /\ cycle' = 1
    /\ counted' = [c \in Claim |-> 0]
    /\ wrote' = FALSE /\ spoke' = FALSE /\ calm' = TRUE
    /\ UNCHANGED <<src, prop, cache, kb, todo, answers, troubles, last>>

(* What re-grounding keeps of a proposals file: what the target still has. *)
Grounded(file) == file.of \cap src

(* A file that is not JSON proposes nothing; a number in place of the list *)
(* is not expected and raises.                                             *)
Ingestible(file) == file.is # "scalar"

(* orchestrator.run: gate the target and the gap proposals left in it, and *)
(* write the worklist.                                                     *)
Scan ==
    /\ pc = "scan"
    /\ IF ~Ingestible(prop["discover-gaps"])
       THEN pc' = "scan failed" /\ UNCHANGED <<kb, todo>>
       ELSE LET found(task) == IF task \in Work[src] THEN "verified"
                                                     ELSE "absent"
            IN  /\ kb' = [gaps |-> Grounded(prop["discover-gaps"]),
                          claims |-> [c \in Claim |->
                                          found("confirm-boundaries")],
                          alert |-> found("confirm-challenge"),
                          drafts |-> {}]
                /\ todo' = Work[src]
                /\ pc' = IF todo' = {} THEN "ingest" ELSE "drive"
    /\ answers' = <<>>
    /\ UNCHANGED <<src, prop, cache, verdicts, cycle, counted, counts, history>>

(* A dictionary after f[x] = y.                                            *)
With(f, x, y) == [z \in DOMAIN f \cup {x} |-> IF z = x THEN y ELSE f[z]]

PromptOf(c) ==
    [call |-> c, src |-> src,
     gaps |-> IF c = "draft-runbooks" THEN kb.gaps ELSE {}]

(* Mutant of Answer: the cache is written and never read.                  *)
AnswerAfresh(p, r) ==
    /\ r \in Reply[p.call]
    /\ cache' = IF r = Silence THEN cache ELSE With(cache, p, r)

(* CachingProvider.complete: a failed call is not kept.                    *)
Answer(p, r) ==
    IF p \in DOMAIN cache THEN r = cache[p] /\ UNCHANGED cache
    ELSE /\ r \in Reply[p.call]
         /\ cache' = IF r = Silence THEN cache ELSE With(cache, p, r)

(* The first task of the worklist that has not landed.                     *)
Due == Worklist[CHOOSE i \in DOMAIN Worklist :
           Worklist[i] \in todo /\ \A j \in 1..(i - 1) : Worklist[j] \notin todo]

(* Mutant of Ask: a failed call is made again until it is answered.        *)
AskAgain(c) ==
    /\ pc = "drive" /\ c \in Calls(Due) \ DOMAIN answers
    /\ \E r \in Reply[c] :
          /\ Answer(PromptOf(c), r)
          /\ answers' = IF r = Silence THEN answers ELSE With(answers, c, r)
          /\ spoke' = (spoke \/ r # Silence)
          /\ calm' = (calm /\ r # Silence)
    /\ UNCHANGED <<src, prop, verdicts, kb, pc, cycle, todo, counted, counts,
                   wrote, last>>

(* One call of the first task that is left.                                *)
Ask(c) ==
    /\ pc = "drive" /\ c \in Calls(Due) \ DOMAIN answers
    /\ \E r \in Reply[c] :
          /\ Answer(PromptOf(c), r)
          /\ answers' = With(answers, c, r)
          /\ spoke' = (spoke \/ r # Silence)
          /\ calm' = (calm /\ r # Silence)
    /\ UNCHANGED <<src, prop, verdicts, kb, pc, cycle, todo, counted, counts,
                   wrote, last>>

(* Mutant of ParsedVerdict: what cannot be read is held against the claim. *)
ParsedHarshly(r) == IF r.is \in Verdict THEN r.is ELSE "unsupported"

(* parse_verdict_reply and parse_confirm_reply: what cannot be read decides*)
(* nothing.                                                                *)
ParsedVerdict(r) == IF r.is \in Verdict THEN r.is ELSE "indeterminate"

(* A reply without a JSON object defers the task: the file stays.          *)
Landed(r, file) == IF r.is \in {"scalar", "list"} THEN r ELSE file

(* The verdicts file of a task.  A claim whose call failed is left out.    *)
Verdicts(task) ==
    CASE task = "confirm-challenge" ->
            [verdicts EXCEPT ![cycle].challenge = ParsedVerdict(answers[task])]
      [] task = "confirm-boundaries" -> [verdicts EXCEPT ![cycle].confirm = answers]
      [] OTHER -> verdicts

(* The output of a task, once its calls are answered.  The summary counts  *)
(* the list only after the file is written.                                *)
Land ==
    /\ pc = "drive" /\ Calls(Due) \subseteq DOMAIN answers
    /\ LET task == Due
       IN  /\ prop' = IF task \in Exchange
                      THEN [prop EXCEPT ![task] = Landed(answers[task], @)]
                      ELSE prop
           /\ verdicts' = Verdicts(task)
           /\ pc' = IF task \in Exchange /\ answers[task].is = "scalar"
                    THEN "failed"
                    ELSE IF todo = {task} THEN "apply" ELSE "drive"
    /\ todo' = todo \ {Due} /\ answers' = <<>>
    /\ wrote' = (wrote \/ prop' # prop)
    /\ UNCHANGED <<src, cache, kb, cycle, counted, counts, spoke, calm, last>>

(* Mutant of Recorded: every cycle records.                                *)
RecordedEachCycle == TRUE
Recorded == cycle = Cycles

(* _reground: the dispute quotes code of the target where the engine's own *)
(* rule fires.                                                             *)
Refuted(r) == r.is = "dispute" /\ r.of \subseteq src \cap Refuting

(* record_confirm_graduation: the tracker gains the claims that are out.   *)
Counted(out) == [c \in Claim |-> IF c \in out THEN counted[c] + 1 ELSE counted[c]]

Apply ==
    /\ pc = "apply"
    /\ LET v == verdicts[cycle]
           out == {c \in Claim : kb.claims[c] # "absent"
                                     /\ Refuted(v.confirm[c])}
       IN  /\ kb' = [kb EXCEPT
                 !.alert = IF @ = "absent" THEN @
                           ELSE ChallengeGate(@, {v.challenge}),
                 !.claims = [c \in Claim |-> IF c \in out THEN "rejected"
                                                          ELSE @[c]]]
           /\ counted' = IF Recorded THEN Counted(out) ELSE counted
    /\ IF cycle < Cycles THEN pc' = "scan" /\ cycle' = cycle + 1
                         ELSE pc' = "ingest" /\ UNCHANGED cycle
    /\ UNCHANGED <<src, prop, cache, verdicts, todo, answers, counts, history>>

(* _ingest_drafts: any proposals file that exists is re-grounded, whoever  *)
(* wrote it and when.                                                      *)
Ingest ==
    /\ pc = "ingest"
    /\ IF ~Ingestible(prop["draft-runbooks"])
       THEN pc' = "failed" /\ UNCHANGED last
       ELSE /\ pc' = "idle"
            /\ last' = IF calm
                       THEN [kb |-> [kb EXCEPT !.drafts =
                                         Grounded(prop["draft-runbooks"])],
                             calm |-> TRUE]
                       ELSE Unsettled
    /\ kb' = EmptyKB
    /\ UNCHANGED <<src, prop, cache, verdicts, cycle, todo, answers, counted,
                   counts, wrote, spoke, calm>>
-----------------------------------------------------------------------------
(* The operator changes the code, or a proposals file by hand.             *)
Edit ==
    /\ troubles < MaxTroubles /\ troubles' = troubles + 1
    /\ \/ src' \in SUBSET Anchor \ {src} /\ UNCHANGED prop
       \/ /\ \E e \in Exchange, f \in File :
                f # prop[e] /\ prop' = [prop EXCEPT ![e] = f]
          /\ UNCHANGED src
    /\ calm' = FALSE /\ last' = Unsettled
    /\ UNCHANGED <<cache, verdicts, kb, pc, cycle, todo, answers, counted,
                   invocations, wrote, spoke>>

(* The process dies; if it was storing a reply, an empty file is left.     *)
Crash ==
    /\ pc \notin Resting /\ troubles < MaxTroubles
    /\ troubles' = troubles + 1
    /\ pc' = "idle" /\ todo' = {} /\ answers' = <<>> /\ kb' = EmptyKB
    /\ \/ UNCHANGED cache
       \/ /\ pc = "drive"
          /\ \E c \in Calls(Due) \ DOMAIN answers :
                /\ PromptOf(c) \notin DOMAIN cache
                /\ cache' = With(cache, PromptOf(c), Silence)
    /\ UNCHANGED <<src, prop, verdicts, cycle, counted, invocations, history>>

Engine == Scan \/ Land \/ Apply \/ Ingest \/ \E c \in Call : Ask(c)

Next == Begin \/ Engine \/ Edit \/ Crash

(* The command keeps running: every provider call is cut off by a timeout  *)
(* (provider.py:95).  The operator and crashes are not fair.               *)
Spec == Init /\ [][Next]_vars /\ WF_vars(Engine)
-----------------------------------------------------------------------------
(* "Graduation is recorded only on the final cycle, so repeated cycles     *)
(* can't double-count one confirmation" (autopilot.py:12-13): while the    *)
(* cycles run nothing is counted, and when they are over the tracker has   *)
(* gained exactly the refutations that the final KB shows.                 *)
CountedAsDecided ==
    \A c \in Claim :
        /\ pc \in {"scan", "drive", "apply"} => counted[c] = 0
        /\ pc = "ingest" =>
               counted[c] = IF kb.claims[c] = "rejected" THEN 1 ELSE 0

(* A provider that fails on every call changes nothing, whatever verdict   *)
(* and proposals files earlier invocations left: no file, no status and no *)
(* count ("never a false pass", provider.py:70, and never a false finding).*)
SilenceDecidesNothing ==
    pc \in {"drive", "apply", "ingest"} /\ ~spoke =>
        /\ ~wrote /\ \A c \in Claim : counted[c] = 0
        /\ kb.alert # "absent" => kb.alert = "verified"
        /\ \A c \in Claim : kb.claims[c] # "rejected"

(* "--cache-dir makes re-runs replay deterministically" (cli.py:640): once *)
(* an invocation had all its calls answered on a target that nobody edits, *)
(* later ones put no new prompt to the provider and end with the same KB,  *)
(* even if some die on the way.  This takes two cycles or more: the first  *)
(* scan of an invocation may still find older proposals.                   *)
ReplayConverges ==
    [][last.calm /\ pc \notin Resting /\ UNCHANGED troubles =>
           /\ UNCHANGED cache
           /\ pc' = "idle" => last'.kb = last.kb]_vars

(* Every invocation comes to an end, answered or not.                      *)
Terminates == pc \notin Resting ~> pc \in Resting

-----------------------------------------------------------------------------
(* gap_finder.py:660-664: "a malformed proposals file is self-gated to 'no *)
(* proposals' ... it must not abort the whole scan".  Only a file that is  *)
(* not JSON is: a number in place of the list raises, in the drive that    *)
(* wrote it and in every scan of the target after that.                    *)
ScanSurvives == pc # "scan failed"
=============================================================================
