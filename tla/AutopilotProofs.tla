-------------------------- MODULE AutopilotProofs --------------------------
(***************************************************************************)
(* Proofs about the autopilot command, for any target, any claims, any     *)
(* provider, any number of cycles, invocations, edits and crashes.         *)
(***************************************************************************)
EXTENDS Autopilot, FiniteSetTheorems, Integers, TLAPS

-----------------------------------------------------------------------------
(* The loop over the worklist.                                             *)

(* The tasks by name.                                                      *)
LEMMA TheTasks ==
  /\ DOMAIN Worklist = 1 .. 4
  /\ Worklist[1] = "discover-gaps" /\ Worklist[2] = "confirm-challenge"
  /\ Worklist[3] = "confirm-boundaries" /\ Worklist[4] = "draft-runbooks"
  /\ Range(Worklist) = {"discover-gaps", "confirm-challenge", "confirm-boundaries",
                        "draft-runbooks"}
  BY DEF Worklist, Range

(* As long as tasks are left, one of them is due.                          *)
LEMMA DueIsLeft ==
  ASSUME todo \subseteq Range(Worklist), todo # {}
  PROVE  Due \in todo
<1> DEFINE First(i) == /\ Worklist[i] \in todo
                       /\ \A j \in 1 .. (i - 1) : Worklist[j] \notin todo
<1>1. \E i \in 1 .. 4 : First(i)
  <2>1. CASE Worklist[1] \in todo
    BY <2>1
  <2>2. CASE Worklist[1] \notin todo /\ Worklist[2] \in todo
    BY <2>2
  <2>3. CASE Worklist[1] \notin todo /\ Worklist[2] \notin todo /\ Worklist[3] \in todo
    BY <2>3
  <2>4. CASE Worklist[1] \notin todo /\ Worklist[2] \notin todo /\ Worklist[3] \notin todo
    <3>1. Worklist[4] \in todo
      BY <2>4, TheTasks
    <3> QED
      BY <2>4, <3>1
  <2> QED
    BY <2>1, <2>2, <2>3, <2>4
<1>2. First(CHOOSE i \in DOMAIN Worklist : First(i))
  BY <1>1, TheTasks
<1> QED
  BY <1>2 DEF Due

(* What the engine reads in a verdict, and what the gate makes of it.      *)
LEMMA ParsedType == \A r : ParsedVerdict(r) \in Verdict
  BY DEF ParsedVerdict, Verdict
LEMMA GateType ==
  ASSUME NEW s \in Status, NEW vs
  PROVE  ChallengeGate(s, vs) \in Status
  BY DEF Status, ChallengeGate

-----------------------------------------------------------------------------
(* Types, and how far the loop is.                                         *)
Disputes == UNION {Replies(c) : c \in Claim}
Looping ==
    /\ pc = "drive" => todo # {} /\ DOMAIN answers \subseteq Calls(Due)
    /\ answers = [c \in DOMAIN answers |-> answers[c]]
TypeInv == TypeOK /\ Looping

(* At the start.                                                           *)
LEMMA TypeInit == Init => TypeInv
<1> SUFFICES ASSUME Init PROVE TypeInv
  OBVIOUS
<1>1. NoFile \in File
  BY DEF NoFile, File
<1>2. NoVerdicts \in [challenge : Verdict, confirm : [Claim -> Disputes]]
  BY DEF NoVerdicts, Verdict, Disputes, Replies
<1>3. EmptyKB \in KB
  BY DEF EmptyKB, KB
<1>4. DOMAIN cache = {} /\ DOMAIN answers = {} /\ answers = [c \in {} |-> answers[c]]
  BY DEF Init
<1>5. 1 \in 1 .. Cycles /\ invocations \in 0 .. MaxInvocations /\ troubles \in 0 .. MaxTroubles
  BY AutopilotAssumption DEF Init
<1> QED
  BY <1>1, <1>2, <1>3, <1>4, <1>5 DEF Init, TypeInv, TypeOK, Looping, Resting, Disputes

(* A provider answers in kind, from the cache or not.                      *)
LEMMA AnswerInKind ==
  ASSUME TypeInv, NEW c \in Call, NEW r, Answer(PromptOf(c), r)
  PROVE  /\ r \in Replies(c)
         /\ DOMAIN cache' \subseteq Prompt
         /\ \A p \in DOMAIN cache' : cache'[p] \in Replies(p.call)
<1>1. PromptOf(c) \in Prompt /\ PromptOf(c).call = c
  BY DEF TypeInv, TypeOK, KB, PromptOf, Prompt
<1>2. CASE PromptOf(c) \in DOMAIN cache
  BY <1>1, <1>2 DEF Answer, TypeInv, TypeOK
<1>3. CASE PromptOf(c) \notin DOMAIN cache
  <2>1. r \in Replies(c) /\ (cache' = cache \/ cache' = With(cache, PromptOf(c), r))
    BY <1>1, <1>3, ReplyAssumption DEF Answer
  <2>2. CASE cache' = cache
    BY <2>1, <2>2 DEF TypeInv, TypeOK
  <2>3. CASE cache' = With(cache, PromptOf(c), r)
    <3>1. /\ DOMAIN cache' = DOMAIN cache \cup {PromptOf(c)}
          /\ cache'[PromptOf(c)] = r
          /\ \A x \in DOMAIN cache : x # PromptOf(c) => cache'[x] = cache[x]
      BY <2>3 DEF With
    <3> QED
      BY <1>1, <2>1, <3>1 DEF TypeInv, TypeOK
  <2> QED
    BY <2>1, <2>2, <2>3
<1> QED
  BY <1>2, <1>3

(* What a task leaves behind.                                              *)
LEMMA LandedType ==
  ASSUME TypeInv, Land
  PROVE  /\ prop' \in [Exchange -> File]
         /\ verdicts' \in [1 .. Cycles -> [challenge : Verdict,
                                           confirm : [Claim -> Disputes]]]
<1>1. Due \in todo /\ Due \in Range(Worklist) /\ cycle \in 1 .. Cycles
  BY DueIsLeft DEF TypeInv, TypeOK, Looping, Land
<1>2. ASSUME Due \in Exchange PROVE answers[Due] \in Replies(Due)
  BY <1>2 DEF Land, Calls, Exchange, TypeInv, TypeOK
<1>3. prop' \in [Exchange -> File]
  <2>1. CASE Due \in Exchange
    <3>1. answers[Due].is \in {"scalar", "list"} => answers[Due] \in File
      BY <1>2, <2>1 DEF Replies, Exchange, Silence, Prose, File
    <3>2. prop' = [prop EXCEPT ![Due] = Landed(answers[Due], @)]
      BY <2>1 DEF Land
    <3> QED
      BY <2>1, <3>1, <3>2 DEF Landed, TypeInv, TypeOK
  <2>2. CASE Due \notin Exchange
    BY <2>2 DEF Land, TypeInv, TypeOK
  <2> QED
    BY <2>1, <2>2
<1>4. verdicts' \in [1 .. Cycles -> [challenge : Verdict, confirm : [Claim -> Disputes]]]
  <2>0. /\ verdicts \in [1 .. Cycles -> [challenge : Verdict,
                                         confirm : [Claim -> Disputes]]]
        /\ verdicts' = Verdicts(Due)
    BY DEF TypeInv, TypeOK, Disputes, Land
  <2>1. CASE Due = "confirm-challenge"
    <3>1. verdicts' = [verdicts EXCEPT ![cycle].challenge = ParsedVerdict(answers[Due])]
      BY <2>0, <2>1 DEF Verdicts
    <3> QED
      BY <1>1, <2>0, <3>1, ParsedType
  <2>2. CASE Due = "confirm-boundaries"
    <3>1. verdicts' = [verdicts EXCEPT ![cycle].confirm = answers]
      BY <2>0, <2>2 DEF Verdicts
    <3>2. DOMAIN answers = Claim
      BY <2>2 DEF Land, TypeInv, Looping, Calls
    <3>3. answers \in [Claim -> Disputes]
      BY <3>2 DEF TypeInv, TypeOK, Looping, Disputes
    <3> QED
      BY <1>1, <2>0, <3>1, <3>3
  <2>3. CASE Due \notin {"confirm-challenge", "confirm-boundaries"}
    BY <2>0, <2>3 DEF Verdicts
  <2> QED
    BY <2>1, <2>2, <2>3
<1> QED
  BY <1>3, <1>4

(* Every step keeps the types.                                             *)
LEMMA TypeNext == TypeInv /\ [Next]_vars => TypeInv'
<1> SUFFICES ASSUME TypeInv, [Next]_vars PROVE TypeInv'
  OBVIOUS
<1>e. <<>> = [c \in {} |-> answers[c]] /\ DOMAIN <<>> = {}
  OBVIOUS
<1>1. CASE UNCHANGED vars
  BY <1>1 DEF TypeInv, TypeOK, Looping, vars, counts, history, Due
<1>2. CASE Begin
  <2>1. NoVerdicts \in [challenge : Verdict, confirm : [Claim -> Disputes]]
    BY DEF NoVerdicts, Verdict, Disputes, Replies
  <2>2. invocations' \in 0 .. MaxInvocations /\ cycle' \in 1 .. Cycles
    BY <1>2, AutopilotAssumption DEF Begin, TypeInv, TypeOK
  <2>3. verdicts' \in [1 .. Cycles -> [challenge : Verdict, confirm : [Claim -> Disputes]]]
    BY <1>2, <2>1 DEF Begin, TypeInv, TypeOK, Disputes
  <2> QED
    BY <1>2, <2>2, <2>3 DEF Begin, TypeInv, TypeOK, Looping, Disputes
<1>3. CASE Scan
  <2>0. /\ answers' = <<>> /\ kb \in KB /\ todo \subseteq Range(Worklist)
        /\ Work[src] \subseteq Range(Worklist)
    BY <1>3, AutopilotAssumption DEF Scan, TypeInv, TypeOK
  <2>1. kb' \in KB
    <3>1. CASE Ingestible(prop["discover-gaps"])
      <4>1. Grounded(prop["discover-gaps"]) \subseteq Anchor
        BY DEF Grounded, TypeInv, TypeOK
      <4> QED
        BY <1>3, <3>1, <4>1 DEF Scan, KB, Status
    <3>2. CASE ~Ingestible(prop["discover-gaps"])
      BY <1>3, <2>0, <3>2 DEF Scan
    <3> QED
      BY <3>1, <3>2
  <2>2. todo' \subseteq Range(Worklist) /\ answers' = <<>>
    BY <1>3, <2>0 DEF Scan
  <2>3. pc' \in {"scan failed", "drive", "ingest"} /\ (pc' = "drive" => todo' # {})
    BY <1>3 DEF Scan
  <2> QED
    BY <1>3, <1>e, <2>1, <2>2, <2>3
       DEF Scan, counts, history, TypeInv, TypeOK, Looping, Resting
<1>4. CASE Land
  <2>1. prop' \in [Exchange -> File]
        /\ verdicts' \in [1 .. Cycles -> [challenge : Verdict, confirm : [Claim -> Disputes]]]
    BY <1>4, LandedType
  <2>2. todo' \subseteq Range(Worklist) /\ answers' = <<>>
    BY <1>4 DEF Land, TypeInv, TypeOK
  <2>3. pc' \in {"failed", "drive", "apply"} /\ (pc' = "drive" => todo' # {})
    <3>1. Due \in todo
      BY <1>4, DueIsLeft DEF Land, TypeInv, TypeOK, Looping
    <3> QED
      BY <1>4, <3>1 DEF Land
  <2> QED
    BY <1>4, <1>e, <2>1, <2>2, <2>3
       DEF Land, counts, TypeInv, TypeOK, Looping, Resting, Disputes
<1>5. CASE Apply
  <2>1. kb' \in KB
    <3>1. ASSUME kb.alert # "absent"
          PROVE  ChallengeGate(kb.alert, {verdicts[cycle].challenge}) \in Status
      BY <3>1, GateType DEF TypeInv, TypeOK, KB
    <3> QED
      BY <1>5, <3>1 DEF Apply, TypeInv, TypeOK, KB, Status
  <2>2. counted' \in [Claim -> Nat]
    <3>1. \A out : Counted(out) \in [Claim -> Nat]
      BY DEF Counted, TypeInv, TypeOK
    <3> QED
      BY <1>5, <3>1 DEF Apply, TypeInv, TypeOK
  <2>3. cycle' \in 1 .. Cycles /\ pc' \in {"scan", "ingest"}
    BY <1>5, AutopilotAssumption DEF Apply, TypeInv, TypeOK
  <2> QED
    BY <1>5, <2>1, <2>2, <2>3
       DEF Apply, counts, history, TypeInv, TypeOK, Looping
<1>6. CASE Ingest
  <2>1. EmptyKB \in KB
    BY DEF EmptyKB, KB
  <2>2. pc' \in Resting /\ kb' = EmptyKB
    BY <1>6 DEF Ingest, Resting
  <2> QED
    BY <1>6, <2>1, <2>2 DEF Ingest, counts, TypeInv, TypeOK, Looping, Resting
<1>7. ASSUME NEW c \in Call, Ask(c) PROVE TypeInv'
  <2>1. PICK r \in Reply[c] : Answer(PromptOf(c), r) /\ answers' = With(answers, c, r)
    BY <1>7 DEF Ask
  <2>2. /\ r \in Replies(c)
        /\ DOMAIN cache' \subseteq Prompt
        /\ \A p \in DOMAIN cache' : cache'[p] \in Replies(p.call)
    BY <2>1, AnswerInKind
  <2>3. /\ DOMAIN answers' = DOMAIN answers \cup {c} /\ answers'[c] = r
        /\ \A x \in DOMAIN answers : x # c => answers'[x] = answers[x]
        /\ answers' = [x \in DOMAIN answers' |-> answers'[x]]
    <3> DEFINE g == With(answers, c, r)
    <3>1. /\ DOMAIN g = DOMAIN answers \cup {c} /\ g[c] = r
          /\ \A x \in DOMAIN answers : x # c => g[x] = answers[x]
          /\ g = [x \in DOMAIN g |-> g[x]]
      BY DEF With
    <3> HIDE DEF g
    <3>2. answers' = g
      BY <2>1 DEF g
    <3> QED
      BY <3>1, <3>2
  <2>4. \A x \in DOMAIN answers' : answers'[x] \in Replies(x)
    BY <2>2, <2>3 DEF TypeInv, TypeOK
  <2> QED
    BY <1>7, <2>2, <2>3, <2>4 DEF Ask, counts, Due, TypeInv, TypeOK, Looping
<1>8. CASE Edit
  <2>1. src' \subseteq Anchor /\ prop' \in [Exchange -> File]
    BY <1>8 DEF Edit, TypeInv, TypeOK
  <2>2. troubles' \in 0 .. MaxTroubles
    BY <1>8, AutopilotAssumption DEF Edit, TypeInv, TypeOK
  <2> QED
    BY <1>8, <2>1, <2>2 DEF Edit, Due, TypeInv, TypeOK, Looping
<1>9. CASE Crash
  <2>1. EmptyKB \in KB
    BY DEF EmptyKB, KB
  <2>2. /\ DOMAIN cache' \subseteq Prompt
        /\ \A p \in DOMAIN cache' : cache'[p] \in Replies(p.call)
    <3>1. CASE UNCHANGED cache
      BY <3>1 DEF TypeInv, TypeOK
    <3>2. CASE pc = "drive" /\ cache' # cache
      <4>1. PICK c \in Calls(Due) : cache' = With(cache, PromptOf(c), Silence)
        BY <1>9, <3>2 DEF Crash
      <4>2. c \in Call
        <5>1. Due \in Range(Worklist)
          BY <3>2, DueIsLeft DEF TypeInv, TypeOK, Looping
        <5> QED
          BY <4>1, <5>1, TheTasks DEF Calls, Call, Exchange
      <4>3. PromptOf(c) \in Prompt /\ Silence \in Replies(PromptOf(c).call)
        BY <4>2 DEF TypeInv, TypeOK, KB, PromptOf, Prompt, Replies
      <4> QED
        BY <4>1, <4>3 DEF With, TypeInv, TypeOK
    <3> QED
      BY <1>9, <3>1, <3>2 DEF Crash
  <2>3. troubles' \in 0 .. MaxTroubles
    BY <1>9, AutopilotAssumption DEF Crash, TypeInv, TypeOK
  <2>4. pc' = "idle" /\ todo' = {} /\ answers' = <<>> /\ kb' = EmptyKB
    BY <1>9 DEF Crash
  <2> QED
    BY <1>9, <1>e, <2>1, <2>2, <2>3, <2>4
       DEF Crash, history, TypeInv, TypeOK, Looping, Resting
<1> QED
  BY <1>1, <1>2, <1>3, <1>4, <1>5, <1>6, <1>7, <1>8, <1>9 DEF Next, Engine

(* The files, the replies and the KB of an autopilot run are well formed.  *)
THEOREM AutopilotTypeCorrect == Spec => []TypeOK
<1>1. TypeInv => TypeOK
  BY DEF TypeInv
<1> QED
  BY <1>1, TypeInit, TypeNext, PTL DEF Spec

-----------------------------------------------------------------------------
(* What the tracker counts.                                                *)

(* Until the last cycle is applied nothing is counted, and a scan starts   *)
(* every claim anew.                                                       *)
Counting ==
    /\ pc \in {"drive", "apply"} =>
           \A c \in Claim : kb.claims[c] \in {"verified", "absent"}
    /\ CountedAsDecided

(* Every step keeps it.                                                    *)
LEMMA CountingNext == TypeInv /\ Counting /\ [Next]_vars => Counting'
<1> SUFFICES ASSUME TypeInv, Counting, [Next]_vars PROVE Counting'
  OBVIOUS
<1> USE DEF Counting, CountedAsDecided
<1>1. CASE UNCHANGED vars
  BY <1>1 DEF vars, counts, history
<1>2. CASE Begin
  BY <1>2 DEF Begin
<1>3. CASE Scan
  <2>1. CASE pc' = "scan failed"
    BY <2>1
  <2>2. CASE pc' # "scan failed"
    <3>1. /\ kb'.claims = [c \in Claim |-> IF "confirm-boundaries" \in Work[src]
                                           THEN "verified" ELSE "absent"]
          /\ pc = "scan" /\ counted' = counted
      <4>1. Ingestible(prop["discover-gaps"])
        BY <1>3, <2>2 DEF Scan
      <4> QED
        BY <1>3, <4>1 DEF Scan, counts
    <3> QED
      BY <3>1
  <2> QED
    BY <2>1, <2>2
<1>4. CASE Land
  BY <1>4 DEF Land
<1>5. CASE Apply
  <2> DEFINE out == {c \in Claim : kb.claims[c] # "absent"
                                     /\ Refuted(verdicts[cycle].confirm[c])}
  <2>1. ASSUME NEW c \in Claim
        PROVE  /\ kb'.claims[c] = IF c \in out THEN "rejected" ELSE kb.claims[c]
               /\ counted[c] = 0 /\ kb.claims[c] # "rejected"
    BY <1>5 DEF Apply, TypeInv, TypeOK, KB
  <2>2. CASE cycle = Cycles
    <3>1. counted' = Counted(out) /\ pc' = "ingest"
      BY <1>5, <2>2, AutopilotAssumption DEF Apply, Recorded
    <3> QED
      BY <2>1, <3>1 DEF Counted
  <2>3. CASE cycle < Cycles
    BY <1>5, <2>3, AutopilotAssumption DEF Apply, Recorded, TypeInv, TypeOK
  <2> QED
    BY <2>2, <2>3, AutopilotAssumption DEF TypeInv, TypeOK
<1>6. CASE Ingest
  BY <1>6 DEF Ingest
<1>7. ASSUME NEW c \in Call, Ask(c) PROVE Counting'
  BY <1>7 DEF Ask, counts
<1>8. CASE Edit
  BY <1>8 DEF Edit
<1>9. CASE Crash
  BY <1>9 DEF Crash
<1> QED
  BY <1>1, <1>2, <1>3, <1>4, <1>5, <1>6, <1>7, <1>8, <1>9 DEF Next, Engine

(* However many cycles run, the tracker gains one count for each claim the *)
(* final KB shows refuted, and none before that KB stands.                 *)
THEOREM OneCountPerDecision == Spec => []CountedAsDecided
<1>1. Init => Counting
  BY DEF Init, Counting, CountedAsDecided
<1>2. Counting => CountedAsDecided
  BY DEF Counting
<1> QED
  BY <1>1, <1>2, TypeInit, TypeNext, CountingNext, PTL DEF Spec

-----------------------------------------------------------------------------
(* A silent provider.                                                      *)

(* Silent tasks leave their files as the scan found them, and their        *)
(* verdicts without a word.                                                *)
Unheard ==
    /\ pc = "drive" => \A c \in DOMAIN answers : answers[c] = Silence
    /\ pc = "apply" => todo = {}
    /\ kb.alert # "absent" =>
           \/ "confirm-challenge" \in todo
           \/ verdicts[cycle].challenge = "indeterminate"
    /\ \A c \in Claim : kb.claims[c] # "absent" =>
           \/ "confirm-boundaries" \in todo
           \/ verdicts[cycle].confirm[c] = Silence

Silent ==
    /\ pc = "scan" /\ ~spoke => ~wrote /\ \A c \in Claim : counted[c] = 0
    /\ pc \in {"drive", "apply"} /\ ~spoke => Unheard
    /\ SilenceDecidesNothing

(* Landing a task nobody answered.                                         *)
LEMMA LandUnheard ==
  ASSUME TypeInv, Silent, Land, ~spoke
  PROVE  prop' = prop /\ Unheard'
<1>1. \A c \in DOMAIN answers : answers[c] = Silence
  BY DEF Silent, Unheard, Land
<1>2. \A c \in Calls(Due) : answers[c] = Silence
  BY <1>1 DEF Land
<1>3. prop' = prop
  <2>1. CASE Due \in Exchange
    <3>1. answers[Due] = Silence
      BY <1>2, <2>1 DEF Calls, Exchange
    <3>2. prop' = [prop EXCEPT ![Due] = Landed(Silence, @)]
      BY <2>1, <3>1 DEF Land
    <3> QED
      BY <2>1, <3>2 DEF Landed, Silence, TypeInv, TypeOK
  <2>2. CASE Due \notin Exchange
    BY <2>2 DEF Land
  <2> QED
    BY <2>1, <2>2
<1>4. Unheard /\ UNCHANGED <<kb, cycle>> /\ verdicts' = Verdicts(Due)
      /\ todo' = todo \ {Due} /\ answers' = <<>> /\ cycle \in 1 .. Cycles
  BY DEF Silent, Land, TypeInv, TypeOK
<1>5. pc' = "apply" => todo' = {}
  BY DEF Land
<1>6. \A c \in DOMAIN answers' : answers'[c] = Silence
  BY <1>4
<1>7. CASE Due = "confirm-challenge"
  <2>1. ParsedVerdict(answers[Due]) = "indeterminate"
    BY <1>2, <1>7 DEF Calls, ParsedVerdict, Silence, Verdict
  <2>2. verdicts' = [verdicts EXCEPT ![cycle].challenge = "indeterminate"]
    BY <1>4, <1>7, <2>1 DEF Verdicts
  <2>3. /\ verdicts'[cycle].challenge = "indeterminate"
        /\ verdicts'[cycle].confirm = verdicts[cycle].confirm
    BY <1>4, <2>2 DEF TypeInv, TypeOK
  <2> QED
    BY <1>3, <1>4, <1>5, <1>6, <1>7, <2>3 DEF Unheard
<1>8. CASE Due = "confirm-boundaries"
  <2>1. verdicts' = [verdicts EXCEPT ![cycle].confirm = answers]
    BY <1>4, <1>8 DEF Verdicts
  <2>2. /\ verdicts'[cycle].challenge = verdicts[cycle].challenge
        /\ verdicts'[cycle].confirm = answers
    BY <1>4, <2>1 DEF TypeInv, TypeOK
  <2>3. \A c \in Claim : answers[c] = Silence
    BY <1>2, <1>8 DEF Calls
  <2> QED
    BY <1>3, <1>4, <1>5, <1>6, <1>8, <2>2, <2>3 DEF Unheard
<1>9. CASE Due \notin {"confirm-challenge", "confirm-boundaries"}
  <2>1. verdicts' = verdicts
    BY <1>4, <1>9 DEF Verdicts
  <2> QED
    BY <1>3, <1>4, <1>5, <1>6, <1>9, <2>1 DEF Unheard
<1> QED
  BY <1>7, <1>8, <1>9

(* Every step keeps it.                                                    *)
LEMMA SilentNext ==
  TypeInv /\ Counting /\ Silent /\ [Next]_vars => Silent'
<1> SUFFICES ASSUME TypeInv, Counting, Silent, [Next]_vars PROVE Silent'
  OBVIOUS
<1> USE DEF Silent, SilenceDecidesNothing
<1>1. CASE UNCHANGED vars
  BY <1>1 DEF vars, counts, history, Unheard
<1>2. CASE Begin
  BY <1>2 DEF Begin
<1>3. CASE Scan
  <2>1. CASE pc' = "scan failed"
    BY <2>1
  <2>2. CASE pc' # "scan failed"
    <3>1. /\ todo' = Work[src] /\ answers' = <<>>
          /\ kb'.alert = IF "confirm-challenge" \in Work[src] THEN "verified" ELSE "absent"
          /\ kb'.claims = [c \in Claim |-> IF "confirm-boundaries" \in Work[src]
                                           THEN "verified" ELSE "absent"]
          /\ pc = "scan" /\ pc' = IF todo' = {} THEN "ingest" ELSE "drive"
          /\ UNCHANGED <<counted, wrote, spoke>>
      <4>1. Ingestible(prop["discover-gaps"])
        BY <1>3, <2>2 DEF Scan
      <4> QED
        BY <1>3, <4>1 DEF Scan, counts, history
    <3> QED
      BY <3>1 DEF Unheard
  <2> QED
    BY <2>1, <2>2
<1>4. CASE Land
  <2>1. CASE ~spoke
    BY <1>4, <2>1, LandUnheard DEF Land
  <2>2. CASE spoke
    BY <1>4, <2>2 DEF Land
  <2> QED
    BY <2>1, <2>2
<1>5. CASE Apply
  <2>1. CASE ~spoke
    <3>1. Unheard /\ todo = {} /\ ~wrote /\ \A c \in Claim : counted[c] = 0
      BY <1>5, <2>1 DEF Apply, Unheard
    <3>2. \A c \in Claim : kb.claims[c] # "absent" =>
                               ~Refuted(verdicts[cycle].confirm[c])
      BY <3>1 DEF Unheard, Refuted, Silence
    <3>3. \A c \in Claim : kb'.claims[c] = kb.claims[c] /\ counted'[c] = counted[c]
      BY <1>5, <3>2 DEF Apply, Counted, TypeInv, TypeOK, KB
    <3>4. kb.alert # "absent" => kb'.alert = "verified"
      <4>1. kb.alert # "absent" =>
                /\ kb.alert = "verified"
                /\ verdicts[cycle].challenge = "indeterminate"
        BY <1>5, <2>1, <3>1 DEF Apply, Unheard
      <4>2. ChallengeGate("verified", {"indeterminate"}) = "verified"
        BY DEF ChallengeGate, Normalized, Verdict
      <4> QED
        BY <1>5, <4>1, <4>2 DEF Apply, TypeInv, TypeOK, KB
    <3>5. kb.alert = "absent" => kb'.alert = "absent"
      BY <1>5 DEF Apply, TypeInv, TypeOK, KB
    <3>6. UNCHANGED <<wrote, spoke>> /\ pc' \in {"scan", "ingest"}
      BY <1>5 DEF Apply, history
    <3>7. \A c \in Claim : kb.claims[c] # "rejected"
      BY <1>5 DEF Apply, Counting
    <3> QED
      BY <3>1, <3>3, <3>4, <3>5, <3>6, <3>7
  <2>2. CASE spoke
    BY <1>5, <2>2 DEF Apply, history
  <2> QED
    BY <2>1, <2>2
<1>6. CASE Ingest
  BY <1>6 DEF Ingest
<1>7. ASSUME NEW c \in Call, Ask(c) PROVE Silent'
  <2>1. PICK r \in Reply[c] : answers' = With(answers, c, r)
                                 /\ spoke' = (spoke \/ r # Silence)
    BY <1>7 DEF Ask
  <2>2. CASE spoke'
    BY <2>2
  <2>3. CASE ~spoke'
    <3>1. ~spoke /\ r = Silence
      BY <2>1, <2>3
    <3>2. \A x \in DOMAIN answers' : answers'[x] = Silence
      BY <1>7, <2>1, <3>1 DEF Ask, With, Unheard
    <3> QED
      BY <1>7, <3>1, <3>2 DEF Ask, counts, Unheard
  <2> QED
    BY <2>2, <2>3
<1>8. CASE Edit
  BY <1>8 DEF Edit, Unheard
<1>9. CASE Crash
  BY <1>9 DEF Crash
<1> QED
  BY <1>1, <1>2, <1>3, <1>4, <1>5, <1>6, <1>7, <1>8, <1>9 DEF Next, Engine

(* A provider that is down for a whole invocation decides nothing, however *)
(* many cycles run and whatever earlier ones left behind.                  *)
THEOREM SilenceIsHarmless == Spec => []SilenceDecidesNothing
<1>1. Init => Counting /\ Silent
  BY DEF Init, Counting, CountedAsDecided, Silent, SilenceDecidesNothing
<1>2. Silent => SilenceDecidesNothing
  BY DEF Silent
<1> QED
  BY <1>1, <1>2, TypeInit, TypeNext, CountingNext, SilentNext, PTL DEF Spec
-----------------------------------------------------------------------------
(* Replays.                                                                *)

(* What the cache knows of a call put with the gaps g in the KB.           *)
PromptFor(c, g) ==
    [call |-> c, src |-> src, gaps |-> IF c = "draft-runbooks" THEN g ELSE {}]
Said(c, g) == cache[PromptFor(c, g)]
Kept(c, g) == PromptFor(c, g) \in DOMAIN cache /\ Said(c, g) # Silence

(* A task is at rest when its calls are answered by the cache and landing  *)
(* it again changes no file of the target.                                 *)
AtRest(task, g) ==
    /\ \A c \in Calls(task) : Kept(c, g)
    /\ task \in Exchange => /\ Said(task, g).is # "scalar"
                            /\ Landed(Said(task, g), prop[task]) = prop[task]

(* The verdict files of this cycle hold what the cache knows.              *)
Filed(task, g) ==
    /\ task = "confirm-challenge" =>
           verdicts[cycle].challenge = ParsedVerdict(Said(task, g))
    /\ task = "confirm-boundaries" =>
           \A c \in Claim : verdicts[cycle].confirm[c] = Said(c, g)

(* The KB after the scan, and the one that the cached replies make of it.  *)
Gaps == Grounded(prop["discover-gaps"])
Found(task) == IF task \in Work[src] THEN "verified" ELSE "absent"
Opened(g) ==
    [gaps |-> g, claims |-> [c \in Claim |-> Found("confirm-boundaries")],
     alert |-> Found("confirm-challenge"), drafts |-> {}]
Decided ==
    [gaps |-> Gaps,
     claims |-> [c \in Claim |->
         IF "confirm-boundaries" \notin Work[src] THEN "absent"
         ELSE IF Refuted(Said(c, Gaps)) THEN "rejected" ELSE "verified"],
     alert |-> IF "confirm-challenge" \notin Work[src] THEN "absent"
               ELSE ChallengeGate("verified",
                        {ParsedVerdict(Said("confirm-challenge", Gaps))}),
     drafts |-> {}]

(* A calm invocation, cycle by cycle: its replies are in the cache and its *)
(* files are where they will be found.  From the second cycle on the gap   *)
(* proposals are at rest, so every further prompt is drawn from them.      *)
Discovered == "discover-gaps" \in Work[src] => AtRest("discover-gaps", {})
Rested == \A task \in Work[src] : AtRest(task, Gaps)
Asked ==
    /\ kb = Opened(kb.gaps)
    /\ todo \subseteq Work[src] /\ Work[src] # {}
    /\ pc = "apply" => todo = {}
    /\ \A c \in DOMAIN answers :
           Kept(c, kb.gaps) /\ answers[c] = Said(c, kb.gaps)
    /\ \A task \in Work[src] \ todo : AtRest(task, kb.gaps) /\ Filed(task, kb.gaps)
    /\ cycle > 1 \/ last.calm => kb.gaps = Gaps
Calmly ==
    calm =>
        /\ pc \in {"scan", "drive", "apply"} /\ cycle > 1 => Discovered
        /\ pc \in {"drive", "apply"} => Asked
        /\ pc = "ingest" => kb = Decided /\ Rested

(* After it: the whole target is at rest, and the next invocation is calm. *)
Converged ==
    last.calm =>
        /\ pc \notin Resting => calm
        /\ Rested
        /\ last.kb = [Decided EXCEPT !.drafts = Grounded(prop["draft-runbooks"])]
ReplayInv == Calmly /\ Converged

(* The cache may have learned new replies and has forgotten none.          *)
Grown == \A p \in DOMAIN cache : p \in DOMAIN cache' /\ cache'[p] = cache[p]

(* A reply that is kept stays, whatever the cache learns.                  *)
LEMMA SaidStays ==
  ASSUME UNCHANGED src, Grown, NEW c, NEW g, Kept(c, g)
  PROVE  Kept(c, g)' /\ Said(c, g)' = Said(c, g)
<1>1. PromptFor(c, g)' = PromptFor(c, g)
  BY DEF PromptFor
<1> QED
  BY <1>1 DEF Kept, Said, Grown

(* The same of a whole task, unless its own file changes.                  *)
LEMMA RestStays ==
  ASSUME UNCHANGED src, Grown, NEW task, NEW g, AtRest(task, g),
         task \in Exchange => prop'[task] = prop[task]
  PROVE  AtRest(task, g)'
<1>1. \A c \in Calls(task) : Kept(c, g)' /\ Said(c, g)' = Said(c, g)
  BY SaidStays DEF AtRest
<1>2. task \in Exchange => task \in Calls(task)
  BY DEF Calls, Exchange
<1> QED
  BY <1>1, <1>2 DEF AtRest

(* Nothing of it moves while target and cache stand still.                 *)
LEMMA AllStays ==
  ASSUME UNCHANGED <<src, prop, cache>>
  PROVE  /\ Gaps' = Gaps /\ Decided' = Decided
         /\ Rested => Rested'
         /\ Discovered => Discovered'
         /\ \A c, g : Kept(c, g) => Kept(c, g)' /\ Said(c, g)' = Said(c, g)
         /\ \A task, g : AtRest(task, g) => AtRest(task, g)'
<1>0. Grown /\ UNCHANGED src
  BY DEF Grown
<1>1. Gaps' = Gaps
  BY DEF Gaps, Grounded
<1>2. Decided' = Decided
  BY <1>1 DEF Decided, Said, PromptFor, Refuted
<1>3. \A c, g : Kept(c, g) => Kept(c, g)' /\ Said(c, g)' = Said(c, g)
  BY <1>0, SaidStays
<1>4. \A task, g : AtRest(task, g) => AtRest(task, g)'
  BY <1>0, RestStays
<1>5. Rested => Rested'
  <2>1. PICK g : g = Gaps
    OBVIOUS
  <2>2. Rested = \A task \in Work[src] : AtRest(task, g)
    BY <2>1 DEF Rested
  <2>3. Rested' = \A task \in Work[src] : AtRest(task, g)'
    BY <1>1, <2>1 DEF Rested
  <2> QED
    BY <1>4, <2>2, <2>3
<1>6. Discovered => Discovered'
  BY <1>4 DEF Discovered
<1> QED
  BY <1>1, <1>2, <1>3, <1>4, <1>5, <1>6

(* So the history of a calm invocation stands while nothing moves.         *)
LEMMA ConvergedStays ==
  ASSUME Converged, UNCHANGED <<src, prop, cache, last>>,
         last.calm /\ pc' \notin Resting => calm'
  PROVE  Converged'
<1>1. /\ Decided' = Decided /\ (Rested => Rested')
      /\ Grounded(prop["draft-runbooks"])' = Grounded(prop["draft-runbooks"])
  BY AllStays DEF Grounded
<1> QED
  BY <1>1 DEF Converged

(* The cache answers or learns.                                            *)
LEMMA CacheLearns ==
  ASSUME NEW p, NEW r, Answer(p, r)
  PROVE  /\ Grown
         /\ r # Silence => p \in DOMAIN cache' /\ cache'[p] = r
         /\ p \in DOMAIN cache => cache' = cache /\ r = cache[p]
<1>1. CASE p \in DOMAIN cache
  BY <1>1 DEF Answer, Grown
<1>2. CASE p \notin DOMAIN cache
  BY <1>2 DEF Answer, Grown, With
<1> QED
  BY <1>1, <1>2

(* After a calm invocation, the cache answers every call that is due.      *)
LEMMA AnsweredBefore ==
  ASSUME TypeInv, ReplayInv, last.calm, pc = "drive", NEW c \in Calls(Due)
  PROVE  PromptOf(c) \in DOMAIN cache /\ cache[PromptOf(c)] # Silence
<1>1. calm /\ Asked /\ kb.gaps = Gaps
  BY DEF ReplayInv, Calmly, Converged, Resting, Asked
<1>2. Due \in Work[src]
  BY <1>1, DueIsLeft DEF Asked, TypeInv, TypeOK, Looping
<1>3. AtRest(Due, Gaps)
  BY <1>2 DEF ReplayInv, Converged, Rested
<1>4. PromptOf(c) = PromptFor(c, Gaps)
  BY <1>1 DEF PromptOf, PromptFor
<1> QED
  BY <1>3, <1>4 DEF AtRest, Kept, Said

(* A call of a calm invocation.                                            *)
LEMMA AskReplays ==
  ASSUME TypeInv, ReplayInv, NEW c \in Call, Ask(c)
  PROVE  ReplayInv'
<1>0. PICK r \in Reply[c] : /\ Answer(PromptOf(c), r) /\ answers' = With(answers, c, r)
                            /\ calm' = (calm /\ r # Silence)
  BY DEF Ask
<1>1. /\ pc = "drive" /\ c \in Calls(Due)
      /\ UNCHANGED <<src, prop, verdicts, kb, pc, cycle, todo, last>>
  BY DEF Ask
<1>2. /\ Grown /\ (r # Silence => PromptOf(c) \in DOMAIN cache' /\ cache'[PromptOf(c)] = r)
      /\ (PromptOf(c) \in DOMAIN cache => cache' = cache /\ r = cache[PromptOf(c)])
  BY <1>0, CacheLearns
<1>3. Converged'
  <2>1. CASE last.calm
    <3>1. calm /\ cache' = cache /\ r # Silence
      BY <1>1, <1>2, <2>1, AnsweredBefore DEF ReplayInv, Converged, Resting
    <3>2. calm'
      BY <1>0, <3>1
    <3> QED
      BY <1>1, <3>1, <3>2, ConvergedStays DEF ReplayInv
  <2>2. CASE ~last.calm
    BY <1>1, <2>2 DEF Converged
  <2> QED
    BY <2>1, <2>2
<1>4. ASSUME calm' PROVE Calmly'
  <2>1. PICK g : g = kb.gaps
    OBVIOUS
  <2>2. calm /\ r # Silence /\ Asked
    BY <1>0, <1>1, <1>4 DEF ReplayInv, Calmly
  <2>3. Kept(c, g)' /\ Said(c, g)' = r
    <3>1. PromptOf(c) = PromptFor(c, g) /\ PromptFor(c, g)' = PromptFor(c, g)
      BY <1>1, <2>1 DEF PromptOf, PromptFor
    <3> QED
      BY <1>2, <2>2, <3>1 DEF Kept, Said
  <2>4. \A x \in DOMAIN answers' : Kept(x, g)' /\ answers'[x] = Said(x, g)'
    <3>1. ASSUME NEW x \in DOMAIN answers, x # c
          PROVE  Kept(x, g)' /\ answers[x] = Said(x, g)'
      <4>1. Kept(x, g) /\ answers[x] = Said(x, g)
        BY <2>1, <2>2, <3>1 DEF Asked
      <4> QED
        BY <1>1, <1>2, <4>1, SaidStays
    <3>2. /\ DOMAIN answers' = DOMAIN answers \cup {c} /\ answers'[c] = r
          /\ \A x \in DOMAIN answers : x # c => answers'[x] = answers[x]
      BY <1>0 DEF With
    <3> QED
      BY <2>3, <3>1, <3>2
  <2>5. \A task \in Work[src] \ todo : AtRest(task, g)' /\ Filed(task, g)'
    <3>1. ASSUME NEW task \in Work[src] \ todo
          PROVE  AtRest(task, g)' /\ Filed(task, g)'
      <4>1. AtRest(task, g) /\ Filed(task, g)
        BY <2>1, <2>2 DEF Asked
      <4>2. AtRest(task, g)'
        BY <1>1, <1>2, <4>1, RestStays
      <4>3. \A x \in Calls(task) : Said(x, g)' = Said(x, g)
        BY <1>1, <1>2, <4>1, SaidStays DEF AtRest
      <4>4. Filed(task, g)'
        BY <1>1, <4>1, <4>3 DEF Filed, Calls
      <4> QED
        BY <4>2, <4>4
    <3> QED
      BY <3>1
  <2>6. Discovered => Discovered'
    <3>1. AtRest("discover-gaps", {}) => AtRest("discover-gaps", {})'
      BY <1>1, <1>2, RestStays
    <3> QED
      BY <1>1, <3>1 DEF Discovered
  <2>7. Gaps' = Gaps /\ Opened(g)' = Opened(g)
    BY <1>1 DEF Gaps, Grounded, Opened, Found
  <2>8. Asked'
    <3>1. kb'.gaps = g /\ kb' = Opened(g)
      BY <1>1, <2>1, <2>2 DEF Asked
    <3> QED
      BY <1>1, <2>1, <2>2, <2>4, <2>5, <2>7, <3>1 DEF Asked
  <2> QED
    BY <1>1, <2>2, <2>6, <2>8 DEF ReplayInv, Calmly
<1> QED
  BY <1>3, <1>4 DEF ReplayInv, Calmly

(* A scan opens the KB from the files as they are.                         *)
LEMMA ScanReplays ==
  ASSUME TypeInv, ReplayInv, Scan
  PROVE  ReplayInv'
<1>0. DOMAIN <<>> = {}
  OBVIOUS
<1>1. /\ pc = "scan" /\ answers' = <<>> /\ DOMAIN answers' = {}
      /\ UNCHANGED <<src, prop, cache, verdicts, cycle, calm, last>>
  BY <1>0 DEF Scan, history
<1>2. Converged'
  BY <1>1, ConvergedStays DEF ReplayInv, Converged, Resting
<1>3. ASSUME calm, pc' # "scan failed" PROVE Calmly'
  <2>1. PICK g : g = Gaps
    OBVIOUS
  <2>2. Gaps' = g /\ Decided' = Decided /\ (Discovered => Discovered')
    BY <1>1, <2>1, AllStays
  <2>3. /\ kb' = Opened(g) /\ todo' = Work[src]
        /\ pc' = IF todo' = {} THEN "ingest" ELSE "drive"
    <3>1. Ingestible(prop["discover-gaps"])
      BY <1>3 DEF Scan
    <3> QED
      BY <2>1, <3>1 DEF Scan, Opened, Found, Gaps
  <2>4. kb'.gaps = g /\ Opened(g)' = Opened(g)
    BY <1>1, <2>3 DEF Opened, Found
  <2>5. CASE todo' = {}
    <3>1. Decided = Opened(g)
      BY <2>1, <2>3, <2>5 DEF Decided, Opened, Found
    <3>2. Rested'
      BY <1>1, <2>3, <2>5 DEF Rested
    <3> QED
      BY <2>2, <2>3, <2>5, <3>1, <3>2 DEF Calmly
  <2>6. CASE todo' # {}
    <3>1. Asked'
      BY <1>1, <2>2, <2>3, <2>4, <2>6 DEF Asked
    <3> QED
      BY <1>1, <1>3, <2>2, <2>3, <2>6, <3>1 DEF ReplayInv, Calmly
  <2> QED
    BY <2>5, <2>6
<1>4. CASE pc' = "scan failed"
  BY <1>2, <1>4 DEF ReplayInv, Calmly
<1>5. CASE pc' # "scan failed"
  BY <1>1, <1>2, <1>3, <1>5 DEF ReplayInv, Calmly
<1> QED
  BY <1>4, <1>5

(* Landing a task whose replies the cache holds brings it to rest; one that*)
(* is at rest already changes no file and does not fail.                   *)
LEMMA LandRests ==
  ASSUME TypeInv, Land, calm, Asked, NEW g, g = kb.gaps, NEW task, task = Due
  PROVE  /\ task \in todo /\ task \in Work[src]
         /\ pc' # "failed" => AtRest(task, g)' /\ Filed(task, g)'
         /\ AtRest(task, g) => prop' = prop /\ pc' # "failed"
<1>1. task \in todo /\ task \in Work[src]
  BY DueIsLeft DEF Asked, Land, TypeInv, TypeOK, Looping
<1>2. \A c \in Calls(task) : Kept(c, g) /\ answers[c] = Said(c, g)
  BY DEF Land, Asked
<1>3. UNCHANGED <<src, cache, cycle>> /\ Grown /\ cycle \in 1 .. Cycles
  BY DEF Land, Grown, TypeInv, TypeOK
<1>4. \A c : Kept(c, g) => Kept(c, g)' /\ Said(c, g)' = Said(c, g)
  BY <1>3, SaidStays
<1>5. CASE task \in Exchange
  <2>1. /\ task \in Calls(task) /\ Calls(task) = {task}
        /\ task \notin {"confirm-challenge", "confirm-boundaries"}
    BY <1>5 DEF Calls, Exchange
  <2>2. /\ prop' = [prop EXCEPT ![task] = Landed(Said(task, g), @)]
        /\ prop'[task] = Landed(Said(task, g), prop[task])
        /\ (pc' = "failed" <=> Said(task, g).is = "scalar")
    BY <1>2, <1>5, <2>1 DEF Land, TypeInv, TypeOK
  <2>3. Landed(Said(task, g), prop'[task]) = prop'[task]
    BY <2>2 DEF Landed
  <2>4. ASSUME AtRest(task, g) PROVE prop' = prop /\ pc' # "failed"
    BY <1>5, <2>2, <2>4 DEF AtRest, TypeInv, TypeOK
  <2>5. ASSUME pc' # "failed" PROVE AtRest(task, g)' /\ Filed(task, g)'
    BY <1>2, <1>4, <1>5, <2>1, <2>2, <2>3, <2>5 DEF AtRest, Filed
  <2> QED
    BY <1>1, <2>4, <2>5
<1>6. CASE task \notin Exchange
  <2>1. prop' = prop /\ pc' # "failed" /\ verdicts' = Verdicts(task)
    BY <1>6 DEF Land
  <2>2. task = "confirm-challenge" =>
            verdicts'[cycle].challenge = ParsedVerdict(Said(task, g))
    <3>1. ASSUME task = "confirm-challenge"
          PROVE  verdicts' = [verdicts EXCEPT ![cycle].challenge =
                                 ParsedVerdict(Said(task, g))]
      BY <1>2, <2>1, <3>1 DEF Verdicts, Calls
    <3> QED
      BY <1>3, <3>1 DEF TypeInv, TypeOK
  <2>3. task = "confirm-boundaries" =>
            \A c \in Claim : verdicts'[cycle].confirm[c] = Said(c, g)
    <3>1. ASSUME task = "confirm-boundaries"
          PROVE  verdicts' = [verdicts EXCEPT ![cycle].confirm = answers]
      BY <2>1, <3>1 DEF Verdicts
    <3> QED
      BY <1>2, <1>3, <3>1 DEF Calls, TypeInv, TypeOK
  <2>4. AtRest(task, g)' /\ Filed(task, g)'
    BY <1>2, <1>3, <1>4, <1>6, <2>2, <2>3 DEF AtRest, Filed, Calls
  <2> QED
    BY <1>1, <2>1, <2>4
<1> QED
  BY <1>5, <1>6

(* The other tasks stay as they are.                                       *)
LEMMA LandLeaves ==
  ASSUME TypeInv, Land, NEW task, task # Due, NEW g, AtRest(task, g), Filed(task, g)
  PROVE  AtRest(task, g)' /\ Filed(task, g)'
<1>1. UNCHANGED <<src, cache, cycle>> /\ Grown /\ cycle \in 1 .. Cycles
  BY DEF Land, Grown, TypeInv, TypeOK
<1>2. task \in Exchange => prop'[task] = prop[task]
  BY DEF Land, TypeInv, TypeOK
<1>3. AtRest(task, g)'
  BY <1>1, <1>2, RestStays
<1>4. \A c \in Calls(task) : Said(c, g)' = Said(c, g)
  BY <1>1, SaidStays DEF AtRest
<1>5. /\ task = "confirm-challenge" => verdicts'[cycle].challenge = verdicts[cycle].challenge
      /\ task = "confirm-boundaries" => verdicts'[cycle].confirm = verdicts[cycle].confirm
  BY <1>1 DEF Land, Verdicts, TypeInv, TypeOK
<1>6. Filed(task, g)'
  BY <1>1, <1>4, <1>5 DEF Filed, Calls
<1> QED
  BY <1>3, <1>6

(* After a calm invocation, a landing changes no file and does not fail.   *)
LEMMA LandMovesNothing ==
  ASSUME TypeInv, ReplayInv, Land, last.calm
  PROVE  prop' = prop /\ pc' # "failed"
<1>1. PICK g : g = kb.gaps
  OBVIOUS
<1>2. calm /\ Asked /\ g = Gaps
  BY <1>1 DEF ReplayInv, Calmly, Converged, Resting, Asked, Land
<1>3. Due \in Work[src]
  BY <1>1, <1>2, LandRests
<1>4. AtRest(Due, g)
  BY <1>2, <1>3 DEF ReplayInv, Converged, Rested
<1> QED
  BY <1>1, <1>2, <1>4, LandRests

(* Landing a task in a calm invocation.                                    *)
LEMMA LandReplays ==
  ASSUME TypeInv, ReplayInv, Land
  PROVE  ReplayInv'
<1>0. DOMAIN <<>> = {}
  OBVIOUS
<1>1. /\ pc = "drive" /\ UNCHANGED <<src, cache, kb, cycle, calm, last>>
      /\ todo' = todo \ {Due} /\ answers' = <<>> /\ DOMAIN answers' = {}
      /\ pc' \in {"failed", "apply", "drive"} /\ (pc' = "apply" => todo' = {})
  BY <1>0 DEF Land
<1>2. Converged'
  <2>1. CASE last.calm
    BY <1>1, <2>1, LandMovesNothing, ConvergedStays DEF ReplayInv, Converged, Resting
  <2>2. CASE ~last.calm
    BY <1>1, <2>2 DEF Converged
  <2> QED
    BY <2>1, <2>2
<1>3. ASSUME calm, pc' # "failed" PROVE Calmly'
  <2>1. PICK g : g = kb.gaps
    OBVIOUS
  <2>2. Asked /\ kb = Opened(g)
    BY <1>1, <1>3, <2>1 DEF ReplayInv, Calmly, Asked
  <2>0. PICK due : due = Due
    OBVIOUS
  <2>3. due \in todo /\ due \in Work[src] /\ AtRest(due, g)' /\ Filed(due, g)'
    BY <1>3, <2>0, <2>1, <2>2, LandRests
  <2>4. \A task \in Work[src] \ todo' : AtRest(task, g)' /\ Filed(task, g)'
    <3>1. ASSUME NEW task \in Work[src] \ todo, task # Due
          PROVE  AtRest(task, g)' /\ Filed(task, g)'
      <4>1. AtRest(task, g) /\ Filed(task, g)
        BY <2>1, <2>2, <3>1 DEF Asked
      <4> QED
        BY <3>1, <4>1, LandLeaves
    <3> QED
      BY <1>1, <2>0, <2>3, <3>1
  <2>5. cycle > 1 \/ last.calm => prop'["discover-gaps"] = prop["discover-gaps"]
    <3>1. CASE last.calm
      BY <3>1, LandMovesNothing
    <3>2. CASE cycle > 1 /\ Due = "discover-gaps"
      <4>1. AtRest(Due, {})
        BY <1>1, <1>3, <2>0, <2>3, <3>2 DEF ReplayInv, Calmly, Discovered
      <4>2. AtRest(Due, g)
        BY <3>2, <4>1 DEF AtRest, Calls, Kept, Said, PromptFor
      <4> QED
        BY <1>3, <2>1, <2>2, <4>2, LandRests
    <3>3. CASE Due # "discover-gaps"
      BY <3>3 DEF Land, Exchange, TypeInv, TypeOK
    <3> QED
      BY <3>1, <3>2, <3>3
  <2>6. cycle > 1 => Discovered'
    <3>1. ASSUME cycle > 1, AtRest("discover-gaps", {})
          PROVE  AtRest("discover-gaps", {})'
      BY <1>1, <2>5, <3>1, RestStays DEF Grown
    <3> QED
      BY <1>1, <1>3, <3>1 DEF ReplayInv, Calmly, Discovered
  <2>7. cycle > 1 \/ last.calm => g = Gaps /\ Gaps' = Gaps
    BY <1>1, <2>1, <2>2, <2>5 DEF Asked, Gaps, Grounded
  <2>8. Opened(g)' = Opened(g)
    BY <1>1 DEF Opened, Found
  <2>9. Asked'
    <3>1. kb' = Opened(g) /\ kb'.gaps = g /\ todo' \subseteq Work[src] /\ Work[src] # {}
      BY <1>1, <2>1, <2>2 DEF Asked
    <3> QED
      BY <1>1, <2>4, <2>7, <2>8, <3>1 DEF Asked
  <2> QED
    BY <1>1, <1>3, <2>6, <2>9 DEF Calmly
<1>4. CASE pc' = "failed"
  BY <1>2, <1>4 DEF ReplayInv, Calmly
<1>5. CASE pc' # "failed"
  BY <1>1, <1>2, <1>3, <1>5 DEF ReplayInv, Calmly
<1> QED
  BY <1>4, <1>5

(* The end of a cycle: the cached replies decide what the KB becomes.      *)
LEMMA ApplyReplays ==
  ASSUME Cycles > 1, TypeInv, ReplayInv, Apply
  PROVE  ReplayInv'
<1>1. /\ pc = "apply" /\ UNCHANGED <<src, prop, cache, verdicts, calm, last>>
      /\ cycle \in 1 .. Cycles /\ Cycles \in Nat
      /\ IF cycle < Cycles THEN pc' = "scan" /\ cycle' = cycle + 1
                           ELSE pc' = "ingest" /\ cycle' = cycle
  BY AutopilotAssumption DEF Apply, history, TypeInv, TypeOK
<1>2. Converged'
  BY <1>1, ConvergedStays DEF ReplayInv, Converged, Resting
<1>3. ASSUME calm PROVE Calmly'
  <2>1. PICK g : g = kb.gaps
    OBVIOUS
  <2>2. /\ kb = Opened(g) /\ (cycle > 1 => g = Gaps)
        /\ \A task \in Work[src] : AtRest(task, g) /\ Filed(task, g)
    BY <1>1, <1>3, <2>1 DEF ReplayInv, Calmly, Asked
  <2>3. /\ Gaps' = Gaps /\ Decided' = Decided /\ (Rested => Rested')
        /\ (Discovered => Discovered')
    BY <1>1, AllStays
  <2>4. CASE cycle < Cycles
    <3>1. Discovered
      BY <2>2 DEF Discovered, AtRest, Calls, Kept, Said, PromptFor
    <3> QED
      BY <1>1, <2>3, <2>4, <3>1 DEF Calmly
  <2>5. CASE cycle = Cycles
    <3>1. g = Gaps /\ Rested
      BY <2>2, <2>5 DEF Rested
    <3>2. kb' = Decided
      <4> DEFINE out == {c \in Claim : kb.claims[c] # "absent"
                                         /\ Refuted(verdicts[cycle].confirm[c])}
      <4>1. kb' = [kb EXCEPT
                 !.alert = IF @ = "absent" THEN @
                           ELSE ChallengeGate(@, {verdicts[cycle].challenge}),
                 !.claims = [c \in Claim |-> IF c \in out THEN "rejected" ELSE @[c]]]
        BY DEF Apply
      <4>2. \A c \in Claim : (IF c \in out THEN "rejected" ELSE kb.claims[c]) =
                                 Decided.claims[c]
        BY <2>2, <3>1 DEF Opened, Found, Filed, Decided
      <4>3. (IF kb.alert = "absent" THEN kb.alert
             ELSE ChallengeGate(kb.alert, {verdicts[cycle].challenge})) = Decided.alert
        BY <2>2, <3>1 DEF Opened, Found, Filed, Decided
      <4>4. [c \in Claim |-> IF c \in out THEN "rejected" ELSE kb.claims[c]] = Decided.claims
        BY <4>2 DEF Decided
      <4> HIDE DEF out
      <4>5. PICK A, C : kb = [gaps |-> g, claims |-> C, alert |-> A, drafts |-> {}]
        BY <2>2 DEF Opened
      <4>6. kb' = [gaps |-> g, claims |-> Decided.claims, alert |-> Decided.alert, drafts |-> {}]
        <5>1. kb.claims = C /\ kb.alert = A
          BY <4>5
        <5>2. kb' = [kb EXCEPT !.alert = Decided.alert, !.claims = Decided.claims]
          BY <4>1, <4>3, <4>4
        <5> QED
          BY <4>5, <5>2
      <4>7. Decided = [gaps |-> Gaps, claims |-> Decided.claims,
                       alert |-> Decided.alert, drafts |-> {}]
        BY DEF Decided
      <4> QED
        BY <3>1, <4>6, <4>7
    <3> QED
      BY <1>1, <2>3, <2>5, <3>1, <3>2 DEF Calmly
  <2> QED
    BY <1>1, <2>4, <2>5
<1> QED
  BY <1>1, <1>2, <1>3 DEF ReplayInv, Calmly

(* What an invocation ends with is what the target at rest gives.          *)
LEMMA IngestReplays ==
  ASSUME TypeInv, ReplayInv, Ingest
  PROVE  /\ ReplayInv'
         /\ last.calm /\ pc' = "idle" => last'.kb = last.kb
<1>1. pc = "ingest" /\ UNCHANGED <<src, prop, cache, calm>> /\ pc' \in {"failed", "idle"}
  BY DEF Ingest
<1>2. Calmly'
  BY <1>1 DEF Calmly
<1>3. /\ Decided' = Decided /\ (Rested => Rested')
      /\ Grounded(prop["draft-runbooks"])' = Grounded(prop["draft-runbooks"])
  BY <1>1, AllStays DEF Grounded
<1>4. CASE pc' = "failed"
  <2>1. last' = last
    BY <1>4 DEF Ingest
  <2> QED
    BY <1>1, <1>2, <1>4, <2>1, ConvergedStays DEF ReplayInv, Resting
<1>5. CASE pc' = "idle" /\ calm
  <2>1. last' = [kb |-> [kb EXCEPT !.drafts = Grounded(prop["draft-runbooks"])],
                 calm |-> TRUE]
    BY <1>5 DEF Ingest
  <2>2. kb = Decided /\ Rested
    BY <1>1, <1>5 DEF ReplayInv, Calmly
  <2>3. last'.kb = [Decided EXCEPT !.drafts = Grounded(prop["draft-runbooks"])]
    BY <2>1, <2>2
  <2> QED
    BY <1>2, <1>3, <1>5, <2>2, <2>3 DEF ReplayInv, Converged, Resting
<1>6. CASE pc' = "idle" /\ ~calm
  <2>1. last' = Unsettled /\ ~last.calm
    BY <1>1, <1>6 DEF Ingest, ReplayInv, Converged, Resting
  <2> QED
    BY <1>2, <2>1 DEF ReplayInv, Converged, Unsettled
<1> QED
  BY <1>1, <1>4, <1>5, <1>6

(* A process that dies in a replay was storing nothing.                    *)
LEMMA CrashReplays ==
  ASSUME TypeInv, ReplayInv, Crash
  PROVE  ReplayInv'
<1>1. pc' = "idle" /\ UNCHANGED <<src, prop, calm, last>>
  BY DEF Crash, history
<1>2. last.calm => cache' = cache
  BY AnsweredBefore DEF Crash
<1>3. Converged'
  BY <1>1, <1>2, ConvergedStays DEF ReplayInv, Converged, Resting
<1> QED
  BY <1>1, <1>3 DEF ReplayInv, Calmly

(* Every step keeps it, if there are two cycles or more.                   *)
LEMMA ReplayNext ==
  ASSUME Cycles > 1, TypeInv, ReplayInv, [Next]_vars
  PROVE  ReplayInv'
<1>1. CASE UNCHANGED vars
  <2>1. /\ Gaps' = Gaps /\ Decided' = Decided
        /\ UNCHANGED <<src, prop, cache, verdicts, kb, pc, cycle, todo, answers, calm, last>>
    BY <1>1, AllStays DEF vars, counts, history
  <2>2. Converged'
    BY <2>1, ConvergedStays DEF ReplayInv, Converged
  <2>3. Calmly'
    BY <2>1 DEF ReplayInv, Calmly, Asked, Opened, Found, AtRest, Filed, Kept, Said,
                PromptFor, Discovered, Rested
  <2> QED
    BY <2>2, <2>3 DEF ReplayInv
<1>2. CASE Begin
  <2>1. Calmly'
    BY <1>2 DEF Begin, Calmly
  <2>2. Converged'
    BY <1>2, ConvergedStays DEF Begin, ReplayInv
  <2> QED
    BY <2>1, <2>2 DEF ReplayInv
<1>3. CASE Edit
  BY <1>3 DEF Edit, ReplayInv, Calmly, Converged, Unsettled
<1> QED
  BY <1>1, <1>2, <1>3, ScanReplays, LandReplays, ApplyReplays, IngestReplays,
     AskReplays, CrashReplays DEF Next, Engine

(* Two cycles or more, all calls answered, nobody edits: the next          *)
(* invocation asks nothing new and ends with the same KB, for any target,  *)
(* provider, claims and earlier proposals, and whatever died in between.   *)
(* With one cycle it need not: the first scan may find older proposals.    *)
THEOREM ReplaysEndAlike == ASSUME Cycles > 1 PROVE Spec => ReplayConverges
<1>1. Init => ReplayInv
  BY DEF Init, ReplayInv, Calmly, Converged, Unsettled
<1>2. TypeInv /\ ReplayInv /\ [Next]_vars => ReplayInv'
  BY ReplayNext
<1>3. TypeInv /\ ReplayInv /\ [Next]_vars =>
          [last.calm /\ pc \notin Resting /\ UNCHANGED troubles =>
               /\ UNCHANGED cache
               /\ pc' = "idle" => last'.kb = last.kb]_vars
  <2> SUFFICES ASSUME TypeInv, ReplayInv, Next, last.calm, pc \notin Resting,
                      UNCHANGED troubles
               PROVE  /\ UNCHANGED cache
                      /\ pc' = "idle" => last'.kb = last.kb
    OBVIOUS
  <2>1. CASE Scan
    BY <2>1 DEF Scan
  <2>2. CASE Land
    BY <2>2 DEF Land
  <2>3. CASE Apply
    BY <2>3 DEF Apply
  <2>4. CASE Ingest
    BY <2>4, IngestReplays DEF Ingest
  <2>5. ASSUME NEW c \in Call, Ask(c)
        PROVE  UNCHANGED cache /\ (pc' = "idle" => last'.kb = last.kb)
    <3>1. PICK r \in Reply[c] : Answer(PromptOf(c), r)
      BY <2>5 DEF Ask
    <3>2. PromptOf(c) \in DOMAIN cache
      BY <2>5, AnsweredBefore DEF Ask
    <3> QED
      BY <2>5, <3>1, <3>2, CacheLearns DEF Ask
  <2>6. ~Begin
    BY DEF Begin
  <2>7. ~Edit /\ ~Crash
    BY DEF Edit, Crash, TypeInv, TypeOK
  <2> QED
    BY <2>1, <2>2, <2>3, <2>4, <2>5, <2>6, <2>7 DEF Next, Engine
<1> QED
  BY <1>1, <1>2, <1>3, TypeInit, TypeNext, PTL DEF Spec, ReplayConverges

-----------------------------------------------------------------------------
(* The command runs out.                                                   *)

(* How many steps the engine has left at most: a task is at most as many   *)
(* calls as there are claims (or one) and its landing, a cycle a scan, the *)
(* four tasks and what is applied of them.                                 *)
PerTask == Cardinality(Claim) + 2
PerCycle == 4 * PerTask + 2
ToCome == (Cycles - cycle) * PerCycle
StepsLeft ==
    CASE pc \in Resting -> 0
      [] pc = "ingest" -> 1
      [] pc = "apply" -> ToCome + 2
      [] pc = "drive" -> ToCome + Cardinality(todo) * PerTask
                             - Cardinality(DOMAIN answers) + 2
      [] OTHER -> ToCome + PerCycle + 1

(* No more than four tasks are ever left.                                  *)
LEMMA FourTasks ==
  ASSUME NEW S \in SUBSET Range(Worklist)
  PROVE  IsFiniteSet(S) /\ Cardinality(S) \in 0 .. 4
<1> DEFINE A == {"discover-gaps"}
           B == A \cup {"confirm-challenge"}
           C == B \cup {"confirm-boundaries"}
           D == C \cup {"draft-runbooks"}
<1>1. IsFiniteSet(A) /\ Cardinality(A) = 1
  BY FS_Singleton
<1>2. IsFiniteSet(B) /\ Cardinality(B) = 2
  BY <1>1, FS_AddElement
<1>3. IsFiniteSet(C) /\ Cardinality(C) = 3
  BY <1>2, FS_AddElement
<1>4. IsFiniteSet(D) /\ Cardinality(D) = 4
  BY <1>3, FS_AddElement
<1>5. Range(Worklist) = D
  BY TheTasks
<1>6. IsFiniteSet(S) /\ Cardinality(S) <= 4
  BY <1>4, <1>5, FS_Subset
<1> QED
  BY <1>6, FS_CardinalityType

(* The sizes that occur in it.                                             *)
LEMMA Sizes ==
  ASSUME IsFiniteSet(Claim), TypeInv
  PROVE  /\ PerTask \in Nat /\ PerTask > 1 /\ ToCome \in Nat
         /\ IsFiniteSet(todo) /\ Cardinality(todo) \in 0 .. 4
         /\ pc = "drive" =>
                /\ IsFiniteSet(DOMAIN answers)
                /\ Cardinality(DOMAIN answers) \in 0 .. (PerTask - 1)
<1>1. Cardinality(Claim) \in Nat
  BY FS_CardinalityType
<1>2. PerTask \in Nat /\ PerTask > 1 /\ PerCycle \in Nat
  BY <1>1 DEF PerTask, PerCycle
<1>3. Cycles - cycle \in Nat
  BY AutopilotAssumption DEF TypeInv, TypeOK
<1>4. ToCome \in Nat
  BY <1>2, <1>3 DEF ToCome
<1>6. IsFiniteSet(todo) /\ Cardinality(todo) \in 0 .. 4
  BY FourTasks DEF TypeInv, TypeOK
<1>7. ASSUME pc = "drive"
      PROVE  /\ IsFiniteSet(DOMAIN answers)
             /\ Cardinality(DOMAIN answers) \in 0 .. (PerTask - 1)
  <2>1. IsFiniteSet(Calls(Due)) /\ Cardinality(Calls(Due)) <= PerTask - 1
    <3>1. CASE Calls(Due) = Claim
      BY <1>1, <3>1 DEF PerTask
    <3>2. CASE Calls(Due) = {Due}
      <4>1. IsFiniteSet({Due}) /\ Cardinality({Due}) = 1
        BY FS_Singleton
      <4> QED
        BY <1>1, <3>2, <4>1 DEF PerTask
    <3> QED
      BY <3>1, <3>2 DEF Calls
  <2>2. DOMAIN answers \in SUBSET Calls(Due)
    BY <1>7 DEF TypeInv, Looping
  <2>3. /\ IsFiniteSet(DOMAIN answers)
        /\ Cardinality(DOMAIN answers) <= Cardinality(Calls(Due))
    BY <2>1, <2>2, FS_Subset
  <2>4. Cardinality(DOMAIN answers) \in Nat /\ Cardinality(Calls(Due)) \in Nat
    BY <2>1, <2>3, FS_CardinalityType
  <2> QED
    BY <1>2, <2>1, <2>3, <2>4
<1> QED
  BY <1>2, <1>4, <1>6, <1>7

(* A step of the engine, in any phase, leaves fewer.                       *)
LEMMA EngineShrinks ==
  ASSUME IsFiniteSet(Claim), TypeInv, Engine
  PROVE  StepsLeft' < StepsLeft
<1> DEFINE t == Cardinality(todo)
           a == Cardinality(DOMAIN answers)
<1>1. /\ PerTask \in Nat /\ PerTask > 1 /\ ToCome \in Nat
      /\ IsFiniteSet(todo) /\ t \in 0 .. 4
      /\ pc = "drive" => IsFiniteSet(DOMAIN answers) /\ a \in 0 .. (PerTask - 1)
  BY Sizes
<1>2. PerTask' = PerTask /\ PerCycle' = PerCycle /\ PerCycle = 4 * PerTask + 2
  BY DEF PerTask, PerCycle
<1>3. /\ \A k \in 0 .. 4 : k * PerTask \in Nat /\ k * PerTask <= 4 * PerTask
      /\ \A k \in 1 .. 4 : (k - 1) * PerTask = k * PerTask - PerTask
      /\ \A k \in 1 .. 4 : k * PerTask >= PerTask
  BY <1>1
<1> HIDE DEF t, a
<1>4. CASE Scan
  <2>1. pc = "scan" /\ cycle' = cycle /\ answers' = <<>>
        /\ pc' \in {"scan failed", "ingest", "drive"}
    BY <1>4 DEF Scan
  <2>2. StepsLeft = ToCome + PerCycle + 1 /\ ToCome' = ToCome
    BY <2>1 DEF StepsLeft, Resting, ToCome, PerCycle, PerTask
  <2>3. CASE pc' = "drive"
    <3>1. todo' \in SUBSET Range(Worklist)
      <4>1. todo' = Work[src]
        BY <1>4, <2>3 DEF Scan
      <4>2. src \in SUBSET Anchor
        BY DEF TypeInv, TypeOK
      <4> QED
        BY <4>1, <4>2, AutopilotAssumption
    <3>2. t' \in 0 .. 4
      BY <3>1, FourTasks DEF t
    <3>3. a' = 0
      <4>0. DOMAIN <<>> = {}
        OBVIOUS
      <4>1. DOMAIN answers' = {}
        BY <2>1, <4>0
      <4> QED
        BY <4>1, FS_EmptySet DEF a
    <3>4. StepsLeft' = ToCome + t' * PerTask - a' + 2
      BY <1>2, <2>2, <2>3 DEF StepsLeft, Resting, t, a
    <3>5. t' * PerTask \in Nat /\ t' * PerTask <= 4 * PerTask
      BY <1>3, <3>2
    <3> QED
      BY <1>1, <1>2, <2>2, <3>3, <3>4, <3>5
  <2>4. CASE pc' \in {"scan failed", "ingest"}
    <3>1. StepsLeft' \in {0, 1}
      BY <2>4 DEF StepsLeft, Resting
    <3> QED
      BY <1>1, <1>2, <2>2, <3>1
  <2> QED
    BY <2>1, <2>3, <2>4
<1>5. ASSUME NEW c \in Call, Ask(c) PROVE StepsLeft' < StepsLeft
  <2>1. /\ pc = "drive" /\ UNCHANGED <<pc, todo, cycle>> /\ c \notin DOMAIN answers
        /\ DOMAIN answers' = DOMAIN answers \cup {c}
    BY <1>5 DEF Ask, With, counts
  <2>2. a' = a + 1
    BY <1>1, <2>1, FS_AddElement DEF a
  <2>3. StepsLeft = ToCome + t * PerTask - a + 2
    BY <2>1 DEF StepsLeft, Resting, t, a
  <2>4. StepsLeft' = ToCome + t * PerTask - a' + 2
    BY <2>1 DEF StepsLeft, Resting, t, a, ToCome, PerTask, PerCycle
  <2>5. t * PerTask \in Nat
    BY <1>1, <1>3
  <2>6. a \in Nat
    BY <1>1, <2>1
  <2> QED
    BY <1>1, <2>2, <2>3, <2>4, <2>5, <2>6
<1>6. CASE Land
  <2>1. /\ pc = "drive" /\ pc' \in {"failed", "apply", "drive"} /\ cycle' = cycle
        /\ todo' = todo \ {Due} /\ answers' = <<>>
    BY <1>6 DEF Land, counts
  <2>2. Due \in todo
    BY <2>1, DueIsLeft DEF TypeInv, TypeOK, Looping
  <2>3. t' = t - 1 /\ t \in 1 .. 4
    <3>1. todo' = todo \ {Due} /\ IsFiniteSet(todo)
      BY <1>1, <2>1
    <3>2. t' = t - 1
      BY <2>2, <3>1, FS_RemoveElement DEF t
    <3>3. t # 0
      BY <2>2, <3>1, FS_EmptySet DEF t
    <3> QED
      BY <1>1, <3>2, <3>3
  <2>4. StepsLeft = ToCome + t * PerTask - a + 2 /\ ToCome' = ToCome
    BY <2>1 DEF StepsLeft, Resting, t, a, ToCome, PerTask, PerCycle
  <2>5. CASE pc' = "failed"
    <3>1. StepsLeft' = 0
      BY <2>5 DEF StepsLeft, Resting
    <3> QED
      BY <1>1, <1>3, <2>1, <2>3, <2>4, <3>1
  <2>6. CASE pc' = "apply"
    <3>1. StepsLeft' = ToCome + 2
      BY <2>4, <2>6 DEF StepsLeft, Resting
    <3> QED
      BY <1>1, <1>3, <2>1, <2>3, <2>4, <3>1
  <2>7. CASE pc' = "drive"
    <3>1. DOMAIN answers' = {} /\ Cardinality({}) = 0
      BY <2>1, FS_EmptySet
    <3>2. StepsLeft' = ToCome + (t - 1) * PerTask - 0 + 2
      BY <1>2, <2>3, <2>4, <2>7, <3>1 DEF StepsLeft, Resting, t
    <3> QED
      BY <1>1, <1>3, <2>1, <2>3, <2>4, <3>2
  <2> QED
    BY <2>1, <2>5, <2>6, <2>7
<1>7. CASE Apply
  <2>1. /\ pc = "apply"
        /\ \/ cycle < Cycles /\ pc' = "scan" /\ cycle' = cycle + 1
           \/ pc' = "ingest"
    BY <1>7 DEF Apply
  <2>2. StepsLeft = ToCome + 2
    BY <2>1 DEF StepsLeft, Resting
  <2>3. CASE pc' = "ingest"
    <3>1. StepsLeft' = 1
      BY <2>3 DEF StepsLeft, Resting
    <3> QED
      BY <1>1, <2>2, <3>1
  <2>4. CASE cycle < Cycles /\ pc' = "scan" /\ cycle' = cycle + 1
    <3>1. StepsLeft' = ToCome' + PerCycle + 1
      BY <1>2, <2>4 DEF StepsLeft, Resting
    <3>2. ToCome = (Cycles - cycle) * PerCycle /\ ToCome' = (Cycles - (cycle + 1)) * PerCycle
      BY <1>2, <2>4 DEF ToCome
    <3>3. PerCycle \in Nat /\ Cycles \in Nat /\ cycle \in Nat
      BY <1>1, <1>2, AutopilotAssumption DEF TypeInv, TypeOK
    <3>4. (Cycles - (cycle + 1)) * PerCycle = (Cycles - cycle) * PerCycle - PerCycle
      BY <3>3
    <3> QED
      BY <1>1, <2>2, <3>1, <3>2, <3>3, <3>4
  <2> QED
    BY <2>1, <2>3, <2>4
<1>8. CASE Ingest
  <2>1. pc = "ingest" /\ pc' \in Resting
    BY <1>8 DEF Ingest, Resting
  <2>2. StepsLeft = 1 /\ StepsLeft' = 0
    BY <2>1 DEF StepsLeft, Resting
  <2> QED
    BY <2>2
<1> QED
  BY <1>4, <1>5, <1>6, <1>7, <1>8 DEF Engine

(* What safety can say of termination (autopilot.py:158-172): every step   *)
(* of the command leaves fewer, whatever the provider answers or fails to  *)
(* answer, and no edit while it runs prolongs it.                          *)
CommandRunsOut ==
    [][/\ StepsLeft' \in Nat
       /\ Engine => StepsLeft' < StepsLeft
       /\ StepsLeft' > StepsLeft => Begin]_vars
THEOREM CommandIsBounded == ASSUME IsFiniteSet(Claim) PROVE Spec => CommandRunsOut
<1> DEFINE Bounded == StepsLeft \in Nat
<1>1. ASSUME TypeInv PROVE Bounded
  <2>1. /\ PerTask \in Nat /\ PerTask > 1 /\ ToCome \in Nat /\ PerCycle \in Nat
        /\ Cardinality(todo) \in 0 .. 4
        /\ pc = "drive" => Cardinality(DOMAIN answers) \in 0 .. (PerTask - 1)
    BY <1>1, Sizes DEF PerCycle
  <2>2. pc = "drive" => Cardinality(todo) \in 1 .. 4
    <3>1. pc = "drive" => todo # {} /\ IsFiniteSet(todo)
      BY <1>1, Sizes DEF TypeInv, Looping
    <3> QED
      BY <2>1, <3>1, FS_EmptySet
  <2>3. \A k \in 1 .. 4 : k * PerTask \in Nat /\ k * PerTask >= PerTask
    BY <2>1
  <2>4. CASE pc = "drive"
    <3>1. StepsLeft = ToCome + Cardinality(todo) * PerTask - Cardinality(DOMAIN answers) + 2
      BY <2>4 DEF StepsLeft, Resting
    <3> QED
      BY <2>1, <2>2, <2>3, <2>4, <3>1
  <2>5. CASE pc # "drive"
    BY <2>1, <2>5 DEF StepsLeft
  <2> QED
    BY <2>4, <2>5
<1>2. ASSUME TypeInv, Next, Bounded, Bounded'
      PROVE  /\ StepsLeft' \in Nat
             /\ Engine => StepsLeft' < StepsLeft
             /\ StepsLeft' > StepsLeft => Begin
  <2>1. StepsLeft' \in Nat /\ StepsLeft \in Nat
    BY <1>2
  <2>0. /\ Engine => troubles' = troubles
        /\ troubles + 1 # troubles
    <3>1. troubles \in Nat
      BY <1>2, AutopilotAssumption DEF TypeInv, TypeOK
    <3>2. troubles + 1 # troubles
      BY <3>1
    <3>3. Scan => troubles' = troubles
      BY DEF Scan, counts
    <3>4. ASSUME NEW c \in Call PROVE Ask(c) => troubles' = troubles
      BY DEF Ask, counts
    <3>5. Land => troubles' = troubles
      BY DEF Land, counts
    <3>6. Apply => troubles' = troubles
      BY DEF Apply, counts
    <3>7. Ingest => troubles' = troubles
      BY DEF Ingest, counts
    <3> QED
      BY <3>2, <3>3, <3>4, <3>5, <3>6, <3>7 DEF Engine
  <2>2. CASE Engine
    <3>1. StepsLeft' < StepsLeft
      BY <1>2, <2>2, EngineShrinks
    <3> QED
      BY <2>1, <3>1
  <2>3. CASE Edit
    <3>1. StepsLeft' = StepsLeft
      BY <2>3 DEF Edit, StepsLeft, ToCome, PerCycle, PerTask
    <3>2. ~Engine
      BY <2>0, <2>3 DEF Edit
    <3> QED
      BY <2>1, <3>1, <3>2
  <2>4. CASE Crash
    <3>1. pc \notin Resting /\ pc' \in Resting
      BY <2>4 DEF Crash, Resting
    <3>2. StepsLeft' = 0
      BY <3>1 DEF StepsLeft, Resting
    <3>3. ~Engine
      BY <2>0, <2>4 DEF Crash
    <3> QED
      BY <2>1, <3>2, <3>3
  <2>5. CASE Begin
    <3>1. ~Engine
      BY <2>5 DEF Begin, Resting, Engine, Scan, Ask, Land, Apply, Ingest
    <3> QED
      BY <2>1, <2>5, <3>1
  <2> QED
    BY <1>2, <2>2, <2>3, <2>4, <2>5 DEF Next
<1>3. TypeInv /\ Bounded /\ Bounded' /\ [Next]_vars =>
          [/\ StepsLeft' \in Nat
           /\ Engine => StepsLeft' < StepsLeft
           /\ StepsLeft' > StepsLeft => Begin]_vars
  BY <1>2
<1>4. TypeInv => Bounded
  BY <1>1
<1> HIDE DEF Bounded
<1> QED
  BY <1>3, <1>4, TypeInit, TypeNext, PTL DEF Spec, CommandRunsOut
=============================================================================
