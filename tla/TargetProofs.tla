---------------------------- MODULE TargetProofs ----------------------------
(***************************************************************************)
(* Proofs about what the engine keeps in the repository it works for: the  *)
(* generated files and their manifest, published through pull requests,    *)
(* and the tracker of graduating gap categories.  For any files, operator, *)
(* commands, categories and thresholds.                                    *)
(***************************************************************************)
EXTENDS ForgePublish, Graduation, TLAPS

-----------------------------------------------------------------------------
(* The generated files: merge_tree and the pull requests.                  *)

(* merge_tree makes a commit of a commit.                                  *)
LEMMA MergedType ==
    ASSUME NEW t \in Tree, NEW d \in File
    PROVE  Merged(t, d) \in Tree
BY DEF Tree, File, Merged, LiveAfter, RecordedAfter,
   ProposedAfter

(* merge_tree leaves a diverged file and its manifest entry alone.         *)
LEMMA DivergedIsKept ==
    ASSUME NEW t \in Tree, NEW d \in File, NEW p \in Path, Diverged(t, p)
    PROVE  /\ Merged(t, d).live[p] = t.live[p]
           /\ Merged(t, d).recorded[p] = t.recorded[p]
BY DEF Merged, LiveAfter, RecordedAfter, ProposedAfter,
   Written, Orphaned, Forgotten, Diverged

(* Merging the same draft twice is merging it once: a diverged file stays  *)
(* diverged, a written one is as recorded, a forgotten one is unknown.     *)
LEMMA MergeIdempotent ==
    ASSUME NEW t \in Tree, NEW d \in File
    PROVE  Merged(Merged(t, d), d) = Merged(t, d)
<1> USE DEF LiveAfter, RecordedAfter, ProposedAfter
<1> DEFINE m == Merged(t, d)
<1>1. m \in Tree
  BY MergedType
<1>2. /\ m.live \in File /\ m.recorded \in File /\ m.proposed \in File
      /\ d \in File
  BY <1>1 DEF Tree
<1>3. ASSUME NEW p \in Path
      PROVE  /\ Merged(m, d).live[p] = m.live[p]
             /\ Merged(m, d).recorded[p] = m.recorded[p]
             /\ Merged(m, d).proposed[p] = m.proposed[p]
  <2>1. CASE Diverged(t, p)
    <3>1. /\ m.live[p] = t.live[p] /\ m.recorded[p] = t.recorded[p]
          /\ m.proposed[p] = IF d[p] # Absent THEN d[p] ELSE t.proposed[p]
      BY <2>1, DivergedIsKept DEF Merged
    <3>2. Diverged(m, p)
      BY <2>1, <3>1 DEF Diverged
    <3> QED
      BY <1>1, <3>1, <3>2, DivergedIsKept DEF Merged
  <2>2. CASE ~Diverged(t, p) /\ d[p] # Absent
    <3>1. m.live[p] = d[p] /\ m.recorded[p] = d[p]
      BY <2>2 DEF Merged, Written
    <3>2. ~Diverged(m, p)
      BY <3>1 DEF Diverged
    <3> HIDE DEF m
    <3> QED
      BY <2>2, <3>1, <3>2 DEF Merged, Written
  <2>3. CASE ~Diverged(t, p) /\ d[p] = Absent
    <3>1. /\ m.live[p] = IF Orphaned(t, d, p) THEN Absent ELSE t.live[p]
          /\ m.recorded[p] = IF Forgotten(t, d, p) THEN Absent
                             ELSE t.recorded[p]
      BY <2>3 DEF Merged, Written
    <3>2. m.recorded[p] = Absent
      BY <2>3, <3>1 DEF Forgotten, Diverged
    <3> HIDE DEF m
    <3> QED
      BY <2>3, <3>2 DEF Merged, Written, Orphaned, Forgotten
  <2> QED
    BY <2>1, <2>2, <2>3
<1> HIDE DEF m
<1>4. /\ Merged(m, d).live = m.live
      /\ Merged(m, d).recorded = m.recorded
      /\ Merged(m, d).proposed = m.proposed
  <2>1. Merged(m, d) \in Tree
    BY <1>1, MergedType
  <2> QED
    BY <1>2, <1>3, <2>1 DEF Tree, File
<1>5. Merged(m, d) \in Tree
  BY <1>1, MergedType
<1> QED
  BY <1>1, <1>4, <1>5 DEF Tree, m

-----------------------------------------------------------------------------
(* The initial repository is one.                                          *)
LEMMA InitTypeOK == Init => TypeOK
<1> SUFFICES ASSUME Init PROVE TypeOK
  OBVIOUS
<1>1. Empty \in Tree /\ Nowhere \in File
  BY DEF Empty, Nowhere, File, Tree
<1>2. main \in Tree
  BY <1>1 DEF Init, Tree
<1> QED
  BY <1>1, <1>2 DEF Init, TypeOK, NoBranch, Pushed

(* Every variable keeps its type: in particular what is pushed and merged  *)
(* is always a commit with a readable manifest.                            *)
THEOREM ForgeTypeCorrect == Spec => []TypeOK
<1>1. Init => TypeOK
  BY InitTypeOK
<1>2. TypeOK /\ [Next]_vars => TypeOK'
  <2> SUFFICES ASSUME TypeOK, [Next]_vars PROVE TypeOK'
    OBVIOUS
  <2> USE DEF TypeOK
  <2>1. CASE Clone
    BY <2>1 DEF Clone, remote
  <2>2. CASE Commit
    BY <2>2, MergedType DEF Commit, remote
  <2>3. CASE Push
    BY <2>3 DEF Push, Pushed
  <2>4. CASE Post
    BY <2>4 DEF Post
  <2>5. CASE Fail
    BY <2>5 DEF Fail, remote
  <2>6. ASSUME NEW p \in Path, NEW c \in Content, Edit(p, c) PROVE TypeOK'
    BY <2>6 DEF Edit, publishing, Tree, File
  <2>7. ASSUME NEW p \in Path, Delete(p) PROVE TypeOK'
    BY <2>7 DEF Delete, publishing, Tree, File
  <2>8. ASSUME NEW p \in Path, DropProposal(p) PROVE TypeOK'
    BY <2>8 DEF DropProposal, publishing, Tree, File
  <2>9. CASE MergePR
    <3>1. /\ branch.tree \in Tree /\ branch.base \in Tree
      BY DEF Pushed
    <3>2. main' \in Tree
      BY <2>9, <3>1 DEF MergePR, ThreeWay, Tree, File
    <3>3. branch' \in Pushed
      BY <2>9 DEF MergePR, NoBranch, Empty, Nowhere, Pushed, Tree, File
    <3>4. mine' \in File
      BY <2>9, <3>2 DEF MergePR, Tree, File
    <3> QED
      BY <2>9, <3>2, <3>3, <3>4 DEF MergePR, publishing
  <2>10. CASE ClosePR
    BY <2>10 DEF ClosePR, publishing
  <2>11. CASE DeleteBranch
    BY <2>11 DEF DeleteBranch, publishing, NoBranch, Empty, Nowhere, Pushed, Tree, File
  <2>12. CASE UNCHANGED vars
    BY <2>12 DEF vars
  <2> QED
    BY <2>1, <2>2, <2>3, <2>4, <2>5, <2>6, <2>7, <2>8, <2>9, <2>10, <2>11,
       <2>12 DEF Next, Publisher, Operator
<1> QED
  BY <1>1, <1>2, PTL DEF Spec

(* Publishing what was just published never changes anything, so open_pr   *)
(* stops at "nothing to publish" instead of opening an empty PR.           *)
THEOREM RepublishIsNoOp == Spec => []Idempotent
<1>1. TypeOK => Idempotent
  BY MergeIdempotent DEF TypeOK, Idempotent
<1> QED
  BY <1>1, ForgeTypeCorrect, PTL
-----------------------------------------------------------------------------
(* What the operator changed is an edit of a file the manifest records.    *)
EditsAreEdits ==
    \A p \in Path : mine[p] # Absent => main.recorded[p] \notin {mine[p], Absent}

(* A publish under way was cloned from the manifest main still has, and    *)
(* merges its draft into what it cloned.                                   *)
WorkIsMerge ==
    /\ pc # "idle" => base.recorded = main.recorded
    /\ pc = "cloned" => work = base
    /\ pc \in {"committed", "pushed"} => work = Merged(base, draft)
    /\ pc = "pushed" /\ branch # NoBranch =>
           branch = [tree |-> work, base |-> base, draft |-> draft]

(* So was the open pull request.                                           *)
BranchIsMerge ==
    open => /\ branch.base.recorded = main.recorded
            /\ branch.tree = Merged(branch.base, branch.draft)

ForgeInv == /\ TypeOK /\ EditsKept /\ ManifestTruthful
            /\ EditsAreEdits /\ WorkIsMerge /\ BranchIsMerge

(* What merging the pull request does to one file, its manifest entry and  *)
(* the operator's claim on it.                                             *)
LEMMA MergeOfOneFile ==
    ASSUME TypeOK, BranchIsMerge, MergePR, NEW p \in Path
    PROVE  LET d == branch.draft
               b == branch.base
           IN  /\ main.recorded[p] = b.recorded[p]
               /\ main'.recorded[p] = Merged(b, d).recorded[p]
               /\ main'.live[p] = IF main.live[p] = b.live[p]
                                  THEN Merged(b, d).live[p] ELSE main.live[p]
               /\ \/ main.live[p] = b.live[p]
                  \/ Merged(b, d).live[p] = b.live[p]
                  \/ main.live[p] = Merged(b, d).live[p]
               /\ mine'[p] =
                     IF main'.recorded[p] \in {mine[p], Absent} THEN Absent
                     ELSE IF main.recorded[p] = Absent /\ Diverged(main', p)
                          THEN main'.live[p] ELSE mine[p]
<1>1. /\ branch.tree = Merged(branch.base, branch.draft)
      /\ branch.base.recorded = main.recorded
  BY DEF BranchIsMerge, MergePR
<1>2. /\ main'.live = ThreeWay(branch.base.live, main.live, branch.tree.live)
      /\ main'.recorded = ThreeWay(branch.base.recorded, main.recorded,
                                   branch.tree.recorded)
      /\ Mergeable(branch.base.live, main.live, branch.tree.live)
      /\ mine' = [q \in Path |->
             IF main'.recorded[q] \in {mine[q], Absent} THEN Absent
             ELSE IF main.recorded[q] = Absent /\ Diverged(main', q)
                  THEN main'.live[q] ELSE mine[q]]
  BY DEF MergePR
<1>3. main'.recorded[p] = branch.tree.recorded[p]
  BY <1>1, <1>2 DEF ThreeWay
<1>4. main'.live[p] = IF main.live[p] = branch.base.live[p]
                      THEN branch.tree.live[p] ELSE main.live[p]
  BY <1>2 DEF ThreeWay
<1>5. \/ main.live[p] = branch.base.live[p]
      \/ branch.tree.live[p] = branch.base.live[p]
      \/ main.live[p] = branch.tree.live[p]
  BY <1>2 DEF Mergeable
<1>6. mine'[p] = IF main'.recorded[p] \in {mine[p], Absent} THEN Absent
                 ELSE IF main.recorded[p] = Absent /\ Diverged(main', p)
                      THEN main'.live[p] ELSE mine[p]
  BY <1>2
<1> QED
  BY <1>1, <1>3, <1>4, <1>5, <1>6

(* merge_tree on one file, case by case.                                   *)
LEMMA MergedOfOneFile ==
    ASSUME NEW t \in Tree, NEW d \in File, NEW p \in Path
    PROVE  \/ /\ ~Diverged(t, p) /\ d[p] # Absent
              /\ Merged(t, d).live[p] = d[p] /\ Merged(t, d).recorded[p] = d[p]
           \/ /\ ~Diverged(t, p) /\ d[p] = Absent
              /\ Merged(t, d).recorded[p] = Absent
           \/ /\ Diverged(t, p)
              /\ Merged(t, d).live[p] = t.live[p]
              /\ Merged(t, d).recorded[p] = t.recorded[p]
<1> USE DEF LiveAfter, RecordedAfter, ProposedAfter
<1>1. CASE Diverged(t, p)
  BY <1>1, DivergedIsKept
<1>2. CASE ~Diverged(t, p) /\ d[p] # Absent
  BY <1>2 DEF Merged, Written
<1>3. CASE ~Diverged(t, p) /\ d[p] = Absent
  BY <1>3 DEF Merged, Written, Forgotten, Diverged
<1> QED
  BY <1>1, <1>2, <1>3

(* Merging the pull request keeps the three facts about the operator's     *)
(* edits: git keeps an edit made after the clone, merge_tree one made      *)
(* before it.                                                              *)
LEMMA MergeKeepsEdits ==
    ASSUME ForgeInv, MergePR
    PROVE  EditsKept' /\ ManifestTruthful' /\ EditsAreEdits'
<1> SUFFICES ASSUME NEW p \in Path
             PROVE  /\ mine'[p] # Absent =>
                           /\ main'.live[p] = mine'[p]
                           /\ main'.recorded[p] \notin {mine'[p], Absent}
                    /\ main'.recorded[p] # Absent =>
                           main'.live[p] \in {main'.recorded[p], mine'[p], Absent}
  BY DEF EditsKept, ManifestTruthful, EditsAreEdits
<1> DEFINE d == branch.draft
           b == branch.base
           m == Merged(b, d)
<1>1. b \in Tree /\ d \in File
  BY DEF ForgeInv, TypeOK, Pushed
<1>2. /\ main.recorded[p] = b.recorded[p]
      /\ main'.recorded[p] = m.recorded[p]
      /\ main'.live[p] = IF main.live[p] = b.live[p]
                         THEN m.live[p] ELSE main.live[p]
      /\ \/ main.live[p] = b.live[p]
         \/ m.live[p] = b.live[p]
         \/ main.live[p] = m.live[p]
      /\ mine'[p] = IF main'.recorded[p] \in {mine[p], Absent} THEN Absent
                    ELSE IF main.recorded[p] = Absent /\ Diverged(main', p)
                         THEN main'.live[p] ELSE mine[p]
  BY MergeOfOneFile DEF ForgeInv
<1>3. /\ mine[p] # Absent => /\ main.live[p] = mine[p]
                             /\ main.recorded[p] \notin {mine[p], Absent}
      /\ main.recorded[p] # Absent =>
             main.live[p] \in {main.recorded[p], mine[p], Absent}
  BY DEF ForgeInv, EditsKept, ManifestTruthful, EditsAreEdits
<1>4. \/ ~Diverged(b, p) /\ d[p] # Absent /\ m.live[p] = d[p] /\ m.recorded[p] = d[p]
      \/ ~Diverged(b, p) /\ d[p] = Absent /\ m.recorded[p] = Absent
      \/ /\ Diverged(b, p)
         /\ m.live[p] = b.live[p] /\ m.recorded[p] = b.recorded[p]
  BY <1>1, MergedOfOneFile
<1> HIDE DEF d, b, m
<1>5. CASE m.recorded[p] = Absent
  BY <1>2, <1>5
<1>6. CASE /\ ~Diverged(b, p) /\ d[p] # Absent
           /\ m.live[p] = d[p] /\ m.recorded[p] = d[p]
  BY <1>2, <1>3, <1>6 DEF Diverged
<1>7. CASE /\ Diverged(b, p)
           /\ m.live[p] = b.live[p] /\ m.recorded[p] = b.recorded[p]
  BY <1>2, <1>3, <1>7 DEF Diverged
<1> QED
  BY <1>4, <1>5, <1>6, <1>7

(* As long as no pull request is merged behind a publish's back, ForgeInv  *)
(* is inductive: whatever else the operator does leaves the manifest on    *)
(* main as the publish in progress read it.                                *)
LEMMA ForgeInvInductive ==
    ASSUME ~Overlap
    PROVE  /\ Init => ForgeInv
           /\ ForgeInv /\ TypeOK' /\ [Next]_vars => ForgeInv'
<1>1. Init => ForgeInv
  <2> SUFFICES ASSUME Init PROVE ForgeInv
    OBVIOUS
  <2>1. TypeOK
    BY InitTypeOK
  <2>2. /\ mine = Nowhere /\ main.recorded = Nowhere /\ pc = "idle" /\ ~open
    BY DEF Init, Empty, File
  <2> QED
    BY <2>1, <2>2 DEF ForgeInv, EditsKept, ManifestTruthful, EditsAreEdits,
       WorkIsMerge, BranchIsMerge, Nowhere
<1>2. ASSUME ForgeInv, TypeOK', [Next]_vars PROVE ForgeInv'
  <2> USE DEF ForgeInv
  <2>1. CASE Clone
    BY <1>2, <2>1 DEF Clone, remote, EditsKept, ManifestTruthful,
       EditsAreEdits, WorkIsMerge, BranchIsMerge
  <2>2. CASE Commit
    BY <1>2, <2>2 DEF Commit, remote, EditsKept, ManifestTruthful,
       EditsAreEdits, WorkIsMerge, BranchIsMerge
  <2>3. CASE Push
    BY <1>2, <2>3 DEF Push, EditsKept, ManifestTruthful, EditsAreEdits,
       WorkIsMerge, BranchIsMerge
  <2>4. CASE Post
    <3>1. UNCHANGED <<main, branch, mine>> /\ pc' = "idle"
      BY <2>4 DEF Post
    <3>2. open' => branch # NoBranch
      BY <2>4 DEF Post
    <3>3. open' => /\ branch.base = base /\ branch.draft = draft
                   /\ branch.tree = Merged(base, draft)
                   /\ base.recorded = main.recorded
      BY <1>2, <2>4, <3>2 DEF Post, WorkIsMerge
    <3>4. BranchIsMerge'
      BY <3>1, <3>3 DEF BranchIsMerge
    <3> QED
      BY <1>2, <3>1, <3>4 DEF EditsKept, ManifestTruthful, EditsAreEdits,
         WorkIsMerge
  <2>5. CASE Fail
    BY <1>2, <2>5 DEF Fail, remote, EditsKept, ManifestTruthful,
       EditsAreEdits, WorkIsMerge, BranchIsMerge
  <2>6. ASSUME NEW p \in Path, NEW c \in Content, Edit(p, c) PROVE ForgeInv'
    <3>1. /\ main'.recorded = main.recorded
          /\ main'.live = [main.live EXCEPT ![p] = c]
      BY <1>2, <2>6 DEF Edit, TypeOK, Tree
    <3>2. EditsKept' /\ ManifestTruthful' /\ EditsAreEdits'
      BY <1>2, <2>6, <3>1, AbsentAssumption DEF Edit, TypeOK, Tree, File,
         EditsKept, ManifestTruthful, EditsAreEdits
    <3> QED
      BY <1>2, <2>6, <3>1, <3>2 DEF Edit, publishing, WorkIsMerge, BranchIsMerge
  <2>7. ASSUME NEW p \in Path, Delete(p) PROVE ForgeInv'
    <3>1. /\ main'.recorded = main.recorded
          /\ main'.live = [main.live EXCEPT ![p] = Absent]
      BY <1>2, <2>7 DEF Delete, TypeOK, Tree
    <3>2. EditsKept' /\ ManifestTruthful' /\ EditsAreEdits'
      BY <1>2, <2>7, <3>1 DEF Delete, TypeOK, Tree, File,
         EditsKept, ManifestTruthful, EditsAreEdits
    <3> QED
      BY <1>2, <2>7, <3>1, <3>2 DEF Delete, publishing, WorkIsMerge, BranchIsMerge
  <2>8. ASSUME NEW p \in Path, DropProposal(p) PROVE ForgeInv'
    <3>1. main'.recorded = main.recorded /\ main'.live = main.live
      BY <1>2, <2>8 DEF DropProposal, TypeOK, Tree
    <3> QED
      BY <1>2, <2>8, <3>1 DEF DropProposal, publishing, EditsKept,
         ManifestTruthful, EditsAreEdits, WorkIsMerge, BranchIsMerge
  <2>9. CASE MergePR
    <3>1. EditsKept' /\ ManifestTruthful' /\ EditsAreEdits'
      BY <1>2, <2>9, MergeKeepsEdits
    <3>2. pc' = "idle" /\ ~open'
      BY <2>9 DEF MergePR, publishing
    <3> QED
      BY <1>2, <3>1, <3>2 DEF WorkIsMerge, BranchIsMerge
  <2>10. CASE ClosePR
    BY <1>2, <2>10 DEF ClosePR, publishing, EditsKept, ManifestTruthful,
       EditsAreEdits, WorkIsMerge, BranchIsMerge
  <2>11. CASE DeleteBranch
    BY <1>2, <2>11 DEF DeleteBranch, publishing, EditsKept, ManifestTruthful,
       EditsAreEdits, WorkIsMerge, BranchIsMerge
  <2>12. CASE UNCHANGED vars
    BY <1>2, <2>12 DEF vars, EditsKept, ManifestTruthful, EditsAreEdits,
       WorkIsMerge, BranchIsMerge
  <2> QED
    BY <1>2, <2>1, <2>2, <2>3, <2>4, <2>5, <2>6, <2>7, <2>8, <2>9, <2>10,
       <2>11, <2>12 DEF Next, Publisher, Operator
<1> QED
  BY <1>1, <1>2

(* The manifest's promise, for every repository: no publish, retry or      *)
(* merge reverts an operator's edit of a generated file, provided a pull   *)
(* request is not merged while the next publish is under way.              *)
THEOREM EditsSurvive == ASSUME ~Overlap PROVE Spec => []EditsKept
<1>1. Init => ForgeInv
  BY ForgeInvInductive
<1>2. ForgeInv /\ TypeOK' /\ [Next]_vars => ForgeInv'
  BY ForgeInvInductive
<1>3. ForgeInv => EditsKept
  BY DEF ForgeInv
<1> QED
  BY <1>1, <1>2, <1>3, ForgeTypeCorrect, PTL DEF Spec

(* A recorded file is the engine's, the operator's or deleted: divergence  *)
(* from the manifest always means that the operator changed the file.      *)
THEOREM DivergenceIsTheOperators ==
    ASSUME ~Overlap PROVE Spec => []ManifestTruthful
<1>1. Init => ForgeInv
  BY ForgeInvInductive
<1>2. ForgeInv /\ TypeOK' /\ [Next]_vars => ForgeInv'
  BY ForgeInvInductive
<1>3. ForgeInv => ManifestTruthful
  BY DEF ForgeInv
<1> QED
  BY <1>1, <1>2, <1>3, ForgeTypeCorrect, PTL DEF Spec

-----------------------------------------------------------------------------
(* What is on the branch is the merge of a draft into the commit that was  *)
(* cloned, whoever merges what in the meantime.                            *)
BranchDelivers ==
    /\ pc = "cloned" => work = base
    /\ pc \in {"committed", "pushed"} => work = Merged(base, draft)
    /\ branch # NoBranch => branch.tree = Merged(branch.base, branch.draft)
    /\ open => branch # NoBranch

(* Every step preserves it, a merge in the middle of a publish included.   *)
LEMMA DeliversNext == BranchDelivers /\ [Next]_vars => BranchDelivers'
<1> SUFFICES ASSUME BranchDelivers, [Next]_vars PROVE BranchDelivers'
  OBVIOUS
<1> USE DEF BranchDelivers, remote, publishing
<1>1. CASE Clone
  BY <1>1 DEF Clone
<1>2. CASE Commit
  BY <1>2 DEF Commit
<1>3. CASE Push
  BY <1>3 DEF Push
<1>4. CASE Fail
  BY <1>4 DEF Fail
<1>5. CASE Post
  <2>1. pc = "pushed" /\ pc' = "idle" /\ UNCHANGED <<branch, draft, base, work>>
    BY <1>5 DEF Post
  <2>2. open' => branch # NoBranch
    BY <1>5, Zenon DEF Post
  <2> QED
    BY <2>1, <2>2
<1>6. ASSUME NEW p \in Path,
             (\E c \in Content : Edit(p, c)) \/ Delete(p) \/ DropProposal(p)
      PROVE  BranchDelivers'
  BY <1>6 DEF Edit, Delete, DropProposal
<1>7. CASE MergePR
  BY <1>7 DEF MergePR
<1>8. CASE ClosePR \/ DeleteBranch
  BY <1>8 DEF ClosePR, DeleteBranch
<1>9. CASE UNCHANGED vars
  BY <1>9 DEF vars
<1> QED
  BY <1>1, <1>2, <1>3, <1>4, <1>5, <1>6, <1>7, <1>8, <1>9
     DEF Next, Publisher, Operator

(* A merged pull request delivers every file of its draft, live or under   *)
(* .proposed/, unless the operator touched it after the clone; whether or  *)
(* not it is merged during the next publish.                               *)
THEOREM MergedIsDelivered == Spec => MergeDelivers
<1>1. Init => BranchDelivers
  BY DEF Init, BranchDelivers
<1>2. ASSUME BranchDelivers, MergePR, NEW p \in Path, branch.draft[p] # Absent,
             main.live[p] = branch.base.live[p],
             main.proposed[p] = branch.base.proposed[p]
      PROVE  branch.draft[p] \in {main'.live[p], main'.proposed[p]}
  <2>1. branch.tree = Merged(branch.base, branch.draft)
    BY <1>2 DEF BranchDelivers, MergePR
  <2>2. branch.draft[p] \in {branch.tree.live[p], branch.tree.proposed[p]}
    BY <1>2, <2>1 DEF Merged, LiveAfter, ProposedAfter, Written
  <2>3. main'.live[p] = branch.tree.live[p] /\ main'.proposed[p] = branch.tree.proposed[p]
    BY <1>2 DEF MergePR, ThreeWay
  <2> QED
    BY <2>2, <2>3
<1>3. BranchDelivers =>
        (MergePR =>
            \A p \in Path : branch.draft[p] # Absent =>
                \/ branch.draft[p] \in {main'.live[p], main'.proposed[p]}
                \/ main.live[p] # branch.base.live[p]
                \/ main.proposed[p] # branch.base.proposed[p])
  BY <1>2
<1> QED
  BY <1>1, <1>3, DeliversNext, PTL DEF Spec, MergeDelivers

-----------------------------------------------------------------------------
(* The graduation tracker: what the tallies are worth, however commands    *)
(* overlap, die and find the file broken.                                  *)

(* What a process holds is what it found and what it recorded.             *)
CountedOn(new, old, t) ==
    /\ new.confirmed = old.confirmed + t.confirmed
    /\ new.falsePositives = old.falsePositives + t.falsePositives
    /\ new.promoted = old.promoted

(* A record that holds no verdict but those of a tally.                    *)
Within(r, t) ==
    /\ r.confirmed <= t.confirmed
    /\ r.falsePositives <= t.falsePositives
    /\ ToSet(r.anchors) \subseteq t.anchors

(* A copy that is not stale is the file and what was recorded on top.      *)
CopyExact ==
    \A p \in loaded \ stale : \A c \in Category :
        CountedOn(local[p][c], Read(file)[c], pending[p][c])

(* Any copy holds nothing but verdicts of completed commands and its own.  *)
CopyHonest ==
    \A p \in loaded : \A c \in Category :
        Within(local[p][c], Added(given[c], pending[p][c]))

NothingPending == \A p \in Process \ loaded : pending[p] = NoVerdicts

(* Unless it was lost or broken, the mark of promotion is the maintainer's.*)
PromotedByHand ==
    ~lost => \A c \in Category \ damaged :
        Read(file)[c].promoted <=> c \in byHand

GradInv ==
    /\ TrackerTypeOK
    /\ TalliesExact /\ NeverInvented /\ PromotedByHand
    /\ CopyExact /\ CopyHonest /\ NothingPending

-----------------------------------------------------------------------------
(* The new sample of anchors is made of the old ones and the new one.      *)
LEMMA SampledType ==
    ASSUME NEW s \in Seq(Anchor), NEW a \in Anchor \cup {NoAnchor}
    PROVE  /\ Sampled(s, a) \in Seq(Anchor)
           /\ ToSet(Sampled(s, a)) \subseteq ToSet(s) \cup ({a} \ {NoAnchor})
<1>1. CASE a = NoAnchor \/ a \in ToSet(s)
  BY <1>1 DEF Sampled
<1>2. CASE ~(a = NoAnchor \/ a \in ToSet(s)) /\ Len(s) < MaxAnchors
  <2>1. Sampled(s, a) = Append(s, a) /\ a \in Anchor /\ a # NoAnchor
    BY <1>2 DEF Sampled
  <2> QED
    BY <2>1 DEF ToSet
<1>3. CASE ~(a = NoAnchor \/ a \in ToSet(s)) /\ ~(Len(s) < MaxAnchors)
  <2>1. /\ Sampled(s, a) = Append(Tail(s), a) /\ a \in Anchor /\ a # NoAnchor
    BY <1>3 DEF Sampled
  <2>2. Len(s) \in Nat /\ Len(s) > 0
    BY <1>3, GraduationAssumption
  <2>3. s # <<>>
    BY <2>2
  <2>4. Tail(s) \in Seq(Anchor) /\ Len(Tail(s)) = Len(s) - 1
    BY <2>3
  <2>5. \A i \in 1..Len(Tail(s)) : Tail(s)[i] = s[i + 1]
    BY <2>3
  <2>6. ToSet(Tail(s)) \subseteq ToSet(s)
    BY <2>2, <2>4, <2>5 DEF ToSet
  <2>7. ToSet(Append(Tail(s), a)) \subseteq ToSet(Tail(s)) \cup {a}
    BY <2>1, <2>4 DEF ToSet
  <2> QED
    BY <2>1, <2>4, <2>6, <2>7
<1> QED
  BY <1>1, <1>2, <1>3

(* Counting on keeps a record a record.                                    *)
LEMMA RecordType ==
    ASSUME NEW r \in Record, NEW n \in Nat
    PROVE  /\ \A s \in Seq(Anchor) :
                [r EXCEPT !.confirmed = n, !.anchors = s] \in Record
           /\ [r EXCEPT !.falsePositives = n] \in Record
           /\ [r EXCEPT !.promoted = TRUE] \in Record
BY DEF Record

(* Counting on keeps a tally a tally.                                      *)
LEMMA TallyType ==
    ASSUME NEW t \in Tally, NEW n \in Nat
    PROVE  /\ \A A \in SUBSET Anchor :
                [t EXCEPT !.confirmed = n, !.anchors = A] \in Tally
           /\ [t EXCEPT !.falsePositives = n] \in Tally
BY DEF Tally

(* A file is read as a tracker, broken or not.                             *)
LEMMA ReadType ==
    ASSUME NEW f \in [Category -> Record \cup {Broken}] \cup {Corrupt}
    PROVE  Read(f) \in Tracker
<1>1. Unknown \in Record
  BY DEF Unknown, Record
<1> QED
  BY <1>1 DEF Read, Untold, Tracker

(* A tracker is read as it is.                                             *)
LEMMA ReadTracker ==
    ASSUME NEW t \in Tracker
    PROVE  /\ t \in [Category -> Record \cup {Broken}]
           /\ Read(t) = t
<1>1. t \in [Category -> Record \cup {Broken}]
  BY DEF Tracker
<1>2. t # Corrupt
  BY <1>1, BrokenAssumption
<1>3. \A c \in Category : t[c] # Broken
  BY BrokenAssumption DEF Tracker
<1> QED
  BY <1>1, <1>2, <1>3 DEF Read, Tracker

-----------------------------------------------------------------------------
(* Nothing is recorded and nothing is broken in the beginning.             *)
LEMMA GradInit == TrackerInit => GradInv
<1> SUFFICES ASSUME TrackerInit PROVE GradInv
  OBVIOUS
<1>1. Unknown \in Record /\ Untold \in Tracker
  BY DEF Unknown, Record, Untold, Tracker
<1>2. NoVerdicts \in [Category -> Tally]
  BY DEF NoVerdicts, Tally
<1>3. TrackerTypeOK
  <2>1. file \in [Category -> Record \cup {Broken}]
    BY <1>1, ReadTracker DEF TrackerInit
  <2>2. local \in [Process -> Tracker] /\ pending \in [Process -> [Category -> Tally]]
    BY <1>1, <1>2 DEF TrackerInit
  <2> QED
    BY <1>2, <2>1, <2>2, GraduationAssumption, 0 \in 0..MaxEvents, MaxEvents \in 0..MaxEvents DEF TrackerInit, TrackerTypeOK
<1>4. Read(file) = Untold
  BY <1>1, ReadTracker DEF TrackerInit
<1>5. \A c \in Category : /\ Read(file)[c] = Unknown
                          /\ given[c].confirmed = 0
                          /\ given[c].falsePositives = 0
  BY <1>4 DEF TrackerInit, Untold, NoVerdicts
<1>6. TalliesExact
  BY <1>5 DEF TalliesExact, Unknown
<1>7. NeverInvented
  BY <1>5 DEF NeverInvented, Unknown, ToSet
<1>8. PromotedByHand
  BY <1>5 DEF PromotedByHand, Unknown, TrackerInit
<1>9. CopyExact /\ CopyHonest /\ NothingPending
  BY DEF TrackerInit, CopyExact, CopyHonest, NothingPending
<1> QED
  BY <1>3, <1>6, <1>7, <1>8, <1>9 DEF GradInv

(* A process comes in with a fresh copy and nothing pending.               *)
LEMMA LoadStep ==
    ASSUME GradInv, NEW p \in Process, Load(p)
    PROVE  GradInv'
<1>1. Read(file) \in Tracker
  BY ReadType DEF GradInv, TrackerTypeOK
<1>2. TrackerTypeOK'
  BY <1>1 DEF GradInv, TrackerTypeOK, Load
<1>3. TalliesExact' /\ NeverInvented' /\ PromotedByHand'
  BY DEF GradInv, Load, TalliesExact, NeverInvented, PromotedByHand
<1>4. /\ local'[p] = Read(file) /\ pending[p] = NoVerdicts
      /\ \A q \in Process \ {p} : local'[q] = local[q]
  BY DEF Load, GradInv, TrackerTypeOK, NothingPending
<1>5. \A c \in Category : /\ NoVerdicts[c].confirmed = 0
                          /\ NoVerdicts[c].falsePositives = 0
                          /\ NoVerdicts[c].anchors = {}
  BY DEF NoVerdicts
<1>6. \A c \in Category : Read(file)[c] \in Record /\ given[c] \in Tally
  BY <1>1 DEF GradInv, TrackerTypeOK, Tracker
<1>7. \A c \in Category : /\ CountedOn(Read(file)[c], Read(file)[c], NoVerdicts[c])
                          /\ Within(Read(file)[c], Added(given[c], NoVerdicts[c]))
  BY <1>5, <1>6 DEF CountedOn, Within, Added, Record, Tally, GradInv, NeverInvented
<1>8. CopyExact'
  BY <1>4, <1>7 DEF GradInv, CopyExact, Load
<1>9. CopyHonest'
  BY <1>4, <1>7 DEF GradInv, CopyHonest, Load, TrackerTypeOK
<1>10. NothingPending'
  BY DEF GradInv, NothingPending, Load
<1> QED
  BY <1>2, <1>3, <1>8, <1>9, <1>10 DEF GradInv

(* A verdict is recorded in a copy and in the tally of what is pending.    *)
LEMMA ConfirmStep ==
    ASSUME GradInv, NEW p \in Process, NEW c \in Category,
           NEW a \in Anchor \cup {NoAnchor}, Confirm(p, c, a)
    PROVE  GradInv'
<1> DEFINE old == local[p][c]
           new == [old EXCEPT !.confirmed = @ + 1, !.anchors = Sampled(@, a)]
           t == pending[p][c]
           u == [t EXCEPT !.confirmed = @ + 1,
                          !.anchors = @ \cup ({a} \ {NoAnchor})]
<1>1. /\ old \in Record /\ t \in Tally
      /\ local \in [Process -> [Category -> Record]]
      /\ pending \in [Process -> [Category -> Tally]]
  BY DEF GradInv, TrackerTypeOK, Tracker
<1>2. /\ Sampled(old.anchors, a) \in Seq(Anchor)
      /\ ToSet(Sampled(old.anchors, a)) \subseteq
             ToSet(old.anchors) \cup ({a} \ {NoAnchor})
  BY <1>1, SampledType DEF Record
<1>3. new \in Record /\ u \in Tally
  <2>1. /\ old.confirmed + 1 \in Nat /\ t.confirmed + 1 \in Nat
        /\ t.anchors \cup ({a} \ {NoAnchor}) \in SUBSET Anchor
    BY <1>1 DEF Record, Tally
  <2> QED
    BY <1>1, <1>2, <2>1, RecordType, TallyType
<1>4. /\ local' = [local EXCEPT ![p] = [local[p] EXCEPT ![c] = new]]
      /\ pending' = [pending EXCEPT ![p] = [pending[p] EXCEPT ![c] = u]]
  BY <1>1 DEF Confirm, Record, Tally
<1>5. /\ local'[p][c] = new /\ pending'[p][c] = u
      /\ \A q \in Process, d \in Category : q # p \/ d # c =>
            local'[q][d] = local[q][d] /\ pending'[q][d] = pending[q][d]
  BY <1>1, <1>4
<1>6. TrackerTypeOK'
  <2>1. local' \in [Process -> Tracker] /\ pending' \in [Process -> [Category -> Tally]]
    BY <1>1, <1>3, <1>4 DEF Tracker
  <2> QED
    BY <2>1, GraduationAssumption DEF GradInv, TrackerTypeOK, Confirm
<1>7. TalliesExact' /\ NeverInvented' /\ PromotedByHand'
  BY DEF GradInv, Confirm, TalliesExact, NeverInvented, PromotedByHand
<1>8. Read(file)[c] \in Record /\ given[c] \in Tally
  BY ReadType DEF GradInv, TrackerTypeOK, Tracker
<1>9. ASSUME CountedOn(old, Read(file)[c], t)
      PROVE  CountedOn(new, Read(file)[c], u)
  BY <1>1, <1>8, <1>9 DEF CountedOn, Record, Tally
<1>10. ASSUME Within(old, Added(given[c], t))
       PROVE  Within(new, Added(given[c], u))
  BY <1>1, <1>2, <1>8, <1>10 DEF Within, Added, Record, Tally
<1> HIDE DEF old, new, t, u
<1>11. CopyExact'
  BY <1>5, <1>9 DEF GradInv, CopyExact, Confirm, TrackerTypeOK, old, t
<1>12. CopyHonest'
  BY <1>5, <1>10 DEF GradInv, CopyHonest, Confirm, TrackerTypeOK, old, t
<1>13. NothingPending'
  BY <1>4 DEF GradInv, NothingPending, Confirm, TrackerTypeOK
<1> QED
  BY <1>6, <1>7, <1>11, <1>12, <1>13 DEF GradInv

(* The same for a false positive.                                          *)
LEMMA RefuteStep ==
    ASSUME GradInv, NEW p \in Process, NEW c \in Category, Refute(p, c)
    PROVE  GradInv'
<1> DEFINE old == local[p][c]
           new == [old EXCEPT !.falsePositives = @ + 1]
           t == pending[p][c]
           u == [t EXCEPT !.falsePositives = @ + 1]
<1>1. /\ old \in Record /\ t \in Tally
      /\ local \in [Process -> [Category -> Record]]
      /\ pending \in [Process -> [Category -> Tally]]
  BY DEF GradInv, TrackerTypeOK, Tracker
<1>3. new \in Record /\ u \in Tally
  <2>1. old.falsePositives + 1 \in Nat /\ t.falsePositives + 1 \in Nat
    BY <1>1 DEF Record, Tally
  <2> QED
    BY <1>1, <2>1, RecordType, TallyType
<1>4. /\ local' = [local EXCEPT ![p] = [local[p] EXCEPT ![c] = new]]
      /\ pending' = [pending EXCEPT ![p] = [pending[p] EXCEPT ![c] = u]]
  BY <1>1 DEF Refute, Record, Tally
<1>5. /\ local'[p][c] = new /\ pending'[p][c] = u
      /\ \A q \in Process, d \in Category : q # p \/ d # c =>
            local'[q][d] = local[q][d] /\ pending'[q][d] = pending[q][d]
  BY <1>1, <1>4
<1>6. TrackerTypeOK'
  <2>1. local' \in [Process -> Tracker] /\ pending' \in [Process -> [Category -> Tally]]
    BY <1>1, <1>3, <1>4 DEF Tracker
  <2> QED
    BY <2>1, GraduationAssumption DEF GradInv, TrackerTypeOK, Refute
<1>7. TalliesExact' /\ NeverInvented' /\ PromotedByHand'
  BY DEF GradInv, Refute, TalliesExact, NeverInvented, PromotedByHand
<1>8. Read(file)[c] \in Record /\ given[c] \in Tally
  BY ReadType DEF GradInv, TrackerTypeOK, Tracker
<1>9. ASSUME CountedOn(old, Read(file)[c], t)
      PROVE  CountedOn(new, Read(file)[c], u)
  BY <1>1, <1>8, <1>9 DEF CountedOn, Record, Tally
<1>10. ASSUME Within(old, Added(given[c], t))
       PROVE  Within(new, Added(given[c], u))
  BY <1>1, <1>8, <1>10 DEF Within, Added, Record, Tally
<1> HIDE DEF old, new, t, u
<1>11. CopyExact'
  BY <1>5, <1>9 DEF GradInv, CopyExact, Refute, TrackerTypeOK, old, t
<1>12. CopyHonest'
  BY <1>5, <1>10 DEF GradInv, CopyHonest, Refute, TrackerTypeOK, old, t
<1>13. NothingPending'
  BY <1>4 DEF GradInv, NothingPending, Refute, TrackerTypeOK
<1> QED
  BY <1>6, <1>7, <1>11, <1>12, <1>13 DEF GradInv

(* What a process held is the tracker now, and its verdicts were given.    *)
LEMMA SaveStep ==
    ASSUME GradInv, NEW p \in Process, Save(p)
    PROVE  GradInv'
<1>1. /\ local[p] \in Tracker /\ Read(file) \in Tracker
      /\ given \in [Category -> Tally] /\ pending[p] \in [Category -> Tally]
  BY ReadType DEF GradInv, TrackerTypeOK
<1>2. file' \in [Category -> Record \cup {Broken}] /\ Read(file') = local[p]
  BY <1>1, ReadTracker DEF Save
<1>3. /\ given' \in [Category -> Tally]
      /\ \A c \in Category : given'[c] = Added(given[c], pending[p][c])
  BY <1>1 DEF Save, Added, Tally
<1>4. Untold \in Tracker /\ NoVerdicts \in [Category -> Tally]
  BY DEF Untold, Unknown, Tracker, Record, NoVerdicts, Tally
<1>5. TrackerTypeOK'
  <2>1. /\ local' \in [Process -> Tracker]
        /\ pending' \in [Process -> [Category -> Tally]]
        /\ lost' \in BOOLEAN
    BY <1>4 DEF GradInv, TrackerTypeOK, Save, Exit
  <2> QED
    BY <1>2, <1>3, <2>1 DEF GradInv, TrackerTypeOK, Save, Exit
<1>6. ASSUME ~lost' PROVE ~lost /\ p \in loaded \ stale
  BY <1>6 DEF Save
<1>7. \A c \in Category : /\ Read(file)[c] \in Record /\ local[p][c] \in Record
                          /\ given[c] \in Tally /\ pending[p][c] \in Tally
  BY <1>1 DEF Tracker
<1>8. TalliesExact'
  <2>1. ASSUME ~lost', NEW c \in Category \ damaged
        PROVE  /\ local[p][c].confirmed = Added(given[c], pending[p][c]).confirmed
               /\ local[p][c].falsePositives =
                      Added(given[c], pending[p][c]).falsePositives
    BY <1>6, <2>1 DEF GradInv, TalliesExact, CopyExact, CountedOn, Added
  <2> QED
    BY <1>2, <1>3, <2>1 DEF TalliesExact, Save
<1>9. NeverInvented'
  <2>1. \A c \in Category : Within(local[p][c], Added(given[c], pending[p][c]))
    BY DEF GradInv, CopyHonest, Save
  <2> QED
    BY <1>2, <1>3, <2>1 DEF NeverInvented, Within
<1>10. PromotedByHand'
  <2>1. ASSUME ~lost', NEW c \in Category \ damaged
        PROVE  local[p][c].promoted <=> c \in byHand
    BY <1>6, <2>1 DEF GradInv, PromotedByHand, CopyExact, CountedOn
  <2> QED
    BY <1>2, <2>1 DEF PromotedByHand, Save
<1>11. CopyExact'
  BY DEF CopyExact, Save, Exit
<1>12. CopyHonest'
  <2>1. SUFFICES ASSUME NEW q \in loaded \ {p}, NEW c \in Category
                 PROVE  Within(local[q][c], Added(given'[c], pending[q][c]))
    BY DEF CopyHonest, Save, Exit, GradInv, TrackerTypeOK
  <2>2. Within(local[q][c], Added(given[c], pending[q][c]))
    BY DEF GradInv, CopyHonest
  <2>3. /\ local[q][c] \in Record /\ pending[q][c] \in Tally
    BY DEF GradInv, TrackerTypeOK, Tracker
  <2>4. given[c] \in Tally /\ pending[p][c] \in Tally
    BY <1>7
  <2>5. /\ given'[c].confirmed = given[c].confirmed + pending[p][c].confirmed
        /\ given'[c].falsePositives =
               given[c].falsePositives + pending[p][c].falsePositives
        /\ given'[c].anchors = given[c].anchors \cup pending[p][c].anchors
    BY <1>3 DEF Added
  <2>6. /\ local[q][c].confirmed <= given[c].confirmed + pending[q][c].confirmed
        /\ local[q][c].falsePositives <=
               given[c].falsePositives + pending[q][c].falsePositives
        /\ ToSet(local[q][c].anchors) \subseteq
               given[c].anchors \cup pending[q][c].anchors
    BY <2>2 DEF Within, Added
  <2>7. /\ local[q][c].confirmed \in Nat /\ local[q][c].falsePositives \in Nat
        /\ \A t \in {pending[q][c], given[c], pending[p][c]} :
              t.confirmed \in Nat /\ t.falsePositives \in Nat
    BY <2>3, <2>4 DEF Record, Tally
  <2>8. local[q][c].confirmed <= given'[c].confirmed + pending[q][c].confirmed
    BY <2>5, <2>6, <2>7
  <2>9. local[q][c].falsePositives <=
            given'[c].falsePositives + pending[q][c].falsePositives
    BY <2>5, <2>6, <2>7
  <2> QED
    BY <2>5, <2>6, <2>8, <2>9 DEF Within, Added
<1>13. NothingPending'
  BY DEF GradInv, TrackerTypeOK, NothingPending, Save, Exit
<1> QED
  BY <1>5, <1>8, <1>9, <1>10, <1>11, <1>12, <1>13 DEF GradInv

(* What a process held is forgotten, and the file is as it was.            *)
LEMMA QuitStep ==
    ASSUME GradInv, NEW p \in Process, Quit(p)
    PROVE  GradInv'
<1>1. Untold \in Tracker /\ NoVerdicts \in [Category -> Tally]
  BY DEF Untold, Unknown, Tracker, Record, NoVerdicts, Tally
<1>2. TrackerTypeOK'
  BY <1>1 DEF GradInv, TrackerTypeOK, Quit, Exit
<1>3. TalliesExact' /\ NeverInvented' /\ PromotedByHand'
  BY DEF GradInv, Quit, TalliesExact, NeverInvented, PromotedByHand
<1>4. CopyExact' /\ CopyHonest'
  BY DEF GradInv, TrackerTypeOK, CopyExact, CopyHonest, Quit, Exit
<1>5. NothingPending'
  BY DEF GradInv, TrackerTypeOK, NothingPending, Quit, Exit
<1> QED
  BY <1>2, <1>3, <1>4, <1>5 DEF GradInv

-----------------------------------------------------------------------------
(* One record is broken: the others are read as before, and no copy is     *)
(* fresh any more.                                                         *)
LEMMA BreakRecordStep ==
    ASSUME GradInv, NEW b \in Category, BreakRecord(b)
    PROVE  GradInv'
<1>1. file \in [Category -> Record \cup {Broken}]
  BY DEF GradInv, TrackerTypeOK, BreakRecord
<1>2. /\ file' \in [Category -> Record \cup {Broken}]
      /\ file' = [file EXCEPT ![b] = Broken]
  BY <1>1 DEF BreakRecord
<1>3. file # Corrupt /\ file' # Corrupt
  BY <1>1, <1>2, BrokenAssumption
<1>4. /\ Read(file')[b] = Unknown
      /\ \A c \in Category \ {b} : Read(file')[c] = Read(file)[c]
  BY <1>1, <1>2, <1>3 DEF Read
<1>5. TrackerTypeOK'
  BY <1>2, GraduationAssumption DEF GradInv, TrackerTypeOK, BreakRecord
<1>6. TalliesExact' /\ PromotedByHand'
  BY <1>4 DEF GradInv, BreakRecord, TalliesExact, PromotedByHand
<1>7. NeverInvented'
  <2>1. given[b] \in Tally
    BY DEF GradInv, TrackerTypeOK
  <2>2. Within(Unknown, given[b])
    BY <2>1 DEF Within, Unknown, Tally, ToSet
  <2> QED
    BY <1>4, <2>2 DEF GradInv, BreakRecord, NeverInvented, Within
<1>8. CopyExact' /\ CopyHonest' /\ NothingPending'
  BY DEF GradInv, BreakRecord, CopyExact, CopyHonest, NothingPending
<1> QED
  BY <1>5, <1>6, <1>7, <1>8 DEF GradInv

(* The whole file is broken: it is read as a tracker without verdicts.     *)
LEMMA BreakFileStep ==
    ASSUME GradInv, BreakFile
    PROVE  GradInv'
<1>1. \A c \in Category : Read(file')[c] = Unknown
  BY DEF BreakFile, Read, Untold
<1>2. TrackerTypeOK'
  BY GraduationAssumption DEF GradInv, TrackerTypeOK, BreakFile
<1>3. TalliesExact' /\ PromotedByHand'
  BY DEF BreakFile, TalliesExact, PromotedByHand
<1>4. NeverInvented'
  <2>1. \A c \in Category : Within(Unknown, given[c])
    BY DEF GradInv, TrackerTypeOK, Within, Unknown, Tally, ToSet
  <2> QED
    BY <1>1, <2>1 DEF BreakFile, NeverInvented, Within
<1>5. CopyExact' /\ CopyHonest' /\ NothingPending'
  BY DEF GradInv, BreakFile, CopyExact, CopyHonest, NothingPending
<1> QED
  BY <1>2, <1>3, <1>4, <1>5 DEF GradInv

(* A maintainer marks a record; its counts stay.                           *)
LEMMA PromoteStep ==
    ASSUME GradInv, NEW b \in Category, Promote(b)
    PROVE  GradInv'
<1> DEFINE marked == [file[b] EXCEPT !.promoted = TRUE]
<1>1. /\ file \in [Category -> Record \cup {Broken}]
      /\ file # Corrupt /\ file[b] # Broken /\ file[b] \in Record
  BY DEF GradInv, TrackerTypeOK, Promote
<1>2. /\ marked \in Record /\ marked # Broken /\ marked.promoted
      /\ marked.confirmed = file[b].confirmed
      /\ marked.falsePositives = file[b].falsePositives
      /\ marked.anchors = file[b].anchors
  BY <1>1, BrokenAssumption DEF Record
<1>3. file' = [file EXCEPT ![b] = marked]
  BY DEF Promote
<1> HIDE DEF marked
<1>4. file' \in [Category -> Record \cup {Broken}]
  BY <1>1, <1>2, <1>3
<1>5. file' # Corrupt
  BY <1>4, BrokenAssumption
<1>6. /\ Read(file)[b] = file[b] /\ Read(file')[b] = marked
      /\ \A c \in Category \ {b} : Read(file')[c] = Read(file)[c]
  BY <1>1, <1>2, <1>3, <1>5 DEF Read
<1>7. TrackerTypeOK'
  BY <1>4, GraduationAssumption DEF GradInv, TrackerTypeOK, Promote
<1>8. TalliesExact' /\ NeverInvented'
  <2>1. \A c \in Category :
            /\ Read(file')[c].confirmed = Read(file)[c].confirmed
            /\ Read(file')[c].falsePositives = Read(file)[c].falsePositives
            /\ Read(file')[c].anchors = Read(file)[c].anchors
    BY <1>2, <1>6
  <2>2. TalliesExact /\ NeverInvented
        /\ UNCHANGED <<lost, damaged, given>>
    BY DEF GradInv, Promote
  <2>3. TalliesExact'
    BY <2>1, <2>2 DEF TalliesExact
  <2>4. NeverInvented'
    BY <2>1, <2>2 DEF NeverInvented
  <2> QED
    BY <2>3, <2>4
<1>9. PromotedByHand'
  BY <1>2, <1>6 DEF GradInv, Promote, PromotedByHand
<1>10. CopyExact' /\ CopyHonest' /\ NothingPending'
  BY DEF GradInv, Promote, CopyExact, CopyHonest, NothingPending
<1> QED
  BY <1>7, <1>8, <1>9, <1>10 DEF GradInv

-----------------------------------------------------------------------------
(* Every step keeps the invariant.                                         *)
LEMMA GradNext == GradInv /\ [TrackerNext]_tracker => GradInv'
<1> SUFFICES ASSUME GradInv, [TrackerNext]_tracker PROVE GradInv'
  OBVIOUS
<1>1. ASSUME NEW p \in Process, Load(p) \/ Save(p) \/ Quit(p) PROVE GradInv'
  BY <1>1, LoadStep, SaveStep, QuitStep
<1>2. ASSUME NEW p \in Process, NEW c \in Category,
             Refute(p, c) \/ \E a \in Anchor \cup {NoAnchor} : Confirm(p, c, a)
      PROVE  GradInv'
  BY <1>2, ConfirmStep, RefuteStep
<1>3. ASSUME NEW c \in Category, BreakRecord(c) \/ Promote(c) PROVE GradInv'
  BY <1>3, BreakRecordStep, PromoteStep
<1>4. CASE BreakFile
  BY <1>4, BreakFileStep
<1>5. CASE UNCHANGED tracker
  BY <1>5 DEF tracker, GradInv, TrackerTypeOK, TalliesExact, NeverInvented,
              PromotedByHand, CopyExact, CopyHonest, NothingPending
<1> QED
  BY <1>1, <1>2, <1>3, <1>4, <1>5 DEF TrackerNext

(* The invariant holds in every reachable state.                           *)
LEMMA GradCorrect == TrackerSpec => []GradInv
BY GradInit, GradNext, PTL DEF TrackerSpec

(* The tracker, the copies and the tallies always have their types.        *)
THEOREM GraduationTypeCorrect == TrackerSpec => []TrackerTypeOK
<1>1. GradInv => TrackerTypeOK
  BY DEF GradInv
<1> QED
  BY <1>1, GradCorrect, PTL

(* For any number of commands that die anywhere and any hand edit of other *)
(* records, the tracker holds exactly the verdicts that were given, unless *)
(* commands overlapped (save, state.py:113-124).                           *)
THEOREM NoVerdictLost == TrackerSpec => []TalliesExact
<1>1. GradInv => TalliesExact
  BY DEF GradInv
<1> QED
  BY <1>1, GradCorrect, PTL

(* However commands overlap, the last writer wins but invents nothing.     *)
THEOREM NoVerdictInvented == TrackerSpec => []NeverInvented
<1>1. GradInv => NeverInvented
  BY DEF GradInv
<1> QED
  BY <1>1, GradCorrect, PTL

(* For every threshold, whoever is offered for promotion earned it, and    *)
(* whoever earned it is offered unless a verdict was lost or broken.       *)
THEOREM CandidatesAreEarned == TrackerSpec => []CandidatesEarned
<1>1. ASSUME GradInv PROVE CandidatesEarned
  <2>1. \A c \in Category : Read(file)[c] \in Record /\ given[c] \in Tally
    BY <1>1, ReadType DEF GradInv, TrackerTypeOK, Tracker
  <2>2. \A c \in Category : /\ Read(file)[c].confirmed \in Nat
                            /\ given[c].confirmed \in Nat
                            /\ Read(file)[c].confirmed <= given[c].confirmed
    BY <1>1, <2>1 DEF GradInv, NeverInvented, Record, Tally
  <2>3. \A c \in Category : IsCandidate(Read(file)[c]) => given[c].confirmed >= Threshold
    BY <2>2, GraduationAssumption DEF IsCandidate
  <2>4. ASSUME ~lost, NEW c \in Category \ damaged
        PROVE  IsCandidate(Read(file)[c]) <=> /\ given[c].confirmed >= Threshold
                                              /\ given[c].falsePositives = 0
                                              /\ c \notin byHand
    BY <1>1, <2>4 DEF GradInv, TalliesExact, PromotedByHand, IsCandidate
  <2> QED
    BY <2>3, <2>4 DEF CandidatesEarned
<1> QED
  BY <1>1, GradCorrect, PTL
=============================================================================
