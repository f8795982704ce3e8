---------------------------- MODULE ForgePublish ----------------------------
(***************************************************************************)
(* GitHubForge.open_pr against a repository that people work in: clone,    *)
(* merge_tree, commit, push to one fixed branch, POST the pull request.    *)
(* Any of these calls may fail or time out, and the operator may edit,     *)
(* delete, merge, close or clean up in between.  git and GitHub are        *)
(* external; a merge of two commits is a merge file by file.               *)
(***************************************************************************)
EXTENDS MergeTree

CONSTANT Overlap   \* a pull request may be merged while the next publish
                   \* is under way

ASSUME OverlapAssumption == Overlap \in BOOLEAN

VARIABLES main,    \* default branch of the target
          branch,  \* what the engine last pushed, or NoBranch
          open,    \* a pull request for it is open
          pc,      \* "idle", "cloned", "committed" or "pushed"
          draft,   \* the staged tree being published
          base,    \* the commit that was cloned
          work,    \* the working copy
          (* History:                                                      *)
          mine,    \* what the operator last made of a generated file
          deleted  \* generated files the operator has deleted

vars == <<main, branch, open, pc, draft, base, work, mine, deleted>>
remote == <<main, branch, open, mine, deleted>>
publishing == <<pc, draft, base, work>>

Empty == [live |-> Nowhere, recorded |-> Nowhere, proposed |-> Nowhere]
Pushed == [tree : Tree, base : Tree, draft : File]
NoBranch == [tree |-> Empty, base |-> Empty, draft |-> Nowhere]

TypeOK ==
    /\ main \in Tree /\ branch \in Pushed
    /\ open \in BOOLEAN
    /\ pc \in {"idle", "cloned", "committed", "pushed"}
    /\ draft \in File /\ base \in Tree /\ work \in Tree
    /\ mine \in File /\ deleted \in SUBSET Path

(* Nothing is published yet; the target may have files of its own.         *)
Init ==
    /\ \E f \in File : main = [Empty EXCEPT !.live = f]
    /\ branch = NoBranch /\ open = FALSE
    /\ pc = "idle" /\ draft = Nowhere /\ base = Empty /\ work = Empty
    /\ mine = Nowhere /\ deleted = {}

-----------------------------------------------------------------------------
(* git clone and checkout -b, with the tree that assemble_pr staged.       *)
Clone ==
    /\ pc = "idle"
    /\ \E d \in File : draft' = d
    /\ base' = main /\ work' = main
    /\ pc' = "cloned"
    /\ UNCHANGED remote

(* merge_tree, add and commit.  A tree without changes is not published.   *)
Commit ==
    /\ pc = "cloned"
    /\ work' = Merged(work, draft)
    /\ pc' = IF work' = base THEN "idle" ELSE "committed"
    /\ UNCHANGED <<remote, draft, base>>

(* git push without force.  The clone is of depth 1, so it does not hold   *)
(* the tip of a branch that is still there, and the push is rejected,      *)
(* merged or not; once the branch is deleted it goes through.              *)
Push ==
    /\ pc = "committed"
    /\ \/ /\ branch = NoBranch
          /\ branch' = [tree |-> work, base |-> base, draft |-> draft]
          /\ pc' = "pushed"
       \/ /\ branch # NoBranch
          /\ pc' = "idle"
          /\ UNCHANGED branch
    /\ UNCHANGED <<main, open, draft, base, work, mine, deleted>>

(* POST /pulls fails when the branch is gone.                              *)
Post ==
    /\ pc = "pushed"
    /\ pc' = "idle"
    /\ open' = (branch # NoBranch)
    /\ UNCHANGED <<main, branch, draft, base, work, mine, deleted>>

(* Any call fails, or the process dies: the temporary clone is gone, what  *)
(* was pushed stays.                                                       *)
Fail ==
    /\ pc # "idle"
    /\ pc' = "idle"
    /\ UNCHANGED <<remote, draft, base, work>>

-----------------------------------------------------------------------------
(* The operator writes a file on main.  An edit of a generated file is     *)
(* theirs until it is back to what the manifest recorded.                  *)
Edit(p, c) ==
    /\ main' = [main EXCEPT !.live[p] = c]
    /\ mine' = [mine EXCEPT ![p] =
                   IF main.recorded[p] \in {c, Absent} THEN Absent ELSE c]
    /\ deleted' = deleted \ {p}
    /\ UNCHANGED <<branch, open, publishing>>

Delete(p) ==
    /\ main.live[p] # Absent
    /\ main' = [main EXCEPT !.live[p] = Absent]
    /\ mine' = [mine EXCEPT ![p] = Absent]
    /\ deleted' = IF main.recorded[p] = Absent THEN deleted
                  ELSE deleted \cup {p}
    /\ UNCHANGED <<branch, open, publishing>>

(* The operator has dealt with a proposal.                                 *)
DropProposal(p) ==
    /\ main.proposed[p] # Absent
    /\ main' = [main EXCEPT !.proposed[p] = Absent]
    /\ UNCHANGED <<branch, open, mine, deleted, publishing>>

(* git's 3-way merge of one file: a side that did not touch it gives way.  *)
Mergeable(old, ours, theirs) ==
    \A p \in Path : \/ ours[p] = old[p] \/ theirs[p] = old[p]
                    \/ ours[p] = theirs[p]
ThreeWay(old, ours, theirs) ==
    [p \in Path |-> IF ours[p] = old[p] THEN theirs[p] ELSE ours[p]]

(* The pull request is merged, if it can be, and the branch deleted or     *)
(* kept.  A file that the manifest now records as it is, or no longer       *)
(* records, has no edit to keep any more; one that it records for the      *)
(* first time may have been edited already.                                *)
MergePR ==
    /\ open /\ (Overlap \/ pc = "idle")
    /\ Mergeable(branch.base.live, main.live, branch.tree.live)
    /\ Mergeable(branch.base.recorded, main.recorded, branch.tree.recorded)
    /\ Mergeable(branch.base.proposed, main.proposed, branch.tree.proposed)
    /\ main' = [live |-> ThreeWay(branch.base.live, main.live,
                                  branch.tree.live),
                recorded |-> ThreeWay(branch.base.recorded, main.recorded,
                                      branch.tree.recorded),
                proposed |-> ThreeWay(branch.base.proposed, main.proposed,
                                      branch.tree.proposed)]
    /\ mine' = [p \in Path |->
                   IF main'.recorded[p] \in {mine[p], Absent} THEN Absent
                   ELSE IF main.recorded[p] = Absent /\ Diverged(main', p)
                        THEN main'.live[p] ELSE mine[p]]
    /\ open' = FALSE
    /\ branch' \in {NoBranch, branch}
    /\ UNCHANGED <<deleted, publishing>>

ClosePR ==
    /\ open
    /\ open' = FALSE
    /\ UNCHANGED <<main, branch, mine, deleted, publishing>>

DeleteBranch ==
    /\ branch # NoBranch
    /\ branch' = NoBranch
    /\ open' = FALSE
    /\ UNCHANGED <<main, mine, deleted, publishing>>

Publisher == Clone \/ Commit \/ Push \/ Post \/ Fail

Operator ==
    \/ \E p \in Path :
          (\E c \in Content : Edit(p, c)) \/ Delete(p) \/ DropProposal(p)
    \/ MergePR \/ ClosePR \/ DeleteBranch

Next == Publisher \/ Operator

Spec == Init /\ [][Next]_vars

-----------------------------------------------------------------------------
(* A file the engine generated and the operator edited stays as the        *)
(* operator left it, however many publishes, failed pushes, retries and    *)
(* merges follow, and whatever was in flight when the edit was made: "a    *)
(* re-publish must never silently revert an operator's edit".              *)
EditsKept == \A p \in Path : mine[p] # Absent => main.live[p] = mine[p]

(* The manifest tells the truth about main: a file it records is the one   *)
(* the engine wrote, or the operator's, or deleted.  This is what lets the *)
(* next merge tell the two apart.                                          *)
ManifestTruthful ==
    \A p \in Path : main.recorded[p] # Absent =>
        main.live[p] \in {main.recorded[p], mine[p], Absent}

(* A merged pull request delivers every file of the draft, live or under   *)
(* .proposed/, unless the operator touched it on main after the clone.     *)
MergeDelivers ==
    [][MergePR =>
        \A p \in Path : branch.draft[p] # Absent =>
            \/ branch.draft[p] \in {main'.live[p], main'.proposed[p]}
            \/ main.live[p] # branch.base.live[p]
            \/ main.proposed[p] # branch.base.proposed[p]]_vars

(* Publishing what was just published changes nothing, whatever the target *)
(* looks like: so open_pr can tell that there is nothing to publish.       *)
Idempotent ==
    \A d \in File : Merged(Merged(main, d), d) = Merged(main, d)

-----------------------------------------------------------------------------
(* manifest.py:3 holds of edits, but not of the edit that removes a file:  *)
(* merge_tree writes a generated file that is missing as if it were new,   *)
(* where the manifest still says that it wrote it before.                  *)
DeletionsKept == \A p \in deleted : main.live[p] = Absent
=============================================================================
