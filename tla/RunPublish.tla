----------------------------- MODULE RunPublish -----------------------------
(***************************************************************************)
(* What leaves the run directory: the projections (guardrails, catalog,    *)
(* diagrams and runbook pages) and the staged PR tree with its REVIEW.md.  *)
(* They are made from three sources that RunKB lets drift apart: the       *)
(* documents a run still has in memory, the KB files, and the validation   *)
(* report.  Rendering and staging are one step each.                       *)
(***************************************************************************)
EXTENDS RunKB

CONSTANT Paged   \* artifacts with a page of their own: flows and runbooks

ASSUME PagedAssumption == Paged \subseteq Artifact

VARIABLES rendered,   \* projections/ exists
          pages,      \* the pages in it
          drawn,      \* the run in progress has rendered
          pr          \* the PR tree last staged

outputs == <<rendered, pages, pr>>
pubvars == <<vars, outputs, drawn>>

Copy == [of : Artifact, status : Status]
NoPR == [staged |-> FALSE, kb |-> {}, pages |-> {}, listed |-> {},
         fresh |-> FALSE]

PubTypeOK ==
    /\ rendered \in BOOLEAN /\ drawn \in BOOLEAN
    /\ pages \subseteq Paged
    /\ pr \in [staged : BOOLEAN, kb : SUBSET Copy, pages : SUBSET Paged,
               listed : SUBSET Artifact, fresh : BOOLEAN]

PubInit ==
    /\ Init
    /\ rendered = FALSE /\ pages = {} /\ drawn = FALSE
    /\ pr = NoPR

(* load_kb: every file under kb/, which reports/rejected is not.           *)
LoadKB == {c \in Copy : c.status # "rejected" /\ c.status \in at[c.of]}

(* Pages are written and overwritten, never removed.                       *)
Draw(artifacts) ==
    /\ rendered' = TRUE
    /\ pages' = pages \cup (artifacts \cap Paged)

(* run --to-stage render or publish: it draws what it has in memory.       *)
RenderRun ==
    /\ cmd = "return" /\ ~drawn
    /\ Draw({d.of : d \in DOMAIN staged})
    /\ drawn' = TRUE
    /\ UNCHANGED <<vars, pr>>

(* The render command draws the KB.                                        *)
Render ==
    /\ cmd = "idle" /\ runs > 0
    /\ Draw({c.of : c \in LoadKB})
    /\ UNCHANGED <<vars, drawn, pr>>

(* _review_md lists the records that are not verified.                     *)
Listed == {r.of : r \in {x \in report : x.status # "verified"}}

(* Nothing has touched the KB since the run that wrote the report.         *)
Untouched ==
    /\ whole \/ cmd = "return"
    /\ torn = {} /\ refuted = {} /\ \A a \in Artifact : heard[a] = {}
    /\ \A a \in Disabled \cup Draft : at[a] = {}

Stage(drawing) ==
    pr' = [staged |-> TRUE, kb |-> LoadKB, pages |-> drawing,
           listed |-> Listed, fresh |-> Untouched]

(* run --to-stage publish stages after it has drawn.                       *)
StageRun ==
    /\ cmd = "return" /\ drawn
    /\ Stage(pages)
    /\ UNCHANGED <<vars, rendered, pages, drawn>>

(* The publish command draws only if nothing was ever drawn here.          *)
Publish ==
    /\ cmd = "idle" /\ runs > 0
    /\ IF rendered THEN UNCHANGED <<rendered, pages>>
                   ELSE Draw({c.of : c \in LoadKB})
    /\ Stage(pages')
    /\ UNCHANGED <<vars, drawn>>

PubNext ==
    \/ Next /\ drawn' = (drawn /\ cmd' = "return") /\ UNCHANGED outputs
    \/ RenderRun \/ Render \/ StageRun \/ Publish

PubSpec == PubInit /\ [][PubNext]_pubvars

-----------------------------------------------------------------------------
(* Mutant of Rescan: the head is what the run has in memory.               *)
RescanInMemory == {[of |-> d.of, status |-> Final(d)] : d \in DOMAIN staged}

(* `diff --from-kb`: the staged KB against a fresh scan of the target, here *)
(* the one it was scanned from, in a run directory of its own.             *)
Rescan == {c \in {[of |-> d.of, status |-> Final(d)] : d \in DOMAIN staged} :
               c.status # "rejected"}

(* Of two documents of one name the one read last counts, the verified one. *)
Signature(kb, a) ==
    IF [of |-> a, status |-> "verified"] \in kb THEN "verified" ELSE "needs-review"

DiffKB(base, head) ==
    LET b == {c.of : c \in base}
        h == {c.of : c \in head}
    IN  [added |-> h \ b, removed |-> b \ h,
         changed |-> {a \in b \cap h : Signature(base, a) # Signature(head, a)}]

-----------------------------------------------------------------------------
(* REVIEW.md names every artifact the staged KB does not hold as verified, *)
(* as long as nothing moved an artifact between the run and the staging:   *)
(* pass 2 downgrades, twins and earlier runs included.                     *)
FreshReviewComplete ==
    pr.fresh => \A c \in pr.kb : c.status = "verified" \/ c.of \in pr.listed

(* The weekly drift check of a published KB against a target that did not  *)
(* change reports no artifact unless something moved it between the run    *)
(* and the staging: pass 2, twins of one name and the order in which the   *)
(* two sides are read make no drift of their own (drift/diff.py:1-5).      *)
Moving == {a \in Artifact : heard[a] # {}} \cup refuted \cup torn \cup Disabled \cup Draft
DriftHasACause ==
    pr.staged /\ whole /\ runs = 1 /\ cmd = "idle" =>
        LET d == DiffKB(pr.kb, Rescan)
        IN  d.added \cup d.removed \cup d.changed \subseteq Moving

(* pr_builder.py:1-2: "A REVIEW.md surfaces everything not auto-verified". *)
(* It is built from the report of the run, which no command rewrites: what *)
(* challenge-apply took down, and what autopilot drafted, is missing.      *)
ReviewSurfacesAll ==
    \A c \in pr.kb : c.status = "verified" \/ c.of \in pr.listed

(* render/project.py:1-2: the projections are made "from the validated     *)
(* KB".  A run draws every document it has in memory, rejected ones too;   *)
(* no page is ever removed; and publish draws only if nothing was drawn    *)
(* before: pages of artifacts that the KB does not hold are published.     *)
OnlyKBIsPublished == pr.pages \subseteq {c.of : c \in pr.kb}
=============================================================================
