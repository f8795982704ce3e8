----------------------------- MODULE Graduation -----------------------------
(***************************************************************************)
(* The graduation tracker, .sre/graduation-tracker.yaml of the target: how *)
(* often reviewers confirmed each gap category and how often they called   *)
(* one false.  confirm-gap and confirm-apply each load the whole file,     *)
(* record verdicts in memory and replace the file.  Nothing locks it, any  *)
(* process may die, and maintainers edit it by hand.                       *)
(***************************************************************************)
EXTENDS Naturals, Sequences, SequencesExt

CONSTANTS
    Process,     \* confirm-gap and confirm-apply commands
    Category,
    Anchor,      \* excerpts that show a confirmed instance
    NoAnchor,    \* confirm-gap without --anchor
    Threshold,   \* graduation.confirmation_threshold
    MaxAnchors,  \* _MAX_ANCHORS
    Broken,      \* a record whose shape a hand edit broke
    Corrupt,     \* a file that is no tracker any more
    MaxEvents    \* bound: verdicts recorded and hand edits made

ASSUME GraduationAssumption ==
    /\ Threshold \in Nat \ {0} /\ MaxAnchors \in Nat \ {0}
    /\ MaxEvents \in Nat
    /\ NoAnchor \notin Anchor

Record == [confirmed : Nat, falsePositives : Nat, anchors : Seq(Anchor),
           promoted : BOOLEAN]

ASSUME BrokenAssumption ==
    /\ Broken \notin Record
    /\ Corrupt \notin [Category -> Record \cup {Broken}]

(* A category without a record is one without verdicts.                    *)
Unknown == [confirmed |-> 0, falsePositives |-> 0, anchors |-> <<>>,
            promoted |-> FALSE]

Tracker == [Category -> Record]
Tally == [confirmed : Nat, falsePositives : Nat, anchors : SUBSET Anchor]
NoVerdicts == [c \in Category |->
                  [confirmed |-> 0, falsePositives |-> 0, anchors |-> {}]]

Untold == [c \in Category |-> Unknown]

VARIABLES
    file,     \* the tracker on disk
    local,    \* the tracker each process holds, while it is loaded
    loaded,   \* processes between load and save
    left,     \* verdicts and hand edits still to come
    (* History:                                                            *)
    pending,  \* verdicts each process recorded since it loaded
    given,    \* verdicts of completed commands
    stale,    \* processes whose copy is older than the file
    lost,     \* a stale copy was saved
    damaged,  \* categories whose record a hand edit broke
    byHand    \* categories a maintainer marked as promoted

tracker == <<file, local, loaded, left, pending, given, stale, lost,
          damaged, byHand>>

TrackerTypeOK ==
    /\ file \in [Category -> Record \cup {Broken}] \cup {Corrupt}
    /\ loaded \in SUBSET Process /\ stale \in SUBSET loaded
    /\ local \in [Process -> Tracker]
    /\ left \in 0..MaxEvents
    /\ pending \in [Process -> [Category -> Tally]]
    /\ given \in [Category -> Tally]
    /\ lost \in BOOLEAN
    /\ damaged \in SUBSET Category /\ byHand \in SUBSET Category

TrackerInit ==
    /\ file = Untold
    /\ local = [p \in Process |-> Untold]
    /\ loaded = {} /\ stale = {}
    /\ left = MaxEvents
    /\ pending = [p \in Process |-> NoVerdicts]
    /\ given = NoVerdicts
    /\ lost = FALSE /\ damaged = {} /\ byHand = {}

-----------------------------------------------------------------------------
(* load: a corrupt file is an empty tracker, a broken record is skipped.   *)
Read(f) ==
    IF f = Corrupt THEN Untold
    ELSE [c \in Category |-> IF f[c] = Broken THEN Unknown ELSE f[c]]

Load(p) ==
    /\ p \notin loaded
    /\ loaded' = loaded \cup {p}
    /\ local' = [local EXCEPT ![p] = Read(file)]
    /\ UNCHANGED <<file, left, pending, given, stale, lost, damaged, byHand>>

(* The last MaxAnchors sample anchors, each once.                          *)
Sampled(anchors, a) ==
    IF a = NoAnchor \/ a \in ToSet(anchors) THEN anchors
    ELSE IF Len(anchors) < MaxAnchors THEN Append(anchors, a)
    ELSE Append(Tail(anchors), a)

(* tracker.confirm, in memory.                                             *)
Confirm(p, c, a) ==
    /\ p \in loaded /\ left > 0
    /\ left' = left - 1
    /\ local' = [local EXCEPT ![p][c].confirmed = @ + 1,
                              ![p][c].anchors = Sampled(@, a)]
    /\ pending' = [pending EXCEPT ![p][c].confirmed = @ + 1,
                                  ![p][c].anchors = @ \cup ({a} \ {NoAnchor})]
    /\ UNCHANGED <<file, loaded, given, stale, lost, damaged, byHand>>

(* tracker.refute, in memory.                                              *)
Refute(p, c) ==
    /\ p \in loaded /\ left > 0
    /\ left' = left - 1
    /\ local' = [local EXCEPT ![p][c].falsePositives = @ + 1]
    /\ pending' = [pending EXCEPT ![p][c].falsePositives = @ + 1]
    /\ UNCHANGED <<file, loaded, given, stale, lost, damaged, byHand>>

Added(t, u) == [confirmed |-> t.confirmed + u.confirmed,
                falsePositives |-> t.falsePositives + u.falsePositives,
                anchors |-> t.anchors \cup u.anchors]

(* The process and its memory are gone.                                    *)
Exit(p) ==
    /\ loaded' = loaded \ {p}
    /\ local' = [local EXCEPT ![p] = Untold]
    /\ pending' = [pending EXCEPT ![p] = NoVerdicts]

(* Mutant of Save: what was recorded before the load counts again.         *)
SaveAdds(p) ==
    /\ p \in loaded /\ pending[p] # NoVerdicts
    /\ file' = [c \in Category |->
                   [local[p][c] EXCEPT !.confirmed =
                                           @ + Read(file)[c].confirmed]]
    /\ Exit(p)
    /\ given' = [c \in Category |-> Added(given[c], pending[p][c])]
    /\ lost' = (lost \/ p \in stale)
    /\ stale' = loaded \ {p}
    /\ UNCHANGED <<left, damaged, byHand>>

(* save: a temporary file replaces the tracker.  confirm-apply saves only  *)
(* if it recorded something.                                               *)
Save(p) ==
    /\ p \in loaded /\ pending[p] # NoVerdicts
    /\ file' = local[p]
    /\ Exit(p)
    /\ given' = [c \in Category |-> Added(given[c], pending[p][c])]
    /\ lost' = (lost \/ p \in stale)
    /\ stale' = loaded \ {p}
    /\ UNCHANGED <<left, damaged, byHand>>

(* Mutant of Quit: the tracker is written in place, and half of it is left.*)
QuitHalfway(p) ==
    /\ p \in loaded /\ Exit(p)
    /\ stale' = stale \ {p}
    /\ file' = IF pending[p] = NoVerdicts THEN file ELSE Corrupt
    /\ UNCHANGED <<left, given, lost, damaged, byHand>>

(* The process has nothing to save, fails or dies before the replace; a    *)
(* temporary file it leaves behind is read by nobody.                      *)
Quit(p) ==
    /\ p \in loaded /\ Exit(p)
    /\ stale' = stale \ {p}
    /\ UNCHANGED <<file, left, given, lost, damaged, byHand>>

-----------------------------------------------------------------------------
(* A hand edit that breaks a record, or the whole file.                    *)
BreakRecord(c) ==
    /\ file # Corrupt /\ left > 0
    /\ left' = left - 1
    /\ file' = [file EXCEPT ![c] = Broken]
    /\ damaged' = damaged \cup {c}
    /\ stale' = loaded
    /\ UNCHANGED <<local, loaded, pending, given, lost, byHand>>

BreakFile ==
    /\ left > 0
    /\ left' = left - 1
    /\ file' = Corrupt
    /\ damaged' = Category
    /\ stale' = loaded
    /\ UNCHANGED <<local, loaded, pending, given, lost, byHand>>

(* Promotion is the maintainer's: no code sets the mark.                   *)
Promote(c) ==
    /\ file # Corrupt /\ file[c] # Broken /\ left > 0
    /\ left' = left - 1
    /\ file' = [file EXCEPT ![c].promoted = TRUE]
    /\ byHand' = byHand \cup {c}
    /\ stale' = loaded
    /\ UNCHANGED <<local, loaded, pending, given, lost, damaged>>

TrackerNext ==
    \/ \E p \in Process :
          \/ Load(p) \/ Save(p) \/ Quit(p)
          \/ \E c \in Category : \/ \E a \in Anchor \cup {NoAnchor} : Confirm(p, c, a)
                                 \/ Refute(p, c)
    \/ \E c \in Category : BreakRecord(c) \/ Promote(c)
    \/ BreakFile

TrackerSpec == TrackerInit /\ [][TrackerNext]_tracker

-----------------------------------------------------------------------------
(* Mutant of IsCandidate: false positives do not block.                    *)
EnoughConfirmed(r) == ~r.promoted /\ r.confirmed >= Threshold

IsCandidate(r) ==
    /\ ~r.promoted
    /\ r.confirmed >= Threshold
    /\ r.falsePositives = 0

(* No verdict is lost and none is counted twice, whatever other categories *)
(* are broken by hand and wherever a command dies, unless two commands     *)
(* overlap: "a crash mid-write must not truncate the tracker", "skip only  *)
(* the shape-broken record" (state.py:90-92, 113-115).                     *)
TalliesExact ==
    ~lost => \A c \in Category \ damaged :
        /\ Read(file)[c].confirmed = given[c].confirmed
        /\ Read(file)[c].falsePositives = given[c].falsePositives

(* Even when commands overlap and the last writer wins, the tracker never  *)
(* holds a verdict that no reviewer gave.                                  *)
NeverInvented ==
    \A c \in Category :
        /\ Read(file)[c].confirmed <= given[c].confirmed
        /\ Read(file)[c].falsePositives <= given[c].falsePositives
        /\ ToSet(Read(file)[c].anchors) \subseteq given[c].anchors

(* A category is offered for promotion only with enough confirmations that *)
(* reviewers really gave; and, unless a verdict was lost or its record     *)
(* broken, exactly when none of them called it false and no maintainer     *)
(* promoted it already (state.py:53-55).                                   *)
CandidatesEarned ==
    \A c \in Category :
        LET candidate == IsCandidate(Read(file)[c])
        IN  /\ candidate => given[c].confirmed >= Threshold
            /\ ~lost /\ c \notin damaged =>
                  (candidate <=> /\ given[c].confirmed >= Threshold
                                 /\ given[c].falsePositives = 0
                                 /\ c \notin byHand)
=============================================================================
