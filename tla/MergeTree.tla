------------------------------ MODULE MergeTree ------------------------------
(***************************************************************************)
(* merge_tree: the 3-way merge of a staged tree into the target repository *)
(* against the hashes its manifest recorded at the last publish.  A hash   *)
(* stands for the content it was taken of.                                 *)
(***************************************************************************)
CONSTANTS Path,     \* files the engine may generate
          Content,  \* what a file may hold
          Absent    \* no such file, or no such manifest entry

ASSUME AbsentAssumption == Absent \notin Content

File == [Path -> Content \cup {Absent}]

(* A commit of the target repository: its files, the hashes recorded in    *)
(* .sre/manifest.yaml, and the drafts under .proposed/.                    *)
Tree == [live : File, recorded : File, proposed : File]

Nowhere == [p \in Path |-> Absent]

(* The operator has changed a file we wrote.                               *)
Diverged(t, p) ==
    /\ t.live[p] # Absent /\ t.recorded[p] # Absent
    /\ t.live[p] # t.recorded[p]

(* A file we wrote and would not write again, as we left it.               *)
Orphaned(t, draft, p) ==
    /\ draft[p] = Absent
    /\ t.recorded[p] # Absent /\ t.live[p] = t.recorded[p]

(* The manifest drops what is pruned and what is gone already.             *)
Forgotten(t, draft, p) ==
    /\ draft[p] = Absent
    /\ t.live[p] \in {t.recorded[p], Absent}

(* Mutant of Written: a blind overwrite.                                   *)
WrittenBlindly(t, draft, p) == draft[p] # Absent

Written(t, draft, p) == draft[p] # Absent /\ ~Diverged(t, p)

(* Mutant of LiveAfter: what we wrote and nobody touched is not refreshed. *)
LiveNotRefreshed(t, draft) ==
    [p \in Path |-> IF Written(t, draft, p) /\ t.recorded[p] = Absent
                    THEN draft[p]
                    ELSE IF Orphaned(t, draft, p) THEN Absent ELSE t.live[p]]

LiveAfter(t, draft) ==
    [p \in Path |-> IF Written(t, draft, p) THEN draft[p]
                    ELSE IF Orphaned(t, draft, p) THEN Absent ELSE t.live[p]]

(* Mutant of RecordedAfter: a file is recorded only the first time.        *)
RecordsOnce(t, draft) ==
    [p \in Path |-> IF Written(t, draft, p) /\ t.recorded[p] = Absent
                    THEN draft[p]
                    ELSE IF Forgotten(t, draft, p) THEN Absent
                    ELSE t.recorded[p]]

RecordedAfter(t, draft) ==
    [p \in Path |-> IF Written(t, draft, p) THEN draft[p]
                    ELSE IF Forgotten(t, draft, p) THEN Absent
                    ELSE t.recorded[p]]

(* Mutant of ProposedAfter: the wrong file of the two is copied.           *)
ProposesLive(t, draft) ==
    [p \in Path |-> IF draft[p] # Absent /\ Diverged(t, p) THEN t.live[p]
                    ELSE t.proposed[p]]

ProposedAfter(t, draft) ==
    [p \in Path |-> IF draft[p] # Absent /\ Diverged(t, p) THEN draft[p]
                    ELSE t.proposed[p]]

Merged(t, draft) == [live |-> LiveAfter(t, draft),
                     recorded |-> RecordedAfter(t, draft),
                     proposed |-> ProposedAfter(t, draft)]
=============================================================================
