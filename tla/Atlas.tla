------------------------------- MODULE Atlas -------------------------------
(***************************************************************************)
(* `sre-kb atlas` and `sre-kb atlas-check`: the build of the atlas from    *)
(* the tree its configuration bounds, the files it is rendered to and the  *)
(* comparison of those files with the tree of a later day.                 *)
(*                                                                         *)
(* A command may die while it writes; before that it has changed nothing.  *)
(* What a file says is named by the tree it was rendered from: two trees   *)
(* never render alike, their digests being in every atlas.                 *)
(***************************************************************************)
EXTENDS AtlasSource, AtlasOverlays

CONSTANTS Tree,       (* the trees, by name                                *)
          Edits,      (* those a history goes on with; others get one command *)
          HandMade,   (* files of the operator's own beside the atlas      *)
          MaxRuns, MaxCrashes

VARIABLES tree,       (* the name of the tree at hand                      *)
          command,    (* "none", "atlas" or "atlas-check"                  *)
          pc, todo,   (* the phase, and what is left of it                 *)
          c,          (* the graph and the index under construction        *)
          atlas,      (* the snapshot, None before it is built             *)
          disk,       (* the generated directory: what each file says      *)
          drift,      (* what the last atlas-check reported                *)
          loose,      (* files there that no manifest of a whole atlas lists *)
          runs, crashes
vars == <<tree, command, pc, todo, c, atlas, disk, drift, loose, runs, crashes>>
files == <<disk, drift, loose>>

T == Tree[tree]

(* What a tree says is told in lists.  Manifests and sources are of a      *)
(* configured project, a source lies under its root and has a suffix.      *)
Listed(s) == s \in Seq(Range(s))
ManifestListed(m) ==
    /\ Listed(m.deps) /\ Listed(m.entries) /\ Listed(m.roots)
    /\ Listed(m.packages) /\ Listed(m.references)
SourceListed(r) ==
    /\ Listed(r.path) /\ Listed(r.root) /\ Listed(r.decl) /\ Listed(r.refs)
    /\ Len(r.root) + 2 <= Len(r.path)
    /\ \A ref \in Range(r.refs) :
           /\ Listed(ref.name)
           /\ ref.kind = "from" => IsFiniteSet(ref.names) /\ ref.level \in Nat
ASSUME TreeAssumption ==
    /\ Listed(NodeSuffixes) /\ Range(NodeSuffixes) \subseteq AnySuffix
    /\ \A t \in DOMAIN Tree :
          /\ Listed(Tree[t].projects) /\ Listed(Tree[t].manifests)
          /\ Listed(Tree[t].sources) /\ Listed(Tree[t].runtime)
          /\ Listed(Tree[t].sbom) /\ Listed(Tree[t].coverage) /\ Listed(Tree[t].codeowners)
          /\ \A m \in Range(Tree[t].manifests) : ManifestListed(m)
          /\ \A r \in Range(Tree[t].sources) :
                 SourceListed(r) /\ r.project \in Range(Tree[t].projects)
          /\ \A o \in Range(Tree[t].runtime) : Listed(o.nodes) /\ Listed(o.edges)
          /\ \A o \in Range(Tree[t].sbom) : Listed(o.components) /\ Listed(o.links)
          /\ \A o \in Range(Tree[t].coverage) : Listed(o.classes)
          /\ \A o \in Range(Tree[t].codeowners) : Listed(o.rules)

Init ==
    /\ tree \in DOMAIN Tree
    /\ command = "none" /\ pc = "idle" /\ todo = <<>>
    /\ c = EmptyCollection /\ atlas = None
    /\ disk = [f \in HandMade |-> <<"hand">>] /\ drift = None /\ loose = HandMade
    /\ runs = 0 /\ crashes = 0

-----------------------------------------------------------------------------
(* build_atlas.                                                            *)
ProjectNodes ==
    FoldLeft(LAMBDA d, p : Annotate(d, p, {<<"roots", p>>}), EmptyCollection, T.projects)
OfProject(manifests, p) ==
    InOrder(Only(manifests, {m \in Range(manifests) : m.project = p}))
ManifestsInOrder ==
    FoldLeft(LAMBDA d, p : d \o OfProject(T.manifests, p), <<>>, T.projects)
Begin(name) ==
    /\ pc = "idle" /\ runs < MaxRuns
    /\ command' = name /\ pc' = "config" /\ runs' = runs + 1
    /\ UNCHANGED <<tree, todo, c, atlas, files, crashes>>

(* An error that nothing catches, wherever the phase meets it: nothing of  *)
(* what was collected is kept and nothing was written.                     *)
Abort ==
    /\ pc' = "aborted" /\ command' = "none" /\ todo' = <<>>
    /\ c' = EmptyCollection /\ atlas' = None
    /\ UNCHANGED <<tree, files, runs, crashes>>
Continue(next, collection) ==
    /\ pc' = next /\ c' = collection
    /\ UNCHANGED <<tree, command, atlas, files, runs, crashes>>

(* Projects have names of their own, and no source or test root lies in    *)
(* another one: a file has one node.                                       *)
Bounded ==
    /\ IsInjective(T.projects)
    /\ \A i, j \in DOMAIN T.roots : IsPrefix(T.roots[i], T.roots[j]) => i = j
LoadConfig ==
    /\ pc = "config"
    /\ IF T.config # "ok" \/ ~Bounded THEN Abort
       ELSE todo' = ManifestsInOrder /\ Continue("manifests", ProjectNodes)

ReadManifest ==
    /\ pc = "manifests" /\ todo # <<>>
    /\ IF Uncaught(Head(todo)) THEN Abort
       ELSE /\ todo' = Tail(todo)
            /\ Continue("manifests", Adapted(c, Head(todo), T.files))
Records(languages) ==
    Only(T.sources, {r \in Range(T.sources) : r.listed /\ r.language \in languages})
NodeLanguages == {"javascript", "typescript", "tsx"}
Sourced ==
    LET found == FoldLeft(Discover, c, T.sources)
        python == Python(found, Records({"python"}), T.files)
        csharp == Csharp(Java(python, Records({"java"})), Records({"csharp"}))
        node == Javascript(csharp, Records(NodeLanguages))
    IN  Go(node, Records({"go"}))
CollectSource ==
    /\ pc = "manifests" /\ todo = <<>>
    /\ IF \/ T.rootless \/ Nameless(Sourced.graph)
          \/ TriesTheRoot(c, Records(NodeLanguages))
       THEN Abort
       ELSE todo' = <<>> /\ Continue("overlays", Sourced)
Overlaid ==
    LET observed == FoldLeft(Runtime, c, T.runtime)
        covered == FoldLeft(Coverage, FoldLeft(Cyclonedx, observed, T.sbom), T.coverage)
        owned == Codeowners(covered, T.codeowners)
    IN  IF T.history = None THEN owned ELSE ChangeHistory(owned, T.history)
ApplyOverlays ==
    /\ pc = "overlays"
    /\ IF \/ \E o \in Range(T.runtime) : RuntimeRefused(o)
          \/ \E o \in Range(T.sbom) : o.state = "oversized"
          \/ CodeownersRefused(T.codeowners)
       THEN Abort
       ELSE todo' = <<>> /\ Continue("assemble", Overlaid)

-----------------------------------------------------------------------------
(* The files, in the order they are written; the page only if it is asked  *)
(* for.                                                                    *)
BeforePage == <<"CodebaseAtlas.schema.json", "DEPENDENCY-SNAPSHOT.md", "README.md",
                "RuntimeEvidence.schema.json">>
AfterPage == <<"atlas.json", "licenses.json", "manifest.json", "runtime-graph.md",
               "runtime-graph.mmd", "source-graph.md", "source-graph.mmd">>
Files(t) ==
    BeforePage \o (IF Tree[t].html THEN <<"atlas.html">> ELSE <<>>) \o AfterPage
Rendered == Range(BeforePage) \cup {"atlas.html"} \cup Range(AfterPage)

(* The operator's own files have names of their own, and no tree is called *)
(* like a file cut short.                                                  *)
ASSUME AtlasAssumption ==
    /\ Edits \subseteq DOMAIN Tree /\ <<"torn">> \notin DOMAIN Tree
    /\ HandMade \cap Rendered = {}
    /\ MaxRuns \in Nat /\ MaxCrashes \in Nat

Says(f, t) == IF f \in {"CodebaseAtlas.schema.json", "RuntimeEvidence.schema.json"}
              THEN <<"schema">> ELSE t

Snapshot ==
    [graph |-> c.graph,
     coupling |-> UNION {Coupling(c.graph, by) : by \in Granularity},
     cycles |-> [by \in Granularity |-> Cycles(c.graph, by)],
     licenses |-> LicenseInventory(c),
     license |-> ProjectLicense(c.index, T.licenseFiles)]
(* A snapshot whose edges do not end at its nodes is refused.              *)
Assemble ==
    /\ pc = "assemble"
    /\ IF ~Integrity(c.graph) THEN Abort
       ELSE /\ atlas' = Snapshot
            /\ todo' = IF command = "atlas" THEN Files(tree) ELSE <<>>
            /\ pc' = IF command = "atlas" THEN "unlink" ELSE "compare"
            /\ c' = EmptyCollection
            /\ UNCHANGED <<tree, command, files, runs, crashes>>

(* From here on the atlas is the text of its files.  The names that the    *)
(* manifest in the directory lists; a manifest cut short lists none.       *)
PriorGeneratedNames(d) ==
    LET told == IF "manifest.json" \in DOMAIN d THEN d["manifest.json"] ELSE <<"torn">>
    IN  IF told = <<"torn">> THEN {} ELSE Range(Files(told)) \ {"manifest.json"}
(* Mutant of Unlink: what the last manifest lists is not looked at.        *)
Overwrite ==
    /\ pc = "unlink" /\ pc' = "write" /\ atlas' = None
    /\ UNCHANGED <<tree, command, todo, c, files, runs, crashes>>
Unlink ==
    /\ pc = "unlink"
    /\ disk' = Restrict(disk,
          DOMAIN disk \ (PriorGeneratedNames(disk) \ Range(Files(tree))))
    /\ pc' = "write" /\ atlas' = None
    /\ UNCHANGED <<tree, command, todo, c, drift, loose, runs, crashes>>
Holding(f, text) == [g \in {f} \cup DOMAIN disk |-> IF g = f THEN text ELSE disk[g]]
WriteFile ==
    /\ pc = "write" /\ todo # <<>>
    /\ disk' = Holding(Head(todo), Says(Head(todo), tree))
    /\ todo' = Tail(todo)
    /\ UNCHANGED <<tree, command, pc, c, atlas, drift, loose, runs, crashes>>
Finish ==
    /\ pc = "write" /\ todo = <<>>
    /\ pc' = "written" /\ command' = "none"
    /\ loose' = loose \ Range(Files(tree))
    /\ UNCHANGED <<tree, todo, c, atlas, disk, drift, runs, crashes>>

(* The command dies, or refuses a file that is a link: the files already   *)
(* written stay, the one at hand whole, missing or cut short.              *)
Crash ==
    /\ pc = "write" /\ todo # <<>> /\ tree \in Edits /\ crashes < MaxCrashes
    /\ \E torn \in BOOLEAN :
          disk' = IF torn THEN Holding(Head(todo), <<"torn">>) ELSE disk
    /\ loose' = DOMAIN disk' \ PriorGeneratedNames(disk')
    /\ pc' = "idle" /\ command' = "none" /\ todo' = <<>>
    /\ crashes' = crashes + 1
    /\ UNCHANGED <<tree, c, atlas, drift, runs>>

(* check_atlas: what the tree would be rendered to against what is there.  *)
Drift ==
    LET want == Range(Files(tree))
    IN  [added |-> want \ DOMAIN disk, removed |-> DOMAIN disk \ want,
         changed |-> {f \in want \cap DOMAIN disk : disk[f] # Says(f, tree)}]
CheckAtlas ==
    /\ pc = "compare"
    /\ drift' = Drift
    /\ pc' = "idle" /\ command' = "none" /\ atlas' = None
    /\ UNCHANGED <<tree, todo, c, disk, loose, runs, crashes>>

(* The next command finds another tree, or the same one.                   *)
Edit ==
    /\ pc \in {"idle", "written", "aborted"} /\ tree \in Edits /\ runs < MaxRuns
    /\ tree' \in Edits
    /\ pc' = "idle"
    /\ UNCHANGED <<command, todo, c, atlas, files, runs, crashes>>

Next ==
    \/ \E name \in {"atlas", "atlas-check"} : Begin(name)
    \/ LoadConfig \/ ReadManifest \/ CollectSource \/ ApplyOverlays \/ Assemble
    \/ Unlink \/ WriteFile \/ Finish \/ Crash \/ CheckAtlas \/ Edit
Spec == Init /\ [][Next]_vars

-----------------------------------------------------------------------------
(* The cycles that are reported are the strongly connected components of   *)
(* more than one node, between modules as between groups (graph.py:174).   *)
Reachable(arcs, nodes, n) ==
    FoldSet(LAMBDA step, near : near \cup UNION {Efferent(arcs, m) : m \in near},
            Efferent(arcs, n), nodes)
StronglyConnected(arcs, nodes) ==
    LET reach == [n \in nodes |-> Reachable(arcs, nodes, n)]
    IN  {{m \in reach[n] : n \in reach[m]} : n \in {n \in nodes : n \in reach[n]}}
CyclesAreComponents ==
    atlas # None => \A by \in Granularity :
        atlas.cycles[by] =
            StronglyConnected(Arcs(atlas.graph, by), MetricNodes(atlas.graph, by))

(* A project's declared dependency is drawn to the version its own lock    *)
(* file resolves, whichever manifest is listed first, and never to the     *)
(* version of another project (manifests.py:45-66, 75-88).                 *)
Eco(id) == <<id[2], id[3]>>
DeclaredMeetsItsOwnLock ==
    atlas # None =>
        LET keys == DOMAIN atlas.graph.edges
            locked(p) == {k.target : k \in {k \in keys :
                             k.source = p /\ k.scope = "package" /\ k.kind = "resolved-dependency"}}
        IN  \A k \in {k \in keys : k.scope = "package" /\ k.kind = "declares"} :
                IF \E id \in locked(k.source) : Eco(id) = Eco(k.target)
                THEN k.target \in locked(k.source) ELSE Len(k.target) = 3

(* Whatever the manifests, the imports and the overlays name, the edges    *)
(* that are collected end at nodes: no atlas is refused by the check of    *)
(* its edges (runner.py:51, model.py:184).                                 *)
EdgesEndAtNodes == pc = "assemble" => Integrity(c.graph)

(* After an atlas is written atlas-check finds nothing to report but files *)
(* no manifest lists, of which there are none but the operator's own until *)
(* a command dies (runner.py:190-226, 229-285).                            *)
WrittenAtlasHasNoDrift ==
    pc = "written" =>
        /\ Drift.added = {} /\ Drift.changed = {}
        /\ Drift.removed \subseteq loose
        /\ crashes = 0 => Drift.removed = HandMade

(* "Do not hand-edit it; update .sre/atlas.yaml, source, or imported       *)
(* evidence and regenerate" (render.py:78): regenerating leaves no drift   *)
(* but the operator's own files.                                           *)
RegeneratingSuffices == pc = "written" => Drift.removed = HandMade
=============================================================================
