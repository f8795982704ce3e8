--------------------------- MODULE AtlasOverlays ---------------------------
(***************************************************************************)
(* The overlays: runtime evidence, bills of materials, coverage reports,   *)
(* code owners and the history of changes, laid over the collected graph.  *)
(* An overlay o is a record of its path, the state of its file and what    *)
(* the file says.                                                          *)
(***************************************************************************)
EXTENDS AtlasManifests

Overlay(c, code, o) == [c EXCEPT !.graph = AddUnknown(@, code, None, o.path)]

(* Services nobody declared are added as unmapped.                         *)
RuntimeNode(c, id, type, project, group) ==
    [c EXCEPT !.graph = AddNode(@, id, [Blank EXCEPT
        !.type = type, !.project = project, !.group = <<group>>])]
(* Mutant of Ends: an edge is drawn between whatever it names.             *)
Untold(c, e) == c
Ends(c, e) ==
    FoldLeft(LAMBDA d, id : IF id \in DOMAIN d.graph.nodes THEN d
                            ELSE RuntimeNode(d, id, "unknown", None, "runtime-unmapped"),
             c, <<e.source, e.target>>)
RuntimeService(c, n) == RuntimeNode(c, n.id, n.type, n.project, "runtime")
RuntimeEdge(c, e) ==
    [Ends(c, e) EXCEPT !.graph = AddEdge(@,
        Key(e.source, e.target, e.kind, "runtime", "runtime-evidence"), FALSE)]
(* What is read as evidence but refused as a node or an edge, a name or an *)
(* end of it being empty: nothing catches that.                            *)
RuntimeRefused(o) ==
    o.state = "ok" /\ \E x \in Range(o.nodes) \cup Range(o.edges) : x.blank
Runtime(c, o) ==
    CASE o.state = "missing" -> Overlay(c, "overlay.runtime-missing", o)
      [] o.state \notin {"ok", "missing"} -> Overlay(c, "overlay.runtime-invalid", o)
      [] OTHER -> FoldLeft(RuntimeEdge, FoldLeft(RuntimeService, c, o.nodes), o.edges)

(* A component is the package of its name that some manifest knows, of     *)
(* whatever version, or a node of its own; the last record of a node's     *)
(* licenses replaces the one before.                                       *)
ComponentId(c, p) ==
    The(IF p.eco = None THEN {} ELSE AnyPackage(c.index, p.eco, p.name),
        <<"package", "cyclonedx", p.ref>>)
AddComponent(c, p) ==
    LET id == ComponentId(c, p)
        node == [Blank EXCEPT !.version = p.version, !.licenses = p.licenses,
                              !.group = <<IF p.eco = None THEN "cyclonedx" ELSE p.eco>>]
    IN  [c EXCEPT !.graph = AddNode(@, id, node), !.index.licenses =
            Put(@, id, [versions |-> {p.version} \ {None}, licenses |-> p.licenses])]
(* Of two components of one reference the later one is meant.              *)
LinkComponents(d, l, c, o, parts) ==
    LET refs == {p.ref : p \in Range(parts)}
        id(ref) == ComponentId(c, parts[Max({k \in DOMAIN parts : parts[k].ref = ref})])
    IN  IF l[1] \notin refs THEN d
        ELSE IF l[2] \notin refs THEN Overlay(d, "overlay.sbom-unmapped-ref", o)
        ELSE [d EXCEPT !.graph = AddEdge(@, Key(id(l[1]), id(l[2]), "depends-on",
                                                "sbom", "cyclonedx-json"), FALSE)]
Cyclonedx(c, o) ==
    LET parts == Only(o.components, {p \in Range(o.components) : p.name # None})
    IN  CASE o.state = "missing" -> Overlay(c, "overlay.sbom-missing", o)
          [] o.state = "broken" -> Overlay(c, "overlay.sbom-invalid-json", o)
          [] o.state = "foreign" -> Overlay(c, "overlay.sbom-unsupported", o)
          [] OTHER -> FoldLeft(LAMBDA d, l : LinkComponents(d, l, c, o, parts),
                               FoldLeft(AddComponent, c, parts), o.links)

(* A report names a file by any suffix of its path that fits one file.     *)
Covered(g, file) ==
    {id \in DOMAIN g.nodes : LET n == g.nodes[id] IN
        n.path # None /\ n.type \in {"module", "test"} /\ IsSuffix(file, n.path)}
CoverClass(c, k, o) ==
    LET ids == Covered(c.graph, k.file)
    IN  IF Cardinality(ids) = 1
        THEN [c EXCEPT !.graph.nodes[CHOOSE id \in ids : TRUE].coverage = k.rate]
        ELSE IF ids = {} THEN c
        ELSE Overlay(c, "overlay.coverage-ambiguous-path", o)
Coverage(c, o) ==
    CASE o.state = "missing" -> Overlay(c, "overlay.coverage-missing", o)
      [] o.state \notin {"ok", "missing"} -> Overlay(c, "overlay.coverage-invalid", o)
      [] OTHER -> FoldLeft(LAMBDA d, k : CoverClass(d, k, o), c, o.classes)

(* A pattern without a slash matches a segment anywhere; a directory       *)
(* matches what is below it, and files right in a directory of its name.   *)
CodeownersMatch(path, p) ==
    CASE p.kind = "segment" -> p.segments \cap Range(path) # {}
      [] p.kind = "directory" -> \/ IsPrefix(p.path, SubSeq(path, 1, Len(path) - 2))
                                 \/ IsSuffix(p.path, SubSeq(path, 1, Len(path) - 2))
      [] OTHER -> IsSuffix(p.path, path)
(* The last rule that matches owns the file; escaped spaces are not read.  *)
Owned(nodes, rules) ==
    LET owning(n) == IF n.path = None THEN {}
                     ELSE {k \in DOMAIN rules : CodeownersMatch(n.path, rules[k])}
    IN  [id \in DOMAIN nodes |->
            IF owning(nodes[id]) = {} THEN nodes[id]
            ELSE [nodes[id] EXCEPT !.owners = @ \cup rules[Max(owning(nodes[id]))].owners]]
(* The first candidate there is, which may be too large or a link: nothing *)
(* catches that.                                                           *)
Existing(candidates) == Only(candidates, {o \in Range(candidates) : o.state # "missing"})
CodeownersRefused(candidates) ==
    LET present == Existing(candidates)
    IN  present # <<>> /\ Head(present).state = "oversized"
Codeowners(c, candidates) ==
    LET present == Existing(candidates)
        o == Head(present)
        rules == Only(o.rules, {r \in Range(o.rules) : ~r.escaped})
        told == IF \E r \in Range(o.rules) : r.escaped
                THEN Overlay(c, "overlay.codeowners-escaped-space", o) ELSE c
    IN  IF candidates = <<>> THEN c
        ELSE IF present = <<>>
        THEN Overlay(c, "overlay.codeowners-missing", [path |-> None])
        ELSE [told EXCEPT !.graph.nodes = Owned(@, rules)]

CountChanges(nodes, counts) ==
    [id \in DOMAIN nodes |->
        IF nodes[id].path \in DOMAIN counts
        THEN [nodes[id] EXCEPT !.changes = counts[nodes[id].path]] ELSE nodes[id]]
(* git's answer: None without git or when it fails.                        *)
ChangeHistory(c, h) ==
    IF h.counts = None THEN Overlay(c, h.reason, [path |-> None])
    ELSE [c EXCEPT !.graph.nodes = CountChanges(@, h.counts)]

ProjectLicense(index, files) ==
    LET values == {d[1] : d \in index.projectLicenses}
    IN  IF Cardinality(values) > 1 THEN "CONFLICT"
        ELSE IF values # {} THEN CHOOSE v \in values : TRUE
        ELSE IF files # {} THEN "FILE_PRESENT_UNCLASSIFIED" ELSE "UNKNOWN"

(* Every package has a record: the one of a bill of materials, or what its *)
(* own node says.                                                          *)
LicenseInventory(c) ==
    LET g == c.graph
        own == {id \in DOMAIN g.nodes :
                   g.nodes[id].type = "package" /\ g.nodes[id].group # <<"python-stdlib">>}
        declared(n) == {x[2] : x \in {x \in n.notes : x[1] = "declaredVersions"}}
    IN  c.index.licenses @@
        [id \in own |-> LET n == g.nodes[id] IN
            [versions |-> IF declared(n) # {} THEN declared(n) ELSE {n.version} \ {None},
             licenses |-> n.licenses]]
=============================================================================
