---------------------------- MODULE AtlasSource ----------------------------
(***************************************************************************)
(* The source resolvers of the atlas: the files under the configured roots *)
(* and where each of their imports leads.                                  *)
(*                                                                         *)
(* A path is the sequence of its segments, the suffix apart; so is a       *)
(* dotted or slashed name.  A file r says what its syntax tree says: the   *)
(* package or namespace it declares, its types, its references in order.   *)
(***************************************************************************)
EXTENDS AtlasManifests

CONSTANTS Stdlib, AnySuffix, NodeSuffixes

ModuleId(r) == <<IF r.test THEN "test" ELSE "module", r.project, r.path>>
Dir(path) == SubSeq(path, 1, Len(path) - 2)
Within(r) == SubSeq(Dir(r.path), Len(r.root) + 1, Len(Dir(r.path)))
UpTo(seq, n) == SubSeq(seq, 1, IF n < Len(seq) THEN n ELSE Len(seq))
(* The longest prefix that is known, the empty one when none is.           *)
LongestPrefix(name, known) ==
    SubSeq(name, 1, Max({0} \cup {k \in 1 .. Len(name) : SubSeq(name, 1, k) \in known}))

(* discover_source: what is excluded, linked, too large or of no known     *)
(* language is passed over.                                                *)
Discover(c, r) ==
    LET group == IF Within(r) = <<>> THEN <<r.project>> ELSE UpTo(Within(r), 2)
        node == [Blank EXCEPT !.type = IF r.test THEN "test" ELSE "module",
                              !.project = r.project, !.path = r.path, !.group = group]
    IN  IF ~r.listed THEN c
        ELSE [c EXCEPT !.graph = AddEdge(AddNode(@, ModuleId(r), node),
                  Key(ProjectId(r.project), ModuleId(r), "contains", "structure",
                      "scope"), FALSE)]
Grouped(c, r, group) == [c EXCEPT !.graph.nodes[ModuleId(r)].group = group]

SourceEdge(c, r, target) ==
    IF target = ModuleId(r) THEN c
    ELSE [c EXCEPT !.graph = AddEdge(@, Key(ModuleId(r), target, "imports",
              IF r.test THEN "test" ELSE "source", r.language), FALSE)]
External(c, r, id, group, unresolved) ==
    [c EXCEPT !.graph = AddEdge(
        AddNode(@, id, [Blank EXCEPT !.group = <<group>>,
                                     !.notes = {<<"importedBy", r.project>>}]),
        Key(ModuleId(r), id, "imports", "source-external", r.language), unresolved)]
ExternalEdge(c, r, eco, name) == External(c, r, <<"import", eco, name>>, eco, TRUE)
AddNamespace(c, r, language, name) ==
    [c EXCEPT !.graph = AddNode(@, <<"namespace", language, name>>,
        [Blank EXCEPT !.type = "namespace", !.project = r.project, !.group = name])]
PackageEdge(c, r, id, kind) ==
    [c EXCEPT !.graph = AddEdge(@, Key(ModuleId(r), id, kind, "package-import",
                                       r.language), FALSE)]
Dynamic(c, r) == Unknown(c, "resolver.dynamic", r)

-----------------------------------------------------------------------------
(* Python.  A source root that is itself a package lends its name.  Of two *)
(* files of one module name, the later one is the module.                  *)
IsPackage(r) == r.path[Len(r.path) - 1] = "__init__"
PythonModule(r, files) ==
    LET stem == SubSeq(r.path, Len(r.root) + 1, Len(r.path) - 1)
        name == IF IsPackage(r) THEN Front(stem) ELSE stem
    IN  IF r.root \o <<"__init__", "py">> \in files THEN <<Last(r.root)>> \o name ELSE name
ModuleByName(records, files) ==
    LET named == Only(records, {r \in Range(records) : PythonModule(r, files) # <<>>})
    IN  FoldLeft(LAMBDA f, r : Put(f, PythonModule(r, files), r), <<>>, named)

(* The modules that `from base import names` may mean; a level that climbs *)
(* above the root leaves the written name.                                 *)
FromTargets(module, r, ref, known) ==
    LET package == IF IsPackage(r) THEN module ELSE Front(module)
        climbs == ref.level > 0 /\ (package = <<>> \/ ref.level > Len(package))
        base == IF ref.level = 0 THEN ref.name
                ELSE SubSeq(package, 1, Len(package) - ref.level + 1) \o ref.name
        target(n) == IF Append(base, n) \in known THEN Append(base, n)
                     ELSE IF base = <<>> THEN <<n>> ELSE base
    IN  IF climbs THEN {ref.name} ELSE {target(n) : n \in ref.names}
PythonEdge(c, r, imported, modules) ==
    LET found == LongestPrefix(imported, DOMAIN modules)
        top == UpTo(imported, 1)
    IN  IF found # <<>> THEN SourceEdge(c, r, ModuleId(modules[found]))
        ELSE IF top # <<>> /\ Range(top) \subseteq Stdlib
        THEN External(c, r, <<"package", "python-stdlib", top>>, "python-stdlib", FALSE)
        ELSE ExternalEdge(c, r, "python", top)
PythonRefer(c, r, module, ref, modules) ==
    CASE ref.kind = "import" -> PythonEdge(c, r, ref.name, modules)
      [] ref.kind = "from" ->
            FoldSet(LAMBDA t, d : PythonEdge(d, r, t, modules), c,
                    FromTargets(module, r, ref, DOMAIN modules))
      [] OTHER -> Dynamic(c, r)
PythonFile(c, r, module, modules) ==
    IF ~r.parses THEN Unknown(c, "resolver.python-syntax-error", r)
    ELSE FoldLeft(LAMBDA d, ref : PythonRefer(d, r, module, ref, modules), c, r.refs)
PythonGroup(c, r, files) ==
    LET module == PythonModule(r, files)
    IN  IF module = <<>> THEN c ELSE Grouped(c, r, UpTo(module, 2))
Python(c, records, files) ==
    LET modules == ModuleByName(records, files)
    IN  FoldSet(LAMBDA module, d : PythonFile(d, modules[module], module, modules),
                FoldLeft(LAMBDA d, r : PythonGroup(d, r, files), c, records),
                DOMAIN modules)

-----------------------------------------------------------------------------
(* Java: a type, else a package of this repository, else unresolved.       *)
JavaRefer(c, r, ref, symbols, packages) ==
    LET found == LongestPrefix(ref.name, DOMAIN symbols)
        package == IF ref.kind = "wildcard" THEN ref.name ELSE Front(ref.name)
    IN  IF found # <<>> THEN SourceEdge(c, r, ModuleId(symbols[found]))
        ELSE IF package \in packages
        THEN SourceEdge(AddNamespace(c, r, "java", package), r, <<"namespace", "java", package>>)
        ELSE ExternalEdge(c, r, "java", ref.name)
JavaFile(c, r, symbols, packages) ==
    FoldLeft(LAMBDA d, ref : JavaRefer(d, r, ref, symbols, packages), c, r.refs)
JavaGroup(c, r) == Grouped(c, r, IF r.decl = <<>> THEN <<r.project>> ELSE r.decl)
AddTypes(f, r) ==
    LET names == {Append(r.decl, n) : n \in r.types}
    IN  [s \in names \cup DOMAIN f |-> IF s \in names THEN r ELSE f[s]]
JavaSymbols(records) == FoldLeft(AddTypes, <<>>, records)
Java(c, records) ==
    LET symbols == JavaSymbols(records)
        packages == {r.decl : r \in Range(records)}
    IN  FoldLeft(LAMBDA d, r : JavaFile(d, r, symbols, packages),
                 FoldLeft(JavaGroup, c, records), records)

(* C#: the longest namespace of this repository, else unresolved.          *)
CsharpGroup(c, r) ==
    IF r.decl = <<>> THEN Grouped(c, r, <<r.project>>)
    ELSE AddNamespace(Grouped(c, r, r.decl), r, "csharp", r.decl)
CsharpRefer(c, r, ref, namespaces) ==
    LET found == LongestPrefix(ref.name, namespaces)
    IN  IF found # <<>> THEN SourceEdge(c, r, <<"namespace", "csharp", found>>)
        ELSE ExternalEdge(c, r, "nuget-namespace", ref.name)
CsharpFile(c, r, namespaces) ==
    FoldLeft(LAMBDA d, ref : CsharpRefer(d, r, ref, namespaces), c, r.refs)
Csharp(c, records) ==
    LET namespaces == {r.decl : r \in Range(records)} \ {<<>>}
    IN  FoldLeft(LAMBDA d, r : CsharpFile(d, r, namespaces),
                 FoldLeft(CsharpGroup, c, records), records)

(* Go: a directory of the module the project's go.mod names, else a        *)
(* package that some go.mod requires, else unresolved.                     *)
InModule(go, r) == r.project \in DOMAIN go /\ IsPrefix(Dir(go[r.project].path), Dir(r.path))
ImportPath(go, r) ==
    go[r.project].module \o
        SubSeq(Dir(r.path), Len(Dir(go[r.project].path)) + 1, Len(Dir(r.path)))
GoGroup(c, r, go) ==
    LET grouped == Grouped(c, r, Dir(r.path))
    IN  IF InModule(go, r) THEN AddNamespace(grouped, r, "go", ImportPath(go, r)) ELSE grouped
GoRefer(c, r, ref, go, records) ==
    LET local == {ImportPath(go, o) : o \in {o \in Range(records) :
                                        o.project = r.project /\ InModule(go, o)}}
        package == AnyPackage(c.index, "go", ref.name)
    IN  IF ref.name \in local THEN SourceEdge(c, r, <<"namespace", "go", ref.name>>)
        ELSE IF package # {} THEN PackageEdge(c, r, The(package, None), "imports")
        ELSE ExternalEdge(c, r, "go", ref.name)
GoFile(c, r, go, records) ==
    FoldLeft(LAMBDA d, ref : GoRefer(d, r, ref, go, records), c, r.refs)
Go(c, records) ==
    LET go == c.index.go
    IN  FoldLeft(LAMBDA d, r : GoFile(d, r, go, records),
                 FoldLeft(LAMBDA d, r : GoGroup(d, r, go), c, records), records)

-----------------------------------------------------------------------------
(* JavaScript and TypeScript.                                              *)
(* None for a path that climbs out of the repository, <<>> for its root.   *)
Resolve(path) ==
    FoldLeft(LAMBDA p, s : IF p = None THEN None
                           ELSE IF s = "." THEN p
                           ELSE IF s # ".." THEN Append(p, s)
                           ELSE IF p = <<>> THEN None ELSE Front(p), <<>>, path)
(* A path with a suffix, of whatever kind, is only tried as it is.         *)
Candidates(base) ==
    IF Last(base) \in AnySuffix THEN <<base>>
    ELSE [k \in DOMAIN NodeSuffixes |-> Append(base, NodeSuffixes[k])] \o
         [k \in DOMAIN NodeSuffixes |-> base \o <<"index", NodeSuffixes[k]>>]
FirstNodeTarget(base, records) ==
    LET at == {k \in DOMAIN Candidates(base) :
                  \E r \in Range(records) : r.path = Candidates(base)[k]}
    IN  IF base \in {None, <<>>} \/ at = {} THEN None
        ELSE CHOOSE r \in Range(records) : r.path = Candidates(base)[Min(at)]
(* The first of the paths an alias maps the specifier to that is a file.   *)
Aliased(index, r, spec) ==
    LET of(aliases) == IF aliases = None THEN <<>>
                       ELSE IF spec \in DOMAIN aliases THEN aliases[spec] ELSE <<>>
    IN  of(Get(index.imports, r.project)) \o
        (IF r.language = "javascript" THEN <<>> ELSE of(Get(index.paths, r.project)))
Mapped(index, r, spec, records) ==
    LET paths == Aliased(index, r, spec)
        hits == Only(paths, {p \in Range(paths) : FirstNodeTarget(p, records) # None})
    IN  IF hits = <<>> THEN None ELSE FirstNodeTarget(Head(hits), records)
JavascriptSpecifier(c, r, ref, records) ==
    LET spec == ref.name
        mapped == Mapped(c.index, r, spec, records)
        near == FirstNodeTarget(Resolve(Dir(r.path) \o spec), records)
        builtin == <<"namespace", "node", Tail(spec)>>
        package == Package(c.index, r.project, "npm", <<Head(spec)>>)
        kind == IF ref.kind = "dynamic" THEN "dynamic-imports" ELSE "imports"
    IN  IF mapped # None THEN SourceEdge(c, r, ModuleId(mapped))
        ELSE IF Head(spec) \in {".", ".."}
        THEN IF near # None THEN SourceEdge(c, r, ModuleId(near))
             ELSE ExternalEdge(c, r, "javascript-relative", spec)
        ELSE IF Head(spec) = "node:"
        THEN PackageEdge([c EXCEPT !.graph = AddNode(@, builtin,
                 [Blank EXCEPT !.type = "namespace", !.group = <<"node-builtin">>])],
                 r, builtin, kind)
        ELSE IF package # {} THEN PackageEdge(c, r, The(package, None), kind)
        ELSE ExternalEdge(c, r, "npm", <<Head(spec)>>)
JavascriptRefer(c, r, ref, records) ==
    IF ref.name = <<>> THEN Dynamic(c, r) ELSE JavascriptSpecifier(c, r, ref, records)
JavascriptFile(c, r, records) ==
    FoldLeft(LAMBDA d, ref : JavascriptRefer(d, r, ref, records), c, r.refs)
JavascriptGroup(c, r) == Grouped(c, r, Dir(r.path))
Javascript(c, records) ==
    FoldLeft(LAMBDA d, r : JavascriptFile(d, r, records),
             FoldLeft(JavascriptGroup, c, records), records)

-----------------------------------------------------------------------------
(* What a reference may name that nothing catches: the build is aborted.   *)
(* The root of the repository, tried as a file, has no name to put a       *)
(* suffix to.                                                              *)
Rootward(index, r, spec, records) ==
    LET paths == Aliased(index, r, spec)
        hits == {k \in DOMAIN paths : FirstNodeTarget(paths[k], records) # None}
    IN  \/ \E k \in DOMAIN paths : paths[k] = <<>> /\ \A hit \in hits : k < hit
        \/ /\ hits = {} /\ Head(spec) \in {".", ".."}
           /\ Resolve(Dir(r.path) \o spec) = <<>>
TriesTheRoot(c, records) ==
    \E r \in Range(records) : \E ref \in Range(r.refs) :
        ref.name # <<>> /\ Rootward(c.index, r, ref.name, records)
(* A node wants a name: `from . import` above the root, a path from "/",   *)
(* and the default package of Java have none.  A builtin is named node:.   *)
Nameless(g) ==
    \E id \in DOMAIN g.nodes :
        /\ id[1] \in {"import", "namespace"} /\ id[2] # "node"
        /\ id[3] \in {<<>>, <<"">>}
=============================================================================
