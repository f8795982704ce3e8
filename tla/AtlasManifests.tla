--------------------------- MODULE AtlasManifests ---------------------------
(***************************************************************************)
(* The manifest adapters of the atlas: what each kind of manifest adds to  *)
(* the graph and to the index that the source resolvers look packages up   *)
(* in.  A collection c is a graph and an index; a manifest m is a record   *)
(* of what its text says, its notes being the annotations it yields.       *)
(*                                                                         *)
(* A name is a sequence of segments (group and artifact, the elements of a *)
(* Go path).  Lower and Dashed give the plain spelling of the segments     *)
(* that have another one.                                                  *)
(***************************************************************************)
EXTENDS AtlasGraph

CONSTANTS Lower, Dashed

EmptyIndex == [packages |-> <<>>, scoped |-> <<>>, go |-> <<>>, central |-> <<>>,
               paths |-> <<>>, imports |-> <<>>, licenses |-> <<>>,
               projectLicenses |-> {}]
EmptyCollection == [graph |-> EmptyGraph, index |-> EmptyIndex]

Get(f, x) == IF x \in DOMAIN f THEN f[x] ELSE None
Unknown(c, code, m) == [c EXCEPT !.graph = AddUnknown(@, code, m.project, m.path)]
ParseError(c, m) == Unknown(c, "manifest.parse-error", m)

Respell(f, name) ==
    [i \in DOMAIN name |-> IF name[i] \in DOMAIN f THEN f[name[i]] ELSE name[i]]
Normalize(eco, name) ==
    CASE eco = "pypi" -> Respell(Dashed, Respell(Lower, name))
      [] eco \in {"nuget", "npm"} -> Respell(Lower, name)
      [] OTHER -> name

(* ManifestIndex.package: the identifier a name is registered under, or    *)
(* none, without a project and with one.                                   *)
Registered(f, key) == {f[k] : k \in {key} \cap DOMAIN f}
AnyPackage(index, eco, name) == Registered(index.packages, <<eco, Normalize(eco, name)>>)
(* Mutant of Package: a project without the name takes another's.          *)
PackageOfAnyone(index, project, eco, name) ==
    LET own == Registered(index.scoped, <<project, eco, Normalize(eco, name)>>)
    IN  IF own # {} THEN own ELSE AnyPackage(index, eco, name)
Package(index, project, eco, name) ==
    Registered(index.scoped, <<project, eco, Normalize(eco, name)>>)
The(found, other) == IF found = {} THEN other ELSE CHOOSE id \in found : TRUE

(* A project's own entry is the last one, the global entry the first.      *)
Register(c, project, eco, name, id) ==
    LET plain == Normalize(eco, name)
    IN  [c EXCEPT !.index.scoped = Put(@, <<project, eco, plain>>, id),
                  !.index.packages = IF <<eco, plain>> \in DOMAIN @ THEN @
                                     ELSE Put(@, <<eco, plain>>, id)]

ProjectId(project) == <<"project", project>>
Annotate(c, project, notes) ==
    IF notes = {} THEN c
    ELSE [c EXCEPT !.graph = AddNode(@, ProjectId(project),
              [Blank EXCEPT !.type = "project", !.project = project,
                            !.group = <<project>>, !.notes = notes])]

AddPackage(c, m, eco, dep) ==
    LET id == The(Package(c.index, m.project, eco, dep.name),
                  <<"package", eco, Normalize(eco, dep.name)>>)
        node == [Blank EXCEPT !.group = <<eco>>, !.notes =
                    {<<"declaredBy", m.project>>, <<"declaredVersions", dep.version>>}]
        key == Key(ProjectId(m.project), id, "declares", "package", eco)
    IN  Register([c EXCEPT !.graph = AddEdge(AddNode(@, id, node), key, FALSE)],
                 m.project, eco, dep.name, id)
(* Entries without a name are passed over, or kept as unknowns.            *)
Declare(c, m, eco, deps) ==
    FoldLeft(LAMBDA d, dep : IF dep.name = None THEN d ELSE AddPackage(d, m, eco, dep),
             c, deps)

-----------------------------------------------------------------------------
Pyproject(c, m) ==
    IF ~m.table THEN c
    ELSE LET read == FoldLeft(LAMBDA d, dep :
                 IF dep.name = None THEN Unknown(d, "manifest.pep508-unsupported", m)
                 ELSE AddPackage(d, m, "pypi", dep), c, m.deps)
         IN  [read EXCEPT !.index.projectLicenses =
                 @ \cup {<<l, m.path>> : l \in {m.license} \ {None}}]
Requirements(c, m) == Declare(c, m, "pypi", m.deps)
Pom(c, m) == Declare(c, m, "maven", m.deps)
GoMod(c, m) ==
    LET named == IF m.module = None THEN c
                 ELSE [c EXCEPT !.index.go =
                          Put(@, m.project, [module |-> m.module, path |-> m.path])]
        read == Declare(named, m, "go", m.deps)
    IN  IF m.module = None THEN Unknown(read, "manifest.go-module-missing", m) ELSE read

(* imports maps a specifier to the paths its patterns make of it.          *)
PackageJson(c, m) ==
    LET noted == Annotate(c, m.project, m.notes)
        aliased == IF m.imports = <<>> THEN noted
                   ELSE [noted EXCEPT !.index.imports = Put(@, m.project, m.imports)]
    IN  Declare(aliased, m, "npm", m.deps)
(* A baseUrl that leaves the repository is an error.                       *)
TypescriptConfig(c, m) ==
    IF m.escapes THEN ParseError(c, m)
    ELSE Annotate([c EXCEPT !.index.paths = Put(@, m.project, m.imports)],
                  m.project, m.notes)
GlobalJson(c, m) == Annotate(c, m.project, m.notes)
DirectoryPackagesProps(c, m) ==
    Annotate(FoldLeft(LAMBDA d, dep :
                 IF None \in {dep.name, dep.version} THEN d
                 ELSE [d EXCEPT !.index.central =
                          Put(@, <<m.project, Normalize("nuget", dep.name)>>, dep.version)],
                 c, m.deps), m.project, m.notes)

-----------------------------------------------------------------------------
(* Lock files.  Every entry becomes a node of its exact version; those     *)
(* the project asks for itself are registered; Target finds the entry that *)
(* a dependency of an entry stands for.                                    *)
Resolved(eco, e) == <<"package", eco, Normalize(eco, e.name), e.version>>
ResolvedNode(c, m, eco, e) ==
    [c EXCEPT !.graph = AddNode(@, Resolved(eco, e),
        [Blank EXCEPT !.group = <<eco>>, !.version = e.version, !.notes =
            {<<"resolvedBy", m.path>>, <<"resolvedVersions", e.version>>}])]
Direct(c, m, eco, resolver, e) ==
    Register([c EXCEPT !.graph = AddEdge(@,
                  Key(ProjectId(m.project), Resolved(eco, e), "resolved-dependency",
                      "package", resolver), FALSE)],
             m.project, eco, e.name, Resolved(eco, e))
(* The entries and those their dependencies stand for, None for nothing.   *)
Links(entries, Target(_, _)) ==
    UNION {{<<e, Target(e, d)>> : d \in e.deps} : e \in Range(entries)}
DependsOn(c, eco, resolver, links) ==
    [c EXCEPT !.graph =
        FoldSet(LAMBDA l, g : AddEdge(g, Key(Resolved(eco, l[1]), Resolved(eco, l[2]),
                                             "depends-on", "package", resolver), FALSE),
                @, {l \in links : l[2] # None})]
Find(entries, Is(_)) ==
    IF \E e \in Range(entries) : Is(e) THEN CHOOSE e \in Range(entries) : Is(e) ELSE None

(* node_modules nearest to the dependent wins.                             *)
NpmLockTarget(entries, from, dep) ==
    LET at == {k \in 0 .. Len(from) : \E e \in Range(entries) :
                  e.path = SubSeq(from, 1, k) \o <<"node_modules", dep>>}
    IN  IF at = {} THEN None
        ELSE Find(entries, LAMBDA e : e.path =
                     SubSeq(from, 1, Max(at)) \o <<"node_modules", dep>>)
(* A package carries its name, or the directory it lies in does.           *)
NpmLockName(e) ==
    LET at == {k \in DOMAIN e.path : e.path[k] = "node_modules"}
    IN  IF e.name # None THEN e.name
        ELSE IF at = {} THEN None ELSE <<e.path[Max(at) + 1]>>
NpmNodes(c, m, entries) == FoldLeft(LAMBDA d, e : ResolvedNode(d, m, "npm", e), c, entries)
NpmRoots(c, m, entries) ==
    FoldLeft(LAMBDA d, dep :
                 LET e == NpmLockTarget(entries, <<>>, dep)
                 IN  IF e = None THEN d ELSE Direct(d, m, "npm", "npm-lock", e), c, m.roots)
PackageLock(c, m) ==
    LET noted == Annotate(c, m.project, m.notes)
        named == [k \in DOMAIN m.entries |->
                     [m.entries[k] EXCEPT !.name = NpmLockName(m.entries[k])]]
        entries == Only(named, {e \in Range(named) : None \notin {e.name, e.version}})
        rooted == NpmRoots(NpmNodes(noted, m, entries), m, entries)
    IN  IF ~m.flat THEN Unknown(noted, "resolver.npm-lock-v1-unavailable", m)
        ELSE DependsOn(rooted, "npm", "npm-lock", Links(entries,
                 LAMBDA e, dep : NpmLockTarget(entries, e.path, dep)))

(* packages.lock.json and project.assets.json: per target framework.       *)
FrameworkNodes(c, m, resolver, direct, entries) ==
    FoldLeft(LAMBDA d, e :
                 LET node == ResolvedNode(d, m, "nuget", e)
                 IN  IF e \in direct THEN Direct(node, m, "nuget", resolver, e) ELSE node,
             c, entries)
NugetTarget(entries, from, dep) ==
    Find(entries, LAMBDA e : e.tfm = from.tfm /\
                      Normalize("nuget", e.name) = Normalize("nuget", dep))
Frameworks(c, m, resolver, direct) ==
    LET entries == Only(m.entries, {e \in Range(m.entries) : e.type # "project"})
    IN  DependsOn(FrameworkNodes(c, m, resolver, direct, entries), "nuget", resolver,
                  Links(entries, LAMBDA e, dep : NugetTarget(entries, e, dep)))
NugetLock(c, m) ==
    Frameworks(c, m, "nuget-lock",
        {e \in Range(m.entries) : e.type \in {"direct", "centraltransitive"}})
ProjectAssets(c, m) ==
    LET asked == {Normalize("nuget", n) : n \in m.direct}
    IN  Frameworks(c, m, "nuget-assets",
            {e \in Range(m.entries) : Normalize("nuget", e.name) \in asked})

-----------------------------------------------------------------------------
(* A .csproj: its own node, its packages at their central version, and its *)
(* references up to the first that leaves the repository.                  *)
ProjectFile(path) == <<"project-file", Respell(Lower, path)>>
Unevaluated(c, m) == Unknown(c, "resolver.msbuild-evaluation-required", m)
AddProjectFile(c, m, path, notes) ==
    [c EXCEPT !.graph = AddNode(@, ProjectFile(path),
        [Blank EXCEPT !.type = "project", !.project = m.project, !.path = path,
                      !.group = <<"msbuild">>, !.notes = notes])]
PackageReference(c, m, ref) ==
    LET central == Get(c.index.central, <<m.project, Normalize("nuget", ref.name)>>)
        told == IF ref.conditional THEN Unevaluated(c, m) ELSE c
    IN  IF ref.name = None THEN c
        ELSE AddPackage(told, m, "nuget",
                 [name |-> ref.name,
                  version |-> IF ref.version = None THEN central ELSE ref.version])
ProjectReference(c, m, ref, files) ==
    LET told == IF ref.conditional THEN Unevaluated(c, m) ELSE c
        key == Key(ProjectFile(m.path), ProjectFile(ref.target), "project-reference",
                   "source", "msbuild")
    IN  IF ref.expression THEN Unevaluated(c, m)
        ELSE [AddProjectFile(told, m, ref.target, {}) EXCEPT
                 !.graph = AddEdge(@, key, ref.target \notin files)]
PackageReferences(c, m) == FoldLeft(LAMBDA d, r : PackageReference(d, m, r), c, m.packages)
ProjectReferences(c, m, refs, files) ==
    FoldLeft(LAMBDA d, r : ProjectReference(d, m, r, files), c, refs)
Csproj(c, m, files) ==
    LET told == IF m.expression THEN Unevaluated(c, m) ELSE c
        own == AddProjectFile(Annotate(told, m.project, m.notes), m, m.path, m.notes)
        placed == [own EXCEPT !.graph = AddEdge(@,
                      Key(ProjectId(m.project), ProjectFile(m.path), "contains-project",
                          "source", "msbuild"), FALSE)]
        leaves(r) == r.target = None /\ ~r.expression
        inside == SelectInSeq(m.references, leaves)
        refs == IF inside = 0 THEN m.references ELSE SubSeq(m.references, 1, inside - 1)
        read == ProjectReferences(PackageReferences(placed, m), m, refs, files)
    IN  IF inside = 0 THEN read ELSE ParseError(read, m)

-----------------------------------------------------------------------------
(* collect_manifests: within a project, versions first, then locks.        *)
Priority(m) ==
    CASE m.kind \in {"global.json", "Directory.Packages.props", "tsconfig.json"} -> 0
      [] m.kind \in {"package-lock.json", "packages.lock.json", "project.assets.json"} -> 1
      [] m.kind = "csproj" -> 3
      [] OTHER -> 2
InOrder(manifests) ==
    LET rank(k) == Only(manifests, {m \in Range(manifests) : Priority(m) = k})
    IN  rank(0) \o rank(1) \o rank(2) \o rank(3)

Read(c, m, files) ==
    CASE m.kind = "pyproject.toml" -> Pyproject(c, m)
      [] m.kind = "package.json" -> PackageJson(c, m)
      [] m.kind = "package-lock.json" -> PackageLock(c, m)
      [] m.kind = "tsconfig.json" -> TypescriptConfig(c, m)
      [] m.kind = "pom.xml" -> Pom(c, m)
      [] m.kind = "csproj" -> Csproj(c, m, files)
      [] m.kind = "Directory.Packages.props" -> DirectoryPackagesProps(c, m)
      [] m.kind = "global.json" -> GlobalJson(c, m)
      [] m.kind = "packages.lock.json" -> NugetLock(c, m)
      [] m.kind = "project.assets.json" -> ProjectAssets(c, m)
      [] m.kind = "sln" -> Unknown(c, "resolver.msbuild-project-graph-required", m)
      [] m.kind = "go.mod" -> GoMod(c, m)
      [] m.kind = "requirements.txt" -> Requirements(c, m)
      [] m.kind = "build.gradle" -> Unknown(c, "resolver.gradle-build-required", m)
      [] OTHER -> Unknown(c, "resolver.manifest-unsupported", m)
(* What no handler catches: the report of a manifest too large to read, or *)
(* a link, is itself evidence from it; a framework of project.assets.json  *)
(* whose dependencies are no list is a TypeError.                          *)
Uncaught(m) ==
    m.state = "oversized" \/ (m.kind = "project.assets.json" /\ m.state = "untyped")
Adapted(c, m, files) ==
    IF m.state = "missing" THEN Unknown(c, "manifest.missing", m)
    ELSE IF m.state = "broken" THEN ParseError(c, m)
    ELSE Read(c, m, files)
=============================================================================
